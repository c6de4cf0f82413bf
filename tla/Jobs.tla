-------------------------------- MODULE Jobs --------------------------------
(***************************************************************************)
(* The time-driven jobs over the decisions on record: EscalationSweep and  *)
(* SlaBreachSweep, against the acknowledgement of an escalation and the    *)
(* manual override of a decision.                                          *)
(*                                                                         *)
(* The repository leaves the scheduling to cron or the like; the scheduler *)
(* here reads policy and events from their repositories, calls run() and   *)
(* saves what it returns, one decision after the other, each kind of sweep *)
(* at most once at a time.  Time is in minutes and is looked at only at    *)
(* the instants in Instant.  In memory the repositories hand out the       *)
(* stored objects themselves, in PostgreSQL copies that no repository      *)
(* writes back.                                                            *)
(***************************************************************************)
EXTENDS Naturals, Sequences, SequencesExt

CONSTANTS
    Incident,        \* incidents; a decision is known by its incident's id
    Verdict,         \* Verdict[i]: the priority and targetSLA the decision on i may have
    Instant,         \* the minutes at which something may happen
    Threshold,       \* SlaBreachSweep.threshold_fraction, in percent
    Backends,        \* persistence_backend: subset of {"memory", "postgres"}
    MaxOperator      \* bound: overrides and acknowledgements by operators

VARIABLES
    backend,    \* the configured backend
    now,        \* the time
    decisions,  \* decisions[i]: the decision on record; "decided" remembers the
                \* priority it was made with
    events,     \* events[i]: the escalation events, as they were saved
    overrides,  \* overrides[i]: the manual overrides, as they were saved
    esc,        \* the decisions the escalation job has still to look at
    sla,        \* those the SLA sweep has, and the time it began
    operator    \* number of overrides and acknowledgements so far

vars == <<backend, now, decisions, events, overrides, esc, sla, operator>>
-----------------------------------------------------------------------------
\* _SEVERITY_ORDER
Severity == <<"Low", "Medium", "High", "Critical">>
Band == ToSet(Severity)
Rank(band) == CHOOSE k \in DOMAIN Severity : Severity[k] = band

\* _DEFAULT_POLICIES: the minutes until each level, in the order of the levels.
Level == <<"ENGINEER", "REGIONAL_MANAGER", "NATIONAL_NOC", "VENDOR", "OEM">>
Timeouts == [Critical |-> <<5, 15, 30, 60, 120>>, High |-> <<15, 30, 60, 120>>,
             Medium |-> <<30, 90>>, Low |-> <<120>>]

\* EscalationPolicyRepository.get_for_severity: level k and its timeout; a
\* priority that is no band has no policy.
Policy(priority) == IF priority \in Band THEN Timeouts[priority] ELSE <<>>

\* A targetSLA is empty, a number of minutes or hours, or cannot be read.
NoTarget == [n |-> 0, unit |-> "none"]
Unreadable == [n |-> 0, unit |-> "unreadable"]

\* _parse_duration_minutes
Minutes(target) == IF target.unit = "hours" THEN 60 * target.n ELSE target.n

NoDecision == [priority |-> "absent"]
IdleSla == [todo |-> <<>>, at |-> 0]

ASSUME JobsConstants ==
    /\ \A i \in Incident : Verdict[i] \subseteq
         [priority: Band \cup {"none", "other"},
          target: [n: Nat, unit: {"none", "unreadable", "minutes", "hours"}]]
    /\ Instant \subseteq Nat /\ 0 \in Instant
    /\ Threshold \in 1..100
    /\ Backends \subseteq {"memory", "postgres"} /\ Backends # {}
    /\ MaxOperator \in Nat

Init ==
    /\ backend \in Backends
    /\ now = 0
    /\ decisions = [i \in Incident |-> NoDecision]
    /\ events = [i \in Incident |-> <<>>]
    /\ overrides = [i \in Incident |-> <<>>]
    /\ esc = <<>> /\ sla = IdleSla /\ operator = 0

OnRecord(i) == decisions[i] # NoDecision
-----------------------------------------------------------------------------
\* Time passes.
Tick ==
    /\ \E t \in Instant : t > now /\ now' = t /\ \A u \in Instant : u > now => t <= u
    /\ UNCHANGED <<backend, decisions, events, overrides, esc, sla, operator>>

\* An evaluation saved its decision (module Incidents).
Decide(i) ==
    /\ ~OnRecord(i)
    /\ \E v \in Verdict[i] :
         decisions' = [decisions EXCEPT ![i] =
            [priority |-> v.priority, decided |-> v.priority, target |-> v.target,
             created |-> now, resolved |-> FALSE]]
    /\ UNCHANGED <<backend, now, events, overrides, esc, sla, operator>>

\* The incident is closed.
Resolve(i) ==
    /\ OnRecord(i) /\ ~decisions[i].resolved
    /\ decisions' = [decisions EXCEPT ![i].resolved = TRUE]
    /\ UNCHANGED <<backend, now, events, overrides, esc, sla, operator>>
-----------------------------------------------------------------------------
\* The scheduler lists the decisions, in any order.
Listings == {s \in SetToSeqs({i \in Incident : OnRecord(i)}) : s # <<>>}

EscalationBegin ==
    /\ esc = <<>>
    /\ esc' \in Listings
    /\ UNCHANGED <<backend, now, decisions, events, overrides, sla, operator>>

\* Mutants: a level is due at the time of the one before; levels below one
\* that is open are forgotten.
DueEarly(policy, triggered, elapsed) ==
    {k \in DOMAIN policy : elapsed >= IF k = 1 THEN policy[k] ELSE policy[k - 1]} \ triggered

DueBeyond(policy, triggered, elapsed) ==
    {k \in DOMAIN policy : elapsed >= policy[k] /\ \A t \in triggered : t < k}

\* The levels whose timeout has elapsed and that no event is recorded for.
Due(policy, triggered, elapsed) ==
    {k \in DOMAIN policy : elapsed >= policy[k]} \ triggered

\* The loop keeps the last level that is due.
Furthest(due) == CHOOSE k \in due : \A l \in due : l <= k

\* EscalationEvent
Event(i, k) == [level |-> k, at |-> now, acknowledged |-> FALSE]

\* triggered_levels: those of the events list_by_decision returns.
Triggered(i) == {e.level : e \in ToSet(events[i])}

\* EscalationSweep.run of the next decision, with its policy and its events,
\* and the save of the event it returns.
EscalationStep ==
    /\ esc # <<>> /\ esc' = Tail(esc)
    /\ LET i == Head(esc)
           due == Due(Policy(decisions[i].priority), Triggered(i),
                      now - decisions[i].created)
       IN events' = IF due = {} THEN events
                    ELSE [events EXCEPT ![i] = Append(@, Event(i, Furthest(due)))]
    /\ UNCHANGED <<backend, now, decisions, overrides, sla, operator>>

\* AcknowledgeEscalationUseCase.execute
Acknowledge(i) ==
    /\ operator < MaxOperator /\ operator' = operator + 1
    /\ \E k \in DOMAIN events[i] :
         /\ ~events[i][k].acknowledged
         /\ events' = IF backend = "memory"
                      THEN [events EXCEPT ![i][k].acknowledged = TRUE] ELSE events
    /\ UNCHANGED <<backend, now, decisions, overrides, esc, sla>>
-----------------------------------------------------------------------------
\* SlaBreachSweep.run is called with the decisions.
SlaBegin ==
    /\ sla = IdleSla
    /\ \E order \in Listings : sla' = [todo |-> order, at |-> now]
    /\ UNCHANGED <<backend, now, decisions, events, overrides, esc, operator>>

\* What the loop of SlaBreachSweep.run gets as far as parsing the target of.
Checked(d) == ~d.resolved /\ d.priority # "none" /\ d.target # NoTarget

\* Mutant: the threshold is not applied.
OverdueAtOnce(d, at) == TRUE

\* elapsed_minutes >= target_minutes * threshold_fraction
Overdue(d, at) == 100 * (at - d.created) >= Threshold * Minutes(d.target)

\* Mutant: index 0 of _SEVERITY_ORDER is taken for no index.
BumpedFromSecond(d) ==
    IF Rank(d.priority) \in {1, Len(Severity)} THEN d
    ELSE [d EXCEPT !.priority = Severity[Rank(@) + 1]]

\* The next band, up to the last.
Bumped(d) ==
    IF Rank(d.priority) = Len(Severity) THEN d
    ELSE [d EXCEPT !.priority = Severity[Rank(@) + 1]]

\* One round of the loop; int() of a target that is no number ends the sweep,
\* and a priority that is no band is left alone.
SlaStep ==
    /\ sla.todo # <<>>
    /\ LET i == Head(sla.todo)  d == decisions[i]
           raises == Checked(d) /\ d.target = Unreadable
           rest == Tail(sla.todo)
       IN /\ sla' = IF raises \/ rest = <<>> THEN IdleSla ELSE [sla EXCEPT !.todo = rest]
          /\ decisions' =
                IF /\ ~raises /\ Checked(d) /\ Overdue(d, sla.at)
                      /\ d.priority \in Band /\ backend = "memory"
                THEN [decisions EXCEPT ![i] = Bumped(d)] ELSE decisions
    /\ UNCHANGED <<backend, now, events, overrides, esc, operator>>

-----------------------------------------------------------------------------
\* OverrideDecisionUseCase.execute: a record with a copy of the actions, of
\* which the priority is the one a sweep may change.
Override(i) ==
    /\ OnRecord(i) /\ operator < MaxOperator /\ operator' = operator + 1
    /\ overrides' = [overrides EXCEPT ![i] =
                       Append(@, [original |-> decisions[i].priority])]
    /\ UNCHANGED <<backend, now, decisions, events, esc, sla>>

Next == \/ Tick \/ EscalationBegin \/ EscalationStep \/ SlaBegin \/ SlaStep
        \/ \E i \in Incident : \/ Decide(i) \/ Resolve(i) \/ Acknowledge(i) \/ Override(i)

Spec == Init /\ [][Next]_vars

\* Time passes, and the scheduler goes on running both jobs.
Fairness == /\ WF_vars(Tick)
            /\ WF_vars(EscalationBegin \/ EscalationStep)
            /\ WF_vars(SlaBegin \/ SlaStep)

FairSpec == Spec /\ Fairness
-----------------------------------------------------------------------------
TypeOK ==
    /\ backend \in Backends /\ now \in Instant
    /\ \A i \in Incident :
         /\ OnRecord(i) => /\ decisions[i].priority \in Band \cup {"none", "other"}
                           /\ decisions[i].created \in Instant
         /\ \A e \in ToSet(events[i]) : e.level \in DOMAIN Level /\ e.at \in Instant
    /\ ToSet(sla.todo) \cup ToSet(esc) \subseteq {i \in Incident : OnRecord(i)}
    /\ operator \in 0..MaxOperator

\* No level is opened before its time, judged by the priority the decision has
\* by now, which an SLA sweep may have raised since: the policies of the higher
\* bands have every level of the lower ones, and earlier.
NotPremature ==
    \A i \in Incident : \A e \in ToSet(events[i]) :
        LET policy == Policy(decisions[i].priority)
        IN e.level \in DOMAIN policy /\ e.at >= decisions[i].created + policy[e.level]

\* The priority of a decision only rises, by one band a step, of a decision
\* that is open and in time's last stretch, and never past Critical.
ClimbsWhenLate ==
    [][\A i \in Incident :
         OnRecord(i) /\ decisions'[i].priority # decisions[i].priority =>
            /\ Rank(decisions'[i].priority) = Rank(decisions[i].priority) + 1
            /\ ~decisions[i].resolved
            /\ 100 * (now - decisions[i].created) >= Threshold * Minutes(decisions[i].target)]_vars

NothingDue(i) ==
    \A l \in DOMAIN Policy(decisions[i].priority) :
        now >= decisions[i].created + Policy(decisions[i].priority)[l]
            => \E e \in ToSet(events[i]) : e.level = l

\* Somebody has answered an escalation of the decision, or closed it.
Answered(i) == \/ OnRecord(i) /\ decisions[i].resolved
               \/ \E e \in ToSet(events[i]) : e.acknowledged

\* An open decision below Critical that is in time's last stretch and as it
\* was decided
Neglected(i) ==
    LET d == decisions[i]
    IN /\ d.priority \in Band \ {"Critical"} /\ d.priority = d.decided /\ ~d.resolved
       /\ d.target \notin {NoTarget, Unreadable} /\ Overdue(d, now)

\* What ends or undoes every sweep that gets there: another open decision with
\* a target that cannot be read; PostgreSQL, where nobody saves the change.
Hindered(i) ==
    \/ backend = "postgres"
    \/ \E j \in Incident \ {i} :
          OnRecord(j) /\ Checked(decisions[j]) /\ decisions[j].target = Unreadable

\* While nobody answers, nothing stays unescalated: every level that is due
\* gets opened, the ones a late sweep skipped included, also when the
\* priority and with it the policy changes on the way.
SilenceEscalates == \A i \in Incident : []<>(NothingDue(i) \/ Answered(i))

\* In memory an open decision past its threshold is raised above the priority
\* it was decided with, at the latest once no other open decision has a
\* target that cannot be read.
OverdueIsBumped == \A i \in Incident : []<>(~Neglected(i) \/ Hindered(i))
-----------------------------------------------------------------------------
\* What the documentation says and the code does not do.

\* docs/decision-engine-design.md: the sweep writes events "as each threshold
\* is crossed without an `acknowledged_at` timestamp".
AcknowledgedStops ==
    [][\A i \in Incident :
         (\E e \in ToSet(events[i]) : e.acknowledged) => Len(events'[i]) = Len(events[i])]_vars
=============================================================================
