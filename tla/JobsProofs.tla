----------------------------- MODULE JobsProofs -----------------------------
(***************************************************************************)
(* Proofs about the time-driven jobs, for any incidents, verdicts,         *)
(* instants and threshold.                                                 *)
(***************************************************************************)
EXTENDS Jobs, FiniteSetTheorems, TLAPS

Decision == [priority: Band \cup {"none", "other"}, decided: Band \cup {"none", "other"},
             target: [n: Nat, unit: {"none", "unreadable", "minutes", "hours"}],
             created: Instant, resolved: BOOLEAN]

EscalationEvent == [level: DOMAIN Level, at: Instant, acknowledged: BOOLEAN]

Recorded == {i \in Incident : OnRecord(i)}

\* The types, with what the loops of the sweeps rely on: what they have still
\* to look at is on record, and a sweep began no later than now.
Typed ==
    /\ backend \in Backends /\ now \in Instant /\ operator \in 0..MaxOperator
    /\ decisions \in [Incident -> Decision \cup {NoDecision}]
    /\ IsFiniteSet(Recorded)
    /\ events \in [Incident -> Seq(EscalationEvent)]
    /\ esc \in Seq(Recorded)
    /\ sla \in [todo: Seq(Recorded), at: Nat] /\ sla.at <= now
-----------------------------------------------------------------------------
(***************************************************************************)
(* Bands and policies.                                                     *)
(***************************************************************************)

\* A band is found at its rank.
LEMMA Ranks ==
    /\ Band = {"Low", "Medium", "High", "Critical"}
    /\ Rank("Low") = 1 /\ Rank("Medium") = 2 /\ Rank("High") = 3 /\ Rank("Critical") = 4
    /\ Len(Severity) = 4
<1>1. /\ DOMAIN Severity = 1..4 /\ Len(Severity) = 4
      /\ Severity[1] = "Low" /\ Severity[2] = "Medium" /\ Severity[3] = "High"
      /\ Severity[4] = "Critical"
  BY DEF Severity
<1>2. DOMAIN Severity = {1, 2, 3, 4}
  BY <1>1
<1>3. Band = {"Low", "Medium", "High", "Critical"}
  BY <1>1, <1>2 DEF Band, ToSet
<1>4. ASSUME NEW k \in {1, 2, 3, 4} PROVE Rank(Severity[k]) = k
  <2>1. Rank(Severity[k]) \in DOMAIN Severity /\ Severity[Rank(Severity[k])] = Severity[k]
    BY <1>2 DEF Rank
  <2> HIDE DEF Rank
  <2> QED BY <1>1, <1>2, <2>1
<1> QED BY <1>1, <1>3, <1>4

\* The next band's policy has every level of a band's, and no later.
LEMMA PoliciesRise ==
    ASSUME NEW band \in Band, NEW k \in DOMAIN Policy(band), Rank(band) # Len(Severity)
    PROVE  /\ Severity[Rank(band) + 1] \in Band
           /\ k \in DOMAIN Policy(Severity[Rank(band) + 1])
           /\ Policy(Severity[Rank(band) + 1])[k] <= Policy(band)[k]
<1>1. /\ Timeouts["Low"] = <<120>> /\ Timeouts["Medium"] = <<30, 90>>
      /\ Timeouts["High"] = <<15, 30, 60, 120>> /\ Timeouts["Critical"] = <<5, 15, 30, 60, 120>>
  BY DEF Timeouts
<1>2. Severity[2] = "Medium" /\ Severity[3] = "High" /\ Severity[4] = "Critical"
  BY DEF Severity
<1>3. \A b \in Band : Policy(b) = Timeouts[b]
  BY DEF Policy
<1>4. CASE band = "Low"
  BY <1>1, <1>2, <1>3, <1>4, Ranks
<1>5. CASE band = "Medium"
  BY <1>1, <1>2, <1>3, <1>5, Ranks
<1>6. CASE band = "High"
  BY <1>1, <1>2, <1>3, <1>6, Ranks
<1> QED BY <1>4, <1>5, <1>6, Ranks

\* Policies have at most the five levels, with timeouts in minutes.
LEMMA PolicyLevels ==
    ASSUME NEW p
    PROVE  /\ DOMAIN Policy(p) \subseteq DOMAIN Level
           /\ \A k \in DOMAIN Policy(p) : Policy(p)[k] \in Nat
           /\ p \notin Band => DOMAIN Policy(p) = {}
<1>1. /\ Timeouts["Low"] = <<120>> /\ Timeouts["Medium"] = <<30, 90>>
      /\ Timeouts["High"] = <<15, 30, 60, 120>> /\ Timeouts["Critical"] = <<5, 15, 30, 60, 120>>
  BY DEF Timeouts
<1>2. DOMAIN Level = 1..5
  BY DEF Level
<1>3. CASE p \notin Band
  <2>1. Policy(p) = <<>>
    BY <1>3 DEF Policy
  <2> QED BY <2>1
<1>4. CASE p \in Band
  <2>1. Policy(p) = Timeouts[p]
    BY <1>4 DEF Policy
  <2>2. CASE p = "Low"
    BY <1>1, <1>2, <1>4, <2>1, <2>2
  <2>3. CASE p = "Medium"
    BY <1>1, <1>2, <1>4, <2>1, <2>3
  <2>4. CASE p = "High"
    BY <1>1, <1>2, <1>4, <2>1, <2>4
  <2>5. CASE p = "Critical"
    BY <1>1, <1>2, <1>4, <2>1, <2>5
  <2> QED BY <1>4, <2>2, <2>3, <2>4, <2>5, Ranks
<1> QED BY <1>3, <1>4

\* The level the loop keeps is one that is due.
LEMMA FurthestIsDue ==
    ASSUME NEW due, due \subseteq DOMAIN Level, due # {}
    PROVE  Furthest(due) \in due
<1>1. due \subseteq 1..5
  BY DEF Level
<1>2. \E k \in due : \A l \in due : l <= k
  <2>1. CASE 5 \in due
    BY <1>1, <2>1
  <2>2. CASE 5 \notin due /\ 4 \in due
    BY <1>1, <2>2
  <2>3. CASE 5 \notin due /\ 4 \notin due /\ 3 \in due
    BY <1>1, <2>3
  <2>4. CASE 5 \notin due /\ 4 \notin due /\ 3 \notin due /\ 2 \in due
    BY <1>1, <2>4
  <2>5. CASE 5 \notin due /\ 4 \notin due /\ 3 \notin due /\ 2 \notin due
    BY <1>1, <2>5
  <2> QED BY <2>1, <2>2, <2>3, <2>4, <2>5
<1> QED BY <1>2 DEF Furthest
-----------------------------------------------------------------------------
(***************************************************************************)
(* Types.                                                                  *)
(***************************************************************************)

\* Decisions on record are told from missing ones by their priority.
LEMMA DecisionParts ==
    ASSUME Typed
    PROVE  /\ NoDecision \notin Decision
           /\ \A i \in Incident : OnRecord(i) <=> decisions[i] \in Decision
           /\ \A i \in Incident : decisions[i].priority \in Band => OnRecord(i)
           /\ \A d \in Decision : /\ d.priority \in Band \cup {"none", "other"} /\ d.created \in Nat
                                   /\ d.created \in Instant /\ d.resolved \in BOOLEAN
                                   /\ Minutes(d.target) \in Nat
           /\ now \in Nat
<1>1. Instant \subseteq Nat
  BY JobsConstants
<1>2. NoDecision.priority = "absent" /\ "absent" \notin Band \cup {"none", "other"}
  BY Ranks DEF NoDecision
<1>3. NoDecision \notin Decision
  BY <1>2 DEF Decision
<1>4. \A i \in Incident : decisions[i] \in Decision \cup {NoDecision}
  BY DEF Typed
<1>5. \A d \in Decision : /\ d.priority \in Band \cup {"none", "other"} /\ d.created \in Nat
                          /\ d.created \in Instant /\ d.resolved \in BOOLEAN
  BY <1>1 DEF Decision
<1>6. ASSUME NEW d \in Decision PROVE Minutes(d.target) \in Nat
  <2>1. d.target.n \in Nat
    BY DEF Decision
  <2> QED BY <2>1 DEF Minutes
<1>7. now \in Nat
  BY <1>1 DEF Typed
<1> QED BY <1>2, <1>3, <1>4, <1>5, <1>6, <1>7 DEF OnRecord

\* A listing of the decisions is a sequence of them.
LEMMA ListingType ==
    ASSUME Typed, NEW s \in Listings
    PROVE  s \in Seq(Recorded)
<1>1. Cardinality(Recorded) \in Nat
  BY FS_CardinalityType DEF Typed
<1>2. s \in [1..Cardinality(Recorded) -> Recorded]
  BY DEF Listings, SetToSeqs, Recorded
<1> QED BY <1>1, <1>2

\* Raising the priority of a decision gives a decision of the next band.
LEMMA BumpedType ==
    ASSUME NEW d \in Decision, d.priority \in Band
    PROVE  /\ Bumped(d) \in Decision
           /\ \/ Bumped(d) = d
              \/ /\ Rank(d.priority) # Len(Severity)
                 /\ Bumped(d).priority = Severity[Rank(d.priority) + 1]
                 /\ Rank(Bumped(d).priority) = Rank(d.priority) + 1
           /\ Bumped(d).created = d.created
<1>1. CASE Rank(d.priority) = Len(Severity)
  <2>1. Bumped(d) = d
    BY <1>1, Zenon DEF Bumped
  <2> QED BY <2>1
<1>2. CASE Rank(d.priority) # Len(Severity)
  <2>1. Severity[2] = "Medium" /\ Severity[3] = "High" /\ Severity[4] = "Critical"
    BY DEF Severity
  <2>2. d.priority \in {"Low", "Medium", "High"}
    BY <1>2, Ranks
  <2>3. Severity[Rank(d.priority) + 1] \in Band
        /\ Rank(Severity[Rank(d.priority) + 1]) = Rank(d.priority) + 1
    BY <2>1, <2>2, Ranks
  <2>4. Bumped(d) = [d EXCEPT !.priority = Severity[Rank(d.priority) + 1]]
    BY <1>2 DEF Bumped
  <2> HIDE DEF Rank, Severity
  <2> QED BY <1>2, <2>3, <2>4 DEF Decision
<1> QED BY <1>1, <1>2

\* When no decision is removed, what the sweeps have still to look at stays on
\* record.
LEMMA KeepsRecord ==
    ASSUME Typed, NEW i \in Incident, NEW d \in Decision,
           decisions' = [decisions EXCEPT ![i] = d],
           esc' = esc,
           \/ sla' \in {sla, IdleSla}
           \/ sla.todo # <<>> /\ sla' = [sla EXCEPT !.todo = Tail(sla.todo)]
    PROVE  /\ decisions' \in [Incident -> Decision \cup {NoDecision}]
           /\ Recorded' = Recorded \cup {i}
           /\ IsFiniteSet(Recorded')
           /\ esc' \in Seq(Recorded')
           /\ sla' \in [todo: Seq(Recorded'), at: Nat]
<1>1. decisions' \in [Incident -> Decision \cup {NoDecision}]
  BY DEF Typed
<1>2. decisions'[i] = d /\ \A j \in Incident \ {i} : decisions'[j] = decisions[j]
  BY DEF Typed
<1>3. d # NoDecision
  BY DecisionParts
<1>4. Recorded' = Recorded \cup {i}
  BY <1>2, <1>3 DEF Recorded, OnRecord
<1>5. IsFiniteSet(Recorded')
  BY <1>4, FS_AddElement DEF Typed
<1>6. esc \in Seq(Recorded') /\ sla.todo \in Seq(Recorded') /\ sla.at \in Nat
  <2>1. esc \in Seq(Recorded) /\ sla.todo \in Seq(Recorded) /\ sla.at \in Nat
    BY DEF Typed
  <2>2. Recorded \subseteq Recorded'
    BY <1>4
  <2> QED BY <2>1, <2>2
<1>7. sla' \in [todo: Seq(Recorded'), at: Nat]
  <2> DEFINE R == Recorded'
  <2>1. sla \in [todo: Seq(R), at: Nat]
    BY <1>6 DEF Typed
  <2> SUFFICES sla' \in [todo: Seq(R), at: Nat]
    OBVIOUS
  <2> HIDE DEF R
  <2>2. CASE sla' = IdleSla
    BY <2>2 DEF IdleSla
  <2>3. CASE sla.todo # <<>> /\ sla' = [sla EXCEPT !.todo = Tail(sla.todo)]
    <3>1. Tail(sla.todo) \in Seq(R)
      BY <2>1, <2>3
    <3> QED BY <2>1, <2>3, <3>1
  <2> QED BY <2>1, <2>2, <2>3
<1> QED BY <1>1, <1>4, <1>5, <1>6, <1>7

\* The types hold at the start.
LEMMA InitTyped == Init => Typed
<1> SUFFICES ASSUME Init PROVE Typed
  OBVIOUS
<1>1. decisions \in [Incident -> Decision \cup {NoDecision}] /\ Recorded = {}
  BY DEF Init, Recorded, OnRecord
<1>2. events \in [Incident -> Seq(EscalationEvent)]
  BY DEF Init
<1>3. IsFiniteSet(Recorded)
  BY <1>1, FS_EmptySet, Zenon
<1>4. esc \in Seq(Recorded) /\ sla \in [todo: Seq(Recorded), at: Nat] /\ sla.at = 0
  BY DEF Init, IdleSla
<1> QED BY <1>1, <1>2, <1>3, <1>4, JobsConstants DEF Init, Typed

\* Every step keeps the types.
LEMMA NextTyped == Typed /\ [Next]_vars => Typed'
<1> SUFFICES ASSUME Typed, [Next]_vars PROVE Typed'
  OBVIOUS
<1>0. now \in Nat /\ sla.at \in Nat
  BY DecisionParts DEF Typed
<1>1. CASE UNCHANGED decisions
  <2>1. Recorded' = Recorded
    BY <1>1 DEF Recorded, OnRecord
  <2>2. IsFiniteSet(Recorded') /\ decisions' \in [Incident -> Decision \cup {NoDecision}]
    BY <1>1, <2>1 DEF Typed
  <2>3. CASE Tick
    <3>1. /\ now' \in Instant /\ now < now'
          /\ UNCHANGED <<backend, decisions, events, overrides, esc, sla, operator>>
      BY <2>3 DEF Tick
    <3>2. sla.at <= now'
      BY <1>0, <3>1, JobsConstants DEF Typed
    <3> QED BY <2>1, <2>2, <3>1, <3>2 DEF Typed
  <2>4. CASE EscalationBegin \/ SlaBegin
    <3>1. esc' \in Seq(Recorded) /\ sla' \in [todo: Seq(Recorded), at: Nat] /\ sla'.at <= now
      BY <1>0, <2>4, ListingType DEF EscalationBegin, SlaBegin, Typed
    <3> QED BY <2>1, <2>2, <2>4, <3>1 DEF EscalationBegin, SlaBegin, Typed
  <2>5. CASE EscalationStep
    <3>1. esc # <<>> /\ esc' = Tail(esc) /\ UNCHANGED <<backend, now, sla, operator>>
      BY <2>5 DEF EscalationStep
    <3>2. esc \in Seq(Recorded) /\ Head(esc) \in Incident /\ esc' \in Seq(Recorded)
      BY <3>1 DEF Typed, Recorded
    <3> DEFINE i == Head(esc)
               due == Due(Policy(decisions[i].priority), Triggered(i), now - decisions[i].created)
    <3>3. events' \in [Incident -> Seq(EscalationEvent)]
      <4>1. CASE due = {}
        BY <2>5, <4>1 DEF EscalationStep, Typed
      <4>2. CASE due # {}
        <5>1. due \subseteq DOMAIN Level
          BY PolicyLevels DEF Due
        <5>2. events' = [events EXCEPT ![i] = Append(events[i], Event(i, Furthest(due)))]
          BY <2>5, <4>2 DEF EscalationStep
        <5>3. Furthest(due) \in DOMAIN Level
          BY <4>2, <5>1, FurthestIsDue
        <5> HIDE DEF due
        <5>4. Event(i, Furthest(due)) \in EscalationEvent
          BY <5>3 DEF Event, EscalationEvent, Typed
        <5>5. events[i] \in Seq(EscalationEvent)
          BY <3>2 DEF Typed
        <5>6. Append(events[i], Event(i, Furthest(due))) \in Seq(EscalationEvent)
          BY <5>4, <5>5
        <5> QED BY <5>2, <5>6 DEF Typed
      <4> QED BY <4>1, <4>2
    <3> QED BY <2>1, <2>2, <3>1, <3>2, <3>3 DEF Typed
  <2>6. CASE SlaStep
    <3>1. /\ UNCHANGED <<backend, now, events, esc, operator>> /\ sla.todo # <<>>
          /\ sla' = IdleSla \/ sla' = [sla EXCEPT !.todo = Tail(sla.todo)]
      BY <2>6 DEF SlaStep
    <3>2. CASE sla' = IdleSla
      <4>1. sla' \in [todo: Seq(Recorded), at: Nat] /\ sla'.at <= now
        BY <1>0, <3>2 DEF IdleSla
      <4> QED BY <2>1, <2>2, <3>1, <4>1 DEF Typed
    <3>3. CASE sla' = [sla EXCEPT !.todo = Tail(sla.todo)]
      <4>1. Tail(sla.todo) \in Seq(Recorded)
        BY <3>1 DEF Typed
      <4>2. sla' \in [todo: Seq(Recorded), at: Nat] /\ sla'.at <= now
        BY <3>3, <4>1 DEF Typed
      <4> QED BY <2>1, <2>2, <3>1, <4>2 DEF Typed
    <3> QED BY <3>1, <3>2, <3>3
  <2>7. ASSUME NEW i \in Incident, Acknowledge(i) PROVE Typed'
    <3>1. /\ UNCHANGED <<backend, now, esc, sla>> /\ operator' = operator + 1 /\ operator < MaxOperator
      BY <2>7 DEF Acknowledge
    <3>2. PICK k \in DOMAIN events[i] :
            events' = IF backend = "memory" THEN [events EXCEPT ![i][k].acknowledged = TRUE] ELSE events
      BY <2>7 DEF Acknowledge
    <3>3. events[i] \in Seq(EscalationEvent) /\ events[i][k] \in EscalationEvent
      BY DEF Typed
    <3>4. [events[i][k] EXCEPT !.acknowledged = TRUE] \in EscalationEvent
      BY <3>3 DEF EscalationEvent
    <3>5. [events[i] EXCEPT ![k] = [events[i][k] EXCEPT !.acknowledged = TRUE]] \in Seq(EscalationEvent)
      BY <3>3, <3>4
    <3>6. events' \in [Incident -> Seq(EscalationEvent)]
      BY <3>2, <3>5 DEF Typed
    <3>7. operator' \in 0..MaxOperator
      BY <3>1, JobsConstants DEF Typed
    <3> QED BY <2>1, <2>2, <3>1, <3>6, <3>7 DEF Typed
  <2>8. ASSUME NEW i \in Incident, Override(i) PROVE Typed'
    <3>1. /\ UNCHANGED <<backend, now, events, esc, sla>> /\ operator' = operator + 1
          /\ operator < MaxOperator
      BY <2>8 DEF Override
    <3>2. operator' \in 0..MaxOperator
      BY <3>1, JobsConstants DEF Typed
    <3> QED BY <2>1, <2>2, <3>1, <3>2 DEF Typed
  <2>9. ASSUME NEW i \in Incident, Decide(i) \/ Resolve(i) PROVE Typed'
    BY <2>1, <2>2, <2>9 DEF Decide, Resolve, Typed
  <2>10. CASE UNCHANGED vars
    BY <2>1, <2>2, <2>10 DEF vars, Typed
  <2> QED BY <2>3, <2>4, <2>5, <2>6, <2>7, <2>8, <2>9, <2>10 DEF Next
<1>2. ASSUME NEW i \in Incident, Decide(i) PROVE Typed'
  <2>1. UNCHANGED <<backend, now, events, esc, sla, operator>>
    BY <1>2 DEF Decide
  <2>2. PICK v \in Verdict[i] :
          decisions' = [decisions EXCEPT ![i] = [priority |-> v.priority, decided |-> v.priority,
                                   target |-> v.target, created |-> now, resolved |-> FALSE]]
    BY <1>2 DEF Decide
  <2>3. [priority |-> v.priority, decided |-> v.priority, target |-> v.target,
         created |-> now, resolved |-> FALSE] \in Decision
    BY JobsConstants DEF Decision, Typed
  <2> QED BY <2>1, <2>2, <2>3, KeepsRecord DEF Typed
<1>3. ASSUME NEW i \in Incident, Resolve(i) PROVE Typed'
  <2>1. /\ UNCHANGED <<backend, now, events, esc, sla, operator>> /\ OnRecord(i)
        /\ decisions' = [decisions EXCEPT ![i] = [decisions[i] EXCEPT !.resolved = TRUE]]
    BY <1>3 DEF Resolve, Typed
  <2>2. [decisions[i] EXCEPT !.resolved = TRUE] \in Decision
    BY <2>1, DecisionParts DEF Decision
  <2> QED BY <2>1, <2>2, KeepsRecord DEF Typed
<1>4. CASE SlaStep /\ decisions' # decisions
  <2> DEFINE i == Head(sla.todo)
  <2>1. /\ UNCHANGED <<backend, now, events, esc, operator>> /\ sla.todo # <<>>
        /\ sla' = IdleSla \/ sla' = [sla EXCEPT !.todo = Tail(sla.todo)]
        /\ Checked(decisions[i]) /\ decisions[i].priority \in Band
        /\ decisions' = [decisions EXCEPT ![i] = Bumped(decisions[i])]
    BY <1>4 DEF SlaStep
  <2>2. i \in Incident /\ decisions[i] \in Decision
    BY <2>1, DecisionParts DEF Typed, Recorded
  <2>3. decisions[i].priority \in Band
    BY <2>1
  <2>4. Bumped(decisions[i]) \in Decision
    BY <2>2, <2>3, BumpedType
  <2>5. sla'.at <= now
    <3>1. CASE sla' = IdleSla
      BY <1>0, <3>1 DEF IdleSla
    <3>2. CASE sla' = [sla EXCEPT !.todo = Tail(sla.todo)]
      BY <3>2 DEF Typed
    <3> QED BY <2>1, <3>1, <3>2
  <2> QED BY <2>1, <2>2, <2>4, <2>5, KeepsRecord DEF Typed
<1>5. CASE \/ Tick \/ EscalationBegin \/ EscalationStep \/ SlaBegin \/ UNCHANGED vars
           \/ \E i \in Incident : Acknowledge(i) \/ Override(i)
  BY <1>1, <1>5 DEF Tick, EscalationBegin, EscalationStep, SlaBegin, vars, Acknowledge, Override
<1> QED BY <1>1, <1>2, <1>3, <1>4, <1>5 DEF Next

\* The sweeps work on decisions on record, with the values their types say.
THEOREM JobsTypeCorrect == Spec => []TypeOK
<1>1. ASSUME Typed PROVE TypeOK
  <2>1. ASSUME NEW i \in Incident, OnRecord(i)
        PROVE  decisions[i].priority \in Band \cup {"none", "other"} /\ decisions[i].created \in Instant
    BY <1>1, <2>1, DecisionParts
  <2>2. ASSUME NEW i \in Incident, NEW e \in ToSet(events[i])
        PROVE  e.level \in DOMAIN Level /\ e.at \in Instant
    <3>1. events[i] \in Seq(EscalationEvent)
      BY <1>1 DEF Typed
    <3>2. e \in EscalationEvent
      BY <3>1 DEF ToSet
    <3> QED BY <3>2 DEF EscalationEvent
  <2>3. ToSet(sla.todo) \cup ToSet(esc) \subseteq Recorded
    BY <1>1 DEF Typed, ToSet
  <2> QED BY <1>1, <2>1, <2>2, <2>3 DEF Typed, TypeOK, Recorded
<1> QED BY <1>1, InitTyped, NextTyped, PTL DEF Spec
-----------------------------------------------------------------------------
(***************************************************************************)
(* Escalation levels.                                                      *)
(***************************************************************************)

InTime(i, e) ==
    LET policy == Policy(decisions[i].priority)
    IN e.level \in DOMAIN policy /\ e.at >= decisions[i].created + policy[e.level]

\* A decision that keeps its time and its priority, or is raised a band, keeps
\* its levels in time.
LEMMA StaysInTime ==
    ASSUME Typed, NEW i \in Incident, NEW e \in EscalationEvent, InTime(i, e),
           decisions'[i].created = decisions[i].created,
           \/ decisions'[i].priority = decisions[i].priority
           \/ /\ decisions[i].priority \in Band /\ Rank(decisions[i].priority) # Len(Severity)
              /\ decisions'[i].priority = Severity[Rank(decisions[i].priority) + 1]
    PROVE  InTime(i, e)'
<1>1. CASE decisions'[i].priority = decisions[i].priority
  BY <1>1 DEF InTime
<1>2. CASE /\ decisions[i].priority \in Band /\ Rank(decisions[i].priority) # Len(Severity)
           /\ decisions'[i].priority = Severity[Rank(decisions[i].priority) + 1]
  <2> DEFINE p == decisions[i].priority
             q == Severity[Rank(p) + 1]
  <2>1. e.level \in DOMAIN Policy(p) /\ e.at >= decisions[i].created + Policy(p)[e.level]
    BY DEF InTime
  <2>2. e.level \in DOMAIN Policy(q) /\ Policy(q)[e.level] <= Policy(p)[e.level]
    BY <1>2, <2>1, PoliciesRise
  <2>3. Policy(p)[e.level] \in Nat /\ Policy(q)[e.level] \in Nat
    BY <2>1, <2>2, PolicyLevels
  <2>4. decisions[i].created \in Nat /\ e.at \in Nat
    BY <1>2, DecisionParts, JobsConstants DEF EscalationEvent
  <2> HIDE DEF p, q
  <2>5. e.at >= decisions[i].created + Policy(q)[e.level]
    BY <2>1, <2>2, <2>3, <2>4
  <2> QED BY <1>2, <2>2, <2>5 DEF InTime, p, q
<1> QED BY <1>1, <1>2

\* What a sweep or a close does to a decision on record.
LEMMA DecisionSteps ==
    ASSUME Typed, [Next]_vars, NEW i \in Incident, OnRecord(i)
    PROVE  /\ decisions'[i].created = decisions[i].created
           /\ \/ decisions'[i].priority = decisions[i].priority
              \/ /\ decisions[i].priority \in Band /\ Rank(decisions[i].priority) # Len(Severity)
                 /\ decisions'[i].priority = Severity[Rank(decisions[i].priority) + 1]
                 /\ Rank(decisions'[i].priority) = Rank(decisions[i].priority) + 1
                 /\ ~decisions[i].resolved /\ Overdue(decisions[i], sla.at)
<1>1. CASE decisions'[i] = decisions[i]
  BY <1>1
<1>2. ASSUME NEW j \in Incident, Decide(j) PROVE decisions'[i] = decisions[i]
  BY <1>2 DEF Decide, Typed
<1>3. ASSUME NEW j \in Incident, Resolve(j)
      PROVE  decisions'[i].created = decisions[i].created /\ decisions'[i].priority = decisions[i].priority
  <2>1. decisions[i] \in Decision
    BY DecisionParts
  <2>2. decisions'[i] = decisions[i] \/ decisions'[i] = [decisions[i] EXCEPT !.resolved = TRUE]
    BY <1>3 DEF Resolve, Typed
  <2> QED BY <2>1, <2>2 DEF Decision
<1>4. CASE SlaStep /\ decisions'[i] # decisions[i]
  <2>0. Head(sla.todo) \in Incident
    BY <1>4 DEF SlaStep, Typed, Recorded
  <2>1. /\ Checked(decisions[i]) /\ Overdue(decisions[i], sla.at)
        /\ decisions[i].priority \in Band /\ decisions'[i] = Bumped(decisions[i])
    <3>1. Head(sla.todo) = i
      BY <1>4 DEF SlaStep, Typed
    <3> QED BY <1>4, <3>1 DEF SlaStep, Typed
  <2>2. decisions[i] \in Decision
    BY DecisionParts
  <2>3. decisions[i].priority \in Band /\ ~decisions[i].resolved
    BY <2>1, <2>2, DecisionParts DEF Checked
  <2> QED BY <1>4, <2>1, <2>2, <2>3, BumpedType
<1>5. \/ UNCHANGED decisions \/ SlaStep \/ \E j \in Incident : Decide(j) \/ Resolve(j)
  BY DEF Next, vars, Tick, EscalationBegin, EscalationStep, SlaBegin, Acknowledge, Override
<1> QED BY <1>1, <1>2, <1>3, <1>4, <1>5

\* What a step does to the events of a decision: they keep their level and
\* time, and the one an escalation sweep adds is in time.
LEMMA EventSteps ==
    ASSUME Typed, [Next]_vars, NEW i \in Incident, NEW e \in ToSet(events'[i])
    PROVE  \/ \E f \in ToSet(events[i]) : e.level = f.level /\ e.at = f.at
           \/ InTime(i, e) /\ UNCHANGED decisions
<1>0. events[i] \in Seq(EscalationEvent)
  BY DEF Typed
<1>1. CASE events'[i] = events[i]
  BY <1>1
<1>2. ASSUME NEW j \in Incident, Acknowledge(j), events'[i] # events[i]
      PROVE  \E f \in ToSet(events[i]) : e.level = f.level /\ e.at = f.at
  <2>1. PICK k \in DOMAIN events[j] : events' = [events EXCEPT ![j][k].acknowledged = TRUE]
    BY <1>2 DEF Acknowledge
  <2>2. i = j
    BY <1>2, <2>1 DEF Typed
  <2>3. events'[i] = [events[i] EXCEPT ![k] = [events[i][k] EXCEPT !.acknowledged = TRUE]]
    BY <2>1, <2>2 DEF Typed
  <2>4. PICK m \in DOMAIN events'[i] : e = events'[i][m]
    BY DEF ToSet
  <2>5. m \in DOMAIN events[i] /\ events[i][m] \in EscalationEvent
    BY <1>0, <2>3, <2>4
  <2>6. e.level = events[i][m].level /\ e.at = events[i][m].at
    BY <1>0, <2>2, <2>3, <2>4, <2>5 DEF EscalationEvent
  <2> QED BY <2>5, <2>6 DEF ToSet
<1>3. CASE EscalationStep /\ events'[i] # events[i]
  <2> DEFINE due == Due(Policy(decisions[i].priority), Triggered(i), now - decisions[i].created)
  <2>1. Head(esc) \in Incident
    BY <1>3 DEF EscalationStep, Typed, Recorded
  <2>2. Head(esc) = i
    BY <1>3, <2>1 DEF EscalationStep, Typed
  <2>3. UNCHANGED decisions /\ due # {} /\ events' = [events EXCEPT ![i] = Append(events[i], Event(i, Furthest(due)))]
    BY <1>3, <2>2 DEF EscalationStep
  <2>4. due \subseteq DOMAIN Policy(decisions[i].priority) /\ due \subseteq DOMAIN Level
    BY PolicyLevels DEF Due
  <2>5. Furthest(due) \in due
    BY <2>3, <2>4, FurthestIsDue
  <2>6. \A k \in due : now - decisions[i].created >= Policy(decisions[i].priority)[k]
    BY DEF Due
  <2> HIDE DEF due
  <2> DEFINE k == Furthest(due)
  <2>7. decisions[i].priority \in Band /\ Policy(decisions[i].priority)[k] \in Nat
    BY <2>4, <2>5, PolicyLevels
  <2>8. decisions[i].created \in Nat /\ now \in Nat
    BY <2>7, DecisionParts
  <2>9. now >= decisions[i].created + Policy(decisions[i].priority)[k]
    BY <2>5, <2>6, <2>7, <2>8
  <2>10. InTime(i, Event(i, k))
    BY <2>4, <2>5, <2>9 DEF InTime, Event
  <2>11. events'[i] = Append(events[i], Event(i, k))
    BY <2>3 DEF Typed
  <2>12. e \in ToSet(events[i]) \/ e = Event(i, k)
    BY <1>0, <2>11 DEF ToSet
  <2> QED BY <2>3, <2>10, <2>12
<1>4. UNCHANGED events \/ EscalationStep \/ \E j \in Incident : Acknowledge(j)
  BY DEF Next, vars, Tick, EscalationBegin, SlaBegin, SlaStep, Decide, Resolve, Override
<1> QED BY <1>1, <1>2, <1>3, <1>4

\* No level is ever opened before its time, nor does an SLA sweep's raise
\* make an open one premature.
THEOREM NoLevelIsPremature == Spec => []NotPremature
<1> DEFINE Inv == \A i \in Incident : \A e \in ToSet(events[i]) : InTime(i, e)
<1>1. Init => Inv
  BY DEF Init, ToSet
<1>2. ASSUME Typed, Inv, [Next]_vars PROVE Inv'
  <2> SUFFICES ASSUME NEW i \in Incident, NEW e \in ToSet(events'[i]) PROVE InTime(i, e)'
    OBVIOUS
  <2>1. CASE InTime(i, e) /\ UNCHANGED decisions
    BY <2>1 DEF InTime
  <2>2. ASSUME NEW f \in ToSet(events[i]), e.level = f.level, e.at = f.at PROVE InTime(i, e)'
    <3>1. events[i] \in Seq(EscalationEvent) /\ f \in EscalationEvent
      BY <1>2 DEF Typed, ToSet
    <3>2. InTime(i, f)
      BY <1>2
    <3>3. decisions[i].priority \in Band
      BY <3>2, PolicyLevels DEF InTime
    <3>4. OnRecord(i)
      BY <1>2, <3>3, DecisionParts
    <3>5. InTime(i, f)'
      BY <1>2, <3>1, <3>2, <3>4, DecisionSteps, StaysInTime
    <3> QED BY <2>2, <3>5 DEF InTime
  <2> QED BY <1>2, <2>1, <2>2, EventSteps
<1>3. Inv => NotPremature
  BY DEF InTime, NotPremature
<1> QED BY <1>1, <1>2, <1>3, InitTyped, NextTyped, PTL DEF Spec

\* A priority climbs one band at a time, of an open decision in the last
\* stretch of its target, and by nothing but the SLA sweep.
THEOREM PrioritiesClimbWhenLate == Spec => ClimbsWhenLate
<1>1. ASSUME Typed, [Next]_vars, NEW i \in Incident, OnRecord(i),
             decisions'[i].priority # decisions[i].priority
      PROVE  /\ Rank(decisions'[i].priority) = Rank(decisions[i].priority) + 1
             /\ ~decisions[i].resolved
             /\ 100 * (now - decisions[i].created) >= Threshold * Minutes(decisions[i].target)
  <2>1. /\ Rank(decisions'[i].priority) = Rank(decisions[i].priority) + 1
        /\ ~decisions[i].resolved /\ Overdue(decisions[i], sla.at)
    BY <1>1, DecisionSteps
  <2> DEFINE late == Threshold * Minutes(decisions[i].target)
  <2>2. 100 * (sla.at - decisions[i].created) >= late
    BY <2>1 DEF Overdue
  <2>3. /\ sla.at \in Nat /\ now \in Nat /\ sla.at <= now /\ decisions[i].created \in Nat
        /\ Minutes(decisions[i].target) \in Nat /\ Threshold \in Nat
    BY <1>1, DecisionParts, JobsConstants DEF Typed
  <2>4. late \in Nat
    BY <2>3
  <2> HIDE DEF late
  <2>5. 100 * (now - decisions[i].created) >= late
    BY <2>2, <2>3, <2>4
  <2> QED BY <2>1, <2>5 DEF late
<1>2. Typed /\ [Next]_vars =>
        [\A i \in Incident :
           OnRecord(i) /\ decisions'[i].priority # decisions[i].priority =>
              /\ Rank(decisions'[i].priority) = Rank(decisions[i].priority) + 1
              /\ ~decisions[i].resolved
              /\ 100 * (now - decisions[i].created) >= Threshold * Minutes(decisions[i].target)]_vars
  BY <1>1
<1> QED BY <1>2, InitTyped, NextTyped, PTL DEF Spec, ClimbsWhenLate
=============================================================================
