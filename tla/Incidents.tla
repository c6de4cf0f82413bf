------------------------------ MODULE Incidents ------------------------------
(***************************************************************************)
(* Incidents, their evaluation and the decisions on record.                *)
(*                                                                         *)
(* A handler is one request thread: POST /incidents and /incidents/bulk    *)
(* (CreateIncidentUseCase), POST /incidents/evaluate and /evaluate/bulk    *)
(* (EvaluateIncidentUseCase), POST /simulate, /simulate/replay and         *)
(* /simulate/compare.  Every database transaction is a step; a save of an  *)
(* incident is two, as PostgresIncidentRepository.save reads the row and   *)
(* then writes the columns that differ from what it read.                  *)
(*                                                                         *)
(* What the pipeline computes is left to DecisionPipeline: a decision is   *)
(* the payload, the context and the pack it was made from.  Tenant,        *)
(* region and the created_at of an incident are left out, and so is the    *)
(* degradedContext a client may send itself, which only sets the flag.     *)
(***************************************************************************)
EXTENDS Naturals, FiniteSets, Sequences, SequencesExt

CONSTANTS
    Handler,      \* request threads of the API process
    IncidentId,   \* incident ids the clients choose
    Payload,      \* payloads
    Provider,     \* context providers
    Pack,         \* rule packs, at a version
    Undecidable,  \* payloads whose evaluation raises
    Item,         \* what clients submit: id, payload, explicit context
    Request,      \* requests that may write: endpoint, evaluate or persist, items
    Backends,     \* persistence_backend: subset of {"memory", "postgres"}
    MaxItems,     \* Settings.bulk_evaluate_max_items
    MaxRequests,  \* bound: number of requests that may write
    MaxFaults     \* bound: crashes of the process and failing transactions

VARIABLES
    backend,    \* the configured backend
    incidents,  \* incidents[i]: the row, or the object in memory
    decisions,  \* decisions[i]: the decisions on i in the order they were saved
    active,     \* the pack RuleRepository.get_active() returns
    req,        \* req[h]: the request of handler h
    started,    \* number of requests that may write so far
    clock,      \* number of decisions made so far, the created_at of the last
    faults,     \* number of faults so far
    overlapped  \* history: ids two handlers were creating at the same time

vars == <<backend, incidents, decisions, active, req, started, clock, faults, overlapped>>
store == <<incidents, decisions>>
-----------------------------------------------------------------------------
CreateOps == {"create", "bulkCreate"}
EvaluateOps == {"evaluate", "bulkEvaluate"}

\* context[p]: the key of provider p was given by the client, fetched, or is
\* missing.
Context == [Provider -> {"given", "fetched", "missing"}]

\* The k-th item of request n; `keep` is `evaluate` or `persist` of the body.
Submission == [n: 1..MaxRequests, k: Nat, op: CreateOps \cup EvaluateOps, keep: BOOLEAN]

\* An Incident; sub tells whose object it is.
Incident == [payload: Payload, context: Context, degraded: BOOLEAN,
             status: {"received", "evaluated", "failed"}, sub: Submission]
Columns == {"payload", "context", "degraded", "status"}
NoIncident == [status |-> "none"]

Decision == [payload: Payload, context: Context, pack: Pack, degraded: BOOLEAN,
             at: Nat, sub: Submission]
NoDecision == [at |-> 0]

\* err: an exception is on its way out.  done: the outcomes of the items so far.
Idle == [pc |-> "idle", op |-> "none", n |-> 0, keep |-> FALSE, todo |-> <<>>,
         done |-> <<>>, inc |-> NoIncident, seen |-> NoIncident,
         dec |-> NoDecision, orig |-> NoDecision, err |-> FALSE]

ASSUME IncidentConstants ==
    /\ Item \subseteq [id: IncidentId, payload: Payload, given: SUBSET Provider]
    /\ Request \subseteq [op: CreateOps \cup EvaluateOps, keep: BOOLEAN, items: Seq(Item)]
    /\ \A q \in Request :
         /\ q.items # <<>>
         /\ q.op \in {"create", "evaluate"} => Len(q.items) = 1
         /\ q.op = "evaluate" => q.keep
    /\ Undecidable \subseteq Payload
    /\ Backends \subseteq {"memory", "postgres"} /\ Backends # {}
    /\ MaxItems \in Nat /\ MaxRequests \in Nat /\ MaxFaults \in Nat

Init ==
    /\ backend \in Backends
    /\ incidents = [i \in IncidentId |-> NoIncident]
    /\ decisions = [i \in IncidentId |-> <<>>]
    /\ active \in Pack
    /\ req = [h \in Handler |-> Idle]
    /\ started = 0 /\ clock = 0 /\ faults = 0 /\ overlapped = {}
-----------------------------------------------------------------------------
\* The incident an item is about, and the id in the repositories.
IdOf(r) == r.todo[1].id

\* Incident(...), in the use case or in the router.
NewIncident(item, sub) ==
    [payload |-> item.payload, degraded |-> FALSE, status |-> "received",
     context |-> [p \in Provider |-> IF p \in item.given THEN "given" ELSE "missing"],
     sub |-> sub]

\* ContextAggregationService.aggregate and the merge: a provider that raises
\* is only missing, explicit context wins.
Aggregated(inc, failing) ==
    [inc EXCEPT !.context = [p \in Provider |->
                               IF @[p] = "given" THEN "given"
                               ELSE IF p \in failing THEN "missing" ELSE "fetched"],
                !.degraded = @ \/ failing # {}]

\* PipelineOrchestrator.run
Run(inc, pack, at) ==
    [payload |-> inc.payload, context |-> inc.context, pack |-> pack,
     degraded |-> inc.degraded, at |-> at, sub |-> inc.sub]

\* resolve_rule_pack: the active pack, or the one the client names, which may
\* be any that is stored.
ResolveRulePack == Pack

\* What two decisions are compared by: priority, band, actions, matched rules.
Outcome(d) == <<d.payload, d.context, d.pack>>

\* _diff
Differs(orig, replayed) ==
    orig # NoDecision /\ Outcome(orig) # Outcome(replayed)

\* DecisionRepository.get: the last one saved in memory, in PostgreSQL the one
\* with the greatest created_at.
GetDecision(i) ==
    IF decisions[i] = <<>> THEN NoDecision
    ELSE IF backend = "memory" THEN Last(decisions[i])
    ELSE CHOOSE d \in ToSet(decisions[i]) : \A e \in ToSet(decisions[i]) : e.at <= d.at
-----------------------------------------------------------------------------
\* The next item of r, from the beginning of its evaluation or creation.
BeginItem(r) ==
    LET sub == [n |-> r.n, k |-> Len(r.done) + 1, op |-> r.op, keep |-> r.keep]
    IN [r EXCEPT !.inc = NewIncident(r.todo[1], sub), !.seen = NoIncident,
                 !.dec = NoDecision, !.err = FALSE,
                 !.pc = IF r.op \in CreateOps THEN "load" ELSE "decide"]

\* Mutant: a bulk creation goes on after a failure.
ItemDoneGoingOn(r, outcome) ==
    LET s == [r EXCEPT !.done = Append(@, outcome), !.todo = Tail(@)]
    IN IF s.todo = <<>> THEN [s EXCEPT !.pc = "answer"] ELSE BeginItem(s)

\* The current item ended: an exception ends the request, except in
\* BulkEvaluateUseCase, which isolates its items.
ItemDone(r, outcome) ==
    LET s == [r EXCEPT !.done = Append(@, outcome), !.todo = Tail(@)]
    IN IF s.todo = <<>> \/ (outcome = "failed" /\ r.op # "bulkEvaluate")
       THEN [s EXCEPT !.pc = "answer"]
       ELSE BeginItem(s)

Put(h, r) == req' = [req EXCEPT ![h] = r]

\* In memory the repository holds the handler's object itself: what is
\* assigned to it is in the store at once.
Publish(r) ==
    IF backend = "memory" /\ incidents[IdOf(r)].status # "none"
         /\ incidents[IdOf(r)].sub = r.inc.sub
    THEN incidents' = [incidents EXCEPT ![IdOf(r)] = r.inc]
    ELSE UNCHANGED incidents

\* The writing endpoints; POST /evaluate/bulk refuses more than MaxItems.
Submit(h) ==
    /\ req[h].pc = "idle" /\ started < MaxRequests
    /\ started' = started + 1
    /\ \E q \in Request :
         /\ q.op = "bulkEvaluate" => Len(q.items) <= MaxItems
         /\ Put(h, BeginItem([Idle EXCEPT !.op = q.op, !.n = started + 1,
                                          !.keep = q.keep, !.todo = q.items]))
    /\ UNCHANGED <<backend, incidents, decisions, active, clock, faults, overlapped>>

\* Handler g is in the middle of a creation of incident i.
Creating(g, i) ==
    req[g].op \in CreateOps /\ req[g].pc # "answer" /\ IdOf(req[g]) = i

\* PostgresIncidentRepository.save, first half: session.get.
Load(h) ==
    LET r == req[h]
    IN /\ r.pc = "load"
       /\ Put(h, [r EXCEPT !.seen = incidents[IdOf(r)], !.pc = "write"])
       /\ overlapped' = overlapped \cup
            {i \in {IdOf(r)} : \E g \in Handler \ {h} : Creating(g, i)}
       /\ UNCHANGED <<backend, incidents, decisions, active, started, clock, faults>>

\* The request after save(incident) returned.
Saved(r) ==
    CASE r.err -> ItemDone(r, "failed")
      [] ~r.err /\ r.inc.status = "received" /\ r.keep -> [r EXCEPT !.pc = "decide"]
      [] OTHER -> ItemDone(r, "ok")

\* UPDATE of the columns that differ from the row session.get returned.
RowWritten(row, seen, inc) ==
    [f \in Columns \cup {"sub"} |->
        IF f \in Columns /\ inc[f] = seen[f] THEN row[f] ELSE inc[f]]

\* Second half: INSERT or UPDATE.  In memory, an assignment to the dictionary.
Write(h) ==
    LET r == req[h]  i == IdOf(req[h])
    IN /\ r.pc = "write"
       /\ IF r.seen = NoIncident /\ incidents[i] # NoIncident /\ backend = "postgres"
          THEN Put(h, ItemDone(r, "failed")) /\ UNCHANGED incidents
          ELSE /\ incidents' = [incidents EXCEPT ![i] =
                                  IF backend = "memory" \/ r.seen = NoIncident
                                  THEN r.inc ELSE RowWritten(@, r.seen, r.inc)]
               /\ Put(h, Saved(r))
       /\ UNCHANGED <<backend, decisions, active, started, clock, faults, overlapped>>

\* Mutant: the failure is not written to the incident.
EvaluationFailsUnsaved(h, r) == Put(h, ItemDone(r, "failed")) /\ Publish(r)

\* The exception of EvaluateIncidentUseCase as its caller handles it.
EvaluationFails(h, r) ==
    IF r.op \in CreateOps
    THEN LET s == [r EXCEPT !.inc.status = "failed", !.err = TRUE, !.pc = "load"]
         IN Put(h, s) /\ Publish(s)
    ELSE Put(h, ItemDone(r, "failed")) /\ Publish(r)

\* Mutants: the decision is saved whatever the client asked for; the context
\* is aggregated in a copy of the incident.
DecideKeeping(h) ==
    /\ req[h].pc = "decide"
    /\ \E failing \in SUBSET Provider :
         LET r == [req[h] EXCEPT !.inc = Aggregated(@, failing)]
             s == [r EXCEPT !.dec = Run(r.inc, active, clock + 1), !.pc = "store"]
         IN Put(h, s) /\ Publish(s)
    /\ clock' = clock + 1
    /\ UNCHANGED <<backend, decisions, active, started, faults, overlapped>>

DecideOnCopy(h) ==
    /\ req[h].pc = "decide"
    /\ \E failing \in SUBSET Provider :
         LET copy == Aggregated(req[h].inc, failing)
         IN Put(h, [req[h] EXCEPT !.dec = Run(copy, active, clock + 1), !.pc = "store"])
    /\ clock' = clock + 1
    /\ UNCHANGED <<backend, incidents, decisions, active, started, faults, overlapped>>

\* EvaluateIncidentUseCase.execute up to the decision. get_active() of the rules
\* in PostgreSQL raises when it finds no active pack, or no database.
Decide(h) ==
    /\ req[h].pc = "decide"
    /\ \E failing \in SUBSET Provider, found \in {TRUE, backend = "memory"} :
         LET r == [req[h] EXCEPT !.inc = Aggregated(@, failing)]
             s == [r EXCEPT !.dec = Run(r.inc, active, clock + 1), !.pc = "store"]
         IN IF r.inc.payload \in Undecidable \/ ~found
            THEN EvaluationFails(h, r) /\ UNCHANGED clock
            ELSE /\ clock' = clock + 1
                 /\ Publish(s)
                 /\ Put(h, IF r.keep THEN s ELSE ItemDone(s, "ok"))
    /\ UNCHANGED <<backend, decisions, active, started, faults, overlapped>>

\* What follows the decision: the status of the incident, or the next item.
Evaluated(h, r) ==
    IF r.op \in CreateOps
    THEN LET s == [r EXCEPT !.inc.status = "evaluated", !.pc = "load"]
         IN Put(h, s) /\ Publish(s)
    ELSE Put(h, ItemDone(r, "ok")) /\ UNCHANGED incidents

\* Mutant: the status is set and the decision is not saved.
StoreLater(h) ==
    /\ req[h].pc = "store"
    /\ Evaluated(h, req[h])
    /\ UNCHANGED <<backend, decisions, active, started, clock, faults, overlapped>>

\* decision_repository.save appends.
Store(h) ==
    LET r == req[h]
    IN /\ r.pc = "store"
       /\ decisions' = [decisions EXCEPT ![IdOf(r)] = Append(@, r.dec)]
       /\ Evaluated(h, r)
       /\ UNCHANGED <<backend, active, started, clock, faults, overlapped>>

\* A transaction raises; its commit may have taken effect.
TransactionFails(h) ==
    LET r == req[h]  i == IdOf(req[h])
    IN /\ backend = "postgres" /\ faults < MaxFaults
       /\ faults' = faults + 1
       /\ \/ /\ r.pc \in {"load", "write"}
             /\ Put(h, ItemDone(r, "failed"))
             /\ UNCHANGED store
          \/ /\ r.pc = "write" /\ (r.seen = NoIncident <=> incidents[i] = NoIncident)
             /\ incidents' = [incidents EXCEPT ![i] =
                                IF r.seen = NoIncident THEN r.inc
                                ELSE RowWritten(@, r.seen, r.inc)]
             /\ Put(h, ItemDone(r, "failed"))
             /\ UNCHANGED decisions
          \/ /\ r.pc = "store"
             /\ decisions' \in {decisions,
                                [decisions EXCEPT ![i] = Append(@, r.dec)]}
             /\ EvaluationFails(h, r)
       /\ UNCHANGED <<backend, active, started, clock, overlapped>>
-----------------------------------------------------------------------------
\* POST /simulate: a run on an inline incident, without aggregation, with the
\* active pack or the one the client names (resolve_rule_pack).
WhatIf(h) ==
    /\ req[h].pc = "idle"
    /\ \E item \in Item :
         Put(h, [Idle EXCEPT !.op = "whatIf", !.pc = "answer",
                             !.done = <<IF item.payload \in Undecidable
                                        THEN "failed" ELSE "ok">>])
    /\ UNCHANGED <<backend, incidents, decisions, active, started, clock, faults, overlapped>>

\* ReplaySimulationUseCase.execute: the incident on record, the pack, the run ...
ReplayRead(h) ==
    /\ req[h].pc = "idle"
    /\ \E i \in IncidentId, pack \in ResolveRulePack :
         LET r == [Idle EXCEPT !.op = "replay", !.pc = "latest",
                               !.todo = <<[id |-> i]>>, !.inc = incidents[i]]
         IN Put(h, IF incidents[i] = NoIncident \/ incidents[i].payload \in Undecidable
                   THEN ItemDone(r, "failed")
                   ELSE [r EXCEPT !.dec = Run(r.inc, pack, clock)])
    /\ UNCHANGED <<backend, incidents, decisions, active, started, clock, faults, overlapped>>

\* ... and then the decision to compare with.
ReplayCompare(h) ==
    LET r == req[h]
    IN /\ r.pc = "latest"
       /\ Put(h, [r EXCEPT !.orig = GetDecision(IdOf(r)), !.pc = "answer"])
       /\ UNCHANGED <<backend, incidents, decisions, active, started, clock, faults, overlapped>>

\* CompareRulePacksUseCase.execute: an incident on record under two packs.
Compare(h) ==
    /\ req[h].pc = "idle"
    /\ \E i \in IncidentId, base, candidate \in ResolveRulePack :
         LET inc == incidents[i]
             differs == Outcome(Run(inc, base, 0)) # Outcome(Run(inc, candidate, 0))
         IN Put(h, [Idle EXCEPT !.op = "compare", !.pc = "answer",
                      !.done = <<IF inc = NoIncident \/ inc.payload \in Undecidable
                                 THEN "failed" ELSE IF differs THEN "differs" ELSE "ok">>])
    /\ UNCHANGED <<backend, incidents, decisions, active, started, clock, faults, overlapped>>

\* The response is sent.
Answer(h) ==
    /\ req[h].pc = "answer"
    /\ Put(h, Idle)
    /\ UNCHANGED <<backend, incidents, decisions, active, started, clock, faults, overlapped>>

\* Another pack is activated (RulePackLifecycle, RuleCache).
Activate ==
    /\ active' \in Pack \ {active}
    /\ UNCHANGED <<backend, incidents, decisions, req, started, clock, faults, overlapped>>

\* The process dies: its requests are gone, and with them the stores in memory.
Crash ==
    /\ faults < MaxFaults
    /\ faults' = faults + 1
    /\ req' = [h \in Handler |-> Idle]
    /\ IF backend = "memory"
       THEN /\ incidents' = [i \in IncidentId |-> NoIncident]
            /\ decisions' = [i \in IncidentId |-> <<>>]
       ELSE UNCHANGED store
    /\ UNCHANGED <<backend, active, started, clock, overlapped>>

Step(h) == Load(h) \/ Write(h) \/ Decide(h) \/ Store(h) \/ ReplayCompare(h) \/ Answer(h)

Next == \/ \E h \in Handler : \/ Submit(h) \/ Step(h) \/ TransactionFails(h)
                              \/ WhatIf(h) \/ ReplayRead(h) \/ Compare(h)
        \/ Activate \/ Crash

Spec == Init /\ [][Next]_vars
-----------------------------------------------------------------------------
Writing(r) == r.op \in CreateOps \cup EvaluateOps

TypeOK ==
    /\ backend \in Backends /\ active \in Pack
    /\ \A i \in IncidentId : /\ incidents[i] = NoIncident \/ incidents[i] \in Incident
                             /\ ToSet(decisions[i]) \subseteq Decision
    /\ \A h \in Handler :
         /\ req[h].pc \in {"idle", "load", "write", "decide", "store", "latest", "answer"}
         /\ Writing(req[h]) => req[h].inc \in Incident
    /\ started \in 0..MaxRequests /\ faults \in 0..MaxFaults /\ clock \in Nat
    /\ overlapped \subseteq IncidentId

\* The decisions of a submission that are on record for incident i.
StoredFor(i, sub) == {k \in DOMAIN decisions[i] : decisions[i][k].sub = sub}

\* The status of an incident is true of the decisions on record, although they
\* are saved in transactions of their own: "evaluated" only when a decision was
\* saved, of this very submission when no other creation of the id overlapped,
\* and, without faults, "failed" only when none was.
StatusIsTrue ==
    \A i \in IncidentId :
        /\ incidents[i].status = "evaluated" =>
             /\ decisions[i] # <<>>
             /\ i \notin overlapped => StoredFor(i, incidents[i].sub) # {}
        /\ incidents[i].status = "failed" /\ faults = 0 /\ i \notin overlapped =>
             StoredFor(i, incidents[i].sub) = {}

\* Without faults no incident whose evaluation was asked for is left behind as
\* "received": somebody is still working on it.
ReceivedIsInHand ==
    \A i \in IncidentId \ overlapped :
        incidents[i].status = "received" /\ incidents[i].sub.keep /\ faults = 0 =>
            \E h \in Handler : /\ req[h].inc # NoIncident
                               /\ req[h].inc.sub = incidents[i].sub
                               /\ Creating(h, i)

\* The decision of item k of the request r is on record.
Kept(r, k) == \E i \in IncidentId : \E d \in ToSet(decisions[i]) :
                d.sub.n = r.n /\ d.sub.k = k

\* What a client is told is so: an item answered as evaluated has its decision
\* on record, and without faults one answered with an error has none.
AnswersAreTrue ==
    \A h \in Handler : LET r == req[h] IN
        r.pc = "answer" /\ Writing(r) /\ r.keep =>
            \A k \in DOMAIN r.done :
                /\ r.done[k] = "ok" => Kept(r, k)
                /\ r.done[k] = "failed" /\ faults = 0 => ~Kept(r, k)

\* A bulk creation stops at its first failure and leaves no trace of the items
\* behind it; a bulk evaluation accounts for every item.
BulkLeavesAPrefix ==
    \A h \in Handler : LET r == req[h] IN
        r.pc = "answer" /\ Writing(r) =>
            /\ r.op = "bulkEvaluate" => r.todo = <<>>
            /\ r.op = "bulkCreate" =>
                 /\ \A k \in 1..(Len(r.done) - 1) : r.done[k] = "ok"
                 /\ \A i \in IncidentId : incidents[i] # NoIncident
                      /\ incidents[i].sub.n = r.n => incidents[i].sub.k <= Len(r.done)

\* Every decision on record was asked for, and made and saved once: simulation,
\* replay, comparison and dry runs persist nothing, whatever fails.
KeptOnceWhenAsked ==
    \A i \in IncidentId : \A d \in ToSet(decisions[i]) :
        /\ d.sub.keep /\ d.sub.op \in CreateOps \cup EvaluateOps
        /\ Cardinality(StoredFor(i, d.sub)) = 1

\* A replay of an incident that has been evaluated, with the pack it was
\* evaluated with, reports no difference: the context that was aggregated is
\* saved with the incident, whichever providers answered at the time.
ReplayOfUnchanged ==
    \A h \in Handler : LET r == req[h] IN
        /\ r.op = "replay" /\ r.pc = "answer" /\ r.orig # NoDecision
        /\ r.inc.status # "received" /\ r.orig.sub = r.inc.sub
        /\ IdOf(r) \notin overlapped /\ r.orig.pack = r.dec.pack
        => ~Differs(r.orig, r.dec)

=============================================================================
