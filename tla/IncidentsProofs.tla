--------------------------- MODULE IncidentsProofs ---------------------------
(***************************************************************************)
(* Proofs about incidents and the decisions on record, for any handlers,   *)
(* ids, payloads, requests, packs and bounds.                              *)
(***************************************************************************)
EXTENDS Incidents, FiniteSetTheorems, WellFoundedInduction, TLAPS

Endpoints == {"none", "whatIf", "replay", "compare"} \cup CreateOps \cup EvaluateOps

Stages == {"idle", "load", "write", "decide", "store", "latest", "answer"}

\* What an item of a writing request comes to.
Outcomes == {"ok", "failed"}

\* What a request record holds.
RequestType ==
    [pc: Stages, op: Endpoints, n: Nat, keep: BOOLEAN,
     todo: Seq(Item \cup [id: IncidentId]), done: Seq(Outcomes \cup {"differs"}),
     inc: Incident \cup {NoIncident}, seen: Incident \cup {NoIncident},
     dec: Decision \cup {NoDecision}, orig: Decision \cup {NoDecision}, err: BOOLEAN]

Typed ==
    /\ backend \in Backends /\ active \in Pack
    /\ incidents \in [IncidentId -> Incident \cup {NoIncident}]
    /\ decisions \in [IncidentId -> Seq(Decision)]
    /\ req \in [Handler -> RequestType]
    /\ started \in 0..MaxRequests /\ faults \in 0..MaxFaults /\ clock \in Nat
    /\ overlapped \subseteq IncidentId

\* In the middle of an item.
InItem(r) == Writing(r) /\ r.pc # "answer"

\* The submission a request is at.
Sub(r) == [n |-> r.n, k |-> Len(r.done) + 1, op |-> r.op, keep |-> r.keep]

\* Before the decision of the current item is saved or has failed.
Undecided(r) == r.pc \in {"decide", "store"} \/ r.inc.status = "received"

\* Before the first session.get of a creation, and after its first write.
Unread(r) == r.pc = "load" /\ r.inc.status = "received"
Written(r) == r.op \in CreateOps /\ (r.pc \in {"decide", "store"} \/ r.inc.status # "received")

\* What a request record holds at each statement.
Shape(r) ==
    /\ r.pc \in {"load", "write", "decide", "store"} => Writing(r)
    /\ r.pc \in {"load", "write"} => r.op \in CreateOps
    /\ r.pc = "idle" => ~Writing(r)
    /\ r.pc = "latest" => r.op = "replay" /\ r.todo # <<>> /\ IdOf(r) \in IncidentId
    /\ Writing(r) =>
         /\ r.n \in 1..started
         /\ r.todo \in Seq(Item) /\ r.done \in Seq(Outcomes)
         /\ r.inc \in Incident
         /\ r.op = "bulkEvaluate" /\ r.pc = "answer" => r.todo = <<>>
    /\ InItem(r) => r.todo # <<>> /\ r.inc.sub = Sub(r)
    /\ r.pc \in {"decide", "store"} => /\ r.inc.status = "received" /\ ~r.err
                                       /\ r.op \in CreateOps => r.keep
    /\ r.pc \in {"load", "write"} =>
         /\ r.err <=> r.inc.status = "failed"
         /\ r.inc.status # "received" => r.keep
    /\ r.pc = "store" => /\ r.keep /\ r.dec \in Decision
                         /\ r.dec = Run(r.inc, r.dec.pack, r.dec.at) /\ r.dec.at <= clock

\* A row of the database that was there stays there.
Rooted(r) == backend = "postgres" /\ r.pc = "write" /\ r.seen # NoIncident =>
                incidents[IdOf(r)] # NoIncident

Dated == \A i \in IncidentId : \A k \in DOMAIN decisions[i] : decisions[i][k].at <= clock

Shaped == Typed /\ Dated /\ \A h \in Handler : Shape(req[h]) /\ Rooted(req[h])

\* Requests that write are numbered apart.
Numbered == \A g, h \in Handler : Writing(req[g]) /\ Writing(req[h]) /\ req[g].n = req[h].n => g = h

\* How many items of its own a request can have saved a decision on.
Reach(r) == IF r.pc = "answer" \/ Undecided(r) \/ (r.inc.status = "failed" /\ faults = 0)
            THEN Len(r.done) ELSE Len(r.done) + 1

\* The decisions on record: each was asked for, one for each submission, and
\* those of a request in progress are of the items it has come past.
OnRecord ==
    \A i \in IncidentId :
        /\ \A k \in DOMAIN decisions[i] :
             LET d == decisions[i][k] IN
             /\ d.sub.keep /\ d.sub.n <= started
             /\ \A h \in Handler : Writing(req[h]) /\ req[h].n = d.sub.n => d.sub.k <= Reach(req[h])
        /\ \A k, l \in DOMAIN decisions[i] : decisions[i][k].sub = decisions[i][l].sub => k = l

-----------------------------------------------------------------------------
\* The decision of a creation that is "evaluated" is on record.
Backed(r) == InItem(r) /\ r.inc.status = "evaluated" =>
                \E d \in ToSet(decisions[IdOf(r)]) : d.sub = r.inc.sub

\* What the client will be told of the items so far is so.
Told(r) == Writing(r) /\ r.keep =>
             \A k \in DOMAIN r.done : /\ r.done[k] = "ok" => Kept(r, k)
                                      /\ r.done[k] = "failed" /\ faults = 0 => ~Kept(r, k)

\* The row of a creation that has written it is there, and is read.
InTable(r) ==
    backend = "postgres" =>
        /\ InItem(r) /\ Written(r) => incidents[IdOf(r)] # NoIncident
        /\ r.pc = "write" /\ r.inc.status # "received" => r.seen # NoIncident

AnswersAt(r) == Backed(r) /\ Told(r) /\ InTable(r)

Answers == \A h \in Handler : AnswersAt(req[h])

\* The outcomes of a bulk creation.
Successful(r) ==
    r.op = "bulkCreate" =>
        /\ r.pc # "answer" => \A k \in DOMAIN r.done : r.done[k] = "ok"
        /\ \A k \in 1..(Len(r.done) - 1) : r.done[k] = "ok"

\* The last item a request can have left a trace of.
Extent(r) == IF r.pc = "answer" THEN Len(r.done) ELSE Len(r.done) + 1

Bounded(r) ==
    Writing(r) => \A i \in IncidentId :
        incidents[i] # NoIncident /\ incidents[i].sub.n = r.n => incidents[i].sub.k <= Extent(r)

Prefix == /\ \A i \in IncidentId : incidents[i] # NoIncident => incidents[i].sub.n <= started
          /\ \A h \in Handler : Successful(req[h]) /\ Bounded(req[h])
-----------------------------------------------------------------------------
\* Nobody else has been creating the incident of a creation that has read it.
AloneAt(h) ==
    LET r == req[h]  i == IdOf(req[h]) IN
    r.op \in CreateOps /\ r.pc # "answer" /\ i \notin overlapped =>
        /\ \A g \in Handler \ {h} : Creating(g, i) => Unread(req[g]) \/ Unread(r)
        /\ r.pc = "write" => incidents[i] = r.seen
        /\ Written(r) => /\ incidents[i] # NoIncident /\ incidents[i].sub = r.inc.sub
                         /\ incidents[i].status = "received" \/ incidents[i] = r.inc

\* An incident a request in the middle of an item has written is that item's.
OwnAt(h) ==
    InItem(req[h]) => \A i \in IncidentId :
        incidents[i] # NoIncident /\ incidents[i].sub = req[h].inc.sub =>
            i = IdOf(req[h]) /\ Written(req[h])
-----------------------------------------------------------------------------
\* Sequences.
LEMMA AppendIs ==
    ASSUME NEW S, NEW s \in Seq(S), NEW x \in S
    PROVE  /\ Append(s, x) \in Seq(S) /\ Len(Append(s, x)) = Len(s) + 1
           /\ \A k \in DOMAIN s : Append(s, x)[k] = s[k]
           /\ Append(s, x)[Len(s) + 1] = x
           /\ DOMAIN Append(s, x) = 1..(Len(s) + 1) /\ DOMAIN s = 1..Len(s)
           /\ Len(s) \in Nat
  OBVIOUS

LEMMA TailIs ==
    ASSUME NEW S, NEW s \in Seq(S), s # <<>>
    PROVE  Tail(s) \in Seq(S) /\ s[1] \in S
  OBVIOUS

LEMMA WiderSeq ==
    ASSUME NEW S, NEW T, S \subseteq T, NEW s \in Seq(S)
    PROVE  s \in Seq(T)
  OBVIOUS

LEMMA AggregatedIs ==
    ASSUME NEW inc \in Incident, NEW failing \in SUBSET Provider
    PROVE  LET a == Aggregated(inc, failing) IN
           /\ a \in Incident
           /\ a.payload = inc.payload /\ a.status = inc.status /\ a.sub = inc.sub
<1> DEFINE c == [p \in Provider |-> IF inc.context[p] = "given" THEN "given"
                                    ELSE IF p \in failing THEN "missing" ELSE "fetched"]
           g == inc.degraded \/ failing # {}
<1>1. c \in Context
  BY DEF Context
<1>2. g \in BOOLEAN
  OBVIOUS
<1>3. Aggregated(inc, failing) = [inc EXCEPT !.context = c, !.degraded = g]
  BY Zenon DEF Aggregated
<1> HIDE DEF c, g
<1> QED
  BY <1>1, <1>2, <1>3 DEF Incident

LEMMA RowWrittenIs ==
    ASSUME NEW row \in Incident, NEW seen \in Incident, NEW inc \in Incident
    PROVE  LET w == RowWritten(row, seen, inc) IN
           /\ w \in Incident
           /\ w.sub = inc.sub
           /\ w.status = IF inc.status = seen.status THEN row.status ELSE inc.status
           /\ row = seen => w = inc
<1> DEFINE w == RowWritten(row, seen, inc)
<1>0. Columns \cup {"sub"} = {"payload", "context", "degraded", "status", "sub"}
  BY DEF Columns
<1>1. w = [f \in {"payload", "context", "degraded", "status", "sub"} |->
             IF f \in Columns /\ inc[f] = seen[f] THEN row[f] ELSE inc[f]]
  BY <1>0 DEF RowWritten
<1>2. w = [payload |-> IF inc.payload = seen.payload THEN row.payload ELSE inc.payload,
           context |-> IF inc.context = seen.context THEN row.context ELSE inc.context,
           degraded |-> IF inc.degraded = seen.degraded THEN row.degraded ELSE inc.degraded,
           status |-> IF inc.status = seen.status THEN row.status ELSE inc.status,
           sub |-> inc.sub]
  BY <1>1 DEF Columns, Incident
<1> HIDE DEF w
<1> QED
  BY <1>2 DEF Incident, w

\* r is at the first statement of an item.
AtStart(r) ==
    /\ r.inc \in Incident /\ r.inc.status = "received" /\ r.inc.sub = Sub(r)
    /\ r.seen = NoIncident /\ r.dec = NoDecision /\ ~r.err
    /\ r.pc = IF r.op \in CreateOps THEN "load" ELSE "decide"

\* s is what becomes of r when its item ends with an outcome.
Ended(r, s, outcome) ==
    /\ s.op = r.op /\ s.n = r.n /\ s.keep = r.keep
    /\ s.done = Append(r.done, outcome) /\ s.todo = Tail(r.todo)
    /\ s \in RequestType /\ s.inc \in Incident
    /\ s.todo \in Seq(Item) /\ s.done \in Seq(Outcomes)
    /\ \/ /\ s.pc = "answer" /\ s.inc.sub = r.inc.sub
          /\ s.todo = <<>> \/ (outcome = "failed" /\ r.op # "bulkEvaluate")
       \/ /\ s.todo # <<>> /\ (outcome = "ok" \/ r.op = "bulkEvaluate")
          /\ AtStart(s)

\* A writing request with an item to be done.
AtWork(r) ==
    /\ r \in RequestType /\ Writing(r) /\ r.n \in 1..MaxRequests
    /\ r.todo \in Seq(Item) /\ r.todo # <<>> /\ r.done \in Seq(Outcomes)

LEMMA NewIncidentIs ==
    ASSUME NEW item \in Item, NEW sub \in Submission
    PROVE  LET inc == NewIncident(item, sub) IN
           inc \in Incident /\ inc.status = "received" /\ inc.sub = sub /\ inc.payload = item.payload
<1> DEFINE c == [p \in Provider |-> IF p \in item.given THEN "given" ELSE "missing"]
<1>1. c \in Context
  BY DEF Context
<1>2. NewIncident(item, sub) = [payload |-> item.payload, degraded |-> FALSE, status |-> "received",
                                context |-> c, sub |-> sub]
  BY DEF NewIncident
<1> HIDE DEF c
<1> QED
  BY <1>1, <1>2, IncidentConstants DEF Incident

LEMMA SubIs ==
    ASSUME NEW r, AtWork(r)
    PROVE  Sub(r) \in Submission
  BY DEF AtWork, Sub, Submission, Writing, RequestType

LEMMA BeginItemIs ==
    ASSUME NEW r, AtWork(r)
    PROVE  LET s == BeginItem(r) IN
           /\ AtWork(s) /\ AtStart(s)
           /\ s.op = r.op /\ s.n = r.n /\ s.keep = r.keep /\ s.done = r.done /\ s.todo = r.todo
<1> DEFINE inc == NewIncident(r.todo[1], Sub(r))
           pc == IF r.op \in CreateOps THEN "load" ELSE "decide"
<1>1. inc \in Incident /\ inc.status = "received" /\ inc.sub = Sub(r)
  <2>1. r.todo[1] \in Item
    BY DEF AtWork
  <2> QED
    BY <2>1, SubIs, NewIncidentIs
<1>2. pc \in Stages
  BY DEF Stages
<1>3. BeginItem(r) = [pc |-> pc, op |-> r.op, n |-> r.n, keep |-> r.keep, todo |-> r.todo,
                      done |-> r.done, inc |-> inc, seen |-> NoIncident, dec |-> NoDecision,
                      orig |-> r.orig, err |-> FALSE]
  <2>1. BeginItem(r) = [r EXCEPT !.inc = inc, !.seen = NoIncident, !.dec = NoDecision,
                                 !.err = FALSE, !.pc = pc]
    BY DEF BeginItem, Sub
  <2> HIDE DEF inc, pc
  <2> QED
    BY <2>1 DEF AtWork, RequestType
<1>4. PICK s : s = BeginItem(r)
  OBVIOUS
<1>5. /\ s.inc = inc /\ s.seen = NoIncident /\ s.dec = NoDecision /\ s.err = FALSE /\ s.pc = pc
      /\ s.op = r.op /\ s.n = r.n /\ s.keep = r.keep /\ s.done = r.done /\ s.todo = r.todo
      /\ s \in RequestType
  <2> HIDE DEF inc, pc
  <2> QED
    BY <1>1, <1>2, <1>3, <1>4 DEF RequestType, AtWork
<1> HIDE DEF inc
<1> QED
  BY <1>1, <1>4, <1>5 DEF AtWork, AtStart, Writing, Sub

LEMMA ItemDoneIs ==
    ASSUME NEW r, AtWork(r), r.inc \in Incident, NEW outcome \in Outcomes
    PROVE  Ended(r, ItemDone(r, outcome), outcome)
<1> DEFINE u == [r EXCEPT !.done = Append(@, outcome), !.todo = Tail(@)]
<1>1. PICK d \in Seq(Outcomes) : d = Append(r.done, outcome)
  BY AppendIs DEF AtWork
<1>2. PICK t \in Seq(Item) : t = Tail(r.todo)
  BY TailIs DEF AtWork
<1>3. d \in Seq(Outcomes \cup {"differs"}) /\ t \in Seq(Item \cup [id: IncidentId])
  BY WiderSeq
<1>4. u = [pc |-> r.pc, op |-> r.op, n |-> r.n, keep |-> r.keep, todo |-> t, done |-> d,
           inc |-> r.inc, seen |-> r.seen, dec |-> r.dec, orig |-> r.orig, err |-> r.err]
  <2>1. u = [r EXCEPT !.done = d, !.todo = t]
    BY <1>1, <1>2
  <2> HIDE DEF u
  <2> QED
    BY <2>1 DEF AtWork, RequestType
<1>5. /\ u \in RequestType /\ u.todo = t /\ u.done = d
      /\ u.op = r.op /\ u.n = r.n /\ u.keep = r.keep
  <2> HIDE DEF u
  <2> QED
    BY <1>3, <1>4 DEF AtWork, RequestType
<1>6. ItemDone(r, outcome) = IF u.todo = <<>> \/ (outcome = "failed" /\ r.op # "bulkEvaluate")
                             THEN [u EXCEPT !.pc = "answer"] ELSE BeginItem(u)
  BY DEF ItemDone
<1>7. CASE u.todo = <<>> \/ (outcome = "failed" /\ r.op # "bulkEvaluate")
  <2>1. PICK s : s = [u EXCEPT !.pc = "answer"]
    OBVIOUS
  <2>2. /\ s \in RequestType /\ s.pc = "answer" /\ s.todo = t /\ s.done = d /\ s.inc = r.inc
        /\ s.op = r.op /\ s.n = r.n /\ s.keep = r.keep
    <3> HIDE DEF u
    <3> QED
      BY <2>1, <1>4, <1>5 DEF RequestType, Stages
  <2>3. s = ItemDone(r, outcome)
    BY <1>6, <1>7, <2>1
  <2> HIDE DEF u
  <2> QED
    BY <2>2, <2>3, <1>7, <1>5, <1>1, <1>2 DEF Ended
<1>8. CASE ~(u.todo = <<>> \/ (outcome = "failed" /\ r.op # "bulkEvaluate"))
  <2> HIDE DEF u
  <2>1. AtWork(u)
    BY <1>5, <1>8 DEF AtWork, Writing
  <2>2. PICK s : s = BeginItem(u)
    OBVIOUS
  <2>3. AtWork(s) /\ AtStart(s) /\ s.op = u.op /\ s.n = u.n /\ s.keep = u.keep /\ s.done = u.done /\ s.todo = u.todo
    BY <2>1, <2>2, BeginItemIs
  <2>4. s = ItemDone(r, outcome)
    BY <1>6, <1>8, <2>2
  <2>5. outcome = "ok" \/ r.op = "bulkEvaluate"
    BY <1>8 DEF Outcomes
  <2>6. s.inc \in Incident /\ s \in RequestType /\ s.todo # <<>>
    BY <2>3 DEF AtWork, AtStart
  <2> QED
    BY <2>3, <2>4, <2>5, <2>6, <1>5, <1>1, <1>2 DEF Ended
<1> QED
  BY <1>7, <1>8

-----------------------------------------------------------------------------
(* What the steps do to a request that writes.                             *)

\* s is r further on in the same item.
Same(r, s) ==
    /\ s \in RequestType /\ s.op = r.op /\ s.n = r.n /\ s.keep = r.keep
    /\ s.todo = r.todo /\ s.done = r.done
    /\ s.inc \in Incident /\ s.inc.sub = r.inc.sub

\* The handler's object is what the dictionary in memory holds.
Owns(i, x) == backend = "memory" /\ incidents[i] # NoIncident /\ incidents[i].sub = x.sub

Published(i, x) == incidents' = IF Owns(i, x) THEN [incidents EXCEPT ![i] = x] ELSE incidents

\* x is what the write of r makes of the row.
Row(r, x) ==
    /\ x \in Incident /\ x.sub = r.inc.sub
    /\ backend = "memory" \/ r.seen = NoIncident \/ incidents[IdOf(r)] = r.seen => x = r.inc
    /\ x.status = r.inc.status \/ x.status = incidents[IdOf(r)].status

LoadEffect(r, s) ==
    /\ Same(r, s) /\ s.inc = r.inc /\ s.err = r.err
    /\ s.seen = incidents[IdOf(r)] /\ s.pc = "write"

WriteEffect(r, s) ==
    \/ /\ backend = "postgres" /\ r.seen = NoIncident /\ incidents[IdOf(r)] # NoIncident
       /\ Ended(r, s, "failed") /\ incidents' = incidents
    \/ /\ \E x \in Incident : Row(r, x) /\ incidents' = [incidents EXCEPT ![IdOf(r)] = x]
       /\ \/ r.err /\ Ended(r, s, "failed")
          \/ ~r.err /\ (r.inc.status # "received" \/ ~r.keep) /\ Ended(r, s, "ok")
          \/ /\ ~r.err /\ r.inc.status = "received" /\ r.keep
             /\ Same(r, s) /\ s.inc = r.inc /\ ~s.err /\ s.pc = "decide"

\* x is the object of r after an evaluation has failed.
FailEffect(r, s, x) ==
    \/ /\ r.op \in CreateOps /\ Same(r, s) /\ s.inc = [x EXCEPT !.status = "failed"]
       /\ s.err /\ s.pc = "load" /\ Published(IdOf(r), s.inc)
    \/ r.op \in EvaluateOps /\ Ended(r, s, "failed") /\ Published(IdOf(r), x)

DecideEffect(r, s) ==
    \E x \in Incident :
        /\ x.sub = r.inc.sub /\ x.status = "received" /\ x.payload = r.inc.payload
        /\ \/ FailEffect(r, s, x) /\ clock' = clock
           \/ /\ r.keep /\ Same(r, s) /\ s.inc = x /\ s.pc = "store" /\ ~s.err
              /\ s.dec = Run(x, active, clock + 1)
              /\ clock' = clock + 1 /\ Published(IdOf(r), x)
           \/ ~r.keep /\ Ended(r, s, "ok") /\ clock' = clock + 1 /\ Published(IdOf(r), x)

StoreEffect(r, s) ==
    \/ /\ r.op \in CreateOps /\ Same(r, s) /\ s.inc = [r.inc EXCEPT !.status = "evaluated"]
       /\ ~s.err /\ s.pc = "load" /\ Published(IdOf(r), s.inc)
    \/ r.op \in EvaluateOps /\ Ended(r, s, "ok") /\ incidents' = incidents

FaultEffect(r, s) ==
    \/ r.pc \in {"load", "write"} /\ Ended(r, s, "failed") /\ UNCHANGED store
    \/ /\ r.pc = "write" /\ Ended(r, s, "failed") /\ decisions' = decisions
       /\ \E x \in Incident : Row(r, x) /\ incidents' = [incidents EXCEPT ![IdOf(r)] = x]
    \/ /\ r.pc = "store" /\ FailEffect(r, s, r.inc)
       /\ decisions' = decisions \/ decisions' = [decisions EXCEPT ![IdOf(r)] = Append(@, r.dec)]

LEMMA NoIncidentIs ==
    /\ NoIncident \notin Incident /\ NoIncident.status = "none"
    /\ \A x \in Incident : x.status # "none" /\ x.status \in {"received", "evaluated", "failed"}
  BY DEF NoIncident, Incident

LEMMA Busy ==
    ASSUME Shaped, NEW h \in Handler, InItem(req[h])
    PROVE  /\ AtWork(req[h]) /\ req[h].inc \in Incident /\ IdOf(req[h]) \in IncidentId
           /\ req[h].inc.sub = Sub(req[h])
<1>1. /\ req[h] \in RequestType /\ Shape(req[h]) /\ Writing(req[h])
  BY DEF Shaped, Typed, InItem
<1>0. req[h].n \in 1..MaxRequests
  BY <1>1, IncidentConstants DEF Shape, Typed, Shaped
<1>2. AtWork(req[h]) /\ req[h].inc \in Incident /\ req[h].inc.sub = Sub(req[h])
  BY <1>0, <1>1 DEF Shape, AtWork, InItem
<1>3. req[h].todo[1] \in Item
  BY <1>2, TailIs DEF AtWork
<1> QED
  BY <1>2, <1>3, IncidentConstants DEF IdOf

LEMMA LoadDoes ==
    ASSUME Shaped, NEW h \in Handler, Load(h)
    PROVE  \E s \in RequestType : Put(h, s) /\ InItem(req[h]) /\ LoadEffect(req[h], s)
<1> DEFINE r == req[h]  s == [r EXCEPT !.seen = incidents[IdOf(r)], !.pc = "write"]
<1>1. InItem(r) /\ r.pc = "load" /\ Put(h, s)
  BY DEF Load, InItem, Shaped, Shape
<1>2. r \in RequestType /\ r.inc \in Incident /\ incidents[IdOf(r)] \in Incident \cup {NoIncident}
  BY <1>1, Busy DEF Shaped, Typed, AtWork
<1>3. s \in RequestType /\ LoadEffect(r, s)
  BY <1>2 DEF RequestType, Stages, LoadEffect, Same
<1> QED
  BY <1>1, <1>3

LEMMA RowIs ==
    ASSUME Shaped, NEW h \in Handler, req[h].pc = "write",
           NEW x, x = IF backend = "memory" \/ req[h].seen = NoIncident THEN req[h].inc
                      ELSE RowWritten(incidents[IdOf(req[h])], req[h].seen, req[h].inc)
    PROVE  x \in Incident /\ Row(req[h], x)
<1> DEFINE r == req[h]
<1>1. InItem(r) /\ Rooted(r)
  BY DEF InItem, Shaped, Shape
<1>2. /\ r.inc \in Incident /\ r.seen \in Incident \cup {NoIncident}
      /\ incidents[IdOf(r)] \in Incident \cup {NoIncident}
  BY <1>1, Busy DEF Shaped, Typed, AtWork, RequestType
<1>3. CASE backend = "memory" \/ r.seen = NoIncident
  BY <1>2, <1>3 DEF Row
<1>4. CASE ~(backend = "memory" \/ r.seen = NoIncident)
  <2>1. backend = "postgres"
    BY <1>4, IncidentConstants DEF Shaped, Typed
  <2>2. incidents[IdOf(r)] \in Incident /\ r.seen \in Incident
    BY <1>1, <1>2, <1>4, <2>1 DEF Rooted
  <2> QED
    BY <1>2, <1>4, <2>2, RowWrittenIs DEF Row
<1> QED
  BY <1>3, <1>4

LEMMA WriteDoes ==
    ASSUME Shaped, NEW h \in Handler, Write(h)
    PROVE  \E s \in RequestType : Put(h, s) /\ InItem(req[h]) /\ WriteEffect(req[h], s)
<1> DEFINE r == req[h]  i == IdOf(req[h])
           lost == r.seen = NoIncident /\ incidents[i] # NoIncident /\ backend = "postgres"
           x == IF backend = "memory" \/ r.seen = NoIncident THEN r.inc
                ELSE RowWritten(incidents[i], r.seen, r.inc)
<1>1. InItem(r) /\ r.pc = "write" /\ (r.err <=> r.inc.status = "failed")
  BY DEF Write, InItem, Shaped, Shape
<1>2. AtWork(r) /\ r.inc \in Incident /\ i \in IncidentId
  BY <1>1, Busy
<1>3. r \in RequestType
  BY <1>2 DEF AtWork
<1>4. Ended(r, ItemDone(r, "failed"), "failed") /\ Ended(r, ItemDone(r, "ok"), "ok")
  BY <1>2, ItemDoneIs DEF Outcomes
<1>5. CASE lost
  <2>1. Put(h, ItemDone(r, "failed")) /\ incidents' = incidents
    BY <1>5 DEF Write
  <2>2. ItemDone(r, "failed") \in RequestType
    BY <1>4 DEF Ended
  <2>3. WriteEffect(r, ItemDone(r, "failed"))
    BY <1>5, <2>1, <1>4 DEF WriteEffect
  <2> QED
    BY <1>1, <2>1, <2>2, <2>3
<1>6. CASE ~lost
  <2>1. incidents' = [incidents EXCEPT ![i] = x] /\ Put(h, Saved(r))
    BY <1>6 DEF Write
  <2>2. x \in Incident /\ Row(r, x)
    BY <1>1, RowIs
  <2> HIDE DEF x
  <2>3. CASE r.err
    <3>1. Saved(r) = ItemDone(r, "failed")
      BY <1>1, <2>3 DEF Saved
    <3>2. ItemDone(r, "failed") \in RequestType
      BY <1>4 DEF Ended
    <3>3. WriteEffect(r, ItemDone(r, "failed"))
      BY <1>4, <2>1, <2>2, <2>3 DEF WriteEffect
    <3> QED
      BY <1>1, <2>1, <3>1, <3>2, <3>3
  <2>4. CASE ~r.err /\ ~(r.inc.status = "received" /\ r.keep)
    <3>1. Saved(r) = ItemDone(r, "ok")
      BY <2>4 DEF Saved
    <3>2. ItemDone(r, "ok") \in RequestType
      BY <1>4 DEF Ended
    <3>3. WriteEffect(r, ItemDone(r, "ok"))
      BY <1>4, <2>1, <2>2, <2>4 DEF WriteEffect
    <3> QED
      BY <1>1, <2>1, <3>1, <3>2, <3>3
  <2>5. CASE ~r.err /\ r.inc.status = "received" /\ r.keep
    <3>1. Saved(r) = [r EXCEPT !.pc = "decide"]
      BY <2>5 DEF Saved
    <3>2. PICK s : s = [r EXCEPT !.pc = "decide"]
      OBVIOUS
    <3>3. s \in RequestType /\ Same(r, s) /\ s.inc = r.inc /\ ~s.err /\ s.pc = "decide"
      BY <1>2, <1>3, <2>5, <3>2 DEF RequestType, Stages, Same
    <3> QED
      BY <1>1, <2>1, <2>2, <2>5, <3>1, <3>2, <3>3 DEF WriteEffect
  <2> QED
    BY <2>3, <2>4, <2>5
<1> QED
  BY <1>5, <1>6

LEMMA PublishDoes ==
    ASSUME Shaped, NEW s \in RequestType, Publish(s), IdOf(s) \in IncidentId
    PROVE  Published(IdOf(s), s.inc)
<1>1. incidents[IdOf(s)] \in Incident \cup {NoIncident}
  BY DEF Shaped, Typed
<1>2. incidents[IdOf(s)].status # "none" <=> incidents[IdOf(s)] # NoIncident
  BY <1>1, NoIncidentIs
<1> QED
  BY <1>2 DEF Publish, Published, Owns

LEMMA EvaluationFailsDoes ==
    ASSUME Shaped, NEW h \in Handler, InItem(req[h]), NEW r \in RequestType,
           Same(req[h], r), EvaluationFails(h, r)
    PROVE  \E s \in RequestType : Put(h, s) /\ FailEffect(req[h], s, r.inc)
<1>1. AtWork(r) /\ r.inc \in Incident /\ IdOf(r) = IdOf(req[h]) /\ IdOf(r) \in IncidentId
  BY Busy DEF Same, AtWork, Writing, IdOf
<1>2. r.op = req[h].op
  BY DEF Same
<1>3. CASE r.op \in CreateOps
  <2> DEFINE x == [r.inc EXCEPT !.status = "failed"]
  <2>1. x \in Incident /\ x.sub = r.inc.sub
    BY <1>1 DEF Incident
  <2>2. PICK s : s = [r EXCEPT !.inc = x, !.err = TRUE, !.pc = "load"]
    OBVIOUS
  <2>3. Put(h, s) /\ Publish(s)
    BY <1>3, <2>2 DEF EvaluationFails
  <2>4. /\ s \in RequestType /\ s.inc = x /\ s.err = TRUE /\ s.pc = "load"
        /\ s.op = r.op /\ s.n = r.n /\ s.keep = r.keep /\ s.todo = r.todo /\ s.done = r.done
    <3> HIDE DEF x
    <3> QED
      BY <2>1, <2>2 DEF RequestType, Stages
  <2>5. Same(req[h], s) /\ IdOf(s) = IdOf(r)
    <3> HIDE DEF x
    <3> QED
      BY <2>1, <2>4 DEF Same, IdOf
  <2>6. Published(IdOf(req[h]), s.inc)
    BY <1>1, <2>3, <2>4, <2>5, PublishDoes
  <2> QED
    BY <1>2, <1>3, <2>3, <2>4, <2>5, <2>6 DEF FailEffect
<1>4. CASE r.op \notin CreateOps
  <2> DEFINE s == ItemDone(r, "failed")
  <2>1. Put(h, s) /\ Publish(r)
    BY <1>4 DEF EvaluationFails
  <2>2. Ended(r, s, "failed")
    BY <1>1, ItemDoneIs DEF Outcomes
  <2>3. Published(IdOf(req[h]), r.inc)
    BY <1>1, <2>1, PublishDoes
  <2> HIDE DEF s
  <2>4. Ended(req[h], s, "failed") /\ s \in RequestType
    BY <2>2 DEF Ended, Same
  <2>5. req[h].op \in EvaluateOps
    BY <1>2, <1>4 DEF InItem, Writing
  <2> QED
    BY <2>1, <2>3, <2>4, <2>5 DEF FailEffect
<1> QED
  BY <1>3, <1>4

LEMMA DecideDoes ==
    ASSUME Shaped, NEW h \in Handler, Decide(h)
    PROVE  \E s \in RequestType : Put(h, s) /\ InItem(req[h]) /\ DecideEffect(req[h], s)
<1>1. InItem(req[h]) /\ req[h].inc.status = "received" /\ ~req[h].err
  BY DEF Decide, InItem, Shaped, Shape
<1>2. /\ AtWork(req[h]) /\ req[h].inc \in Incident /\ IdOf(req[h]) \in IncidentId
      /\ req[h] \in RequestType
  BY <1>1, Busy DEF AtWork
<1>3. PICK failing \in SUBSET Provider, found \in {TRUE, backend = "memory"} :
         LET r == [req[h] EXCEPT !.inc = Aggregated(@, failing)]
             s == [r EXCEPT !.dec = Run(r.inc, active, clock + 1), !.pc = "store"]
         IN IF r.inc.payload \in Undecidable \/ ~found
            THEN EvaluationFails(h, r) /\ UNCHANGED clock
            ELSE /\ clock' = clock + 1
                 /\ Publish(s)
                 /\ Put(h, IF r.keep THEN s ELSE ItemDone(s, "ok"))
  BY DEF Decide
<1> DEFINE x == Aggregated(req[h].inc, failing)
           r == [req[h] EXCEPT !.inc = x]
           d == Run(x, active, clock + 1)
           s == [r EXCEPT !.dec = d, !.pc = "store"]
<1>4. /\ x \in Incident /\ x.sub = req[h].inc.sub /\ x.status = "received"
      /\ x.payload = req[h].inc.payload
  BY <1>1, <1>2, AggregatedIs
<1>5. d \in Decision
  BY <1>4 DEF Run, Decision, Incident, Shaped, Typed
<1>6. r.inc = x
  BY <1>2 DEF RequestType
<1>7. IF x.payload \in Undecidable \/ ~found
      THEN EvaluationFails(h, r) /\ UNCHANGED clock
      ELSE /\ clock' = clock + 1
           /\ Publish(s)
           /\ Put(h, IF r.keep THEN s ELSE ItemDone(s, "ok"))
  <2> HIDE DEF x
  <2>1. r = [req[h] EXCEPT !.inc = Aggregated(@, failing)] /\ r.inc = x
    BY <1>6 DEF x
  <2> HIDE DEF r
  <2> QED
    BY <1>3, <2>1
<1> HIDE DEF x, d
<1>8. r \in RequestType /\ Same(req[h], r)
  BY <1>2, <1>4, <1>6 DEF RequestType, Same
<1>9. CASE x.payload \in Undecidable \/ ~found
  <2>1. PICK t \in RequestType : Put(h, t) /\ FailEffect(req[h], t, r.inc)
    <3> HIDE DEF r
    <3> QED
      BY <1>1, <1>7, <1>8, <1>9, EvaluationFailsDoes
  <2> QED
    BY <1>1, <1>4, <1>6, <1>7, <1>9, <2>1 DEF DecideEffect
<1>10. CASE ~(x.payload \in Undecidable \/ ~found)
  <2>1. /\ s \in RequestType /\ Same(req[h], s) /\ s.inc = x /\ s.pc = "store" /\ s.err = req[h].err
        /\ s.dec = d
    BY <1>2, <1>4, <1>5 DEF RequestType, Stages, Same
  <2>2. clock' = clock + 1 /\ Publish(s) /\ Put(h, IF req[h].keep THEN s ELSE ItemDone(s, "ok"))
    BY <1>2, <1>7, <1>10 DEF RequestType
  <2> HIDE DEF s
  <2>3. IdOf(s) = IdOf(req[h])
    BY <2>1 DEF Same, IdOf
  <2>4. Published(IdOf(req[h]), x)
    BY <1>2, <2>1, <2>2, <2>3, PublishDoes
  <2>5. CASE req[h].keep
    BY <1>1, <1>4, <2>1, <2>2, <2>4, <2>5 DEF DecideEffect, d
  <2>6. CASE ~req[h].keep
    <3>1. AtWork(s)
      BY <1>2, <2>1 DEF AtWork, Same, Writing
    <3>2. Ended(s, ItemDone(s, "ok"), "ok")
      BY <1>4, <2>1, <3>1, ItemDoneIs DEF Outcomes
    <3>3. PICK t : t = ItemDone(s, "ok")
      OBVIOUS
    <3>4. Ended(req[h], t, "ok") /\ t \in RequestType
      BY <2>1, <3>2, <3>3 DEF Ended, Same
    <3> QED
      BY <1>1, <1>4, <2>2, <2>4, <2>6, <3>3, <3>4 DEF DecideEffect
  <2> QED
    BY <2>5, <2>6
<1> QED
  BY <1>9, <1>10

LEMMA StoreDoes ==
    ASSUME Shaped, NEW h \in Handler, req[h].pc = "store", Evaluated(h, req[h])
    PROVE  \E s \in RequestType : Put(h, s) /\ InItem(req[h]) /\ StoreEffect(req[h], s)
<1> DEFINE r == req[h]
<1>1. InItem(r) /\ ~r.err
  BY DEF InItem, Shaped, Shape
<1>2. AtWork(r) /\ r.inc \in Incident /\ IdOf(r) \in IncidentId /\ r \in RequestType
  BY <1>1, Busy DEF AtWork
<1>3. CASE r.op \in CreateOps
  <2> DEFINE x == [r.inc EXCEPT !.status = "evaluated"]
  <2>1. x \in Incident /\ x.sub = r.inc.sub
    BY <1>2 DEF Incident
  <2>2. PICK s : s = [r EXCEPT !.inc = x, !.pc = "load"]
    OBVIOUS
  <2>3. Put(h, s) /\ Publish(s)
    BY <1>3, <2>2 DEF Evaluated
  <2> HIDE DEF x
  <2>4. /\ s \in RequestType /\ s.inc = x /\ s.err = r.err /\ s.pc = "load"
        /\ Same(r, s)
    BY <1>2, <2>1, <2>2 DEF RequestType, Stages, Same
  <2>5. IdOf(s) = IdOf(r)
    BY <2>4 DEF Same, IdOf
  <2>6. Published(IdOf(r), s.inc)
    BY <1>2, <2>3, <2>4, <2>5, PublishDoes
  <2> QED
    BY <1>1, <1>3, <2>3, <2>4, <2>6 DEF StoreEffect, x
<1>4. CASE r.op \notin CreateOps
  <2>1. Put(h, ItemDone(r, "ok")) /\ incidents' = incidents
    BY <1>4 DEF Evaluated
  <2>2. Ended(r, ItemDone(r, "ok"), "ok")
    BY <1>2, ItemDoneIs DEF Outcomes
  <2>3. ItemDone(r, "ok") \in RequestType
    BY <2>2 DEF Ended
  <2>4. r.op \in EvaluateOps
    BY <1>1, <1>4 DEF InItem, Writing
  <2> QED
    BY <1>1, <2>1, <2>2, <2>3, <2>4 DEF StoreEffect
<1> QED
  BY <1>3, <1>4

-----------------------------------------------------------------------------
(* The newest decision.                                                    *)

LEMMA LeastNatural ==
    ASSUME NEW T, T \subseteq Nat, T # {}
    PROVE  \E x \in T : \A y \in T : x <= y
<1>1. PICK x \in T : \A y \in T : ~(<<y, x>> \in OpToRel(<, Nat))
  BY NatLessThanWellFounded, WFMin
<1>2. \A y \in T : ~(y < x)
  BY <1>1 DEF OpToRel
<1> QED
  BY <1>2

LEMMA Newest ==
    ASSUME NEW S, S # {}, NEW c \in Nat, \A d \in S : d.at \in Nat /\ d.at <= c
    PROVE  \E d \in S : \A e \in S : e.at <= d.at
<1> DEFINE T == {c - d.at : d \in S}
<1>0. T \subseteq Nat /\ T # {}
  OBVIOUS
<1>1. PICK x \in T : \A y \in T : x <= y
  <2> HIDE DEF T
  <2> QED
    BY <1>0, LeastNatural
<1>2. PICK d \in S : x = c - d.at
  BY <1>1
<1>3. \A e \in S : c - d.at <= c - e.at
  BY <1>1, <1>2
<1> QED
  BY <1>3

LEMMA GetDecisionIs ==
    ASSUME Shaped, NEW i \in IncidentId
    PROVE  GetDecision(i) = NoDecision \/ GetDecision(i) \in ToSet(decisions[i])
<1>1. decisions[i] \in Seq(Decision) /\ clock \in Nat
  BY DEF Shaped, Typed
<1>2. CASE decisions[i] = <<>>
  BY <1>2 DEF GetDecision
<1>3. CASE decisions[i] # <<>> /\ backend = "memory"
  <2>1. GetDecision(i) = Last(decisions[i])
    BY <1>3 DEF GetDecision
  <2>2. Len(decisions[i]) \in DOMAIN decisions[i]
    BY <1>1, <1>3
  <2> QED
    BY <2>1, <2>2 DEF Last, ToSet
<1>4. CASE decisions[i] # <<>> /\ backend # "memory"
  <2> DEFINE S == ToSet(decisions[i])
  <2>1. GetDecision(i) = CHOOSE d \in S : \A e \in S : e.at <= d.at
    BY <1>4 DEF GetDecision
  <2>2. S # {} /\ \A d \in S : d.at \in Nat /\ d.at <= clock
    <3>1. 1 \in DOMAIN decisions[i]
      BY <1>1, <1>4
    <3>2. \A k \in DOMAIN decisions[i] : decisions[i][k] \in Decision /\ decisions[i][k].at <= clock
      BY <1>1 DEF Shaped, Dated
    <3> QED
      BY <3>1, <3>2 DEF ToSet, Decision
  <2> HIDE DEF S
  <2>3. \E d \in S : \A e \in S : e.at <= d.at
    BY <1>1, <2>2, Newest
  <2>4. GetDecision(i) \in S
    BY <2>1, <2>3
  <2> QED
    BY <2>4 DEF S
<1> QED
  BY <1>2, <1>3, <1>4

-----------------------------------------------------------------------------
LEMMA FaultDoes ==
    ASSUME Shaped, NEW h \in Handler, TransactionFails(h)
    PROVE  \E s \in RequestType : Put(h, s) /\ InItem(req[h]) /\ FaultEffect(req[h], s)
<1> DEFINE r == req[h]  i == IdOf(req[h])  s == ItemDone(r, "failed")
<1>1. r.pc \in {"load", "write", "store"} /\ InItem(r) /\ backend = "postgres"
  BY DEF TransactionFails, InItem, Shaped, Shape
<1>2. AtWork(r) /\ r.inc \in Incident /\ i \in IncidentId /\ r \in RequestType
  BY <1>1, Busy DEF AtWork
<1>3. Ended(r, s, "failed")
  BY <1>2, ItemDoneIs DEF Outcomes
<1>4. s \in RequestType
  BY <1>3 DEF Ended
<1>5. CASE r.pc \in {"load", "write"} /\ Put(h, s) /\ UNCHANGED store
  BY <1>1, <1>3, <1>4, <1>5 DEF FaultEffect
<1>6. CASE /\ r.pc = "write" /\ Put(h, s) /\ UNCHANGED decisions
           /\ incidents' = [incidents EXCEPT ![i] = IF r.seen = NoIncident THEN r.inc
                                                    ELSE RowWritten(@, r.seen, r.inc)]
  <2> DEFINE x == IF backend = "memory" \/ r.seen = NoIncident THEN r.inc
                  ELSE RowWritten(incidents[i], r.seen, r.inc)
  <2>1. incidents' = [incidents EXCEPT ![i] = x]
    BY <1>1, <1>6
  <2>2. x \in Incident /\ Row(r, x)
    BY <1>6, RowIs
  <2> HIDE DEF x, s
  <2> QED
    BY <1>1, <1>3, <1>4, <1>6, <2>1, <2>2 DEF FaultEffect
<1>7. CASE /\ r.pc = "store" /\ EvaluationFails(h, r)
           /\ decisions' \in {decisions, [decisions EXCEPT ![i] = Append(@, r.dec)]}
  <2>1. Same(r, r)
    BY <1>2 DEF Same
  <2>2. PICK t \in RequestType : Put(h, t) /\ FailEffect(r, t, r.inc)
    BY <1>1, <1>2, <1>7, <2>1, EvaluationFailsDoes
  <2> QED
    BY <1>1, <1>7, <2>2 DEF FaultEffect
<1> QED
  BY <1>5, <1>6, <1>7 DEF TransactionFails

LEMMA IdleIs ==
    /\ Idle \in RequestType /\ ~Writing(Idle) /\ Idle.pc = "idle" /\ Idle.op = "none"
    /\ Idle.orig = NoDecision /\ Idle.done = <<>> /\ Idle.n = 0 /\ Idle.keep = FALSE
    /\ Idle.inc = NoIncident /\ Idle.seen = NoIncident /\ Idle.dec = NoDecision
    /\ Idle.err = FALSE /\ Idle.todo = <<>>
  BY DEF Idle, RequestType, Stages, Endpoints, Writing, CreateOps, EvaluateOps

LEMMA SubmitDoes ==
    ASSUME Shaped, NEW h \in Handler, Submit(h)
    PROVE  \E s \in RequestType : /\ Put(h, s) /\ AtWork(s) /\ AtStart(s)
                                  /\ s.n = started + 1 /\ s.done = <<>>
<1>1. PICK q \in Request : Put(h, BeginItem([Idle EXCEPT !.op = q.op, !.n = started + 1,
                                                        !.keep = q.keep, !.todo = q.items]))
  BY DEF Submit
<1>r. PICK r : r = [Idle EXCEPT !.op = q.op, !.n = started + 1, !.keep = q.keep, !.todo = q.items]
  OBVIOUS
<1>2. started + 1 \in 1..MaxRequests
  BY IncidentConstants DEF Submit, Shaped, Typed
<1>3. /\ q.op \in CreateOps \cup EvaluateOps /\ q.keep \in BOOLEAN
      /\ q.items \in Seq(Item) /\ q.items # <<>>
  BY IncidentConstants
<1>4. q.items \in Seq(Item \cup [id: IncidentId])
  BY <1>3, WiderSeq
<1>5. /\ r.n = started + 1 /\ r.done = <<>> /\ r.op = q.op /\ r.keep = q.keep /\ r.todo = q.items
      /\ r \in RequestType
  <2>1. q.op \in Endpoints /\ started + 1 \in Nat
    BY <1>2, <1>3 DEF Endpoints
  <2> QED
    <3>1. PICK op \in Endpoints, n \in Nat, keep \in BOOLEAN, todo \in Seq(Item \cup [id: IncidentId]) :
             op = q.op /\ n = started + 1 /\ keep = q.keep /\ todo = q.items
      BY <1>3, <1>4, <2>1
    <3>2. r = [Idle EXCEPT !.op = op, !.n = n, !.keep = keep, !.todo = todo]
      BY <1>r, <3>1
    <3> QED
      BY <3>1, <3>2, IdleIs DEF RequestType
<1>6. AtWork(r)
  BY <1>2, <1>3, <1>5 DEF AtWork, Writing
<1>7. PICK s : s = BeginItem(r)
  OBVIOUS
<1>8. AtWork(s) /\ AtStart(s) /\ s.n = r.n /\ s.done = r.done
  BY <1>6, <1>7, BeginItemIs
<1> QED
  BY <1>1, <1>r, <1>5, <1>7, <1>8 DEF AtWork

\* The requests that only read.
Reads(h) == WhatIf(h) \/ ReplayRead(h) \/ ReplayCompare(h) \/ Compare(h) \/ Answer(h)

LEMMA WhatIfDoes ==
    ASSUME Shaped, NEW h \in Handler, WhatIf(h)
    PROVE  \E s \in RequestType : Put(h, s) /\ s.op = "whatIf" /\ s.pc = "answer"
<1>1. PICK item \in Item :
         Put(h, [Idle EXCEPT !.op = "whatIf", !.pc = "answer",
                             !.done = <<IF item.payload \in Undecidable
                                        THEN "failed" ELSE "ok">>])
  BY DEF WhatIf
<1>2. PICK o \in Outcomes : o = IF item.payload \in Undecidable THEN "failed" ELSE "ok"
  BY DEF Outcomes
<1>3. <<o>> \in Seq(Outcomes \cup {"differs"})
  OBVIOUS
<1>4. PICK s : s = [Idle EXCEPT !.op = "whatIf", !.pc = "answer", !.done = <<o>>]
  OBVIOUS
<1>5. s \in RequestType /\ s.op = "whatIf" /\ s.pc = "answer"
  BY <1>3, <1>4, IdleIs DEF RequestType, Endpoints, Stages
<1> QED
  BY <1>1, <1>2, <1>4, <1>5

LEMMA CompareDoes ==
    ASSUME Shaped, NEW h \in Handler, Compare(h)
    PROVE  \E s \in RequestType : Put(h, s) /\ s.op = "compare" /\ s.pc = "answer"
<1>1. PICK i \in IncidentId, base \in Pack, candidate \in Pack :
         LET inc == incidents[i]
             differs == Outcome(Run(inc, base, 0)) # Outcome(Run(inc, candidate, 0))
         IN Put(h, [Idle EXCEPT !.op = "compare", !.pc = "answer",
                      !.done = <<IF inc = NoIncident \/ inc.payload \in Undecidable
                                 THEN "failed" ELSE IF differs THEN "differs" ELSE "ok">>])
  BY DEF Compare, ResolveRulePack
<1> DEFINE differs == Outcome(Run(incidents[i], base, 0)) # Outcome(Run(incidents[i], candidate, 0))
           v == IF incidents[i] = NoIncident \/ incidents[i].payload \in Undecidable
                THEN "failed" ELSE IF differs THEN "differs" ELSE "ok"
<1>2. v \in Outcomes \cup {"differs"}
  <2> HIDE DEF differs
  <2> QED
    BY DEF Outcomes
<1>3. PICK o \in Outcomes \cup {"differs"} : o = v
  BY <1>2
<1>4. PICK s : s = [Idle EXCEPT !.op = "compare", !.pc = "answer", !.done = <<o>>]
  OBVIOUS
<1>5. <<o>> \in Seq(Outcomes \cup {"differs"})
  OBVIOUS
<1>6. Put(h, s)
  BY <1>1, <1>3, <1>4
<1> HIDE DEF v
<1>7. s \in RequestType /\ s.op = "compare" /\ s.pc = "answer"
  BY <1>4, <1>5, IdleIs DEF RequestType, Endpoints, Stages
<1> QED
  BY <1>6, <1>7

\* A replay that has come to its answer, or not yet.
ReplayEffect(h, s) ==
    /\ s \in RequestType /\ s.op = "replay"
    /\ \/ /\ s.pc = "answer" /\ s.todo = <<>> /\ s.orig = NoDecision
       \/ /\ s.pc = "latest" /\ s.todo # <<>> /\ IdOf(s) \in IncidentId
          /\ s.inc = incidents[IdOf(s)] /\ s.inc \in Incident /\ s.orig = NoDecision
          /\ s.dec \in Decision /\ s.dec = Run(s.inc, s.dec.pack, s.dec.at)

LEMMA ReplayReadDoes ==
    ASSUME Shaped, NEW h \in Handler, ReplayRead(h)
    PROVE  \E s \in RequestType : Put(h, s) /\ ReplayEffect(h, s)
<1>1. PICK i \in IncidentId, pack \in Pack :
         LET r == [Idle EXCEPT !.op = "replay", !.pc = "latest",
                               !.todo = <<[id |-> i]>>, !.inc = incidents[i]]
         IN Put(h, IF incidents[i] = NoIncident \/ incidents[i].payload \in Undecidable
                   THEN ItemDone(r, "failed")
                   ELSE [r EXCEPT !.dec = Run(r.inc, pack, clock)])
  BY DEF ReplayRead, ResolveRulePack
<1> DEFINE t == <<[id |-> i]>>
<1>r. PICK r : r = [Idle EXCEPT !.op = "replay", !.pc = "latest", !.todo = t, !.inc = incidents[i]]
  OBVIOUS
<1>2. /\ t \in Seq(Item \cup [id: IncidentId]) /\ t # <<>> /\ Tail(t) = <<>> /\ t[1].id = i
      /\ <<>> \in Seq(Item \cup [id: IncidentId])
  OBVIOUS
<1> HIDE DEF t
<1>3. incidents[i] \in Incident \cup {NoIncident} /\ active \in Pack /\ clock \in Nat
  BY DEF Shaped, Typed
<1>4. /\ r \in RequestType /\ r.inc = incidents[i] /\ r.op = "replay" /\ r.pc = "latest" /\ r.todo = t
      /\ r.orig = NoDecision /\ r.done = <<>>
  <2>1. "replay" \in Endpoints /\ "latest" \in Stages
    BY DEF Endpoints, Stages
  <2> QED
    <3>1. PICK op \in Endpoints, pc \in Stages, inc \in Incident \cup {NoIncident} :
             op = "replay" /\ pc = "latest" /\ inc = incidents[i]
      BY <1>3, <2>1
    <3>2. r = [Idle EXCEPT !.op = op, !.pc = pc, !.todo = t, !.inc = inc]
      BY <1>r, <3>1
    <3> QED
      BY <1>2, <3>1, <3>2, IdleIs DEF RequestType
<1>5. Put(h, IF incidents[i] = NoIncident \/ incidents[i].payload \in Undecidable
             THEN ItemDone(r, "failed") ELSE [r EXCEPT !.dec = Run(incidents[i], pack, clock)])
  <2>1. r.inc = incidents[i]
    BY <1>4
  <2> QED
    BY <1>1, <1>r, <2>1 DEF t
<1>6. CASE incidents[i] = NoIncident \/ incidents[i].payload \in Undecidable
  <2> DEFINE u == [r EXCEPT !.done = Append(@, "failed"), !.todo = Tail(@)]
  <2>1. PICK d \in Seq(Outcomes \cup {"differs"}) : d = Append(<<>>, "failed")
    <3>1. <<>> \in Seq(Outcomes \cup {"differs"}) /\ "failed" \in Outcomes \cup {"differs"}
      BY DEF Outcomes
    <3> QED
      BY <3>1, AppendIs
  <2>2. u = [r EXCEPT !.done = d, !.todo = <<>>]
    BY <1>2, <1>4, <2>1
  <2> HIDE DEF u
  <2>3. u.todo = <<>> /\ u \in RequestType /\ u.orig = NoDecision /\ u.op = "replay"
    BY <1>2, <1>4, <2>2 DEF RequestType
  <2>4. ItemDone(r, "failed") = [u EXCEPT !.pc = "answer"]
    BY <2>3 DEF ItemDone, u
  <2>5. PICK s : s = [u EXCEPT !.pc = "answer"]
    OBVIOUS
  <2>6. s \in RequestType /\ s.pc = "answer" /\ s.todo = <<>> /\ s.orig = NoDecision /\ s.op = "replay"
    BY <2>3, <2>5 DEF RequestType, Stages
  <2> QED
    BY <1>5, <1>6, <2>4, <2>5, <2>6 DEF ReplayEffect
<1>7. CASE ~(incidents[i] = NoIncident \/ incidents[i].payload \in Undecidable)
  <2>1. incidents[i] \in Incident
    BY <1>3, <1>7
  <2>2. PICK d : d = Run(incidents[i], pack, clock)
    OBVIOUS
  <2>3. d \in Decision /\ d = Run(incidents[i], d.pack, d.at)
    BY <2>1, <2>2, <1>3 DEF Run, Decision, Incident
  <2>4. PICK s : s = [r EXCEPT !.dec = d]
    OBVIOUS
  <2>5. /\ s \in RequestType /\ s.op = "replay" /\ s.pc = "latest" /\ s.todo = t
        /\ s.inc = incidents[i] /\ s.orig = NoDecision /\ s.dec = d
    BY <1>4, <2>3, <2>4 DEF RequestType
  <2>6. IdOf(s) = i
    BY <1>2, <2>5 DEF IdOf
  <2>7. Put(h, s)
    BY <1>5, <1>7, <2>2, <2>4
  <2> QED
    BY <1>2, <2>1, <2>3, <2>5, <2>6, <2>7 DEF ReplayEffect
<1> QED
  BY <1>6, <1>7

LEMMA ReplayCompareDoes ==
    ASSUME Shaped, NEW h \in Handler, ReplayCompare(h)
    PROVE  \E s \in RequestType :
             /\ Put(h, s) /\ s.op = "replay" /\ s.pc = "answer"
             /\ s.todo = req[h].todo /\ s.inc = req[h].inc /\ s.dec = req[h].dec
             /\ s.orig = NoDecision \/ s.orig \in ToSet(decisions[IdOf(req[h])])
<1>0. IdOf(req[h]) \in IncidentId
  BY DEF Shaped, Shape, ReplayCompare
<1>1. PICK d : d = GetDecision(IdOf(req[h]))
  OBVIOUS
<1>2. d = NoDecision \/ d \in ToSet(decisions[IdOf(req[h])])
  BY <1>0, <1>1, GetDecisionIs
<1>3. decisions[IdOf(req[h])] \in Seq(Decision)
  BY <1>0 DEF Shaped, Typed
<1>4. d \in Decision \cup {NoDecision}
  BY <1>2, <1>3 DEF ToSet
<1>5. PICK s : s = [req[h] EXCEPT !.orig = d, !.pc = "answer"]
  OBVIOUS
<1>6. Put(h, s)
  BY <1>1, <1>5 DEF ReplayCompare
<1>7. req[h] \in RequestType /\ req[h].op = "replay"
  BY DEF Shaped, Typed, Shape, ReplayCompare
<1>8. /\ s \in RequestType /\ s.op = "replay" /\ s.pc = "answer" /\ s.orig = d
      /\ s.todo = req[h].todo /\ s.inc = req[h].inc /\ s.dec = req[h].dec
  BY <1>4, <1>5, <1>7 DEF RequestType, Stages
<1> QED
  BY <1>2, <1>6, <1>8
-----------------------------------------------------------------------------
(* What a request record holds is kept.                                    *)

LEMMA ShapeKept ==
    ASSUME Shaped, NEW r \in RequestType, Shape(r), started' \in Nat, clock' \in Nat,
           started <= started', clock <= clock'
    PROVE  Shape(r)'
<1>1. started \in Nat /\ clock \in Nat
  BY DEF Shaped, Typed
<1>2. \A k \in 1..started : k \in 1..started'
  BY <1>1
<1>3. r.dec \in Decision => r.dec.at \in Nat
  BY DEF Decision
<1>4. r.dec \in Decision /\ r.dec.at <= clock => r.dec.at <= clock'
  BY <1>1, <1>3
<1> QED
  BY <1>2, <1>4 DEF Shape, Writing, InItem, Sub, Run, IdOf

LEMMA SameSub ==
    ASSUME NEW r, NEW s, Same(r, s)
    PROVE  Sub(s) = Sub(r) /\ IdOf(s) = IdOf(r) /\ (Writing(s) <=> Writing(r))
  BY DEF Same, Sub, IdOf, Writing

LEMMA EndedShape ==
    ASSUME Shaped, NEW h \in Handler, InItem(req[h]), NEW s, NEW outcome \in Outcomes,
           Ended(req[h], s, outcome), started' = started
    PROVE  Shape(s)' /\ Rooted(s)'
<1>1. Writing(s) /\ s.n \in 1..started
  BY DEF Ended, Shaped, Shape, InItem, Writing
<1>2. CASE s.pc = "answer"
  <2>1. s.op = "bulkEvaluate" => s.todo = <<>>
    BY <1>2 DEF Ended, AtStart
  <2> QED
    BY <1>1, <1>2, <2>1 DEF Ended, Shape, Rooted, InItem, Writing
<1>3. CASE s.pc # "answer"
  <2>1. s.todo # <<>> /\ AtStart(s)
    BY <1>3 DEF Ended
  <2> QED
    BY <1>1, <1>3, <2>1 DEF Ended, AtStart, Shape, Rooted, InItem, Writing, CreateOps, EvaluateOps, Sub
<1> QED
  BY <1>2, <1>3

LEMMA SameShape ==
    ASSUME Shaped, NEW h \in Handler, InItem(req[h]), NEW s, Same(req[h], s),
           started' = started, s.pc \in {"load", "write"}, s.op \in CreateOps,
           s.err <=> s.inc.status = "failed", s.inc.status # "received" => s.keep
    PROVE  Shape(s)'
<1>1. Writing(s) /\ s.n \in 1..started /\ s.todo \in Seq(Item) /\ s.done \in Seq(Outcomes) /\ s.todo # <<>>
  BY DEF Same, Shaped, Shape, InItem, Writing
<1>2. s.inc \in Incident /\ s.inc.sub = Sub(s)
  BY SameSub, Busy DEF Same
<1> QED
  BY <1>1, <1>2 DEF Shape, InItem, Writing, Sub

LEMMA StepShaped ==
    ASSUME Shaped, NEW h \in Handler, NEW s \in RequestType, Put(h, s),
           Shape(s)', Rooted(s)', Dated', backend' = backend, active' \in Pack,
           incidents' \in [IncidentId -> Incident \cup {NoIncident}],
           decisions' \in [IncidentId -> Seq(Decision)],
           started' \in 0..MaxRequests, faults' \in 0..MaxFaults, clock' \in Nat,
           overlapped' \subseteq IncidentId, started <= started', clock <= clock',
           backend = "postgres" => \A i \in IncidentId :
                                     incidents[i] # NoIncident => incidents'[i] # NoIncident
    PROVE  Shaped'
<1>1. req' = [req EXCEPT ![h] = s] /\ req \in [Handler -> RequestType]
  BY DEF Put, Shaped, Typed
<1>2. Typed'
  BY <1>1 DEF Typed, Shaped
<1>3. ASSUME NEW g \in Handler
      PROVE  Shape(req[g])' /\ Rooted(req[g])'
  <2>1. CASE g = h
    <3>1. req'[g] = s
      BY <1>1, <2>1
    <3> QED
      BY <3>1 DEF Shape, Rooted, InItem, Writing, Sub, IdOf
  <2>2. CASE g # h
    <3>1. req'[g] = req[g] /\ req[g] \in RequestType
      BY <1>1, <2>2
    <3>2. \A r : r = req[g] => Shape(r)'
      <4> SUFFICES ASSUME NEW r, r = req[g] PROVE Shape(r)'
        OBVIOUS
      <4>1. Shape(r) /\ r \in RequestType
        BY <3>1 DEF Shaped
      <4>2. started' \in Nat /\ clock' \in Nat
        BY IncidentConstants
      <4> QED
        BY <4>1, <4>2, ShapeKept
    <3>3. Shape(req[g])'
      BY <3>1, <3>2 DEF Shape, InItem, Writing, Sub, IdOf
    <3>4. Rooted(req[g])'
      <4> SUFFICES ASSUME backend' = "postgres", req'[g].pc = "write", req'[g].seen # NoIncident
                   PROVE  incidents'[IdOf(req'[g])] # NoIncident
        BY DEF Rooted, IdOf
      <4>1. InItem(req[g]) /\ Rooted(req[g])
        BY <3>1 DEF Shaped, Shape, InItem
      <4>2. incidents[IdOf(req[g])] # NoIncident /\ IdOf(req[g]) \in IncidentId
        BY <3>1, <4>1, Busy DEF Rooted
      <4> QED
        BY <3>1, <4>2
    <3> QED
      BY <3>3, <3>4
  <2> QED
    BY <2>1, <2>2
<1> QED
  BY <1>2, <1>3 DEF Shaped

LEMMA RowsStay ==
    ASSUME Shaped, NEW i \in IncidentId, NEW x \in Incident,
           \/ incidents' = incidents
           \/ incidents' = [incidents EXCEPT ![i] = x]
           \/ Published(i, x)
    PROVE  /\ incidents' \in [IncidentId -> Incident \cup {NoIncident}]
           /\ \A j \in IncidentId : incidents[j] # NoIncident => incidents'[j] # NoIncident
<1>1. incidents \in [IncidentId -> Incident \cup {NoIncident}] /\ x # NoIncident
  BY NoIncidentIs DEF Shaped, Typed
<1>2. incidents' = incidents \/ incidents' = [incidents EXCEPT ![i] = x]
  BY DEF Published
<1> QED
  BY <1>1, <1>2

LEMMA LoadShaped ==
    ASSUME Shaped, NEW h \in Handler, Load(h)
    PROVE  Shaped'
<1>1. PICK s \in RequestType : Put(h, s) /\ InItem(req[h]) /\ LoadEffect(req[h], s)
  BY LoadDoes
<1>2. IdOf(req[h]) \in IncidentId
  BY <1>1, Busy
<1>3. /\ req[h].op \in CreateOps /\ (req[h].err <=> req[h].inc.status = "failed")
      /\ req[h].inc.status # "received" => req[h].keep
  BY DEF Load, Shaped, Shape
<1>4. /\ Same(req[h], s) /\ s.pc = "write" /\ s.op \in CreateOps
      /\ (s.err <=> s.inc.status = "failed") /\ (s.inc.status # "received" => s.keep)
      /\ s.seen = incidents[IdOf(req[h])]
  BY <1>1, <1>3 DEF LoadEffect, Same
<1>5. /\ UNCHANGED <<backend, incidents, decisions, active, started, clock, faults>>
      /\ overlapped' = overlapped \cup {i \in {IdOf(req[h])} : \E g \in Handler \ {h} : Creating(g, i)}
  BY DEF Load
<1>6. Shape(s)'
  BY <1>1, <1>4, <1>5, SameShape
<1>7. Rooted(s)'
  BY <1>4, <1>5, SameSub DEF Rooted, IdOf
<1>8. Dated'
  BY <1>5 DEF Dated, Shaped
<1>9. overlapped' \subseteq IncidentId
  BY <1>2, <1>5 DEF Shaped, Typed
<1> QED
  BY <1>1, <1>5, <1>6, <1>7, <1>8, <1>9, StepShaped DEF Shaped, Typed

LEMMA WriteShaped ==
    ASSUME Shaped, NEW h \in Handler, Write(h)
    PROVE  Shaped'
<1>1. PICK s \in RequestType : Put(h, s) /\ InItem(req[h]) /\ WriteEffect(req[h], s)
  BY WriteDoes
<1>2. UNCHANGED <<backend, decisions, active, started, clock, faults, overlapped>>
  BY DEF Write
<1>3. IdOf(req[h]) \in IncidentId
  BY <1>1, Busy
<1>4. Shape(s)' /\ Rooted(s)'
  <2>1. CASE Ended(req[h], s, "failed") \/ Ended(req[h], s, "ok")
    BY <1>1, <1>2, <2>1, EndedShape DEF Outcomes
  <2>2. CASE /\ ~req[h].err /\ req[h].inc.status = "received" /\ req[h].keep
             /\ Same(req[h], s) /\ s.inc = req[h].inc /\ ~s.err /\ s.pc = "decide"
    <3>1. /\ Writing(s) /\ s.n \in 1..started /\ s.todo \in Seq(Item) /\ s.done \in Seq(Outcomes)
          /\ s.todo # <<>> /\ s.inc \in Incident /\ s.keep
      BY <1>1, <2>2 DEF Same, Shaped, Shape, InItem, Writing
    <3>2. s.inc.sub = Sub(s)
      BY <1>1, <2>2, SameSub, Busy
    <3> QED
      BY <1>2, <2>2, <3>1, <3>2 DEF Shape, Rooted, InItem, Writing, Sub
  <2> QED
    BY <1>1, <2>1, <2>2 DEF WriteEffect
<1>5. PICK x \in Incident : incidents' = incidents \/ incidents' = [incidents EXCEPT ![IdOf(req[h])] = x]
  <2>1. req[h].inc \in Incident
    BY <1>1, Busy
  <2> QED
    BY <1>1, <2>1 DEF WriteEffect
<1>6. Dated'
  BY <1>2 DEF Dated, Shaped
<1> QED
  BY <1>1, <1>2, <1>3, <1>4, <1>5, <1>6, RowsStay, StepShaped DEF Shaped, Typed

LEMMA FailShaped ==
    ASSUME Shaped, NEW h \in Handler, NEW s \in RequestType, NEW x \in Incident,
           InItem(req[h]), req[h].op \in CreateOps => req[h].keep, FailEffect(req[h], s, x), x.sub = req[h].inc.sub,
           started' = started
    PROVE  /\ Shape(s)' /\ Rooted(s)'
           /\ \E y \in Incident : Published(IdOf(req[h]), y)
<1>1. CASE /\ req[h].op \in CreateOps /\ Same(req[h], s) /\ s.inc = [x EXCEPT !.status = "failed"]
           /\ s.err /\ s.pc = "load" /\ Published(IdOf(req[h]), s.inc)
  <2>1. s.inc \in Incident /\ s.inc.status = "failed" /\ s.keep /\ s.op \in CreateOps
    BY <1>1 DEF Incident, Same
  <2>2. Shape(s)'
    BY <1>1, <2>1, SameShape
  <2> QED
    BY <1>1, <2>1, <2>2 DEF Rooted
<1>2. CASE req[h].op \in EvaluateOps /\ Ended(req[h], s, "failed") /\ Published(IdOf(req[h]), x)
  BY <1>2, EndedShape DEF Outcomes
<1> QED
  BY <1>1, <1>2 DEF FailEffect

LEMMA DecideShaped ==
    ASSUME Shaped, NEW h \in Handler, Decide(h)
    PROVE  Shaped'
<1>1. PICK s \in RequestType : Put(h, s) /\ InItem(req[h]) /\ DecideEffect(req[h], s)
  BY DecideDoes
<1>2. UNCHANGED <<backend, decisions, active, started, faults, overlapped>>
  BY DEF Decide
<1>3. IdOf(req[h]) \in IncidentId /\ (req[h].op \in CreateOps => req[h].keep)
  BY <1>1, Busy DEF Decide, Shaped, Shape
<1>4. PICK x \in Incident :
        /\ x.sub = req[h].inc.sub /\ x.status = "received" /\ x.payload = req[h].inc.payload
        /\ \/ FailEffect(req[h], s, x) /\ clock' = clock
           \/ /\ req[h].keep /\ Same(req[h], s) /\ s.inc = x /\ s.pc = "store" /\ ~s.err
              /\ s.dec = Run(x, active, clock + 1)
              /\ clock' = clock + 1 /\ Published(IdOf(req[h]), x)
           \/ ~req[h].keep /\ Ended(req[h], s, "ok") /\ clock' = clock + 1 /\ Published(IdOf(req[h]), x)
  BY <1>1 DEF DecideEffect
<1>5. clock' \in Nat /\ clock <= clock'
  BY <1>4 DEF Shaped, Typed
<1>6. /\ Shape(s)' /\ Rooted(s)'
      /\ \E y \in Incident : Published(IdOf(req[h]), y)
  <2>1. CASE FailEffect(req[h], s, x)
    BY <1>1, <1>2, <1>3, <1>4, <2>1, FailShaped
  <2>2. CASE /\ req[h].keep /\ Same(req[h], s) /\ s.inc = x /\ s.pc = "store" /\ ~s.err
             /\ s.dec = Run(x, active, clock + 1)
             /\ clock' = clock + 1 /\ Published(IdOf(req[h]), x)
    <3>1. /\ Writing(s) /\ s.n \in 1..started /\ s.todo \in Seq(Item) /\ s.done \in Seq(Outcomes)
          /\ s.todo # <<>> /\ s.keep
      BY <1>1, <2>2 DEF Same, Shaped, Shape, InItem, Writing
    <3>2. s.inc.sub = Sub(s)
      BY <1>1, <1>4, <2>2, SameSub, Busy
    <3>3. /\ s.dec \in Decision /\ s.dec = Run(s.inc, s.dec.pack, s.dec.at)
          /\ s.dec.at <= clock'
      BY <1>5, <2>2 DEF Run, Decision, Incident, Shaped, Typed
    <3>4. Shape(s)'
      BY <1>2, <1>4, <2>2, <3>1, <3>2, <3>3 DEF Shape, InItem, Writing, Sub, Run
    <3> QED
      BY <2>2, <3>4 DEF Rooted
  <2>3. CASE Ended(req[h], s, "ok") /\ Published(IdOf(req[h]), x)
    BY <1>1, <1>2, <2>3, EndedShape DEF Outcomes
  <2> QED
    BY <1>4, <2>1, <2>2, <2>3
<1>7. Dated'
  <2> SUFFICES ASSUME NEW i \in IncidentId, NEW k \in DOMAIN decisions[i]
               PROVE  decisions[i][k].at <= clock'
    BY <1>2 DEF Dated
  <2>1. decisions[i][k] \in Decision /\ decisions[i][k].at <= clock /\ clock \in Nat
    BY DEF Shaped, Typed, Dated
  <2> QED
    BY <1>5, <2>1 DEF Decision
<1>8. /\ incidents' \in [IncidentId -> Incident \cup {NoIncident}]
      /\ \A j \in IncidentId : incidents[j] # NoIncident => incidents'[j] # NoIncident
  BY <1>3, <1>6, RowsStay
<1> QED
  BY <1>1, <1>2, <1>5, <1>6, <1>7, <1>8, StepShaped DEF Shaped, Typed

LEMMA AppendedShaped ==
    ASSUME Shaped, NEW h \in Handler, req[h].pc = "store", clock' = clock,
           decisions' = decisions \/ decisions' = [decisions EXCEPT ![IdOf(req[h])] = Append(@, req[h].dec)]
    PROVE  decisions' \in [IncidentId -> Seq(Decision)] /\ Dated'
<1>1. req[h].dec \in Decision /\ req[h].dec.at <= clock /\ IdOf(req[h]) \in IncidentId
  BY Busy DEF Shaped, Shape, InItem
<1>2. decisions \in [IncidentId -> Seq(Decision)] /\ Dated
  BY DEF Shaped, Typed
<1>3. CASE decisions' = decisions
  BY <1>2, <1>3 DEF Dated
<1>4. CASE decisions' = [decisions EXCEPT ![IdOf(req[h])] = Append(@, req[h].dec)]
  <2> DEFINE i == IdOf(req[h])  q == Append(decisions[i], req[h].dec)
  <2>1. /\ q \in Seq(Decision) /\ \A k \in DOMAIN decisions[i] : q[k] = decisions[i][k]
        /\ q[Len(decisions[i]) + 1] = req[h].dec
        /\ DOMAIN q = 1..(Len(decisions[i]) + 1) /\ DOMAIN decisions[i] = 1..Len(decisions[i])
        /\ Len(decisions[i]) \in Nat
    BY <1>1, <1>2, AppendIs
  <2>2. decisions' = [decisions EXCEPT ![i] = q]
    BY <1>4
  <2> HIDE DEF q
  <2>3. \A k \in DOMAIN q : q[k].at <= clock
    BY <1>1, <1>2, <2>1 DEF Dated
  <2> QED
    BY <1>1, <1>2, <2>1, <2>2, <2>3 DEF Dated
<1> QED
  BY <1>3, <1>4

LEMMA RestSteady ==
    ASSUME Shaped, UNCHANGED <<backend, active, started, clock, overlapped>>
    PROVE  /\ backend' = backend /\ active' \in Pack /\ started' \in 0..MaxRequests /\ clock' \in Nat
           /\ overlapped' \subseteq IncidentId /\ started <= started' /\ clock <= clock'
  BY IncidentConstants DEF Shaped, Typed

LEMMA StoreShaped ==
    ASSUME Shaped, NEW h \in Handler, Store(h)
    PROVE  Shaped'
<1>1. PICK s \in RequestType : Put(h, s) /\ InItem(req[h]) /\ StoreEffect(req[h], s)
  BY StoreDoes DEF Store
<1>2. /\ UNCHANGED <<backend, active, started, clock, faults, overlapped>> /\ req[h].pc = "store"
      /\ decisions' = [decisions EXCEPT ![IdOf(req[h])] = Append(@, req[h].dec)]
  BY DEF Store
<1>3. IdOf(req[h]) \in IncidentId /\ req[h].keep /\ req[h].inc \in Incident
  BY <1>1, <1>2, Busy DEF Shaped, Shape
<1>6. decisions' \in [IncidentId -> Seq(Decision)] /\ Dated'
  BY <1>2, AppendedShaped
<1>7. /\ backend' = backend /\ active' \in Pack /\ started' \in 0..MaxRequests /\ clock' \in Nat
      /\ overlapped' \subseteq IncidentId /\ started <= started' /\ clock <= clock'
      /\ faults' \in 0..MaxFaults
  BY <1>2, RestSteady DEF Shaped, Typed
<1>8. incidents \in [IncidentId -> Incident \cup {NoIncident}]
  BY DEF Shaped, Typed
<1>4. CASE /\ req[h].op \in CreateOps /\ Same(req[h], s)
           /\ s.inc = [req[h].inc EXCEPT !.status = "evaluated"]
           /\ ~s.err /\ s.pc = "load" /\ Published(IdOf(req[h]), s.inc)
  <2>1. s.inc \in Incident /\ s.inc.status = "evaluated" /\ s.keep /\ s.op \in CreateOps
    BY <1>3, <1>4 DEF Incident, Same
  <2>2. Shape(s)' /\ Rooted(s)'
    BY <1>1, <1>2, <1>4, <2>1, SameShape DEF Rooted
  <2>3. /\ incidents' \in [IncidentId -> Incident \cup {NoIncident}]
        /\ \A j \in IncidentId : incidents[j] # NoIncident => incidents'[j] # NoIncident
    BY <1>3, <1>4, <2>1, RowsStay
  <2> QED
    BY <1>1, <1>6, <1>7, <2>2, <2>3, StepShaped
<1>5. CASE req[h].op \in EvaluateOps /\ Ended(req[h], s, "ok") /\ incidents' = incidents
  <2>1. Shape(s)' /\ Rooted(s)'
    BY <1>1, <1>2, <1>5, EndedShape DEF Outcomes
  <2> QED
    BY <1>1, <1>5, <1>6, <1>7, <1>8, <2>1, StepShaped
<1> QED
  BY <1>1, <1>4, <1>5 DEF StoreEffect

LEMMA FaultShaped ==
    ASSUME Shaped, NEW h \in Handler, TransactionFails(h)
    PROVE  Shaped'
<1>1. PICK s \in RequestType : Put(h, s) /\ InItem(req[h]) /\ FaultEffect(req[h], s)
  BY FaultDoes
<1>2. UNCHANGED <<backend, active, started, clock, overlapped>> /\ faults' \in 0..MaxFaults
  BY IncidentConstants DEF TransactionFails, Shaped, Typed
<1>3. IdOf(req[h]) \in IncidentId /\ req[h].inc \in Incident
  BY <1>1, Busy
<1>4. CASE req[h].pc \in {"load", "write"} /\ Ended(req[h], s, "failed") /\ UNCHANGED store
  <2>1. Shape(s)' /\ Rooted(s)'
    BY <1>1, <1>2, <1>4, EndedShape DEF Outcomes
  <2>2. Dated' /\ incidents' = incidents /\ decisions' = decisions
    BY <1>2, <1>4 DEF Dated, Shaped, store
  <2> QED
    BY <1>1, <1>2, <2>1, <2>2, StepShaped DEF Shaped, Typed
<1>5. CASE /\ req[h].pc = "write" /\ Ended(req[h], s, "failed") /\ decisions' = decisions
           /\ \E x \in Incident : Row(req[h], x) /\ incidents' = [incidents EXCEPT ![IdOf(req[h])] = x]
  <2>1. Shape(s)' /\ Rooted(s)'
    BY <1>1, <1>2, <1>5, EndedShape DEF Outcomes
  <2>2. Dated'
    BY <1>2, <1>5 DEF Dated, Shaped
  <2>3. /\ incidents' \in [IncidentId -> Incident \cup {NoIncident}]
        /\ \A j \in IncidentId : incidents[j] # NoIncident => incidents'[j] # NoIncident
    BY <1>3, <1>5, RowsStay
  <2> QED
    BY <1>1, <1>2, <1>5, <2>1, <2>2, <2>3, StepShaped DEF Shaped, Typed
<1>6. CASE /\ req[h].pc = "store" /\ FailEffect(req[h], s, req[h].inc)
           /\ decisions' = decisions \/ decisions' = [decisions EXCEPT ![IdOf(req[h])] = Append(@, req[h].dec)]
  <2>1. req[h].keep
    BY <1>6 DEF Shaped, Shape
  <2>2. /\ Shape(s)' /\ Rooted(s)'
        /\ \E y \in Incident : Published(IdOf(req[h]), y)
    BY <1>1, <1>2, <1>3, <1>6, <2>1, FailShaped
  <2>3. /\ incidents' \in [IncidentId -> Incident \cup {NoIncident}]
        /\ \A j \in IncidentId : incidents[j] # NoIncident => incidents'[j] # NoIncident
    BY <1>3, <2>2, RowsStay
  <2>4. decisions' \in [IncidentId -> Seq(Decision)] /\ Dated'
    BY <1>2, <1>6, AppendedShaped
  <2>5. /\ backend' = backend /\ active' \in Pack /\ started' \in 0..MaxRequests /\ clock' \in Nat
        /\ overlapped' \subseteq IncidentId /\ started <= started' /\ clock <= clock'
    BY <1>2, RestSteady
  <2> QED
    BY <1>1, <1>2, <2>2, <2>3, <2>4, <2>5, StepShaped
<1> QED
  BY <1>1, <1>4, <1>5, <1>6 DEF FaultEffect

LEMMA SubmitShaped ==
    ASSUME Shaped, NEW h \in Handler, Submit(h)
    PROVE  Shaped'
<1>1. PICK s \in RequestType : /\ Put(h, s) /\ AtWork(s) /\ AtStart(s)
                               /\ s.n = started + 1 /\ s.done = <<>>
  BY SubmitDoes
<1>2. /\ UNCHANGED <<backend, incidents, decisions, active, clock, faults, overlapped>>
      /\ started' = started + 1 /\ started' \in 0..MaxRequests /\ started \in Nat
  BY IncidentConstants DEF Submit, Shaped, Typed
<1>3. s.n \in 1..started'
  BY <1>1, <1>2
<1>4. Shape(s)' /\ Rooted(s)'
  BY <1>1, <1>3 DEF AtWork, AtStart, Shape, Rooted, InItem, Writing, CreateOps, EvaluateOps, Sub
<1>5. Dated'
  BY <1>2 DEF Dated, Shaped
<1> QED
  BY <1>1, <1>2, <1>4, <1>5, StepShaped DEF Shaped, Typed

LEMMA ReadsShaped ==
    ASSUME Shaped, NEW h \in Handler, Reads(h)
    PROVE  /\ Shaped'
           /\ \E s \in RequestType : Put(h, s) /\ ~Writing(s)
           /\ UNCHANGED <<backend, incidents, decisions, active, started, clock, faults, overlapped>>
<1>1. UNCHANGED <<backend, incidents, decisions, active, started, clock, faults, overlapped>>
  BY DEF Reads, WhatIf, ReplayRead, ReplayCompare, Compare, Answer
<1>2. PICK s \in RequestType :
        /\ Put(h, s) /\ s.op \in {"none", "whatIf", "replay", "compare"}
        /\ s.pc \in {"idle", "answer", "latest"}
        /\ s.pc = "latest" => s.op = "replay" /\ s.todo # <<>> /\ IdOf(s) \in IncidentId
  <2>1. CASE WhatIf(h)
    BY <2>1, WhatIfDoes
  <2>2. CASE ReplayRead(h)
    BY <2>2, ReplayReadDoes DEF ReplayEffect
  <2>3. CASE ReplayCompare(h)
    BY <2>3, ReplayCompareDoes
  <2>4. CASE Compare(h)
    BY <2>4, CompareDoes
  <2>5. CASE Answer(h)
    BY <2>5, IdleIs DEF Answer
  <2> QED
    BY <2>1, <2>2, <2>3, <2>4, <2>5 DEF Reads
<1>3. ~Writing(s)
  BY <1>2 DEF Writing, CreateOps, EvaluateOps
<1>4. Shape(s)' /\ Rooted(s)'
  BY <1>2, <1>3 DEF Shape, Rooted, InItem, Writing, IdOf
<1>5. Dated'
  BY <1>1 DEF Dated, Shaped
<1>6. Shaped'
  <2>1. /\ backend' = backend /\ active' \in Pack /\ started' \in 0..MaxRequests /\ clock' \in Nat
        /\ overlapped' \subseteq IncidentId /\ started <= started' /\ clock <= clock'
    BY <1>1, RestSteady
  <2>2. /\ incidents' = incidents /\ incidents' \in [IncidentId -> Incident \cup {NoIncident}]
        /\ decisions' \in [IncidentId -> Seq(Decision)] /\ faults' \in 0..MaxFaults
    BY <1>1 DEF Shaped, Typed
  <2> QED
    BY <1>2, <1>4, <1>5, <2>1, <2>2, StepShaped
<1> QED
  BY <1>1, <1>2, <1>3, <1>6

LEMMA CrashShaped ==
    ASSUME Shaped, Crash
    PROVE  Shaped'
<1>1. /\ UNCHANGED <<backend, active, started, clock, overlapped>> /\ faults' \in 0..MaxFaults
      /\ req' = [h \in Handler |-> Idle]
      /\ \/ UNCHANGED store
         \/ /\ incidents' = [i \in IncidentId |-> NoIncident]
            /\ decisions' = [i \in IncidentId |-> <<>>]
  BY IncidentConstants DEF Crash, Shaped, Typed
<1>2. /\ incidents' \in [IncidentId -> Incident \cup {NoIncident}]
      /\ decisions' \in [IncidentId -> Seq(Decision)]
  <2>1. [i \in IncidentId |-> <<>>] \in [IncidentId -> Seq(Decision)]
    OBVIOUS
  <2>2. [i \in IncidentId |-> NoIncident] \in [IncidentId -> Incident \cup {NoIncident}]
    OBVIOUS
  <2> QED
    BY <1>1, <2>1, <2>2 DEF Shaped, Typed, store
<1>3. Dated'
  BY <1>1 DEF Shaped, Dated, store
<1>4. \A h \in Handler : Shape(req[h])' /\ Rooted(req[h])'
  BY <1>1, IdleIs DEF Shape, Rooted, InItem, Writing
<1>5. Typed'
  BY <1>1, <1>2, IdleIs DEF Shaped, Typed
<1> QED
  BY <1>3, <1>4, <1>5 DEF Shaped

LEMMA ShapedStep ==
    ASSUME Shaped, [Next]_vars
    PROVE  Shaped'
<1>1. CASE \E h \in Handler : \/ Submit(h) \/ Load(h) \/ Write(h) \/ Decide(h) \/ Store(h)
                              \/ TransactionFails(h) \/ Reads(h)
  BY <1>1, SubmitShaped, LoadShaped, WriteShaped, DecideShaped, StoreShaped, FaultShaped, ReadsShaped
<1>2. CASE Activate \/ UNCHANGED vars
  <2>1. UNCHANGED <<backend, incidents, decisions, req, started, clock, faults, overlapped>> /\ active' \in Pack
    BY <1>2 DEF Activate, vars, Shaped, Typed
  <2> QED
    BY <2>1 DEF Shaped, Typed, Dated, Shape, Rooted, InItem, Writing, Sub, IdOf, Run
<1>3. CASE Crash
  BY <1>3, CrashShaped
<1> QED
  BY <1>1, <1>2, <1>3 DEF Next, Step, Reads

LEMMA ShapedInit == Init => Shaped
<1> SUFFICES ASSUME Init PROVE Shaped
  OBVIOUS
<1>1. Typed
  BY IncidentConstants, IdleIs DEF Init, Typed
<1>2. Dated
  BY DEF Init, Dated
<1>3. \A h \in Handler : Shape(req[h]) /\ Rooted(req[h])
  BY IdleIs DEF Init, Shape, Rooted, InItem, Writing
<1> QED
  BY <1>1, <1>2, <1>3 DEF Shaped

-----------------------------------------------------------------------------
(* Each decision on record was asked for, and is there once.               *)

LEMMA ReachIs ==
    ASSUME NEW r, r.done \in Seq(Outcomes)
    PROVE  /\ Len(r.done) \in Nat /\ Reach(r) \in {Len(r.done), Len(r.done) + 1}
           /\ Len(r.done) \in Nat /\ Reach(r)' \in {Len(r.done), Len(r.done) + 1}
           /\ r.pc \in {"decide", "store"} => Reach(r) = Len(r.done)
  BY DEF Reach, Undecided

LEMMA EndedReach ==
    ASSUME NEW r, NEW s, NEW outcome \in Outcomes, r.done \in Seq(Outcomes), Ended(r, s, outcome)
    PROVE  Reach(r) <= Reach(s)' /\ Len(r.done) + 1 <= Reach(s)'
<1>1. s.done \in Seq(Outcomes) /\ Len(s.done) = Len(r.done) + 1
  BY AppendIs DEF Ended
<1>2. /\ Len(r.done) \in Nat /\ Reach(r) \in {Len(r.done), Len(r.done) + 1}
      /\ Reach(s)' \in {Len(s.done), Len(s.done) + 1}
  BY <1>1, ReachIs
<1> QED
  BY <1>1, <1>2

\* A request goes on with its item or is done with it, and may have saved a decision.
Moves(h, s) ==
    /\ Put(h, s) /\ InItem(req[h]) /\ started' = started /\ faults <= faults'
    /\ s.op = req[h].op /\ s.n = req[h].n /\ s.keep = req[h].keep
    /\ Reach(req[h]) <= Reach(s)'
    /\ \/ decisions' = decisions
       \/ /\ req[h].pc = "store" /\ Len(req[h].done) + 1 <= Reach(s)'
          /\ decisions' = [decisions EXCEPT ![IdOf(req[h])] = Append(@, req[h].dec)]

Works(h) == Load(h) \/ Write(h) \/ Decide(h) \/ Store(h) \/ TransactionFails(h)

LEMMA FailReach ==
    ASSUME Shaped, NEW h \in Handler, NEW s \in RequestType, NEW x \in Incident,
           req[h].pc \in {"decide", "store"}, FailEffect(req[h], s, x)
    PROVE  /\ s.op = req[h].op /\ s.n = req[h].n /\ s.keep = req[h].keep
           /\ Reach(req[h]) <= Reach(s)'
           /\ faults' # 0 => Len(req[h].done) + 1 <= Reach(s)'
<1>0. req[h].done \in Seq(Outcomes) /\ InItem(req[h])
  BY DEF Shaped, Shape, InItem
<1>1. Reach(req[h]) = Len(req[h].done) /\ Len(req[h].done) \in Nat
  BY <1>0, ReachIs
<1>2. CASE Ended(req[h], s, "failed")
  BY <1>0, <1>2, EndedReach DEF Outcomes, Ended
<1>3. CASE Same(req[h], s) /\ s.inc = [x EXCEPT !.status = "failed"] /\ s.pc = "load"
  <2>1. s.inc.status = "failed" /\ s.done = req[h].done
    BY <1>3 DEF Incident, Same
  <2>2. Reach(s)' \in {Len(s.done), Len(s.done) + 1}
    BY <1>0, <2>1, ReachIs
  <2>3. faults' # 0 => Reach(s)' = Len(s.done) + 1
    BY <1>3, <2>1 DEF Reach, Undecided
  <2> QED
    BY <1>1, <1>3, <2>1, <2>2, <2>3 DEF Same
<1> QED
  BY <1>2, <1>3 DEF FailEffect

LEMMA WorkMoves ==
    ASSUME Shaped, NEW h \in Handler, Works(h)
    PROVE  \E s \in RequestType : Moves(h, s)
<1>0. started' = started /\ faults <= faults' /\ faults \in Nat
  <2>1. faults \in Nat
    BY IncidentConstants DEF Shaped, Typed
  <2>2. started' = started /\ (faults' = faults \/ faults' = faults + 1)
    <3>1. CASE Load(h)
      BY <3>1 DEF Load
    <3>2. CASE Write(h)
      BY <3>2 DEF Write
    <3>3. CASE Decide(h)
      BY <3>3 DEF Decide
    <3>4. CASE Store(h)
      BY <3>4 DEF Store
    <3>5. CASE TransactionFails(h)
      BY <3>5 DEF TransactionFails
    <3> QED
      BY <3>1, <3>2, <3>3, <3>4, <3>5 DEF Works
  <2> QED
    BY <2>1, <2>2
<1>1. CASE Load(h)
  <2>1. PICK s \in RequestType : Put(h, s) /\ InItem(req[h]) /\ LoadEffect(req[h], s)
    BY <1>1, LoadDoes
  <2>2. req[h].pc = "load" /\ decisions' = decisions /\ faults' = faults
    BY <1>1 DEF Load
  <2>3. req[h].done \in Seq(Outcomes)
    BY <2>1, Busy DEF AtWork
  <2>4. s.inc = req[h].inc /\ s.done = req[h].done /\ s.pc = "write"
    BY <2>1 DEF LoadEffect, Same
  <2>5. Reach(req[h]) <= Reach(s)'
    <3>1. Reach(s)' = Reach(req[h])
      BY <2>2, <2>4 DEF Reach, Undecided
    <3>2. Reach(req[h]) \in {Len(req[h].done), Len(req[h].done) + 1} /\ Len(req[h].done) \in Nat
      BY <2>3, ReachIs
    <3> QED
      BY <3>1, <3>2
  <2> QED
    BY <1>0, <2>1, <2>2, <2>5 DEF Moves, LoadEffect, Same
<1>2. CASE Write(h)
  <2>1. PICK s \in RequestType : Put(h, s) /\ InItem(req[h]) /\ WriteEffect(req[h], s)
    BY <1>2, WriteDoes
  <2>2. decisions' = decisions
    BY <1>2 DEF Write
  <2>3. req[h].done \in Seq(Outcomes)
    BY <2>1, Busy DEF AtWork
  <2>4. CASE Ended(req[h], s, "failed") \/ Ended(req[h], s, "ok")
    <3>1. Reach(req[h]) <= Reach(s)'
      BY <2>3, <2>4, EndedReach DEF Outcomes
    <3> QED
      BY <1>0, <2>1, <2>2, <2>4, <3>1 DEF Moves, Ended
  <2>5. CASE /\ ~req[h].err /\ req[h].inc.status = "received" /\ req[h].keep
             /\ Same(req[h], s) /\ s.inc = req[h].inc /\ ~s.err /\ s.pc = "decide"
    <3>1. Reach(req[h]) \in {Len(req[h].done), Len(req[h].done) + 1} /\ Len(req[h].done) \in Nat
      BY <2>3, ReachIs
    <3>2. Reach(req[h]) = Len(req[h].done) /\ Reach(s)' = Len(req[h].done)
      BY <2>5 DEF Reach, Undecided, Same
    <3>3. Reach(req[h]) <= Reach(s)'
      BY <3>1, <3>2
    <3> QED
      BY <1>0, <2>1, <2>2, <2>5, <3>3 DEF Moves, Same
  <2> QED
    BY <2>1, <2>4, <2>5 DEF WriteEffect
<1>3. CASE Decide(h)
  <2>1. PICK s \in RequestType : Put(h, s) /\ InItem(req[h]) /\ DecideEffect(req[h], s)
    BY <1>3, DecideDoes
  <2>2. decisions' = decisions /\ req[h].pc = "decide"
    BY <1>3 DEF Decide
  <2>3. req[h].done \in Seq(Outcomes)
    BY <2>1, Busy DEF AtWork
  <2>4. PICK x \in Incident : \/ FailEffect(req[h], s, x)
                              \/ Same(req[h], s) /\ s.pc = "store"
                              \/ Ended(req[h], s, "ok")
    BY <2>1 DEF DecideEffect
  <2>5. CASE FailEffect(req[h], s, x)
    BY <1>0, <2>1, <2>2, <2>5, FailReach DEF Moves
  <2>6. CASE Same(req[h], s) /\ s.pc = "store"
    <3>1. Len(req[h].done) \in Nat /\ Reach(req[h]) = Len(req[h].done)
      BY <2>2, <2>3, ReachIs
    <3>2. Reach(s)' = Len(req[h].done)
      BY <2>6 DEF Reach, Undecided, Same
    <3> QED
      BY <1>0, <2>1, <2>2, <2>6, <3>1, <3>2 DEF Moves, Same
  <2>7. CASE Ended(req[h], s, "ok")
    <3>1. Reach(req[h]) <= Reach(s)'
      BY <2>3, <2>7, EndedReach DEF Outcomes
    <3> QED
      BY <1>0, <2>1, <2>2, <2>7, <3>1 DEF Moves, Ended
  <2> QED
    BY <2>4, <2>5, <2>6, <2>7
<1>4. CASE Store(h)
  <2>1. PICK s \in RequestType : Put(h, s) /\ InItem(req[h]) /\ StoreEffect(req[h], s)
    BY <1>4, StoreDoes DEF Store
  <2>2. /\ decisions' = [decisions EXCEPT ![IdOf(req[h])] = Append(@, req[h].dec)]
        /\ req[h].pc = "store"
    BY <1>4 DEF Store
  <2>3. req[h].done \in Seq(Outcomes) /\ req[h].inc \in Incident
    BY <2>1, Busy DEF AtWork
  <2>4. CASE Ended(req[h], s, "ok")
    <3>1. Reach(req[h]) <= Reach(s)' /\ Len(req[h].done) + 1 <= Reach(s)'
      BY <2>3, <2>4, EndedReach DEF Outcomes
    <3> QED
      BY <1>0, <2>1, <2>2, <2>4, <3>1 DEF Moves, Ended
  <2>5. CASE /\ Same(req[h], s) /\ s.inc = [req[h].inc EXCEPT !.status = "evaluated"]
             /\ s.pc = "load"
    <3>0. s.inc.status = "evaluated"
      BY <2>3, <2>5 DEF Incident
    <3>1. Reach(req[h]) = Len(req[h].done) /\ Reach(s)' = Len(req[h].done) + 1 /\ Len(req[h].done) \in Nat
      BY <2>2, <2>3, <2>5, <3>0 DEF Reach, Undecided, Same
    <3> QED
      BY <1>0, <2>1, <2>2, <2>5, <3>1 DEF Moves, Same
  <2> QED
    BY <2>1, <2>4, <2>5 DEF StoreEffect
<1>5. CASE TransactionFails(h)
  <2>1. PICK s \in RequestType : Put(h, s) /\ InItem(req[h]) /\ FaultEffect(req[h], s)
    BY <1>5, FaultDoes
  <2>2. faults' # 0
    BY <1>0, <1>5 DEF TransactionFails
  <2>3. req[h].done \in Seq(Outcomes) /\ req[h].inc \in Incident
    BY <2>1, Busy DEF AtWork
  <2>4. CASE Ended(req[h], s, "failed") /\ decisions' = decisions
    <3>1. Reach(req[h]) <= Reach(s)' /\ Len(req[h].done) + 1 <= Reach(s)'
      BY <2>3, <2>4, EndedReach DEF Outcomes
    <3> QED
      BY <1>0, <2>1, <2>4, <3>1 DEF Moves, Ended
  <2>5. CASE /\ req[h].pc = "store" /\ FailEffect(req[h], s, req[h].inc)
             /\ \/ decisions' = decisions
                \/ decisions' = [decisions EXCEPT ![IdOf(req[h])] = Append(@, req[h].dec)]
    BY <1>0, <2>1, <2>2, <2>3, <2>5, FailReach DEF Moves
  <2> QED
    BY <2>1, <2>4, <2>5 DEF FaultEffect, store
<1> QED
  BY <1>1, <1>2, <1>3, <1>4, <1>5 DEF Works

LEMMA NumberedStep ==
    ASSUME Shaped, Numbered, [Next]_vars
    PROVE  Numbered'
<1>0. req \in [Handler -> RequestType] /\ started \in Nat
  BY IncidentConstants DEF Shaped, Typed
<1>1. ASSUME NEW h \in Handler, NEW s \in RequestType, Put(h, s),
             Writing(s) => /\ s.n \in Nat
                           /\ s.n > started \/ (Writing(req[h]) /\ s.n = req[h].n)
      PROVE  Numbered'
  <2>1. \A g \in Handler : req'[g] = IF g = h THEN s ELSE req[g]
    BY <1>0, <1>1 DEF Put
  <2>2. \A g \in Handler : Writing(req[g]) => req[g].n \in Nat /\ req[g].n <= started
    BY <1>0 DEF Shaped, Shape
  <2>3. ASSUME NEW f \in Handler, NEW g \in Handler, Writing(req'[f]), Writing(req'[g]),
               req'[f].n = req'[g].n
        PROVE  f = g
    <3>1. CASE f # h /\ g # h
      BY <2>1, <2>3, <3>1 DEF Numbered
    <3>2. CASE f = h /\ g # h
      BY <1>0, <1>1, <2>1, <2>2, <2>3, <3>2 DEF Numbered
    <3>3. CASE f # h /\ g = h
      BY <1>0, <1>1, <2>1, <2>2, <2>3, <3>3 DEF Numbered
    <3> QED
      BY <3>1, <3>2, <3>3
  <2> QED
    BY <2>3 DEF Numbered, Writing
<1>2. CASE \E h \in Handler : Works(h)
  <2>1. PICK h \in Handler, s \in RequestType : Moves(h, s)
    BY <1>2, WorkMoves
  <2>2. s.n \in Nat
    BY DEF RequestType
  <2> QED
    BY <1>1, <2>1, <2>2 DEF Moves, InItem
<1>3. CASE \E h \in Handler : Submit(h)
  <2>1. PICK h \in Handler, s \in RequestType : Put(h, s) /\ s.n = started + 1
    BY <1>3, SubmitDoes
  <2> QED
    BY <1>0, <1>1, <2>1
<1>4. CASE \E h \in Handler : Reads(h)
  BY <1>1, <1>4, ReadsShaped
<1>5. CASE Crash
  BY <1>5, IdleIs DEF Crash, Numbered, Writing
<1>6. CASE Activate \/ UNCHANGED vars
  BY <1>6 DEF Activate, vars, Numbered, Writing
<1> QED
  BY <1>2, <1>3, <1>4, <1>5, <1>6 DEF Next, Step, Works, Reads

LEMMA RecordTyped ==
    ASSUME Shaped, NEW i \in IncidentId, NEW k \in DOMAIN decisions[i]
    PROVE  /\ decisions[i][k] \in Decision /\ decisions[i][k].sub \in Submission
           /\ decisions[i][k].sub.n \in Nat /\ decisions[i][k].sub.k \in Nat
           /\ decisions[i][k].sub.op \in CreateOps \cup EvaluateOps
<1>1. decisions[i] \in Seq(Decision)
  BY DEF Shaped, Typed
<1>2. decisions[i][k] \in Decision
  BY <1>1
<1>3. decisions[i][k].sub \in Submission
  BY <1>2 DEF Decision
<1> QED
  BY <1>2, <1>3, IncidentConstants DEF Submission

LEMMA RecordKept ==
    ASSUME Shaped, Shaped', OnRecord, Numbered, decisions' = decisions, started <= started', faults <= faults',
           NEW h \in Handler, NEW s \in RequestType, Put(h, s),
           \/ ~Writing(s)
           \/ s.n > started
           \/ Writing(req[h]) /\ s.n = req[h].n /\ Reach(req[h]) <= Reach(s)'
    PROVE  OnRecord'
<1>0. /\ req \in [Handler -> RequestType] /\ started \in Nat /\ started' \in Nat
      /\ faults \in Nat /\ faults' \in Nat
  BY IncidentConstants DEF Shaped, Typed
<1>1. \A g \in Handler : req'[g] = IF g = h THEN s ELSE req[g]
  BY <1>0 DEF Put
<1>2. ASSUME NEW i \in IncidentId, NEW k \in DOMAIN decisions[i], NEW g \in Handler,
             Writing(req'[g]), req'[g].n = decisions[i][k].sub.n
      PROVE  decisions[i][k].sub.k <= Reach(req[g])'
  <2>1. /\ decisions[i][k].sub.n \in Nat /\ decisions[i][k].sub.n <= started
        /\ decisions[i][k].sub.k \in Nat
    BY RecordTyped DEF OnRecord
  <2>2. CASE g = h
    <3>1. Writing(req[h]) /\ s.n = req[h].n /\ Reach(req[h]) <= Reach(s)' /\ req'[g] = s
      BY <1>0, <1>1, <1>2, <2>1, <2>2
    <3>2. decisions[i][k].sub.k <= Reach(req[h])
      BY <1>2, <3>1 DEF OnRecord
    <3>3. Reach(s)' = Reach(req[g])'
      BY <3>1 DEF Reach, Undecided
    <3>4. req[h].done \in Seq(Outcomes) /\ s.done \in Seq(Outcomes)
      <4>1. Shape(req[h]) /\ Shape(req[h])'
        BY DEF Shaped
      <4>2. req'[h] = s /\ Writing(s)
        BY <1>1, <1>2, <3>1, <2>2
      <4> QED
        BY <3>1, <4>1, <4>2 DEF Shape, Writing
    <3>5. Reach(req[h]) \in Nat /\ Reach(s)' \in Nat
      BY <3>4, ReachIs
    <3> QED
      BY <2>1, <3>1, <3>2, <3>3, <3>5
  <2>3. CASE g # h
    <3>1. req'[g] = req[g] /\ Writing(req[g])
      BY <1>1, <1>2, <2>3
    <3>2. decisions[i][k].sub.k <= Reach(req[g])
      BY <1>2, <3>1 DEF OnRecord
    <3>3. req[g].done \in Seq(Outcomes)
      BY <3>1 DEF Shaped, Shape
    <3>4. Reach(req[g]) <= Reach(req[g])' /\ Reach(req[g]) \in Nat /\ Reach(req[g])' \in Nat
      BY <1>0, <3>1, <3>3 DEF Reach, Undecided
    <3> QED
      BY <2>1, <3>2, <3>4
  <2> QED
    BY <2>2, <2>3
<1>3. ASSUME NEW i \in IncidentId, NEW k \in DOMAIN decisions[i]
      PROVE  decisions[i][k].sub.keep /\ decisions[i][k].sub.n <= started'
  <2>1. decisions[i][k].sub.keep /\ decisions[i][k].sub.n \in Nat /\ decisions[i][k].sub.n <= started
    BY RecordTyped DEF OnRecord
  <2> QED
    BY <1>0, <2>1
<1> QED
  BY <1>2, <1>3 DEF OnRecord, Writing

LEMMA DecisionIsNew ==
    ASSUME Shaped, OnRecord, NEW h \in Handler, req[h].pc = "store"
    PROVE  LET d == req[h].dec IN
           /\ d \in Decision /\ d.sub = Sub(req[h]) /\ d.sub.keep
           /\ d.sub.n = req[h].n /\ d.sub.k = Len(req[h].done) + 1 /\ Len(req[h].done) \in Nat
           /\ req[h].n \in Nat /\ req[h].n <= started
           /\ \A i \in IncidentId : \A k \in DOMAIN decisions[i] : decisions[i][k].sub # d.sub
<1>1. /\ InItem(req[h]) /\ req[h].keep /\ req[h].dec \in Decision /\ Writing(req[h])
      /\ req[h].dec = Run(req[h].inc, req[h].dec.pack, req[h].dec.at)
      /\ req[h].n \in 1..started /\ req[h].done \in Seq(Outcomes)
  BY DEF Shaped, Shape, InItem
<1>2. req[h].dec.sub = Sub(req[h])
  BY <1>1, Busy DEF Run
<1>3. /\ req[h].dec.sub.k = Len(req[h].done) + 1 /\ Len(req[h].done) \in Nat
      /\ req[h].dec.sub.n = req[h].n /\ req[h].dec.sub.keep = req[h].keep
  BY <1>1, <1>2, ReachIs DEF Sub
<1>4. Reach(req[h]) = Len(req[h].done)
  BY <1>1, ReachIs
<1>5. ASSUME NEW i \in IncidentId, NEW k \in DOMAIN decisions[i], decisions[i][k].sub = req[h].dec.sub
      PROVE  FALSE
  <2>1. decisions[i][k].sub.k <= Reach(req[h])
    BY <1>1, <1>3, <1>5 DEF OnRecord
  <2> QED
    BY <1>3, <1>4, <1>5, <2>1
<1> QED
  BY <1>1, <1>2, <1>3, <1>5, IncidentConstants DEF Shaped, Typed

LEMMA RecordAppended ==
    ASSUME Shaped, Shaped', OnRecord, Numbered, NEW h \in Handler, NEW s \in RequestType, Moves(h, s),
           req[h].pc = "store", Len(req[h].done) + 1 <= Reach(s)',
           decisions' = [decisions EXCEPT ![IdOf(req[h])] = Append(@, req[h].dec)]
    PROVE  OnRecord'
<1> DEFINE i == IdOf(req[h])  d == req[h].dec  q == Append(decisions[i], d)  n == Len(decisions[i])
<1>0. /\ req \in [Handler -> RequestType] /\ started \in Nat /\ started' = started
      /\ faults \in Nat /\ faults' \in Nat /\ faults <= faults' /\ i \in IncidentId
      /\ decisions \in [IncidentId -> Seq(Decision)] /\ InItem(req[h]) /\ Writing(req[h])
      /\ s.n = req[h].n /\ Reach(req[h]) <= Reach(s)' /\ Put(h, s)
  BY IncidentConstants, Busy DEF Shaped, Typed, Moves, InItem
<1>1. \A g \in Handler : req'[g] = IF g = h THEN s ELSE req[g]
  BY <1>0 DEF Put
<1>2. /\ d \in Decision /\ d.sub.keep /\ d.sub.n = req[h].n /\ d.sub.k = Len(req[h].done) + 1
      /\ Len(req[h].done) \in Nat /\ req[h].n \in Nat /\ req[h].n <= started
      /\ \A j \in IncidentId : \A k \in DOMAIN decisions[j] : decisions[j][k].sub # d.sub
  BY DecisionIsNew
<1>3. /\ q \in Seq(Decision) /\ \A k \in DOMAIN decisions[i] : q[k] = decisions[i][k]
      /\ q[n + 1] = d /\ DOMAIN q = 1..(n + 1) /\ DOMAIN decisions[i] = 1..n /\ n \in Nat
  BY <1>0, <1>2, AppendIs
<1>4. \A j \in IncidentId : decisions'[j] = IF j = i THEN q ELSE decisions[j]
  BY <1>0
<1> HIDE DEF q, i, n
\* Each decision on record is an old one or the new one.
<1>5. \A j \in IncidentId : \A k \in DOMAIN decisions'[j] :
         \/ k \in DOMAIN decisions[j] /\ decisions'[j][k] = decisions[j][k]
         \/ j = i /\ k = n + 1 /\ decisions'[j][k] = d
  <2> SUFFICES ASSUME NEW j \in IncidentId, NEW k \in DOMAIN decisions'[j]
               PROVE  \/ k \in DOMAIN decisions[j] /\ decisions'[j][k] = decisions[j][k]
                      \/ j = i /\ k = n + 1 /\ decisions'[j][k] = d
    OBVIOUS
  <2>1. CASE j # i
    BY <1>4, <2>1
  <2>2. CASE j = i
    <3>1. decisions'[j] = q /\ k \in 1..(n + 1)
      BY <1>3, <1>4, <2>2
    <3>2. k \in 1..n \/ k = n + 1
      BY <1>3, <3>1
    <3> QED
      BY <1>3, <2>2, <3>1, <3>2
  <2> QED
    BY <2>1, <2>2
<1>6. \A g \in Handler : Writing(req'[g]) => req'[g].done \in Seq(Outcomes)
  BY DEF Shaped, Shape, Writing
<1>7. ASSUME NEW g \in Handler, Writing(req'[g])
      PROVE  Reach(req[g])' \in Nat
  <2>1. Len(req'[g].done) \in Nat
    BY <1>6, <1>7
  <2>2. Reach(req[g])' \in {Len(req'[g].done), Len(req'[g].done) + 1}
    BY DEF Reach
  <2> QED
    BY <2>1, <2>2
<1>8. \A g \in Handler : Writing(req[g]) =>
         Writing(req[g]) /\ req[g].done \in Seq(Outcomes) /\ Reach(req[g]) \in Nat
  BY ReachIs DEF Shaped, Shape
<1>9. ASSUME NEW g \in Handler, Writing(req'[g])
      PROVE  /\ Writing(req[g]) /\ req'[g].n = req[g].n /\ Reach(req[g]) <= Reach(req[g])'
             /\ g = h => Len(req[h].done) + 1 <= Reach(req[g])'
  <2>1. CASE g = h
    <3>1. Reach(req[g])' = Reach(s)' /\ req'[g] = s
      BY <1>1, <2>1 DEF Reach, Undecided
    <3> QED
      BY <1>0, <2>1, <3>1
  <2>2. CASE g # h
    <3>1. req'[g] = req[g] /\ Writing(req[g])
      BY <1>1, <1>9, <2>2
    <3>2. Reach(req[g]) <= Reach(req[g])'
      BY <1>0, <1>8, <3>1 DEF Reach, Undecided
    <3> QED
      BY <2>2, <3>1, <3>2
  <2> QED
    BY <2>1, <2>2
<1>10. ASSUME NEW j \in IncidentId, NEW k \in DOMAIN decisions'[j]
       PROVE  /\ decisions'[j][k].sub.keep /\ decisions'[j][k].sub.n <= started'
              /\ \A g \in Handler : Writing(req'[g]) /\ req'[g].n = decisions'[j][k].sub.n =>
                   decisions'[j][k].sub.k <= Reach(req[g])'
  <2>1. CASE k \in DOMAIN decisions[j] /\ decisions'[j][k] = decisions[j][k]
    <3>1. /\ decisions[j][k].sub.keep /\ decisions[j][k].sub.n <= started
          /\ decisions[j][k].sub.k \in Nat
          /\ \A g \in Handler : Writing(req[g]) /\ req[g].n = decisions[j][k].sub.n =>
               decisions[j][k].sub.k <= Reach(req[g])
      BY <2>1, RecordTyped DEF OnRecord
    <3>2. ASSUME NEW g \in Handler, Writing(req'[g]), req'[g].n = decisions[j][k].sub.n
          PROVE  decisions[j][k].sub.k <= Reach(req[g])'
      <4>1. Writing(req[g]) /\ req'[g].n = req[g].n /\ Reach(req[g]) <= Reach(req[g])'
        BY <1>9, <3>2
      <4>2. decisions[j][k].sub.k <= Reach(req[g]) /\ Reach(req[g]) \in Nat /\ Reach(req[g])' \in Nat
        BY <1>7, <1>8, <3>1, <3>2, <4>1
      <4> QED
        BY <3>1, <4>1, <4>2
    <3> QED
      BY <1>0, <2>1, <3>1, <3>2
  <2>2. CASE decisions'[j][k] = d
    <3>1. ASSUME NEW g \in Handler, Writing(req'[g]), req'[g].n = d.sub.n
          PROVE  d.sub.k <= Reach(req[g])'
      <4>1. Writing(req[g]) /\ req'[g].n = req[g].n
        BY <1>9, <3>1
      <4>2. g = h
        BY <1>0, <1>2, <3>1, <4>1 DEF Numbered
      <4> QED
        BY <1>2, <1>9, <3>1, <4>2
    <3> QED
      BY <1>0, <1>2, <2>2, <3>1
  <2> QED
    BY <1>5, <2>1, <2>2
<1>11. ASSUME NEW j \in IncidentId, NEW k \in DOMAIN decisions'[j], NEW l \in DOMAIN decisions'[j],
              decisions'[j][k].sub = decisions'[j][l].sub
       PROVE  k = l
  BY <1>2, <1>5, <1>11 DEF OnRecord
<1> QED
  BY <1>10, <1>11 DEF OnRecord, Writing

LEMMA OnRecordStep ==
    ASSUME Shaped, Shaped', Numbered, OnRecord, [Next]_vars
    PROVE  OnRecord'
<1>0. started \in Nat /\ faults \in Nat
  BY IncidentConstants DEF Shaped, Typed
<1>1. CASE \E h \in Handler : Works(h)
  <2>1. PICK h \in Handler, s \in RequestType : Moves(h, s)
    BY <1>1, WorkMoves
  <2>2. CASE decisions' = decisions
    BY <1>0, <2>1, <2>2, RecordKept DEF Moves, InItem
  <2>3. CASE decisions' # decisions
    BY <2>1, <2>3, RecordAppended DEF Moves
  <2> QED
    BY <2>2, <2>3
<1>2. CASE \E h \in Handler : Submit(h)
  <2>1. PICK h \in Handler, s \in RequestType : Put(h, s) /\ s.n = started + 1 /\ Submit(h)
    BY <1>2, SubmitDoes
  <2>2. decisions' = decisions /\ faults' = faults /\ started' = started + 1
    BY <2>1 DEF Submit
  <2> QED
    BY <1>0, <2>1, <2>2, RecordKept
<1>3. CASE \E h \in Handler : Reads(h)
  <2>1. PICK h \in Handler, s \in RequestType :
          Put(h, s) /\ ~Writing(s) /\ UNCHANGED <<decisions, started, faults>>
    BY <1>3, ReadsShaped
  <2> QED
    BY <1>0, <2>1, RecordKept
<1>4. CASE Crash
  <2>1. /\ started' = started /\ \A h \in Handler : ~Writing(req'[h])
        /\ decisions' = decisions \/ decisions' = [i \in IncidentId |-> <<>>]
    BY <1>4, IdleIs DEF Crash, store
  <2> QED
    BY <2>1 DEF OnRecord, Writing
<1>5. CASE Activate \/ UNCHANGED vars
  BY <1>5 DEF Activate, vars, OnRecord, Writing, Reach, Undecided
<1> QED
  BY <1>1, <1>2, <1>3, <1>4, <1>5 DEF Next, Step, Works, Reads

\* The record: numbered requests, and each decision there once.
Recorded == Shaped /\ Numbered /\ OnRecord

LEMMA RecordedInit == Init => Recorded
  BY ShapedInit, IdleIs DEF Init, Recorded, Numbered, OnRecord, Writing

LEMMA RecordedStep == Recorded /\ [Next]_vars => Recorded'
  BY ShapedStep, NumberedStep, OnRecordStep DEF Recorded

LEMMA RecordedKept == Recorded => KeptOnceWhenAsked
<1> SUFFICES ASSUME Recorded, NEW i \in IncidentId, NEW k \in DOMAIN decisions[i]
             PROVE  LET d == decisions[i][k] IN
                    /\ d.sub.keep /\ d.sub.op \in CreateOps \cup EvaluateOps
                    /\ Cardinality(StoredFor(i, d.sub)) = 1
  BY DEF KeptOnceWhenAsked, ToSet
<1>1. decisions[i][k].sub.keep /\ decisions[i][k].sub.op \in CreateOps \cup EvaluateOps
  BY RecordTyped DEF Recorded, OnRecord
<1>2. StoredFor(i, decisions[i][k].sub) = {k}
  BY DEF StoredFor, Recorded, OnRecord
<1>3. Cardinality({k}) = 1
  BY FS_Singleton
<1> QED
  BY <1>1, <1>2, <1>3

\* Every decision on record was asked for, and made and saved once, for any
\* number of requests, crashes and failing transactions (evaluate_incident.py,
\* bulk_evaluate.py, replay_simulation.py).
THEOREM KeptOnce == Spec => []KeptOnceWhenAsked
<1>1. Spec => []Recorded
  BY RecordedInit, RecordedStep, PTL DEF Spec
<1> QED
  BY <1>1, RecordedKept, PTL

-----------------------------------------------------------------------------
(* A bulk creation leaves no trace of the items behind its first failure.  *)

\* A working request goes on with its item or ends it, and writes no incident
\* but that of its item.
Traces(h, s) ==
    /\ Put(h, s) /\ InItem(req[h]) /\ started' = started /\ backend' = backend
    /\ \/ Same(req[h], s) /\ s.pc # "answer"
       \/ \E outcome \in Outcomes : Ended(req[h], s, outcome)
    /\ \/ incidents' = incidents
       \/ \E x \in Incident : /\ x.sub = req[h].inc.sub
                              /\ incidents' = [incidents EXCEPT ![IdOf(req[h])] = x]

LEMMA WorkTraces ==
    ASSUME Shaped, NEW h \in Handler, Works(h)
    PROVE  \E s \in RequestType : Traces(h, s)
<1>1. CASE Load(h)
  <2>1. PICK s \in RequestType : Put(h, s) /\ InItem(req[h]) /\ LoadEffect(req[h], s)
    BY <1>1, LoadDoes
  <2> QED
    BY <1>1, <2>1 DEF Load, LoadEffect, Traces
<1>2. CASE Write(h)
  <2>1. PICK s \in RequestType : Put(h, s) /\ InItem(req[h]) /\ WriteEffect(req[h], s)
    BY <1>2, WriteDoes
  <2>2. started' = started /\ backend' = backend
    BY <1>2 DEF Write
  <2>3. \/ incidents' = incidents
        \/ \E x \in Incident : /\ x.sub = req[h].inc.sub
                               /\ incidents' = [incidents EXCEPT ![IdOf(req[h])] = x]
    BY <2>1 DEF WriteEffect, Row
  <2>4. \/ Same(req[h], s) /\ s.pc # "answer"
        \/ \E outcome \in Outcomes : Ended(req[h], s, outcome)
    BY <2>1 DEF WriteEffect, Outcomes
  <2> QED
    BY <2>1, <2>2, <2>3, <2>4 DEF Traces
<1>3. CASE Decide(h)
  <2>1. PICK s \in RequestType : Put(h, s) /\ InItem(req[h]) /\ DecideEffect(req[h], s)
    BY <1>3, DecideDoes
  <2>2. started' = started /\ backend' = backend
    BY <1>3 DEF Decide
  <2>3. PICK y \in Incident : y.sub = req[h].inc.sub /\ Published(IdOf(req[h]), y)
    BY <2>1 DEF DecideEffect, FailEffect, Same
  <2>4. \/ Same(req[h], s) /\ s.pc # "answer"
        \/ \E outcome \in Outcomes : Ended(req[h], s, outcome)
    BY <2>1 DEF DecideEffect, FailEffect, Outcomes
  <2> QED
    BY <2>1, <2>2, <2>3, <2>4 DEF Traces, Published
<1>4. CASE Store(h)
  <2>1. PICK s \in RequestType : Put(h, s) /\ InItem(req[h]) /\ StoreEffect(req[h], s)
    BY <1>4, StoreDoes DEF Store
  <2>2. started' = started /\ backend' = backend
    BY <1>4 DEF Store
  <2>3. \/ incidents' = incidents
        \/ \E x \in Incident : /\ x.sub = req[h].inc.sub
                               /\ incidents' = [incidents EXCEPT ![IdOf(req[h])] = x]
    BY <2>1 DEF StoreEffect, Same, Published
  <2>4. \/ Same(req[h], s) /\ s.pc # "answer"
        \/ \E outcome \in Outcomes : Ended(req[h], s, outcome)
    BY <2>1 DEF StoreEffect, Outcomes
  <2> QED
    BY <2>1, <2>2, <2>3, <2>4 DEF Traces
<1>5. CASE TransactionFails(h)
  <2>1. PICK s \in RequestType : Put(h, s) /\ InItem(req[h]) /\ FaultEffect(req[h], s)
    BY <1>5, FaultDoes
  <2>2. started' = started /\ backend' = backend
    BY <1>5 DEF TransactionFails
  <2>0. req[h].inc \in Incident
    BY <2>1, Busy
  <2>3. \/ incidents' = incidents
        \/ \E x \in Incident : /\ x.sub = req[h].inc.sub
                               /\ incidents' = [incidents EXCEPT ![IdOf(req[h])] = x]
    BY <2>0, <2>1 DEF FaultEffect, FailEffect, Same, Published, Row, store
  <2>4. \/ Same(req[h], s) /\ s.pc # "answer"
        \/ \E outcome \in Outcomes : Ended(req[h], s, outcome)
    BY <2>1 DEF FaultEffect, FailEffect, Outcomes
  <2> QED
    BY <2>1, <2>2, <2>3, <2>4 DEF Traces
<1> QED
  BY <1>1, <1>2, <1>3, <1>4, <1>5 DEF Works

LEMMA OutcomesKept ==
    ASSUME NEW r, NEW s, r.done \in Seq(Outcomes), r.pc # "answer", Successful(r),
           \/ Same(r, s)
           \/ \E outcome \in Outcomes : Ended(r, s, outcome)
    PROVE  Successful(s)
<1> SUFFICES ASSUME s.op = "bulkCreate"
             PROVE  /\ s.pc # "answer" => \A k \in DOMAIN s.done : s.done[k] = "ok"
                    /\ \A k \in 1..(Len(s.done) - 1) : s.done[k] = "ok"
  BY DEF Successful
<1>1. r.op = "bulkCreate" /\ \A k \in DOMAIN r.done : r.done[k] = "ok"
  BY DEF Same, Ended, Successful
<1>2. DOMAIN r.done = 1..Len(r.done) /\ Len(r.done) \in Nat
  OBVIOUS
<1>3. CASE Same(r, s)
  <2>1. s.done = r.done
    BY <1>3 DEF Same
  <2> QED
    BY <1>1, <1>2, <2>1
<1>4. ASSUME NEW outcome \in Outcomes, Ended(r, s, outcome)
      PROVE  /\ s.pc # "answer" => \A k \in DOMAIN s.done : s.done[k] = "ok"
             /\ \A k \in 1..(Len(s.done) - 1) : s.done[k] = "ok"
  <2>1. /\ Len(s.done) = Len(r.done) + 1 /\ \A k \in DOMAIN r.done : s.done[k] = r.done[k]
        /\ s.done[Len(r.done) + 1] = outcome /\ DOMAIN s.done = 1..(Len(r.done) + 1)
    BY <1>4, AppendIs DEF Ended
  <2>2. s.pc # "answer" => outcome = "ok"
    BY <1>1, <1>4 DEF Ended
  <2>3. \A k \in 1..(Len(r.done) + 1) : k \in 1..Len(r.done) \/ k = Len(r.done) + 1
    BY <1>2
  <2>4. Len(s.done) - 1 = Len(r.done)
    BY <1>2, <2>1
  <2> QED
    BY <1>1, <1>2, <2>1, <2>2, <2>3, <2>4
<1> QED
  BY <1>3, <1>4

LEMMA ExtentGrows ==
    ASSUME NEW r, NEW s, r.done \in Seq(Outcomes), r.pc # "answer",
           \/ Same(r, s) /\ s.pc # "answer"
           \/ \E outcome \in Outcomes : Ended(r, s, outcome)
    PROVE  /\ Extent(r) = Len(r.done) + 1 /\ Extent(r) \in Nat
           /\ Extent(s) \in Nat /\ Extent(r) <= Extent(s)
<1>1. Extent(r) = Len(r.done) + 1 /\ Len(r.done) \in Nat
  BY DEF Extent
<1>2. CASE Same(r, s) /\ s.pc # "answer"
  <2>1. Extent(s) = Extent(r)
    BY <1>1, <1>2 DEF Extent, Same
  <2> QED
    BY <1>1, <2>1
<1>3. ASSUME NEW outcome \in Outcomes, Ended(r, s, outcome)
      PROVE  Extent(s) \in Nat /\ Extent(r) <= Extent(s)
  <2>1. Len(s.done) = Len(r.done) + 1
    BY <1>3, AppendIs DEF Ended
  <2>2. Extent(s) \in {Len(s.done), Len(s.done) + 1}
    BY DEF Extent
  <2> QED
    BY <1>1, <2>1, <2>2
<1> QED
  BY <1>1, <1>2, <1>3

LEMMA SubTyped ==
    ASSUME NEW x \in Incident
    PROVE  x.sub \in Submission /\ x.sub.n \in Nat /\ x.sub.k \in Nat
<1>1. x.sub \in Submission
  BY DEF Incident
<1> QED
  BY <1>1, IncidentConstants DEF Submission

LEMMA PrefixStep ==
    ASSUME Shaped, Shaped', Numbered, Prefix, [Next]_vars
    PROVE  Prefix'
<1>0. /\ req \in [Handler -> RequestType] /\ started \in Nat
      /\ incidents \in [IncidentId -> Incident \cup {NoIncident}]
  BY IncidentConstants DEF Shaped, Typed
<1>1. CASE \E h \in Handler : Works(h)
  <2>1. PICK h \in Handler, s \in RequestType : Traces(h, s)
    BY <1>1, WorkTraces
  <2> DEFINE r == req[h]  i == IdOf(req[h])
  <2>2. /\ i \in IncidentId /\ r.inc.sub = Sub(r) /\ r.inc \in Incident /\ r.done \in Seq(Outcomes)
        /\ r.n \in 1..started /\ Writing(r) /\ r.pc # "answer"
    BY <2>1, Busy DEF Traces, AtWork, InItem, Shaped, Shape
  <2>3. \A g \in Handler : req'[g] = IF g = h THEN s ELSE req[g]
    BY <1>0, <2>1 DEF Traces, Put
  <2>4. Extent(r) = Len(r.done) + 1 /\ Extent(r) \in Nat /\ Extent(s) \in Nat /\ Extent(r) <= Extent(s)
    BY <2>1, <2>2, ExtentGrows DEF Traces
  <2>5. \A j \in IncidentId : incidents'[j] # NoIncident =>
          \/ incidents[j] # NoIncident /\ incidents'[j] = incidents[j]
          \/ incidents'[j].sub = Sub(r)
    BY <1>0, <2>1, <2>2 DEF Traces
  <2>6. Sub(r).n = r.n /\ Sub(r).k = Extent(r)
    BY <2>4 DEF Sub
  <2>7. \A j \in IncidentId : incidents[j] # NoIncident => incidents[j].sub.k \in Nat
    BY <1>0, SubTyped
  <2>8. \A j \in IncidentId : incidents'[j] # NoIncident => incidents'[j].sub.n <= started'
    BY <1>0, <2>1, <2>2, <2>5, <2>6 DEF Prefix, Traces
  <2>9. ASSUME NEW g \in Handler
        PROVE  Successful(req[g])' /\ Bounded(req[g])'
    <3>1. CASE g = h
      <4>1. Successful(s)
        BY <2>1, <2>2, OutcomesKept DEF Traces, Prefix
      <4>2. s.n = r.n
        BY <2>1 DEF Traces, Same, Ended
      <4>3. ASSUME NEW j \in IncidentId, incidents'[j] # NoIncident, incidents'[j].sub.n = s.n
            PROVE  incidents'[j].sub.k <= Extent(s)
        <5>1. CASE incidents[j] # NoIncident /\ incidents'[j] = incidents[j]
          <6>1. incidents[j].sub.k <= Extent(r)
            BY <2>2, <4>2, <4>3, <5>1 DEF Prefix, Bounded
          <6> QED
            BY <2>4, <2>7, <5>1, <6>1
        <5>2. CASE incidents'[j].sub = Sub(r)
          BY <2>4, <2>6, <5>2
        <5> QED
          BY <2>5, <4>3, <5>1, <5>2
      <4> QED
        BY <2>3, <3>1, <4>1, <4>3 DEF Successful, Bounded, Extent
    <3>2. CASE g # h
      <4>1. req'[g] = req[g]
        BY <2>3, <3>2
      <4>2. ASSUME NEW j \in IncidentId, Writing(req[g]), incidents'[j] # NoIncident,
                   incidents'[j].sub.n = req[g].n
            PROVE  incidents'[j].sub.k <= Extent(req[g])
        <5>1. req[g].n # r.n
          BY <2>2, <3>2, <4>2 DEF Numbered
        <5>2. incidents[j] # NoIncident /\ incidents'[j] = incidents[j]
          BY <2>5, <2>6, <4>2, <5>1
        <5> QED
          BY <4>2, <5>2 DEF Prefix, Bounded
      <4>3. Successful(req[g])
        BY DEF Prefix
      <4> QED
        BY <4>1, <4>2, <4>3 DEF Successful, Bounded, Extent, Writing
    <3> QED
      BY <3>1, <3>2
  <2> QED
    BY <2>8, <2>9 DEF Prefix
<1>2. CASE \E h \in Handler : Submit(h)
  <2>1. PICK h \in Handler, s \in RequestType :
          Put(h, s) /\ AtStart(s) /\ s.n = started + 1 /\ s.done = <<>> /\ Submit(h)
    BY <1>2, SubmitDoes
  <2>2. incidents' = incidents /\ started' = started + 1
    BY <2>1 DEF Submit
  <2>3. \A g \in Handler : req'[g] = IF g = h THEN s ELSE req[g]
    BY <1>0, <2>1 DEF Put
  <2>4. \A j \in IncidentId : incidents[j] # NoIncident =>
           /\ incidents[j].sub.n \in Nat /\ incidents[j].sub.n <= started
    BY <1>0, SubTyped DEF Prefix
  <2>5. ASSUME NEW g \in Handler
        PROVE  Successful(req[g])' /\ Bounded(req[g])'
    <3>1. CASE g = h
      <4>1. Successful(s)
        BY <2>1 DEF Successful
      <4>2. \A j \in IncidentId : incidents[j] # NoIncident => incidents[j].sub.n # s.n
        BY <1>0, <2>1, <2>4
      <4> QED
        BY <2>2, <2>3, <3>1, <4>1, <4>2 DEF Successful, Bounded
    <3>2. CASE g # h
      BY <2>2, <2>3, <3>2 DEF Prefix, Successful, Bounded, Extent, Writing
    <3> QED
      BY <3>1, <3>2
  <2>6. \A j \in IncidentId : incidents'[j] # NoIncident => incidents'[j].sub.n <= started'
    BY <1>0, <2>2, <2>4
  <2> QED
    BY <2>5, <2>6 DEF Prefix
<1>3. CASE \E h \in Handler : Reads(h)
  <2>1. PICK h \in Handler, s \in RequestType :
          Put(h, s) /\ ~Writing(s) /\ UNCHANGED <<incidents, started>>
    BY <1>3, ReadsShaped
  <2>2. \A g \in Handler : req'[g] = IF g = h THEN s ELSE req[g]
    BY <1>0, <2>1 DEF Put
  <2>3. ASSUME NEW g \in Handler
        PROVE  Successful(req[g])' /\ Bounded(req[g])'
    <3>1. CASE g = h
      BY <2>1, <2>2, <3>1 DEF Successful, Bounded, Writing, CreateOps
    <3>2. CASE g # h
      BY <2>1, <2>2, <3>2 DEF Prefix, Successful, Bounded, Extent, Writing
    <3> QED
      BY <3>1, <3>2
  <2> QED
    BY <2>1, <2>3 DEF Prefix
<1>4. CASE Crash
  <2>1. /\ started' = started /\ req' = [h \in Handler |-> Idle]
        /\ incidents' = incidents \/ incidents' = [i \in IncidentId |-> NoIncident]
    BY <1>4 DEF Crash, store
  <2>2. \A h \in Handler : Successful(req[h])' /\ Bounded(req[h])'
    BY <2>1, IdleIs DEF Successful, Bounded, Writing
  <2>3. \A j \in IncidentId : incidents'[j] # NoIncident => incidents'[j].sub.n <= started'
    BY <2>1 DEF Prefix
  <2> QED
    BY <2>2, <2>3 DEF Prefix
<1>5. CASE Activate \/ UNCHANGED vars
  BY <1>5 DEF Activate, vars, Prefix, Successful, Bounded, Extent, Writing
<1> QED
  BY <1>1, <1>2, <1>3, <1>4, <1>5 DEF Next, Step, Works, Reads

\* A bulk creation stops at its first failure and leaves no trace of the items
\* behind it, and a bulk evaluation accounts for every item, whatever else is
\* in progress (incident_router.py, bulk_evaluate.py).
THEOREM PrefixOnly == Spec => []BulkLeavesAPrefix
<1>1. Init => Prefix
  BY IdleIs DEF Init, Prefix, Successful, Bounded, Writing
<1>2. Recorded /\ Recorded' /\ Prefix /\ [Next]_vars => Prefix'
  BY PrefixStep DEF Recorded
<1>3. Recorded /\ Prefix => BulkLeavesAPrefix
  BY DEF Recorded, Shaped, Shape, Prefix, Successful, Bounded, Extent, BulkLeavesAPrefix
<1>4. Spec => []Recorded
  BY RecordedInit, RecordedStep, PTL DEF Spec
<1> QED
  BY <1>1, <1>2, <1>3, <1>4, PTL DEF Spec

-----------------------------------------------------------------------------
(* What a client is told is so.                                            *)

\* The decision of r has just been saved.
Appended(r) == /\ r.pc = "store"
               /\ decisions' = [decisions EXCEPT ![IdOf(r)] = Append(@, r.dec)]

\* How a step of a working request bears on what its client will be told.
Tells(h, s) ==
    LET r == req[h] IN
    /\ Put(h, s) /\ InItem(r)
    /\ \/ /\ Same(r, s) /\ s.pc # "answer"
          /\ s.inc.status = "evaluated" => r.inc.status = "evaluated" \/ Appended(r)
          /\ Written(s) => Written(r) \/ incidents'[IdOf(r)] # NoIncident
          /\ s.pc = "write" => r.pc = "load" /\ s.inc = r.inc /\ s.seen = incidents[IdOf(r)]
       \/ Ended(r, s, "ok") /\ (r.keep => r.inc.status = "evaluated" \/ Appended(r))
       \/ /\ Ended(r, s, "failed")
          /\ faults' = 0 => Reach(r) = Len(r.done) /\ decisions' = decisions /\ faults = 0

LEMMA LoadTells ==
    ASSUME Recorded, NEW h \in Handler, Load(h)
    PROVE  \E s \in RequestType : Tells(h, s)
<1>1. PICK s \in RequestType : Put(h, s) /\ InItem(req[h]) /\ LoadEffect(req[h], s)
  BY LoadDoes DEF Recorded
<1>2. req[h].pc = "load"
  BY DEF Load
<1>3. Written(s) => Written(req[h])
  BY <1>1, <1>2 DEF LoadEffect, Written, Same
<1> QED
  BY <1>1, <1>2, <1>3 DEF LoadEffect, Tells

LEMMA WriteTells ==
    ASSUME Recorded, Answers, NEW h \in Handler, Write(h)
    PROVE  \E s \in RequestType : Tells(h, s)
<1> DEFINE r == req[h]
<1>1. PICK s \in RequestType : Put(h, s) /\ InItem(r) /\ WriteEffect(r, s)
  BY WriteDoes DEF Recorded
<1>2. /\ r.pc = "write" /\ decisions' = decisions /\ faults' = faults
      /\ (r.err <=> r.inc.status = "failed")
  BY DEF Write, Recorded, Shaped, Shape
<1>3. IdOf(r) \in IncidentId /\ r.inc \in Incident
  BY <1>1, Busy DEF Recorded
<1>4. CASE /\ backend = "postgres" /\ r.seen = NoIncident /\ Ended(r, s, "failed")
  <2>1. r.inc.status = "received"
    BY <1>2, <1>4 DEF Answers, AnswersAt, InTable
  <2>2. Reach(r) = Len(r.done)
    BY <2>1 DEF Reach, Undecided
  <2> QED
    BY <1>1, <1>2, <1>4, <2>2 DEF Tells
<1>5. CASE r.err /\ Ended(r, s, "failed")
  <2>1. faults = 0 => Reach(r) = Len(r.done)
    BY <1>2, <1>5 DEF Reach
  <2> QED
    BY <1>1, <1>2, <1>5, <2>1 DEF Tells
<1>6. CASE ~r.err /\ (r.inc.status # "received" \/ ~r.keep) /\ Ended(r, s, "ok")
  <2>1. r.keep => r.inc.status = "evaluated"
    BY <1>2, <1>3, <1>6, NoIncidentIs
  <2> QED
    BY <1>1, <1>6, <2>1 DEF Tells
<1>7. CASE /\ \E x \in Incident : Row(r, x) /\ incidents' = [incidents EXCEPT ![IdOf(r)] = x]
           /\ ~r.err /\ r.inc.status = "received" /\ r.keep
           /\ Same(r, s) /\ s.inc = r.inc /\ ~s.err /\ s.pc = "decide"
  <2>1. incidents \in [IncidentId -> Incident \cup {NoIncident}]
    BY DEF Recorded, Shaped, Typed
  <2>2. incidents'[IdOf(r)] # NoIncident
    BY <1>3, <1>7, <2>1, NoIncidentIs
  <2> QED
    BY <1>1, <1>7, <2>2 DEF Tells
<1> QED
  BY <1>1, <1>4, <1>5, <1>6, <1>7 DEF WriteEffect

LEMMA FailTells ==
    ASSUME Recorded, NEW h \in Handler, NEW s \in RequestType, NEW x \in Incident,
           Put(h, s), req[h].pc \in {"decide", "store"}, FailEffect(req[h], s, x),
           faults' = 0 => decisions' = decisions /\ faults = 0
    PROVE  Tells(h, s)
<1> DEFINE r == req[h]
<1>1. InItem(r) /\ r.done \in Seq(Outcomes)
  BY DEF Recorded, Shaped, Shape, InItem
<1>2. Reach(r) = Len(r.done)
  BY <1>1, ReachIs
<1>3. CASE /\ r.op \in CreateOps /\ Same(r, s) /\ s.inc = [x EXCEPT !.status = "failed"]
           /\ s.err /\ s.pc = "load" /\ Published(IdOf(r), s.inc)
  <2>1. s.inc.status = "failed" /\ Written(r)
    BY <1>3 DEF Incident, Written
  <2> QED
    BY <1>1, <1>3, <2>1 DEF Tells
<1>4. CASE r.op \in EvaluateOps /\ Ended(r, s, "failed") /\ Published(IdOf(r), x)
  BY <1>1, <1>2, <1>4 DEF Tells
<1> QED
  BY <1>3, <1>4 DEF FailEffect

LEMMA DecideTells ==
    ASSUME Recorded, NEW h \in Handler, Decide(h)
    PROVE  \E s \in RequestType : Tells(h, s)
<1> DEFINE r == req[h]
<1>1. PICK s \in RequestType : Put(h, s) /\ InItem(r) /\ DecideEffect(r, s)
  BY DecideDoes DEF Recorded
<1>2. r.pc = "decide" /\ decisions' = decisions /\ faults' = faults
  BY DEF Decide
<1>3. PICK x \in Incident :
        /\ x.status = "received"
        /\ \/ FailEffect(r, s, x)
           \/ Same(r, s) /\ s.inc = x /\ s.pc = "store"
           \/ ~r.keep /\ Ended(r, s, "ok")
  BY <1>1 DEF DecideEffect
<1>4. CASE FailEffect(r, s, x)
  BY <1>1, <1>2, <1>4, FailTells
<1>5. CASE Same(r, s) /\ s.inc = x /\ s.pc = "store"
  <2>1. Written(s) => Written(r)
    BY <1>2, <1>5 DEF Written, Same
  <2> QED
    BY <1>1, <1>3, <1>5, <2>1 DEF Tells
<1>6. CASE ~r.keep /\ Ended(r, s, "ok")
  BY <1>1, <1>6 DEF Tells
<1> QED
  BY <1>3, <1>4, <1>5, <1>6

LEMMA StoreTells ==
    ASSUME Recorded, NEW h \in Handler, Store(h)
    PROVE  \E s \in RequestType : Tells(h, s)
<1> DEFINE r == req[h]
<1>1. PICK s \in RequestType : Put(h, s) /\ InItem(r) /\ StoreEffect(r, s)
  BY StoreDoes DEF Store, Recorded
<1>2. Appended(r) /\ r.pc = "store"
  BY DEF Store, Appended
<1>3. CASE r.op \in CreateOps /\ Same(r, s) /\ s.pc = "load"
  <2>1. Written(r)
    BY <1>2, <1>3 DEF Written
  <2> QED
    BY <1>1, <1>2, <1>3, <2>1 DEF Tells
<1>4. CASE Ended(r, s, "ok")
  BY <1>1, <1>2, <1>4 DEF Tells
<1> QED
  BY <1>1, <1>3, <1>4 DEF StoreEffect

LEMMA FaultTells ==
    ASSUME Recorded, NEW h \in Handler, TransactionFails(h)
    PROVE  \E s \in RequestType : Tells(h, s)
<1> DEFINE r == req[h]
<1>1. PICK s \in RequestType : Put(h, s) /\ InItem(r) /\ FaultEffect(r, s)
  BY FaultDoes DEF Recorded
<1>2. faults' # 0
  <2>1. faults \in Nat /\ faults' = faults + 1
    BY IncidentConstants DEF TransactionFails, Recorded, Shaped, Typed
  <2> QED
    BY <2>1
<1>3. CASE Ended(r, s, "failed")
  BY <1>1, <1>2, <1>3 DEF Tells
<1>4. CASE r.pc = "store" /\ FailEffect(r, s, r.inc)
  <2>1. r.inc \in Incident
    BY <1>1, Busy DEF Recorded
  <2> QED
    BY <1>1, <1>2, <1>4, <2>1, FailTells
<1> QED
  BY <1>1, <1>3, <1>4 DEF FaultEffect

\* The decisions on record after a step of handler h.
LEMMA RecordGrows ==
    ASSUME Recorded, NEW h \in Handler, NEW s \in RequestType, Moves(h, s)
    PROVE  /\ \A i \in IncidentId : ToSet(decisions[i]) \subseteq ToSet(decisions'[i])
           /\ \A i \in IncidentId : \A d \in ToSet(decisions'[i]) :
                d \in ToSet(decisions[i]) \/ (i = IdOf(req[h]) /\ d = req[h].dec /\ Appended(req[h]))
           /\ Appended(req[h]) => req[h].dec \in ToSet(decisions'[IdOf(req[h])])
<1> DEFINE i == IdOf(req[h])  d == req[h].dec  q == Append(decisions[i], d)  n == Len(decisions[i])
<1>0. decisions \in [IncidentId -> Seq(Decision)] /\ i \in IncidentId
  BY Busy DEF Recorded, Shaped, Typed, Moves
<1>1. CASE decisions' = decisions /\ ~Appended(req[h])
  BY <1>1
<1>2. CASE Appended(req[h])
  <2>1. d \in Decision
    BY <1>2 DEF Recorded, Shaped, Shape, Appended
  <2>2. /\ q \in Seq(Decision) /\ \A k \in DOMAIN decisions[i] : q[k] = decisions[i][k]
        /\ q[n + 1] = d /\ DOMAIN q = 1..(n + 1) /\ DOMAIN decisions[i] = 1..n /\ n \in Nat
    BY <1>0, <2>1, AppendIs
  <2>3. decisions' = [decisions EXCEPT ![i] = q]
    BY <1>2 DEF Appended
  <2> HIDE DEF q, n
  <2>4. \A k \in 1..(n + 1) : k \in 1..n \/ k = n + 1
    BY <2>2
  <2>5. /\ ToSet(decisions[i]) \subseteq ToSet(q) /\ d \in ToSet(q)
        /\ \A e \in ToSet(q) : e \in ToSet(decisions[i]) \/ e = d
    <3>1. 1..n \subseteq 1..(n + 1) /\ n + 1 \in 1..(n + 1)
      BY <2>2
    <3> QED
      BY <2>2, <2>4, <3>1 DEF ToSet
  <2> HIDE DEF i, d
  <2>6. \A j \in IncidentId : decisions'[j] = IF j = i THEN q ELSE decisions[j]
    BY <1>0, <2>3
  <2> QED
    BY <1>0, <1>2, <2>5, <2>6 DEF i, d
<1> QED
  BY <1>1, <1>2 DEF Moves, Appended

LEMMA KeptGrows ==
    ASSUME Recorded, NEW h \in Handler, NEW s \in RequestType, Moves(h, s), NEW r, NEW k
    PROVE  /\ Kept(r, k) => Kept(r, k)'
           /\ Kept(r, k)' => \/ Kept(r, k)
                             \/ r.n = req[h].n /\ k = Len(req[h].done) + 1 /\ Appended(req[h])
           /\ Appended(req[h]) /\ r.n = req[h].n /\ k = Len(req[h].done) + 1 => Kept(r, k)'
<1>1. /\ \A i \in IncidentId : ToSet(decisions[i]) \subseteq ToSet(decisions'[i])
      /\ \A i \in IncidentId : \A d \in ToSet(decisions'[i]) :
           d \in ToSet(decisions[i]) \/ (i = IdOf(req[h]) /\ d = req[h].dec /\ Appended(req[h]))
      /\ Appended(req[h]) => req[h].dec \in ToSet(decisions'[IdOf(req[h])])
  BY RecordGrows
<1>2. Appended(req[h]) => req[h].dec.sub.n = req[h].n /\ req[h].dec.sub.k = Len(req[h].done) + 1
  BY DecisionIsNew DEF Appended, Recorded
<1>3. IdOf(req[h]) \in IncidentId
  BY Busy DEF Recorded, Moves
<1> QED
  BY <1>1, <1>2, <1>3 DEF Kept

LEMMA WorkTells ==
    ASSUME Recorded, Answers, NEW h \in Handler, Works(h)
    PROVE  \E s \in RequestType : Tells(h, s) /\ Moves(h, s) /\ Traces(h, s)
<1>0. req \in [Handler -> RequestType]
  BY DEF Recorded, Shaped, Typed
<1>1. PICK s \in RequestType : Tells(h, s)
  BY LoadTells, WriteTells, DecideTells, StoreTells, FaultTells DEF Works
<1>2. PICK t \in RequestType : Moves(h, t)
  BY WorkMoves DEF Recorded
<1>3. PICK u \in RequestType : Traces(h, u)
  BY WorkTraces DEF Recorded
<1>4. req'[h] = s /\ req'[h] = t /\ req'[h] = u
  BY <1>0, <1>1, <1>2, <1>3 DEF Tells, Moves, Traces, Put
<1> QED
  BY <1>1, <1>2, <1>3, <1>4

\* What the clients will be told after the step of h.
LEMMA ToldKept ==
    ASSUME Recorded, Answers, NEW h \in Handler, NEW s \in RequestType, Tells(h, s), Moves(h, s),
           NEW g \in Handler, faults \in Nat, faults' \in Nat,
           NEW t, t = IF g = h THEN s ELSE req[g]
    PROVE  Told(t)'
<1> DEFINE r == req[h]
<1>0. /\ Told(r) /\ Backed(r) /\ Writing(r) /\ r.done \in Seq(Outcomes)
      /\ InItem(r) /\ faults <= faults' /\ IdOf(r) \in IncidentId /\ r.inc.sub = Sub(r)
  BY Busy DEF Answers, AnswersAt, Moves, InItem, Recorded, AtWork
<1>1. CASE g # h
  <2>0. Told(t) /\ t = req[g]
    BY <1>1 DEF Answers, AnswersAt
  <2> SUFFICES ASSUME Writing(t), t.keep, NEW k \in DOMAIN t.done
               PROVE  /\ t.done[k] = "ok" => Kept(t, k)'
                      /\ t.done[k] = "failed" /\ faults' = 0 => ~Kept(t, k)'
    BY DEF Told, Writing
  <2>1. t.n # r.n
    BY <1>0, <1>1, <2>0 DEF Recorded, Numbered
  <2>2. faults' = 0 => faults = 0
    BY <1>0
  <2> QED
    BY <2>0, <2>1, <2>2, KeptGrows DEF Told
<1>2. CASE g = h
  <2>0. t = s /\ s.n = r.n /\ s.op = r.op /\ s.keep = r.keep /\ (faults' = 0 => faults = 0)
    BY <1>0, <1>2 DEF Moves
  <2> SUFFICES ASSUME r.keep, NEW k \in DOMAIN s.done
               PROVE  /\ s.done[k] = "ok" => Kept(s, k)'
                      /\ s.done[k] = "failed" /\ faults' = 0 => ~Kept(s, k)'
    BY <2>0 DEF Told, Writing
  <2>1. DOMAIN r.done = 1..Len(r.done) /\ Len(r.done) \in Nat
    BY <1>0
  <2>2. \A l : Kept(s, l) <=> Kept(r, l)
    BY <2>0 DEF Kept
  <2>3. CASE k \in DOMAIN r.done /\ s.done[k] = r.done[k]
    <3>1. k # Len(r.done) + 1
      BY <2>1, <2>3
    <3>2. /\ r.done[k] = "ok" => Kept(r, k)
          /\ r.done[k] = "failed" /\ faults = 0 => ~Kept(r, k)
      BY <1>0, <2>3 DEF Told
    <3> QED
      BY <2>0, <2>2, <2>3, <3>1, <3>2, KeptGrows
  <2>4. CASE Same(r, s)
    BY <2>3, <2>4 DEF Same
  <2>5. ASSUME NEW outcome \in Outcomes, Ended(r, s, outcome)
        PROVE  \/ k \in DOMAIN r.done /\ s.done[k] = r.done[k]
               \/ k = Len(r.done) + 1 /\ s.done[k] = outcome
    <3>1. /\ \A l \in DOMAIN r.done : s.done[l] = r.done[l]
          /\ s.done[Len(r.done) + 1] = outcome /\ DOMAIN s.done = 1..(Len(r.done) + 1)
      BY <1>0, <2>5, AppendIs DEF Ended
    <3>2. k \in 1..Len(r.done) \/ k = Len(r.done) + 1
      BY <2>1, <3>1
    <3> QED
      BY <2>1, <3>1, <3>2
  <2>6. CASE Ended(r, s, "ok") /\ (r.keep => r.inc.status = "evaluated" \/ Appended(r))
    <3>1. CASE k = Len(r.done) + 1 /\ s.done[k] = "ok"
      <4>1. CASE Appended(r)
        BY <2>0, <3>1, <4>1, KeptGrows
      <4>2. CASE r.inc.status = "evaluated"
        <5>1. PICK d \in ToSet(decisions[IdOf(r)]) : d.sub = Sub(r)
          BY <1>0, <4>2 DEF Backed
        <5>2. d.sub.n = r.n /\ d.sub.k = Len(r.done) + 1
          BY <5>1 DEF Sub
        <5>3. Kept(r, k)
          BY <1>0, <3>1, <5>1, <5>2 DEF Kept
        <5> QED
          BY <2>2, <3>1, <5>3, KeptGrows
      <4> QED
        BY <2>6, <4>1, <4>2
    <3> QED
      BY <2>3, <2>5, <2>6, <3>1 DEF Outcomes
  <2>7. CASE /\ Ended(r, s, "failed")
             /\ faults' = 0 => Reach(r) = Len(r.done) /\ decisions' = decisions /\ faults = 0
    <3>1. CASE k = Len(r.done) + 1 /\ s.done[k] = "failed"
      <4> SUFFICES ASSUME faults' = 0, Kept(s, k)' PROVE FALSE
        BY <3>1
      <4>1. Kept(r, k)
        BY <2>0, <2>7 DEF Kept
      <4>2. PICK i \in IncidentId : \E l \in DOMAIN decisions[i] :
              decisions[i][l].sub.n = r.n /\ decisions[i][l].sub.k = k
        BY <4>1 DEF Kept, ToSet
      <4>3. k <= Reach(r)
        BY <1>0, <4>2 DEF Recorded, OnRecord
      <4> QED
        BY <2>1, <2>7, <3>1, <4>3
    <3> QED
      BY <2>3, <2>5, <2>7, <3>1 DEF Outcomes
  <2> QED
    BY <2>4, <2>6, <2>7 DEF Tells
<1> QED
  BY <1>1, <1>2

LEMMA RowsRemain ==
    ASSUME Recorded, NEW h \in Handler, NEW s \in RequestType, Traces(h, s), NEW i \in IncidentId,
           incidents[i] # NoIncident
    PROVE  incidents'[i] # NoIncident
<1>1. incidents \in [IncidentId -> Incident \cup {NoIncident}] /\ IdOf(req[h]) \in IncidentId
  BY Busy DEF Recorded, Shaped, Typed, Traces
<1> QED
  BY <1>1, NoIncidentIs DEF Traces

LEMMA BackedKept ==
    ASSUME Recorded, Answers, NEW h \in Handler, NEW s \in RequestType, Tells(h, s), Moves(h, s),
           NEW g \in Handler, NEW t, t = IF g = h THEN s ELSE req[g]
    PROVE  Backed(t)'
<1> SUFFICES ASSUME InItem(t), t.inc.status = "evaluated"
             PROVE  \E d \in ToSet(decisions'[IdOf(t)]) : d.sub = t.inc.sub
  BY DEF Backed, InItem, Writing, IdOf
<1>0. \A i \in IncidentId : ToSet(decisions[i]) \subseteq ToSet(decisions'[i])
  BY RecordGrows
<1>1. CASE g # h
  <2>1. t = req[g] /\ Backed(req[g])
    BY <1>1 DEF Answers, AnswersAt
  <2>2. IdOf(req[g]) \in IncidentId
    BY <2>1, Busy DEF Recorded
  <2> QED
    BY <1>0, <2>1, <2>2 DEF Backed
<1>2. CASE g = h
  <2> DEFINE r == req[h]
  <2>0. Backed(r) /\ InItem(r) /\ IdOf(r) \in IncidentId /\ r.inc.sub = Sub(r)
    BY Busy DEF Answers, AnswersAt, Moves, Recorded
  <2>1. Same(r, s) /\ (r.inc.status = "evaluated" \/ Appended(r))
    BY <1>2 DEF Tells, Ended, AtStart, InItem
  <2>2. IdOf(t) = IdOf(r) /\ t.inc.sub = r.inc.sub
    BY <1>2, <2>1, SameSub DEF Same
  <2>3. CASE Appended(r)
    <3>1. r.dec \in ToSet(decisions'[IdOf(r)]) /\ r.dec.sub = Sub(r)
      BY <2>3, RecordGrows, DecisionIsNew DEF Appended, Recorded
    <3> QED
      BY <2>0, <2>2, <3>1
  <2>4. CASE r.inc.status = "evaluated"
    BY <1>0, <2>0, <2>2, <2>4 DEF Backed
  <2> QED
    BY <2>1, <2>3, <2>4
<1> QED
  BY <1>1, <1>2

LEMMA InTableKept ==
    ASSUME Recorded, Answers, NEW h \in Handler, NEW s \in RequestType, Tells(h, s), Traces(h, s),
           NEW g \in Handler, NEW t, t = IF g = h THEN s ELSE req[g]
    PROVE  InTable(t)'
<1>0. backend' = backend
  BY DEF Traces
<1> SUFFICES ASSUME backend = "postgres"
             PROVE  /\ InItem(t) /\ Written(t) => incidents'[IdOf(t)] # NoIncident
                    /\ t.pc = "write" /\ t.inc.status # "received" => t.seen # NoIncident
  BY <1>0 DEF InTable, InItem, Written, Writing, IdOf
<1>1. CASE g # h
  <2>1. t = req[g] /\ InTable(req[g])
    BY <1>1 DEF Answers, AnswersAt
  <2>2. InItem(t) => IdOf(t) \in IncidentId
    BY <2>1, Busy DEF Recorded
  <2> QED
    BY <2>1, <2>2, RowsRemain DEF InTable
<1>2. CASE g = h
  <2> DEFINE r == req[h]
  <2>0. InTable(r) /\ InItem(r) /\ IdOf(r) \in IncidentId /\ t = s
    BY <1>2, Busy DEF Answers, AnswersAt, Traces, Recorded
  <2>1. CASE /\ Same(r, s) /\ s.pc # "answer"
             /\ Written(s) => Written(r) \/ incidents'[IdOf(r)] # NoIncident
             /\ s.pc = "write" => r.pc = "load" /\ s.inc = r.inc /\ s.seen = incidents[IdOf(r)]
    <3>1. IdOf(s) = IdOf(r)
      BY <2>1, SameSub
    <3>2. Written(r) => incidents[IdOf(r)] # NoIncident /\ incidents'[IdOf(r)] # NoIncident
      BY <2>0, RowsRemain DEF InTable
    <3>3. r.pc = "load" /\ r.inc.status # "received" => Written(r)
      BY DEF Recorded, Shaped, Shape, Written
    <3> QED
      BY <2>0, <2>1, <3>1, <3>2, <3>3
  <2>2. ASSUME NEW outcome \in Outcomes, Ended(r, s, outcome)
        PROVE  (InItem(s) => ~Written(s)) /\ s.pc # "write"
    BY <2>2 DEF Ended, AtStart, InItem, Written
  <2> QED
    BY <2>0, <2>1, <2>2 DEF Tells, Outcomes
<1> QED
  BY <1>1, <1>2

LEMMA AnswersStep ==
    ASSUME Recorded, Answers, [Next]_vars
    PROVE  Answers'
<1>0. req \in [Handler -> RequestType] /\ faults \in Nat
  BY IncidentConstants DEF Recorded, Shaped, Typed
<1>1. CASE \E h \in Handler : Works(h)
  <2>1. PICK h \in Handler : \E s \in RequestType : Tells(h, s) /\ Moves(h, s) /\ Traces(h, s)
    BY <1>1, WorkTells
  <2>2. PICK s \in RequestType : Tells(h, s) /\ Moves(h, s) /\ Traces(h, s)
    BY <2>1
  <2>3. \A g \in Handler : req'[g] = IF g = h THEN s ELSE req[g]
    BY <1>0, <2>2 DEF Tells, Put
  <2>4. faults' \in Nat
    BY RecordedStep, IncidentConstants DEF Recorded, Shaped, Typed
  <2>5. ASSUME NEW g \in Handler
        PROVE  AnswersAt(req[g])'
    <3>1. PICK t : t = req'[g]
      OBVIOUS
    <3>2. Backed(t)' /\ Told(t)' /\ InTable(t)'
      BY <1>0, <2>2, <2>3, <2>4, <3>1, BackedKept, ToldKept, InTableKept
    <3> QED
      BY <3>1, <3>2 DEF AnswersAt, Backed, Told, InTable, Kept, InItem, Writing, Written, IdOf
  <2> QED
    BY <2>5 DEF Answers
<1>2. CASE \E h \in Handler : Submit(h)
  <2>1. PICK h \in Handler, s \in RequestType :
          Put(h, s) /\ AtWork(s) /\ AtStart(s) /\ s.done = <<>> /\ Submit(h)
    BY <1>2, SubmitDoes DEF Recorded
  <2>2. UNCHANGED <<backend, incidents, decisions, faults>>
    BY <2>1 DEF Submit
  <2>3. \A g \in Handler : req'[g] = IF g = h THEN s ELSE req[g]
    BY <1>0, <2>1 DEF Put
  <2>4. Backed(s) /\ Told(s) /\ InTable(s)
    BY <2>1 DEF AtStart, Backed, Told, InTable, Written
  <2>5. \A g \in Handler : AnswersAt(req[g])'
    BY <2>2, <2>3, <2>4
       DEF Answers, AnswersAt, Backed, Told, InTable, Kept, InItem, Writing, Written, IdOf
  <2> QED
    BY <2>5 DEF Answers
<1>3. CASE \E h \in Handler : Reads(h)
  <2>1. PICK h \in Handler, s \in RequestType :
          Put(h, s) /\ ~Writing(s) /\ UNCHANGED <<backend, incidents, decisions, faults>>
    BY <1>3, ReadsShaped DEF Recorded
  <2>2. \A g \in Handler : req'[g] = IF g = h THEN s ELSE req[g]
    BY <1>0, <2>1 DEF Put
  <2>3. Backed(s) /\ Told(s) /\ InTable(s)
    <3>1. ~InItem(s)
      BY <2>1 DEF InItem
    <3>2. s.pc # "write"
      <4>1. Shaped'
        BY RecordedStep DEF Recorded
      <4>2. req'[h] = s /\ Shape(req[h])'
        BY <2>2, <4>1 DEF Shaped
      <4> QED
        BY <2>1, <4>2 DEF Shape, Writing
    <3> QED
      BY <2>1, <3>1, <3>2 DEF Backed, Told, InTable
  <2>4. \A g \in Handler : AnswersAt(req[g])'
    BY <2>1, <2>2, <2>3
       DEF Answers, AnswersAt, Backed, Told, InTable, Kept, InItem, Writing, Written, IdOf
  <2> QED
    BY <2>4 DEF Answers
<1>4. CASE Crash
  <2>1. req' = [h \in Handler |-> Idle]
    BY <1>4 DEF Crash
  <2>2. \A h \in Handler : AnswersAt(req[h])'
    BY <2>1, IdleIs DEF AnswersAt, Backed, Told, InTable, InItem, Writing
  <2> QED
    BY <2>2 DEF Answers
<1>5. CASE Activate \/ UNCHANGED vars
  <2>1. UNCHANGED <<backend, incidents, decisions, faults, req>>
    BY <1>5 DEF Activate, vars
  <2> QED
    BY <2>1 DEF Answers, AnswersAt, Backed, Told, InTable, Kept, InItem, Writing, Written, IdOf
<1> QED
  BY <1>1, <1>2, <1>3, <1>4, <1>5 DEF Next, Step, Works, Reads

\* What a client is told is so: an item answered as evaluated has its decision
\* on record, and without faults one answered with an error has none, although
\* incident and decision are saved in transactions of their own
\* (manage_incidents.py, evaluate_incident.py, bulk_evaluate.py).
THEOREM AnswersTrue == Spec => []AnswersAreTrue
<1>1. Init => Answers
  BY IdleIs DEF Init, Answers, AnswersAt, Backed, Told, InTable, InItem, Writing
<1>2. Recorded /\ Answers /\ [Next]_vars => Answers'
  BY AnswersStep
<1>3. Answers => AnswersAreTrue
  BY DEF Answers, AnswersAt, Told, AnswersAreTrue
<1>4. Spec => []Recorded
  BY RecordedInit, RecordedStep, PTL DEF Spec
<1> QED
  BY <1>1, <1>2, <1>3, <1>4, PTL DEF Spec

-----------------------------------------------------------------------------
(* What a step of a working request does to the stores, case by case.      *)

\* session.get
Loads(h, s) ==
    /\ req[h].pc = "load" /\ LoadEffect(req[h], s) /\ UNCHANGED store
    /\ overlapped' = overlapped \cup
         {i \in {IdOf(req[h])} : \E g \in Handler \ {h} : Creating(g, i)}

\* The item ends with nothing written: a fault, or an INSERT of a row that exists.
Leaves(h, s) ==
    /\ req[h].pc \in {"load", "write"} /\ Ended(req[h], s, "failed")
    /\ UNCHANGED store /\ overlapped' = overlapped
    /\ \/ faults' # 0
       \/ req[h].pc = "write" /\ req[h].seen = NoIncident /\ incidents[IdOf(req[h])] # NoIncident

\* The row is written.
Writes(h, s) ==
    /\ req[h].pc = "write" /\ decisions' = decisions /\ overlapped' = overlapped
    /\ \E x \in Incident : Row(req[h], x) /\ incidents' = [incidents EXCEPT ![IdOf(req[h])] = x]
    /\ \/ /\ \E outcome \in Outcomes : Ended(req[h], s, outcome)
          /\ faults' = 0 => req[h].inc.status # "received" \/ ~req[h].keep
       \/ /\ Same(req[h], s) /\ s.inc = req[h].inc /\ s.pc = "decide"
          /\ req[h].inc.status = "received"

\* A creation is evaluated, or its evaluation fails.
Creates(h, s) ==
    /\ req[h].pc \in {"decide", "store"} /\ req[h].op \in CreateOps
    /\ Same(req[h], s) /\ Published(IdOf(req[h]), s.inc) /\ overlapped' = overlapped
    /\ \/ s.pc = "store" /\ s.inc.status = "received" /\ decisions' = decisions
       \/ s.pc = "load" /\ s.inc.status = "failed" /\ decisions' = decisions
       \/ /\ s.pc = "load" /\ Appended(req[h])
          /\ s.inc.payload = req[h].inc.payload /\ s.inc.context = req[h].inc.context
          /\ s.inc.status = "evaluated" \/ (s.inc.status = "failed" /\ faults' # 0)

\* An evaluation without a row.
Evaluates(h, s) ==
    /\ req[h].pc \in {"decide", "store"} /\ req[h].op \in EvaluateOps
    /\ incidents' = incidents /\ overlapped' = overlapped
    /\ decisions' = decisions \/ Appended(req[h])
    /\ \/ Same(req[h], s) /\ s.pc = "store"
       \/ \E outcome \in Outcomes : Ended(req[h], s, outcome)

Shifts(h, s) ==
    /\ Put(h, s) /\ InItem(req[h])
    /\ Loads(h, s) \/ Leaves(h, s) \/ Writes(h, s) \/ Creates(h, s) \/ Evaluates(h, s)

\* Only creations have rows.
LEMMA NoRowOfEvaluation ==
    ASSUME Recorded, NEW h \in Handler, InItem(req[h]), OwnAt(h), req[h].op \in EvaluateOps,
           NEW x \in Incident, x.sub = req[h].inc.sub, Published(IdOf(req[h]), x)
    PROVE  incidents' = incidents
<1>1. ~Written(req[h])
  BY DEF Written, CreateOps, EvaluateOps
<1>2. IdOf(req[h]) \in IncidentId
  BY Busy DEF Recorded
<1>3. ~Owns(IdOf(req[h]), x)
  BY <1>1, <1>2 DEF OwnAt, Owns
<1> QED
  BY <1>3 DEF Published

LEMMA FailShifts ==
    ASSUME Recorded, NEW h \in Handler, OwnAt(h), NEW s \in RequestType, NEW x \in Incident,
           Put(h, s), x.sub = req[h].inc.sub, req[h].pc \in {"decide", "store"},
           FailEffect(req[h], s, x), overlapped' = overlapped,
           \/ decisions' = decisions
           \/ Appended(req[h]) /\ x = req[h].inc /\ faults' # 0
    PROVE  Shifts(h, s)
<1> DEFINE r == req[h]
<1>0. InItem(r)
  BY DEF Recorded, Shaped, Shape, InItem
<1>1. CASE /\ r.op \in CreateOps /\ Same(r, s) /\ s.inc = [x EXCEPT !.status = "failed"]
           /\ s.err /\ s.pc = "load" /\ Published(IdOf(r), s.inc)
  <2>1. s.inc.status = "failed" /\ s.inc.payload = x.payload /\ s.inc.context = x.context
    BY <1>1 DEF Incident
  <2>2. Creates(h, s)
    BY <1>1, <2>1 DEF Creates
  <2> QED
    BY <1>0, <2>2 DEF Shifts
<1>2. CASE r.op \in EvaluateOps /\ Ended(r, s, "failed") /\ Published(IdOf(r), x)
  <2>1. incidents' = incidents
    BY <1>0, <1>2, NoRowOfEvaluation
  <2>2. Evaluates(h, s)
    BY <1>2, <2>1 DEF Evaluates, Outcomes
  <2> QED
    BY <1>0, <2>2 DEF Shifts
<1> QED
  BY <1>1, <1>2 DEF FailEffect

LEMMA LoadShifts ==
    ASSUME Recorded, NEW h \in Handler, Load(h)
    PROVE  \E s \in RequestType : Shifts(h, s)
<1>1. PICK s \in RequestType : Put(h, s) /\ InItem(req[h]) /\ LoadEffect(req[h], s)
  BY LoadDoes DEF Recorded
<1>2. Loads(h, s)
  BY <1>1 DEF Loads, Load, store
<1> QED
  BY <1>1, <1>2 DEF Shifts

LEMMA WriteShifts ==
    ASSUME Recorded, NEW h \in Handler, Write(h)
    PROVE  \E s \in RequestType : Shifts(h, s)
<1> DEFINE r == req[h]
<1>1. PICK s \in RequestType : Put(h, s) /\ InItem(r) /\ WriteEffect(r, s)
  BY WriteDoes DEF Recorded
<1>2. r.pc = "write" /\ decisions' = decisions /\ overlapped' = overlapped
  BY DEF Write
<1>3. CASE /\ backend = "postgres" /\ r.seen = NoIncident /\ incidents[IdOf(r)] # NoIncident
           /\ Ended(r, s, "failed") /\ incidents' = incidents
  <2>1. Leaves(h, s)
    BY <1>2, <1>3 DEF Leaves, store
  <2> QED
    BY <1>1, <2>1 DEF Shifts
<1>4. CASE /\ \E x \in Incident : Row(r, x) /\ incidents' = [incidents EXCEPT ![IdOf(r)] = x]
           /\ r.err /\ Ended(r, s, "failed")
  <2>1. r.inc.status = "failed"
    BY <1>2, <1>4 DEF Recorded, Shaped, Shape
  <2>2. Writes(h, s)
    BY <1>2, <1>4, <2>1 DEF Writes, Outcomes
  <2> QED
    BY <1>1, <2>2 DEF Shifts
<1>5. CASE /\ \E x \in Incident : Row(r, x) /\ incidents' = [incidents EXCEPT ![IdOf(r)] = x]
           /\ r.inc.status # "received" \/ ~r.keep
           /\ Ended(r, s, "ok")
  <2>2. Writes(h, s)
    BY <1>2, <1>5 DEF Writes, Outcomes
  <2> QED
    BY <1>1, <2>2 DEF Shifts
<1>6. CASE /\ \E x \in Incident : Row(r, x) /\ incidents' = [incidents EXCEPT ![IdOf(r)] = x]
           /\ r.inc.status = "received" /\ r.keep
           /\ Same(r, s) /\ s.inc = r.inc /\ s.pc = "decide"
  <2>2. Writes(h, s)
    BY <1>2, <1>6 DEF Writes
  <2> QED
    BY <1>1, <2>2 DEF Shifts
<1> QED
  BY <1>1, <1>3, <1>4, <1>5, <1>6 DEF WriteEffect

LEMMA DecideShifts ==
    ASSUME Recorded, NEW h \in Handler, OwnAt(h), Decide(h)
    PROVE  \E s \in RequestType : Shifts(h, s)
<1> DEFINE r == req[h]
<1>1. PICK s \in RequestType : Put(h, s) /\ InItem(r) /\ DecideEffect(r, s)
  BY DecideDoes DEF Recorded
<1>2. /\ r.pc = "decide" /\ decisions' = decisions /\ overlapped' = overlapped
      /\ r.op \in CreateOps => r.keep
  BY DEF Decide, Recorded, Shaped, Shape
<1>3. r.op \in CreateOps \/ r.op \in EvaluateOps
  BY <1>1 DEF InItem, Writing
<1>4. PICK x \in Incident :
        /\ x.sub = r.inc.sub /\ x.status = "received"
        /\ \/ FailEffect(r, s, x)
           \/ Same(r, s) /\ s.inc = x /\ s.pc = "store" /\ Published(IdOf(r), x)
           \/ ~r.keep /\ Ended(r, s, "ok") /\ Published(IdOf(r), x)
  BY <1>1 DEF DecideEffect
<1>5. CASE FailEffect(r, s, x)
  BY <1>1, <1>2, <1>4, <1>5, FailShifts
<1>6. CASE Same(r, s) /\ s.inc = x /\ s.pc = "store" /\ Published(IdOf(r), x)
  <2>1. CASE r.op \in CreateOps
    <3>1. Creates(h, s)
      BY <1>2, <1>4, <1>6, <2>1 DEF Creates
    <3> QED
      BY <1>1, <3>1 DEF Shifts
  <2>2. CASE r.op \in EvaluateOps
    <3>1. incidents' = incidents
      BY <1>1, <1>4, <1>6, <2>2, NoRowOfEvaluation
    <3>2. Evaluates(h, s)
      BY <1>2, <1>6, <2>2, <3>1 DEF Evaluates
    <3> QED
      BY <1>1, <3>2 DEF Shifts
  <2> QED
    BY <1>3, <2>1, <2>2
<1>7. CASE ~r.keep /\ Ended(r, s, "ok") /\ Published(IdOf(r), x)
  <2>1. r.op \in EvaluateOps
    BY <1>2, <1>3, <1>7
  <2>2. incidents' = incidents
    BY <1>1, <1>4, <1>7, <2>1, NoRowOfEvaluation
  <2>3. Evaluates(h, s)
    BY <1>2, <1>7, <2>1, <2>2 DEF Evaluates, Outcomes
  <2> QED
    BY <1>1, <2>3 DEF Shifts
<1> QED
  BY <1>4, <1>5, <1>6, <1>7

LEMMA StoreShifts ==
    ASSUME Recorded, NEW h \in Handler, Store(h)
    PROVE  \E s \in RequestType : Shifts(h, s)
<1> DEFINE r == req[h]
<1>1. PICK s \in RequestType : Put(h, s) /\ InItem(r) /\ StoreEffect(r, s)
  BY StoreDoes DEF Store, Recorded
<1>2. Appended(r) /\ r.pc = "store" /\ overlapped' = overlapped /\ r.inc \in Incident
  BY <1>1, Busy DEF Store, Appended, Recorded
<1>3. CASE /\ r.op \in CreateOps /\ Same(r, s) /\ s.inc = [r.inc EXCEPT !.status = "evaluated"]
           /\ s.pc = "load" /\ Published(IdOf(r), s.inc)
  <2>1. s.inc.status = "evaluated" /\ s.inc.payload = r.inc.payload /\ s.inc.context = r.inc.context
    BY <1>2, <1>3 DEF Incident
  <2>2. Creates(h, s)
    BY <1>2, <1>3, <2>1 DEF Creates
  <2> QED
    BY <1>1, <2>2 DEF Shifts
<1>4. CASE r.op \in EvaluateOps /\ Ended(r, s, "ok") /\ incidents' = incidents
  <2>1. Evaluates(h, s)
    BY <1>2, <1>4 DEF Evaluates, Outcomes
  <2> QED
    BY <1>1, <2>1 DEF Shifts
<1> QED
  BY <1>1, <1>3, <1>4 DEF StoreEffect

LEMMA FaultShifts ==
    ASSUME Recorded, NEW h \in Handler, OwnAt(h), TransactionFails(h)
    PROVE  \E s \in RequestType : Shifts(h, s)
<1> DEFINE r == req[h]
<1>1. PICK s \in RequestType : Put(h, s) /\ InItem(r) /\ FaultEffect(r, s)
  BY FaultDoes DEF Recorded
<1>2. faults' # 0 /\ overlapped' = overlapped
  <2>1. faults \in Nat /\ faults' = faults + 1
    BY IncidentConstants DEF TransactionFails, Recorded, Shaped, Typed
  <2> QED
    BY <2>1 DEF TransactionFails
<1>3. CASE r.pc \in {"load", "write"} /\ Ended(r, s, "failed") /\ UNCHANGED store
  <2>1. Leaves(h, s)
    BY <1>2, <1>3 DEF Leaves
  <2> QED
    BY <1>1, <2>1 DEF Shifts
<1>4. CASE /\ r.pc = "write" /\ Ended(r, s, "failed") /\ decisions' = decisions
           /\ \E x \in Incident : Row(r, x) /\ incidents' = [incidents EXCEPT ![IdOf(r)] = x]
  <2>1. Writes(h, s)
    BY <1>2, <1>4 DEF Writes, Outcomes
  <2> QED
    BY <1>1, <2>1 DEF Shifts
<1>5. CASE /\ r.pc = "store" /\ FailEffect(r, s, r.inc)
           /\ \/ decisions' = decisions
              \/ decisions' = [decisions EXCEPT ![IdOf(r)] = Append(@, r.dec)]
  <2>1. r.inc \in Incident
    BY <1>1, Busy DEF Recorded
  <2> QED
    BY <1>1, <1>2, <1>5, <2>1, FailShifts DEF Appended
<1> QED
  BY <1>1, <1>3, <1>4, <1>5 DEF FaultEffect

\* The invariant of this part: the rows of creations that nobody overlaps.
Separate == \A h \in Handler : AloneAt(h) /\ OwnAt(h)

Grounded == Recorded /\ Answers /\ Prefix /\ Separate

LEMMA WorkShifts ==
    ASSUME Grounded, NEW h \in Handler, Works(h)
    PROVE  \E s \in RequestType : Shifts(h, s) /\ Moves(h, s) /\ Traces(h, s)
<1>0. req \in [Handler -> RequestType] /\ OwnAt(h)
  BY DEF Grounded, Recorded, Shaped, Typed, Separate
<1>1. PICK s \in RequestType : Shifts(h, s)
  BY <1>0, LoadShifts, WriteShifts, DecideShifts, StoreShifts, FaultShifts DEF Works, Grounded
<1>2. PICK t \in RequestType : Tells(h, t) /\ Moves(h, t) /\ Traces(h, t)
  BY WorkTells DEF Grounded
<1>3. req'[h] = s /\ req'[h] = t
  BY <1>0, <1>1, <1>2 DEF Tells, Shifts, Put
<1> QED
  BY <1>1, <1>2, <1>3

\* Statements of an item that has written its row go on having written it.
LEMMA StaysWritten ==
    ASSUME Recorded, NEW h \in Handler, NEW s \in RequestType, Shifts(h, s), Same(req[h], s)
    PROVE  /\ Written(req[h]) => Written(s)
           /\ incidents' # incidents => Written(s)
           /\ Unread(s) => s = req[h] \/ Unread(req[h])
<1> DEFINE r == req[h]
<1>0. s.op = r.op /\ s.done = r.done /\ r.done \in Seq(Outcomes)
  BY Busy DEF Same, Shifts, Recorded, AtWork
<1>1. CASE Loads(h, s)
  BY <1>0, <1>1 DEF Loads, LoadEffect, Written, Unread, store
<1>2. CASE \E outcome \in Outcomes : Ended(r, s, outcome)
  <2>1. PICK outcome \in Outcomes : Ended(r, s, outcome)
    BY <1>2
  <2>2. Len(s.done) = Len(r.done) + 1
    BY <1>0, <2>1, AppendIs DEF Ended
  <2> QED
    BY <1>0, <2>2
<1>3. CASE Writes(h, s) /\ s.pc = "decide"
  <2>1. r.op \in CreateOps
    BY <1>3 DEF Writes, Recorded, Shaped, Shape
  <2> QED
    BY <1>0, <1>3, <2>1 DEF Written, Unread
<1>4. CASE Creates(h, s)
  BY <1>0, <1>4 DEF Creates, Written, Unread
<1>5. CASE Evaluates(h, s) /\ s.pc = "store"
  <2>1. ~Written(r)
    BY <1>5 DEF Evaluates, Written, CreateOps, EvaluateOps
  <2> QED
    BY <1>0, <1>5, <2>1 DEF Evaluates, Written, Unread
<1> QED
  BY <1>1, <1>2, <1>3, <1>4, <1>5 DEF Shifts, Leaves, Writes, Evaluates, Outcomes

\* What changes in the incidents is the row of the item, once it is written.
LEMMA RowsChange ==
    ASSUME Grounded, NEW h \in Handler, NEW s \in RequestType, Shifts(h, s), Traces(h, s),
           NEW j \in IncidentId, incidents'[j] # incidents[j]
    PROVE  /\ j = IdOf(req[h]) /\ incidents'[j] \in Incident /\ incidents'[j].sub = req[h].inc.sub
           /\ req[h].op \in CreateOps /\ req[h].pc \in {"write", "decide", "store"}
<1>1. incidents \in [IncidentId -> Incident \cup {NoIncident}] /\ IdOf(req[h]) \in IncidentId
  BY Busy DEF Grounded, Recorded, Shaped, Typed, Traces
<1>2. j = IdOf(req[h]) /\ incidents'[j] \in Incident /\ incidents'[j].sub = req[h].inc.sub
  BY <1>1 DEF Traces
<1>3. Writes(h, s) \/ Creates(h, s)
  BY DEF Shifts, Loads, Leaves, Evaluates, store
<1>4. req[h].op \in CreateOps /\ req[h].pc \in {"write", "decide", "store"}
  BY <1>3 DEF Writes, Creates, Grounded, Recorded, Shaped, Shape
<1> QED
  BY <1>2, <1>4

LEMMA OwnKept ==
    ASSUME Grounded, NEW h \in Handler, NEW s \in RequestType, Shifts(h, s), Traces(h, s),
           NEW g \in Handler, NEW t, t = IF g = h THEN s ELSE req[g], InItem(t),
           NEW j \in IncidentId, incidents'[j] # NoIncident, incidents'[j].sub = t.inc.sub
    PROVE  j = IdOf(t) /\ Written(t)
<1> DEFINE r == req[h]
<1>0. /\ InItem(r) /\ r.inc.sub = Sub(r) /\ r.done \in Seq(Outcomes) /\ Len(r.done) \in Nat
      /\ Writing(r) /\ r.pc # "answer"
  BY Busy DEF Traces, Grounded, Recorded, AtWork, InItem
<1>1. CASE g # h
  <2>1. t = req[g] /\ OwnAt(g)
    BY <1>1 DEF Grounded, Separate
  <2>2. CASE incidents'[j] = incidents[j]
    BY <2>1, <2>2 DEF OwnAt
  <2>3. CASE incidents'[j] # incidents[j]
    <3>1. t.inc.sub = r.inc.sub
      BY <2>3, RowsChange
    <3>2. t.inc.sub = Sub(t) /\ Writing(t)
      BY <2>1, Busy DEF Grounded, Recorded, InItem
    <3>3. t.n = r.n
      BY <1>0, <3>1, <3>2 DEF Sub
    <3> QED
      BY <1>0, <1>1, <2>1, <3>2, <3>3 DEF Grounded, Recorded, Numbered
  <2> QED
    BY <2>2, <2>3
<1>2. CASE g = h /\ Same(r, s)
  <2>1. t = s /\ IdOf(s) = IdOf(r) /\ s.inc.sub = r.inc.sub
    BY <1>2, SameSub DEF Same
  <2>2. CASE incidents'[j] = incidents[j]
    <3>1. j = IdOf(r) /\ Written(r)
      BY <1>0, <2>1, <2>2 DEF Grounded, Separate, OwnAt
    <3> QED
      BY <1>2, <2>1, <3>1, StaysWritten DEF Grounded
  <2>3. CASE incidents'[j] # incidents[j]
    <3>1. j = IdOf(r) /\ incidents' # incidents
      BY <2>3, RowsChange
    <3> QED
      BY <1>2, <2>1, <3>1, StaysWritten DEF Grounded
  <2> QED
    BY <2>2, <2>3
<1>3. CASE g = h /\ \E outcome \in Outcomes : Ended(r, s, outcome)
  <2>1. PICK outcome \in Outcomes : Ended(r, s, outcome)
    BY <1>3
  <2>2. Len(s.done) = Len(r.done) + 1 /\ s.n = r.n
    BY <1>0, <2>1, AppendIs DEF Ended
  <2>3. t = s /\ s.inc.sub = Sub(s)
    BY <1>3, <2>1 DEF Ended, AtStart, InItem
  <2>4. incidents'[j].sub.n = r.n /\ incidents'[j].sub.k = Len(r.done) + 2
    BY <1>0, <2>2, <2>3 DEF Sub
  <2>5. CASE incidents'[j] = incidents[j]
    <3>1. incidents[j].sub.k <= Len(r.done) + 1
      BY <1>0, <2>4, <2>5 DEF Grounded, Prefix, Bounded, Extent
    <3>2. PICK m \in Nat : m = Len(r.done)
      BY <1>0
    <3>3. m + 2 <= m + 1
      BY <2>4, <2>5, <3>1, <3>2
    <3> QED
      BY <3>3
  <2>6. CASE incidents'[j] # incidents[j]
    <3>1. incidents'[j].sub.k = Len(r.done) + 1
      BY <1>0, <2>6, RowsChange DEF Sub
    <3> QED
      BY <1>0, <2>4, <3>1
  <2> QED
    BY <2>5, <2>6
<1> QED
  BY <1>1, <1>2, <1>3 DEF Traces

\* A creation under way.
UnderWay(r) == r.op \in CreateOps /\ r.pc # "answer"

LEMMA OverlapGrows ==
    ASSUME NEW h \in Handler, NEW s \in RequestType, Shifts(h, s)
    PROVE  overlapped \subseteq overlapped'
  BY DEF Shifts, Loads, Leaves, Writes, Creates, Evaluates

LEMMA ApartFrom ==
    ASSUME Grounded, NEW h \in Handler, NEW s \in RequestType, Shifts(h, s), Traces(h, s),
           NEW g \in Handler \ {h}, UnderWay(s), UnderWay(req[g]), IdOf(s) = IdOf(req[g]),
           IdOf(s) \notin overlapped'
    PROVE  Unread(s) \/ Unread(req[g])
<1> DEFINE r == req[h]
<1>1. CASE \E outcome \in Outcomes : Ended(r, s, outcome)
  BY <1>1 DEF Ended, AtStart, Unread, UnderWay
<1>2. CASE Same(r, s)
  <2>1. IdOf(r) = IdOf(s) /\ r.op \in CreateOps /\ r.pc # "answer"
    BY <1>2, SameSub DEF Same, UnderWay, Traces, InItem
  <2>2. IdOf(r) \notin overlapped /\ Creating(g, IdOf(r))
    BY <2>1, OverlapGrows DEF Creating, UnderWay
  <2>3. Unread(req[g]) \/ Unread(r)
    BY <2>1, <2>2 DEF Grounded, Separate, AloneAt
  <2>4. ASSUME Unread(r) PROVE \E outcome \in Outcomes : Ended(r, s, outcome)
    <3>1. r.pc = "load"
      BY <2>4 DEF Unread
    <3>2. Loads(h, s) \/ Leaves(h, s)
      BY <3>1 DEF Shifts, Writes, Creates, Evaluates
    <3>3. ~Loads(h, s)
      BY <2>1, <2>2 DEF Loads
    <3> QED
      BY <3>2, <3>3 DEF Leaves, Outcomes
  <2> QED
    BY <1>1, <2>3, <2>4
<1> QED
  BY <1>1, <1>2 DEF Traces

\* Nobody else writes the row of a creation that has read it.
LEMMA RowStands ==
    ASSUME Grounded, NEW h \in Handler, NEW s \in RequestType, Shifts(h, s), Traces(h, s),
           NEW g \in Handler \ {h}, UnderWay(req[g]), ~Unread(req[g]), IdOf(req[g]) \notin overlapped'
    PROVE  incidents'[IdOf(req[g])] = incidents[IdOf(req[g])]
<1> DEFINE j == IdOf(req[g])
<1>1. j \in IncidentId
  BY Busy DEF UnderWay, Grounded, Recorded, InItem, Writing
<1>2. SUFFICES ASSUME incidents'[j] # incidents[j] PROVE FALSE
  OBVIOUS
<1>3. j = IdOf(req[h]) /\ req[h].op \in CreateOps /\ req[h].pc \in {"write", "decide", "store"}
  BY <1>1, <1>2, RowsChange
<1>4. Creating(h, j) /\ ~Unread(req[h])
  BY <1>3 DEF Creating, Unread
<1>5. j \notin overlapped /\ AloneAt(g)
  BY OverlapGrows DEF Grounded, Separate
<1> QED
  BY <1>4, <1>5 DEF AloneAt, UnderWay

\* What the handler of the step knows of its own row.
LEMMA AloneGoesOn ==
    ASSUME Grounded, NEW h \in Handler, NEW s \in RequestType, Shifts(h, s), Traces(h, s),
           UnderWay(s), IdOf(s) \notin overlapped'
    PROVE  /\ s.pc = "write" => incidents'[IdOf(s)] = s.seen
           /\ Written(s) =>
                /\ incidents'[IdOf(s)] # NoIncident /\ incidents'[IdOf(s)].sub = s.inc.sub
                /\ incidents'[IdOf(s)].status = "received" \/ incidents'[IdOf(s)] = s.inc
<1> DEFINE r == req[h]  i == IdOf(req[h])
<1>0. /\ i \in IncidentId /\ r.inc \in Incident /\ InItem(r) /\ Shape(r)
      /\ incidents \in [IncidentId -> Incident \cup {NoIncident}]
  BY Busy DEF Traces, Grounded, Recorded, Shaped, Typed
<1>1. CASE \E outcome \in Outcomes : Ended(r, s, outcome)
  BY <1>1 DEF Ended, AtStart, Written, UnderWay
<1>2. CASE Same(r, s)
  <2>1. IdOf(s) = i /\ s.inc.sub = r.inc.sub /\ r.op \in CreateOps /\ r.pc # "answer" /\ s.op = r.op
    BY <1>0, <1>2, SameSub DEF Same, UnderWay, InItem
  <2>2. /\ r.pc = "write" => incidents[i] = r.seen
        /\ Written(r) => /\ incidents[i] # NoIncident /\ incidents[i].sub = r.inc.sub
                         /\ incidents[i].status = "received" \/ incidents[i] = r.inc
    BY <2>1, OverlapGrows DEF Grounded, Separate, AloneAt
  <2>3. CASE Loads(h, s)
    <3>1. /\ incidents' = incidents /\ s.inc = r.inc /\ s.seen = incidents[i] /\ s.pc = "write"
          /\ r.pc = "load"
      BY <2>3 DEF Loads, LoadEffect, store
    <3>2. Written(s) => Written(r)
      BY <2>1, <3>1 DEF Written
    <3> QED
      BY <2>1, <2>2, <3>1, <3>2
  <2>4. CASE Writes(h, s) /\ s.pc = "decide"
    <3>1. incidents'[i] = r.inc /\ s.inc = r.inc
      <4>1. PICK x \in Incident : Row(r, x) /\ incidents' = [incidents EXCEPT ![i] = x]
        BY <2>4 DEF Writes
      <4>2. s.inc = r.inc \/ \E outcome \in Outcomes : Ended(r, s, outcome)
        BY <2>4 DEF Writes
      <4>3. s.inc = r.inc
        BY <1>0, <2>1, <2>4, <4>2 DEF Ended, AtStart
      <4>4. x = r.inc
        BY <2>2, <2>4, <4>1 DEF Row, Writes
      <4> QED
        BY <1>0, <4>1, <4>3, <4>4
    <3>2. incidents'[i] # NoIncident
      BY <1>0, <3>1, NoIncidentIs
    <3> QED
      BY <2>1, <2>4, <3>1, <3>2
  <2>5. CASE Creates(h, s)
    <3>1. /\ Written(r) /\ r.inc.status = "received" /\ s.pc # "write" /\ s.inc \in Incident
          /\ Published(i, s.inc)
      BY <1>0, <1>2, <2>5 DEF Creates, Written, Shape, Same
    <3>2. incidents[i] # NoIncident /\ incidents[i].sub = s.inc.sub /\ incidents[i].status = "received"
      BY <2>1, <2>2, <3>1
    <3>3. incidents'[i] = s.inc \/ incidents'[i] = incidents[i]
      BY <1>0, <3>1 DEF Published
    <3>4. s.inc # NoIncident
      BY <3>1, NoIncidentIs
    <3> QED
      BY <2>1, <3>1, <3>2, <3>3, <3>4
  <2> QED
    <3>1. ~Evaluates(h, s)
      BY <2>1 DEF Evaluates, CreateOps, EvaluateOps
    <3> QED
      BY <1>1, <2>3, <2>4, <2>5, <3>1 DEF Shifts, Leaves, Writes, Outcomes
<1> QED
  BY <1>1, <1>2 DEF Traces

LEMMA SeparateWork ==
    ASSUME Grounded, NEW h \in Handler, Works(h)
    PROVE  Separate'
<1>0. PICK s \in RequestType : Shifts(h, s) /\ Traces(h, s)
  BY WorkShifts
<1>1. \A g \in Handler : req'[g] = IF g = h THEN s ELSE req[g]
  BY <1>0 DEF Traces, Put, Grounded, Recorded, Shaped, Typed
<1>2. ASSUME NEW g \in Handler PROVE OwnAt(g)'
  <2>1. PICK t : t = req'[g] /\ t = IF g = h THEN s ELSE req[g]
    BY <1>1
  <2>2. InItem(t) => \A j \in IncidentId :
          incidents'[j] # NoIncident /\ incidents'[j].sub = t.inc.sub => j = IdOf(t) /\ Written(t)
    BY <1>0, <2>1, OwnKept
  <2> QED
    BY <2>1, <2>2 DEF OwnAt, InItem, Writing, IdOf, Written
<1>3. ASSUME NEW g \in Handler, NEW t, t = req'[g], UnderWay(t), IdOf(t) \notin overlapped'
      PROVE  /\ \A f \in Handler \ {g} : UnderWay(req'[f]) /\ IdOf(req'[f]) = IdOf(t) =>
                  Unread(req'[f]) \/ Unread(t)
             /\ t.pc = "write" => incidents'[IdOf(t)] = t.seen
             /\ Written(t) =>
                  /\ incidents'[IdOf(t)] # NoIncident /\ incidents'[IdOf(t)].sub = t.inc.sub
                  /\ incidents'[IdOf(t)].status = "received" \/ incidents'[IdOf(t)] = t.inc
  <2>1. CASE g = h
    <3>1. t = s
      BY <1>1, <1>3, <2>1
    <3>2. ASSUME NEW f \in Handler \ {h}, UnderWay(req'[f]), IdOf(req'[f]) = IdOf(t)
          PROVE  Unread(req'[f]) \/ Unread(t)
      <4>1. req'[f] = req[f]
        BY <1>1
      <4> QED
        BY <1>0, <1>3, <3>1, <3>2, <4>1, ApartFrom
    <3> QED
      BY <1>0, <1>3, <2>1, <3>1, <3>2, AloneGoesOn
  <2>2. CASE g # h
    <3>1. t = req[g] /\ IdOf(t) \notin overlapped /\ AloneAt(g)
      BY <1>0, <1>1, <1>3, <2>2, OverlapGrows DEF Grounded, Separate
    <3>2. ASSUME NEW f \in Handler \ {g}, UnderWay(req'[f]), IdOf(req'[f]) = IdOf(t)
          PROVE  Unread(req'[f]) \/ Unread(t)
      <4>1. CASE f = h
        <5>1. req'[f] = s
          BY <1>1, <4>1
        <5> QED
          BY <1>0, <1>3, <2>2, <3>1, <3>2, <5>1, ApartFrom
      <4>2. CASE f # h
        <5>1. req'[f] = req[f]
          BY <1>1, <4>2
        <5>2. Creating(f, IdOf(t))
          BY <3>2, <5>1 DEF Creating, UnderWay
        <5> QED
          BY <1>3, <3>1, <5>1, <5>2 DEF AloneAt, UnderWay
      <4> QED
        BY <4>1, <4>2
    <3>3. ~Unread(t) => incidents'[IdOf(t)] = incidents[IdOf(t)]
      BY <1>0, <1>3, <2>2, <3>1, RowStands
    <3>4. t.pc = "write" \/ Written(t) => ~Unread(t)
      BY DEF Unread, Written
    <3>5. /\ t.pc = "write" => incidents[IdOf(t)] = t.seen
          /\ Written(t) =>
                /\ incidents[IdOf(t)] # NoIncident /\ incidents[IdOf(t)].sub = t.inc.sub
                /\ incidents[IdOf(t)].status = "received" \/ incidents[IdOf(t)] = t.inc
      BY <1>3, <3>1 DEF AloneAt, UnderWay
    <3> QED
      BY <3>2, <3>3, <3>4, <3>5
  <2> QED
    BY <2>1, <2>2
<1>4. ASSUME NEW g \in Handler PROVE AloneAt(g)'
  <2>1. PICK t : t = req'[g]
    OBVIOUS
  <2>2. ASSUME UnderWay(t), IdOf(t) \notin overlapped'
        PROVE  /\ \A f \in Handler \ {g} : UnderWay(req'[f]) /\ IdOf(req'[f]) = IdOf(t) =>
                    Unread(req'[f]) \/ Unread(t)
               /\ t.pc = "write" => incidents'[IdOf(t)] = t.seen
               /\ Written(t) =>
                    /\ incidents'[IdOf(t)] # NoIncident /\ incidents'[IdOf(t)].sub = t.inc.sub
                    /\ incidents'[IdOf(t)].status = "received" \/ incidents'[IdOf(t)] = t.inc
    BY <1>3, <2>1, <2>2
  <2> QED
    BY <2>1, <2>2 DEF AloneAt, Creating, Unread, Written, IdOf, UnderWay
<1> QED
  BY <1>2, <1>4 DEF Separate

LEMMA SeparateSubmit ==
    ASSUME Grounded, NEW h \in Handler, Submit(h)
    PROVE  Separate'
<1>0. PICK s \in RequestType : Put(h, s) /\ AtWork(s) /\ AtStart(s) /\ s.n = started + 1 /\ s.done = <<>>
  BY SubmitDoes DEF Grounded, Recorded
<1>1. UNCHANGED <<backend, incidents, decisions, faults, overlapped>>
  BY DEF Submit
<1>2. /\ \A g \in Handler : req'[g] = IF g = h THEN s ELSE req[g]
      /\ incidents \in [IncidentId -> Incident \cup {NoIncident}] /\ started \in Nat
  BY <1>0, IncidentConstants DEF Put, Grounded, Recorded, Shaped, Typed
<1>3. s.op \in CreateOps => Unread(s) /\ ~Written(s) /\ s.pc # "write"
  BY <1>0 DEF AtStart, Unread, Written
<1>4. \A j \in IncidentId : incidents[j] # NoIncident => incidents[j].sub # s.inc.sub
  <2>1. s.inc.sub.n = started + 1
    BY <1>0 DEF AtStart, Sub
  <2>2. \A j \in IncidentId : incidents[j] # NoIncident =>
          incidents[j].sub.n \in Nat /\ incidents[j].sub.n <= started
    BY <1>2, SubTyped DEF Grounded, Prefix
  <2> QED
    BY <1>2, <2>1, <2>2
<1>5. ASSUME NEW g \in Handler PROVE OwnAt(g)'
  <2>1. CASE g = h
    BY <1>1, <1>2, <1>4, <2>1 DEF OwnAt
  <2>2. CASE g # h
    BY <1>1, <1>2, <2>2 DEF Grounded, Separate, OwnAt, InItem, Writing, IdOf, Written
  <2> QED
    BY <2>1, <2>2
<1>6. ASSUME NEW g \in Handler PROVE AloneAt(g)'
  <2>1. CASE g = h
    BY <1>1, <1>2, <1>3, <2>1 DEF AloneAt, Unread, Written, IdOf
  <2>2. CASE g # h
    BY <1>1, <1>2, <1>3, <2>2 DEF Grounded, Separate, AloneAt, Unread, Written, Creating, IdOf
  <2> QED
    BY <2>1, <2>2
<1> QED
  BY <1>5, <1>6 DEF Separate

LEMMA SeparateReads ==
    ASSUME Grounded, NEW h \in Handler, Reads(h)
    PROVE  Separate'
<1>0. PICK s \in RequestType :
        Put(h, s) /\ ~Writing(s) /\ UNCHANGED <<backend, incidents, decisions, faults, overlapped>>
  BY ReadsShaped DEF Grounded, Recorded
<1>2. \A g \in Handler : req'[g] = IF g = h THEN s ELSE req[g]
  BY <1>0 DEF Put, Grounded, Recorded, Shaped, Typed
<1>3. s.op \notin CreateOps /\ ~InItem(s)
  BY <1>0 DEF Writing, InItem
<1>5. ASSUME NEW g \in Handler PROVE OwnAt(g)'
  <2>1. CASE g = h
    BY <1>2, <1>3, <2>1 DEF OwnAt, InItem, Writing
  <2>2. CASE g # h
    BY <1>0, <1>2, <2>2 DEF Grounded, Separate, OwnAt, InItem, Writing, IdOf, Written
  <2> QED
    BY <2>1, <2>2
<1>6. ASSUME NEW g \in Handler PROVE AloneAt(g)'
  <2>1. CASE g = h
    BY <1>2, <1>3, <2>1 DEF AloneAt
  <2>2. CASE g # h
    BY <1>0, <1>2, <1>3, <2>2 DEF Grounded, Separate, AloneAt, Unread, Written, Creating, IdOf
  <2> QED
    BY <2>1, <2>2
<1> QED
  BY <1>5, <1>6 DEF Separate

LEMMA SeparateStep ==
    ASSUME Grounded, [Next]_vars
    PROVE  Separate'
<1>1. CASE Crash
  <2>1. \A h \in Handler : req'[h] = Idle
    BY <1>1 DEF Crash
  <2>2. Idle.op \notin CreateOps /\ ~InItem(Idle)
    BY IdleIs DEF Writing, InItem
  <2> QED
    BY <2>1, <2>2 DEF Separate, AloneAt, OwnAt, InItem, Writing
<1>2. CASE Activate \/ UNCHANGED vars
  <2>1. UNCHANGED <<backend, incidents, decisions, faults, overlapped, req>>
    BY <1>2 DEF Activate, vars
  <2> QED
    BY <2>1 DEF Grounded, Separate, OwnAt, AloneAt, InItem, Writing, IdOf, Written, Unread, Creating
<1> QED
  BY <1>1, <1>2, SeparateWork, SeparateSubmit, SeparateReads DEF Next, Step, Works, Reads

LEMMA GroundedStep == Grounded /\ [Next]_vars => Grounded'
  BY RecordedStep, AnswersStep, PrefixStep, SeparateStep DEF Grounded, Recorded

LEMMA GroundedInit == Init => Grounded
<1>1. Init => Recorded
  BY RecordedInit
<1>2. Init => Answers
  BY IdleIs DEF Init, Answers, AnswersAt, Backed, Told, InTable, InItem, Writing
<1>3. Init => Prefix
  BY IdleIs DEF Init, Prefix, Successful, Bounded, Writing
<1>4. Init => Separate
  BY IdleIs DEF Init, Separate, AloneAt, OwnAt, InItem, Writing
<1> QED
  BY <1>1, <1>2, <1>3, <1>4 DEF Grounded

-----------------------------------------------------------------------------
(* The status of an incident is true of the decisions on record.           *)

\* A row that says "evaluated" has a decision, of its own submission if nobody
\* overlapped; one that says "failed" has none of its own, without faults.
RowTrue(i) ==
    LET x == incidents[i]  made == ToSet(decisions[i]) IN
    /\ x.status = "evaluated" => made # {}
    /\ i \notin overlapped =>
         /\ x.status = "evaluated" => \E d \in made : d.sub = x.sub
         /\ x.status = "failed" /\ faults = 0 => \A d \in made : d.sub # x.sub

Rows == \A i \in IncidentId : RowTrue(i)

\* A request has no decision on record for an item it has not decided.
LEMMA NoneYet ==
    ASSUME Recorded, NEW h \in Handler, InItem(req[h]), Reach(req[h]) = Len(req[h].done),
           NEW i \in IncidentId, NEW d \in ToSet(decisions[i])
    PROVE  d.sub # req[h].inc.sub
<1>1. /\ req[h].inc.sub = Sub(req[h]) /\ Len(req[h].done) \in Nat /\ Writing(req[h])
  BY Busy DEF Recorded, AtWork
<1>2. PICK k \in DOMAIN decisions[i] : d = decisions[i][k]
  BY DEF ToSet
<1>3. d.sub.n = req[h].n => d.sub.k <= Len(req[h].done)
  BY <1>1, <1>2 DEF Recorded, OnRecord
<1>4. Sub(req[h]).n = req[h].n /\ Sub(req[h]).k = Len(req[h].done) + 1
  BY DEF Sub
<1>5. PICK m \in Nat : m = Len(req[h].done)
  BY <1>1
<1>6. ~(m + 1 <= m)
  OBVIOUS
<1> QED
  BY <1>1, <1>3, <1>4, <1>5, <1>6

\* The write of a creation nobody overlaps makes the row the handler's object.
LEMMA WritesItsObject ==
    ASSUME Grounded, NEW h \in Handler, NEW s \in RequestType, Shifts(h, s), Writes(h, s),
           IdOf(req[h]) \notin overlapped'
    PROVE  incidents'[IdOf(req[h])] = req[h].inc
<1> DEFINE r == req[h]  i == IdOf(req[h])
<1>1. PICK x \in Incident : Row(r, x) /\ incidents' = [incidents EXCEPT ![i] = x]
  BY DEF Writes
<1>2. i \in IncidentId /\ incidents \in [IncidentId -> Incident \cup {NoIncident}]
  BY Busy DEF Shifts, Grounded, Recorded, Shaped, Typed
<1>3. r.pc = "write" /\ r.op \in CreateOps
  BY DEF Writes, Grounded, Recorded, Shaped, Shape
<1>4. incidents[i] = r.seen
  BY <1>3, OverlapGrows DEF Grounded, Separate, AloneAt
<1> QED
  BY <1>1, <1>2, <1>4 DEF Row

LEMMA RowsWork ==
    ASSUME Grounded, Rows, NEW h \in Handler, NEW s \in RequestType,
           Shifts(h, s), Traces(h, s), Moves(h, s), faults' \in Nat, NEW i \in IncidentId
    PROVE  RowTrue(i)'
<1> DEFINE r == req[h]
<1>0. /\ InItem(r) /\ IdOf(r) \in IncidentId /\ r.inc \in Incident /\ r.inc.sub = Sub(r)
      /\ Shape(r) /\ incidents \in [IncidentId -> Incident \cup {NoIncident}]
  BY Busy DEF Traces, Grounded, Recorded, Shaped, Typed
<1>1. /\ \A j \in IncidentId : ToSet(decisions[j]) \subseteq ToSet(decisions'[j])
      /\ \A j \in IncidentId : \A d \in ToSet(decisions'[j]) :
           d \in ToSet(decisions[j]) \/ (j = IdOf(r) /\ d = r.dec /\ Appended(r))
      /\ Appended(r) => r.dec \in ToSet(decisions'[IdOf(r)])
  BY RecordGrows DEF Grounded
<1>2. (i \notin overlapped' => i \notin overlapped) /\ (faults' = 0 => faults = 0)
  <2>1. faults \in Nat /\ faults' \in Nat /\ faults <= faults'
    BY IncidentConstants DEF Moves, Grounded, Recorded, Shaped, Typed
  <2> QED
    BY <2>1, OverlapGrows
<1>3. RowTrue(i)
  BY DEF Rows
<1>4. Appended(r) => r.pc = "store" /\ r.dec.sub = r.inc.sub
  BY <1>0, DecisionIsNew DEF Appended, Grounded, Recorded
<1>5. CASE incidents'[i] = incidents[i]
  <2>1. ASSUME i \notin overlapped', incidents[i].status = "failed", faults' = 0,
               NEW d \in ToSet(decisions'[i]), d.sub = incidents[i].sub
        PROVE  FALSE
    <3>1. i = IdOf(r) /\ d = r.dec /\ Appended(r)
      BY <1>1, <1>2, <1>3, <2>1 DEF RowTrue
    <3>2. incidents[i] # NoIncident /\ incidents[i].sub = r.inc.sub
      BY <1>4, <2>1, <3>1, NoIncidentIs
    <3>3. Written(r) /\ r.inc.status = "received" /\ r.pc = "store"
      BY <1>0, <1>4, <3>1, <3>2 DEF Grounded, Separate, OwnAt, Shape
    <3>4. incidents[i].status = "received" \/ incidents[i] = r.inc
      BY <1>2, <2>1, <3>1, <3>3 DEF Grounded, Separate, AloneAt, Written
    <3> QED
      BY <2>1, <3>3, <3>4
  <2> QED
    BY <1>1, <1>2, <1>3, <1>5, <2>1 DEF RowTrue
<1>6. CASE incidents'[i] # incidents[i] /\ Writes(h, s)
  <2>1. i = IdOf(r)
    BY <1>6, RowsChange
  <2>2. PICK x \in Incident : Row(r, x) /\ incidents'[i] = x
    BY <1>0, <1>6, <2>1 DEF Writes
  <2>3. decisions' = decisions /\ r.pc = "write"
    BY <1>6 DEF Writes
  <2>4. r.inc.status = "evaluated" => \E d \in ToSet(decisions[i]) : d.sub = r.inc.sub
    BY <1>0, <2>1 DEF Grounded, Answers, AnswersAt, Backed
  <2>5. x.status = "evaluated" => ToSet(decisions[i]) # {}
    BY <1>3, <2>1, <2>2, <2>4 DEF Row, RowTrue
  <2>6. i \notin overlapped' => x = r.inc
    BY <1>6, <2>1, <2>2, WritesItsObject
  <2>7. r.inc.status = "failed" /\ faults = 0 => \A d \in ToSet(decisions[i]) : d.sub # r.inc.sub
    BY <1>0, NoneYet DEF Grounded, Reach
  <2> QED
    BY <1>2, <2>2, <2>3, <2>4, <2>5, <2>6, <2>7 DEF RowTrue
<1>7. CASE incidents'[i] # incidents[i] /\ Creates(h, s)
  <2>1. i = IdOf(r) /\ incidents'[i] = s.inc /\ s.inc.sub = r.inc.sub
    BY <1>0, <1>7, RowsChange DEF Creates, Published, Same
  <2>2. CASE s.inc.status = "received"
    BY <2>1, <2>2 DEF RowTrue
  <2>3. CASE s.inc.status = "failed" /\ decisions' = decisions
    <3>1. \A d \in ToSet(decisions[i]) : d.sub # r.inc.sub
      BY <1>0, <1>7, NoneYet DEF Grounded, Reach, Undecided, Creates
    <3> QED
      BY <2>1, <2>3, <3>1 DEF RowTrue
  <2>4. CASE Appended(r) /\ s.inc.status = "evaluated"
    BY <1>1, <1>4, <2>1, <2>4 DEF RowTrue
  <2>5. CASE s.inc.status = "failed" /\ faults' # 0
    BY <2>1, <2>5 DEF RowTrue
  <2> QED
    BY <1>7, <2>2, <2>3, <2>4, <2>5 DEF Creates
<1>8. incidents'[i] # incidents[i] => Writes(h, s) \/ Creates(h, s)
  BY DEF Shifts, Loads, Leaves, Evaluates, store
<1> QED
  BY <1>5, <1>6, <1>7, <1>8

LEMMA RowsStep ==
    ASSUME Grounded, Rows, [Next]_vars
    PROVE  Rows'
<1>0. faults \in Nat /\ faults' \in Nat
  BY GroundedStep, IncidentConstants DEF Grounded, Recorded, Shaped, Typed
<1>1. CASE \E h \in Handler : Works(h)
  <2>1. PICK h \in Handler : Works(h)
    BY <1>1
  <2>2. PICK s \in RequestType : Shifts(h, s) /\ Moves(h, s) /\ Traces(h, s)
    BY <2>1, WorkShifts
  <2> QED
    BY <1>0, <2>2, RowsWork DEF Rows
<1>2. CASE Crash
  <2>1. /\ faults' # 0 /\ overlapped' = overlapped
        /\ \/ UNCHANGED store
           \/ incidents' = [i \in IncidentId |-> NoIncident]
    BY <1>0, <1>2 DEF Crash
  <2>2. ASSUME NEW i \in IncidentId PROVE RowTrue(i)'
    BY <2>1, NoIncidentIs DEF Rows, RowTrue, store
  <2> QED
    BY <2>2 DEF Rows
<1>3. CASE UNCHANGED <<incidents, decisions, faults, overlapped>>
  BY <1>3 DEF Rows, RowTrue
<1>4. ASSUME NEW h \in Handler, Submit(h) \/ Reads(h)
      PROVE  UNCHANGED <<incidents, decisions, faults, overlapped>>
  BY <1>4, ReadsShaped DEF Submit, Grounded, Recorded
<1>5. Activate \/ UNCHANGED vars => UNCHANGED <<incidents, decisions, faults, overlapped>>
  BY DEF Activate, vars
<1> QED
  BY <1>1, <1>2, <1>3, <1>4, <1>5 DEF Next, Step, Works, Reads

\* The status of an incident is true of the decisions on record, although the
\* two are saved in transactions of their own and any of them may fail or be
\* overtaken (manage_incidents.py, evaluate_incident.py).
THEOREM StatusTrue == Spec => []StatusIsTrue
<1>1. Init => Rows
  BY NoIncidentIs DEF Init, Rows, RowTrue
<1>2. Grounded /\ Rows /\ [Next]_vars => Rows'
  BY RowsStep
<1>3. Grounded /\ Rows => StatusIsTrue
  <2> SUFFICES ASSUME Grounded, Rows, NEW i \in IncidentId
               PROVE  /\ incidents[i].status = "evaluated" =>
                           /\ decisions[i] # <<>>
                           /\ i \notin overlapped => StoredFor(i, incidents[i].sub) # {}
                      /\ incidents[i].status = "failed" /\ faults = 0 /\ i \notin overlapped =>
                           StoredFor(i, incidents[i].sub) = {}
    BY DEF StatusIsTrue
  <2>1. RowTrue(i)
    BY DEF Rows
  <2>2. \A sub : StoredFor(i, sub) # {} <=> \E d \in ToSet(decisions[i]) : d.sub = sub
    BY DEF StoredFor, ToSet
  <2>3. decisions[i] = <<>> => ToSet(decisions[i]) = {}
    BY DEF ToSet
  <2> QED
    BY <2>1, <2>2, <2>3 DEF RowTrue
<1>4. Spec => []Grounded
  BY GroundedInit, GroundedStep, PTL DEF Spec
<1> QED
  BY <1>1, <1>2, <1>3, <1>4, PTL DEF Spec

LEMMA InHandWork ==
    ASSUME Grounded, ReceivedIsInHand, NEW h \in Handler, NEW s \in RequestType,
           Shifts(h, s), Traces(h, s), faults' = 0 => faults = 0,
           NEW i \in IncidentId \ overlapped',
           incidents'[i].status = "received", incidents'[i].sub.keep, faults' = 0
    PROVE  \E g \in Handler : LET t == IF g = h THEN s ELSE req[g] IN
             t.inc # NoIncident /\ t.inc.sub = incidents'[i].sub /\ UnderWay(t) /\ IdOf(t) = i
<1> DEFINE r == req[h]
<1>0. /\ InItem(r) /\ IdOf(r) \in IncidentId /\ r.inc \in Incident /\ r.inc.sub = Sub(r)
      /\ i \notin overlapped /\ faults = 0
  BY Busy, OverlapGrows DEF Traces, Grounded, Recorded
<1>1. CASE i = IdOf(r) /\ incidents'[i].sub = r.inc.sub /\ r.op \in CreateOps
  <2>1. ASSUME NEW outcome \in Outcomes, Ended(r, s, outcome)
        PROVE  Same(r, s)
    <3>1. CASE Writes(h, s)
      <4>1. incidents'[i] = r.inc
        BY <1>1, <3>1, WritesItsObject
      <4>2. r.keep
        BY <1>0, <1>1 DEF Sub
      <4> QED
        BY <3>1, <4>1, <4>2 DEF Writes
    <3>2. CASE Leaves(h, s)
      <4>1. r.pc = "write" /\ r.seen = NoIncident /\ incidents[i] # NoIncident
        BY <1>1, <3>2 DEF Leaves
      <4>2. incidents[i] = r.seen
        BY <1>0, <1>1, <4>1 DEF Grounded, Separate, AloneAt
      <4> QED
        BY <4>1, <4>2
    <3>3. CASE Evaluates(h, s)
      BY <1>1, <3>3 DEF Evaluates, CreateOps, EvaluateOps
    <3> QED
      BY <3>1, <3>2, <3>3 DEF Shifts, Loads, LoadEffect, Creates
  <2>2. Same(r, s)
    BY <2>1 DEF Traces
  <2>3. s.pc # "answer"
    <3>1. ~(\E outcome \in Outcomes : Ended(r, s, outcome)) => s.pc # "answer"
      BY DEF Traces
    <3>2. ASSUME NEW outcome \in Outcomes, Ended(r, s, outcome) PROVE FALSE
      <4>1. r.done \in Seq(Outcomes) /\ Len(r.done) \in Nat
        BY <1>0, Busy DEF Grounded, Recorded, AtWork
      <4>2. Len(s.done) = Len(r.done) + 1
        BY <3>2, <4>1, AppendIs DEF Ended
      <4> QED
        BY <2>2, <4>1, <4>2 DEF Same
    <3> QED
      BY <3>1, <3>2
  <2>4. /\ s.inc # NoIncident /\ s.inc.sub = incidents'[i].sub /\ UnderWay(s) /\ IdOf(s) = i
    BY <1>1, <2>2, <2>3, SameSub, NoIncidentIs DEF Same, UnderWay
  <2> QED
    BY <2>4
<1>2. CASE incidents'[i] # incidents[i]
  BY <1>1, <1>2, RowsChange
<1>3. CASE incidents'[i] = incidents[i]
  <2>1. PICK g \in Handler : /\ req[g].inc # NoIncident /\ req[g].inc.sub = incidents[i].sub
                             /\ Creating(g, i)
    BY <1>0, <1>3 DEF ReceivedIsInHand
  <2>2. CASE g = h
    BY <1>1, <1>3, <2>1, <2>2 DEF Creating
  <2>3. CASE g # h
    BY <1>3, <2>1, <2>3 DEF Creating, UnderWay
  <2> QED
    BY <2>2, <2>3
<1> QED
  BY <1>2, <1>3

LEMMA InHandStep ==
    ASSUME Grounded, ReceivedIsInHand, [Next]_vars
    PROVE  ReceivedIsInHand'
<1>0. faults \in Nat /\ faults' \in Nat /\ req \in [Handler -> RequestType]
  BY GroundedStep, IncidentConstants DEF Grounded, Recorded, Shaped, Typed
<1>1. CASE \E h \in Handler : Works(h)
  <2>1. PICK h \in Handler : Works(h)
    BY <1>1
  <2>2. PICK s \in RequestType : Shifts(h, s) /\ Moves(h, s) /\ Traces(h, s)
    BY <2>1, WorkShifts
  <2>3. \A g \in Handler : req'[g] = IF g = h THEN s ELSE req[g]
    BY <1>0, <2>2 DEF Traces, Put
  <2>4. faults' = 0 => faults = 0
    BY <1>0, <2>2 DEF Moves
  <2>5. ASSUME NEW i \in IncidentId \ overlapped', incidents'[i].status = "received",
               incidents'[i].sub.keep, faults' = 0
        PROVE  \E g \in Handler : /\ req'[g].inc # NoIncident /\ req'[g].inc.sub = incidents'[i].sub
                                  /\ UnderWay(req'[g]) /\ IdOf(req'[g]) = i
    <3>1. PICK g \in Handler : LET t == IF g = h THEN s ELSE req[g] IN
             t.inc # NoIncident /\ t.inc.sub = incidents'[i].sub /\ UnderWay(t) /\ IdOf(t) = i
      BY <2>2, <2>4, <2>5, InHandWork
    <3> QED
      BY <2>3, <3>1
  <2> QED
    BY <2>5 DEF ReceivedIsInHand, Creating, UnderWay, IdOf
<1>2. CASE Crash
  BY <1>0, <1>2 DEF Crash, ReceivedIsInHand
<1>3. CASE \E h \in Handler : Submit(h) \/ Reads(h)
  <2>1. PICK h \in Handler : Submit(h) \/ Reads(h)
    BY <1>3
  <2>2. UNCHANGED <<incidents, faults, overlapped>> /\ \E s \in RequestType : Put(h, s)
    BY <2>1, ReadsShaped, SubmitDoes DEF Submit, Grounded, Recorded
  <2>3. req[h].op \notin CreateOps \/ req[h].pc = "answer"
    <3>1. req[h].pc \in {"idle", "latest", "answer"}
      BY <2>1 DEF Submit, Reads, WhatIf, ReplayRead, ReplayCompare, Compare, Answer
    <3> QED
      BY <3>1 DEF Grounded, Recorded, Shaped, Shape, Writing, CreateOps
  <2>4. \A g \in Handler : g # h => req'[g] = req[g]
    BY <1>0, <2>2 DEF Put
  <2> QED
    BY <2>2, <2>3, <2>4 DEF ReceivedIsInHand, Creating, IdOf
<1>4. CASE Activate \/ UNCHANGED vars
  BY <1>4 DEF Activate, vars, ReceivedIsInHand, Creating, IdOf
<1> QED
  BY <1>1, <1>2, <1>3, <1>4 DEF Next, Step, Works, Reads

\* Without faults no incident whose evaluation was asked for is left behind as
\* "received": the creation that wrote it is still under way
\* (manage_incidents.py).
THEOREM ReceivedInHand == Spec => []ReceivedIsInHand
<1>1. Init => ReceivedIsInHand
  BY NoIncidentIs DEF Init, ReceivedIsInHand
<1>2. Grounded /\ ReceivedIsInHand /\ [Next]_vars => ReceivedIsInHand'
  BY InHandStep
<1>3. Spec => []Grounded
  BY GroundedInit, GroundedStep, PTL DEF Spec
<1> QED
  BY <1>1, <1>2, <1>3, PTL DEF Spec

-----------------------------------------------------------------------------
(* A replay of an incident that has been evaluated reports no difference.  *)

\* The decisions of a submission were made from what the incident x says.
Matches(x, i) == \A d \in ToSet(decisions[i]) : d.sub = x.sub =>
                    d.payload = x.payload /\ d.context = x.context

\* The request r will make no decision any more for the submission.
Past(r, sub) ==
    \/ sub.k <= Len(r.done)
    \/ sub.k = Len(r.done) + 1 /\ InItem(r) /\ ~Undecided(r)

\* Nothing more will be decided for x.
Settled(x, i) ==
    /\ x.sub.n <= started
    /\ \A h \in Handler : Writing(req[h]) /\ req[h].n = x.sub.n => Past(req[h], x.sub)
    /\ Matches(x, i)

\* The object of a creation that is decided says what it was decided from.
DecidedAt(r) == InItem(r) /\ ~Undecided(r) => Matches(r.inc, IdOf(r))

\* So does a row nobody has overlapped ...
SettledRow(i) ==
    i \notin overlapped /\ incidents[i] # NoIncident /\ incidents[i].status # "received" =>
        Settled(incidents[i], i)

\* ... and an incident that is being replayed.
ReplayAt(r) ==
    /\ r.op = "replay" /\ r.todo = <<>> => r.orig = NoDecision
    /\ r.op = "replay" /\ r.todo # <<>> =>
         /\ IdOf(r) \in IncidentId /\ r.inc \in Incident
         /\ r.dec \in Decision /\ r.dec = Run(r.inc, r.dec.pack, r.dec.at)
         /\ r.orig = NoDecision \/ r.orig \in ToSet(decisions[IdOf(r)])
         /\ r.inc.status # "received" /\ IdOf(r) \notin overlapped => Settled(r.inc, IdOf(r))

Replays == /\ \A h \in Handler : DecidedAt(req[h]) /\ ReplayAt(req[h])
           /\ \A i \in IncidentId : SettledRow(i)

LEMMA PastKept ==
    ASSUME Grounded, NEW h \in Handler, NEW s \in RequestType, Shifts(h, s), Traces(h, s),
           NEW sub, sub.k \in Nat, Past(req[h], sub)
    PROVE  Past(s, sub)
<1> DEFINE r == req[h]
<1>0. InItem(r) /\ r.done \in Seq(Outcomes) /\ Len(r.done) \in Nat
  BY Busy DEF Traces, Grounded, Recorded, AtWork
<1>1. ASSUME NEW outcome \in Outcomes, Ended(r, s, outcome)
      PROVE  Past(s, sub)
  <2>1. Len(s.done) = Len(r.done) + 1
    BY <1>0, <1>1, AppendIs DEF Ended
  <2>2. sub.k <= Len(r.done) + 1
    BY <1>0 DEF Past
  <2> QED
    BY <2>1, <2>2 DEF Past
<1>2. CASE Same(r, s) /\ s.pc # "answer"
  <2>1. s.done = r.done /\ InItem(s)
    BY <1>0, <1>2, SameSub DEF Same, InItem
  <2>2. CASE sub.k <= Len(r.done)
    BY <2>1, <2>2 DEF Past
  <2>3. CASE sub.k = Len(r.done) + 1 /\ ~Undecided(r)
    <3>1. Loads(h, s) \/ \E outcome \in Outcomes : Ended(r, s, outcome)
      BY <2>3 DEF Shifts, Leaves, Writes, Creates, Evaluates, Undecided, Outcomes
    <3>2. Loads(h, s) => ~Undecided(s)
      BY <2>3 DEF Loads, LoadEffect, Undecided
    <3> QED
      BY <1>1, <2>1, <2>3, <3>1, <3>2 DEF Past
  <2> QED
    BY <2>2, <2>3 DEF Past
<1> QED
  BY <1>1, <1>2 DEF Traces

LEMMA MatchesKept ==
    ASSUME Grounded, NEW h \in Handler, NEW s \in RequestType, Moves(h, s),
           NEW x, NEW i \in IncidentId, Matches(x, i),
           x.sub.n = req[h].n => Past(req[h], x.sub)
    PROVE  Matches(x, i)'
<1> SUFFICES ASSUME NEW d \in ToSet(decisions'[i]), d.sub = x.sub
             PROVE  d.payload = x.payload /\ d.context = x.context
  BY DEF Matches
<1>1. d \in ToSet(decisions[i]) \/ (i = IdOf(req[h]) /\ d = req[h].dec /\ Appended(req[h]))
  BY RecordGrows DEF Grounded
<1>2. ~(d = req[h].dec /\ Appended(req[h]))
  <2> SUFFICES ASSUME d = req[h].dec, Appended(req[h]) PROVE FALSE
    OBVIOUS
  <2>1. /\ req[h].pc = "store" /\ x.sub.n = req[h].n /\ x.sub.k = Len(req[h].done) + 1
        /\ Len(req[h].done) \in Nat
    BY DecisionIsNew DEF Appended, Grounded, Recorded
  <2>2. Undecided(req[h])
    BY <2>1 DEF Undecided
  <2>3. PICK m \in Nat : m = Len(req[h].done)
    BY <2>1
  <2>4. ~(m + 1 <= m)
    OBVIOUS
  <2> QED
    BY <2>1, <2>2, <2>3, <2>4 DEF Past
<1> QED
  BY <1>1, <1>2 DEF Matches

LEMMA SettledWork ==
    ASSUME Grounded, NEW h \in Handler, NEW s \in RequestType,
           Shifts(h, s), Traces(h, s), Moves(h, s),
           NEW x, x.sub.k \in Nat, NEW i \in IncidentId, Settled(x, i)
    PROVE  Settled(x, i)'
<1>0. /\ InItem(req[h]) /\ Writing(req[h]) /\ started' = started
      /\ \A g \in Handler : req'[g] = IF g = h THEN s ELSE req[g]
  BY DEF Traces, Put, InItem, Grounded, Recorded, Shaped, Typed
<1>1. x.sub.n = req[h].n => Past(req[h], x.sub)
  BY <1>0 DEF Settled
<1>2. Matches(x, i)'
  BY <1>1, MatchesKept DEF Settled
<1>3. ASSUME NEW g \in Handler, NEW t, t = req'[g], Writing(t), t.n = x.sub.n
      PROVE  Past(t, x.sub)
  <2>1. CASE g = h
    <3>1. t = s /\ s.n = req[h].n
      BY <1>0, <1>3, <2>1 DEF Moves
    <3> QED
      BY <1>1, <1>3, <3>1, PastKept
  <2>2. CASE g # h
    BY <1>0, <1>3, <2>2 DEF Settled
  <2> QED
    BY <2>1, <2>2
<1>4. ASSUME NEW g \in Handler, Writing(req[g])', req'[g].n = x.sub.n
      PROVE  Past(req[g], x.sub)'
  <2>1. PICK t : t = req'[g]
    OBVIOUS
  <2>2. Past(t, x.sub)
    BY <1>3, <1>4, <2>1 DEF Writing
  <2> QED
    BY <2>1, <2>2 DEF Past, InItem, Writing, Undecided
<1> QED
  BY <1>0, <1>2, <1>4 DEF Settled

\* A creation that is decided in this step was decided from what it says.
LEMMA CreatesMatches ==
    ASSUME Grounded, NEW h \in Handler, NEW s \in RequestType, Moves(h, s), Creates(h, s),
           s.pc = "load", NEW i, i = IdOf(req[h])
    PROVE  Matches(s.inc, i)'
<1> DEFINE r == req[h]
<1>0. /\ InItem(r) /\ i \in IncidentId /\ s.inc.sub = r.inc.sub /\ Shape(r)
      /\ Reach(r) = Len(r.done)
  BY Busy DEF Moves, Creates, Same, Grounded, Recorded, Shaped, Reach, Undecided
<1> SUFFICES ASSUME NEW d \in ToSet(decisions'[i]), d.sub = s.inc.sub
             PROVE  d.payload = s.inc.payload /\ d.context = s.inc.context
  BY DEF Matches
<1>1. d \notin ToSet(decisions[i])
  BY <1>0, NoneYet DEF Grounded
<1>2. d = r.dec /\ Appended(r)
  BY <1>0, <1>1, RecordGrows DEF Grounded
<1>3. s.inc.payload = r.inc.payload /\ s.inc.context = r.inc.context
  BY <1>1 DEF Creates
<1>4. r.dec = Run(r.inc, r.dec.pack, r.dec.at)
  BY <1>0, <1>2 DEF Appended, Shape
<1>5. r.dec.payload = r.inc.payload /\ r.dec.context = r.inc.context
  BY <1>4 DEF Run
<1> QED
  BY <1>2, <1>3, <1>5

LEMMA DecidedWork ==
    ASSUME Grounded, Replays, NEW h \in Handler, NEW s \in RequestType,
           Shifts(h, s), Traces(h, s), Moves(h, s),
           NEW g \in Handler, NEW t, t = IF g = h THEN s ELSE req[g], InItem(t), ~Undecided(t)
    PROVE  Matches(t.inc, IdOf(t))'
<1> DEFINE r == req[h]
<1>1. CASE g # h
  <2>1. t = req[g] /\ DecidedAt(req[g])
    BY <1>1 DEF Replays
  <2>2. Matches(t.inc, IdOf(t)) /\ IdOf(t) \in IncidentId /\ t.inc.sub = Sub(t) /\ Writing(t)
    BY <2>1, Busy DEF DecidedAt, Grounded, Recorded, InItem
  <2>3. t.inc.sub.n # r.n
    <3>1. Writing(r) /\ t.inc.sub.n = t.n
      BY <2>2 DEF Sub, Traces, InItem
    <3> QED
      BY <1>1, <2>1, <2>2, <3>1 DEF Grounded, Recorded, Numbered
  <2>4. PICK x : x = t.inc
    OBVIOUS
  <2>5. PICK i \in IncidentId : i = IdOf(t)
    BY <2>2
  <2>6. Matches(x, i)'
    BY <2>2, <2>3, <2>4, <2>5, MatchesKept
  <2> QED
    BY <2>4, <2>5, <2>6
<1>2. CASE g = h
  <2>1. Same(r, s) /\ t = s /\ IdOf(s) = IdOf(r)
    <3>1. ~\E outcome \in Outcomes : Ended(r, s, outcome)
      BY <1>2 DEF Ended, AtStart, Undecided, InItem
    <3> QED
      BY <1>2, <3>1, SameSub DEF Traces
  <2>2. CASE Loads(h, s)
    <3>1. s.inc = r.inc /\ s.pc = "write" /\ r.pc = "load" /\ decisions' = decisions
      BY <2>2 DEF Loads, LoadEffect, store
    <3>2. ~Undecided(r) /\ InItem(r)
      BY <2>1, <3>1 DEF Undecided, Traces
    <3>3. Matches(r.inc, IdOf(r))
      BY <3>2 DEF Replays, DecidedAt
    <3> QED
      BY <2>1, <3>1, <3>3 DEF Matches, IdOf
  <2>3. CASE Creates(h, s)
    <3>1. s.pc = "load"
      BY <2>1, <2>3 DEF Creates, Undecided
    <3>2. PICK i : i = IdOf(r)
      OBVIOUS
    <3>3. Matches(s.inc, i)'
      BY <2>3, <3>1, <3>2, CreatesMatches
    <3> QED
      BY <2>1, <3>2, <3>3
  <2> QED
    <3>1. ~Leaves(h, s) /\ ~Writes(h, s) /\ ~Evaluates(h, s)
      BY <2>1 DEF Leaves, Writes, Evaluates, Ended, AtStart, Undecided, InItem
    <3> QED
      BY <2>2, <2>3, <3>1 DEF Shifts
<1> QED
  BY <1>1, <1>2

LEMMA SettledRowWork ==
    ASSUME Grounded, Replays, NEW h \in Handler, NEW s \in RequestType,
           Shifts(h, s), Traces(h, s), Moves(h, s), NEW i \in IncidentId,
           i \notin overlapped', incidents'[i] # NoIncident, incidents'[i].status # "received",
           NEW x, x = incidents'[i]
    PROVE  Settled(x, i)'
<1> DEFINE r == req[h]
<1>0. /\ InItem(r) /\ Writing(r) /\ IdOf(r) \in IncidentId /\ r.inc \in Incident /\ r.inc.sub = Sub(r)
      /\ Shape(r) /\ started' = started /\ i \notin overlapped
      /\ incidents \in [IncidentId -> Incident \cup {NoIncident}]
      /\ \A g \in Handler : req'[g] = IF g = h THEN s ELSE req[g]
  BY Busy, OverlapGrows DEF Traces, Put, InItem, Grounded, Recorded, Shaped, Typed
<1>1. /\ r.n \in 1..started /\ Sub(r).n = r.n /\ Sub(r).k = Len(r.done) + 1
      /\ r.inc.sub.k \in Nat
  BY <1>0, SubTyped DEF Shape, Sub
<1>2. CASE x = incidents[i]
  <2>1. Settled(x, i)
    BY <1>0, <1>2 DEF Replays, SettledRow
  <2>2. x.sub.k \in Nat
    BY <1>0, <1>2, SubTyped
  <2> QED
    BY <2>1, <2>2, SettledWork
<1>3. CASE x # incidents[i] /\ Writes(h, s)
  <2>1. i = IdOf(r) /\ x = r.inc
    BY <1>3, RowsChange, WritesItsObject
  <2>2. ~Undecided(r)
    BY <1>3, <2>1 DEF Undecided, Writes
  <2>3. Matches(x, i)
    BY <1>0, <2>1, <2>2 DEF Replays, DecidedAt
  <2>4. Past(r, x.sub)
    BY <1>0, <1>1, <2>1, <2>2 DEF Past
  <2>5. \A g \in Handler : Writing(req[g]) /\ req[g].n = x.sub.n => g = h
    BY <1>0, <1>1, <2>1 DEF Grounded, Recorded, Numbered
  <2>6. Settled(x, i)
    BY <1>0, <1>1, <2>1, <2>3, <2>4, <2>5 DEF Settled
  <2> QED
    BY <1>1, <2>1, <2>6, SettledWork
<1>4. CASE x # incidents[i] /\ Creates(h, s)
  <2>1. i = IdOf(r) /\ x = s.inc /\ s.inc.sub = r.inc.sub
    BY <1>0, <1>4, RowsChange DEF Creates, Published, Same
  <2>2. s.pc = "load" /\ ~Undecided(s) /\ Same(r, s)
    BY <1>4, <2>1 DEF Creates, Undecided
  <2>3. Matches(x, i)'
    BY <1>4, <2>1, <2>2, CreatesMatches
  <2>4. Past(s, x.sub)
    <3>1. s.done = r.done /\ InItem(s)
      BY <1>0, <2>2, SameSub DEF Same, InItem
    <3> QED
      BY <1>0, <1>1, <2>1, <2>2, <3>1 DEF Past
  <2>5. ASSUME NEW g \in Handler, Writing(req[g])', req'[g].n = x.sub.n
        PROVE  Past(req[g], x.sub)'
    <3>1. g = h
      BY <1>0, <1>1, <2>1, <2>5 DEF Grounded, Recorded, Numbered, Writing
    <3>2. req'[g] = s
      BY <1>0, <3>1
    <3> QED
      BY <2>4, <3>2 DEF Past, InItem, Writing, Undecided
  <2>6. x.sub.n <= started'
    BY <1>0, <1>1, <2>1
  <2> QED
    BY <2>3, <2>5, <2>6 DEF Settled
<1>5. x # incidents[i] => Writes(h, s) \/ Creates(h, s)
  BY DEF Shifts, Loads, Leaves, Evaluates, store
<1> QED
  BY <1>2, <1>3, <1>4, <1>5

LEMMA ReplaysWork ==
    ASSUME Grounded, Replays, NEW h \in Handler, Works(h)
    PROVE  Replays'
<1>0. PICK s \in RequestType : Shifts(h, s) /\ Moves(h, s) /\ Traces(h, s)
  BY WorkShifts
<1>1. \A g \in Handler : req'[g] = IF g = h THEN s ELSE req[g]
  BY <1>0 DEF Traces, Put, Grounded, Recorded, Shaped, Typed
<1>2. ASSUME NEW g \in Handler PROVE DecidedAt(req[g])'
  <2>1. PICK t : t = req'[g] /\ t = IF g = h THEN s ELSE req[g]
    BY <1>1
  <2>2. InItem(t) /\ ~Undecided(t) => Matches(t.inc, IdOf(t))'
    BY <1>0, <2>1, DecidedWork
  <2> QED
    BY <2>1, <2>2 DEF DecidedAt, InItem, Writing, Undecided, Matches, IdOf
<1>3. ASSUME NEW g \in Handler PROVE ReplayAt(req[g])'
  <2>1. CASE g = h
    <3>1. Writing(req'[g])
      BY <1>0, <1>1, <2>1 DEF Moves, InItem, Writing
    <3>2. req'[g].op # "replay"
      BY <3>1 DEF Writing, CreateOps, EvaluateOps
    <3> QED
      BY <3>2 DEF ReplayAt
  <2>2. CASE g # h
    <3>1. PICK t : t = req[g] /\ t = req'[g]
      BY <1>1, <2>2
    <3>2. ReplayAt(t)
      BY <3>1 DEF Replays
    <3>3. ASSUME t.op = "replay", t.todo # <<>>
          PROVE  /\ t.orig = NoDecision \/ t.orig \in ToSet(decisions'[IdOf(t)])
                 /\ t.inc.status # "received" /\ IdOf(t) \notin overlapped' => Settled(t.inc, IdOf(t))'
      <4>1. PICK i \in IncidentId : i = IdOf(t)
        BY <3>2, <3>3 DEF ReplayAt
      <4>2. PICK x \in Incident : x = t.inc
        BY <3>2, <3>3 DEF ReplayAt
      <4>3. t.orig = NoDecision \/ t.orig \in ToSet(decisions'[i])
        BY <1>0, <3>2, <3>3, <4>1, RecordGrows DEF ReplayAt, Grounded
      <4>4. t.inc.status # "received" /\ IdOf(t) \notin overlapped' => Settled(x, i)
        BY <1>0, <3>2, <3>3, <4>1, <4>2, OverlapGrows DEF ReplayAt
      <4>5. Settled(x, i) => Settled(x, i)'
        BY <1>0, SubTyped, SettledWork
      <4> QED
        BY <4>1, <4>2, <4>3, <4>4, <4>5
    <3>4. ReplayAt(t)'
      BY <3>2, <3>3 DEF ReplayAt
    <3> QED
      BY <3>1, <3>4 DEF ReplayAt, Settled, Matches, IdOf
  <2> QED
    BY <2>1, <2>2
<1>4. ASSUME NEW i \in IncidentId PROVE SettledRow(i)'
  <2>1. PICK x : x = incidents'[i]
    OBVIOUS
  <2>2. i \notin overlapped' /\ x # NoIncident /\ x.status # "received" => Settled(x, i)'
    BY <1>0, <2>1, SettledRowWork
  <2> QED
    BY <2>1, <2>2 DEF SettledRow, Settled, Matches
<1> QED
  BY <1>2, <1>3, <1>4 DEF Replays

\* A step that leaves the stores alone and at most begins a request that writes.
Quiet ==
    /\ UNCHANGED <<incidents, decisions, overlapped>> /\ started' \in Nat /\ started <= started'
    /\ \A g \in Handler : \/ req'[g] = req[g] \/ ~Writing(req'[g])
                          \/ /\ AtStart(req'[g]) /\ Writing(req'[g])
                             /\ req'[g].n = started + 1

LEMMA SettledQuiet ==
    ASSUME Grounded, Quiet, NEW x \in Incident, NEW i, Settled(x, i)
    PROVE  Settled(x, i)'
<1>0. x.sub.n \in Nat /\ started \in Nat
  BY SubTyped, IncidentConstants DEF Grounded, Recorded, Shaped, Typed
<1>1. Matches(x, i)' /\ x.sub.n <= started'
  BY <1>0 DEF Quiet, Settled, Matches
<1>2. ASSUME NEW g \in Handler, Writing(req[g])', req'[g].n = x.sub.n
      PROVE  Past(req[g], x.sub)'
  <2>1. req'[g].n # started + 1
    BY <1>0, <1>2 DEF Settled
  <2>2. req'[g] = req[g]
    BY <1>2, <2>1 DEF Quiet, Writing
  <2>3. Past(req[g], x.sub)
    BY <1>2, <2>2 DEF Settled, Writing
  <2> QED
    BY <2>2, <2>3 DEF Past, InItem, Writing, Undecided
<1> QED
  BY <1>1, <1>2 DEF Settled

LEMMA ReplaysQuiet ==
    ASSUME Grounded, Replays, Quiet,
           \A g \in Handler : req'[g] = req[g] \/ ReplayAt(req[g])'
    PROVE  Replays'
<1>0. incidents \in [IncidentId -> Incident \cup {NoIncident}]
  BY DEF Grounded, Recorded, Shaped, Typed
<1>1. ASSUME NEW i \in IncidentId PROVE SettledRow(i)'
  <2>1. PICK x : x = incidents[i] /\ x = incidents'[i]
    BY DEF Quiet
  <2>2. ASSUME i \notin overlapped, x # NoIncident, x.status # "received"
        PROVE  Settled(x, i)'
    <3>1. Settled(x, i) /\ x \in Incident
      BY <1>0, <2>1, <2>2 DEF Replays, SettledRow
    <3> QED
      BY <3>1, SettledQuiet
  <2>3. overlapped' = overlapped
    BY DEF Quiet
  <2> QED
    BY <2>1, <2>2, <2>3 DEF SettledRow, Settled, Matches
<1>2. ASSUME NEW g \in Handler PROVE DecidedAt(req[g])'
  <2>1. CASE req'[g] = req[g]
    BY <2>1 DEF Replays, Quiet, DecidedAt, InItem, Writing, Undecided, Matches, IdOf
  <2>2. CASE ~Writing(req'[g])
    BY <2>2 DEF DecidedAt, InItem, Writing
  <2>3. CASE AtStart(req'[g])
    BY <2>3 DEF DecidedAt, AtStart, Undecided
  <2> QED
    BY <2>1, <2>2, <2>3 DEF Quiet
<1>3. ASSUME NEW g \in Handler, req'[g] = req[g] PROVE ReplayAt(req[g])'
  <2>1. PICK t : t = req[g] /\ t = req'[g]
    BY <1>3
  <2>2. ReplayAt(t)
    BY <2>1 DEF Replays
  <2>3. decisions' = decisions /\ overlapped' = overlapped
    BY DEF Quiet
  <2>4. t.inc \in Incident /\ Settled(t.inc, IdOf(t)) => Settled(t.inc, IdOf(t))'
    <3>1. PICK x, i : x = t.inc /\ i = IdOf(t)
      OBVIOUS
    <3>2. x \in Incident /\ Settled(x, i) => Settled(x, i)'
      BY SettledQuiet
    <3> QED
      BY <3>1, <3>2
  <2>5. ReplayAt(t)'
    BY <2>2, <2>3, <2>4 DEF ReplayAt
  <2> QED
    BY <2>1, <2>5 DEF ReplayAt, Settled, Matches, IdOf
<1> QED
  BY <1>1, <1>2, <1>3 DEF Replays

\* A replay reads the incident, and then the decision to compare with.
LEMMA ReplaysRead ==
    ASSUME Grounded, Replays, NEW h \in Handler, Reads(h)
    PROVE  Replays'
<1>0. PICK s \in RequestType : Put(h, s) /\ ~Writing(s)
  BY ReadsShaped DEF Grounded, Recorded
<1>1. /\ UNCHANGED <<incidents, decisions, started, overlapped>>
      /\ req \in [Handler -> RequestType] /\ started \in Nat
  BY ReadsShaped, IncidentConstants DEF Grounded, Recorded, Shaped, Typed
<1>2. \A g \in Handler : req'[g] = IF g = h THEN s ELSE req[g]
  BY <1>0, <1>1 DEF Put
<1>3. Quiet
  BY <1>0, <1>1, <1>2 DEF Quiet
<1>4. CASE s.op # "replay"
  BY <1>2, <1>3, <1>4, ReplaysQuiet DEF ReplayAt
<1>5. CASE ReplayRead(h)
  <2>1. ReplayEffect(h, s)
    <3>1. PICK t \in RequestType : Put(h, t) /\ ReplayEffect(h, t)
      BY <1>5, ReplayReadDoes DEF Grounded, Recorded
    <3>2. t = s
      BY <1>0, <1>1, <3>1 DEF Put
    <3> QED
      BY <3>1, <3>2
  <2>2. ASSUME s.todo # <<>>, s.inc.status # "received", IdOf(s) \notin overlapped
        PROVE  Settled(s.inc, IdOf(s))'
    <3>1. PICK i \in IncidentId : i = IdOf(s)
      BY <2>1, <2>2 DEF ReplayEffect
    <3>2. PICK x \in Incident : x = s.inc /\ x = incidents[i]
      BY <2>1, <2>2, <3>1 DEF ReplayEffect
    <3>3. Settled(x, i)
      BY <2>2, <3>1, <3>2, NoIncidentIs DEF Replays, SettledRow
    <3>4. Settled(x, i)'
      BY <1>3, <3>3, SettledQuiet
    <3> QED
      BY <3>1, <3>2, <3>4
  <2>3. ReplayAt(s)'
    BY <1>1, <2>1, <2>2 DEF ReplayAt, ReplayEffect
  <2>4. ReplayAt(req[h])'
    BY <1>2, <2>3 DEF ReplayAt, Settled, Matches, IdOf
  <2> QED
    BY <1>2, <1>3, <2>4, ReplaysQuiet
<1>6. CASE ReplayCompare(h)
  <2> DEFINE r == req[h]
  <2>1. /\ s.op = "replay" /\ s.todo = r.todo /\ s.inc = r.inc /\ s.dec = r.dec
        /\ s.orig = NoDecision \/ s.orig \in ToSet(decisions[IdOf(r)])
    <3>1. PICK t \in RequestType :
             /\ Put(h, t) /\ t.op = "replay" /\ t.todo = r.todo /\ t.inc = r.inc /\ t.dec = r.dec
             /\ t.orig = NoDecision \/ t.orig \in ToSet(decisions[IdOf(r)])
      BY <1>6, ReplayCompareDoes DEF Grounded, Recorded
    <3>2. t = s
      BY <1>0, <1>1, <3>1 DEF Put
    <3> QED
      BY <3>1, <3>2
  <2>2. r.op = "replay" /\ r.todo # <<>> /\ IdOf(s) = IdOf(r) /\ ReplayAt(r)
    BY <1>6, <2>1 DEF ReplayCompare, Replays, Grounded, Recorded, Shaped, Shape, IdOf
  <2>3. ASSUME s.inc.status # "received", IdOf(s) \notin overlapped
        PROVE  Settled(s.inc, IdOf(s))'
    <3>1. PICK i : i = IdOf(s)
      OBVIOUS
    <3>2. PICK x : x = s.inc
      OBVIOUS
    <3>3. x \in Incident /\ Settled(x, i)
      BY <2>1, <2>2, <2>3, <3>1, <3>2 DEF ReplayAt
    <3>4. Settled(x, i)'
      BY <1>3, <3>3, SettledQuiet
    <3> QED
      BY <3>1, <3>2, <3>4
  <2>4. ReplayAt(s)'
    BY <1>1, <2>1, <2>2, <2>3 DEF ReplayAt
  <2>5. ReplayAt(req[h])'
    BY <1>2, <2>4 DEF ReplayAt, Settled, Matches, IdOf
  <2> QED
    BY <1>2, <1>3, <2>5, ReplaysQuiet
<1>7. CASE WhatIf(h) \/ Compare(h) \/ Answer(h)
  <2>1. PICK t \in RequestType : Put(h, t) /\ t.op # "replay"
    BY <1>7, WhatIfDoes, CompareDoes, IdleIs DEF Answer, Grounded, Recorded
  <2>2. t = s
    BY <1>0, <1>1, <2>1 DEF Put
  <2> QED
    BY <1>4, <2>1, <2>2
<1> QED
  BY <1>5, <1>6, <1>7 DEF Reads

LEMMA ReplaysStep ==
    ASSUME Grounded, Replays, [Next]_vars
    PROVE  Replays'
<1>0. /\ req \in [Handler -> RequestType] /\ started \in Nat
      /\ incidents \in [IncidentId -> Incident \cup {NoIncident}]
  BY IncidentConstants DEF Grounded, Recorded, Shaped, Typed
<1>1. ASSUME NEW h \in Handler, Submit(h) PROVE Replays'
  <2>1. PICK s \in RequestType : Put(h, s) /\ AtWork(s) /\ AtStart(s) /\ s.n = started + 1
    BY <1>1, SubmitDoes DEF Grounded, Recorded
  <2>2. UNCHANGED <<incidents, decisions, overlapped>> /\ started' = started + 1
    BY <1>1 DEF Submit
  <2>3. \A g \in Handler : req'[g] = IF g = h THEN s ELSE req[g]
    BY <1>0, <2>1 DEF Put
  <2>4. Writing(s) /\ s.op # "replay"
    BY <2>1 DEF AtWork, Writing, CreateOps, EvaluateOps
  <2>5. Quiet
    BY <1>0, <2>1, <2>2, <2>3, <2>4 DEF Quiet
  <2> QED
    BY <2>3, <2>4, <2>5, ReplaysQuiet DEF ReplayAt
<1>2. CASE Crash
  <2>1. /\ \A g \in Handler : req'[g] = Idle
        /\ started' = started /\ overlapped' = overlapped
        /\ \/ UNCHANGED store
           \/ incidents' = [i \in IncidentId |-> NoIncident]
    BY <1>2 DEF Crash
  <2>2. \A g \in Handler : ReplayAt(req[g])' /\ ~Writing(req'[g])
    BY <2>1, IdleIs DEF ReplayAt
  <2>3. CASE UNCHANGED store
    BY <1>0, <2>1, <2>2, <2>3, ReplaysQuiet DEF Quiet, store
  <2>4. CASE incidents' = [i \in IncidentId |-> NoIncident]
    BY <2>2, <2>4 DEF Replays, DecidedAt, SettledRow, InItem, Writing
  <2> QED
    BY <2>1, <2>3, <2>4
<1>3. CASE Activate \/ UNCHANGED vars
  <2>1. UNCHANGED <<incidents, decisions, overlapped, started, req>>
    BY <1>3 DEF Activate, vars
  <2>2. Quiet
    BY <1>0, <2>1 DEF Quiet
  <2> QED
    BY <2>1, <2>2, ReplaysQuiet
<1> QED
  BY <1>1, <1>2, <1>3, ReplaysWork, ReplaysRead DEF Next, Step, Works, Reads

\* A replay of an evaluated incident with the pack it was evaluated with
\* reports no difference, whatever is written between its two reads and
\* whichever providers answered at the time (replay_simulation.py,
\* evaluate_incident.py).
THEOREM ReplayUnchanged == Spec => []ReplayOfUnchanged
<1>1. Init => Replays
  BY IdleIs DEF Init, Replays, DecidedAt, SettledRow, ReplayAt, InItem
<1>2. Grounded /\ Replays /\ [Next]_vars => Replays'
  BY ReplaysStep
<1>3. Replays => ReplayOfUnchanged
  <2> SUFFICES ASSUME Replays, NEW h \in Handler,
                      req[h].op = "replay", req[h].orig # NoDecision,
                      req[h].inc.status # "received", req[h].orig.sub = req[h].inc.sub,
                      IdOf(req[h]) \notin overlapped, req[h].orig.pack = req[h].dec.pack
               PROVE  ~Differs(req[h].orig, req[h].dec)
    BY DEF ReplayOfUnchanged
  <2> DEFINE r == req[h]
  <2>1. ReplayAt(r) /\ r.todo # <<>>
    BY DEF Replays, ReplayAt
  <2>2. r.orig \in ToSet(decisions[IdOf(r)]) /\ Matches(r.inc, IdOf(r))
    BY <2>1 DEF ReplayAt, Settled
  <2>3. r.orig.payload = r.inc.payload /\ r.orig.context = r.inc.context
    BY <2>2 DEF Matches
  <2>4. r.dec = Run(r.inc, r.dec.pack, r.dec.at)
    BY <2>1 DEF ReplayAt
  <2>5. r.dec.payload = r.inc.payload /\ r.dec.context = r.inc.context
    BY <2>4 DEF Run
  <2> QED
    BY <2>3, <2>5 DEF Differs, Outcome
<1>4. Spec => []Grounded
  BY GroundedInit, GroundedStep, PTL DEF Spec
<1> QED
  BY <1>1, <1>2, <1>3, <1>4, PTL DEF Spec
=============================================================================
