-------------------------- MODULE RuleCacheProofs --------------------------
(***************************************************************************)
(* Proofs about RuleCache, for any replicas, threads, lifetimes and bounds. *)
(***************************************************************************)
EXTENDS RuleCache, TLAPS

\* The empty values have their types.
LEMMA EmptyTypes ==
    /\ NoPack \in Pack /\ NoJob \in Job
    /\ NoPointer \in [token: Token \cup {NoToken}, left: 0..SnapshotTtl]
    /\ NoSnapshot \in [pack: Pack, left: 0..SnapshotTtl]
    /\ ColdL1 \in [pack: Pack, age: 0..(Ttl + 1)]
<1>1. NoPack \in Pack
  BY CacheConstants DEF NoPack, Pack
<1> QED
  BY <1>1, CacheConstants DEF NoJob, Job, NoPointer, NoSnapshot, ColdL1

\* The types of the parts the steps use, and the ranges as arithmetic.
LEMMA Parts ==
    ASSUME TypeOK
    PROVE  /\ active.gen \in 0..MaxGen /\ active.region \in Region
           /\ Horizon \in Nat /\ SourceAge \in Nat
           /\ \A g \in 0..MaxGen : since[g] \in Nat /\ since[g] <= Horizon
           /\ \A r \in Replica : /\ l1[r].pack \in Pack /\ l1[r].age \in Nat
                                 /\ l1[r].age <= Ttl + 1 /\ lkg[r] \in Pack
           /\ \A k \in Token : /\ snapshot[k].pack \in Pack
                               /\ snapshot[k].left \in Nat
                               /\ snapshot[k].left <= SnapshotTtl
           /\ pointer.left \in Nat /\ pointer.left <= SnapshotTtl
           /\ pointer.token \in Token \cup {NoToken}
           /\ \A t \in Thread :
                /\ Home[t] \in Replica /\ job[t] \in Job
                /\ job[t].pack \in Pack /\ job[t].region \in Region
                /\ job[t].token \in Token \cup {NoToken}
                /\ job[t].flight \in Nat /\ job[t].flight <= MaxFlight
           /\ \A p \in Pack : p.gen \in 0..MaxGen /\ p.region \in Region
<1>1. Horizon \in Nat /\ SourceAge \in Nat
  <2>1. Ttl \in Nat /\ SnapshotTtl \in Nat /\ MaxFlight \in Nat
    BY CacheConstants
  <2> QED
    BY <2>1 DEF Horizon, SourceAge
<1>2. active.gen \in 0..MaxGen /\ active.region \in Region
  BY DEF TypeOK, Pack
<1>3. \A g \in 0..MaxGen : since[g] \in Nat /\ since[g] <= Horizon
  <2>1. \A g \in 0..MaxGen : since[g] \in 0..Horizon
    BY DEF TypeOK
  <2> QED
    BY <1>1, <2>1
<1>4. \A r \in Replica : /\ l1[r].pack \in Pack /\ l1[r].age \in Nat
                         /\ l1[r].age <= Ttl + 1 /\ lkg[r] \in Pack
  BY CacheConstants DEF TypeOK
<1>5. \A k \in Token : /\ snapshot[k].pack \in Pack /\ snapshot[k].left \in Nat
                       /\ snapshot[k].left <= SnapshotTtl
  BY CacheConstants DEF TypeOK
<1>6. /\ pointer.left \in Nat /\ pointer.left <= SnapshotTtl
      /\ pointer.token \in Token \cup {NoToken}
  BY CacheConstants DEF TypeOK
<1>7. \A t \in Thread :
        /\ Home[t] \in Replica /\ job[t] \in Job
        /\ job[t].pack \in Pack /\ job[t].region \in Region
        /\ job[t].token \in Token \cup {NoToken}
        /\ job[t].flight \in Nat /\ job[t].flight <= MaxFlight
  BY CacheConstants DEF TypeOK, Job
<1>8. \A p \in Pack : p.gen \in 0..MaxGen /\ p.region \in Region
  BY DEF Pack
<1> QED
  BY <1>1, <1>2, <1>3, <1>4, <1>5, <1>6, <1>7, <1>8

Typed == TypeOK /\ TokensHeld

\* The initial state is typed.
LEMMA InitTyped == Init => Typed
<1> SUFFICES ASSUME Init PROVE Typed
  OBVIOUS
<1>1. active \in Pack
  BY CacheConstants DEF Init, Pack
<1>2. since \in [0..MaxGen -> 0..Horizon]
  BY CacheConstants DEF Init, Horizon
<1>3. TypeOK
  BY <1>1, <1>2, EmptyTypes DEF Init, TypeOK, Statement
<1>4. TokensHeld
  BY DEF Init, TokensHeld, NoPointer
<1> QED
  BY <1>3, <1>4 DEF Typed

\* A thread of a typed state works on a typed job.
LEMMA JobEdits ==
    ASSUME TypeOK, NEW t \in Thread
    PROVE  /\ \A p \in Pack : [job EXCEPT ![t].pack = p] \in [Thread -> Job]
           /\ \A k \in Token \cup {NoToken} :
                [job EXCEPT ![t].token = k] \in [Thread -> Job]
           /\ \A p \in Pack : [job EXCEPT ![t].pack = p, ![t].token = NoToken]
                              \in [Thread -> Job]
           /\ [job EXCEPT ![t] = NoJob] \in [Thread -> Job]
  BY EmptyTypes DEF TypeOK, Job

\* Get, Activate and Refresh leave the state typed.
LEMMA BeginTyped ==
    ASSUME Typed, NEW t \in Thread, Get(t) \/ Activate(t) \/ Refresh(t)
    PROVE  Typed'
<1>1. PICK op \in {"get", "refresh"}, g \in Region, next \in {"pointer", "load"} :
        /\ Begin(t, op, g, next) /\ (next = "pointer" => Distributed)
  BY CacheConstants DEF Get, Activate, Refresh
<1>2. active' \in Pack
  BY CacheConstants, Parts DEF Typed, TypeOK, Get, Activate, Refresh, Pack
<1>3. UNCHANGED <<since, l1, lkg, pointer, snapshot>>
  BY DEF Get, Activate, Refresh
<1>4. pc' = [pc EXCEPT ![t] = next] /\ pc' \in [Thread -> Statement]
  BY <1>1 DEF Begin, Typed, TypeOK, Statement
<1>5. [NoJob EXCEPT !.op = op, !.region = g] \in Job
  BY EmptyTypes DEF Job
<1>6. /\ job' = [job EXCEPT ![t] = [NoJob EXCEPT !.op = op, !.region = g]]
      /\ job' \in [Thread -> Job]
  BY <1>1, <1>5 DEF Begin, Typed, TypeOK
<1>7. TypeOK'
  BY <1>2, <1>3, <1>4, <1>6 DEF Typed, TypeOK
<1>8. TokensHeld'
  BY <1>1, <1>3, <1>4, <1>6 DEF Typed, TypeOK, TokensHeld
<1> QED
  BY <1>7, <1>8 DEF Typed

\* So do the reads of Redis and of the database ...
LEMMA ReadTyped ==
    ASSUME Typed, NEW t \in Thread,
           ReadPointer(t) \/ ReadSnapshot(t) \/ LoadSource(t) \/ LoadFails(t)
    PROVE  Typed'
<1>1. UNCHANGED <<active, since, l1, pointer, snapshot>>
  BY DEF ReadPointer, ReadSnapshot, LoadSource, LoadFails
<1>2. lkg' \in [Replica -> Pack]
  BY Parts DEF Typed, TypeOK, TokensHeld, ReadPointer, ReadSnapshot, LoadSource, LoadFails
<1>3. job' \in [Thread -> Job]
  <2>1. CASE ReadPointer(t)
    <3>1. pointer.token \in Token \cup {NoToken}
      BY Parts DEF Typed
    <3>2. [job EXCEPT ![t].token = pointer.token] \in [Thread -> Job]
      BY <3>1, JobEdits DEF Typed
    <3> QED
      BY <2>1, <3>2 DEF Typed, TypeOK, ReadPointer
  <2>2. CASE ReadSnapshot(t)
    <3>1. job[t].token \in Token
      BY <2>2 DEF ReadSnapshot, Typed, TokensHeld
    <3>2. snapshot[job[t].token].pack \in Pack
      BY <3>1, Parts DEF Typed
    <3> QED
      BY <2>2, <3>2, JobEdits DEF ReadSnapshot, Typed
  <2>3. CASE LoadSource(t)
    BY <2>3, JobEdits DEF Typed, TypeOK, LoadSource
  <2>4. CASE LoadFails(t)
    BY <2>4, Parts, JobEdits DEF Typed, LoadFails
  <2> QED
    BY <2>1, <2>2, <2>3, <2>4
<1>4. PICK next \in {"snapshot", "load", "install", "propagate", "failed"} :
        /\ Go(t, next)
        /\ next = "snapshot" => /\ pc[t] = "pointer" /\ pointer.left > 0
                               /\ job' = [job EXCEPT ![t].token = pointer.token]
  BY DEF ReadPointer, ReadSnapshot, LoadSource, LoadFails
<1>5. pc' \in [Thread -> Statement]
  BY <1>4 DEF Go, Typed, TypeOK, Statement
<1>6. \A u \in Thread : u # t => job'[u] = job[u] /\ pc'[u] = pc[u]
  BY <1>4 DEF Typed, TypeOK, Go, ReadPointer, ReadSnapshot, LoadSource, LoadFails
<1>7. pc'[t] = "snapshot" => job'[t].token \in Token /\ Distributed
  <2>1. pc'[t] = next
    BY <1>4 DEF Go, Typed, TypeOK
  <2>2. next = "snapshot" => job'[t].token = pointer.token
    BY <1>4 DEF Typed, TypeOK, Job
  <2> QED
    BY <1>4, <2>1, <2>2 DEF Typed, TokensHeld
<1>8. pc'[t] \notin {"pointer", "setPointer"}
  BY <1>4 DEF Go, Typed, TypeOK
<1>9. TokensHeld'
  BY <1>1, <1>6, <1>7, <1>8 DEF TokensHeld, Typed
<1> QED
  BY <1>1, <1>2, <1>3, <1>5, <1>9 DEF Typed, TypeOK

\* ... the writes ...
LEMMA WriteTyped ==
    ASSUME Typed, NEW t \in Thread,
           \/ Propagate(t) \/ SetPointer(t) \/ Install(t) \/ Stamp(t) \/ Return(t)
    PROVE  Typed'
<1>1. UNCHANGED <<active, since>>
  BY DEF Propagate, SetPointer, Install, Stamp, Return
<1>2. lkg' \in [Replica -> Pack]
  BY Parts DEF Typed, TypeOK, Propagate, SetPointer, Install, Stamp, Return
<1>3. job' \in [Thread -> Job]
  <2>1. CASE Propagate(t)
    <3>1. ASSUME NEW k \in Token PROVE [job EXCEPT ![t].token = k] \in [Thread -> Job]
      BY <3>1, JobEdits DEF Typed
    <3> QED
      BY <2>1, <3>1 DEF Typed, TypeOK, Propagate
  <2>2. CASE SetPointer(t)
    BY <2>2, JobEdits DEF Typed, SetPointer
  <2>3. CASE Install(t) \/ Stamp(t)
    BY <2>3 DEF Typed, TypeOK, Install, Stamp
  <2>4. CASE Return(t)
    BY <2>4, JobEdits DEF Typed, Return
  <2> QED
    BY <2>1, <2>2, <2>3, <2>4
<1>4. l1' \in [Replica -> [pack: Pack, age: 0..(Ttl + 1)]]
  <2>1. CASE Install(t)
    <3>1. job[t].pack \in Pack
      BY Parts DEF Typed
    <3> QED
      BY <2>1, <3>1 DEF Typed, TypeOK, Install
  <2>2. CASE Stamp(t)
    <3> DEFINE age == IF job[t].op = "get" THEN job[t].flight ELSE 0
               capped == IF age <= Ttl THEN age ELSE Ttl + 1
    <3>1. age \in Nat
      BY Parts DEF Typed
    <3>2. capped \in 0..(Ttl + 1)
      BY <3>1, CacheConstants
    <3>3. l1' = [l1 EXCEPT ![Home[t]].age = capped]
      BY <2>2 DEF Stamp
    <3> HIDE DEF capped
    <3> QED
      BY <3>2, <3>3 DEF Typed, TypeOK
  <2>3. CASE Propagate(t) \/ SetPointer(t) \/ Return(t)
    BY <2>3 DEF Typed, TypeOK, Propagate, SetPointer, Return
  <2> QED
    BY <2>1, <2>2, <2>3
<1>5. /\ pointer' \in [token: Token \cup {NoToken}, left: 0..SnapshotTtl]
      /\ pointer'.left > 0 => pointer'.token \in Token
  BY CacheConstants, Parts DEF Typed, TypeOK, TokensHeld, Propagate, SetPointer,
     Install, Stamp, Return
<1>6. snapshot' \in [Token -> [pack: Pack, left: 0..SnapshotTtl]]
  <2>1. [pack |-> job[t].pack, left |-> SnapshotTtl]
          \in [pack: Pack, left: 0..SnapshotTtl]
    BY CacheConstants, Parts DEF Typed
  <2> QED
    BY <2>1 DEF Typed, TypeOK, Propagate, SetPointer, Install, Stamp, Return
<1>7. PICK next \in {"setPointer", "install", "stamp", "return", "idle"} :
        /\ Go(t, next)
        /\ next = "setPointer" => /\ Distributed
                                 /\ \E k \in Token : job' = [job EXCEPT ![t].token = k]
  BY DEF Propagate, SetPointer, Install, Stamp, Return
<1>8. pc' \in [Thread -> Statement]
  BY <1>7 DEF Go, Typed, TypeOK, Statement
<1>9. \A u \in Thread : u # t => job'[u] = job[u] /\ pc'[u] = pc[u]
  BY <1>7 DEF Typed, TypeOK, Go, Propagate, SetPointer, Install, Stamp, Return
<1>10. pc'[t] = "setPointer" => job'[t].token \in Token /\ Distributed
  <2>1. pc'[t] = next
    BY <1>7 DEF Go, Typed, TypeOK
  <2>2. next = "setPointer" => job'[t].token \in Token
    BY <1>7 DEF Typed, TypeOK, Job
  <2> QED
    BY <1>7, <2>1, <2>2
<1>11. pc'[t] \notin {"pointer", "snapshot"}
  BY <1>7 DEF Go, Typed, TypeOK
<1>12. TokensHeld'
  BY <1>5, <1>9, <1>10, <1>11 DEF TokensHeld, Typed
<1> QED
  BY <1>1, <1>2, <1>3, <1>4, <1>5, <1>6, <1>8, <1>12 DEF Typed, TypeOK

\* ... the passing of time ...
LEMMA TickTyped ==
    ASSUME Typed, Tick
    PROVE  Typed'
<1> USE DEF Typed
<1>1. since' \in [0..MaxGen -> 0..Horizon]
  <2>1. \A g \in 0..MaxGen : Capped(since[g], Horizon) \in 0..Horizon
    BY Parts DEF Capped
  <2>2. 0 \in 0..Horizon
    BY Parts
  <2> QED
    BY <2>1, <2>2 DEF Tick
<1>2. l1' \in [Replica -> [pack: Pack, age: 0..(Ttl + 1)]]
  <2>1. \A r \in Replica : Capped(l1[r].age, Ttl + 1) \in 0..(Ttl + 1)
    <3> TAKE r \in Replica
    <3>1. l1[r].age \in Nat /\ l1[r].age <= Ttl + 1 /\ Ttl \in Nat
      BY Parts, CacheConstants
    <3> QED
      BY <3>1 DEF Capped
  <2>2. \A r \in Replica : [l1[r] EXCEPT !.age = Capped(@, Ttl + 1)]
                              \in [pack: Pack, age: 0..(Ttl + 1)]
    BY <2>1 DEF TypeOK
  <2> QED
    BY <2>2 DEF Tick
<1>3. /\ pointer' \in [token: Token \cup {NoToken}, left: 0..SnapshotTtl]
      /\ pointer'.left > 0 => pointer'.token \in Token
  <2>1. CASE pointer.left <= 1
    BY <2>1, EmptyTypes DEF Tick, Aged, NoPointer
  <2>2. CASE ~(pointer.left <= 1)
    <3>1. pointer.left - 1 \in 0..SnapshotTtl
      BY <2>2, Parts, CacheConstants
    <3>2. pointer' = [pointer EXCEPT !.left = pointer.left - 1]
      BY <2>2 DEF Tick, Aged
    <3>3. pointer.left > 0
      BY <2>2, Parts
    <3> QED
      BY <3>1, <3>2, <3>3 DEF TypeOK, TokensHeld
  <2> QED
    BY <2>1, <2>2
<1>4. snapshot' \in [Token -> [pack: Pack, left: 0..SnapshotTtl]]
  <2>1. \A k \in Token : Aged(snapshot[k], NoSnapshot) \in [pack: Pack, left: 0..SnapshotTtl]
    <3> SUFFICES ASSUME NEW k \in Token, ~(snapshot[k].left <= 1)
                 PROVE  [snapshot[k] EXCEPT !.left = snapshot[k].left - 1]
                          \in [pack: Pack, left: 0..SnapshotTtl]
      BY EmptyTypes DEF Aged
    <3>1. snapshot[k].left - 1 \in 0..SnapshotTtl
      BY Parts, CacheConstants
    <3> QED
      BY <3>1 DEF TypeOK
  <2> QED
    BY <2>1 DEF Tick
<1>5. \A t \in Thread : /\ job'[t] \in Job /\ job'[t].token = job[t].token
  <2> TAKE t \in Thread
  <2>1. CASE pc[t] = "idle"
    BY <2>1, Parts DEF Tick
  <2>2. CASE pc[t] # "idle"
    <3>1. job[t].flight + 1 \in 0..MaxFlight
      BY <2>2, Parts, CacheConstants DEF Tick
    <3>2. job'[t] = [job[t] EXCEPT !.flight = job[t].flight + 1]
      BY <2>2 DEF Tick
    <3> QED
      BY <3>1, <3>2, Parts DEF Job
  <2> QED
    BY <2>1, <2>2
<1>6. job' \in [Thread -> Job]
  BY <1>5 DEF Tick
<1>7. UNCHANGED <<active, lkg, pc>>
  BY DEF Tick
<1>8. TokensHeld'
  BY <1>3, <1>5, <1>7 DEF TokensHeld
<1> QED
  BY <1>1, <1>2, <1>3, <1>4, <1>6, <1>7, <1>8 DEF TypeOK

\* ... and a crash.
LEMMA CrashTyped ==
    ASSUME Typed, NEW r \in Replica, Crash(r)
    PROVE  Typed'
<1>1. l1' \in [Replica -> [pack: Pack, age: 0..(Ttl + 1)]]
  BY EmptyTypes DEF Crash, Typed, TypeOK
<1>2. lkg' \in [Replica -> Pack]
  BY EmptyTypes DEF Crash, Typed, TypeOK
<1>3. pc' \in [Thread -> Statement]
  BY DEF Crash, Typed, TypeOK, Statement
<1>4. job' \in [Thread -> Job]
  BY EmptyTypes DEF Crash, Typed, TypeOK
<1>5. TypeOK'
  BY <1>1, <1>2, <1>3, <1>4 DEF Crash, Typed, TypeOK
<1>6. TokensHeld'
  BY DEF Crash, Typed, TokensHeld
<1> QED
  BY <1>5, <1>6 DEF Typed

\* Every step leaves the state typed.
LEMMA NextTyped == Typed /\ [Next]_vars => Typed'
<1> SUFFICES ASSUME Typed, [Next]_vars PROVE Typed'
  OBVIOUS
<1>1. CASE UNCHANGED vars
  BY <1>1 DEF vars, Typed, TypeOK, TokensHeld
<1>2. CASE \E t \in Thread : Get(t) \/ Activate(t) \/ Refresh(t) \/ Step(t)
  BY <1>2, BeginTyped, ReadTyped, WriteTyped DEF Step
<1>3. CASE Tick
  BY <1>3, TickTyped
<1>4. CASE \E r \in Replica : Crash(r)
  BY <1>4, CrashTyped
<1> QED
  BY <1>1, <1>2, <1>3, <1>4 DEF Next

\* Every variable of the cache keeps its type, whatever fails.
THEOREM CacheTypeCorrect == Spec => []TypeOK
<1>1. Typed => TypeOK
  BY DEF Typed
<1> QED
  BY <1>1, InitTyped, NextTyped, PTL DEF Spec
-----------------------------------------------------------------------------
(***************************************************************************)
(* How old a served pack can be.                                           *)
(***************************************************************************)
\* PostgreSQL answers, and every pack is one for no region.
Healthy == Region = {NullRegion} /\ "postgres" \notin Faults

\* Constants and ages as the arithmetic below needs them.
LEMMA AgeParts ==
    ASSUME TypeOK
    PROVE  /\ Ttl \in Nat /\ SnapshotTtl \in Nat /\ MaxFlight \in Nat /\ SourceAge \in Nat
           /\ \A p \in Pack : Age(p) \in Nat
           /\ \A r \in Replica : Age(l1[r].pack) \in Nat /\ l1[r].age \in Nat
           /\ \A k \in Token : Age(snapshot[k].pack) \in Nat /\ snapshot[k].left \in Nat
           /\ \A t \in Thread : /\ Age(job[t].pack) \in Nat /\ job[t].flight \in Nat
                                /\ job[t].flight <= MaxFlight /\ Home[t] \in Replica
<1>1. Ttl \in Nat /\ SnapshotTtl \in Nat /\ MaxFlight \in Nat /\ SourceAge \in Nat
  BY Parts, CacheConstants
<1>2. \A p \in Pack : Age(p) \in Nat
  BY Parts DEF Age
<1> QED
  BY <1>1, <1>2, Parts

\* The initial state has no ages.
LEMMA InitAges == Init => Ages
<1> SUFFICES ASSUME Init PROVE Ages
  OBVIOUS
<1>1. Typed
  BY InitTyped
<1>2. OnlyPastAges
  BY CacheConstants DEF Init, OnlyPastAges
<1>3. \A p \in Pack : Age(p) = 0
  BY DEF Init, Age, Pack
<1>4. SnapshotAge
  BY <1>1, <1>3, AgeParts, Parts DEF Typed, Init, SnapshotAge, NoSnapshot
<1>5. L1Age
  BY <1>1, <1>3, AgeParts, Parts DEF Typed, L1Age
<1>6. \A t \in Thread : AgeInFlight(t)
  BY DEF Init, AgeInFlight
<1> QED
  BY <1>1, <1>2, <1>4, <1>5, <1>6 DEF Ages, Typed

\* A step of one thread keeps the ages in bounds when the packs it moves are
\* young enough for where it puts them.
LEMMA StepAges ==
    ASSUME Ages, Typed', NEW t \in Thread, since' = since, OnlyPastAges',
           \A u \in Thread : u # t => pc'[u] = pc[u] /\ job'[u] = job[u],
           \A k \in Token : \/ snapshot'[k] = snapshot[k]
                            \/ Age(snapshot'[k].pack) + snapshot'[k].left
                                 <= MaxFlight + SnapshotTtl,
           \A r \in Replica : \/ l1'[r].pack = l1[r].pack
                              \/ Age(l1'[r].pack) <= SourceAge + MaxFlight,
           L1Age', AgeInFlight(t)'
    PROVE  Ages'
<1>1. \A p : since'[p.gen] = Age(p)
  BY DEF Age
<1>2. SnapshotAge'
  BY <1>1 DEF Ages, SnapshotAge, Age
<1>3. ASSUME NEW u \in Thread, u # t PROVE AgeInFlight(u)'
  <2>1. AgeInFlight(u) /\ pc'[u] = pc[u] /\ job'[u] = job[u]
    BY <1>3 DEF Ages
  <2>2. pc[u] \in {"stamp", "return"} =>
          Age(l1'[Home[u]].pack) <= SourceAge + MaxFlight + job[u].flight
    <3>1. /\ Age(l1[Home[u]].pack) \in Nat /\ SourceAge \in Nat /\ MaxFlight \in Nat
          /\ job[u].flight \in Nat /\ Home[u] \in Replica
      BY AgeParts DEF Ages
    <3>2. CASE l1'[Home[u]].pack = l1[Home[u]].pack
      BY <2>1, <3>2 DEF AgeInFlight
    <3>3. CASE Age(l1'[Home[u]].pack) <= SourceAge + MaxFlight
      <4>1. Age(l1'[Home[u]].pack) \in Nat
        BY <3>1, Parts, AgeParts DEF Ages, Typed, TypeOK
      <4> QED
        BY <3>1, <3>3, <4>1
    <3> QED
      BY <3>1, <3>2, <3>3
  <2>3. UNCHANGED SourceAge
    BY DEF SourceAge
  <2> QED
    BY <1>1, <2>1, <2>2, <2>3 DEF AgeInFlight, Age
<1> QED
  BY <1>2, <1>3 DEF Ages, Typed

\* What a step that is neither Propagate, Install nor Stamp leaves alone.
LEMMA QuietAges ==
    ASSUME Ages, Typed', NEW t \in Thread, UNCHANGED <<since, l1, snapshot>>,
           OnlyPastAges', AgeInFlight(t)',
           \A u \in Thread : u # t => pc'[u] = pc[u] /\ job'[u] = job[u]
    PROVE  Ages'
<1>1. L1Age'
  BY DEF Ages, L1Age, Age, SourceAge
<1> QED
  BY <1>1, StepAges

\* Get, Activate and Refresh move no pack; a new generation has no age yet.
LEMMA BeginAges ==
    ASSUME Ages, NEW t \in Thread, Get(t) \/ Activate(t) \/ Refresh(t)
    PROVE  Ages'
<1>1. Typed'
  BY BeginTyped DEF Ages, Typed
<1>2. UNCHANGED <<since, l1, snapshot>>
  BY DEF Get, Activate, Refresh
<1>3. OnlyPastAges'
  <2>1. active'.gen = active.gen \/ active'.gen = active.gen + 1
    BY DEF Get, Activate, Refresh
  <2>2. active.gen \in Nat
    BY Parts DEF Ages
  <2> QED
    BY <1>2, <2>1, <2>2, CacheConstants DEF Ages, OnlyPastAges
<1>4. /\ pc'[t] \in {"pointer", "load"}
      /\ \A u \in Thread : u # t => pc'[u] = pc[u] /\ job'[u] = job[u]
  BY DEF Get, Activate, Refresh, Begin, Ages, TypeOK
<1>5. AgeInFlight(t)'
  BY <1>4 DEF AgeInFlight
<1> QED
  BY <1>1, <1>2, <1>3, <1>4, <1>5, QuietAges

\* A pack read from Redis is at most SourceAge old, one read from the database
\* is the active one; a healthy database does not fail.
LEMMA ReadAges ==
    ASSUME Healthy, Ages, NEW t \in Thread,
           ReadPointer(t) \/ ReadSnapshot(t) \/ LoadSource(t) \/ LoadFails(t)
    PROVE  Ages'
<1>1. Typed'
  BY ReadTyped DEF Ages, Typed
<1>2. UNCHANGED <<active, since, l1, snapshot>>
  BY DEF ReadPointer, ReadSnapshot, LoadSource, LoadFails
<1>3. OnlyPastAges'
  BY <1>2 DEF Ages, OnlyPastAges
<1>4. \A u \in Thread : u # t => pc'[u] = pc[u] /\ job'[u] = job[u]
  BY DEF ReadPointer, ReadSnapshot, LoadSource, LoadFails, Go, Ages, TypeOK
<1>5. AgeInFlight(t)'
  <2>1. CASE pc'[t] \in {"snapshot", "load"}
    BY <2>1 DEF AgeInFlight
  <2>2. CASE LoadSource(t)
    <3>1. /\ pc'[t] = "propagate" /\ job'[t].pack = active
          /\ job'[t].flight = job[t].flight
      BY <2>2 DEF LoadSource, Go, Ages, TypeOK, Job
    <3>2. Age(active) = 0
      BY Parts DEF Ages, OnlyPastAges, Age
    <3>3. job[t].flight \in Nat
      BY AgeParts DEF Ages
    <3> QED
      BY <1>2, <3>1, <3>2, <3>3 DEF AgeInFlight, Age
  <2>3. CASE ReadSnapshot(t) /\ pc'[t] # "load"
    <3> DEFINE key == snapshot[job[t].token]
    <3>1. job[t].token \in Token /\ Distributed
      BY <2>3 DEF ReadSnapshot, Ages, TokensHeld
    <3>2. /\ pc'[t] = "install" /\ job'[t].pack = key.pack
          /\ job'[t].flight = job[t].flight
      BY <2>3 DEF ReadSnapshot, Go, Ages, TypeOK, Job
    <3>3. Age(key.pack) + key.left <= MaxFlight + SnapshotTtl
      BY <3>1 DEF Ages, SnapshotAge
    <3>4. /\ Age(key.pack) \in Nat /\ key.left \in Nat /\ job[t].flight \in Nat
          /\ MaxFlight \in Nat /\ SnapshotTtl \in Nat
      BY <3>1, AgeParts DEF Ages
    <3>5. Age(key.pack) <= SourceAge + job[t].flight
      BY <3>1, <3>3, <3>4 DEF SourceAge
    <3> QED
      BY <1>2, <3>2, <3>5 DEF AgeInFlight, Age, SourceAge
  <2>4. ~LoadFails(t)
    BY Parts DEF LoadFails, Healthy, Ages
  <2>5. CASE ReadPointer(t)
    <3>1. pc'[t] \in {"snapshot", "load"}
      BY <2>5 DEF ReadPointer, Go, Ages, TypeOK
    <3> QED
      BY <2>1, <3>1
  <2> QED
    BY <2>1, <2>2, <2>3, <2>4, <2>5
<1> QED
  BY <1>1, <1>2, <1>3, <1>4, <1>5, QuietAges

\* The writes to Redis: what was loaded is as old as the operation at most.
LEMMA PropagateAges ==
    ASSUME Ages, NEW t \in Thread, Propagate(t) \/ SetPointer(t)
    PROVE  Ages'
<1>1. Typed'
  BY WriteTyped DEF Ages, Typed
<1>2. UNCHANGED <<active, since, l1>>
  BY DEF Propagate, SetPointer
<1>3. OnlyPastAges' /\ L1Age'
  BY <1>2 DEF Ages, OnlyPastAges, L1Age, Age, SourceAge
<1>4. \A u \in Thread : u # t => pc'[u] = pc[u] /\ job'[u] = job[u]
  BY DEF Propagate, SetPointer, Go, Ages, TypeOK
<1>5. Age(job[t].pack) <= job[t].flight
  BY DEF Propagate, SetPointer, Ages, AgeInFlight
<1>6. /\ Age(job[t].pack) \in Nat /\ job[t].flight \in Nat /\ job[t].flight <= MaxFlight
      /\ MaxFlight \in Nat /\ SnapshotTtl \in Nat /\ SourceAge \in Nat
  BY AgeParts DEF Ages
<1>7. /\ pc'[t] \in {"setPointer", "install"} /\ job'[t].pack = job[t].pack
      /\ job'[t].flight = job[t].flight
  BY DEF Propagate, SetPointer, Go, Ages, TypeOK, Job
<1>8. AgeInFlight(t)'
  BY <1>2, <1>5, <1>6, <1>7 DEF AgeInFlight, Age, SourceAge
<1>9. \A k \in Token : \/ snapshot'[k] = snapshot[k]
                       \/ snapshot'[k] = [pack |-> job[t].pack, left |-> SnapshotTtl]
  BY DEF Propagate, SetPointer, Ages, TypeOK
<1>10. Age(job[t].pack) + SnapshotTtl <= MaxFlight + SnapshotTtl
  BY <1>5, <1>6
<1>11. \A k \in Token : \/ snapshot'[k] = snapshot[k]
                        \/ Age(snapshot'[k].pack) + snapshot'[k].left
                             <= MaxFlight + SnapshotTtl
  BY <1>9, <1>10
<1> QED
  BY <1>1, <1>2, <1>3, <1>4, <1>8, <1>11, StepAges

\* TTLCache assigns _value: a replica's threads may follow one another in any
\* order, so its age is bounded by the source's and one flight, not by its own.
LEMMA InstallAges ==
    ASSUME Ages, NEW t \in Thread, Install(t)
    PROVE  Ages'
<1>1. Typed'
  BY WriteTyped DEF Ages, Typed
<1>2. UNCHANGED <<active, since, snapshot, job>>
  BY DEF Install
<1>3. OnlyPastAges'
  BY <1>2 DEF Ages, OnlyPastAges
<1>4. pc'[t] = "stamp" /\ \A u \in Thread : u # t => pc'[u] = pc[u] /\ job'[u] = job[u]
  BY <1>2 DEF Install, Go, Ages, TypeOK
<1>5. Age(job[t].pack) <= SourceAge + job[t].flight
  BY DEF Install, Ages, AgeInFlight
<1>6. /\ Age(job[t].pack) \in Nat /\ job[t].flight \in Nat /\ job[t].flight <= MaxFlight
      /\ MaxFlight \in Nat /\ SourceAge \in Nat /\ Home[t] \in Replica
  BY AgeParts DEF Ages
<1>7. /\ l1'[Home[t]].pack = job[t].pack
      /\ \A r \in Replica : /\ l1'[r].age = l1[r].age
                            /\ r # Home[t] => l1'[r].pack = l1[r].pack
  BY <1>6 DEF Install, Ages, TypeOK
<1>8. Age(job[t].pack) <= SourceAge + MaxFlight
  BY <1>5, <1>6
<1>9. L1Age'
  <2> SUFFICES ASSUME NEW r \in Replica, l1[r].age <= Ttl
               PROVE  Age(l1'[r].pack) <= SourceAge + 2 * MaxFlight + l1[r].age
    BY <1>2, <1>7 DEF L1Age, Age, SourceAge
  <2>1. CASE r = Home[t]
    <3>1. l1[r].age \in Nat
      BY AgeParts DEF Ages
    <3> QED
      BY <1>6, <1>7, <1>8, <2>1, <3>1
  <2>2. CASE r # Home[t]
    BY <1>7, <2>2 DEF Ages, L1Age
  <2> QED
    BY <2>1, <2>2
<1>10. Age(job[t].pack) <= SourceAge + MaxFlight + job[t].flight
  BY <1>6, <1>8
<1>11. AgeInFlight(t)'
  BY <1>2, <1>4, <1>5, <1>7, <1>10 DEF AgeInFlight, Age, SourceAge
<1>12. \A r \in Replica : \/ l1'[r].pack = l1[r].pack
                          \/ Age(l1'[r].pack) <= SourceAge + MaxFlight
  BY <1>7, <1>8
<1> QED
  BY <1>1, <1>2, <1>3, <1>4, <1>9, <1>11, <1>12, StepAges

\* TTLCache assigns _loaded_at, on whatever _value is by then.
LEMMA StampAges ==
    ASSUME Ages, NEW t \in Thread, Stamp(t)
    PROVE  Ages'
<1>1. Typed'
  BY WriteTyped DEF Ages, Typed
<1>2. UNCHANGED <<active, since, snapshot, job>>
  BY DEF Stamp
<1>3. OnlyPastAges'
  BY <1>2 DEF Ages, OnlyPastAges
<1>4. pc'[t] = "return" /\ \A u \in Thread : u # t => pc'[u] = pc[u] /\ job'[u] = job[u]
  BY <1>2 DEF Stamp, Go, Ages, TypeOK
<1>5. Age(l1[Home[t]].pack) <= SourceAge + MaxFlight + job[t].flight
  BY DEF Stamp, Ages, AgeInFlight
<1>6. /\ Age(l1[Home[t]].pack) \in Nat /\ job[t].flight \in Nat
      /\ job[t].flight <= MaxFlight
      /\ MaxFlight \in Nat /\ SourceAge \in Nat /\ Ttl \in Nat /\ Home[t] \in Replica
  BY AgeParts DEF Ages
<1>7. \A r \in Replica : /\ l1'[r].pack = l1[r].pack
                         /\ r # Home[t] => l1'[r].age = l1[r].age
  BY <1>6 DEF Stamp, Ages, TypeOK
<1>8. l1'[Home[t]].age <= Ttl =>
        Age(l1[Home[t]].pack) <= SourceAge + 2 * MaxFlight + l1'[Home[t]].age
  <2>1. PICK age \in {0, job[t].flight} :
          l1'[Home[t]].age = IF age <= Ttl THEN age ELSE Ttl + 1
    BY <1>6 DEF Stamp, Ages, TypeOK
  <2> QED
    BY <1>5, <1>6, <2>1
<1>9. L1Age'
  BY <1>2, <1>7, <1>8 DEF Ages, L1Age, Age, SourceAge
<1>10. AgeInFlight(t)'
  BY <1>2, <1>4, <1>5, <1>6, <1>7 DEF AgeInFlight, Age, SourceAge
<1> QED
  BY <1>1, <1>2, <1>3, <1>4, <1>7, <1>9, <1>10, StepAges

\* get() returns.
LEMMA ReturnAges ==
    ASSUME Ages, NEW t \in Thread, Return(t)
    PROVE  Ages'
<1>1. Typed'
  BY WriteTyped DEF Ages, Typed
<1>2. UNCHANGED <<active, since, l1, snapshot>>
  BY DEF Return
<1>3. OnlyPastAges'
  BY <1>2 DEF Ages, OnlyPastAges
<1>4. pc'[t] = "idle" /\ \A u \in Thread : u # t => pc'[u] = pc[u] /\ job'[u] = job[u]
  BY DEF Return, Go, Ages, TypeOK
<1>5. AgeInFlight(t)'
  BY <1>4 DEF AgeInFlight
<1> QED
  BY <1>1, <1>2, <1>3, <1>4, <1>5, QuietAges

\* A second passes: every age grows by one at most, and with it what the
\* bounds are made of.
LEMMA TickAges ==
    ASSUME Ages, Tick
    PROVE  Ages'
<1>1. Typed'
  BY TickTyped DEF Ages, Typed
<1>2. OnlyPastAges'
  <2>1. active.gen \in Nat /\ MaxGen \in Nat
    BY Parts, CacheConstants DEF Ages
  <2> QED
    BY <2>1 DEF Tick, Ages, OnlyPastAges
<1>3. \A p \in Pack : /\ since'[p.gen] \in Nat /\ since'[p.gen] <= Age(p) + 1
  <2> TAKE p \in Pack
  <2>1. p.gen \in 0..MaxGen /\ Age(p) \in Nat /\ Age(p) <= Horizon /\ Horizon \in Nat
    BY Parts DEF Ages, Age
  <2>2. since'[p.gen] = IF p.gen \in 1..(active.gen - 1)
                        THEN Capped(since[p.gen], Horizon) ELSE 0
    BY <2>1 DEF Tick
  <2> QED
    BY <2>1, <2>2 DEF Capped, Age
<1>4. SnapshotAge'
  <2> SUFFICES ASSUME NEW k \in Token
               PROVE  since'[snapshot'[k].pack.gen] + snapshot'[k].left
                        <= MaxFlight + SnapshotTtl
    BY DEF SnapshotAge, Age
  <2>1. /\ snapshot[k].pack \in Pack /\ snapshot[k].left \in Nat
        /\ MaxFlight \in Nat /\ SnapshotTtl \in Nat /\ Age(snapshot[k].pack) \in Nat
    BY Parts, AgeParts DEF Ages
  <2>2. CASE snapshot[k].left <= 1
    <3>1. snapshot'[k] = NoSnapshot
      BY <2>2 DEF Tick, Aged
    <3>2. since'[0] = 0
      BY <1>2 DEF OnlyPastAges
    <3> QED
      BY <2>1, <3>1, <3>2 DEF NoSnapshot, NoPack
  <2>3. CASE ~(snapshot[k].left <= 1)
    <3>1. /\ snapshot'[k].pack = snapshot[k].pack
          /\ snapshot'[k].left = snapshot[k].left - 1
      BY <2>3 DEF Tick, Aged, Ages, TypeOK
    <3>2. Age(snapshot[k].pack) + snapshot[k].left <= MaxFlight + SnapshotTtl
      BY DEF Ages, SnapshotAge
    <3>3. /\ since'[snapshot[k].pack.gen] \in Nat
          /\ since'[snapshot[k].pack.gen] <= Age(snapshot[k].pack) + 1
      BY <1>3, <2>1
    <3> QED
      BY <2>1, <3>1, <3>2, <3>3
  <2> QED
    BY <2>2, <2>3
<1>5. \A r \in Replica : l1'[r].pack = l1[r].pack /\ l1'[r].age = Capped(l1[r].age, Ttl + 1)
  BY DEF Tick, Ages, TypeOK
<1>6. L1Age'
  <2> SUFFICES ASSUME NEW r \in Replica, l1'[r].age <= Ttl
               PROVE  since'[l1[r].pack.gen] <= SourceAge + 2 * MaxFlight + l1'[r].age
    BY <1>5 DEF L1Age, Age, SourceAge
  <2>1. /\ l1[r].pack \in Pack /\ l1[r].age \in Nat /\ Age(l1[r].pack) \in Nat
        /\ MaxFlight \in Nat /\ SourceAge \in Nat /\ Ttl \in Nat
    BY Parts, AgeParts DEF Ages
  <2>2. l1[r].age <= Ttl /\ l1'[r].age = l1[r].age + 1
    BY <1>5, <2>1 DEF Capped
  <2>3. Age(l1[r].pack) <= SourceAge + 2 * MaxFlight + l1[r].age
    BY <2>2 DEF Ages, L1Age
  <2>4. since'[l1[r].pack.gen] \in Nat /\ since'[l1[r].pack.gen] <= Age(l1[r].pack) + 1
    BY <1>3, <2>1
  <2> QED
    BY <2>1, <2>2, <2>3, <2>4
<1>7. ASSUME NEW t \in Thread PROVE AgeInFlight(t)'
  <2>1. CASE pc[t] = "idle"
    BY <2>1 DEF Tick, AgeInFlight
  <2>2. CASE pc[t] # "idle"
    <3>1. /\ job'[t].pack = job[t].pack /\ job'[t].flight = job[t].flight + 1
          /\ pc'[t] = pc[t]
      BY <2>2 DEF Tick, Ages, TypeOK, Job
    <3>2. /\ job[t].pack \in Pack /\ l1[Home[t]].pack \in Pack /\ Home[t] \in Replica
          /\ Age(job[t].pack) \in Nat /\ Age(l1[Home[t]].pack) \in Nat
          /\ job[t].flight \in Nat /\ MaxFlight \in Nat /\ SourceAge \in Nat
      BY Parts, AgeParts DEF Ages
    <3>3. /\ since'[job[t].pack.gen] \in Nat
          /\ since'[job[t].pack.gen] <= Age(job[t].pack) + 1
          /\ since'[l1[Home[t]].pack.gen] \in Nat
          /\ since'[l1[Home[t]].pack.gen] <= Age(l1[Home[t]].pack) + 1
      BY <1>3, <3>2
    <3>4. AgeInFlight(t)
      BY DEF Ages
    <3>5. pc[t] \in {"propagate", "setPointer"} =>
            since'[job[t].pack.gen] <= job[t].flight + 1
      BY <3>2, <3>3, <3>4 DEF AgeInFlight
    <3>6. pc[t] \in {"install", "stamp"} =>
            since'[job[t].pack.gen] <= SourceAge + (job[t].flight + 1)
      BY <3>2, <3>3, <3>4 DEF AgeInFlight
    <3>7. pc[t] \in {"stamp", "return"} =>
            since'[l1[Home[t]].pack.gen] <= SourceAge + MaxFlight + (job[t].flight + 1)
      BY <3>2, <3>3, <3>4 DEF AgeInFlight
    <3> QED
      BY <1>5, <3>1, <3>2, <3>5, <3>6, <3>7 DEF AgeInFlight, Age, SourceAge
  <2> QED
    BY <2>1, <2>2
<1> QED
  BY <1>1, <1>2, <1>4, <1>6, <1>7 DEF Ages, Typed

\* A replica that crashes forgets its packs.
LEMMA CrashAges ==
    ASSUME Ages, NEW r \in Replica, Crash(r)
    PROVE  Ages'
<1>1. Typed'
  BY CrashTyped DEF Ages, Typed
<1>2. UNCHANGED <<active, since, snapshot>>
  BY DEF Crash
<1>3. OnlyPastAges' /\ SnapshotAge'
  BY <1>2 DEF Ages, OnlyPastAges, SnapshotAge, Age
<1>4. /\ l1'[r] = ColdL1 /\ \A s \in Replica : s # r => l1'[s] = l1[s]
      /\ \A t \in Thread : /\ Home[t] = r => pc'[t] = "idle"
                           /\ Home[t] # r => pc'[t] = pc[t] /\ job'[t] = job[t]
  BY DEF Crash, Ages, TypeOK
<1>5. since[0] = 0 /\ SourceAge \in Nat /\ MaxFlight \in Nat
  BY AgeParts DEF Ages, OnlyPastAges
<1>6. L1Age'
  BY <1>2, <1>4, <1>5 DEF Ages, L1Age, Age, SourceAge, ColdL1, NoPack
<1>7. ASSUME NEW t \in Thread PROVE AgeInFlight(t)'
  <2>1. Home[t] \in Replica
    BY CacheConstants
  <2>2. CASE Home[t] = r
    BY <1>4, <2>2 DEF AgeInFlight
  <2>3. CASE Home[t] # r
    BY <1>2, <1>4, <2>1, <2>3 DEF Ages, AgeInFlight, Age, SourceAge
  <2> QED
    BY <2>2, <2>3
<1> QED
  BY <1>1, <1>3, <1>6, <1>7 DEF Ages, Typed

\* Every step keeps the ages in bounds.
LEMMA NextAges ==
    ASSUME Healthy
    PROVE  Ages /\ [Next]_vars => Ages'
<1> SUFFICES ASSUME Ages, [Next]_vars PROVE Ages'
  OBVIOUS
<1>1. CASE UNCHANGED vars
  BY <1>1 DEF vars, Ages, TypeOK, TokensHeld, OnlyPastAges, SnapshotAge, L1Age,
     AgeInFlight, Age, SourceAge
<1>2. CASE \E t \in Thread : Get(t) \/ Activate(t) \/ Refresh(t) \/ Step(t)
  BY <1>2, BeginAges, ReadAges, PropagateAges, InstallAges, StampAges, ReturnAges
     DEF Step
<1>3. CASE Tick
  BY <1>3, TickAges
<1>4. CASE \E r \in Replica : Crash(r)
  BY <1>4, CrashAges
<1> QED
  BY <1>1, <1>2, <1>3, <1>4 DEF Next

\* The bound follows from the age of L1, or of what a returning get() stamped.
LEMMA AgesBound == Ages => BoundedStaleness
<1> SUFFICES ASSUME Ages, NEW r \in Replica, Serving(r)
             PROVE  Age(l1[r].pack) <= Ttl + 2 * MaxFlight + SourceAge
  BY DEF BoundedStaleness, Age
<1>1. /\ Age(l1[r].pack) \in Nat /\ l1[r].age \in Nat
      /\ Ttl \in Nat /\ MaxFlight \in Nat /\ SourceAge \in Nat
  BY AgeParts DEF Ages
<1>2. CASE Fresh(r)
  <2>1. l1[r].age <= Ttl /\ Age(l1[r].pack) <= SourceAge + 2 * MaxFlight + l1[r].age
    BY <1>2 DEF Fresh, Ages, L1Age
  <2> QED
    BY <1>1, <2>1
<1>3. ASSUME NEW t \in Thread, Home[t] = r, pc[t] = "return"
      PROVE  Age(l1[r].pack) <= Ttl + 2 * MaxFlight + SourceAge
  <2>1. Age(l1[r].pack) <= SourceAge + MaxFlight + job[t].flight
    BY <1>3 DEF Ages, AgeInFlight
  <2>2. job[t].flight \in Nat /\ job[t].flight <= MaxFlight
    BY <1>3, AgeParts DEF Ages
  <2> QED
    BY <1>1, <2>1, <2>2
<1> QED
  BY <1>2, <1>3 DEF Serving

\* While PostgreSQL answers, no replica serves a pack superseded longer ago
\* than the L1 lifetime, two flights and, with Redis, a snapshot's lifetime and
\* the flight of its writer, however threads of get() and refresh() interleave,
\* Redis fails and replicas crash.
THEOREM StalenessIsBounded ==
    ASSUME Healthy
    PROVE  Spec => []BoundedStaleness
<1>1. Ages /\ [Next]_vars => Ages'
  BY NextAges
<1> QED
  BY <1>1, InitAges, AgesBound, PTL DEF Spec
-----------------------------------------------------------------------------
(***************************************************************************)
(* A replica that has a pack never fails a request.                        *)
(***************************************************************************)
\* Steps of a thread that leaves L1 and Redis snapshots as they are, and the
\* last known good packs of other replicas.
LEMMA QuietBacked ==
    ASSUME Typed, Backed, NEW t \in Thread, UNCHANGED <<l1, snapshot>>,
           active' # NoPack,
           \A u \in Thread : u # t => pc'[u] = pc[u] /\ job'[u] = job[u],
           \A r \in Replica : lkg'[r] = lkg[r] \/ lkg'[r] # NoPack,
           pc'[t] \in {"propagate", "setPointer"} => job'[t].pack # NoPack,
           pc'[t] \in {"setPointer", "install"} => lkg'[Home[t]] # NoPack
    PROVE  Backed'
<1>1. \A u \in Thread : Home[u] \in Replica
  BY CacheConstants
<1> QED
  BY <1>1 DEF Backed

\* The start of an operation, and its end.
LEMMA BeginBacked ==
    ASSUME Typed, Backed, NEW t \in Thread,
           Get(t) \/ Activate(t) \/ Refresh(t) \/ Return(t)
    PROVE  Backed'
<1>1. UNCHANGED <<l1, lkg, snapshot>>
  BY DEF Get, Activate, Refresh, Return
<1>2. active' # NoPack
  <2>1. active' = active \/ (active.gen \in Nat /\ active'.gen = active.gen + 1)
    BY Parts DEF Typed, Get, Activate, Refresh, Return
  <2> QED
    BY <2>1 DEF Backed, NoPack
<1>3. /\ pc'[t] \in {"pointer", "load", "idle"}
      /\ \A u \in Thread : u # t => pc'[u] = pc[u] /\ job'[u] = job[u]
  BY DEF Get, Activate, Refresh, Return, Begin, Go, Typed, TypeOK
<1> QED
  BY <1>1, <1>2, <1>3, QuietBacked

\* Reading: what goes on to be installed has become the last known good pack,
\* or was it.
LEMMA ReadBacked ==
    ASSUME Typed, Backed, NEW t \in Thread,
           ReadPointer(t) \/ ReadSnapshot(t) \/ LoadSource(t) \/ LoadFails(t)
    PROVE  Backed'
<1>1. UNCHANGED <<active, l1, snapshot>> /\ active' # NoPack
  BY DEF ReadPointer, ReadSnapshot, LoadSource, LoadFails, Backed
<1>2. \A u \in Thread : u # t => pc'[u] = pc[u] /\ job'[u] = job[u]
  BY DEF ReadPointer, ReadSnapshot, LoadSource, LoadFails, Go, Typed, TypeOK
<1>3. Home[t] \in Replica
  BY CacheConstants
<1>4. CASE ReadPointer(t)
  <2>1. lkg' = lkg /\ pc'[t] \in {"snapshot", "load"}
    BY <1>4 DEF ReadPointer, Go, Typed, TypeOK
  <2> QED
    BY <1>1, <1>2, <2>1, QuietBacked
<1>5. CASE ReadSnapshot(t)
  <2>1. job[t].token \in Token
    BY <1>5 DEF ReadSnapshot, Typed, TokensHeld
  <2>2. \/ pc'[t] = "load" /\ lkg' = lkg
        \/ /\ pc'[t] = "install" /\ snapshot[job[t].token].left > 0
           /\ lkg' = [lkg EXCEPT ![Home[t]] = snapshot[job[t].token].pack]
    BY <1>5 DEF ReadSnapshot, Go, Typed, TypeOK
  <2>3. snapshot[job[t].token].left > 0 => snapshot[job[t].token].pack # NoPack
    BY <2>1 DEF Backed
  <2>4. /\ \A r \in Replica : lkg'[r] = lkg[r] \/ lkg'[r] # NoPack
        /\ pc'[t] = "install" => lkg'[Home[t]] # NoPack
        /\ pc'[t] \in {"load", "install"}
    BY <1>3, <2>2, <2>3 DEF Typed, TypeOK
  <2> QED
    BY <1>1, <1>2, <2>4, QuietBacked
<1>6. CASE LoadSource(t)
  <2>1. lkg' = lkg /\ pc'[t] = "propagate" /\ job'[t].pack = active
    BY <1>6 DEF LoadSource, Go, Typed, TypeOK, Job
  <2> QED
    BY <1>1, <1>2, <2>1, QuietBacked
<1>7. CASE LoadFails(t)
  <2>1. lkg' = lkg /\ pc'[t] \in {"failed", "install"}
        /\ (pc'[t] = "install" => lkg[Home[t]] # NoPack)
    BY <1>7 DEF LoadFails, Go, Typed, TypeOK
  <2> QED
    BY <1>1, <1>2, <2>1, QuietBacked
<1> QED
  BY <1>4, <1>5, <1>6, <1>7

\* Writing: _last_known_good is assigned before Redis and L1 are.
LEMMA WriteBacked ==
    ASSUME Typed, Backed, NEW t \in Thread,
           Propagate(t) \/ SetPointer(t) \/ Install(t) \/ Stamp(t)
    PROVE  Backed'
<1>1. active' # NoPack
  BY DEF Propagate, SetPointer, Install, Stamp, Backed
<1>2. \A u \in Thread : /\ Home[u] \in Replica
                        /\ u # t => pc'[u] = pc[u] /\ job'[u] = job[u]
  BY CacheConstants DEF Propagate, SetPointer, Install, Stamp, Go, Typed, TypeOK
<1>3. CASE Propagate(t)
  <2>1. job[t].pack # NoPack
    BY <1>3 DEF Propagate, Backed
  <2>2. /\ l1' = l1 /\ lkg' = [lkg EXCEPT ![Home[t]] = job[t].pack]
        /\ pc'[t] \in {"setPointer", "install"} /\ job'[t].pack = job[t].pack
        /\ \A k \in Token : \/ snapshot'[k] = snapshot[k]
                            \/ snapshot'[k].pack = job[t].pack
    BY <1>3 DEF Propagate, Go, Typed, TypeOK, Job
  <2>3. \A r \in Replica : lkg'[r] = lkg[r] \/ lkg'[r] # NoPack
    BY <2>1, <2>2 DEF Typed, TypeOK
  <2>4. lkg'[Home[t]] # NoPack
    BY <1>2, <2>1, <2>2 DEF Typed, TypeOK
  <2> QED
    BY <1>1, <1>2, <2>1, <2>2, <2>3, <2>4 DEF Backed
<1>4. CASE SetPointer(t)
  <2>1. UNCHANGED <<l1, lkg, snapshot>> /\ pc'[t] = "install"
    BY <1>4 DEF SetPointer, Go, Typed, TypeOK
  <2>2. lkg[Home[t]] # NoPack
    BY <1>4 DEF SetPointer, Backed
  <2> QED
    BY <1>1, <1>2, <2>1, <2>2, QuietBacked
<1>5. CASE Install(t)
  <2>1. UNCHANGED <<lkg, snapshot, job>> /\ pc'[t] = "stamp"
    BY <1>5 DEF Install, Go, Typed, TypeOK
  <2>2. lkg[Home[t]] # NoPack
    BY <1>5 DEF Install, Backed
  <2>3. \A r \in Replica : r # Home[t] => l1'[r].pack = l1[r].pack
    BY <1>5 DEF Install, Typed, TypeOK
  <2> QED
    BY <1>1, <1>2, <2>1, <2>2, <2>3 DEF Backed
<1>6. CASE Stamp(t)
  <2>1. UNCHANGED <<lkg, snapshot, job>> /\ pc'[t] = "return"
    BY <1>6 DEF Stamp, Go, Typed, TypeOK
  <2>2. \A r \in Replica : l1'[r].pack = l1[r].pack
    BY <1>6 DEF Stamp, Typed, TypeOK
  <2> QED
    BY <1>1, <1>2, <2>1, <2>2 DEF Backed
<1> QED
  BY <1>3, <1>4, <1>5, <1>6

\* Time takes snapshots away whole.
LEMMA TickBacked ==
    ASSUME Typed, Backed, Tick
    PROVE  Backed'
<1>1. UNCHANGED <<active, lkg, pc>>
  BY DEF Tick
<1>2. \A r \in Replica : l1'[r].pack = l1[r].pack
  BY DEF Tick, Typed, TypeOK
<1>3. \A t \in Thread : job'[t].pack = job[t].pack
  BY DEF Tick, Typed, TypeOK, Job
<1>4. \A k \in Token : \/ snapshot'[k].left = 0
                       \/ snapshot'[k].pack = snapshot[k].pack /\ snapshot[k].left > 0
  <2> TAKE k \in Token
  <2>1. snapshot[k].left \in Nat
    BY Parts DEF Typed
  <2>2. CASE snapshot[k].left <= 1
    BY <2>2 DEF Tick, Aged, NoSnapshot
  <2>3. CASE ~(snapshot[k].left <= 1)
    BY <2>1, <2>3 DEF Tick, Aged, Typed, TypeOK
  <2> QED
    BY <2>2, <2>3
<1> QED
  BY <1>1, <1>2, <1>3, <1>4, CacheConstants DEF Backed

\* A replica that crashes has no pack to serve.
LEMMA CrashBacked ==
    ASSUME Typed, Backed, NEW r \in Replica, Crash(r)
    PROVE  Backed'
<1>1. UNCHANGED <<active, snapshot>>
  BY DEF Crash
<1>2. /\ l1'[r].pack = NoPack
      /\ \A s \in Replica : s # r => l1'[s] = l1[s] /\ lkg'[s] = lkg[s]
      /\ \A t \in Thread : /\ Home[t] = r => pc'[t] = "idle"
                           /\ Home[t] # r => pc'[t] = pc[t] /\ job'[t] = job[t]
  BY DEF Crash, Typed, TypeOK, ColdL1
<1>3. \A t \in Thread : Home[t] \in Replica
  BY CacheConstants
<1> QED
  BY <1>1, <1>2, <1>3 DEF Backed

\* Backed holds at the start and is kept by every step.
LEMMA NextBacked ==
    /\ Init => Typed /\ Backed
    /\ Typed /\ Backed /\ [Next]_vars => (Typed /\ Backed)'
<1>1. Init => Typed /\ Backed
  BY InitTyped DEF Init, Backed, ColdL1, NoPack, NoSnapshot
<1>2. ASSUME Typed, Backed, [Next]_vars PROVE (Typed /\ Backed)'
  <2>1. Typed'
    BY <1>2, NextTyped
  <2>2. CASE UNCHANGED vars
    BY <1>2, <2>1, <2>2 DEF vars, Backed
  <2>3. CASE \E t \in Thread : Get(t) \/ Activate(t) \/ Refresh(t) \/ Step(t)
    BY <1>2, <2>1, <2>3, BeginBacked, ReadBacked, WriteBacked DEF Step
  <2>4. CASE Tick
    BY <1>2, <2>1, <2>4, TickBacked
  <2>5. CASE \E r \in Replica : Crash(r)
    BY <1>2, <2>1, <2>5, CrashBacked
  <2> QED
    BY <1>2, <2>2, <2>3, <2>4, <2>5 DEF Next
<1> QED
  BY <1>1, <1>2

\* A request fails only in LoadFails, for want of a last known good pack.
LEMMA FailsOnlyCold ==
    ASSUME Typed, Backed, [Next]_vars, NEW t \in Thread,
           pc[t] # "failed", pc'[t] = "failed"
    PROVE  l1[Home[t]].pack = NoPack
<1>1. LoadFails(t)
  <2>1. pc # pc'
    OBVIOUS
  <2>2. ~Tick /\ ~UNCHANGED vars
    BY <2>1 DEF Tick, vars
  <2>3. ~\E r \in Replica : Crash(r)
    BY DEF Crash, Typed, TypeOK
  <2>4. PICK u \in Thread : Get(u) \/ Activate(u) \/ Refresh(u) \/ Step(u)
    BY <2>2, <2>3 DEF Next
  <2>5. u = t
    BY <2>4 DEF Get, Activate, Refresh, Step, Begin, Go, ReadPointer, ReadSnapshot,
       LoadSource, LoadFails, Propagate, SetPointer, Install, Stamp, Return, Typed, TypeOK
  <2> QED
    BY <2>4, <2>5 DEF Get, Activate, Refresh, Step, Begin, Go, ReadPointer,
       ReadSnapshot, LoadSource, Propagate, SetPointer, Install, Stamp, Return,
       Typed, TypeOK
<1>2. lkg[Home[t]] = NoPack
  BY <1>1 DEF LoadFails, Go, Typed, TypeOK
<1>3. Home[t] \in Replica
  BY CacheConstants
<1> QED
  BY <1>2, <1>3 DEF Backed

\* A replica with a pack in L1, however old, never fails a request: neither a
\* failing database, nor a failing Redis, nor an expired snapshot, nor another
\* thread takes its last known good pack away.
THEOREM WarmReplicasServe == Spec => WarmNeverFails
<1>1. Typed /\ Backed /\ [Next]_vars =>
        [\A t \in Thread : pc[t] # "failed" /\ pc'[t] = "failed"
           => l1[Home[t]].pack = NoPack]_vars
  BY FailsOnlyCold
<1> QED
  BY <1>1, NextBacked, PTL DEF Spec, WarmNeverFails
-----------------------------------------------------------------------------
(***************************************************************************)
(* The pointer and the snapshot behind it.                                 *)
(***************************************************************************)

\* The snapshot of a thread about to set the pointer has lost no more of its
\* lifetime than the thread has taken.
WriterAhead(t) ==
    pc[t] = "setPointer" => SnapshotTtl <= snapshot[job[t].token].left + job[t].flight

Behind == PointerHasSnapshot /\ \A t \in Thread : WriterAhead(t)

\* Steps of a thread that set neither key.
LEMMA QuietBehind ==
    ASSUME Typed, Behind, NEW t \in Thread,
           \/ Get(t) \/ Activate(t) \/ Refresh(t) \/ ReadPointer(t) \/ ReadSnapshot(t)
           \/ LoadSource(t) \/ LoadFails(t) \/ Install(t) \/ Stamp(t) \/ Return(t)
    PROVE  Behind'
<1>1. UNCHANGED <<pointer, snapshot>>
  BY DEF Get, Activate, Refresh, ReadPointer, ReadSnapshot, LoadSource, LoadFails, Install, Stamp,
         Return
<1>2. pc'[t] # "setPointer" /\ \A u \in Thread \ {t} : pc'[u] = pc[u] /\ job'[u] = job[u]
  <2>1. CASE Get(t) \/ Activate(t) \/ Refresh(t)
    <3>1. PICK op \in {"get", "refresh"}, g \in Region, next \in {"pointer", "load"} :
            Begin(t, op, g, next)
      BY <2>1, CacheConstants DEF Get, Activate, Refresh
    <3> QED BY <3>1 DEF Begin, Typed, TypeOK
  <2>2. CASE ReadPointer(t) \/ LoadSource(t) \/ LoadFails(t)
    BY <2>2 DEF ReadPointer, LoadSource, LoadFails, Go, Typed, TypeOK
  <2>3. CASE ReadSnapshot(t)
    BY <2>3 DEF ReadSnapshot, Go, Typed, TypeOK
  <2>4. CASE Install(t) \/ Stamp(t) \/ Return(t)
    BY <2>4 DEF Install, Stamp, Return, Go, Typed, TypeOK
  <2> QED BY <2>1, <2>2, <2>3, <2>4
<1> QED BY <1>1, <1>2 DEF Behind, PointerHasSnapshot, WriterAhead

\* The first SET goes to a key that no pointer and no other writer has, the
\* second one points at the writer's own.
LEMMA WriteBehind ==
    ASSUME Typed, Behind, NEW t \in Thread, Propagate(t) \/ SetPointer(t)
    PROVE  Behind'
<1>0. /\ SnapshotTtl \in Nat /\ MaxFlight \in Nat /\ job[t].flight \in Nat
      /\ job[t].flight <= MaxFlight /\ \A k \in Token : snapshot[k].left \in Nat
      /\ pointer.token \in Token \cup {NoToken}
      /\ \A u \in Thread : job[u].token \in Token \cup {NoToken}
  BY Parts, CacheConstants DEF Typed
<1>1. \A u \in Thread \ {t} : pc'[u] = pc[u] /\ job'[u] = job[u]
  BY DEF Propagate, SetPointer, Go, Typed, TypeOK
<1>2. CASE Propagate(t) /\ pc'[t] = "setPointer"
  <2>1. PICK k \in Token :
          /\ FreeToken(k)
          /\ snapshot' = [snapshot EXCEPT ![k] = [pack |-> job[t].pack, left |-> SnapshotTtl]]
          /\ job' = [job EXCEPT ![t].token = k]
    BY <1>2 DEF Propagate, Go, Typed, TypeOK
  <2>2. /\ snapshot'[k].left = SnapshotTtl /\ \A j \in Token \ {k} : snapshot'[j] = snapshot[j]
        /\ job'[t].token = k /\ job'[t].flight = job[t].flight
        /\ pointer' = pointer
    BY <1>2, <2>1 DEF Propagate, Typed, TypeOK, Job
  <2>3. k # pointer.token /\ \A u \in Thread : job[u].token # k
    BY <2>1 DEF FreeToken
  <2>4. PointerHasSnapshot'
    BY <1>0, <2>2, <2>3 DEF Behind, PointerHasSnapshot
  <2>5. WriterAhead(t)'
    BY <1>0, <2>2 DEF WriterAhead
  <2>6. ASSUME NEW u \in Thread \ {t} PROVE WriterAhead(u)'
    <3>1. pc[u] = "setPointer" => job[u].token \in Token \ {k}
      BY <2>3 DEF Typed, TokensHeld
    <3> QED BY <1>1, <2>2, <3>1 DEF Behind, WriterAhead
  <2> QED BY <2>4, <2>5, <2>6 DEF Behind
<1>3. CASE Propagate(t) /\ pc'[t] # "setPointer"
  <2>1. UNCHANGED <<pointer, snapshot>>
    BY <1>3 DEF Propagate, Go, Typed, TypeOK
  <2> QED BY <1>1, <1>3, <2>1 DEF Behind, PointerHasSnapshot, WriterAhead
<1>4. CASE SetPointer(t)
  <2>1. pc[t] = "setPointer" /\ pc'[t] = "install" /\ snapshot' = snapshot
    BY <1>4 DEF SetPointer, Go, Typed, TypeOK
  <2>2. pointer' = pointer \/ pointer' = [token |-> job[t].token, left |-> SnapshotTtl]
    BY <1>4 DEF SetPointer
  <2>3. job[t].token \in Token /\ SnapshotTtl <= snapshot[job[t].token].left + job[t].flight
    BY <2>1 DEF Typed, TokensHeld, Behind, WriterAhead
  <2>4. SnapshotTtl <= snapshot[job[t].token].left + MaxFlight
    BY <1>0, <2>3
  <2>5. PointerHasSnapshot'
    BY <2>1, <2>2, <2>4 DEF Behind, PointerHasSnapshot
  <2> QED BY <1>1, <2>1, <2>5 DEF Behind, WriterAhead
<1> QED BY <1>2, <1>3, <1>4

\* Both keys age together.
LEMMA TickBehind ==
    ASSUME Typed, Behind, Tick
    PROVE  Behind'
<1>0. /\ SnapshotTtl \in Nat /\ MaxFlight \in Nat /\ \A t \in Thread : job[t].flight \in Nat
      /\ \A k \in Token : snapshot[k].left \in Nat
      /\ pointer.left \in Nat /\ pointer.token \in Token \cup {NoToken}
  BY Parts, CacheConstants DEF Typed
<1>1. ASSUME NEW k \in Token PROVE snapshot'[k].left \in Nat /\ snapshot[k].left <= snapshot'[k].left + 1
  <2>1. snapshot'[k] = Aged(snapshot[k], NoSnapshot)
    BY DEF Tick
  <2>2. CASE snapshot[k].left <= 1
    BY <1>0, <2>1, <2>2 DEF Aged, NoSnapshot
  <2>3. CASE ~(snapshot[k].left <= 1)
    <3>1. snapshot'[k].left = snapshot[k].left - 1
      BY <2>1, <2>3 DEF Aged, Typed, TypeOK
    <3> QED BY <1>0, <2>3, <3>1
  <2> QED BY <2>2, <2>3
<1>2. pointer'.token # NoToken => pointer'.token = pointer.token /\ pointer'.left = pointer.left - 1
  BY DEF Tick, Aged, NoPointer, Typed, TypeOK
<1>3. PointerHasSnapshot'
  BY <1>0, <1>1, <1>2 DEF Behind, PointerHasSnapshot
<1>4. ASSUME NEW t \in Thread PROVE WriterAhead(t)'
  <2>1. pc' = pc /\ job'[t] = IF pc[t] = "idle" THEN job[t] ELSE [job[t] EXCEPT !.flight = @ + 1]
    BY DEF Tick
  <2>2. job[t] \in Job
    BY Parts DEF Typed
  <2>3. pc[t] = "setPointer" =>
          /\ job'[t].token = job[t].token /\ job'[t].flight = job[t].flight + 1
          /\ job[t].token \in Token
    BY <2>1, <2>2 DEF Job, Typed, TokensHeld
  <2> QED BY <1>0, <1>1, <2>1, <2>3 DEF Behind, WriterAhead
<1> QED BY <1>3, <1>4 DEF Behind

\* The pointer never outlives the snapshot behind it by more than one
\* operation takes, whatever fails and whoever writes.
THEOREM SnapshotBehindPointer == Spec => []PointerHasSnapshot
<1>1. Init => Typed /\ Behind
  BY InitTyped DEF Init, Behind, PointerHasSnapshot, WriterAhead, NoPointer
<1>2. ASSUME Typed, Behind, [Next]_vars PROVE Behind'
  <2>1. CASE UNCHANGED vars
    BY <1>2, <2>1 DEF vars, Behind, PointerHasSnapshot, WriterAhead
  <2>2. ASSUME NEW t \in Thread, Get(t) \/ Activate(t) \/ Refresh(t) \/ Step(t) PROVE Behind'
    BY <1>2, <2>2, QuietBehind, WriteBehind DEF Step
  <2>3. CASE Tick
    BY <1>2, <2>3, TickBehind
  <2>4. ASSUME NEW r \in Replica, Crash(r) PROVE Behind'
    <3>1. UNCHANGED <<pointer, snapshot>>
      BY <2>4 DEF Crash
    <3>2. \A t \in Thread : pc'[t] = "idle" \/ (pc'[t] = pc[t] /\ job'[t] = job[t])
      BY <2>4 DEF Crash
    <3> QED BY <1>2, <3>1, <3>2 DEF Behind, PointerHasSnapshot, WriterAhead
  <2> QED BY <1>2, <2>1, <2>2, <2>3, <2>4 DEF Next
<1>3. Behind => PointerHasSnapshot
  BY DEF Behind
<1> QED BY <1>1, <1>2, <1>3, NextTyped, PTL DEF Spec
=============================================================================
