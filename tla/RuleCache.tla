----------------------------- MODULE RuleCache -----------------------------
(***************************************************************************)
(* The hot path's policy cache: in every replica a TTLCache (L1) and a     *)
(* last-known-good pack, optionally a Redis snapshot shared by all (L2),   *)
(* and the active pack in PostgreSQL (L3).                                 *)
(*                                                                         *)
(* A thread of a replica runs RuleCache.get() for a request, or, after the *)
(* commit of an activation, RuleCache.refresh() through the in-process     *)
(* notifier.  Each read or write of a shared thing (Redis key, database,   *)
(* attribute of the cache object) is one step.  A get() that finds L1      *)
(* fresh changes nothing and is not a step.                                *)
(*                                                                         *)
(* Time is discrete and relative: ages and remaining lifetimes move with   *)
(* Tick, capped where their value no longer matters.  A pack is a          *)
(* generation number, one per activation, and the region it is for.        *)
(***************************************************************************)
EXTENDS Naturals

CONSTANTS
    Replica,      \* API processes
    Thread,       \* their threads
    Home,         \* Home[t]: the replica of thread t
    Region,       \* values of the region a caller asks for
    NullRegion,   \* region=None, what refresh() loads
    Distributed,  \* cache_backend = "redis"
    Token,        \* names for Redis snapshot keys
    NoToken,      \* no pointer
    Faults,       \* what may fail: subset of {"postgres", "redis", "crash"}
    Ttl,          \* rule_cache_ttl_seconds
    SnapshotTtl,  \* redis_snapshot_max_age_seconds
    MaxFlight,    \* bound: how long one get() or refresh() may take
    MaxGen        \* bound: number of activations

VARIABLES
    active,    \* the active pack in PostgreSQL
    since,     \* since[g]: time since generation g was superseded
    l1,        \* l1[r]: TTLCache._value and the age of _loaded_at
    lkg,       \* lkg[r]: RuleCache._last_known_good
    pointer,   \* the Redis pointer key: a token and its remaining lifetime
    snapshot,  \* snapshot[k]: the Redis snapshot key with token k
    pc,        \* pc[t]: the statement thread t executes next
    job        \* job[t]: its locals

vars == <<active, since, l1, lkg, pointer, snapshot, pc, job>>
-----------------------------------------------------------------------------
Pack == [gen: 0..MaxGen, region: Region]
NoPack == [gen |-> 0, region |-> NullRegion]

\* Longer than any pack the properties speak of stays in use.
Horizon == Ttl + SnapshotTtl + 3 * MaxFlight + 1

Statement == {"idle", "pointer", "snapshot", "load", "propagate", "setPointer",
              "install", "stamp", "return", "failed"}

\* flight: the time since the operation began, TTLCache.get's `now`.
Job == [op: {"get", "refresh"}, region: Region, pack: Pack,
        token: Token \cup {NoToken}, flight: 0..MaxFlight]

NoJob == [op |-> "get", region |-> NullRegion, pack |-> NoPack,
          token |-> NoToken, flight |-> 0]

ASSUME CacheConstants ==
    /\ Home \in [Thread -> Replica]
    /\ NullRegion \in Region /\ NoToken \notin Token
    /\ Distributed \in BOOLEAN
    /\ Faults \subseteq {"postgres", "redis", "crash"}
    /\ Ttl \in Nat /\ SnapshotTtl \in Nat \ {0}
    /\ MaxFlight \in Nat /\ MaxGen \in Nat \ {0}

ColdL1 == [pack |-> NoPack, age |-> 0]
NoPointer == [token |-> NoToken, left |-> 0]
NoSnapshot == [pack |-> NoPack, left |-> 0]

Init ==
    /\ active = [gen |-> 1, region |-> NullRegion]
    /\ since = [g \in 0..MaxGen |-> 0]
    /\ l1 = [r \in Replica |-> ColdL1]
    /\ lkg = [r \in Replica |-> NoPack]
    /\ pointer = NoPointer
    /\ snapshot = [k \in Token |-> NoSnapshot]
    /\ pc = [t \in Thread |-> "idle"]
    /\ job = [t \in Thread |-> NoJob]

\* Mutant: no TTL, only the push path.
FreshForever(r) == l1[r].pack # NoPack

\* TTLCache.get's condition for serving _value as it is.
Fresh(r) == l1[r].pack # NoPack /\ l1[r].age <= Ttl
-----------------------------------------------------------------------------
\* The start of an operation of thread t.
Begin(t, op, g, next) ==
    /\ pc[t] = "idle"
    /\ job' = [job EXCEPT ![t] = [NoJob EXCEPT !.op = op, !.region = g]]
    /\ pc' = [pc EXCEPT ![t] = next]

\* get_active() and the warmup at startup, with L1 cold or stale.
Get(t) ==
    /\ ~Fresh(Home[t])
    /\ \E g \in Region :
         Begin(t, "get", g, IF Distributed THEN "pointer" ELSE "load")
    /\ UNCHANGED <<active, since, l1, lkg, pointer, snapshot>>

\* repository.activate() commits a pack, which deprecates the active one
\* whatever its region; then the notifier calls this replica's _on_event.
Activate(t) ==
    /\ active.gen < MaxGen
    /\ \E g \in Region : active' = [gen |-> active.gen + 1, region |-> g]
    /\ Begin(t, "refresh", NullRegion, "load")
    /\ UNCHANGED <<since, l1, lkg, pointer, snapshot>>

\* The event of a deletion, or of a pack of another name: the active pack is as
\* it was and is loaded all the same.
Refresh(t) ==
    /\ Begin(t, "refresh", NullRegion, "load")
    /\ UNCHANGED <<active, since, l1, lkg, pointer, snapshot>>

Go(t, next) == pc' = [pc EXCEPT ![t] = next]

\* RedisCacheBackend.read_active: two GETs; a missing key, an expired one and
\* an error are all a miss.
ReadPointer(t) ==
    /\ pc[t] = "pointer"
    /\ \/ /\ pointer.left > 0
          /\ job' = [job EXCEPT ![t].token = pointer.token]
          /\ Go(t, "snapshot")
       \/ /\ pointer.left = 0 \/ "redis" \in Faults
          /\ Go(t, "load")
          /\ UNCHANGED job
    /\ UNCHANGED <<active, since, l1, lkg, pointer, snapshot>>

\* Mutant: the value is not deserialised.
ReadRawSnapshot(t) ==
    /\ pc[t] = "snapshot"
    /\ snapshot[job[t].token].left > 0
    /\ job' = [job EXCEPT ![t].pack = snapshot[job[t].token]]
    /\ Go(t, "install")
    /\ UNCHANGED <<active, since, l1, lkg, pointer, snapshot>>

ReadSnapshot(t) ==
    /\ pc[t] = "snapshot"
    /\ LET key == snapshot[job[t].token]
       IN \/ /\ key.left > 0
             /\ job' = [job EXCEPT ![t].pack = key.pack, ![t].token = NoToken]
             /\ lkg' = [lkg EXCEPT ![Home[t]] = key.pack]
             /\ Go(t, "install")
          \/ /\ key.left = 0 \/ "redis" \in Faults
             /\ job' = [job EXCEPT ![t].token = NoToken]
             /\ Go(t, "load")
             /\ UNCHANGED lkg
    /\ UNCHANGED <<active, since, l1, pointer, snapshot>>

\* _load_from_db
LoadSource(t) ==
    /\ pc[t] = "load"
    /\ active.region = job[t].region
    /\ job' = [job EXCEPT ![t].pack = active]
    /\ Go(t, "propagate")
    /\ UNCHANGED <<active, since, l1, lkg, pointer, snapshot>>

\* LookupError, or PostgreSQL is unreachable: the last known good pack, if any.
LoadFails(t) ==
    /\ pc[t] = "load"
    /\ active.region # job[t].region \/ "postgres" \in Faults
    /\ job' = [job EXCEPT ![t].pack = lkg[Home[t]]]
    /\ Go(t, IF lkg[Home[t]] = NoPack THEN "failed" ELSE "install")
    /\ UNCHANGED <<active, since, l1, lkg, pointer, snapshot>>

\* A uuid4 no key and no other writer or reader has.
FreeToken(k) == k # pointer.token /\ \A u \in Thread : job[u].token # k

\* Mutants: _last_known_good is not kept; a failed SET of the snapshot does
\* not keep write_active from setting the pointer.
PropagateOnly(t) ==
    /\ pc[t] = "propagate"
    /\ Go(t, "install")
    /\ UNCHANGED <<active, since, l1, lkg, pointer, snapshot, job>>

PropagateNothing(t) ==
    /\ pc[t] = "propagate"
    /\ lkg' = [lkg EXCEPT ![Home[t]] = job[t].pack]
    /\ \E k \in Token : FreeToken(k) /\ job' = [job EXCEPT ![t].token = k]
    /\ Go(t, "setPointer")
    /\ UNCHANGED <<active, since, l1, pointer, snapshot>>

\* _last_known_good, then the first SET of write_active.
Propagate(t) ==
    /\ pc[t] = "propagate"
    /\ lkg' = [lkg EXCEPT ![Home[t]] = job[t].pack]
    /\ \/ /\ Distributed
          /\ \E k \in Token :
               /\ FreeToken(k)
               /\ snapshot' = [snapshot EXCEPT ![k] =
                                 [pack |-> job[t].pack, left |-> SnapshotTtl]]
               /\ job' = [job EXCEPT ![t].token = k]
          /\ Go(t, "setPointer")
       \/ /\ Distributed => "redis" \in Faults
          /\ Go(t, "install")
          /\ UNCHANGED <<snapshot, job>>
    /\ UNCHANGED <<active, since, l1, pointer>>

\* The second SET of write_active.
SetPointer(t) ==
    /\ pc[t] = "setPointer"
    /\ \/ pointer' = [token |-> job[t].token, left |-> SnapshotTtl]
       \/ "redis" \in Faults /\ UNCHANGED pointer
    /\ job' = [job EXCEPT ![t].token = NoToken]
    /\ Go(t, "install")
    /\ UNCHANGED <<active, since, l1, lkg, snapshot>>

\* Mutant: what was loaded is returned and not kept.
InstallNothing(t) ==
    /\ pc[t] = "install"
    /\ Go(t, "stamp")
    /\ UNCHANGED <<active, since, l1, lkg, pointer, snapshot, job>>

\* TTLCache.get and TTLCache.set assign _value ...
Install(t) ==
    /\ pc[t] = "install"
    /\ l1' = [l1 EXCEPT ![Home[t]].pack = job[t].pack]
    /\ Go(t, "stamp")
    /\ UNCHANGED <<active, since, lkg, pointer, snapshot, job>>

\* ... and then _loaded_at: get() the time it began, set() the time it is.
Stamp(t) ==
    /\ pc[t] = "stamp"
    /\ LET age == IF job[t].op = "get" THEN job[t].flight ELSE 0
       IN l1' = [l1 EXCEPT ![Home[t]].age = IF age <= Ttl THEN age ELSE Ttl + 1]
    /\ Go(t, "return")
    /\ UNCHANGED <<active, since, lkg, pointer, snapshot, job>>

\* get() returns whatever _value is by now.
Return(t) ==
    /\ pc[t] \in {"return", "failed"}
    /\ Go(t, "idle")
    /\ job' = [job EXCEPT ![t] = NoJob]
    /\ UNCHANGED <<active, since, l1, lkg, pointer, snapshot>>
-----------------------------------------------------------------------------
Capped(n, cap) == IF n < cap THEN n + 1 ELSE cap

\* A Redis key at its next second; one that expires is gone.
Aged(key, none) == IF key.left <= 1 THEN none ELSE [key EXCEPT !.left = @ - 1]

Tick ==
    /\ \A t \in Thread : pc[t] # "idle" => job[t].flight < MaxFlight
    /\ since' = [g \in 0..MaxGen |-> IF g \in 1..(active.gen - 1)
                                     THEN Capped(since[g], Horizon) ELSE 0]
    /\ l1' = [r \in Replica |-> [l1[r] EXCEPT !.age = Capped(@, Ttl + 1)]]
    /\ pointer' = Aged(pointer, NoPointer)
    /\ snapshot' = [k \in Token |-> Aged(snapshot[k], NoSnapshot)]
    /\ job' = [t \in Thread |-> IF pc[t] = "idle" THEN job[t]
                                ELSE [job[t] EXCEPT !.flight = @ + 1]]
    /\ UNCHANGED <<active, lkg, pc>>

\* A replica dies, in the middle of whatever its threads do, and restarts.
Crash(r) ==
    /\ "crash" \in Faults
    /\ l1' = [l1 EXCEPT ![r] = ColdL1]
    /\ lkg' = [lkg EXCEPT ![r] = NoPack]
    /\ pc' = [t \in Thread |-> IF Home[t] = r THEN "idle" ELSE pc[t]]
    /\ job' = [t \in Thread |-> IF Home[t] = r THEN NoJob ELSE job[t]]
    /\ UNCHANGED <<active, since, pointer, snapshot>>

Step(t) == \/ ReadPointer(t) \/ ReadSnapshot(t) \/ LoadSource(t) \/ LoadFails(t)
           \/ Propagate(t) \/ SetPointer(t) \/ Install(t) \/ Stamp(t) \/ Return(t)

Next == \/ \E t \in Thread : Get(t) \/ Activate(t) \/ Refresh(t) \/ Step(t)
        \/ Tick
        \/ \E r \in Replica : Crash(r)

Spec == Init /\ [][Next]_vars

\* Requests keep arriving at every replica, threads run and time passes.
FairSpec == Spec /\ WF_vars(Tick)
                 /\ \A t \in Thread : WF_vars(Get(t)) /\ WF_vars(Step(t))
-----------------------------------------------------------------------------
TypeOK ==
    /\ active \in Pack
    /\ since \in [0..MaxGen -> 0..Horizon]
    /\ l1 \in [Replica -> [pack: Pack, age: 0..(Ttl + 1)]]
    /\ lkg \in [Replica -> Pack]
    /\ pointer \in [token: Token \cup {NoToken}, left: 0..SnapshotTtl]
    /\ snapshot \in [Token -> [pack: Pack, left: 0..SnapshotTtl]]
    /\ pc \in [Thread -> Statement]
    /\ job \in [Thread -> Job]

\* The pack a request at replica r may be given now.
Serving(r) == Fresh(r) \/ \E t \in Thread : Home[t] = r /\ pc[t] = "return"

\* How old a pack can be when a load or a Redis read hands it over, not
\* counting the flight of that operation.
SourceAge == IF Distributed THEN SnapshotTtl + MaxFlight ELSE 0

\* While PostgreSQL answers, a request is never given a pack superseded longer
\* ago than one L1 lifetime and two operations in flight, the second because
\* one thread's _loaded_at may be stamped on another's _value; with Redis a
\* snapshot lifetime and the flight of its writer come on top.
BoundedStaleness ==
    \A r \in Replica : Serving(r) =>
        since[l1[r].pack.gen] <= Ttl + 2 * MaxFlight + SourceAge

\* "There is no window in which 'active' points at a partially written value"
\* (redis_cache_backend.py): the pointer names a snapshot that was written, and
\* that lasts as long as the pointer but for the time between the two SETs; for
\* that long, at most MaxFlight, it may have expired before the pointer.
PointerHasSnapshot ==
    pointer.token # NoToken =>
        pointer.left <= snapshot[pointer.token].left + MaxFlight

\* A replica that has a pack to serve never fails a request, whatever is
\* unreachable ("keep serving instead of raising into a live request").
WarmNeverFails ==
    [][\A t \in Thread : pc[t] # "failed" /\ pc'[t] = "failed"
         => l1[Home[t]].pack = NoPack]_vars

\* When activations stop every replica comes to serve the active pack and
\* keeps serving it, those no notification reached included.
Converges == <>[](\A r \in Replica : l1[r].pack = active)
-----------------------------------------------------------------------------
(***************************************************************************)
(* The inductive invariants of the proofs.                                 *)
(***************************************************************************)
\* Tokens are where a statement needs one, and Redis is used where there is one.
TokensHeld ==
    /\ pointer.left > 0 => pointer.token \in Token
    /\ \A t \in Thread :
         /\ pc[t] \in {"snapshot", "setPointer"} => job[t].token \in Token
         /\ pc[t] \in {"pointer", "snapshot", "setPointer"} => Distributed

\* Only superseded generations have an age.
OnlyPastAges == /\ active.gen > 0 /\ since[0] = 0
                /\ \A g \in 0..MaxGen : g >= active.gen => since[g] = 0

Age(pack) == since[pack.gen]

\* The age of a pack along its way: read from the database, written to Redis,
\* handed to TTLCache, installed and stamped by possibly different threads.
SnapshotAge == \A k \in Token :
    Age(snapshot[k].pack) + snapshot[k].left <= MaxFlight + SnapshotTtl

AgeInFlight(t) ==
    /\ pc[t] \in {"propagate", "setPointer"} => Age(job[t].pack) <= job[t].flight
    /\ pc[t] \in {"install", "stamp"} =>
         Age(job[t].pack) <= SourceAge + job[t].flight
    /\ pc[t] \in {"stamp", "return"} =>
         Age(l1[Home[t]].pack) <= SourceAge + MaxFlight + job[t].flight

L1Age == \A r \in Replica : l1[r].age <= Ttl =>
    Age(l1[r].pack) <= SourceAge + 2 * MaxFlight + l1[r].age

Ages == /\ TypeOK /\ TokensHeld /\ OnlyPastAges /\ SnapshotAge /\ L1Age
        /\ \A t \in Thread : AgeInFlight(t)

\* What is served, or about to be, is a pack, and the replica also has a last
\* known good one.
Backed ==
    /\ active # NoPack
    /\ \A k \in Token : snapshot[k].left > 0 => snapshot[k].pack # NoPack
    /\ \A r \in Replica : l1[r].pack # NoPack => lkg[r] # NoPack
    /\ \A t \in Thread :
         /\ pc[t] \in {"propagate", "setPointer"} => job[t].pack # NoPack
         /\ pc[t] \in {"setPointer", "install"} => lkg[Home[t]] # NoPack
=============================================================================
