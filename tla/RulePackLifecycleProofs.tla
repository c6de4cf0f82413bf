---------------------- MODULE RulePackLifecycleProofs ----------------------
(***************************************************************************)
(* Proofs about RulePackLifecycle and LifecycleRefinement, for any         *)
(* handlers, rows, names, rules and bounds.                                *)
(***************************************************************************)
EXTENDS LifecycleRefinement, FiniteSetTheorems, TLAPS

\* The values that stand for no row, no request and no session have their types.
LEMMA BlankTypes ==
    /\ NoRules \in Rules /\ Blank \in Row
    /\ NoRequest \in Request /\ NoSession \in Session
<1>1. NoRules \in Rules
  BY DEF NoRules, Rules, Body
<1>2. (CHOOSE n \in Name : TRUE) \in Name /\ (CHOOSE a \in Actor : TRUE) \in Actor
  BY Constants
<1>3. Blank \in Row
  BY <1>1, <1>2, Constants DEF Blank, Row, Status
<1>4. NoRequest \in Request
  BY <1>3 DEF NoRequest, Request
<1>5. NoSession \in Session
  BY <1>3 DEF NoSession, Session, NoneLoaded
<1> QED
  BY <1>1, <1>3, <1>4, <1>5

\* What the use cases build from a row they have read.
LEMMA ReadingType ==
    ASSUME TypeOK, NEW i \in RowId, NEW op \in AllOps, NEW e \in Nat,
           NEW pack \in Row
    PROVE  Reading(op, i, e, pack) \in Request
  BY BlankTypes DEF Reading, TypeOK, Request, NoRequest

\* _resolve_parent_version returns a version number.
LEMMA ParentVersionType ==
    ASSUME TypeOK, NEW i \in RowId
    PROVE  ParentVersion(i) \in Nat
<1>1. rows[i].parent \in RowId \cup {NoRow} /\ \A j \in RowId : rows[j].version \in Nat
  BY DEF TypeOK, Row
<1> QED
  BY <1>1 DEF ParentVersion

\* A client sends no lock_version newer than the row it has seen.
LEMMA ExpectedType ==
    ASSUME TypeOK, NEW i \in RowId, NEW e \in Expected(i)
    PROVE  e \in Nat /\ e <= rows[i].lock
<1>1. rows[i].lock \in Nat
  BY DEF TypeOK, Row
<1>2. e = 0 \/ e \in 1..rows[i].lock
  BY DEF Expected
<1> QED
  BY <1>1, <1>2

-----------------------------------------------------------------------------
(***************************************************************************)
(* Use-case steps.                                                         *)
(***************************************************************************)
\* The actions that accept a request.
Start(h) ==
    \/ UpdateMetadata(h) \/ SoftDelete(h) \/ Publish(h) \/ Activate(h)
    \/ Rollback(h) \/ CreateRulePack(h) \/ ImportRulePack(h)
    \/ CreateRule(h) \/ UpdateRule(h) \/ DeleteRule(h) \/ SeedActivePolicy(h)

\* What the rest of the proof needs to know of a request.
Sound(next, r) ==
    /\ r \in Request
    /\ next \in {"row", "current", "target", "list", "find", "existing"}
    /\ next = "row" => r.id \in RowId /\ rows[r.id].status # "absent"
    /\ next \in {"list", "find", "existing"} => r.pack.status # "absent"
    /\ next = "find" => r.op = "seed"
    /\ next = "target" => r.op = "activate"
    /\ next = "current" => r.op = "rollback"
    /\ r.expect > 0 => r.op \in LockableOps
    /\ (next = "row" \/ r.op = "activate") =>
         r.id \in RowId /\ r.seen = rows[r.id] /\ r.expect <= r.seen.lock

Accepts(h, next, r) ==
    /\ pc[h] = "idle"
    /\ pc' = [pc EXCEPT ![h] = next]
    /\ req' = [req EXCEPT ![h] = r]
    /\ UNCHANGED <<rows, tx>>

\* A request about a stored row is sound.
LEMMA ReadSound ==
    ASSUME TypeOK, NEW i \in RowId, NEW op \in AllOps, NEW e \in Nat,
           NEW pack \in Row, NEW next \in {"row", "current", "target"},
           rows[i].status # "absent", e <= rows[i].lock,
           e > 0 => op \in LockableOps,
           next = "target" => op = "activate",
           next = "current" => op = "rollback"
    PROVE  Sound(next, Reading(op, i, e, pack))
<1>1. Reading(op, i, e, pack) \in Request
  BY ReadingType
<1>2. /\ Reading(op, i, e, pack).op = op /\ Reading(op, i, e, pack).id = i
      /\ Reading(op, i, e, pack).expect = e
      /\ Reading(op, i, e, pack).seen = rows[i]
  BY DEF Reading, NoRequest
<1> QED
  BY <1>1, <1>2 DEF Sound

\* So is one that edits a rule: it hands save() a draft.
LEMMA EditSound ==
    ASSUME TypeOK, NEW h, NEW i \in RowId, NEW c \in RuleCode, NEW b \in Body,
           NEW op \in {"createRule", "updateRule", "deleteRule"},
           EditRule(h, op, i, c, b)
    PROVE  \E next, r : Accepts(h, next, r) /\ Sound(next, r)
<1> DEFINE pack == [rows[i] EXCEPT !.rules[c] = b]
           q == Reading(op, i, 0, pack)
           r == [q EXCEPT !.base = ParentVersion(i)]
<1>1. rows[i] \in Row /\ rows[i].status = "draft"
  BY DEF TypeOK, EditRule
<1>2. rows[i].rules \in Rules
  BY <1>1 DEF Row
<1>3. [rows[i].rules EXCEPT ![c] = b] \in Rules
  BY <1>2 DEF Rules
<1>4. pack \in Row /\ pack.status = "draft"
  BY <1>1, <1>3 DEF Row
<1>5. q \in Request /\ q.op = op /\ q.expect = 0 /\ q.pack = pack
  BY <1>4, ReadingType DEF AllOps, Reading, NoRequest
<1>7. Accepts(h, "existing", r)
  BY DEF EditRule, Accept, Accepts
<1> HIDE DEF q, pack
<1>6. r \in Request /\ r.op = op /\ r.expect = 0 /\ r.pack = pack
  BY <1>5, ParentVersionType DEF Request
<1> HIDE DEF r
<1>8. Sound("existing", r)
  BY <1>4, <1>6 DEF Sound
<1> QED
  BY <1>7, <1>8

\* So is the request of a create or an import.
LEMMA NewSound ==
    ASSUME TypeOK, NEW op \in {"create", "import"}, NEW n \in Name, NEW v \in Nat,
           NEW g \in Region, NEW a \in Actor, NEW rules \in NewRules
    PROVE  Sound("list", [NoRequest EXCEPT !.op = op,
                                           !.pack = NewPack(n, v, g, a, rules)])
<1>1. rules \in Rules
  BY Constants DEF NewRules, Rules, Body
<1>2. NewPack(n, v, g, a, rules) \in Row /\ NewPack(n, v, g, a, rules).status = "draft"
  BY <1>1, BlankTypes DEF NewPack, Blank, Row, Status
<1> DEFINE r == [NoRequest EXCEPT !.op = op, !.pack = NewPack(n, v, g, a, rules)]
<1>3. r \in Request
  BY <1>2, BlankTypes DEF Request, AllOps
<1>4. r.op = op /\ r.expect = 0 /\ r.pack = NewPack(n, v, g, a, rules)
  BY DEF NoRequest
<1> QED
  BY <1>2, <1>3, <1>4 DEF Sound

\* So is the seeding of the fixture pack.
LEMMA SeedSound ==
    ASSUME TypeOK, NEW n \in Name, NEW a \in Actor
    PROVE  Sound("find", [NoRequest EXCEPT !.op = "seed", !.pack = Fixture(n, a)])
<1>1. [c \in RuleCode |-> "ok"] \in Rules
  BY DEF Rules, Body
<1>2. Fixture(n, a) \in Row /\ Fixture(n, a).status = "active"
  BY <1>1, BlankTypes, Constants DEF Fixture, Blank, Row, Status
<1> DEFINE r == [NoRequest EXCEPT !.op = "seed", !.pack = Fixture(n, a)]
<1>3. r \in Request
  BY <1>2, BlankTypes DEF Request, AllOps
<1>4. r.op = "seed" /\ r.expect = 0 /\ r.pack = Fixture(n, a)
  BY DEF NoRequest
<1> QED
  BY <1>2, <1>3, <1>4 DEF Sound

\* Every use case that accepts a request accepts a sound one.
LEMMA StartSound ==
    ASSUME TypeOK, NEW h \in Handler, Start(h)
    PROVE  \E next, r : Accepts(h, next, r) /\ Sound(next, r)
<1>0. \A i \in RowId : rows[i] \in Row /\ rows[i].lock \in Nat
  BY DEF TypeOK, Row
<1>1. CASE UpdateMetadata(h)
  <2>1. PICK i \in GetById, f \in Patches :
          \E e \in Expected(i),
             n \in IF "name" \in f THEN Name ELSE {rows[i].name},
             g \in IF "region" \in f THEN Region \ {NullRegion} ELSE {rows[i].region} :
            Accept(h, "updateMetadata", "row",
                   [Reading("updateMetadata", i, e,
                            [rows[i] EXCEPT !.name = n, !.region = g])
                    EXCEPT !.fields = f])
    BY <1>1 DEF UpdateMetadata
  <2>2. PICK e \in Expected(i),
             n \in IF "name" \in f THEN Name ELSE {rows[i].name},
             g \in IF "region" \in f THEN Region \ {NullRegion} ELSE {rows[i].region} :
            Accept(h, "updateMetadata", "row",
                   [Reading("updateMetadata", i, e,
                            [rows[i] EXCEPT !.name = n, !.region = g])
                    EXCEPT !.fields = f])
    BY <2>1
  <2> DEFINE pack == [rows[i] EXCEPT !.name = n, !.region = g]
             q == Reading("updateMetadata", i, e, pack)
             r == [q EXCEPT !.fields = f]
  <2>3. i \in RowId /\ rows[i].status # "absent"
    BY DEF GetById
  <2>4. n \in Name /\ g \in Region
    BY <1>0, <2>3 DEF Row
  <2>5. pack \in Row
    BY <1>0, <2>3, <2>4 DEF Row
  <2>6. e \in Nat /\ e <= rows[i].lock
    BY <2>3, ExpectedType
  <2>7. Sound("row", q)
    BY <2>3, <2>5, <2>6, ReadSound DEF AllOps, LockableOps
  <2>8. r \in Request
    BY <2>7, Constants DEF Sound, Request
  <2>9. r.op = q.op /\ r.id = q.id /\ r.seen = q.seen /\ r.expect = q.expect /\ r.pack = q.pack
    BY <2>7 DEF Sound, Request
  <2>10. Sound("row", r)
    BY <2>7, <2>8, <2>9 DEF Sound
  <2> QED
    BY <2>2, <2>10 DEF Accept, Accepts
<1>2. CASE SoftDelete(h) \/ Activate(h) \/ Rollback(h)
  <2>0. PICK i \in GetById, on \in {<<"softDelete", "row">>,
                       <<"activate", "target">>, <<"rollback", "current">>} :
            \E e \in Expected(i) :
                Accept(h, on[1], on[2], Reading(on[1], i, e, rows[i]))
    BY <1>2 DEF SoftDelete, Activate, Rollback
  <2>1. PICK e \in Expected(i) :
            Accept(h, on[1], on[2], Reading(on[1], i, e, rows[i]))
    BY <2>0
  <2>2. i \in RowId /\ rows[i].status # "absent"
    BY DEF GetById
  <2>3. e \in Nat /\ e <= rows[i].lock
    BY <2>2, ExpectedType
  <2>4. Sound(on[2], Reading(on[1], i, e, rows[i]))
    <3>1. on[1] \in AllOps /\ on[1] \in LockableOps
      BY DEF AllOps, LockableOps
    <3>2. on[2] \in {"row", "current", "target"} /\ (on[2] = "target" => on[1] = "activate")
          /\ (on[2] = "current" => on[1] = "rollback")
      OBVIOUS
    <3> QED
      BY <1>0, <2>2, <2>3, <3>1, <3>2, ReadSound
  <2> QED
    BY <2>1, <2>4 DEF Accept, Accepts
<1>3. CASE Publish(h)
  <2>1. PICK i \in GetById : Accept(h, "publish", "row", Reading("publish", i, 0, rows[i]))
    BY <1>3 DEF Publish
  <2>2. i \in RowId /\ rows[i].status # "absent"
    BY DEF GetById
  <2>3. Sound("row", Reading("publish", i, 0, rows[i]))
    BY <1>0, <2>2, ReadSound DEF AllOps
  <2> QED
    BY <2>1, <2>3 DEF Accept, Accepts
<1>4. CASE CreateRulePack(h) \/ ImportRulePack(h)
  <2>1. PICK op \in {"create", "import"}, n \in Name, v \in Nat, g \in Region,
             a \in Actor, rules \in NewRules :
            Accept(h, op, "list", [NoRequest EXCEPT !.op = op,
                                     !.pack = NewPack(n, v, g, a, rules)])
    <3>1. CASE CreateRulePack(h)
      BY <3>1 DEF CreateRulePack
    <3>2. CASE ImportRulePack(h)
      <4>1. PICK n \in Name, v \in 0..MaxVersion, g \in Region, a \in Actor,
                 rules \in NewRules :
              Accept(h, "import", "list", [NoRequest EXCEPT !.op = "import",
                                     !.pack = NewPack(n, v, g, a, rules)])
        BY <3>2 DEF ImportRulePack
      <4>2. v \in Nat
        BY Constants
      <4> QED
        BY <4>1, <4>2
    <3> QED
      BY <1>4, <3>1, <3>2
  <2> QED
    BY <2>1, NewSound DEF Accept, Accepts
<1>5. CASE CreateRule(h) \/ UpdateRule(h) \/ DeleteRule(h)
  <2>1. PICK i \in RowId, c \in RuleCode, b \in Body,
             op \in {"createRule", "updateRule", "deleteRule"} :
            EditRule(h, op, i, c, b)
    BY <1>5, Constants
       DEF CreateRule, UpdateRule, DeleteRule, GetById, Body, Disabled
  <2> QED
    BY <2>1, EditSound
<1>6. CASE SeedActivePolicy(h)
  BY <1>6, SeedSound DEF SeedActivePolicy, Accept, Accepts
<1> QED
  BY <1>1, <1>2, <1>3, <1>4, <1>5, <1>6 DEF Start

-----------------------------------------------------------------------------
(***************************************************************************)
(* What a step of one handler leaves to the others.                        *)
(***************************************************************************)
\* Rows move forward: a changed column means a higher lock_version, and a row
\* once inserted stays.
RowsAdvance ==
    \A i \in RowId :
        /\ rows[i].lock <= rows'[i].lock
        /\ rows[i].lock = rows'[i].lock => SameColumns(rows[i], rows'[i])
        /\ rows[i].status # "absent" => rows'[i].status # "absent"

Untouched(k) == pc'[k] = pc[k] /\ req'[k] = req[k] /\ tx'[k] = tx[k]

Handles(h) == LocatedAt(h) /\ CheckedAt(h) /\ LockHolds(h)

\* The types of the parts the later steps use.
LEMMA TypedParts ==
    ASSUME TypeOK
    PROVE  /\ \A i \in RowId : rows[i] \in Row /\ rows[i].lock \in Nat
           /\ \A h \in Handler :
                /\ req[h] \in Request /\ req[h].expect \in Nat
                /\ req[h].seen.lock \in Nat
                /\ tx[h] \in Session /\ tx[h].row.lock \in Nat
                /\ \A j \in RowId : tx[h].active[j] \in Nat
<1>1. \A i \in RowId : rows[i] \in Row /\ rows[i].lock \in Nat
  BY DEF TypeOK, Row
<1>2. \A h \in Handler : req[h] \in Request /\ tx[h] \in Session
  BY DEF TypeOK
<1>3. \A q \in Request : q.expect \in Nat /\ q.seen.lock \in Nat
  BY DEF Request, Row
<1>4. \A x \in Session : x.row.lock \in Nat /\ \A j \in RowId : x.active[j] \in Nat
  BY DEF Session, Row
<1> QED
  BY <1>1, <1>2, <1>3, <1>4

\* When rows only advance, the facts about a handler that does not move stay true.
LEMMA OthersKept ==
    ASSUME TypeOK, TypeOK', RowsAdvance,
           NEW k \in Handler, Untouched(k), Handles(k)
    PROVE  Handles(k)'
<1>1. /\ \A i \in RowId : rows[i].lock \in Nat /\ rows'[i].lock \in Nat
      /\ req[k].seen.lock \in Nat /\ tx[k].row.lock \in Nat
      /\ \A j \in RowId : tx[k].active[j] \in Nat
  BY TypedParts DEF TypeOK, Row
<1>2. LocatedAt(k)'
  BY DEF RowsAdvance, Untouched, Handles, LocatedAt
<1>3. ASSUME NEW i \in RowId, CopyOf(tx[k].row, i)
      PROVE  CopyOf(tx[k].row, i)'
  BY <1>1, <1>3 DEF RowsAdvance, Untouched, CopyOf, SameColumns
<1>4. ASSUME NEW i \in RowId, CopyOf(req[k].seen, i)
      PROVE  CopyOf(req[k].seen, i)'
  BY <1>1, <1>4 DEF RowsAdvance, Untouched, CopyOf, SameColumns
<1>5. CheckedAt(k)'
  BY <1>4 DEF Untouched, Handles, CheckedAt, Guarded
<1>6. ASSUME NEW j \in RowId, tx[k].active[j] > 0, pc[k] = "commitActivate"
      PROVE  /\ tx[k].active[j] <= rows'[j].lock
             /\ tx[k].active[j] = rows'[j].lock =>
                  rows'[j].status = "active" /\ rows'[j].name = req[k].pack.name
  BY <1>1, <1>6 DEF RowsAdvance, Handles, LockHolds, SameColumns
<1>7. LockHolds(k)'
  BY <1>3, <1>6 DEF Untouched, Handles, LockHolds, LocatedAt
<1> QED
  BY <1>2, <1>5, <1>7 DEF Handles

\* A step of one handler keeps the invariant when it keeps the facts about that
\* handler and rows only advance.
LEMMA StepKeeps ==
    ASSUME Inductive, NEW h \in Handler, TypeOK', Stored', RowsAdvance,
           \A k \in Handler \ {h} : Untouched(k), Handles(h)'
    PROVE  Inductive'
<1>1. ASSUME NEW k \in Handler PROVE Handles(k)'
  <2>1. CASE k = h
    BY <2>1
  <2>2. CASE k # h
    <3>1. Untouched(k) /\ TypeOK
      BY <2>2 DEF Inductive
    <3>2. Handles(k)
      BY DEF Inductive, OptimisticLock, Handles
    <3> QED
      BY <3>1, <3>2, OthersKept
  <2> QED
    BY <2>1, <2>2
<1> QED
  BY <1>1 DEF Inductive, OptimisticLock, Handles

\* Rows that stay as they are advance.
LEMMA RowsStay ==
    ASSUME TypeOK, Stored, UNCHANGED rows
    PROVE  RowsAdvance /\ Stored'
<1>1. \A i \in RowId : rows[i].lock \in Nat
  BY TypedParts
<1> QED
  BY <1>1 DEF RowsAdvance, SameColumns, Stored

\* Accepting a sound request keeps the invariant.
LEMMA AcceptKeeps ==
    ASSUME Inductive, NEW h \in Handler, NEW next, NEW r,
           Accepts(h, next, r), Sound(next, r)
    PROVE  Inductive'
<1>1. TypeOK /\ Stored /\ LocatedAt(h)
  BY DEF Inductive
<1>2. TypeOK'
  BY <1>1 DEF Accepts, Sound, TypeOK, Statement
<1>3. RowsAdvance /\ Stored'
  BY <1>1, RowsStay DEF Accepts
<1>4. pc'[h] = next /\ req'[h] = r /\ rows' = rows /\ tx'[h] = tx[h]
  BY <1>1 DEF TypeOK, Accepts
<1>5. \A k \in Handler \ {h} : Untouched(k)
  BY <1>1 DEF TypeOK, Accepts, Untouched
<1>6. r.seen.lock \in Nat
  BY DEF Sound, Request, Row
<1>7. CopyOf(r.seen, r.id)' <=> CopyOf(r.seen, r.id)
  BY <1>4 DEF CopyOf
<1>8. Handles(h)'
  <2>1. LocatedAt(h)'
    BY <1>4 DEF Sound, LocatedAt, InTransaction
  <2>2. CheckedAt(h)'
    BY <1>4, <1>6 DEF Sound, CheckedAt, Guarded, InTransaction, CopyOf, SameColumns
  <2>3. LockHolds(h)'
    BY <1>4 DEF Sound, LockHolds, InTransaction
  <2> QED
    BY <2>1, <2>2, <2>3 DEF Handles
<1> QED
  BY <1>2, <1>3, <1>5, <1>8, StepKeeps

\* Answering or abandoning a request keeps the invariant.
LEMMA IdleKeeps ==
    ASSUME Inductive, NEW h \in Handler, Idle(h)
    PROVE  Inductive'
<1>1. TypeOK /\ Stored
  BY DEF Inductive
<1>2. TypeOK'
  BY <1>1, BlankTypes DEF Idle, TypeOK, Statement
<1>3. RowsAdvance /\ Stored'
  BY <1>1, RowsStay DEF Idle
<1>4. pc'[h] = "idle" /\ req'[h].expect = 0
  BY <1>1 DEF TypeOK, Idle, NoRequest
<1>5. \A k \in Handler \ {h} : Untouched(k)
  BY <1>1 DEF TypeOK, Idle, Untouched
<1>6. Handles(h)'
  BY <1>4 DEF Handles, LocatedAt, CheckedAt, Guarded, LockHolds, InTransaction
<1> QED
  BY <1>2, <1>3, <1>5, <1>6, StepKeeps

\* A commit that only advances rows keeps the invariant.
LEMMA CommitKeeps ==
    ASSUME Inductive, NEW h \in Handler, Committed(h),
           rows' \in [RowId -> Row], RowsAdvance, Stored'
    PROVE  Inductive'
<1>1. TypeOK /\ LocatedAt(h)
  BY DEF Inductive
<1>a. PICK next \in {"audit", "target"} :
        /\ pc' = [pc EXCEPT ![h] = next]
        /\ next = "target" => req[h].op = "seed"
  BY Zenon DEF Committed
<1>2. next \in Statement /\ pc' \in [Handler -> Statement] /\ pc'[h] = next
  BY <1>1, <1>a DEF TypeOK, Statement
<1>3. TypeOK'
  BY <1>1, <1>2 DEF TypeOK, Committed
<1>4. req' = req /\ tx' = tx
  BY DEF Committed
<1>5. \A k \in Handler \ {h} : Untouched(k)
  BY <1>1 DEF TypeOK, Committed, Untouched
<1>6. Handles(h)'
  BY <1>1, <1>a, <1>2, <1>4
     DEF Handles, LocatedAt, CheckedAt, Guarded, LockHolds, InTransaction
<1> QED
  BY <1>3, <1>5, <1>6, StepKeeps

\* RollbackToParent, ListVersions and SeedFind: the request is refined,
\* nothing written.
LEMMA RefineKeeps ==
    ASSUME Inductive, NEW h \in Handler,
           RollbackToParent(h) \/ ListVersions(h) \/ SeedFind(h)
    PROVE  Inductive'
<1>1. TypeOK /\ Stored /\ LocatedAt(h) /\ req[h] \in Request
  BY DEF Inductive, TypeOK
<1>2. UNCHANGED <<rows, tx>> /\ RowsAdvance /\ Stored'
  BY <1>1, RowsStay DEF RollbackToParent, ListVersions, SeedFind
<1>3. CASE RollbackToParent(h)
  <2>1. PICK c \in RowId :
          /\ rows[c].parent # NoRow
          /\ req' = [req EXCEPT ![h].id = c, ![h].seen = rows[c],
                       ![h].pack.version = ParentVersion(c)]
    BY <1>3 DEF RollbackToParent, Find
  <2>2. rows[c] \in Row /\ rows[c].parent \in RowId
    BY <1>1, <2>1 DEF TypeOK, Row
  <2>3. ParentVersion(c) \in Nat
    BY <1>1, ParentVersionType
  <2>4. [req[h].pack EXCEPT !.version = ParentVersion(c)] \in Row
    BY <1>1, <2>3 DEF Request, Row
  <2>5. /\ req'[h] = [req[h] EXCEPT !.id = c, !.seen = rows[c],
                        !.pack = [@ EXCEPT !.version = ParentVersion(c)]]
        /\ \A k \in Handler \ {h} : req'[k] = req[k]
    BY <1>1, <2>1 DEF TypeOK
  <2>6. req'[h] \in Request /\ req'[h].op = req[h].op /\ req'[h].expect = req[h].expect
    BY <1>1, <2>2, <2>4, <2>5 DEF Request
  <2>7. pc' = [pc EXCEPT ![h] = "target"] /\ req[h].op = "rollback"
    BY <1>1, <1>3 DEF RollbackToParent, LocatedAt
  <2>8. TypeOK'
    BY <1>1, <1>2, <2>1, <2>6, <2>7 DEF TypeOK, Statement
  <2>9. pc'[h] = "target" /\ \A k \in Handler \ {h} : Untouched(k)
    BY <1>1, <1>2, <2>5, <2>7 DEF TypeOK, Untouched
  <2>10. Handles(h)'
    BY <1>1, <2>6, <2>7, <2>9
       DEF Handles, LocatedAt, CheckedAt, Guarded, LockHolds, InTransaction
  <2> QED
    BY <1>2, <2>8, <2>9, <2>10, StepKeeps
<1>4. CASE ListVersions(h)
  <2>a. PICK latest \in 0..MaxVersion, v \in 1..MaxVersion :
          req' = [req EXCEPT ![h].pack.version = v, ![h].base = latest]
    BY <1>4, Zenon DEF ListVersions
  <2>1. latest \in Nat /\ v \in Nat
    BY Constants
  <2>2. [req[h].pack EXCEPT !.version = v] \in Row
    BY <1>1, <2>1 DEF Request, Row
  <2>3. /\ req'[h] = [req[h] EXCEPT !.pack = [@ EXCEPT !.version = v], !.base = latest]
        /\ \A k \in Handler \ {h} : req'[k] = req[k]
    BY <1>1, <2>a DEF TypeOK
  <2>b. req[h].pack \in Row
    BY <1>1 DEF Request
  <2>c. [req[h].pack EXCEPT !.version = v].status = req[h].pack.status
    BY <2>b DEF Row
  <2>4. /\ req'[h] \in Request /\ req'[h].op = req[h].op
        /\ req'[h].expect = req[h].expect
        /\ req'[h].pack.status = req[h].pack.status
    BY <1>1, <2>1, <2>2, <2>3, <2>c DEF Request
  <2>5. pc[h] = "list" /\ pc' = [pc EXCEPT ![h] = "existing"]
    BY <1>4 DEF ListVersions
  <2>6. TypeOK'
    BY <1>1, <1>2, <2>a, <2>4, <2>5 DEF TypeOK, Statement
  <2>7. pc'[h] = "existing" /\ \A k \in Handler \ {h} : Untouched(k)
    BY <1>1, <1>2, <2>3, <2>5 DEF TypeOK, Untouched
  <2>8. Handles(h)'
    BY <1>1, <2>4, <2>5, <2>7
       DEF Handles, LocatedAt, CheckedAt, Guarded, LockHolds, InTransaction
  <2> QED
    BY <1>2, <2>6, <2>7, <2>8, StepKeeps
<1>5. CASE SeedFind(h)
  <2>1. PICK next \in {"existing", "target"} : pc' = [pc EXCEPT ![h] = next]
    BY <1>5, Zenon DEF SeedFind
  <2>2. pc[h] = "find" /\ req' = req /\ tx' = tx
    BY <1>5 DEF SeedFind
  <2>3. TypeOK'
    BY <1>1, <1>2, <2>1, <2>2 DEF TypeOK, Statement
  <2>4. pc'[h] = next /\ \A k \in Handler \ {h} : Untouched(k)
    BY <1>1, <2>1, <2>2 DEF TypeOK, Untouched
  <2>5. Handles(h)'
    BY <1>1, <2>1, <2>2, <2>4
       DEF Handles, LocatedAt, CheckedAt, Guarded, LockHolds, InTransaction
  <2> QED
    BY <1>2, <2>3, <2>4, <2>5, StepKeeps
<1> QED
  BY <1>3, <1>4, <1>5

-----------------------------------------------------------------------------
(***************************************************************************)
(* Repository steps that load.                                             *)
(***************************************************************************)
\* What the rest of the proof needs to know of a session that h has opened
\* before statement next.
SessionSound(h, next, x) ==
    /\ x \in Session
    /\ next \in InTransaction =>
         /\ x.target \in RowId /\ x.row.status # "absent"
         /\ CopyOf(x.row, x.target)
    /\ next = "commitActivate" => \A j \in RowId : x.active[j] > 0 =>
         /\ x.active[j] = rows[j].lock /\ rows[j].status = "active"
         /\ rows[j].name = req[h].pack.name
    /\ \/ next = "commitRow"
       \/ next \in {"actives", "commitActivate"} /\ req[h].op = "activate"
       => (req[h].expect > 0 => x.row.lock = req[h].expect)

\* A row as it is loaded is a copy of itself.
LEMMA LoadedSound ==
    ASSUME TypeOK, NEW i \in RowId
    PROVE  /\ Loaded(i) \in Session
           /\ Loaded(i).target = i /\ Loaded(i).row = rows[i]
           /\ CopyOf(Loaded(i).row, i)
<1>1. rows[i] \in Row
  BY DEF TypeOK
<1>2. Loaded(i) \in Session
  BY <1>1, BlankTypes DEF Loaded, Session
<1>3. Loaded(i).target = i /\ Loaded(i).row = rows[i]
  BY DEF Loaded, NoSession
<1>4. rows[i].lock \in Nat
  BY <1>1 DEF Row
<1> QED
  BY <1>2, <1>3, <1>4 DEF CopyOf, SameColumns

\* A session that loads a sound copy keeps the invariant.
LEMMA LoadKeeps ==
    ASSUME Inductive, NEW h \in Handler, NEW x,
           NEW next \in {"commitRow", "actives", "commitActivate", "commitSave", "insert"},
           Load(h, next, x), SessionSound(h, next, x),
           next = "commitRow" => pc[h] = "row",
           next = "actives" => pc[h] = "target",
           next = "commitActivate" => pc[h] = "actives",
           next \in {"commitSave", "insert"} => pc[h] = "existing"
    PROVE  Inductive'
<1>1. TypeOK /\ Stored /\ LocatedAt(h) /\ CheckedAt(h)
  BY DEF Inductive
<1>2. rows' = rows /\ req' = req /\ RowsAdvance /\ Stored'
  BY <1>1, RowsStay DEF Load
<1>3. TypeOK'
  BY <1>1 DEF Load, SessionSound, TypeOK, Statement
<1>4. pc'[h] = next /\ tx'[h] = x
  BY <1>1 DEF TypeOK, Load
<1>5. \A k \in Handler \ {h} : Untouched(k)
  BY <1>1 DEF TypeOK, Load, Untouched
<1>6. LocatedAt(h)'
  BY <1>1, <1>2, <1>4 DEF LocatedAt, SessionSound, InTransaction
<1>7. CheckedAt(h)'
  <2>1. Guarded(h)' => Guarded(h)
    BY <1>2, <1>4 DEF Guarded
  <2>2. CopyOf(req[h].seen, req[h].id) => CopyOf(req[h].seen, req[h].id)'
    BY <1>2 DEF CopyOf
  <2>3. Guarded(h)' /\ next \in InTransaction /\ req[h].expect > 0
          => x.row.lock = req[h].expect
    BY <1>2, <1>4 DEF Guarded, SessionSound
  <2> QED
    BY <1>1, <1>2, <1>4, <2>1, <2>2, <2>3 DEF CheckedAt
<1>8. LockHolds(h)'
  <2>1. CopyOf(x.row, x.target) => CopyOf(tx[h].row, tx[h].target)'
    BY <1>2, <1>4 DEF CopyOf
  <2>2. \A j \in RowId : rows[j].lock \in Nat
    BY <1>1, TypedParts
  <2> QED
    BY <1>2, <1>4, <2>1, <2>2 DEF LockHolds, SessionSound
<1> QED
  BY <1>2, <1>3, <1>5, <1>6, <1>7, <1>8, StepKeeps DEF Handles

\* The steps of the repository methods that load rows keep the invariant.
LEMMA LoadStepsKeep ==
    ASSUME Inductive, NEW h \in Handler,
           \/ LoadRow(h) \/ LoadTarget(h) \/ LoadActives(h)
           \/ SaveExisting(h) \/ SaveNew(h)
    PROVE  Inductive'
<1>1. /\ TypeOK /\ LocatedAt(h) /\ CheckedAt(h) /\ LockHolds(h)
      /\ req[h].expect \in Nat /\ tx[h] \in Session
  BY TypedParts DEF Inductive, OptimisticLock
<1>2. CASE LoadRow(h)
  <2>1. /\ pc[h] = "row" /\ req[h].id \in RowId /\ rows[req[h].id].status # "absent"
        /\ req[h].expect \in {0, rows[req[h].id].lock}
        /\ Load(h, "commitRow", Loaded(req[h].id))
    BY <1>1, <1>2 DEF LoadRow, LocatedAt, LockMatches
  <2>2. SessionSound(h, "commitRow", Loaded(req[h].id))
    BY <1>1, <2>1, LoadedSound DEF SessionSound
  <2> QED
    BY <2>1, <2>2, LoadKeeps
<1>3. CASE LoadTarget(h)
  <2>1. PICK i \in RowId : /\ pc[h] = "target" /\ rows[i].status # "absent"
                           /\ req[h].op = "activate" => req[h].expect \in {0, rows[i].lock}
                           /\ Load(h, "actives", Loaded(i))
    BY <1>3 DEF LoadTarget, Find, LockMatches
  <2>2. SessionSound(h, "actives", Loaded(i))
    BY <1>1, <2>1, LoadedSound DEF SessionSound
  <2> QED
    BY <2>1, <2>2, LoadKeeps
<1>4. CASE LoadActives(h)
  <2> DEFINE active == [j \in RowId |-> IF j \in ActiveRows(req[h].pack.name)
                                        THEN rows[j].lock ELSE 0]
             x == [tx[h] EXCEPT !.active = active]
  <2>1. pc[h] = "actives" /\ Load(h, "commitActivate", x)
    BY <1>4 DEF LoadActives
  <2>2. \A j \in RowId : rows[j].lock \in Nat
    BY <1>1, TypedParts
  <2>3. active \in [RowId -> Nat]
    BY <2>2
  <2>4. /\ x \in Session /\ x.target = tx[h].target /\ x.row = tx[h].row
        /\ x.active = active
    BY <1>1, <2>3 DEF Session
  <2>5. \A j \in RowId : active[j] > 0 =>
          active[j] = rows[j].lock /\ rows[j].status = "active"
          /\ rows[j].name = req[h].pack.name
    BY <2>2 DEF ActiveRows
  <2>6. pc[h] \in InTransaction /\ "commitActivate" \in InTransaction
    BY <2>1 DEF InTransaction
  <2>7. req[h].op = "activate" /\ req[h].expect > 0 => tx[h].row.lock = req[h].expect
    BY <1>1, <2>1, <2>6 DEF CheckedAt, Guarded
  <2>8. CopyOf(tx[h].row, tx[h].target) /\ tx[h].target \in RowId
        /\ tx[h].row.status # "absent"
    BY <1>1, <2>6 DEF LockHolds, LocatedAt
  <2> HIDE DEF x, active
  <2>9. SessionSound(h, "commitActivate", x)
    BY <2>4, <2>5, <2>7, <2>8 DEF SessionSound
  <2> QED
    BY <2>1, <2>9, LoadKeeps
<1>5. CASE SaveExisting(h)
  <2>1. PICK i \in RowId : /\ pc[h] = "existing" /\ rows[i].status # "absent"
                           /\ Load(h, "commitSave", Loaded(i))
    BY <1>5 DEF SaveExisting, Find
  <2>2. SessionSound(h, "commitSave", Loaded(i))
    BY <1>1, <2>1, LoadedSound DEF SessionSound
  <2> QED
    BY <2>1, <2>2, LoadKeeps
<1>6. CASE SaveNew(h)
  <2>1. PICK p : /\ pc[h] = "existing" /\ p \in RowId \cup {NoRow}
                 /\ Load(h, "insert", [NoSession EXCEPT !.parent = p])
    BY <1>6 DEF SaveNew, Find
  <2>2. [NoSession EXCEPT !.parent = p] \in Session
    BY <2>1, BlankTypes DEF Session
  <2>3. SessionSound(h, "insert", [NoSession EXCEPT !.parent = p])
    BY <2>2 DEF SessionSound, InTransaction
  <2> QED
    BY <2>1, <2>3, LoadKeeps
<1> QED
  BY <1>2, <1>3, <1>4, <1>5, <1>6

-----------------------------------------------------------------------------
(***************************************************************************)
(* Repository steps that commit.                                           *)
(***************************************************************************)
\* One row is replaced, with a higher lock_version.
LEMMA WriteKeeps ==
    ASSUME Inductive, NEW h \in Handler, Committed(h),
           NEW t \in RowId, NEW new \in Row, rows' = [rows EXCEPT ![t] = new],
           new.lock > rows[t].lock, new.status # "absent"
    PROVE  Inductive'
<1>1. TypeOK /\ Stored /\ rows \in [RowId -> Row]
  BY DEF Inductive, TypeOK
<1>2. new.lock \in Nat /\ \A i \in RowId : rows[i].lock \in Nat
  BY <1>1, TypedParts DEF Row
<1>3. rows'[t] = new /\ \A i \in RowId \ {t} : rows'[i] = rows[i]
  BY <1>1
<1>4. rows' \in [RowId -> Row]
  BY <1>1
<1>5. RowsAdvance
  BY <1>2, <1>3 DEF RowsAdvance, SameColumns
<1>6. Stored'
  BY <1>1, <1>2, <1>3 DEF Stored
<1> QED
  BY <1>4, <1>5, <1>6, CommitKeeps

\* What Updated adds to the columns it is given.
LEMMA UpdatedRow ==
    ASSUME TypeOK, NEW h \in Handler, NEW new \in Row, tx[h].target \in RowId,
           StillLoaded(h)
    PROVE  /\ Updated(h, new) \in Row
           /\ Updated(h, new).lock = rows[tx[h].target].lock + 1
           /\ SameColumns(Updated(h, new), new)
<1>1. tx[h].row.lock \in Nat /\ rows[tx[h].target] \in Row
  BY TypedParts
<1>2. rows[tx[h].target].rules \in Rules
  BY <1>1 DEF Row
<1>3. rows[tx[h].target].lock = tx[h].row.lock
  BY DEF StillLoaded
<1>a. \A l \in Nat, rules \in Rules : [new EXCEPT !.lock = l, !.rules = rules] \in Row
  BY DEF Row
<1>b. tx[h].row.lock + 1 \in Nat
  BY <1>1
<1>4. Updated(h, new) \in Row
  BY <1>2, <1>a, <1>b, Zenon DEF Updated
<1>5. Updated(h, new).lock = tx[h].row.lock + 1 /\ SameColumns(Updated(h, new), new)
  BY DEF Updated, SameColumns, Row
<1> QED
  BY <1>3, <1>4, <1>5

\* The UPDATE of one row, or its omission, keeps the invariant.
LEMMA CommitRowKeeps ==
    ASSUME Inductive, NEW h \in Handler, NEW new \in Row, new.status # "absent",
           CommitRow(h, new) \/ CommitUnchanged(h, new)
    PROVE  Inductive'
<1>1. TypeOK /\ Stored /\ LocatedAt(h) /\ pc[h] = "commitRow" /\ Committed(h)
  BY DEF Inductive, CommitRow, CommitUnchanged
<1>2. tx[h].target \in RowId /\ rows[tx[h].target].lock \in Nat
  BY <1>1, TypedParts DEF LocatedAt, InTransaction
<1>3. CASE CommitRow(h, new)
  <2>1. StillLoaded(h) /\ rows' = [rows EXCEPT ![tx[h].target] = Updated(h, new)]
    BY <1>3 DEF CommitRow
  <2>2. /\ Updated(h, new) \in Row /\ SameColumns(Updated(h, new), new)
        /\ Updated(h, new).lock = rows[tx[h].target].lock + 1
    BY <1>1, <1>2, <2>1, UpdatedRow
  <2>3. /\ Updated(h, new).status # "absent"
        /\ Updated(h, new).lock > rows[tx[h].target].lock
    BY <1>2, <2>2 DEF SameColumns
  <2> QED
    BY <1>1, <1>2, <2>1, <2>2, <2>3, WriteKeeps
<1>4. CASE CommitUnchanged(h, new)
  <2>1. UNCHANGED rows
    BY <1>4 DEF CommitUnchanged
  <2>2. rows' \in [RowId -> Row] /\ RowsAdvance /\ Stored'
    BY <1>1, <2>1, RowsStay DEF TypeOK
  <2> QED
    BY <1>1, <2>2, CommitKeeps
<1> QED
  BY <1>3, <1>4

\* update_metadata, update_status and soft_delete
LEMMA CommitColumnsKeep ==
    ASSUME Inductive, NEW h \in Handler,
           CommitMetadata(h) \/ CommitStatus(h) \/ CommitSoftDelete(h)
    PROVE  Inductive'
<1>1. TypeOK /\ LocatedAt(h) /\ req[h] \in Request /\ tx[h] \in Session
  BY DEF Inductive, TypeOK
<1>2. pc[h] = "commitRow"
  BY DEF CommitMetadata, CommitStatus, CommitSoftDelete, CommitRow, CommitUnchanged
<1>3. tx[h].row \in Row /\ tx[h].row.status # "absent"
  BY <1>1, <1>2 DEF Session, LocatedAt, InTransaction
<1>4. req[h].pack.name \in Name /\ req[h].pack.region \in Region
  BY <1>1 DEF Request, Row
<1>5. CASE CommitMetadata(h)
  <2>1. WithMetadata(h) \in Row /\ WithMetadata(h).status = tx[h].row.status
    BY <1>3, <1>4 DEF WithMetadata, Row
  <2> QED
    BY <1>3, <1>5, <2>1, CommitRowKeeps DEF CommitMetadata
<1>6. CASE CommitStatus(h)
  <2>1. AsPublished(h) \in Row /\ AsPublished(h).status = "published"
    BY <1>3 DEF AsPublished, Row, Status
  <2> QED
    BY <1>6, <2>1, CommitRowKeeps DEF CommitStatus
<1>7. CASE CommitSoftDelete(h)
  <2> DEFINE new == [tx[h].row EXCEPT !.status = "archived", !.deleted = TRUE]
  <2>1. new \in Row /\ new.status = "archived"
    BY <1>3 DEF Row, Status
  <2>2. CommitRow(h, new)
    BY <1>7 DEF CommitSoftDelete
  <2> HIDE DEF new
  <2> QED
    BY <2>1, <2>2, CommitRowKeeps
<1> QED
  BY <1>5, <1>6, <1>7

\* activate()'s commit of the target and the rows it supersedes.
LEMMA CommitActivateKeeps ==
    ASSUME Inductive, NEW h \in Handler, CommitActivate(h)
    PROVE  Inductive'
<1> DEFINE t == tx[h].target
           new == Updated(h, [tx[h].row EXCEPT !.status = "active"])
<1>1. /\ TypeOK /\ Stored /\ LocatedAt(h) /\ tx[h] \in Session
      /\ pc[h] = "commitActivate" /\ StillLoaded(h) /\ Committed(h)
  BY DEF Inductive, TypeOK, CommitActivate
<1>2. /\ t \in RowId /\ tx[h].row \in Row
      /\ \A j \in RowId : rows[j] \in Row /\ rows[j].lock \in Nat
  BY <1>1, TypedParts DEF LocatedAt, InTransaction, Session
<1>3. [tx[h].row EXCEPT !.status = "active"] \in Row
      /\ [tx[h].row EXCEPT !.status = "active"].status = "active"
  BY <1>2 DEF Row, Status
<1>4. new \in Row /\ new.lock = rows[t].lock + 1 /\ new.status = "active"
  BY <1>1, <1>2, <1>3, UpdatedRow DEF SameColumns
<1> HIDE DEF new
<1>5. ASSUME NEW j \in RowId
      PROVE  /\ [rows[j] EXCEPT !.status = "deprecated", !.lock = @ + 1] \in Row
             /\ [rows[j] EXCEPT !.status = "deprecated", !.lock = @ + 1].lock
                  = rows[j].lock + 1
             /\ [rows[j] EXCEPT !.status = "deprecated", !.lock = @ + 1].status
                  = "deprecated"
  <2>1. rows[j].lock + 1 \in Nat
    BY <1>2
  <2>2. \A l \in Nat : [rows[j] EXCEPT !.status = "deprecated", !.lock = l] \in Row
    BY <1>2 DEF Row, Status
  <2> QED
    BY <1>2, <2>1, <2>2 DEF Row
<1>6. rows' = [j \in RowId |->
                 IF j = t THEN new
                 ELSE IF j \in Superseded(h)
                 THEN [rows[j] EXCEPT !.status = "deprecated", !.lock = @ + 1]
                 ELSE rows[j]]
  BY DEF CommitActivate, new
<1>7. ASSUME NEW j \in RowId
      PROVE  /\ rows'[j] \in Row
             /\ \/ rows'[j] = rows[j]
                \/ rows'[j].lock = rows[j].lock + 1 /\ rows'[j].status # "absent"
  BY <1>2, <1>4, <1>5, <1>6
<1>8. rows' \in [RowId -> Row]
  BY <1>6, <1>7
<1>9. RowsAdvance
  BY <1>2, <1>7 DEF RowsAdvance, SameColumns
<1>10. Stored'
  BY <1>1, <1>2, <1>7 DEF Stored
<1> QED
  BY <1>1, <1>8, <1>9, <1>10, CommitKeeps

\* save()'s INSERT of a new row.
LEMMA CommitInsertKeeps ==
    ASSUME Inductive, NEW h \in Handler, CommitInsert(h)
    PROVE  Inductive'
<1> DEFINE new == [req[h].pack EXCEPT !.lock = 1, !.parent = tx[h].parent,
                                      !.deleted = FALSE]
<1>1. /\ TypeOK /\ Stored /\ LocatedAt(h) /\ req[h] \in Request /\ tx[h] \in Session
      /\ pc[h] = "insert" /\ Committed(h)
  BY DEF Inductive, TypeOK, CommitInsert
<1>2. PICK i \in RowId : rows[i].status = "absent" /\ rows' = [rows EXCEPT ![i] = new]
  BY DEF CommitInsert
<1>3. rows[i].lock = 0
  BY <1>1, <1>2 DEF Stored
<1>4. /\ req[h].pack \in Row /\ req[h].pack.status # "absent"
      /\ tx[h].parent \in RowId \cup {NoRow}
  BY <1>1 DEF LocatedAt, Request, Session
<1>5. new \in Row /\ new.lock = 1 /\ new.status # "absent"
  BY <1>4 DEF Row
<1>6. new.lock > rows[i].lock
  BY <1>3, <1>5
<1> HIDE DEF new
<1> QED
  BY <1>1, <1>2, <1>5, <1>6, WriteKeeps

\* save()'s overwriting of an existing row and its rules.
LEMMA CommitSaveKeeps ==
    ASSUME Inductive, NEW h \in Handler, CommitSave(h)
    PROVE  Inductive'
<1> DEFINE t == tx[h].target
           rules == [c \in RuleCode |-> Replaced(h, c)]
           new == [Updated(h, Overwritten(h)) EXCEPT !.rules = rules]
<1>1. /\ TypeOK /\ Stored /\ LocatedAt(h) /\ req[h] \in Request /\ tx[h] \in Session
      /\ pc[h] = "commitSave" /\ Committed(h)
  BY DEF Inductive, TypeOK, CommitSave
<1>2. /\ t \in RowId /\ rows[t] \in Row /\ rows[t].lock \in Nat
      /\ tx[h].row \in Row /\ req[h].pack \in Row /\ req[h].pack.status # "absent"
  BY <1>1, TypedParts DEF LocatedAt, InTransaction, Session, Request
<1>3. rules \in Rules
  <2>1. /\ rows[t].rules \in Rules /\ tx[h].row.rules \in Rules
        /\ req[h].pack.rules \in Rules
    BY <1>2 DEF Row
  <2> QED
    BY <2>1 DEF Rules, Replaced, Body
<1>4. /\ Overwritten(h) \in Row /\ Overwritten(h).status # "absent"
  BY <1>2 DEF Overwritten, Row
<1> HIDE DEF rules
<1>5. CASE rows' = [rows EXCEPT ![t].rules = rules]
  <2>1. rows'[t] = [rows[t] EXCEPT !.rules = rules]
        /\ \A i \in RowId \ {t} : rows'[i] = rows[i]
    BY <1>1, <1>2, <1>5 DEF TypeOK
  <2>2. /\ rows'[t] \in Row /\ rows'[t].lock = rows[t].lock
        /\ rows'[t].status = rows[t].status /\ SameColumns(rows[t], rows'[t])
    BY <1>2, <1>3, <2>1 DEF Row, SameColumns
  <2>3. \A i \in RowId : rows[i].lock \in Nat
    BY <1>1, TypedParts
  <2>4. rows' \in [RowId -> Row]
    BY <1>1, <1>5, <2>1, <2>2 DEF TypeOK
  <2>a. \A i \in RowId : /\ rows'[i].lock = rows[i].lock
                         /\ rows'[i].status = rows[i].status
                         /\ SameColumns(rows[i], rows'[i])
    BY <2>1, <2>2 DEF SameColumns
  <2>5. RowsAdvance
    BY <2>3, <2>a DEF RowsAdvance
  <2>6. Stored'
    BY <1>1, <2>a DEF Stored
  <2> QED
    BY <1>1, <2>4, <2>5, <2>6, CommitKeeps
<1>6. CASE StillLoaded(h) /\ rows' = [rows EXCEPT ![t] = new]
  <2>1. /\ Updated(h, Overwritten(h)) \in Row
        /\ Updated(h, Overwritten(h)).lock = rows[t].lock + 1
        /\ Updated(h, Overwritten(h)).status # "absent"
    BY <1>1, <1>2, <1>4, <1>6, UpdatedRow DEF SameColumns
  <2>2. new \in Row /\ new.lock > rows[t].lock /\ new.status # "absent"
    BY <1>2, <1>3, <2>1 DEF Row
  <2> HIDE DEF new, t
  <2> QED
    BY <1>1, <1>2, <1>6, <2>2, WriteKeeps
<1> QED
  BY <1>5, <1>6 DEF CommitSave, rules

-----------------------------------------------------------------------------
(***************************************************************************)
(* The theorems.                                                           *)
(***************************************************************************)
\* The tables a run may start from satisfy the invariant.
LEMMA InitInductive == Init => Inductive
<1> SUFFICES ASSUME Init PROVE Inductive
  OBVIOUS
<1>1. TypeOK
  BY BlankTypes, Constants DEF Init, TypeOK, Statement
<1>2. Stored
  BY Constants DEF Init, Stored
<1>3. ASSUME NEW h \in Handler PROVE Handles(h)
  <2>1. pc[h] = "idle" /\ req[h].expect = 0
    BY DEF Init, NoRequest
  <2> QED
    BY <2>1 DEF Handles, LocatedAt, CheckedAt, Guarded, LockHolds, InTransaction
<1> QED
  BY <1>1, <1>2, <1>3 DEF Inductive, OptimisticLock, Handles

\* Every step keeps the invariant.
LEMMA NextKeeps == Inductive /\ [Next]_vars => Inductive'
<1> SUFFICES ASSUME Inductive, [Next]_vars PROVE Inductive'
  OBVIOUS
<1>1. ASSUME NEW h \in Handler, UseCase(h) PROVE Inductive'
  <2>1. Start(h) \/ RollbackToParent(h) \/ ListVersions(h) \/ SeedFind(h)
    BY <1>1 DEF UseCase, Start
  <2>2. ASSUME Start(h) PROVE Inductive'
    BY <2>2, StartSound, AcceptKeeps DEF Inductive
  <2> QED
    BY <2>1, <2>2, RefineKeeps
<1>2. ASSUME NEW h \in Handler, Repository(h) PROVE Inductive'
  BY <1>2, LoadStepsKeep, CommitColumnsKeep, CommitActivateKeeps,
     CommitInsertKeeps, CommitSaveKeeps DEF Repository
<1>3. ASSUME NEW h \in Handler, WriteAudit(h) \/ Abandon(h) PROVE Inductive'
  BY <1>3, IdleKeeps DEF WriteAudit, Abandon
<1>4. CASE UNCHANGED vars
  BY <1>4 DEF vars, Inductive, TypeOK, Stored, OptimisticLock, LockHolds, CopyOf,
     SameColumns, LocatedAt, CheckedAt, Guarded
<1> QED
  BY <1>1, <1>2, <1>3, <1>4 DEF Next

\* The invariant holds always: rows exist before handlers use them, copies are
\* outdated only if lock_version says so, and locked requests were checked.
THEOREM InductiveAlways == Spec => []Inductive
  BY InitInductive, NextKeeps, PTL DEF Spec

\* Types are preserved by every request, whatever the handlers interleave.
THEOREM TypeCorrect == Spec => []TypeOK
<1>1. Inductive => TypeOK
  BY DEF Inductive
<1> QED
  BY <1>1, InductiveAlways, PTL

\* version_id_col: no UPDATE goes through on top of another handler's change.
THEOREM LockWorks == Spec => []OptimisticLock
<1>1. Inductive => OptimisticLock
  BY DEF Inductive
<1> QED
  BY <1>1, InductiveAlways, PTL

\* The row a locked UPDATE is about to change is as its use case saw it.
LEMMA CheckedFromInductive ==
    ASSUME Inductive, NEW h \in Handler, LockedUpdate(h)
    PROVE  SameColumns(req[h].seen, rows[tx[h].target])
<1>1. /\ TypeOK /\ LocatedAt(h) /\ CheckedAt(h)
      /\ req[h].expect \in Nat /\ req[h].seen.lock \in Nat
      /\ \A i \in RowId : rows[i].lock \in Nat
  BY TypedParts DEF Inductive
<1>2. /\ Guarded(h) /\ pc[h] \in InTransaction /\ req[h].expect > 0
      /\ tx[h].target = req[h].id /\ rows[req[h].id].lock = tx[h].row.lock
  BY <1>1 DEF LockedUpdate, LocatedAt, Guarded, InTransaction, LockableOps
<1>3. /\ req[h].id \in RowId /\ CopyOf(req[h].seen, req[h].id)
      /\ req[h].expect <= req[h].seen.lock /\ tx[h].row.lock = req[h].expect
  BY <1>1, <1>2 DEF CheckedAt
<1>4. req[h].seen.lock = rows[req[h].id].lock
  BY <1>1, <1>2, <1>3 DEF CopyOf
<1> QED
  BY <1>2, <1>3, <1>4 DEF CopyOf

\* With an expectedLockVersion, check-then-act is safe: the row the UPDATE is
\* about to change is as the use case saw it in its earlier session.
THEOREM LockedUpdatesAreChecked == Spec => []LockedUpdateIsChecked
<1>1. Inductive => LockedUpdateIsChecked
  BY CheckedFromInductive DEF LockedUpdateIsChecked
<1> QED
  BY <1>1, InductiveAlways, PTL
-----------------------------------------------------------------------------
(***************************************************************************)
(* Proofs about the management API when requests come one at a time: the   *)
(* lifecycle graph, the immutability of published packs, one active        *)
(* version per name and the validity of what is served.  With two handlers *)
(* each of them fails, because a use case checks in one session and the    *)
(* repository writes in another.                                           *)
(***************************************************************************)


\* Stored packs differ in name or version.
UniqueVersions(table) ==
    \A i, j \in RowId : /\ table[i].status # "absent" /\ table[j].status # "absent"
                        /\ table[i].name = table[j].name
                        /\ table[i].version = table[j].version
                        => i = j

\* At most one version of a name is active.
OneActive(table) ==
    \A i, j \in RowId : /\ table[i].status = "active" /\ table[j].status = "active"
                        /\ table[i].name = table[j].name
                        => i = j

\* What has been published has passed validation.
PublishedValid(table) ==
    \A i \in RowId : table[i].status \in {"published", "active", "deprecated"}
                       => Valid(table[i].rules)

Orderly(table) == UniqueVersions(table) /\ OneActive(table) /\ PublishedValid(table)

\* One request at a time, from an orderly table.  Left out are the startup
\* seeding, which saves its pack as active before it deprecates the one in
\* service, and rollback, which activates a parent whatever its status.  A
\* PATCH that moves a draft to another name can make two rows share name and
\* version, and save() and activate() then find either: with several names,
\* no PATCH carries one.
SerialClients ==
    /\ \A g, h \in Handler : g = h
    /\ "seed" \notin Ops /\ "rollback" \notin Ops
    /\ (\A f \in Patches : "name" \notin f) \/ (\A m, n \in Name : m = n)
    /\ \A table \in InitialRows : Orderly(table)

\* What a use case saw is still so at each later statement of its request.
\* update_metadata, update_status and soft_delete:
RowStep(h) ==
    /\ req[h].id \in RowId
    /\ req[h].seen = rows[req[h].id]
    /\ \/ /\ req[h].op = "updateMetadata" /\ req[h].seen.status = "draft"
          /\ "name" \in req[h].fields => req[h].pack.name = req[h].seen.name
       \/ /\ req[h].op = "softDelete"
          /\ req[h].seen.status \in {"draft", "published", "deprecated"}
       \/ /\ req[h].op = "publish" /\ req[h].seen.status = "draft"
          /\ Valid(req[h].seen.rules)

\* activate():
ActivateStep(h) ==
    /\ req[h].op = "activate" /\ req[h].id \in RowId
    /\ req[h].seen = rows[req[h].id] /\ req[h].pack = req[h].seen
    /\ req[h].seen.status \in {"published", "deprecated"}

\* save() of a pack that is not there:
NewStep(h) == Find(req[h].pack.name, req[h].pack.version) = {}

\* save() of an edited draft:
EditStep(h) ==
    /\ req[h].id \in RowId /\ rows[req[h].id].status = "draft"
    /\ req[h].pack.name = rows[req[h].id].name
    /\ req[h].pack.version = rows[req[h].id].version

OwnSession(h) == tx[h].target = req[h].id /\ tx[h].row = rows[req[h].id]

SerialAt(h) ==
    /\ pc[h] # "current"
    /\ pc[h] \in {"row", "commitRow"} => RowStep(h)
    /\ pc[h] \in {"target", "actives", "commitActivate"} => ActivateStep(h)
    /\ pc[h] \in {"commitRow", "actives", "commitActivate", "commitSave"} => OwnSession(h)
    /\ pc[h] = "commitActivate" =>
         \A j \in ActiveRows(req[h].pack.name) : tx[h].active[j] > 0
    /\ pc[h] \in {"list", "find", "existing", "commitSave", "insert"} =>
         req[h].pack.status = "draft" /\ req[h].op # "seed"
    /\ pc[h] = "list" => req[h].pack.version = 0 \/ NewStep(h)
    /\ pc[h] = "existing" => NewStep(h) \/ EditStep(h)
    /\ pc[h] = "commitSave" => EditStep(h)
    /\ pc[h] = "insert" => NewStep(h)

Serial == Inductive /\ Orderly(rows) /\ \A h \in Handler : SerialAt(h)
-----------------------------------------------------------------------------
(***************************************************************************)
(* What a request carries from its use case to the commit.                 *)
(***************************************************************************)

\* The facts a use case has checked hold when it hands over its request.
LEMMA SerialStart ==
    ASSUME SerialClients, Inductive, NEW h \in Handler, Start(h)
    PROVE  SerialAt(h)' /\ UNCHANGED rows
<1>1. /\ TypeOK /\ \A i \in RowId : rows[i] \in Row /\ rows[i].name \in Name
      /\ \A i \in RowId : rows[i].status \in Status \cup {"absent"}
  BY DEF Inductive, TypeOK, Row
<1>2. \A op, next, r : Accept(h, op, next, r) =>
        op \in Ops /\ pc'[h] = next /\ req'[h] = r /\ UNCHANGED <<rows, tx>>
  BY <1>1 DEF Accept, TypeOK
<1>3. \A op, i, e, pack : /\ Reading(op, i, e, pack).op = op /\ Reading(op, i, e, pack).id = i
                          /\ Reading(op, i, e, pack).seen = rows[i]
                          /\ Reading(op, i, e, pack).pack = pack
  BY DEF Reading, NoRequest
<1>4. CASE UpdateMetadata(h)
  <2>1. PICK i \in GetById, f \in Patches :
          \E e \in Expected(i),
             n \in IF "name" \in f THEN Name ELSE {rows[i].name},
             g \in IF "region" \in f THEN Region \ {NullRegion} ELSE {rows[i].region} :
            /\ rows[i].status = "draft"
            /\ Accept(h, "updateMetadata", "row",
                      [Reading("updateMetadata", i, e,
                               [rows[i] EXCEPT !.name = n, !.region = g])
                       EXCEPT !.fields = f])
    BY <1>4 DEF UpdateMetadata
  <2>2. PICK e \in Expected(i),
             n \in IF "name" \in f THEN Name ELSE {rows[i].name},
             g \in IF "region" \in f THEN Region \ {NullRegion} ELSE {rows[i].region} :
            Accept(h, "updateMetadata", "row",
                   [Reading("updateMetadata", i, e,
                            [rows[i] EXCEPT !.name = n, !.region = g])
                    EXCEPT !.fields = f])
    BY <2>1
  <2> DEFINE pack == [rows[i] EXCEPT !.name = n, !.region = g]
  <2>3. i \in RowId /\ rows[i].status = "draft"
    BY <2>1 DEF GetById
  <2>4. pack.name = n
    BY <1>1, <2>3 DEF Row
  <2>5. /\ pc'[h] = "row" /\ UNCHANGED <<rows, tx>>
        /\ req'[h] = [Reading("updateMetadata", i, e, pack) EXCEPT !.fields = f]
    BY <1>2, <2>2
  <2> HIDE DEF pack
  <2>6. /\ req'[h].id = i /\ req'[h].op = "updateMetadata" /\ req'[h].seen = rows[i]
        /\ req'[h].fields = f /\ req'[h].pack = pack
    BY <2>5 DEF Reading, NoRequest
  <2>7. "name" \in f => n = rows[i].name
    BY <1>1, <2>3 DEF SerialClients
  <2>8. RowStep(h)'
    BY <2>3, <2>4, <2>5, <2>6, <2>7 DEF RowStep
  <2> QED BY <2>5, <2>8 DEF SerialAt
<1>5. CASE SoftDelete(h)
  <2>1. PICK i \in GetById : \E e \in Expected(i) :
          /\ rows[i].status # "active"
          /\ Accept(h, "softDelete", "row", Reading("softDelete", i, e, rows[i]))
    BY <1>5 DEF SoftDelete
  <2>2. i \in RowId /\ rows[i].status \in {"draft", "published", "deprecated"}
    BY <1>1, <2>1 DEF GetById, Status
  <2>3. /\ pc'[h] = "row" /\ UNCHANGED <<rows, tx>> /\ req'[h].id = i
        /\ req'[h].op = "softDelete" /\ req'[h].seen = rows[i]
    BY <1>2, <1>3, <2>1
  <2>4. RowStep(h)'
    BY <2>2, <2>3 DEF RowStep
  <2> QED BY <2>3, <2>4 DEF SerialAt
<1>6. CASE Publish(h)
  <2>1. PICK i \in GetById : /\ CanTransition(rows[i].status, "published") /\ Valid(rows[i].rules)
                             /\ Accept(h, "publish", "row", Reading("publish", i, 0, rows[i]))
    BY <1>6 DEF Publish
  <2>2. i \in RowId /\ rows[i].status \in Status
    BY <1>1 DEF GetById
  <2>3. rows[i].status = "draft"
    BY <2>1, <2>2 DEF CanTransition, AllowedTransitions, Status
  <2>4. /\ pc'[h] = "row" /\ UNCHANGED <<rows, tx>> /\ req'[h].id = i
        /\ req'[h].op = "publish" /\ req'[h].seen = rows[i]
    BY <1>2, <1>3, <2>1
  <2>5. RowStep(h)'
    BY <2>1, <2>2, <2>3, <2>4 DEF RowStep
  <2> QED BY <2>4, <2>5 DEF SerialAt
<1>7. CASE Activate(h)
  <2>1. PICK i \in GetById : \E e \in Expected(i) :
          /\ CanTransition(rows[i].status, "active")
          /\ Accept(h, "activate", "target", Reading("activate", i, e, rows[i]))
    BY <1>7 DEF Activate
  <2>2. i \in RowId /\ rows[i].status \in Status
    BY <1>1 DEF GetById
  <2>3. rows[i].status \in {"published", "deprecated"}
    BY <2>1, <2>2 DEF CanTransition, AllowedTransitions, Status
  <2>4. /\ pc'[h] = "target" /\ UNCHANGED <<rows, tx>> /\ req'[h].id = i
        /\ req'[h].op = "activate" /\ req'[h].seen = rows[i] /\ req'[h].pack = rows[i]
    BY <1>2, <1>3, <2>1
  <2>5. ActivateStep(h)'
    BY <2>2, <2>3, <2>4 DEF ActivateStep
  <2> QED BY <2>4, <2>5 DEF SerialAt
<1>8. CASE CreateRulePack(h) \/ ImportRulePack(h)
  <2>1. PICK op \in {"create", "import"}, n \in Name, v \in Nat, g \in Region,
             a \in Actor, rules \in NewRules :
            /\ v = 0 \/ Find(n, v) = {}
            /\ Accept(h, op, "list", [NoRequest EXCEPT !.op = op,
                                        !.pack = NewPack(n, v, g, a, rules)])
    <3>1. CASE CreateRulePack(h)
      BY <3>1 DEF CreateRulePack
    <3>2. CASE ImportRulePack(h)
      <4>1. PICK n \in Name, v \in 0..MaxVersion, g \in Region, a \in Actor,
                 rules \in NewRules :
              /\ v = 0 \/ Find(n, v) = {}
              /\ Accept(h, "import", "list", [NoRequest EXCEPT !.op = "import",
                                     !.pack = NewPack(n, v, g, a, rules)])
        BY <3>2 DEF ImportRulePack
      <4>2. v \in Nat
        BY Constants
      <4> QED BY <4>1, <4>2
    <3> QED BY <1>8, <3>1, <3>2
  <2> DEFINE pack == NewPack(n, v, g, a, rules)
  <2>2. pack.name = n /\ pack.version = v /\ pack.status = "draft"
    BY DEF NewPack, Blank
  <2>3. pc'[h] = "list" /\ UNCHANGED <<rows, tx>> /\ req'[h] = [NoRequest EXCEPT !.op = op, !.pack = pack]
    BY <1>2, <2>1
  <2> HIDE DEF pack
  <2>4. req'[h].pack = pack /\ req'[h].op = op
    BY <2>3 DEF NoRequest
  <2>5. Find(n, v)' = Find(n, v)
    BY <2>3 DEF Find
  <2>6. req'[h].pack.version = 0 \/ NewStep(h)'
    BY <2>1, <2>2, <2>4, <2>5 DEF NewStep
  <2> QED BY <2>2, <2>3, <2>4, <2>6 DEF SerialAt
<1>9. CASE CreateRule(h) \/ UpdateRule(h) \/ DeleteRule(h)
  <2>1. PICK i \in RowId, c \in RuleCode, b \in Body,
             op \in {"createRule", "updateRule", "deleteRule"} :
            EditRule(h, op, i, c, b)
    BY <1>9, Constants
       DEF CreateRule, UpdateRule, DeleteRule, GetById, Body, Disabled
  <2> DEFINE pack == [rows[i] EXCEPT !.rules[c] = b]
  <2>2. /\ rows[i].status = "draft" /\ pc'[h] = "existing" /\ UNCHANGED <<rows, tx>>
        /\ req'[h] = [Reading(op, i, 0, pack) EXCEPT !.base = ParentVersion(i)]
    BY <1>2, <2>1 DEF EditRule
  <2>3. pack.status = "draft" /\ pack.name = rows[i].name /\ pack.version = rows[i].version
    BY <1>1, <2>2 DEF Row
  <2> HIDE DEF pack
  <2>4. req'[h].id = i /\ req'[h].op = op /\ req'[h].pack = pack
    BY <2>2 DEF Reading, NoRequest
  <2>5. EditStep(h)'
    BY <2>2, <2>3, <2>4 DEF EditStep
  <2> QED BY <2>2, <2>3, <2>4, <2>5 DEF SerialAt
<1>10. ~Rollback(h) /\ ~SeedActivePolicy(h)
  BY DEF Rollback, SeedActivePolicy, Accept, SerialClients
<1> QED BY <1>4, <1>5, <1>6, <1>7, <1>8, <1>9, <1>10 DEF Start

\* The next version number is one no row has.
LEMMA SerialList ==
    ASSUME Inductive, NEW h \in Handler, SerialAt(h), ListVersions(h)
    PROVE  SerialAt(h)' /\ UNCHANGED rows
<1>1. TypeOK /\ req[h] \in Request /\ pc[h] = "list"
  BY DEF Inductive, TypeOK, ListVersions
<1>2. PICK latest \in 0..MaxVersion, v \in 1..MaxVersion :
        /\ IsLatestVersion(req[h].pack.name, latest)
        /\ v = IF req[h].pack.version = 0 THEN latest + 1 ELSE req[h].pack.version
        /\ req' = [req EXCEPT ![h].pack.version = v, ![h].base = latest]
  BY DEF ListVersions
<1>3. pc'[h] = "existing" /\ UNCHANGED <<rows, tx>>
  BY <1>1 DEF ListVersions, TypeOK
<1>4. req[h].pack \in Row
  BY <1>1 DEF Request
<1>5. req'[h] = [[req[h] EXCEPT !.pack.version = v] EXCEPT !.base = latest]
  BY <1>1, <1>2 DEF TypeOK
<1>6. /\ req'[h].pack.version = v /\ req'[h].pack.name = req[h].pack.name
      /\ req'[h].pack.status = req[h].pack.status /\ req'[h].op = req[h].op
  BY <1>1, <1>4, <1>5 DEF Request, Row
<1>7. Find(req[h].pack.name, v) = {}
  <2>1. CASE req[h].pack.version # 0
    BY <1>1, <1>2, <2>1 DEF SerialAt, NewStep
  <2>2. CASE req[h].pack.version = 0
    <3>1. v = latest + 1 /\ latest \in Nat
      BY <1>2, <2>2, Constants
    <3>2. ASSUME NEW i \in RowId, rows[i].status # "absent", rows[i].name = req[h].pack.name
          PROVE  rows[i].version <= latest
      BY <1>2, <3>2 DEF IsLatestVersion
    <3>3. \A i \in RowId : rows[i].version \in Nat
      BY <1>1 DEF TypeOK, Row
    <3> QED BY <3>1, <3>2, <3>3 DEF Find
  <2> QED BY <2>1, <2>2
<1>8. NewStep(h)'
  BY <1>3, <1>6, <1>7 DEF NewStep, Find
<1> QED BY <1>1, <1>3, <1>6, <1>8 DEF SerialAt

\* The session of a request loads the row its use case saw, and activate()
\* loads every active row of the name.
LEMMA SerialLoad ==
    ASSUME Inductive, Orderly(rows), NEW h \in Handler, SerialAt(h),
           LoadRow(h) \/ LoadTarget(h) \/ LoadActives(h) \/ SaveExisting(h) \/ SaveNew(h)
    PROVE  SerialAt(h)' /\ UNCHANGED rows
<1>1. TypeOK /\ Stored /\ tx[h] \in Session /\ LocatedAt(h)
  BY DEF Inductive, TypeOK
<1>2. \A next, x : Load(h, next, x) =>
        pc'[h] = next /\ tx'[h] = x /\ UNCHANGED <<rows, req>>
  BY <1>1 DEF Load, TypeOK
<1>3. \A i \in RowId : Loaded(i).target = i /\ Loaded(i).row = rows[i]
  BY <1>1, LoadedSound
<1>4. CASE LoadRow(h)
  <2>1. pc[h] = "row" /\ Load(h, "commitRow", Loaded(req[h].id))
    BY <1>4 DEF LoadRow
  <2>2. RowStep(h) /\ req[h].id \in RowId
    BY <2>1 DEF SerialAt, RowStep
  <2>3. /\ pc'[h] = "commitRow" /\ UNCHANGED <<rows, req>>
        /\ tx'[h].target = req[h].id /\ tx'[h].row = rows[req[h].id]
    BY <1>2, <1>3, <2>1, <2>2
  <2>4. RowStep(h)' /\ OwnSession(h)'
    BY <2>2, <2>3 DEF RowStep, OwnSession
  <2> QED BY <2>3, <2>4 DEF SerialAt
<1>5. CASE LoadTarget(h)
  <2>1. PICK i \in Find(req[h].pack.name, req[h].pack.version) : Load(h, "actives", Loaded(i))
    BY <1>5 DEF LoadTarget
  <2>2. ActivateStep(h)
    BY <1>5 DEF LoadTarget, SerialAt
  <2>3. i = req[h].id
    BY <2>2 DEF Find, ActivateStep, Orderly, UniqueVersions
  <2>4. /\ pc'[h] = "actives" /\ UNCHANGED <<rows, req>>
        /\ tx'[h].target = req[h].id /\ tx'[h].row = rows[req[h].id]
    BY <1>2, <1>3, <2>1, <2>2, <2>3 DEF ActivateStep
  <2>5. ActivateStep(h)' /\ OwnSession(h)'
    BY <2>2, <2>4 DEF ActivateStep, OwnSession
  <2> QED BY <2>4, <2>5 DEF SerialAt
<1>6. CASE LoadActives(h)
  <2> DEFINE active == [j \in RowId |-> IF j \in ActiveRows(req[h].pack.name)
                                        THEN rows[j].lock ELSE 0]
  <2>1. pc[h] = "actives" /\ Load(h, "commitActivate", [tx[h] EXCEPT !.active = active])
    BY <1>6 DEF LoadActives
  <2>2. ActivateStep(h) /\ OwnSession(h)
    BY <2>1 DEF SerialAt
  <2>3. /\ pc'[h] = "commitActivate" /\ UNCHANGED <<rows, req>>
        /\ tx'[h].target = tx[h].target /\ tx'[h].row = tx[h].row /\ tx'[h].active = active
    BY <1>1, <1>2, <2>1 DEF Session
  <2>4. \A j \in ActiveRows(req[h].pack.name) : active[j] > 0
    <3>1. \A j \in RowId : rows[j].lock \in Nat
      BY <1>1, TypedParts
    <3> QED BY <1>1, <3>1 DEF ActiveRows, Stored
  <2> HIDE DEF active
  <2>5. ActivateStep(h)' /\ OwnSession(h)'
    BY <2>2, <2>3 DEF ActivateStep, OwnSession
  <2>6. \A j \in ActiveRows(req[h].pack.name)' : tx'[h].active[j] > 0
    BY <2>3, <2>4 DEF ActiveRows
  <2> QED BY <2>3, <2>5, <2>6 DEF SerialAt
<1>7. CASE SaveExisting(h)
  <2>1. PICK i \in Find(req[h].pack.name, req[h].pack.version) : Load(h, "commitSave", Loaded(i))
    BY <1>7 DEF SaveExisting
  <2>2. /\ pc[h] = "existing" /\ EditStep(h) /\ req[h].pack.status = "draft" /\ req[h].op # "seed"
    BY <1>7 DEF SaveExisting, SerialAt, NewStep
  <2>3. i = req[h].id
    BY <2>2 DEF Find, EditStep, Orderly, UniqueVersions
  <2>4. /\ pc'[h] = "commitSave" /\ UNCHANGED <<rows, req>>
        /\ tx'[h].target = req[h].id /\ tx'[h].row = rows[req[h].id]
    BY <1>2, <1>3, <2>1, <2>2, <2>3 DEF EditStep
  <2>5. EditStep(h)' /\ OwnSession(h)'
    BY <2>2, <2>4 DEF EditStep, OwnSession
  <2> QED BY <2>2, <2>4, <2>5 DEF SerialAt
<1>8. CASE SaveNew(h)
  <2>1. /\ pc[h] = "existing" /\ NewStep(h) /\ req[h].pack.status = "draft" /\ req[h].op # "seed"
        /\ pc'[h] = "insert" /\ UNCHANGED <<rows, req>>
    BY <1>2, <1>8 DEF SaveNew, SerialAt, NewStep
  <2>2. NewStep(h)'
    BY <2>1 DEF NewStep, Find
  <2> QED BY <2>1, <2>2 DEF SerialAt
<1> QED BY <1>4, <1>5, <1>6, <1>7, <1>8
-----------------------------------------------------------------------------
(***************************************************************************)
(* What the commits write.                                                 *)
(***************************************************************************)

\* A draft is edited, published after validation, or archived.
WritesDraft(t, r) ==
    /\ rows[t].status = "draft"
    /\ r.name = rows[t].name /\ r.version = rows[t].version
    /\ \/ r.status \in {"draft", "archived"}
       \/ r.status = "published" /\ Valid(r.rules)

\* A pack that is not in service is archived, and keeps its contents.
Retires(t, r) ==
    /\ rows[t].status \in {"published", "deprecated"} /\ r.status = "archived"
    /\ r.name = rows[t].name /\ r.version = rows[t].version
    /\ r.region = rows[t].region /\ r.rules = rows[t].rules

\* A draft with a new name and version is inserted.
Inserts(t, r) == /\ rows[t].status = "absent" /\ r.status = "draft"
                 /\ Find(r.name, r.version) = {}

\* One version of a name replaces the other active ones, and nothing but
\* their status changes.
Replaces(t) ==
    /\ rows[t].status \in {"published", "deprecated"}
    /\ \A j \in RowId :
         /\ rows'[j].name = rows[j].name /\ rows'[j].version = rows[j].version
         /\ rows'[j].region = rows[j].region /\ rows'[j].rules = rows[j].rules
         /\ rows'[j].status = IF j = t THEN "active"
                              ELSE IF rows[j].status = "active" /\ rows[j].name = rows[t].name
                              THEN "deprecated" ELSE rows[j].status

Lawful ==
    \/ UNCHANGED rows
    \/ \E t \in RowId : Replaces(t)
    \/ \E t \in RowId, r \in Row :
         /\ rows' = [rows EXCEPT ![t] = r]
         /\ WritesDraft(t, r) \/ Retires(t, r) \/ Inserts(t, r)

\* An UPDATE of rule_sets through update_metadata, update_status or
\* soft_delete.
LEMMA SerialRowWrite ==
    ASSUME Inductive, NEW h \in Handler, SerialAt(h),
           CommitMetadata(h) \/ CommitStatus(h) \/ CommitSoftDelete(h)
    PROVE  Lawful /\ pc'[h] = "audit"
<1>1. /\ TypeOK /\ req[h] \in Request /\ tx[h] \in Session /\ pc[h] = "commitRow"
      /\ pc \in [Handler -> Statement]
  BY DEF Inductive, TypeOK, CommitMetadata, CommitStatus, CommitSoftDelete, CommitRow,
         CommitUnchanged
<1>2. RowStep(h) /\ OwnSession(h)
  BY <1>1 DEF SerialAt
<1>3. pc'[h] = "audit"
  BY <1>1, <1>2 DEF CommitMetadata, CommitStatus, CommitSoftDelete, CommitRow, CommitUnchanged,
                    Committed, RowStep
<1> DEFINE t == req[h].id
<1>4. /\ t \in RowId /\ tx[h].target = t /\ tx[h].row = rows[t] /\ req[h].seen = rows[t]
      /\ rows[t] \in Row
  BY <1>1, <1>2 DEF RowStep, OwnSession, TypeOK
<1>5. ASSUME NEW new \in Row, CommitRow(h, new), new.version = rows[t].version
      PROVE  /\ rows' = [rows EXCEPT ![t] = Updated(h, new)]
             /\ Updated(h, new) \in Row
             /\ Updated(h, new).name = new.name /\ Updated(h, new).version = rows[t].version
             /\ Updated(h, new).status = new.status /\ Updated(h, new).region = new.region
             /\ Updated(h, new).rules = rows[t].rules
  <2>1. StillLoaded(h) /\ rows' = [rows EXCEPT ![t] = Updated(h, new)]
    BY <1>4, <1>5 DEF CommitRow
  <2>2. Updated(h, new) \in Row /\ SameColumns(Updated(h, new), new)
    BY <1>1, <1>4, <2>1, UpdatedRow
  <2>3. Updated(h, new).rules = rows[t].rules /\ Updated(h, new).version = new.version
    BY <1>4 DEF Updated, Row
  <2> QED BY <1>5, <2>1, <2>2, <2>3 DEF SameColumns
<1>6. CASE CommitMetadata(h)
  <2>1. CASE CommitUnchanged(h, WithMetadata(h))
    BY <1>3, <2>1 DEF CommitUnchanged, Lawful
  <2>2. CASE CommitRow(h, WithMetadata(h))
    <3>1. req[h].pack.name \in Name /\ req[h].pack.region \in Region
      BY <1>1 DEF Request, Row
    <3>2. /\ rows[t].status = "draft" /\ ("name" \in req[h].fields => req[h].pack.name = rows[t].name)
      BY <1>2, <1>4, <1>6 DEF RowStep, CommitMetadata
    <3>3. /\ WithMetadata(h) \in Row /\ WithMetadata(h).status = "draft"
          /\ WithMetadata(h).version = rows[t].version
          /\ WithMetadata(h).name = rows[t].name
      BY <1>4, <3>1, <3>2 DEF WithMetadata, Row
    <3> DEFINE r == Updated(h, WithMetadata(h))
    <3>4. rows' = [rows EXCEPT ![t] = r] /\ r \in Row /\ WritesDraft(t, r)
      BY <1>5, <2>2, <3>2, <3>3 DEF WritesDraft
    <3> QED BY <1>3, <1>4, <3>4 DEF Lawful
  <2> QED BY <1>6, <2>1, <2>2 DEF CommitMetadata
<1>7. CASE CommitStatus(h)
  <2>1. CASE CommitUnchanged(h, AsPublished(h))
    BY <1>3, <2>1 DEF CommitUnchanged, Lawful
  <2>2. CASE CommitRow(h, AsPublished(h))
    <3>1. rows[t].status = "draft" /\ Valid(rows[t].rules)
      BY <1>2, <1>4, <1>7 DEF RowStep, CommitStatus
    <3>2. /\ AsPublished(h) \in Row /\ AsPublished(h).status = "published"
          /\ AsPublished(h).version = rows[t].version /\ AsPublished(h).name = rows[t].name
      BY <1>4 DEF AsPublished, Row, Status
    <3> DEFINE r == Updated(h, AsPublished(h))
    <3>3. rows' = [rows EXCEPT ![t] = r] /\ r \in Row /\ WritesDraft(t, r)
      BY <1>5, <2>2, <3>1, <3>2 DEF WritesDraft
    <3> QED BY <1>3, <1>4, <3>3 DEF Lawful
  <2> QED BY <1>7, <2>1, <2>2 DEF CommitStatus
<1>8. CASE CommitSoftDelete(h)
  <2> DEFINE new == [tx[h].row EXCEPT !.status = "archived", !.deleted = TRUE]
             r == Updated(h, new)
  <2>1. CommitRow(h, new) /\ rows[t].status \in {"draft", "published", "deprecated"}
    BY <1>2, <1>4, <1>8 DEF RowStep, CommitSoftDelete
  <2>2. /\ new \in Row /\ new.status = "archived" /\ new.name = rows[t].name
        /\ new.version = rows[t].version /\ new.region = rows[t].region
    BY <1>4 DEF Row, Status
  <2> HIDE DEF new
  <2>3. /\ rows' = [rows EXCEPT ![t] = r] /\ r \in Row
        /\ r.name = rows[t].name /\ r.version = rows[t].version /\ r.status = "archived"
        /\ r.region = rows[t].region /\ r.rules = rows[t].rules
    BY <1>5, <2>1, <2>2
  <2>4. WritesDraft(t, r) \/ Retires(t, r)
    BY <2>1, <2>3 DEF WritesDraft, Retires
  <2> QED BY <1>3, <1>4, <2>3, <2>4 DEF Lawful
<1> QED BY <1>6, <1>7, <1>8

\* activate().
LEMMA SerialActivate ==
    ASSUME Inductive, NEW h \in Handler, SerialAt(h), CommitActivate(h)
    PROVE  Lawful /\ pc'[h] = "audit"
<1> DEFINE t == req[h].id
           new == Updated(h, [tx[h].row EXCEPT !.status = "active"])
<1>1. /\ TypeOK /\ LockHolds(h) /\ tx[h] \in Session /\ pc[h] = "commitActivate" /\ StillLoaded(h)
      /\ pc \in [Handler -> Statement]
  BY DEF Inductive, OptimisticLock, TypeOK, CommitActivate
<1>2. pc'[h] = "audit"
  BY <1>1 DEF CommitActivate, Committed
<1>3. ActivateStep(h) /\ OwnSession(h)
      /\ \A j \in ActiveRows(req[h].pack.name) : tx[h].active[j] > 0
  BY <1>1 DEF SerialAt
<1>4. /\ t \in RowId /\ tx[h].target = t /\ tx[h].row = rows[t] /\ req[h].pack.name = rows[t].name
      /\ rows[t].status \in {"published", "deprecated"} /\ rows[t] \in Row
  BY <1>1, <1>3 DEF ActivateStep, OwnSession, TypeOK
<1>5. \A j \in RowId : rows'[j] =
        IF j = t THEN new
        ELSE IF j \in Superseded(h)
        THEN [rows[j] EXCEPT !.status = "deprecated", !.lock = @ + 1]
        ELSE rows[j]
  BY <1>4 DEF CommitActivate
<1>6. /\ new.status = "active" /\ new.name = rows[t].name /\ new.version = rows[t].version
      /\ new.region = rows[t].region /\ new.rules = rows[t].rules
  BY <1>4 DEF Updated, Row
<1> HIDE DEF new
<1>7. ASSUME NEW j \in RowId, j # t
      PROVE  j \in Superseded(h) <=> rows[j].status = "active" /\ rows[j].name = rows[t].name
  <2>1. CASE j \in Superseded(h)
    <3>1. tx[h].active[j] > 0 /\ rows[j].lock = tx[h].active[j]
      BY <2>1 DEF Superseded, CommitActivate
    <3> QED BY <1>1, <1>4, <2>1, <3>1 DEF LockHolds
  <2>2. CASE rows[j].status = "active" /\ rows[j].name = rows[t].name
    <3>1. j \in ActiveRows(req[h].pack.name)
      BY <1>4, <2>2 DEF ActiveRows
    <3>2. tx[h].active[j] > 0 /\ j # tx[h].target
      BY <1>3, <1>4, <1>7, <3>1
    <3> QED BY <2>2, <3>2 DEF Superseded
  <2> QED BY <2>1, <2>2
<1>8. ASSUME NEW j \in RowId
      PROVE  /\ rows'[j].name = rows[j].name /\ rows'[j].version = rows[j].version
             /\ rows'[j].region = rows[j].region /\ rows'[j].rules = rows[j].rules
             /\ rows'[j].status = IF j = t THEN "active"
                                  ELSE IF rows[j].status = "active" /\ rows[j].name = rows[t].name
                                  THEN "deprecated" ELSE rows[j].status
  <2>1. CASE j = t
    BY <1>4, <1>5, <1>6, <2>1
  <2>2. CASE j # t /\ j \in Superseded(h)
    <3>1. rows'[j] = [rows[j] EXCEPT !.status = "deprecated", !.lock = @ + 1] /\ rows[j] \in Row
      BY <1>1, <1>5, <2>2 DEF TypeOK
    <3> QED BY <1>7, <2>2, <3>1 DEF Row
  <2>3. CASE j # t /\ j \notin Superseded(h)
    BY <1>5, <1>7, <2>3
  <2> QED BY <2>1, <2>2, <2>3
<1>9. Replaces(t)
  BY <1>4, <1>8 DEF Replaces
<1> QED BY <1>2, <1>4, <1>9 DEF Lawful

\* save().
LEMMA SerialSave ==
    ASSUME Inductive, NEW h \in Handler, SerialAt(h), CommitInsert(h) \/ CommitSave(h)
    PROVE  Lawful /\ pc'[h] = "audit"
<1>1. /\ TypeOK /\ TypeOK' /\ req[h] \in Request /\ req[h].pack \in Row
      /\ pc \in [Handler -> Statement] /\ rows \in [RowId -> Row] /\ rows' \in [RowId -> Row]
  <2>1. Inductive'
    BY CommitInsertKeeps, CommitSaveKeeps
  <2> QED BY <2>1 DEF Inductive, TypeOK, Request
<1>2. req[h].pack.status = "draft" /\ req[h].op # "seed"
  BY DEF CommitInsert, CommitSave, SerialAt
<1>3. pc'[h] = "audit"
  BY <1>1, <1>2 DEF CommitInsert, CommitSave, Committed
<1>4. CASE CommitInsert(h)
  <2> DEFINE r == [req[h].pack EXCEPT !.lock = 1, !.parent = tx[h].parent, !.deleted = FALSE]
  <2>1. PICK i \in RowId : rows[i].status = "absent" /\ rows' = [rows EXCEPT ![i] = r]
    BY <1>4 DEF CommitInsert
  <2>2. r = rows'[i] /\ r \in Row
    BY <1>1, <2>1
  <2>3. r.status = "draft" /\ r.name = req[h].pack.name /\ r.version = req[h].pack.version
    BY <1>1, <1>2 DEF Row
  <2> HIDE DEF r
  <2>4. Inserts(i, r)
    BY <1>4, <2>1, <2>3 DEF Inserts, CommitInsert, SerialAt, NewStep
  <2> QED BY <1>3, <2>1, <2>2, <2>4 DEF Lawful
<1>5. CASE CommitSave(h)
  <2> DEFINE t == tx[h].target
             rules == [c \in RuleCode |-> Replaced(h, c)]
  <2>1. EditStep(h) /\ OwnSession(h)
    BY <1>5 DEF CommitSave, SerialAt
  <2>2. t \in RowId /\ tx[h].row = rows[t] /\ rows[t].status = "draft" /\ rows[t] \in Row
    BY <1>1, <2>1 DEF EditStep, OwnSession
  <2>3. /\ rows'[t].name = rows[t].name /\ rows'[t].version = rows[t].version
        /\ rows'[t].status = "draft" /\ rows' = [rows EXCEPT ![t] = rows'[t]]
    <3>1. CASE rows' = [rows EXCEPT ![t].rules = rules]
      <4> HIDE DEF rules
      <4>1. rows'[t] = [rows[t] EXCEPT !.rules = rules]
        BY <1>1, <2>2, <3>1
      <4> QED BY <1>1, <2>2, <3>1, <4>1 DEF Row
    <3>2. CASE rows' = [rows EXCEPT ![t] = [Updated(h, Overwritten(h)) EXCEPT !.rules = rules]]
      <4> HIDE DEF rules
      <4>1. /\ Overwritten(h).name = rows[t].name /\ Overwritten(h).version = rows[t].version
            /\ Overwritten(h).status = "draft" /\ Overwritten(h) \in Row
        BY <1>1, <1>2, <2>2 DEF Overwritten, Row
      <4>2. /\ Updated(h, Overwritten(h)).name = rows[t].name
            /\ Updated(h, Overwritten(h)).version = rows[t].version
            /\ Updated(h, Overwritten(h)).status = "draft"
        BY <4>1 DEF Updated, Row
      <4>3. rows'[t] = [Updated(h, Overwritten(h)) EXCEPT !.rules = rules]
        BY <1>1, <2>2, <3>2
      <4>4. rows'[t].name = rows[t].name /\ rows'[t].version = rows[t].version
            /\ rows'[t].status = "draft"
        BY <4>1, <4>2, <4>3 DEF Updated, Row
      <4> QED BY <1>1, <2>2, <3>2, <4>3, <4>4
    <3> QED BY <1>5, <3>1, <3>2 DEF CommitSave
  <2>4. WritesDraft(t, rows'[t]) /\ rows'[t] \in Row
    BY <1>1, <2>2, <2>3 DEF WritesDraft
  <2> QED BY <1>3, <2>2, <2>3, <2>4 DEF Lawful
<1> QED BY <1>4, <1>5
-----------------------------------------------------------------------------
(***************************************************************************)
(* The invariant.                                                          *)
(***************************************************************************)

\* Lawful writes keep the table orderly.
LEMMA LawfulOrderly ==
    ASSUME TypeOK, Orderly(rows), Lawful
    PROVE  Orderly(rows')
<1>1. rows \in [RowId -> Row]
  BY DEF TypeOK
<1>2. CASE UNCHANGED rows
  BY <1>2
<1>3. ASSUME NEW t \in RowId, Replaces(t) PROVE Orderly(rows')
  <2>1. UniqueVersions(rows')
    BY <1>3 DEF Replaces, Orderly, UniqueVersions
  <2>2. OneActive(rows')
    BY <1>3 DEF Replaces, Orderly, OneActive
  <2>3. PublishedValid(rows')
    BY <1>3 DEF Replaces, Orderly, PublishedValid
  <2> QED BY <2>1, <2>2, <2>3 DEF Orderly
<1>4. ASSUME NEW t \in RowId, NEW r \in Row, rows' = [rows EXCEPT ![t] = r],
             WritesDraft(t, r) \/ Retires(t, r) \/ Inserts(t, r)
      PROVE  Orderly(rows')
  <2>0. rows'[t] = r /\ \A i \in RowId \ {t} : rows'[i] = rows[i]
    BY <1>1, <1>4
  <2>1. UniqueVersions(rows')
    <3>1. CASE Inserts(t, r)
      <4>1. \A i \in RowId : rows[i].status # "absent" =>
              rows[i].name # r.name \/ rows[i].version # r.version
        BY <3>1 DEF Inserts, Find
      <4> QED BY <2>0, <4>1 DEF Orderly, UniqueVersions
    <3>2. CASE WritesDraft(t, r) \/ Retires(t, r)
      BY <2>0, <3>2 DEF WritesDraft, Retires, Orderly, UniqueVersions
    <3> QED BY <1>4, <3>1, <3>2
  <2>2. OneActive(rows')
    BY <1>4, <2>0 DEF WritesDraft, Retires, Inserts, Orderly, OneActive
  <2>3. PublishedValid(rows')
    BY <1>4, <2>0 DEF WritesDraft, Retires, Inserts, Orderly, PublishedValid
  <2> QED BY <2>1, <2>2, <2>3 DEF Orderly
<1> QED BY <1>2, <1>3, <1>4 DEF Lawful

\* A step of the one handler keeps its own facts and writes lawfully.
LEMMA SerialStep ==
    ASSUME SerialClients, Serial, NEW h \in Handler,
           UseCase(h) \/ Repository(h) \/ WriteAudit(h) \/ Abandon(h)
    PROVE  SerialAt(h)' /\ Lawful
<1>1. Inductive /\ Orderly(rows) /\ SerialAt(h) /\ TypeOK
  BY DEF Serial, Inductive
<1>2. CASE Start(h)
  BY <1>1, <1>2, SerialStart DEF Lawful
<1>3. CASE ListVersions(h)
  BY <1>1, <1>3, SerialList DEF Lawful
<1>4. ~RollbackToParent(h) /\ ~SeedFind(h)
  BY <1>1 DEF RollbackToParent, SeedFind, SerialAt, Inductive, LocatedAt
<1>5. CASE LoadRow(h) \/ LoadTarget(h) \/ LoadActives(h) \/ SaveExisting(h) \/ SaveNew(h)
  BY <1>1, <1>5, SerialLoad DEF Lawful
<1>6. pc'[h] \in {"audit", "idle"} => SerialAt(h)'
  BY DEF SerialAt
<1>7. CASE \/ CommitMetadata(h) \/ CommitStatus(h) \/ CommitSoftDelete(h)
           \/ CommitActivate(h) \/ CommitInsert(h) \/ CommitSave(h)
  BY <1>1, <1>6, <1>7, SerialRowWrite, SerialActivate, SerialSave
<1>8. CASE WriteAudit(h) \/ Abandon(h)
  <2>1. pc'[h] = "idle" /\ UNCHANGED rows
    BY <1>1, <1>8 DEF WriteAudit, Abandon, Idle, TypeOK
  <2> QED BY <1>6, <2>1 DEF Lawful
<1> QED BY <1>2, <1>3, <1>4, <1>5, <1>7, <1>8 DEF UseCase, Start, Repository

\* The invariant is inductive, and every step writes lawfully.
LEMMA SerialKeeps ==
    ASSUME SerialClients
    PROVE  Serial /\ [Next]_vars => Serial' /\ Lawful
<1> SUFFICES ASSUME Serial, [Next]_vars PROVE Serial' /\ Lawful
  OBVIOUS
<1>1. Inductive' /\ TypeOK
  BY NextKeeps DEF Serial, Inductive
<1>2. CASE UNCHANGED vars
  <2>1. /\ rows' = rows /\ pc' = pc /\ req' = req /\ tx' = tx
    BY <1>2 DEF vars
  <2>2. ASSUME NEW h \in Handler PROVE SerialAt(h)'
    BY <2>1 DEF Serial, SerialAt, RowStep, ActivateStep, OwnSession, EditStep, NewStep, Find,
                ActiveRows
  <2> QED BY <1>1, <2>1, <2>2 DEF Serial, Lawful
<1>3. ASSUME NEW h \in Handler, UseCase(h) \/ Repository(h) \/ WriteAudit(h) \/ Abandon(h)
      PROVE  Serial' /\ Lawful
  <2>1. SerialAt(h)' /\ Lawful
    BY <1>3, SerialStep
  <2>2. ASSUME NEW k \in Handler PROVE SerialAt(k)'
    <3>1. k = h
      BY DEF SerialClients
    <3> QED BY <2>1, <3>1
  <2>3. Orderly(rows')
    BY <1>1, <2>1, LawfulOrderly DEF Serial
  <2> QED BY <1>1, <2>1, <2>2, <2>3 DEF Serial
<1> QED BY <1>2, <1>3 DEF Next

\* It holds from the start.
LEMMA SerialAlways ==
    ASSUME SerialClients
    PROVE  Spec => []Serial
<1>1. Init => Serial
  <2> SUFFICES ASSUME Init PROVE Serial
    OBVIOUS
  <2>1. Inductive /\ Orderly(rows)
    BY InitInductive DEF Init, SerialClients
  <2>2. ASSUME NEW h \in Handler PROVE SerialAt(h)
    BY DEF Init, SerialAt
  <2> QED BY <2>1, <2>2 DEF Serial
<1> QED BY <1>1, SerialKeeps, PTL DEF Spec

\* One request at a time: at most one version of a name is active.
THEOREM SerialOneActive ==
    ASSUME SerialClients
    PROVE  Spec => []AtMostOneActive
<1>1. Serial => AtMostOneActive
  BY DEF Serial, Orderly, OneActive, AtMostOneActive
<1> QED BY <1>1, SerialAlways, PTL

\* One request at a time: what is served has passed validation.
THEOREM SerialActiveValid ==
    ASSUME SerialClients
    PROVE  Spec => []ActiveIsValid
<1>1. Serial => ActiveIsValid
  BY DEF Serial, Orderly, PublishedValid, ActiveIsValid
<1> QED BY <1>1, SerialAlways, PTL

\* One request at a time: statuses change along _ALLOWED_TRANSITIONS.
THEOREM SerialLifecycle ==
    ASSUME SerialClients
    PROVE  Spec => LifecycleFollowed
<1>1. ASSUME TypeOK, Lawful, NEW i \in RowId, rows[i].status \notin {"absent", rows'[i].status}
      PROVE  CanTransition(rows[i].status, rows'[i].status)
  <2>1. rows \in [RowId -> Row]
    BY <1>1 DEF TypeOK
  <2>2. ASSUME NEW t \in RowId, Replaces(t)
        PROVE  CanTransition(rows[i].status, rows'[i].status)
    BY <1>1, <2>2 DEF Replaces, CanTransition, AllowedTransitions, Status
  <2>3. ASSUME NEW t \in RowId, NEW r \in Row, rows' = [rows EXCEPT ![t] = r],
               WritesDraft(t, r) \/ Retires(t, r) \/ Inserts(t, r)
        PROVE  CanTransition(rows[i].status, rows'[i].status)
    <3>1. i = t /\ rows'[i] = r
      BY <1>1, <2>1, <2>3
    <3>2. CASE WritesDraft(t, r)
      BY <1>1, <3>1, <3>2 DEF WritesDraft, CanTransition, AllowedTransitions, Status
    <3>3. CASE Retires(t, r)
      BY <1>1, <3>1, <3>3 DEF Retires, CanTransition, AllowedTransitions, Status
    <3>4. CASE Inserts(t, r)
      BY <1>1, <3>1, <3>4 DEF Inserts
    <3> QED BY <2>3, <3>2, <3>3, <3>4
  <2> QED BY <1>1, <2>2, <2>3 DEF Lawful
<1>2. Serial /\ [Next]_vars =>
        [\A i \in RowId : rows[i].status \notin {"absent", rows'[i].status}
           => CanTransition(rows[i].status, rows'[i].status)]_vars
  BY <1>1, SerialKeeps DEF Serial, Inductive
<1> QED BY <1>2, SerialAlways, PTL DEF Spec, LifecycleFollowed

\* One request at a time: a pack that is not a draft keeps its rules, its
\* name and its region.
THEOREM SerialFrozen ==
    ASSUME SerialClients
    PROVE  Spec => FrozenOncePublished
<1>1. ASSUME TypeOK, Lawful, NEW i \in RowId, rows[i].status \notin {"absent", "draft"}
      PROVE  /\ rows'[i].rules = rows[i].rules /\ rows'[i].name = rows[i].name
             /\ rows'[i].region = rows[i].region
  <2>1. rows \in [RowId -> Row]
    BY <1>1 DEF TypeOK
  <2> QED BY <1>1, <2>1 DEF Lawful, Replaces, WritesDraft, Retires, Inserts
<1>2. Serial /\ [Next]_vars =>
        [\A i \in RowId : rows[i].status \notin {"absent", "draft"}
           => /\ rows'[i].rules = rows[i].rules
              /\ rows'[i].name = rows[i].name
              /\ rows'[i].region = rows[i].region]_vars
  BY <1>1, SerialKeeps DEF Serial, Inductive
<1> QED BY <1>2, SerialAlways, PTL DEF Spec, FrozenOncePublished

-----------------------------------------------------------------------------
(***************************************************************************)
(* What activation does.  First, for all operations: an activation that    *)
(* found active versions leaves no more of them than there were.  Then,    *)
(* for the operations that go through activate() or take an                *)
(* expectedLockVersion, from clients that send it: a name in service keeps *)
(* exactly one active version, and the API implements ActivePolicy.        *)
(***************************************************************************)
\* The steps of one handler.
Step(h) == UseCase(h) \/ Repository(h) \/ WriteAudit(h) \/ Abandon(h)

\* What activate()'s session holds: a target of the name the request is for,
\* loaded no later than the active rows.
ActivatingAt(h) ==
    /\ pc[h] \in {"actives", "commitActivate"} => tx[h].row.name = req[h].pack.name
    /\ pc[h] = "commitActivate" => \/ tx[h].active[tx[h].target] = 0
                                   \/ tx[h].row.lock <= tx[h].active[tx[h].target]

Activating == \A h \in Handler : ActivatingAt(h)
-----------------------------------------------------------------------------
(***************************************************************************)
(* Where steps lead.                                                       *)
(***************************************************************************)

\* A step of one handler leaves the others' statements, requests and sessions
\* alone, and only the loads of activate() lead into it.
LEMMA StepLands ==
    ASSUME Inductive, NEW h \in Handler, Step(h)
    PROVE  /\ \A k \in Handler \ {h} : Untouched(k)
           /\ pc'[h] \in {"actives", "commitActivate"} => LoadTarget(h) \/ LoadActives(h)
<1>1. pc \in [Handler -> Statement] /\ req \in [Handler -> Request] /\ tx \in [Handler -> Session]
      /\ TypeOK
  BY DEF Inductive, TypeOK
<1>2. CASE Start(h)
  <2>1. PICK next, r : Accepts(h, next, r) /\ Sound(next, r)
    BY <1>1, <1>2, StartSound
  <2> QED BY <1>1, <2>1 DEF Accepts, Sound, Untouched
<1>3. CASE RollbackToParent(h)
  BY <1>1, <1>3 DEF RollbackToParent, Untouched
<1>4. CASE ListVersions(h) \/ SeedFind(h)
  <2>1. pc'[h] \in {"existing", "target"} /\ \A k \in Handler \ {h} : pc'[k] = pc[k]
    BY <1>1, <1>4 DEF ListVersions, SeedFind
  <2> QED BY <1>1, <1>4, <2>1 DEF ListVersions, SeedFind, Untouched
<1>5. CASE LoadRow(h) \/ LoadTarget(h) \/ LoadActives(h) \/ SaveExisting(h) \/ SaveNew(h)
  BY <1>1, <1>5 DEF LoadRow, LoadTarget, LoadActives, SaveExisting, SaveNew, Load, Untouched
<1>6. CASE Committed(h)
  <2>1. pc'[h] \in {"target", "audit"} /\ \A k \in Handler \ {h} : pc'[k] = pc[k]
    BY <1>1, <1>6 DEF Committed
  <2> QED BY <1>6, <2>1 DEF Committed, Untouched
<1>7. CASE WriteAudit(h) \/ Abandon(h)
  BY <1>1, <1>7 DEF WriteAudit, Abandon, Idle, Untouched
<1>8. Repository(h) => \/ LoadRow(h) \/ LoadTarget(h) \/ LoadActives(h)
                       \/ SaveExisting(h) \/ SaveNew(h) \/ Committed(h)
  BY DEF Repository, CommitMetadata, CommitStatus, CommitSoftDelete, CommitRow, CommitUnchanged,
         CommitActivate, CommitInsert, CommitSave
<1>9. UseCase(h) => Start(h) \/ RollbackToParent(h) \/ ListVersions(h) \/ SeedFind(h)
  BY DEF UseCase, Start
<1> QED BY <1>2, <1>3, <1>4, <1>5, <1>6, <1>7, <1>8, <1>9 DEF Step

\* Steps keep what activate()'s sessions hold.
LEMMA StepActivating ==
    ASSUME Inductive, Activating, NEW h \in Handler, Step(h)
    PROVE  Activating'
<1>1. ASSUME NEW k \in Handler \ {h} PROVE ActivatingAt(k)'
  BY <1>1, StepLands DEF Activating, ActivatingAt, Untouched
<1>2. ActivatingAt(h)'
  <2>1. TypeOK /\ LocatedAt(h) /\ LockHolds(h) /\ tx[h] \in Session
    BY DEF Inductive, OptimisticLock, TypeOK
  <2>2. CASE LoadTarget(h)
    <3>1. PICK i \in Find(req[h].pack.name, req[h].pack.version) : Load(h, "actives", Loaded(i))
      BY <2>2 DEF LoadTarget
    <3>2. i \in RowId /\ rows[i].name = req[h].pack.name
      BY DEF Find
    <3>3. pc'[h] = "actives" /\ tx'[h] = Loaded(i) /\ req' = req /\ Loaded(i).row = rows[i]
      BY <2>1, <3>1, <3>2, LoadedSound DEF Load, TypeOK
    <3> QED BY <3>2, <3>3 DEF ActivatingAt
  <2>3. CASE LoadActives(h)
    <3> DEFINE active == [j \in RowId |-> IF j \in ActiveRows(req[h].pack.name)
                                          THEN rows[j].lock ELSE 0]
    <3>1. pc[h] = "actives" /\ Load(h, "commitActivate", [tx[h] EXCEPT !.active = active])
      BY <2>3 DEF LoadActives
    <3>2. /\ pc'[h] = "commitActivate" /\ req' = req
          /\ tx'[h].active = active /\ tx'[h].row = tx[h].row /\ tx'[h].target = tx[h].target
      BY <2>1, <3>1 DEF Load, TypeOK, Session
    <3>3. /\ tx[h].target \in RowId /\ CopyOf(tx[h].row, tx[h].target)
          /\ tx[h].row.name = req[h].pack.name
      BY <2>1, <3>1 DEF LocatedAt, LockHolds, InTransaction, Activating, ActivatingAt
    <3>4. active[tx[h].target] = 0 \/ tx[h].row.lock <= active[tx[h].target]
      BY <3>3 DEF CopyOf
    <3> HIDE DEF active
    <3> QED BY <3>2, <3>3, <3>4 DEF ActivatingAt
  <2>4. CASE pc'[h] \notin {"actives", "commitActivate"}
    BY <2>4 DEF ActivatingAt
  <2> QED BY <2>2, <2>3, <2>4, StepLands
<1> QED BY <1>1, <1>2 DEF Activating

\* They always hold it.
LEMMA ActivatingAlways == Spec => [](Inductive /\ Activating)
<1>1. Init => Activating
  BY DEF Init, Activating, ActivatingAt
<1>2. Inductive /\ Activating /\ [Next]_vars => Activating'
  <2> SUFFICES ASSUME Inductive, Activating, [Next]_vars PROVE Activating'
    OBVIOUS
  <2>1. CASE UNCHANGED vars
    BY <2>1 DEF vars, Activating, ActivatingAt
  <2>2. ASSUME NEW h \in Handler, Step(h) PROVE Activating'
    BY <2>2, StepActivating
  <2> QED BY <2>1, <2>2 DEF Next, Step
<1> QED BY <1>1, <1>2, InitInductive, NextKeeps, PTL DEF Spec
-----------------------------------------------------------------------------
(***************************************************************************)
(* What the commit of activate() does.                                     *)
(***************************************************************************)

\* The target is of the request's name and becomes active, as visible to the
\* hot path as the session loaded it; the rows
\* superseded were active under that name and become deprecated; nothing
\* else changes.  A target that was loaded as active is active still.
LEMMA ActivateEffect ==
    ASSUME Inductive, Activating, NEW h \in Handler, CommitActivate(h)
    PROVE  /\ tx[h].target \in RowId
           /\ rows[tx[h].target].name = req[h].pack.name
           /\ rows[tx[h].target].status # "absent"
           /\ rows'[tx[h].target].name = req[h].pack.name
           /\ rows'[tx[h].target].status = "active"
           /\ Visible(rows'[tx[h].target]) <=> Visible(tx[h].row)
           /\ \A j \in Superseded(h) :
                /\ j \in RowId \ {tx[h].target}
                /\ rows[j].status = "active" /\ rows[j].name = req[h].pack.name
                /\ rows'[j].status = "deprecated" /\ rows'[j].name = req[h].pack.name
           /\ \A j \in RowId \ (Superseded(h) \cup {tx[h].target}) : rows'[j] = rows[j]
           /\ tx[h].active[tx[h].target] > 0 => rows[tx[h].target].status = "active"
<1> DEFINE t == tx[h].target
           new == Updated(h, [tx[h].row EXCEPT !.status = "active"])
<1>1. /\ TypeOK /\ Stored /\ LocatedAt(h) /\ LockHolds(h) /\ tx[h] \in Session
      /\ pc[h] = "commitActivate" /\ StillLoaded(h)
  BY DEF Inductive, OptimisticLock, TypeOK, CommitActivate
<1>2. /\ t \in RowId /\ tx[h].row \in Row /\ tx[h].row.status # "absent"
      /\ \A j \in RowId : rows[j] \in Row /\ rows[j].lock \in Nat /\ tx[h].active[j] \in Nat
      /\ tx[h].row.lock \in Nat
  BY <1>1, TypedParts DEF LocatedAt, InTransaction, Session
<1>3. tx[h].row.name = req[h].pack.name /\ rows[t].lock = tx[h].row.lock
  BY <1>1 DEF Activating, ActivatingAt, StillLoaded
<1>4. SameColumns(tx[h].row, rows[t])
  BY <1>1, <1>3 DEF LockHolds, InTransaction, CopyOf
<1>5. /\ [tx[h].row EXCEPT !.status = "active"] \in Row
      /\ [tx[h].row EXCEPT !.status = "active"].status = "active"
      /\ [tx[h].row EXCEPT !.status = "active"].name = tx[h].row.name
      /\ [tx[h].row EXCEPT !.status = "active"].region = tx[h].row.region
      /\ [tx[h].row EXCEPT !.status = "active"].deleted = tx[h].row.deleted
  BY <1>2 DEF Row, Status
<1>6. /\ new.status = "active" /\ new.name = req[h].pack.name
      /\ new.region = tx[h].row.region /\ new.deleted = tx[h].row.deleted
  BY <1>1, <1>2, <1>3, <1>5, UpdatedRow DEF SameColumns
<1>7. \A j \in RowId : rows'[j] =
        IF j = t THEN new
        ELSE IF j \in Superseded(h)
        THEN [rows[j] EXCEPT !.status = "deprecated", !.lock = @ + 1]
        ELSE rows[j]
  BY DEF CommitActivate
<1> HIDE DEF new
<1>8. /\ rows'[t].status = "active" /\ rows'[t].name = req[h].pack.name
      /\ Visible(rows'[t]) <=> Visible(tx[h].row)
  BY <1>2, <1>6, <1>7 DEF Visible
<1>9. ASSUME NEW j \in Superseded(h)
      PROVE  /\ j \in RowId \ {t}
             /\ rows[j].status = "active" /\ rows[j].name = req[h].pack.name
             /\ rows'[j].status = "deprecated" /\ rows'[j].name = req[h].pack.name
  <2>1. j \in RowId \ {t} /\ tx[h].active[j] > 0 /\ rows[j].lock = tx[h].active[j]
    BY DEF Superseded, CommitActivate
  <2>2. rows[j].status = "active" /\ rows[j].name = req[h].pack.name
    BY <1>1, <2>1 DEF LockHolds
  <2>3. rows'[j] = [rows[j] EXCEPT !.status = "deprecated", !.lock = @ + 1]
    BY <1>7, <2>1
  <2>4. rows[j] \in Row
    BY <1>2, <2>1
  <2> QED BY <2>1, <2>2, <2>3, <2>4 DEF Row
<1>10. \A j \in RowId \ (Superseded(h) \cup {t}) : rows'[j] = rows[j]
  BY <1>7
<1>11. tx[h].active[t] > 0 => rows[t].status = "active"
  <2> SUFFICES ASSUME tx[h].active[t] > 0 PROVE rows[t].status = "active"
    OBVIOUS
  <2>1. tx[h].row.lock <= tx[h].active[t]
    BY <1>1, <1>2 DEF Activating, ActivatingAt
  <2>2. tx[h].active[t] <= rows[t].lock
    BY <1>1, <1>2 DEF LockHolds
  <2>3. tx[h].active[t] = rows[t].lock
    BY <1>2, <1>3, <2>1, <2>2
  <2> QED BY <1>1, <1>2, <2>3 DEF LockHolds
<1> QED BY <1>2, <1>3, <1>4, <1>8, <1>9, <1>10, <1>11 DEF SameColumns

\* Replacing at least one element of a finite set by one, or none of them by
\* one that is there, makes it no larger.
LEMMA ReplacedIsNoLarger ==
    ASSUME NEW S, IsFiniteSet(S), NEW t, NEW out, out \subseteq S,
           out # {} \/ t \in S, t \notin out,
           NEW T, T \subseteq (S \ out) \cup {t}
    PROVE  Cardinality(T) <= Cardinality(S)
<1>1. CASE t \in S
  BY <1>1, FS_Subset
<1>2. CASE out # {}
  <2>1. PICK x \in out : TRUE
    BY <1>2
  <2>2. /\ IsFiniteSet(S \ {x}) /\ Cardinality(S \ {x}) = Cardinality(S) - 1
    BY <2>1, FS_RemoveElement
  <2>3. /\ IsFiniteSet((S \ {x}) \cup {t})
        /\ Cardinality((S \ {x}) \cup {t}) = IF t \in S \ {x} THEN Cardinality(S \ {x})
                                             ELSE Cardinality(S \ {x}) + 1
    BY <2>2, FS_AddElement
  <2>4. T \subseteq (S \ {x}) \cup {t}
    BY <2>1
  <2>5. Cardinality(T) <= Cardinality((S \ {x}) \cup {t})
    BY <2>3, <2>4, FS_Subset
  <2>6. Cardinality(S) \in Nat /\ Cardinality(T) \in Nat
    BY <2>3, <2>4, FS_Subset, FS_CardinalityType
  <2> QED BY <2>2, <2>3, <2>5, <2>6
<1> QED BY <1>1, <1>2

\* Of the activations racing to replace a version one commits and the others
\* fail: an activation that found active versions of its name never leaves
\* more of them, whatever the other handlers do.
THEOREM ActivationsAddNone ==
    ASSUME IsFiniteSet(RowId)
    PROVE  Spec => ActivationAddsNone
<1>1. ASSUME Inductive, Activating, [Next]_vars, NEW h \in Handler,
             pc[h] = "commitActivate", pc'[h] = "audit", \E j \in RowId : tx[h].active[j] > 0
      PROVE  Cardinality({j \in RowId : /\ rows'[j].status = "active"
                                        /\ rows'[j].name = req[h].pack.name})
               <= Cardinality(ActiveRows(req[h].pack.name))
  <2>1. CommitActivate(h)
    <3>1. PICK g \in Handler : Step(g)
      BY <1>1 DEF Next, Step, vars
    <3>2. g = h
      BY <1>1, <3>1, StepLands DEF Untouched
    <3>3. TypeOK
      BY <1>1 DEF Inductive
    <3>4. ~Start(h) /\ ~RollbackToParent(h) /\ ~ListVersions(h) /\ ~SeedFind(h)
      <4>1. ~Start(h)
        BY <1>1, <3>3, StartSound DEF Accepts
      <4> QED BY <1>1, <4>1 DEF RollbackToParent, ListVersions, SeedFind
    <3>5. ~WriteAudit(h) /\ ~Abandon(h)
      BY <1>1, <3>3 DEF WriteAudit, Abandon, Idle, TypeOK
    <3>6. Repository(h) => CommitActivate(h)
      BY <1>1 DEF Repository, LoadRow, CommitMetadata, CommitStatus, CommitSoftDelete, CommitRow,
                  CommitUnchanged, LoadTarget, LoadActives, SaveExisting, SaveNew, CommitInsert,
                  CommitSave
    <3> QED BY <3>1, <3>2, <3>4, <3>5, <3>6 DEF Step, UseCase, Start
  <2> DEFINE n == req[h].pack.name
             t == tx[h].target
             after == {j \in RowId : rows'[j].status = "active" /\ rows'[j].name = n}
  <2>2. Superseded(h) \subseteq ActiveRows(n) /\ t \notin Superseded(h)
    BY <1>1, <2>1, ActivateEffect DEF ActiveRows
  <2>3. after \subseteq (ActiveRows(n) \ Superseded(h)) \cup {t}
    BY <1>1, <2>1, ActivateEffect DEF ActiveRows
  <2>4. Superseded(h) # {} \/ t \in ActiveRows(n)
    <3>1. PICK j \in RowId : tx[h].active[j] > 0
      BY <1>1
    <3>2. CASE j = t
      BY <1>1, <2>1, <3>1, <3>2, ActivateEffect DEF ActiveRows
    <3>3. CASE j # t
      BY <3>1, <3>3 DEF Superseded
    <3> QED BY <3>2, <3>3
  <2>5. IsFiniteSet(ActiveRows(n))
    BY FS_Subset DEF ActiveRows
  <2> HIDE DEF after
  <2>6. Cardinality(after) <= Cardinality(ActiveRows(n))
    BY <2>2, <2>3, <2>4, <2>5, ReplacedIsNoLarger
  <2> QED BY <2>6 DEF after
<1>2. Inductive /\ Activating /\ [Next]_vars =>
        [\A h \in Handler :
           (/\ pc[h] = "commitActivate" /\ pc'[h] = "audit"
            /\ \E j \in RowId : tx[h].active[j] > 0)
           => Cardinality({j \in RowId : /\ rows'[j].status = "active"
                                        /\ rows'[j].name = req[h].pack.name})
              <= Cardinality(ActiveRows(req[h].pack.name))]_vars
  BY <1>1
<1> QED BY <1>2, ActivatingAlways, PTL DEF Spec, ActivationAddsNone
-----------------------------------------------------------------------------
(***************************************************************************)
(* Clients that send their lock.                                           *)
(***************************************************************************)

\* The operations that go through activate() or take an expectedLockVersion,
\* and clients that always send it.
LockedClients == Ops \subseteq LockableOps /\ FALSE \notin Locking

\* The statements those operations execute, and what they carry: a PATCH saw
\* a draft, a DELETE a pack not in service, an activation loaded a version the
\* hot path can see and, of a name in service, found its active version.
RoutedAt(h) ==
    /\ pc[h] \in {"idle", "row", "commitRow", "current", "target", "actives",
                  "commitActivate", "audit"}
    /\ pc[h] \in {"row", "commitRow"} =>
         /\ req[h].expect > 0
         /\ \/ req[h].op = "updateMetadata" /\ req[h].seen.status = "draft"
            \/ /\ req[h].op = "softDelete"
               /\ req[h].seen.status \in {"draft", "published", "deprecated"}
    /\ pc[h] = "commitRow" => tx[h].target = req[h].id
    /\ pc[h] \in {"actives", "commitActivate"} => Visible(tx[h].row)
    /\ pc[h] = "commitActivate" /\ req[h].pack.name \in Established =>
         \E j \in RowId : tx[h].active[j] > 0

Routed == \A h \in Handler : RoutedAt(h)

Service == Inductive /\ Activating /\ Routed /\ ExactlyOneActive

\* The requests such clients start.
LEMMA LockedStart ==
    ASSUME LockedClients, Inductive, NEW h \in Handler, Start(h)
    PROVE  /\ pc'[h] \in {"row", "current", "target"} /\ UNCHANGED <<rows, tx>>
           /\ pc'[h] = "row" =>
                /\ req'[h].expect > 0
                /\ \/ req'[h].op = "updateMetadata" /\ req'[h].seen.status = "draft"
                   \/ /\ req'[h].op = "softDelete"
                      /\ req'[h].seen.status \in {"draft", "published", "deprecated"}
<1>1. TypeOK /\ \A i \in RowId : rows[i].status \in Status \cup {"absent"}
  BY DEF Inductive, TypeOK, Row
<1>2. \A op, next, r : Accept(h, op, next, r) =>
        op \in LockableOps /\ pc'[h] = next /\ req'[h] = r /\ UNCHANGED <<rows, tx>>
  BY <1>1 DEF LockedClients, Accept, TypeOK
<1>3. \A i \in RowId : \A e \in Expected(i) : e > 0
  <2>1. \A i \in RowId : rows[i].lock \in Nat
    BY <1>1, TypedParts
  <2>2. \A i \in RowId : Expected(i) \subseteq 1..rows[i].lock
    BY Zenon DEF Expected, LockedClients
  <2> QED BY <2>1, <2>2
<1>4. \A op, i, e, pack : /\ Reading(op, i, e, pack).op = op /\ Reading(op, i, e, pack).expect = e
                          /\ Reading(op, i, e, pack).seen = rows[i]
  BY DEF Reading, NoRequest
<1>5. CASE UpdateMetadata(h)
  <2>1. PICK i \in GetById, f \in Patches :
          \E e \in Expected(i),
             n \in IF "name" \in f THEN Name ELSE {rows[i].name},
             g \in IF "region" \in f THEN Region \ {NullRegion} ELSE {rows[i].region} :
            /\ rows[i].status = "draft"
            /\ Accept(h, "updateMetadata", "row",
                   [Reading("updateMetadata", i, e,
                            [rows[i] EXCEPT !.name = n, !.region = g])
                    EXCEPT !.fields = f])
    BY <1>5 DEF UpdateMetadata
  <2>2. PICK e \in Expected(i) : \E pack :
          Accept(h, "updateMetadata", "row",
                 [Reading("updateMetadata", i, e, pack) EXCEPT !.fields = f])
    BY <2>1
  <2>6. PICK pack : Accept(h, "updateMetadata", "row",
                           [Reading("updateMetadata", i, e, pack) EXCEPT !.fields = f])
    BY <2>2
  <2>3. i \in RowId /\ rows[i].status = "draft"
    BY <2>1 DEF GetById
  <2>4. /\ pc'[h] = "row" /\ UNCHANGED <<rows, tx>>
        /\ req'[h] = [Reading("updateMetadata", i, e, pack) EXCEPT !.fields = f]
    BY <1>2, <2>6
  <2>5. req'[h].expect = e /\ req'[h].op = "updateMetadata" /\ req'[h].seen = rows[i]
    BY <2>4 DEF Reading, NoRequest
  <2> QED BY <1>3, <2>3, <2>4, <2>5
<1>6. CASE SoftDelete(h)
  <2>1. PICK i \in GetById : \E e \in Expected(i) :
          /\ rows[i].status # "active"
          /\ Accept(h, "softDelete", "row", Reading("softDelete", i, e, rows[i]))
    BY <1>6 DEF SoftDelete
  <2>2. i \in RowId /\ rows[i].status \in {"draft", "published", "deprecated"}
    BY <1>1, <2>1 DEF GetById, Status
  <2> QED BY <1>2, <1>3, <1>4, <2>1, <2>2
<1>7. CASE Activate(h)
  BY <1>2, <1>7 DEF Activate
<1>8. CASE Rollback(h)
  BY <1>2, <1>8 DEF Rollback
<1>9. ~Publish(h) /\ ~CreateRulePack(h) /\ ~ImportRulePack(h) /\ ~SeedActivePolicy(h)
  BY DEF Publish, CreateRulePack, ImportRulePack, SeedActivePolicy, Accept, LockedClients,
         LockableOps
<1>10. ~CreateRule(h) /\ ~UpdateRule(h) /\ ~DeleteRule(h)
  BY DEF CreateRule, UpdateRule, DeleteRule, EditRule, Accept, LockedClients, LockableOps
<1> QED BY <1>5, <1>6, <1>7, <1>8, <1>9, <1>10 DEF Start

\* A row that is archived, or a draft that is given another name.
Archives(t, r) == /\ rows[t].status \in {"draft", "published", "deprecated"}
                  /\ r.status = "archived" /\ r.name = rows[t].name
Renames(t, r) == rows[t].status = "draft" /\ r.status = "draft" /\ r.name \in Name

\* What the steps of such clients may write: the lock makes what the use case
\* saw true of the row that is written.
LEMMA LockedWrites ==
    ASSUME Service, NEW h \in Handler, Repository(h)
    PROVE  \/ UNCHANGED rows
           \/ CommitActivate(h)
           \/ \E t \in RowId, r \in Row : /\ rows' = [rows EXCEPT ![t] = r]
                                          /\ Archives(t, r) \/ Renames(t, r)
<1>1. TypeOK /\ RoutedAt(h) /\ Inductive /\ LocatedAt(h) /\ req[h] \in Request /\ tx[h] \in Session
  BY DEF Service, Routed, Inductive, TypeOK
<1>2. LoadRow(h) \/ LoadTarget(h) \/ LoadActives(h) \/ SaveExisting(h) \/ SaveNew(h) => UNCHANGED rows
  BY DEF LoadRow, LoadTarget, LoadActives, SaveExisting, SaveNew, Load
<1>3. ~CommitInsert(h) /\ ~CommitSave(h)
  BY <1>1 DEF RoutedAt, CommitInsert, CommitSave
<1>4. ~CommitStatus(h)
  BY <1>1 DEF RoutedAt, CommitStatus, CommitRow, CommitUnchanged
<1>5. ASSUME NEW new \in Row, CommitRow(h, new), new.status # "absent"
      PROVE  /\ tx[h].target \in RowId
             /\ rows[tx[h].target].status = req[h].seen.status
             /\ rows[tx[h].target].status = tx[h].row.status
             /\ rows[tx[h].target].name = tx[h].row.name
             /\ Updated(h, new) \in Row
             /\ Updated(h, new).status = new.status /\ Updated(h, new).name = new.name
             /\ rows' = [rows EXCEPT ![tx[h].target] = Updated(h, new)]
  <2>1. /\ pc[h] = "commitRow" /\ StillLoaded(h)
        /\ rows' = [rows EXCEPT ![tx[h].target] = Updated(h, new)]
    BY <1>5 DEF CommitRow
  <2>2. tx[h].target \in RowId /\ tx[h].target = req[h].id /\ req[h].expect > 0
        /\ req[h].op # "rollback"
    BY <1>1, <2>1 DEF LocatedAt, RoutedAt, InTransaction
  <2>3. LockedUpdate(h)
    BY <2>1, <2>2 DEF LockedUpdate, StillLoaded
  <2>4. SameColumns(req[h].seen, rows[tx[h].target])
    BY <1>1, <2>3, CheckedFromInductive
  <2>5. SameColumns(tx[h].row, rows[tx[h].target])
    BY <1>1, <2>1 DEF Inductive, OptimisticLock, LockHolds, InTransaction, CopyOf, StillLoaded
  <2>6. Updated(h, new) \in Row /\ SameColumns(Updated(h, new), new)
    BY <1>1, <2>1, <2>2, UpdatedRow
  <2> QED BY <2>1, <2>2, <2>4, <2>5, <2>6 DEF SameColumns
<1>6. tx[h].row \in Row /\ req[h].pack.name \in Name /\ req[h].pack.region \in Region
  BY <1>1 DEF Session, Request, Row
<1>7. pc[h] = "commitRow" => tx[h].row.status # "absent"
  BY <1>1 DEF LocatedAt, InTransaction
<1>8. CASE CommitMetadata(h)
  <2>1. CASE CommitUnchanged(h, WithMetadata(h))
    BY <2>1 DEF CommitUnchanged
  <2>2. CASE CommitRow(h, WithMetadata(h))
    <3>1. /\ WithMetadata(h) \in Row /\ WithMetadata(h).status = tx[h].row.status
          /\ WithMetadata(h).name \in Name
      BY <1>6 DEF WithMetadata, Row
    <3>2. pc[h] = "commitRow" /\ req[h].op = "updateMetadata"
      BY <1>8, <2>2 DEF CommitMetadata, CommitRow
    <3>3. req[h].seen.status = "draft"
      BY <1>1, <3>2 DEF RoutedAt
    <3>4. /\ Renames(tx[h].target, Updated(h, WithMetadata(h)))
          /\ tx[h].target \in RowId /\ Updated(h, WithMetadata(h)) \in Row
          /\ rows' = [rows EXCEPT ![tx[h].target] = Updated(h, WithMetadata(h))]
      BY <1>5, <1>7, <2>2, <3>1, <3>2, <3>3 DEF Renames
    <3> QED BY <3>4
  <2> QED BY <1>8, <2>1, <2>2 DEF CommitMetadata
<1>9. CASE CommitSoftDelete(h)
  <2> DEFINE new == [tx[h].row EXCEPT !.status = "archived", !.deleted = TRUE]
  <2>1. new \in Row /\ new.status = "archived" /\ new.name = tx[h].row.name
    BY <1>6 DEF Row, Status
  <2>2. CommitRow(h, new) /\ req[h].op = "softDelete" /\ pc[h] = "commitRow"
    BY <1>9 DEF CommitSoftDelete, CommitRow
  <2> HIDE DEF new
  <2>3. req[h].seen.status \in {"draft", "published", "deprecated"}
    BY <1>1, <2>2 DEF RoutedAt
  <2>4. /\ Archives(tx[h].target, Updated(h, new))
        /\ tx[h].target \in RowId /\ Updated(h, new) \in Row
        /\ rows' = [rows EXCEPT ![tx[h].target] = Updated(h, new)]
    BY <1>5, <2>1, <2>2, <2>3 DEF Archives
  <2> QED BY <2>4
<1> QED BY <1>2, <1>3, <1>4, <1>8, <1>9 DEF Repository

\* Such clients stay on their statements.
LEMMA LockedRouted ==
    ASSUME LockedClients, Service, NEW h \in Handler, Step(h), ActivatesVisible
    PROVE  Routed'
<1>1. TypeOK /\ RoutedAt(h) /\ Inductive /\ tx[h] \in Session
  BY DEF Service, Routed, Inductive, TypeOK
<1>2. ASSUME NEW k \in Handler \ {h} PROVE RoutedAt(k)'
  BY <1>1, StepLands DEF Service, Routed, RoutedAt, Untouched, Visible
<1>3. CASE Start(h)
  BY <1>1, <1>2, <1>3, LockedStart DEF RoutedAt, Routed
<1>4. CASE RollbackToParent(h)
  <2>1. pc'[h] = "target"
    BY <1>1, <1>4 DEF RollbackToParent, TypeOK
  <2> QED BY <1>2, <2>1 DEF RoutedAt, Routed
<1>5. CASE LoadRow(h)
  <2>1. pc[h] = "row" /\ pc'[h] = "commitRow" /\ req' = req /\ tx'[h] = Loaded(req[h].id)
    BY <1>1, <1>5 DEF LoadRow, Load, TypeOK
  <2>2. Loaded(req[h].id).target = req[h].id
    BY DEF Loaded, NoSession
  <2>3. RoutedAt(h)'
    BY <1>1, <2>1, <2>2 DEF RoutedAt
  <2> QED BY <1>2, <2>3 DEF Routed
<1>6. CASE LoadTarget(h)
  <2>1. pc[h] = "target" /\ pc'[h] = "actives"
    BY <1>1, <1>6 DEF LoadTarget, Load, TypeOK
  <2>2. Visible(tx'[h].row)
    BY <2>1 DEF ActivatesVisible
  <2> QED BY <1>2, <2>1, <2>2 DEF RoutedAt, Routed, Visible
<1>7. CASE LoadActives(h)
  <2> DEFINE active == [j \in RowId |-> IF j \in ActiveRows(req[h].pack.name)
                                        THEN rows[j].lock ELSE 0]
  <2>1. /\ pc'[h] = "commitActivate" /\ req' = req
        /\ tx'[h].active = active /\ tx'[h].row = tx[h].row
    BY <1>1, <1>7 DEF LoadActives, Load, TypeOK, Session
  <2>2. ASSUME req[h].pack.name \in Established PROVE \E j \in RowId : active[j] > 0
    <3>1. PICK i \in RowId : ActiveRows(req[h].pack.name) = {i}
      BY <2>2 DEF Service, ExactlyOneActive
    <3>2. i \in ActiveRows(req[h].pack.name) /\ rows[i].status = "active"
      BY <3>1 DEF ActiveRows
    <3>3. rows[i].lock \in Nat /\ rows[i].lock # 0
      BY <1>1, <3>2, TypedParts DEF Inductive, Stored
    <3> QED BY <3>2, <3>3
  <2> HIDE DEF active
  <2>3. pc[h] = "actives" /\ Visible(tx'[h].row)
    BY <1>1, <1>7, <2>1 DEF LoadActives, RoutedAt
  <2>4. RoutedAt(h)'
    BY <2>1, <2>2, <2>3 DEF RoutedAt, Established, Visible
  <2> QED BY <1>2, <2>4 DEF Routed
<1>8. CASE Committed(h) /\ pc[h] \in {"commitRow", "commitActivate"}
  <2>1. pc'[h] = "audit"
    <3>1. pc[h] = "commitRow" => req[h].op # "seed"
      BY <1>1 DEF RoutedAt
    <3> QED BY <1>1, <1>8, <3>1 DEF Committed, TypeOK
  <2> QED BY <1>2, <2>1 DEF RoutedAt, Routed
<1>9. CASE WriteAudit(h) \/ Abandon(h)
  <2>1. pc'[h] = "idle"
    BY <1>1, <1>9 DEF WriteAudit, Abandon, Idle, TypeOK
  <2> QED BY <1>2, <2>1 DEF RoutedAt, Routed
<1>10. ~ListVersions(h) /\ ~SeedFind(h) /\ ~SaveExisting(h) /\ ~SaveNew(h) /\ ~CommitInsert(h) /\ ~CommitSave(h)
  BY <1>1 DEF RoutedAt, ListVersions, SeedFind, SaveExisting, SaveNew, CommitInsert, CommitSave
<1>11. CommitMetadata(h) \/ CommitStatus(h) \/ CommitSoftDelete(h) \/ CommitActivate(h)
         => Committed(h) /\ pc[h] \in {"commitRow", "commitActivate"}
  BY DEF CommitMetadata, CommitStatus, CommitSoftDelete, CommitRow, CommitUnchanged, CommitActivate
<1>12. UseCase(h) => Start(h) \/ RollbackToParent(h) \/ ListVersions(h) \/ SeedFind(h)
  BY DEF UseCase, Start
<1> QED BY <1>3, <1>4, <1>5, <1>6, <1>7, <1>8, <1>9, <1>10, <1>11, <1>12 DEF Step, Repository

\* An activation of a name in service replaces the one active version.
LEMMA ReplacesTheOne ==
    ASSUME Service, NEW h \in Handler, CommitActivate(h), req[h].pack.name \in Established,
           NEW i \in RowId, ActiveRows(req[h].pack.name) = {i}
    PROVE  Superseded(h) = {i} \ {tx[h].target}
<1>1. Inductive /\ Activating /\ pc[h] = "commitActivate"
  BY DEF Service, CommitActivate
<1>2. PICK j \in RowId : tx[h].active[j] > 0
  BY <1>1 DEF Service, Routed, RoutedAt
<1>3. Superseded(h) \subseteq {i} /\ tx[h].target \notin Superseded(h)
  BY <1>1, ActivateEffect DEF ActiveRows
<1>4. CASE j = tx[h].target
  <2>1. tx[h].target = i
    BY <1>1, <1>2, <1>4, ActivateEffect DEF ActiveRows
  <2> QED BY <1>3, <2>1
<1>5. CASE j # tx[h].target
  <2>1. j \in Superseded(h)
    BY <1>2, <1>5 DEF Superseded
  <2> QED BY <1>3, <2>1
<1> QED BY <1>4, <1>5

\* The one active version is served when the hot path can see it.
LEMMA ServedIsVisible ==
    ASSUME NEW n, NEW i \in RowId, ActiveRows(n) = {i}
    PROVE  ServedRows(n) = {i} <=> Visible(rows[i])
  BY DEF ServedRows

\* Steps keep exactly one version of a name in service active, and served.
LEMMA StepKeepsOne ==
    ASSUME LockedClients, Service, NEW h \in Handler, Step(h)
    PROVE  ExactlyOneActive'
<1> SUFFICES ASSUME NEW n \in Established
             PROVE  \E i \in RowId : ActiveRows(n)' = {i} /\ Visible(rows'[i])
  BY DEF ExactlyOneActive, ServedRows, Established, Visible
<1>1. Inductive /\ Activating /\ rows \in [RowId -> Row] /\ RoutedAt(h)
  BY DEF Service, Inductive, TypeOK, Routed
<1>2. PICK i \in RowId : ActiveRows(n) = {i} /\ Visible(rows[i])
  BY ServedIsVisible DEF Service, ExactlyOneActive
<1>3. CASE UNCHANGED rows
  BY <1>2, <1>3 DEF ActiveRows
<1>4. CASE CommitActivate(h)
  <2>1. CASE n = req[h].pack.name
    <3>1. Superseded(h) = {i} \ {tx[h].target}
      BY <1>2, <1>4, <2>1, ReplacesTheOne
    <3>2. ActiveRows(n)' = {tx[h].target}
      BY <1>1, <1>2, <1>4, <2>1, <3>1, ActivateEffect DEF ActiveRows
    <3>3. Visible(rows'[tx[h].target])
      BY <1>1, <1>4, ActivateEffect DEF CommitActivate, RoutedAt
    <3> QED BY <1>1, <1>4, <3>2, <3>3, ActivateEffect
  <2>2. CASE n # req[h].pack.name
    <3>1. ActiveRows(n)' = ActiveRows(n)
      BY <1>1, <1>4, <2>2, ActivateEffect DEF ActiveRows
    <3>2. rows[i].name = n
      BY <1>2 DEF ActiveRows
    <3>3. rows'[i] = rows[i]
      BY <1>1, <1>4, <2>2, <3>2, ActivateEffect
    <3> QED BY <1>2, <3>1, <3>3
  <2> QED BY <2>1, <2>2
<1>5. ASSUME NEW t \in RowId, NEW r \in Row, rows' = [rows EXCEPT ![t] = r],
             Archives(t, r) \/ Renames(t, r)
      PROVE  \E k \in RowId : ActiveRows(n)' = {k} /\ Visible(rows'[k])
  <2>1. rows[t].status # "active" /\ r.status # "active" /\ rows'[t] = r
        /\ \A j \in RowId \ {t} : rows'[j] = rows[j]
    BY <1>1, <1>5 DEF Archives, Renames
  <2>2. ActiveRows(n)' = ActiveRows(n)
    BY <2>1 DEF ActiveRows
  <2>3. rows'[i] = rows[i]
    BY <1>2, <2>1 DEF ActiveRows
  <2> QED BY <1>2, <2>2, <2>3
<1>6. UseCase(h) \/ WriteAudit(h) \/ Abandon(h) => UNCHANGED rows
  BY DEF UseCase, WriteAudit, Abandon, Idle, UpdateMetadata, SoftDelete, Publish, Activate,
         Rollback, RollbackToParent, CreateRulePack, ImportRulePack, ListVersions, CreateRule,
         UpdateRule, DeleteRule, SeedActivePolicy, SeedFind, EditRule, Accept
<1> QED BY <1>3, <1>4, <1>5, <1>6, LockedWrites DEF Step

\* A table a run starts from has one active version of each name in service.
LEMMA InitService == Init => Service
<1> SUFFICES ASSUME Init PROVE Service
  OBVIOUS
<1>1. Inductive
  BY InitInductive
<1>2. Activating /\ Routed
  BY DEF Init, Activating, ActivatingAt, Routed, RoutedAt
<1>3. ASSUME NEW n \in Established
      PROVE  \E i \in RowId : ActiveRows(n) = {i} /\ ServedRows(n) = {i}
  <2>1. PICK i \in RowId :
          /\ Visible(rows[i])
          /\ \A j \in RowId : (rows[j].status = "active" /\ rows[j].name = n) <=> j = i
    BY DEF Init, Established
  <2>2. ActiveRows(n) = {i}
    BY <2>1 DEF ActiveRows
  <2> QED BY <2>1, <2>2, ServedIsVisible
<1> QED BY <1>1, <1>2, <1>3 DEF Service, ExactlyOneActive

\* With clients that send their lock the invariant holds always.
LEMMA ServiceAlways ==
    ASSUME LockedClients
    PROVE  VisibleSpec => []Service
<1>1. Service /\ [Next /\ ActivatesVisible]_vars => Service'
  <2> SUFFICES ASSUME Service, [Next /\ ActivatesVisible]_vars PROVE Service'
    OBVIOUS
  <2>1. Inductive'
    BY NextKeeps DEF Service
  <2>2. CASE UNCHANGED vars
    BY <2>1, <2>2 DEF vars, Service, Activating, ActivatingAt, Routed, RoutedAt, ExactlyOneActive,
                      ActiveRows, ServedRows, Visible, Established
  <2>3. ASSUME NEW h \in Handler, Step(h), ActivatesVisible PROVE Service'
    <3>1. Activating'
      BY <2>3, StepActivating DEF Service
    <3> QED BY <2>1, <2>3, <3>1, LockedRouted, StepKeepsOne DEF Service
  <2> QED BY <2>2, <2>3 DEF Next, Step
<1> QED BY <1>1, InitService, PTL DEF VisibleSpec

\* When the operations go through activate() or take an expectedLockVersion,
\* clients send it, and the versions activated are ones the hot path can see, a
\* name in service has exactly one active version in every state, and the hot
\* path finds it, for any number of handlers.
THEOREM OneActiveAlways ==
    ASSUME LockedClients
    PROVE  VisibleSpec => []ExactlyOneActive
<1>1. Service => ExactlyOneActive
  BY DEF Service
<1> QED BY <1>1, ServiceAlways, PTL
-----------------------------------------------------------------------------
(***************************************************************************)
(* The refinement of ActivePolicy.                                         *)
(***************************************************************************)

\* The stages of rows.
LEMMA Stages ==
    ASSUME NEW r, r.status \in Status \cup {"absent"}
    PROVE  /\ StageOf(r) \in {"unknown", "waiting", "serving", "retired", "withdrawn"}
           /\ StageOf(r) = "unknown" <=> r.status = "absent"
           /\ StageOf(r) = "waiting" <=> r.status \in {"draft", "published"}
           /\ StageOf(r) = "serving" <=> r.status = "active" /\ Visible(r)
           /\ StageOf(r) = "retired" <=> r.status = "deprecated"
           /\ StageOf(r) = "withdrawn" <=>
                \/ r.status = "archived"
                \/ r.status = "active" /\ ~Visible(r)
<1>1. /\ r.status = "absent" => StageOf(r) = "unknown"
      /\ r.status \in {"draft", "published"} => StageOf(r) = "waiting"
      /\ r.status = "active" /\ Visible(r) => StageOf(r) = "serving"
      /\ r.status = "active" /\ ~Visible(r) => StageOf(r) = "withdrawn"
      /\ r.status = "deprecated" => StageOf(r) = "retired"
      /\ r.status = "archived" => StageOf(r) = "withdrawn"
  BY DEF StageOf
<1>2. CASE r.status = "active"
  <2>1. CASE Visible(r)
    BY <1>1, <1>2, <2>1
  <2>2. CASE ~Visible(r)
    BY <1>1, <1>2, <2>2
  <2> QED BY <2>1, <2>2
<1>3. CASE r.status # "active"
  BY <1>1, <1>3 DEF Status
<1> QED BY <1>2, <1>3

\* What a version's row stands for.
PolicyOf(r) == [name |-> r.name, stage |-> StageOf(r)]

\* Every active version is one the hot path can see.
AllVisible == \A i \in RowId : rows[i].status = "active" => Visible(rows[i])

\* Steps leave it so.
LEMMA StepKeepsVisible ==
    ASSUME LockedClients, Service, AllVisible, NEW h \in Handler, Step(h)
    PROVE  AllVisible'
<1> SUFFICES ASSUME NEW i \in RowId, rows'[i].status = "active" PROVE Visible(rows'[i])
  BY DEF AllVisible, Visible
<1>1. Inductive /\ Activating /\ rows \in [RowId -> Row] /\ RoutedAt(h)
  BY DEF Service, Inductive, TypeOK, Routed
<1>2. CASE rows'[i] = rows[i]
  BY <1>2 DEF AllVisible
<1>3. CASE CommitActivate(h)
  <2>1. CASE i = tx[h].target
    BY <1>1, <1>3, <2>1, ActivateEffect DEF CommitActivate, RoutedAt
  <2>2. CASE i # tx[h].target
    <3>1. i \notin Superseded(h)
      BY <1>1, <1>3, ActivateEffect
    <3>2. rows'[i] = rows[i]
      BY <1>1, <1>3, <2>2, <3>1, ActivateEffect
    <3> QED BY <1>2, <3>2
  <2> QED BY <2>1, <2>2
<1>4. ASSUME NEW t \in RowId, NEW r \in Row, rows' = [rows EXCEPT ![t] = r],
             Archives(t, r) \/ Renames(t, r)
      PROVE  rows'[i] = rows[i]
  <2>1. r.status # "active" /\ rows'[t] = r /\ \A j \in RowId \ {t} : rows'[j] = rows[j]
    BY <1>1, <1>4 DEF Archives, Renames
  <2> QED BY <2>1
<1>5. UseCase(h) \/ WriteAudit(h) \/ Abandon(h) => UNCHANGED rows
  BY DEF UseCase, WriteAudit, Abandon, Idle, UpdateMetadata, SoftDelete, Publish, Activate,
         Rollback, RollbackToParent, CreateRulePack, ImportRulePack, ListVersions, CreateRule,
         UpdateRule, DeleteRule, SeedActivePolicy, SeedFind, EditRule, Accept
<1> QED BY <1>2, <1>3, <1>4, <1>5, LockedWrites DEF Step

\* The mapping.
Mapped == [i \in RowId |-> PolicyOf(rows[i])]

\* Rows map to policies with a name and a stage.
LEMMA MappedType ==
    ASSUME rows \in [RowId -> Row]
    PROVE  Mapped \in [RowId -> [name : Name,
                                 stage : {"unknown", "waiting", "serving", "retired", "withdrawn"}]]
<1>1. \A i \in RowId : rows[i].name \in Name /\ rows[i].status \in Status \cup {"absent"}
  BY DEF Row
<1>2. \A i \in RowId : StageOf(rows[i]) \in {"unknown", "waiting", "serving", "retired", "withdrawn"}
  BY <1>1, Stages
<1> QED BY <1>1, <1>2 DEF Mapped, PolicyOf

\* The commit of activate() hands the service over in one step, or puts a
\* version in service under a name that was not, or changes nothing.
LEMMA ActivateMaps ==
    ASSUME Service, AllVisible, NEW h \in Handler, CommitActivate(h)
    PROVE  \/ Mapped' = Mapped
           \/ \E u, v \in RowId : Policy!HandOver(u, v)
           \/ \E v \in RowId : Policy!PutInService(v)
<1> DEFINE n == req[h].pack.name
<1>1. Inductive /\ Activating /\ rows \in [RowId -> Row]
  BY DEF Service, Inductive, TypeOK
<1>0. PICK t \in RowId : t = tx[h].target
  BY <1>1, ActivateEffect
<1>2. /\ rows[t].name = n /\ rows[t].status # "absent"
      /\ rows'[t].name = n /\ rows'[t].status = "active"
      /\ \A j \in Superseded(h) :
           /\ j \in RowId \ {t} /\ rows[j].status = "active" /\ rows[j].name = n
           /\ rows'[j].status = "deprecated" /\ rows'[j].name = n
      /\ \A j \in RowId \ (Superseded(h) \cup {t}) : rows'[j] = rows[j]
  BY <1>0, <1>1, ActivateEffect
<1>v. Visible(rows'[t])
  BY <1>0, <1>1, ActivateEffect DEF Service, Routed, RoutedAt, CommitActivate
<1>3. \A i \in RowId : /\ rows[i].status \in Status \cup {"absent"}
                       /\ rows[i].status = "active" => Visible(rows[i])
  BY <1>1 DEF Row, AllVisible
<1>p. \A i \in RowId : /\ Mapped[i] = [name |-> rows[i].name, stage |-> StageOf(rows[i])]
                       /\ Mapped'[i] = [name |-> rows'[i].name, stage |-> StageOf(rows'[i])]
  BY DEF Mapped, PolicyOf, StageOf, Visible
<1>q. StageOf(rows'[t]) = "serving" /\ StageOf(rows[t]) # "unknown"
  BY <1>2, <1>3, <1>v, Stages DEF Status
<1>r. ASSUME NEW j \in Superseded(h)
      PROVE  StageOf(rows[j]) = "serving" /\ StageOf(rows'[j]) = "retired"
  BY <1>2, <1>3, Stages DEF Status
<1>4. /\ Mapped'[t] = [name |-> n, stage |-> "serving"]
      /\ \A j \in Superseded(h) : /\ Mapped[j] = [name |-> n, stage |-> "serving"]
                                  /\ Mapped'[j] = [name |-> n, stage |-> "retired"]
      /\ \A j \in RowId \ (Superseded(h) \cup {t}) : Mapped'[j] = Mapped[j]
      /\ Mapped[t].name = n /\ Mapped[t].stage # "unknown"
      /\ Mapped[t] = [name |-> n, stage |-> Mapped[t].stage]
  <2>1. Mapped'[t] = [name |-> n, stage |-> "serving"]
    BY <1>2, <1>p, <1>q
  <2>2. ASSUME NEW j \in Superseded(h)
        PROVE  /\ Mapped[j] = [name |-> n, stage |-> "serving"]
               /\ Mapped'[j] = [name |-> n, stage |-> "retired"]
    BY <1>2, <1>p, <1>r
  <2>3. ASSUME NEW j \in RowId \ (Superseded(h) \cup {t}) PROVE Mapped'[j] = Mapped[j]
    BY <1>2, <1>p
  <2>a. Mapped[t] = [name |-> n, stage |-> StageOf(rows[t])]
    BY <1>2, <1>p
  <2>4. /\ Mapped[t].name = n /\ Mapped[t].stage # "unknown"
        /\ Mapped[t] = [name |-> n, stage |-> Mapped[t].stage]
    BY <1>q, <2>a
  <2> QED BY <2>1, <2>2, <2>3, <2>4
<1>5. CASE n \in Established
  <2>1. PICK i \in RowId : ActiveRows(n) = {i}
    BY <1>5 DEF Service, ExactlyOneActive
  <2>2. Superseded(h) = {i} \ {t}
    BY <1>0, <1>5, <2>1, ReplacesTheOne
  <2>3. CASE i = t
    <3>1. rows[t].status = "active"
      BY <2>1, <2>3 DEF ActiveRows
    <3>2. Mapped[t] = Mapped'[t]
      <4>1. StageOf(rows[t]) = "serving"
        BY <1>3, <3>1, Stages
      <4> QED BY <1>2, <1>4, <1>p, <4>1
    <3>3. Superseded(h) = {}
      BY <2>2, <2>3
    <3>4. \A j \in RowId : Mapped'[j] = Mapped[j]
      BY <1>4, <3>2, <3>3
    <3> QED BY <3>4 DEF Mapped
  <2>4. CASE i # t
    <3>1. Superseded(h) = {i}
      BY <2>2, <2>4
    <3>2. rows[t].status # "active"
      BY <1>2, <2>1, <2>4 DEF ActiveRows
    <3>3. Mapped[t].stage \notin {"unknown", "serving"} /\ Mapped[i].stage = "serving"
          /\ Mapped[i].name = Mapped[t].name
      <4>1. StageOf(rows[t]) # "serving"
        BY <1>3, <3>2, Stages
      <4>2. Mapped[t] = [name |-> rows[t].name, stage |-> StageOf(rows[t])]
        BY <1>p
      <4>3. Mapped[t].stage # "serving"
        BY <4>1, <4>2
      <4> QED BY <1>4, <3>1, <4>3
    <3>4. Mapped' = [Mapped EXCEPT ![i].stage = "retired", ![t].stage = "serving"]
      <4>1. \A j \in RowId \ {i, t} : Mapped'[j] = Mapped[j]
        BY <1>4, <3>1
      <4>2. Mapped'[i] = [Mapped[i] EXCEPT !.stage = "retired"]
        BY <1>4, <3>1
      <4>3. Mapped'[t] = [Mapped[t] EXCEPT !.stage = "serving"]
        BY <1>4
      <4> QED BY <1>2, <2>4, <4>1, <4>2, <4>3 DEF Mapped
    <3>5. Policy!HandOver(i, t)
      BY <3>3, <3>4 DEF Policy!HandOver, Mapped, PolicyOf
    <3> QED BY <1>2, <3>5
  <2> QED BY <2>3, <2>4
<1>6. CASE n \notin Established
  <2> DEFINE serving == {v \in RowId : Mapped[v].name = Mapped[t].name /\ Mapped[v].stage = "serving"}
  <2>1. Superseded(h) \in SUBSET (serving \ {t})
    BY <1>2, <1>4
  <2>2. Mapped' = [w \in RowId |->
                     IF w = t THEN [Mapped[w] EXCEPT !.stage = "serving"]
                     ELSE IF w \in Superseded(h) THEN [Mapped[w] EXCEPT !.stage = "retired"]
                     ELSE Mapped[w]]
    <3>1. Mapped'[t] = [Mapped[t] EXCEPT !.stage = "serving"]
      BY <1>4
    <3>2. \A j \in Superseded(h) : Mapped'[j] = [Mapped[j] EXCEPT !.stage = "retired"]
      BY <1>4
    <3>3. Mapped' = [w \in RowId |-> Mapped'[w]]
      BY DEF Mapped
    <3> QED BY <1>2, <1>4, <3>1, <3>2, <3>3
  <2>3. Policy!PutInService(t)
    BY <1>4, <1>6, <2>1, <2>2 DEF Policy!PutInService, Policy!Serving, Mapped, PolicyOf
  <2> QED BY <1>2, <2>3
<1> QED BY <1>5, <1>6

\* Archiving a row withdraws it, renaming a draft renames it.
LEMMA RowMaps ==
    ASSUME rows \in [RowId -> Row], NEW t \in RowId, NEW r \in Row,
           rows' = [rows EXCEPT ![t] = r], Archives(t, r) \/ Renames(t, r)
    PROVE  Policy!Withdraw(t) \/ \E n \in Name : Policy!Rename(t, n)
<1>1. /\ Mapped'[t] = [name |-> r.name, stage |-> StageOf(r)]
      /\ Mapped[t] = [name |-> rows[t].name, stage |-> StageOf(rows[t])]
      /\ \A j \in RowId \ {t} : Mapped'[j] = Mapped[j]
      /\ rows[t].status \in Status \cup {"absent"} /\ r.status \in Status \cup {"absent"}
  BY DEF Mapped, PolicyOf, StageOf, Visible, Row
<1>2. Mapped' = [w \in RowId |-> Mapped'[w]]
  BY DEF Mapped
<1>3. CASE Archives(t, r)
  <2>1. Mapped[t].stage \in {"waiting", "retired"}
    BY <1>1, <1>3, Stages DEF Archives
  <2>2. Mapped'[t] = [Mapped[t] EXCEPT !.stage = "withdrawn"]
    BY <1>1, <1>3, Stages DEF Archives
  <2>3. Mapped' = [Mapped EXCEPT ![t].stage = "withdrawn"]
    BY <1>1, <1>2, <2>2 DEF Mapped
  <2> QED BY <2>1, <2>3 DEF Policy!Withdraw, Mapped, PolicyOf
<1>4. CASE Renames(t, r)
  <2>1. Mapped[t].stage = "waiting" /\ r.name \in Name
    BY <1>1, <1>4, Stages DEF Renames
  <2>2. Mapped'[t] = [Mapped[t] EXCEPT !.name = r.name]
    BY <1>1, <1>4, Stages DEF Renames
  <2>3. Mapped' = [Mapped EXCEPT ![t].name = r.name]
    BY <1>1, <1>2, <2>2 DEF Mapped
  <2>4. Policy!Rename(t, r.name)
    BY <2>1, <2>3 DEF Policy!Rename, Mapped, PolicyOf
  <2> QED BY <2>1, <2>4
<1> QED BY <1>3, <1>4

\* The management API implements ActivePolicy: whatever the handlers
\* interleave, the service passes from one version to another in one step,
\* and nothing else is done to a version that serves.
THEOREM ImplementsActivePolicy ==
    ASSUME LockedClients,
           \A table \in InitialRows, i \in RowId :
             table[i].status = "active" => Visible(table[i])
    PROVE  VisibleSpec => HandsOverAtomically
<1>1. Service /\ Init => Policy!Init
  <2> SUFFICES ASSUME Service, Init PROVE Policy!Init
    OBVIOUS
  <2>1. rows \in [RowId -> Row]
    BY DEF Service, Inductive, TypeOK
  <2>2. ASSUME NEW n \in Established
        PROVE  \E v \in RowId : Policy!Serving(n) = {v}
    <3>1. PICK i \in RowId : ServedRows(n) = {i}
      BY DEF Service, ExactlyOneActive
    <3>2. \A v \in RowId : StageOf(rows[v]) = "serving" <=>
                              rows[v].status = "active" /\ Visible(rows[v])
      BY <2>1, Stages DEF Row
    <3>3. Policy!Serving(n) = {i}
      BY <3>1, <3>2 DEF Policy!Serving, ActiveRows, ServedRows
    <3> QED BY <3>3
  <2>3. Mapped \in [RowId -> [name : Name, stage : Policy!Stage]]
    BY <2>1, MappedType DEF Policy!Stage
  <2> QED BY <2>2, <2>3 DEF Policy!Init, Mapped, PolicyOf
<1>2. Service /\ AllVisible /\ [Next]_vars => [Policy!Next]_Mapped
  <2> SUFFICES ASSUME Service, AllVisible, [Next]_vars PROVE [Policy!Next]_Mapped
    OBVIOUS
  <2>1. rows \in [RowId -> Row]
    BY DEF Service, Inductive, TypeOK
  <2>2. CASE UNCHANGED rows
    BY <2>2 DEF Mapped, PolicyOf, StageOf, Visible
  <2>3. ASSUME NEW h \in Handler, CommitActivate(h) PROVE [Policy!Next]_Mapped
    BY <2>3, ActivateMaps DEF Policy!Next
  <2>4. ASSUME NEW t \in RowId, NEW r \in Row, rows' = [rows EXCEPT ![t] = r],
               Archives(t, r) \/ Renames(t, r)
        PROVE  [Policy!Next]_Mapped
    BY <2>1, <2>4, RowMaps DEF Policy!Next
  <2>5. ASSUME NEW h \in Handler, Step(h) PROVE [Policy!Next]_Mapped
    <3>1. UseCase(h) \/ WriteAudit(h) \/ Abandon(h) => UNCHANGED rows
      BY DEF UseCase, WriteAudit, Abandon, Idle, UpdateMetadata, SoftDelete, Publish, Activate,
             Rollback, RollbackToParent, CreateRulePack, ImportRulePack, ListVersions, CreateRule,
             UpdateRule, DeleteRule, SeedActivePolicy, SeedFind, EditRule, Accept
    <3> QED BY <2>2, <2>3, <2>4, <2>5, <3>1, LockedWrites DEF Step
  <2> QED BY <2>2, <2>5 DEF Next, Step, vars
<1>3. Init => AllVisible
  BY DEF Init, AllVisible
<1>4. Service /\ AllVisible /\ [Next]_vars => AllVisible'
  <2>1. UNCHANGED vars /\ AllVisible => AllVisible'
    BY DEF vars, AllVisible, Visible
  <2> QED BY <2>1, StepKeepsVisible DEF Next, Step
<1>5. VisibleSpec => Policy!Init /\ [][Policy!Next]_Mapped
  BY <1>1, <1>2, <1>3, <1>4, ServiceAlways, PTL DEF VisibleSpec
<1> QED BY <1>5, PTL DEF HandsOverAtomically, Policy!Spec, Mapped, PolicyOf
=============================================================================
