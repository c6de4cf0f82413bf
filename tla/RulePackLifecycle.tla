------------------------- MODULE RulePackLifecycle -------------------------
(***************************************************************************)
(* The rule-pack management API over the PostgreSQL repository.            *)
(*                                                                         *)
(* A request handler (one thread of one API replica) first runs the use    *)
(* case's checks on a RulePack it reads in one session, then calls a       *)
(* repository method, which loads the row again in a session of its own    *)
(* and commits.  Each of those database statements is one step here, so    *)
(* other handlers can run in between.  A commit is one step: an UPDATE     *)
(* holds its row lock until the COMMIT.  RuleSetORM's version_id_col makes *)
(* every UPDATE conditional on the lock_version the session loaded and     *)
(* increments it; a flush with no changed column of rule_sets emits no     *)
(* UPDATE, and so neither tests nor increments it.                         *)
(*                                                                         *)
(* A rule is identified by its code and abstracted to whether it is there, *)
(* passes validation and is enabled.  The value of tenant_id is left out:  *)
(* save() never stores it and no query reads it, but a PATCH of it is an   *)
(* UPDATE.                                                                 *)
(***************************************************************************)
EXTENDS Naturals, FiniteSets

CONSTANTS
    Handler,      \* request-handling threads, over all replicas
    RowId,        \* primary keys available for rows of rule_sets
    Name,         \* rule-pack names
    Region,       \* values of the region column
    NullRegion,   \* the NULL region, that of the global pack
    Actor,        \* values of created_by
    RuleCode,     \* rule codes
    Patches,      \* the sets of metadata fields a PATCH may carry
    NewBody,      \* what a client may send as a rule, see Body
    NoRow,        \* a NULL parent_version_id
    SeedVersion,  \* the version of the fixture pack the startup seeds
    InitialRows,  \* the contents of rule_sets a run may start from
    Ops,          \* the operations the clients issue
    Locking,      \* whether clients send expectedLockVersion: {TRUE}, {FALSE} or both
    MaxVersion,   \* bound: highest version number
    MaxLock       \* bound: highest lock_version

VARIABLES
    rows,  \* rows[i]: the committed row i of rule_sets, with its rules
    pc,    \* pc[h]: the statement handler h executes next
    req,   \* req[h]: what h's use case holds
    tx     \* tx[h]: what h's repository session has loaded

vars == <<rows, pc, req, tx>>
-----------------------------------------------------------------------------
(***************************************************************************)
(* Types.                                                                  *)
(***************************************************************************)
Status == {"draft", "published", "active", "deprecated", "archived"}

AllOps == {"create", "import", "updateMetadata", "softDelete", "publish",
           "activate", "rollback", "createRule", "updateRule", "deleteRule",
           "seed"}

\* "bad" fails validation; "okOff" and "badOff" are disabled rules.
Body == {"absent", "ok", "bad", "okOff", "badOff"}

Rules == [RuleCode -> Body]

\* status "absent": no such row has been inserted yet.
Row == [name: Name, version: Nat, region: Region,
        status: Status \cup {"absent"}, owner: Actor,
        parent: RowId \cup {NoRow}, deleted: BOOLEAN, lock: Nat,
        rules: Rules]

NoRules == [c \in RuleCode |-> "absent"]

Blank == [name |-> CHOOSE n \in Name : TRUE, version |-> 0,
          region |-> NullRegion, status |-> "absent",
          owner |-> CHOOSE a \in Actor : TRUE, parent |-> NoRow,
          deleted |-> FALSE, lock |-> 0, rules |-> NoRules]

Metadata == {"name", "region", "tenant"}

\* id: the row the use case checked.  expect: expectedLockVersion, 0 for none.
\* seen: the RulePack it read.  pack: what it hands the repository.  base: the
\* parent_version of a pack to insert.  fields: the metadata a PATCH carries.
Request == [op: AllOps \cup {"none"}, id: RowId \cup {NoRow}, expect: Nat,
            seen: Row, pack: Row, base: Nat, fields: SUBSET Metadata]

NoRequest == [op |-> "none", id |-> NoRow, expect |-> 0, seen |-> Blank,
              pack |-> Blank, base |-> 0, fields |-> {}]

\* active[j]: the lock_version at which activate() loaded j as an active row.
Session == [target: RowId \cup {NoRow}, row: Row, parent: RowId \cup {NoRow},
            active: [RowId -> Nat]]

NoneLoaded == [j \in RowId |-> 0]

NoSession == [target |-> NoRow, row |-> Blank, parent |-> NoRow,
              active |-> NoneLoaded]

Statement == {"idle", "current", "list", "find", "existing", "commitSave", "insert",
              "row", "commitRow", "target", "actives", "commitActivate",
              "audit"}

ASSUME Constants ==
    /\ Name # {} /\ Actor # {} /\ NullRegion \in Region
    /\ NoRow \notin RowId
    /\ Patches \subseteq SUBSET Metadata
    /\ NewBody \subseteq Body \ {"absent"}
    /\ SeedVersion \in Nat /\ MaxVersion \in Nat /\ MaxLock \in Nat
    /\ Ops \subseteq AllOps /\ Locking \subseteq BOOLEAN
    /\ InitialRows \subseteq [RowId -> Row]
    /\ \A table \in InitialRows, i \in RowId :
          table[i].status = "absent" <=> table[i].lock = 0
-----------------------------------------------------------------------------
(***************************************************************************)
(* The lifecycle graph and the queries of the repository.                  *)
(***************************************************************************)
AllowedTransitions ==
    [s \in Status |->
        CASE s = "draft"      -> {"published", "archived"}
          [] s = "published"  -> {"active", "archived", "draft"}
          [] s = "active"     -> {"deprecated", "archived"}
          [] s = "deprecated" -> {"active", "archived"}
          [] s = "archived"   -> {}]

CanTransition(s, t) == t \in AllowedTransitions[s]

\* ValidateRulePackUseCase: at least one rule, none of them rejected (disabled
\* rules are checked like the others).
Valid(rules) ==
    /\ \E c \in RuleCode : rules[c] # "absent"
    /\ \A c \in RuleCode : rules[c] \notin {"bad", "badOff"}

\* Rows with a given name and version.  No usable unique constraint backs the
\* pair (a NULL region or tenant makes rows distinct) and the queries have no
\* ORDER BY, so .first() may return any of them.
Find(n, v) == {i \in RowId : /\ rows[i].status # "absent"
                             /\ rows[i].name = n
                             /\ rows[i].version = v}

\* get_by_id hides archived packs.
GetById == {i \in RowId : rows[i].status \notin {"absent", "archived"}}

ActiveRows(n) == {i \in RowId : rows[i].status = "active" /\ rows[i].name = n}

\* Versions the hot path's query (PostgresRuleRepository) can return once they
\* are active: those of the global pack that are not soft-deleted.
Visible(r) == r.region = NullRegion /\ ~r.deleted

ServedRows(n) == {i \in ActiveRows(n) : Visible(rows[i])}

IsLatestVersion(n, v) ==
    LET versions == {rows[i].version : i \in {j \in RowId :
                        rows[j].status # "absent" /\ rows[j].name = n}}
    IN \/ versions = {} /\ v = 0
       \/ v \in versions /\ \A w \in versions : w <= v

\* _resolve_parent_version; 0 stands for None.
ParentVersion(i) == IF rows[i].parent = NoRow THEN 0
                                              ELSE rows[rows[i].parent].version

\* The rule_sets columns an UPDATE can change, lock_version apart.
SameColumns(r, s) ==
    /\ r.name = s.name /\ r.region = s.region /\ r.status = s.status
    /\ r.owner = s.owner /\ r.deleted = s.deleted
-----------------------------------------------------------------------------
Init ==
    /\ rows \in InitialRows
    /\ pc = [h \in Handler |-> "idle"]
    /\ req = [h \in Handler |-> NoRequest]
    /\ tx = [h \in Handler |-> NoSession]

(***************************************************************************)
(* Use cases: the checks each makes on what it reads.  A request they      *)
(* refuse changes nothing and is not a step.                               *)
(***************************************************************************)
Accept(h, op, next, r) ==
    /\ pc[h] = "idle"
    /\ op \in Ops
    /\ pc' = [pc EXCEPT ![h] = next]
    /\ req' = [req EXCEPT ![h] = r]
    /\ UNCHANGED <<rows, tx>>

\* What a client may send as expectedLockVersion for row i: nothing, or a
\* value an earlier GET returned.
Expected(i) == (IF FALSE \in Locking THEN {0} ELSE {})
          \cup (IF TRUE \in Locking THEN 1..rows[i].lock ELSE {})

Reading(op, i, e, pack) ==
    [NoRequest EXCEPT !.op = op, !.id = i, !.expect = e,
                      !.seen = rows[i], !.pack = pack]

UpdateMetadata(h) ==
    \E i \in GetById, f \in Patches :
      \E e \in Expected(i),
         n \in IF "name" \in f THEN Name ELSE {rows[i].name},
         r \in IF "region" \in f THEN Region \ {NullRegion}
                                ELSE {rows[i].region} :
        /\ rows[i].status = "draft"
        /\ Accept(h, "updateMetadata", "row",
                  [Reading("updateMetadata", i, e,
                           [rows[i] EXCEPT !.name = n, !.region = r])
                   EXCEPT !.fields = f])

SoftDelete(h) ==
    \E i \in GetById : \E e \in Expected(i) :
        /\ rows[i].status # "active"
        /\ Accept(h, "softDelete", "row",
                  Reading("softDelete", i, e, rows[i]))

\* Mutant: ValidateRulePackUseCase is not called.
PublishUnvalidated(h) ==
    \E i \in GetById :
        /\ CanTransition(rows[i].status, "published")
        /\ Accept(h, "publish", "row", Reading("publish", i, 0, rows[i]))

\* Publishing takes no expectedLockVersion.
Publish(h) ==
    \E i \in GetById :
        /\ CanTransition(rows[i].status, "published")
        /\ Valid(rows[i].rules)
        /\ Accept(h, "publish", "row", Reading("publish", i, 0, rows[i]))

\* Mutant: can_transition is not asked.
ActivateUnguarded(h) ==
    \E i \in GetById : \E e \in Expected(i) :
        Accept(h, "activate", "target", Reading("activate", i, e, rows[i]))

Activate(h) ==
    \E i \in GetById : \E e \in Expected(i) :
        /\ CanTransition(rows[i].status, "active")
        /\ Accept(h, "activate", "target", Reading("activate", i, e, rows[i]))

\* The router resolves the id; the use case then reads the pack by name and
\* version and turns to its parent, whatever status either of them has.
Rollback(h) ==
    \E i \in GetById : \E e \in Expected(i) :
        Accept(h, "rollback", "current", Reading("rollback", i, e, rows[i]))

RollbackToParent(h) ==
    /\ pc[h] = "current"
    /\ \E c \in Find(req[h].pack.name, req[h].pack.version) :
        /\ rows[c].parent # NoRow
        /\ req[h].expect \in {0, rows[c].lock}
        /\ req' = [req EXCEPT ![h].id = c, ![h].seen = rows[c],
                              ![h].pack.version = ParentVersion(c)]
    /\ pc' = [pc EXCEPT ![h] = "target"]
    /\ UNCHANGED <<rows, tx>>

NewPack(n, v, r, a, rules) ==
    [Blank EXCEPT !.name = n, !.version = v, !.region = r, !.owner = a,
                  !.status = "draft", !.rules = rules]

NewRules == [RuleCode -> NewBody \cup {"absent"}]

CreateRulePack(h) ==
    \E n \in Name, r \in Region, a \in Actor, rules \in NewRules :
        Accept(h, "create", "list",
               [NoRequest EXCEPT !.op = "create",
                                 !.pack = NewPack(n, 0, r, a, rules)])

\* Version 0 stands for a document without one.
ImportRulePack(h) ==
    \E n \in Name, v \in 0..MaxVersion, r \in Region, a \in Actor,
       rules \in NewRules :
        /\ v = 0 \/ Find(n, v) = {}
        /\ Accept(h, "import", "list",
                  [NoRequest EXCEPT !.op = "import",
                                    !.pack = NewPack(n, v, r, a, rules)])

\* list_versions(): the next version number and the parent's.
ListVersions(h) ==
    /\ pc[h] = "list"
    /\ \E latest \in 0..MaxVersion :
        /\ IsLatestVersion(req[h].pack.name, latest)
        /\ \E v \in 1..MaxVersion :
            /\ v = IF req[h].pack.version = 0 THEN latest + 1
                                              ELSE req[h].pack.version
            /\ req' = [req EXCEPT ![h].pack.version = v, ![h].base = latest]
    /\ pc' = [pc EXCEPT ![h] = "existing"]
    /\ UNCHANGED <<rows, tx>>

\* Mutant: any status is editable.
EditRuleUnguarded(h, op, i, c, b) ==
    Accept(h, op, "existing",
           [Reading(op, i, 0, [rows[i] EXCEPT !.rules[c] = b])
            EXCEPT !.base = ParentVersion(i)])

EditRule(h, op, i, c, b) ==
    /\ rows[i].status = "draft"
    /\ Accept(h, op, "existing",
              [Reading(op, i, 0, [rows[i] EXCEPT !.rules[c] = b])
               EXCEPT !.base = ParentVersion(i)])

CreateRule(h) ==
    \E i \in GetById, c \in RuleCode, b \in NewBody :
        /\ rows[i].rules[c] = "absent"
        /\ EditRule(h, "createRule", i, c, b)

UpdateRule(h) ==
    \E i \in RowId, c \in RuleCode, b \in NewBody :
        /\ rows[i].rules[c] # "absent"
        /\ EditRule(h, "updateRule", i, c, b)

Disabled(b) == IF b \in {"bad", "badOff"} THEN "badOff" ELSE "okOff"

DeleteRule(h) ==
    \E i \in RowId, c \in RuleCode :
        /\ rows[i].rules[c] # "absent"
        /\ EditRule(h, "deleteRule", i, c, Disabled(rows[i].rules[c]))

\* Startup seeding: the fixture pack is itself marked active.
Fixture(n, a) ==
    [Blank EXCEPT !.name = n, !.version = SeedVersion, !.owner = a,
                  !.status = "active", !.rules = [c \in RuleCode |-> "ok"]]

\* get_active(name, region=None) of the management repository finds nothing.
SeedActivePolicy(h) ==
    \E n \in Name, a \in Actor :
        /\ \A i \in ActiveRows(n) : rows[i].region # NullRegion
        /\ Accept(h, "seed", "find",
                  [NoRequest EXCEPT !.op = "seed", !.pack = Fixture(n, a)])

\* get(name, version), in a session of its own: a version that is stored is
\* activated as it is, otherwise the fixture is saved first.
SeedFind(h) ==
    /\ pc[h] = "find"
    /\ pc' = [pc EXCEPT ![h] =
                IF Find(req[h].pack.name, req[h].pack.version) = {}
                THEN "existing" ELSE "target"]
    /\ UNCHANGED <<rows, req, tx>>
-----------------------------------------------------------------------------
(***************************************************************************)
(* Repository methods.                                                     *)
(***************************************************************************)
Load(h, next, session) ==
    /\ tx' = [tx EXCEPT ![h] = session]
    /\ pc' = [pc EXCEPT ![h] = next]
    /\ UNCHANGED <<rows, req>>

Loaded(i) == [NoSession EXCEPT !.target = i, !.row = rows[i]]

\* Mutant: expectedLockVersion is ignored.
LockIgnored(h, i) == i \in RowId

\* _check_lock
LockMatches(h, i) == req[h].expect \in {0, rows[i].lock}

\* What follows a commit: seeding goes on to activate, the others write their
\* audit entry in a transaction of its own.
Committed(h) ==
    /\ pc' = [pc EXCEPT ![h] = IF req[h].op = "seed" /\ pc[h] # "commitActivate"
                               THEN "target" ELSE "audit"]
    /\ UNCHANGED <<req, tx>>

\* Mutant: no version_id_col in the WHERE clause.
Unconditional(h) == rows[tx[h].target].lock < MaxLock

\* UPDATE rule_sets SET ... WHERE id = target AND lock_version = the loaded one
StillLoaded(h) ==
    /\ rows[tx[h].target].lock = tx[h].row.lock
    /\ rows[tx[h].target].lock < MaxLock

\* Mutant: lock_version is tested and not incremented.
UpdatedUncounted(h, new) ==
    [new EXCEPT !.lock = tx[h].row.lock,
                !.rules = rows[tx[h].target].rules]

Updated(h, new) ==
    [new EXCEPT !.lock = tx[h].row.lock + 1,
                !.rules = rows[tx[h].target].rules]

\* update_metadata, update_status, soft_delete: session.get(), _check_lock.
LoadRow(h) ==
    /\ pc[h] = "row"
    /\ LockMatches(h, req[h].id)
    /\ Load(h, "commitRow", Loaded(req[h].id))

CommitRow(h, new) ==
    /\ pc[h] = "commitRow"
    /\ StillLoaded(h)
    /\ rows' = [rows EXCEPT ![tx[h].target] = Updated(h, new)]
    /\ Committed(h)

\* Attributes set to the values they have are no change: no UPDATE.
CommitUnchanged(h, new) ==
    /\ pc[h] = "commitRow"
    /\ SameColumns(new, tx[h].row)
    /\ UNCHANGED rows
    /\ Committed(h)

WithMetadata(h) ==
    [tx[h].row EXCEPT
        !.name   = IF "name" \in req[h].fields THEN req[h].pack.name ELSE @,
        !.region = IF "region" \in req[h].fields THEN req[h].pack.region ELSE @]

CommitMetadata(h) ==
    /\ req[h].op = "updateMetadata"
    /\ \/ CommitUnchanged(h, WithMetadata(h))
       \/ /\ SameColumns(WithMetadata(h), tx[h].row) => "tenant" \in req[h].fields
          /\ CommitRow(h, WithMetadata(h))

AsPublished(h) == [tx[h].row EXCEPT !.status = "published"]

CommitStatus(h) ==
    /\ req[h].op = "publish"
    /\ \/ CommitUnchanged(h, AsPublished(h))
       \/ /\ ~SameColumns(AsPublished(h), tx[h].row)
          /\ CommitRow(h, AsPublished(h))

\* Mutant: a status the column's type does not have.
CommitDeleted(h) ==
    /\ req[h].op = "softDelete"
    /\ CommitRow(h, [tx[h].row EXCEPT !.status = "deleted", !.deleted = TRUE])

\* deleted_at is stamped anew, so there is always an UPDATE.
CommitSoftDelete(h) ==
    /\ req[h].op = "softDelete"
    /\ CommitRow(h, [tx[h].row EXCEPT !.status = "archived", !.deleted = TRUE])

\* activate(): the target, then every active row of that name in any region.
LoadTarget(h) ==
    /\ pc[h] = "target"
    /\ \E i \in Find(req[h].pack.name, req[h].pack.version) :
        /\ req[h].op = "activate" => LockMatches(h, i)
        /\ Load(h, "actives", Loaded(i))

\* Mutant: every version of the name is loaded, whatever its status.
LoadEveryVersion(h) ==
    /\ pc[h] = "actives"
    /\ Load(h, "commitActivate",
            [tx[h] EXCEPT !.active =
                [j \in RowId |-> IF rows[j].name = req[h].pack.name
                                 THEN rows[j].lock ELSE 0]])

LoadActives(h) ==
    /\ pc[h] = "actives"
    /\ Load(h, "commitActivate",
            [tx[h] EXCEPT !.active =
                [j \in RowId |-> IF j \in ActiveRows(req[h].pack.name)
                                 THEN rows[j].lock ELSE 0]])

\* Mutant: the version in service is not deprecated.
NoneSuperseded(h) == {}

\* Rows activate() deprecates.  The target is marked active after the loop.
Superseded(h) == {j \in RowId : tx[h].active[j] > 0 /\ j # tx[h].target}

CommitActivate(h) ==
    /\ pc[h] = "commitActivate"
    /\ StillLoaded(h)
    /\ \A j \in Superseded(h) : /\ rows[j].lock = tx[h].active[j]
                                /\ rows[j].lock < MaxLock
    /\ rows' = [j \in RowId |->
                  IF j = tx[h].target
                  THEN Updated(h, [tx[h].row EXCEPT !.status = "active"])
                  ELSE IF j \in Superseded(h)
                  THEN [rows[j] EXCEPT !.status = "deprecated", !.lock = @ + 1]
                  ELSE rows[j]]
    /\ Committed(h)

\* save(): an existing row with the pack's name and version is overwritten.
SaveExisting(h) ==
    /\ pc[h] = "existing"
    /\ \E i \in Find(req[h].pack.name, req[h].pack.version) :
        Load(h, "commitSave", Loaded(i))

SaveNew(h) ==
    /\ pc[h] = "existing"
    /\ Find(req[h].pack.name, req[h].pack.version) = {}
    /\ LET parents == Find(req[h].pack.name, req[h].base)
       IN \E p \in IF req[h].base = 0 \/ parents = {} THEN {NoRow} ELSE parents :
            Load(h, "insert", [NoSession EXCEPT !.parent = p])

\* A rule keeps the id it was read with, a new one gets an id on INSERT.  One
\* read from another row cannot be inserted while that row has it.
IdsFree(h, i) == i = req[h].id \/ \A c \in RuleCode :
    req[h].seen.rules[c] # "absent" => rows[req[h].id].rules[c] = "absent"

CommitInsert(h) ==
    /\ pc[h] = "insert"
    /\ \E i \in RowId :
        /\ rows[i].status = "absent"
        /\ IdsFree(h, i)
        /\ rows' = [rows EXCEPT ![i] =
                      [req[h].pack EXCEPT !.lock = 1, !.parent = tx[h].parent,
                                          !.deleted = FALSE]]
    /\ Committed(h)

\* rules.clear() and append: a rule the pack has under the id the session
\* loaded is updated, the pack's other rules are inserted, then the loaded
\* rules it lacks are deleted; a rule neither mentions is left alone.
SameId(h, c) == /\ tx[h].target = req[h].id
                /\ req[h].seen.rules[c] # "absent"
                /\ tx[h].row.rules[c] # "absent"

Replaced(h, c) == IF req[h].pack.rules[c] # "absent" THEN req[h].pack.rules[c]
                  ELSE IF tx[h].row.rules[c] # "absent" THEN "absent"
                  ELSE rows[tx[h].target].rules[c]

\* An UPDATE of a rule row that is gone raises StaleDataError, an INSERT of a
\* code that is there violates ux_rule_code_per_set.
RulesApply(h) ==
    /\ IdsFree(h, tx[h].target)
    /\ \A c \in RuleCode : req[h].pack.rules[c] # "absent" =>
         (SameId(h, c) <=> rows[tx[h].target].rules[c] # "absent")

Overwritten(h) == [tx[h].row EXCEPT !.status = req[h].pack.status,
                                    !.region = req[h].pack.region,
                                    !.owner = req[h].pack.owner]

CommitSave(h) ==
    /\ pc[h] = "commitSave"
    /\ RulesApply(h)
    /\ LET t == tx[h].target
           rules == [c \in RuleCode |-> Replaced(h, c)]
       IN \/ /\ SameColumns(Overwritten(h), tx[h].row)
             /\ rows' = [rows EXCEPT ![t].rules = rules]
          \/ /\ ~SameColumns(Overwritten(h), tx[h].row)
             /\ StillLoaded(h)
             /\ rows' = [rows EXCEPT
                           ![t] = [Updated(h, Overwritten(h))
                                   EXCEPT !.rules = rules]]
    /\ Committed(h)
-----------------------------------------------------------------------------
Idle(h) ==
    /\ pc' = [pc EXCEPT ![h] = "idle"]
    /\ req' = [req EXCEPT ![h] = NoRequest]
    /\ tx' = [tx EXCEPT ![h] = NoSession]
    /\ UNCHANGED rows

\* The audit entry is written and the response sent.
WriteAudit(h) == pc[h] = "audit" /\ Idle(h)

\* The request is answered 400, 404, 409 or 500 after its first statement, or
\* its process dies: the session is rolled back, and what was committed stays.
Abandon(h) == pc[h] # "idle" /\ Idle(h)

UseCase(h) ==
    \/ UpdateMetadata(h) \/ SoftDelete(h) \/ Publish(h) \/ Activate(h)
    \/ Rollback(h) \/ RollbackToParent(h)
    \/ CreateRulePack(h) \/ ImportRulePack(h) \/ ListVersions(h)
    \/ CreateRule(h) \/ UpdateRule(h) \/ DeleteRule(h)
    \/ SeedActivePolicy(h) \/ SeedFind(h)

Repository(h) ==
    \/ LoadRow(h) \/ CommitMetadata(h) \/ CommitStatus(h) \/ CommitSoftDelete(h)
    \/ LoadTarget(h) \/ LoadActives(h) \/ CommitActivate(h)
    \/ SaveExisting(h) \/ SaveNew(h) \/ CommitInsert(h) \/ CommitSave(h)

Next == \E h \in Handler :
            UseCase(h) \/ Repository(h) \/ WriteAudit(h) \/ Abandon(h)

Spec == Init /\ [][Next]_vars

\* What nothing in activate() sees to: the version put in service is one the
\* hot path finds.  It leaves deleted_at as it is, and a rollback's parent may
\* be soft-deleted; and it retires the global version for one of a region.
ActivatesVisible ==
    \A h \in Handler : pc[h] = "target" /\ pc'[h] = "actives"
                         => Visible(tx'[h].row)

VisibleSpec == Init /\ [][Next /\ ActivatesVisible]_vars
-----------------------------------------------------------------------------
(***************************************************************************)
(* Properties.                                                             *)
(***************************************************************************)
\* Every variable has its type.
TypeOK ==
    /\ rows \in [RowId -> Row]
    /\ pc \in [Handler -> Statement]
    /\ req \in [Handler -> Request]
    /\ tx \in [Handler -> Session]

\* "Only one version per (name, region, tenant) can be 'active'"
\* (schema.sql:12): what activate()'s loop over currently_active is for.
AtMostOneActive ==
    \A i, j \in RowId : /\ rows[i].status = "active" /\ rows[j].status = "active"
                        /\ rows[i].name = rows[j].name
                        => i = j

\* A pack the hot path can serve has passed ValidateRulePackUseCase: publish
\* validates, activation requires a publish, and later edits are refused.
ActiveIsValid ==
    \A i \in RowId : rows[i].status = "active" => Valid(rows[i].rules)

\* Every change of a status is one _ALLOWED_TRANSITIONS lists.
LifecycleFollowed ==
    [][\A i \in RowId : rows[i].status \notin {"absent", rows'[i].status}
         => CanTransition(rows[i].status, rows'[i].status)]_vars

\* "Published/Active/Deprecated packs are immutable except for status
\* transitions" (UpdateRulePackMetadataUseCase): no step changes the rules or
\* the metadata of a stored pack that is not a draft.
FrozenOncePublished ==
    [][\A i \in RowId : rows[i].status \notin {"absent", "draft"}
         => /\ rows'[i].rules = rows[i].rules
            /\ rows'[i].name = rows[i].name
            /\ rows'[i].region = rows[i].region]_vars

\* Steps of a session that has loaded its target row.
InTransaction == {"commitRow", "commitSave", "actives", "commitActivate"}

\* A copy of row i read earlier: the row has since moved on, or has the columns
\* of the copy.
CopyOf(copy, i) ==
    /\ copy.lock <= rows[i].lock
    /\ copy.lock = rows[i].lock => SameColumns(copy, rows[i])

LockHolds(h) ==
    /\ pc[h] \in InTransaction => CopyOf(tx[h].row, tx[h].target)
    /\ pc[h] = "commitActivate" => \A j \in RowId : tx[h].active[j] > 0 =>
         /\ tx[h].active[j] <= rows[j].lock
         /\ tx[h].active[j] = rows[j].lock =>
              rows[j].status = "active" /\ rows[j].name = req[h].pack.name

\* version_id_col does its work: a row whose lock_version is the one a session
\* loaded has the columns that session loaded, so an UPDATE never goes through
\* on top of another handler's change.
OptimisticLock == \A h \in Handler : LockHolds(h)

\* Handlers whose next step is the UPDATE of a request that carried an
\* expectedLockVersion, on the row its use case checked.
LockedUpdate(h) ==
    /\ pc[h] \in {"commitRow", "commitActivate"}
    /\ req[h].expect > 0
    /\ req[h].op # "rollback"
    /\ tx[h].target = req[h].id
    /\ rows[tx[h].target].lock = tx[h].row.lock

\* With an expectedLockVersion the use case's check is still true when the
\* UPDATE goes through: the row is as the use case saw it, although the check
\* ran in an earlier session and on a copy (PATCH, DELETE and activate).
LockedUpdateIsChecked ==
    \A h \in Handler : LockedUpdate(h) =>
        SameColumns(req[h].seen, rows[tx[h].target])

\* An activation that found an active version leaves no more active versions
\* of the name than there were: of the activations racing to replace one
\* version, one commits and the others fail on the lock of the row they
\* both deprecate.
ActivationAddsNone ==
    [][\A h \in Handler :
         (/\ pc[h] = "commitActivate" /\ pc'[h] = "audit"
          /\ \E j \in RowId : tx[h].active[j] > 0)
         => Cardinality({j \in RowId : /\ rows'[j].status = "active"
                                      /\ rows'[j].name = req[h].pack.name})
            <= Cardinality(ActiveRows(req[h].pack.name))]_vars

\* The names that start with exactly one active version, which is served.
Established ==
    {n \in Name : \A table \in InitialRows : \E i \in RowId :
        /\ Visible(table[i])
        /\ \A j \in RowId :
             (table[j].status = "active" /\ table[j].name = n) <=> j = i}

\* The operations that go through activate() or take an expectedLockVersion.
LockableOps == {"updateMetadata", "softDelete", "activate", "rollback"}

\* A name in service stays in service, with one active version ("exactly one
\* active version", PostgresRulePackRepository), which is the one the hot path
\* finds ("never a moment where the hot path's get_active() comes up empty",
\* SoftDeleteRulePackUseCase), when the operations are LockableOps, every
\* client sends its lock, and the versions activated are ones the hot path sees.
ExactlyOneActive ==
    \A n \in Established : \E i \in RowId :
        ActiveRows(n) = {i} /\ ServedRows(n) = {i}
-----------------------------------------------------------------------------
(***************************************************************************)
(* The inductive invariant of the proofs.                                  *)
(***************************************************************************)
\* A row has a lock_version from its INSERT on.
Stored == \A i \in RowId : rows[i].status = "absent" <=> rows[i].lock = 0

\* The rows a handler works on exist, and the operations take their own paths.
LocatedAt(h) ==
    /\ pc[h] = "row" =>
         req[h].id \in RowId /\ rows[req[h].id].status # "absent"
    /\ pc[h] = "current" => req[h].op = "rollback"
    /\ pc[h] \in {"list", "find", "existing", "insert", "commitSave"} =>
         req[h].pack.status # "absent"
    /\ pc[h] = "find" => req[h].op = "seed"
    /\ pc[h] \in InTransaction =>
         tx[h].target \in RowId /\ tx[h].row.status # "absent"
    /\ pc[h] \in {"target", "actives", "commitActivate"} =>
         req[h].op \in {"activate", "rollback", "seed"}
    /\ req[h].expect > 0 => req[h].op \in LockableOps

\* The statements between a use case's check and the write it guards.
Guarded(h) ==
    \/ pc[h] \in {"row", "commitRow"}
    \/ /\ pc[h] \in {"target", "actives", "commitActivate"}
       /\ req[h].op = "activate"

\* expectedLockVersion is not newer than what the use case read, and is the
\* lock_version of the row the session loaded.
CheckedAt(h) ==
    /\ Guarded(h) => /\ req[h].id \in RowId
                     /\ CopyOf(req[h].seen, req[h].id)
                     /\ req[h].expect <= req[h].seen.lock
    /\ Guarded(h) /\ pc[h] \in InTransaction /\ req[h].expect > 0
         => tx[h].row.lock = req[h].expect

Inductive ==
    /\ TypeOK /\ Stored /\ OptimisticLock
    /\ \A h \in Handler : LocatedAt(h) /\ CheckedAt(h)
-----------------------------------------------------------------------------
\* What the documentation says and the code does not do.

\* postgres_rule_pack_repository.py:14: of two writers that loaded the same
\* pack the second fails "instead of silently overwriting the first writer's
\* change": adding a rule leaves the rules that are there as they are.
RuleEditKeepsOthers ==
    [][\A h \in Handler, i \in RowId, c \in RuleCode :
         (/\ pc[h] = "commitSave" /\ pc'[h] = "audit"
          /\ req[h].op = "createRule"
          /\ rows[i].rules[c] # "absent")
         => rows'[i].rules[c] = rows[i].rules[c]]_vars
=============================================================================
