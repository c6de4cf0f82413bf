\* Every operation, two requests at a time, clients with and without a lock.
SPECIFICATION Spec
CONSTANTS
    r1 = r1
    r2 = r2
    r3 = r3
    Handler = {h1, h2}
    RowId = {r1, r2}
    Name = {noc}
    Region = {null}
    NullRegion = null
    Actor = {ann}
    RuleCode = {c1}
    Patches = {{"name"}}
    NewBody = {"ok"}
    NoRow = NoRow
    SeedVersion = 1
    InitialRows <- Seeded
    Ops = {"create", "import", "updateMetadata", "softDelete", "publish", "activate", "rollback", "createRule", "updateRule", "deleteRule", "seed"}
    Locking = {TRUE, FALSE}
    MaxVersion = 2
    MaxLock = 4
INVARIANTS TypeOK OptimisticLock LockedUpdateIsChecked
PROPERTIES ActivationAddsNone
SYMMETRY HandlersAlike
CHECK_DEADLOCK FALSE
