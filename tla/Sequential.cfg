\* One request at a time.
SPECIFICATION Spec
CONSTANTS
    r1 = r1
    r2 = r2
    r3 = r3
    Handler = {h1}
    RowId = {r1, r2}
    Name = {noc}
    Region = {null, eu}
    NullRegion = null
    Actor = {ann}
    RuleCode = {c1}
    Patches = {{"name", "region"}, {"tenant"}}
    NewBody = {"ok", "bad"}
    NoRow = NoRow
    SeedVersion = 1
    InitialRows <- Empty
    Ops = {"create", "import", "updateMetadata", "softDelete", "publish", "activate", "createRule", "updateRule", "deleteRule"}
    Locking = {FALSE}
    MaxVersion = 2
    MaxLock = 4
INVARIANTS AtMostOneActive ActiveIsValid
PROPERTIES LifecycleFollowed FrozenOncePublished
CHECK_DEADLOCK FALSE
