\* Operations that go through activate() or a lock, every client sending its lock, and
\* none but visible versions activated.
SPECIFICATION VisibleSpec
CONSTANTS
    r1 = r1
    r2 = r2
    r3 = r3
    Handler = {h1, h2}
    RowId = {r1, r2, r3}
    Name = {noc, lab}
    Region = {null}
    NullRegion = null
    Actor = {ann}
    RuleCode = {c1}
    Patches = {{"name", "tenant"}, {"name"}}
    NewBody = {"ok"}
    NoRow = NoRow
    SeedVersion = 1
    InitialRows <- InService
    Ops = {"updateMetadata", "softDelete", "activate", "rollback"}
    Locking = {TRUE}
    MaxVersion = 3
    MaxLock = 4
INVARIANTS ExactlyOneActive
PROPERTIES HandsOverAtomically
SYMMETRY HandlersAlike
CHECK_DEADLOCK FALSE
