\* Two rules added to one draft at once.
SPECIFICATION Spec
CONSTANTS
    r1 = r1
    r2 = r2
    r3 = r3
    Handler = {h1, h2}
    RowId = {r1}
    Name = {noc}
    Region = {null}
    NullRegion = null
    Actor = {ann}
    RuleCode = {c1, c2}
    Patches = {}
    NewBody = {"ok"}
    NoRow = NoRow
    SeedVersion = 1
    InitialRows <- Empty
    Ops = {"create", "createRule"}
    Locking = {FALSE}
    MaxVersion = 1
    MaxLock = 4
PROPERTIES RuleEditKeepsOthers
CHECK_DEADLOCK FALSE
