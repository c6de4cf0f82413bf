\* Redis shared by two replicas, requests keep arriving.
SPECIFICATION FairSpec
CONSTANTS
    a = a
    b = b
    t1 = t1
    t2 = t2
    Replica = {a, b}
    Thread = {t1, t2}
    Home <- OneEach
    Region = {null}
    NullRegion = null
    Distributed = TRUE
    Token = {k1, k2, k3}
    NoToken = NoToken
    Faults = {"redis"}
    Ttl = 1
    SnapshotTtl = 1
    MaxFlight = 1
    MaxGen = 2
INVARIANTS BoundedStaleness
PROPERTIES Converges
