\* Two threads of one replica, two regions, and everything may fail.
SPECIFICATION Spec
CONSTANTS
    a = a
    b = b
    t1 = t1
    t2 = t2
    Replica = {a}
    Thread = {t1, t2}
    Home <- TwoInOne
    Region = {null, eu}
    NullRegion = null
    Distributed = TRUE
    Token = {k1, k2, k3}
    NoToken = NoToken
    Faults = {"postgres", "redis", "crash"}
    Ttl = 1
    SnapshotTtl = 2
    MaxFlight = 1
    MaxGen = 2
INVARIANTS TypeOK PointerHasSnapshot
PROPERTIES WarmNeverFails
SYMMETRY TokensAlike
