\* Two requests at a time, two minutes, tokens that live one and two of them.
SPECIFICATION Spec
CONSTANTS
    Handler = {h1, h2}
    User = {u1, u2}
    Email = {ann}
    Role = {viewer, operator}
    Permission = {read}
    Backends = {"memory", "postgres"}
    AccessTtl = 1
    RefreshTtl = 2
    MaxTime = 2
    MaxIssued = 2
    MaxAdmin = 2
INVARIANTS DeactivatedIsOut GrantIsFresh EmailFindsItsUser
SYMMETRY Alike
CHECK_DEADLOCK FALSE
