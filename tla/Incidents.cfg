\* Two requests at a time, two in all that may write, one fault.
SPECIFICATION Spec
CONSTANTS
    i1 = i1
    i2 = i2
    good = good
    bad = bad
    Handler = {h1, h2}
    IncidentId = {i1, i2}
    Payload = {good, bad}
    Provider = {crm}
    Pack = {v1, v2}
    Undecidable = {bad}
    Item <- SmallItems
    Request <- SmallRequests
    Backends = {"memory", "postgres"}
    MaxItems = 2
    MaxRequests = 2
    MaxFaults = 1
INVARIANTS StatusIsTrue ReceivedIsInHand AnswersAreTrue BulkLeavesAPrefix KeptOnceWhenAsked ReplayOfUnchanged
SYMMETRY Alike
CHECK_DEADLOCK FALSE
