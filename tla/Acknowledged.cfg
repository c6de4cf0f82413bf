\* An escalation that was acknowledged goes on.
SPECIFICATION Spec
CONSTANTS
    a = a
    b = b
    Incident = {a, b}
    Verdict <- Verdicts
    Instant = {0, 48, 100}
    Threshold = 80
    Backends = {"memory"}
    MaxOperator = 1
PROPERTIES AcknowledgedStops
CHECK_DEADLOCK FALSE
