\* Two decisions, two hours around the thresholds and timeouts.
SPECIFICATION FairSpec
CONSTANTS
    a = a
    b = b
    Incident = {a, b}
    Verdict <- Verdicts
    Instant = {0, 48, 100}
    Threshold = 80
    Backends = {"memory", "postgres"}
    MaxOperator = 1
INVARIANTS NotPremature
PROPERTIES ClimbsWhenLate SilenceEscalates OverdueIsBumped
CHECK_DEADLOCK FALSE
