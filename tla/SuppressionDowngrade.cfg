CONSTANTS
    SuppressionRows = {1}
    NoRow = 0
    GateWriters = {11, 12}
    GateSenders = {21}
    SendQuota = 1
    MaxControls = 1
SPECIFICATION GateSpec
INVARIANTS
    BouncedStaysSuppressed
CHECK_DEADLOCK FALSE
