CONSTANTS
    w1 = w1
    w2 = w2
    Messages = {1, 2, 3}
    Gated = {1, 3}
    Revocable = {1, 2}
    Keyless = {3}
    Workers = {w1, w2}
    NoMessage = 0
    Maximum = 1
    MaxAttempts = 2
    MaxCrashes = 1
    MaxAborts = 1
    MaxUnrecorded = 1
SPECIFICATION FairSpec
INVARIANTS TypeOK CanaryBound NoOtherDuplicate RowsMatchPostal
PROPERTIES SettledStays EveryMessageSettles
CHECK_DEADLOCK FALSE
