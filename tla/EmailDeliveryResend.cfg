CONSTANTS
    w1 = w1
    w2 = w2
    Messages = {1}
    Gated = {1}
    Revocable = {}
    Keyless = {}
    Workers = {w1}
    NoMessage = 0
    Maximum = 1
    MaxAttempts = 5
    MaxCrashes = 0
    MaxAborts = 0
    MaxUnrecorded = 1
SPECIFICATION Spec
INVARIANTS AcceptedAtMostOnce
CHECK_DEADLOCK FALSE
