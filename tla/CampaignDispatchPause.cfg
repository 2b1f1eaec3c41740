CONSTANTS
    w1 = w1
    w2 = w2
    r1 = r1
    r2 = r2
    Recipients = {r1, r2}
    Workers = {w1}
    Fences = {101, 102, 103, 104, 105, 106}
    NoFence = 0
    NoRecipient = NoRecipient
    BatchLimit = 2
    Requests = {"pause"}
    SlowWorkers = FALSE
    MaxRequests = 1
    MaxRefusals = 0
    MaxCrashes = 0
SPECIFICATION Spec
INVARIANTS PauseClearsLeases
CHECK_DEADLOCK FALSE
