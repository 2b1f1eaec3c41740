CONSTANTS
    w1 = w1
    w2 = w2
    r1 = r1
    r2 = r2
    Recipients = {r1, r2}
    Workers = {w1, w2}
    Fences = {101, 102, 103, 104, 105, 106}
    NoFence = 0
    NoRecipient = NoRecipient
    BatchLimit = 2
    Requests = {"pause", "cancel"}
    SlowWorkers = TRUE
    MaxRequests = 2
    MaxRefusals = 1
    MaxCrashes = 1
SYMMETRY Symmetry
SPECIFICATION Spec
INVARIANTS TypeOK OneActiveDispatcher OneMessagePerRecipient EndedRunIsSettled StoriesAgree
PROPERTIES EndIsFinal
CHECK_DEADLOCK FALSE
