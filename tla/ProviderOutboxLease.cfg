CONSTANTS
    w1 = w1
    w2 = w2
    o1 = o1
    EventRows = {1}
    UsageRows = {4}
    Workers = {w1, w2}
    Operators = {o1}
    Claims = {101, 102, 103, 104, 105}
    NoClaim = 0
    NoRow = 0
    Decision <- MCDecision
    Undeliverable = {}
    MaxAttempts = 2
    BatchLimit = 2
    PageLimits = {2}
    MaxCrashes = 0
    MaxManual = 1
SPECIFICATION Spec
INVARIANTS UsageDeadlineIsClaim
