CONSTANTS
    w1 = w1
    w2 = w2
    o1 = o1
    EventRows = {1, 2}
    UsageRows = {4, 5}
    Workers = {w1}
    Operators = {}
    Claims = {101, 102, 103, 104, 105, 106, 107}
    NoClaim = 0
    NoRow = 0
    Decision <- MCDecision
    Undeliverable = {2}
    MaxAttempts = 1
    BatchLimit = 2
    PageLimits = {1, 2, 3}
    MaxCrashes = 1
    MaxManual = 0
SPECIFICATION FairSpec
INVARIANTS PagesAreFullAndFair
PROPERTIES EveryRowSettles
