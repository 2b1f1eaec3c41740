CONSTANTS
    w1 = w1
    w2 = w2
    Operations = {1, 2}
    Workers = {w1, w2}
    NoOperation = 0
    MaxAttempts = 2
    FailLimit = 2
    Threshold = 2
    MaxCrashes = 1
    MaxFails = 1
SPECIFICATION FairSpec
INVARIANTS TypeOK EffectIsVisible LateIsPutAside
PROPERTIES KeepsPromise EveryOperationSettles
