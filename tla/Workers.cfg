CONSTANTS
    Events = {1}
    Publishers = {11, 12}
    Leases = {1, 2, 3, 4}
    NoLease = 0
    NoEvent = 0
    EventMaxAttempts = 2
    EventLimit = 2
    EventMaxFaults = 1
    Commands = {1, 2}
    CommandKind <- MCCommandKind
    CancelledBy <- MCCancelledBy
    Executors = {11, 12}
    NoCommand = 0
    CommandMaxFaults = 2
    BillingEvents = {1, 2}
    BillingWorkers = {11, 12}
    WorkMaxAttempts = 2
    WorkPage = 1
    WorkMaxFaults = 1
    NewTenants = {1}
    Provisioners = {11, 12}
    ProvisionRequests = {21}
    NoTenant = 0
    ProvisionMaxAttempts = 2
    ProvisionMaxRetries = 1
    ProvisionMaxFaults = 1
    w1 = w1
    w2 = w2
    r1 = r1
    r2 = r2
    Recipients = {r1, r2}
    Workers = {w1, w2}
    Fences = {101, 102, 103, 104, 105, 106}
    NoFence = 0
    NoRecipient = NoRecipient
    BatchLimit = 2
    Requests = {"pause", "cancel"}
    SlowWorkers = TRUE
    MaxRequests = 1
    MaxRefusals = 1
    MaxCrashes = 1
SPECIFICATION WorkersSpec
PROPERTIES
    EveryBookedEventSettles
    EveryCommandEnds
    EveryTenantIsProvisioned
    DispatchEnds
\* A service stops when everything it was given is settled.
CHECK_DEADLOCK FALSE
