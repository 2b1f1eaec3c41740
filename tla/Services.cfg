CONSTANTS
    q1 = q1
    q2 = q2
    Events = {1, 2}
    Publishers = {q1, q2}
    Leases = {1, 2, 3, 4}
    NoLease = 0
    NoEvent = 0
    EventMaxAttempts = 2
    EventLimit = 2
    EventMaxFaults = 1
    Callbacks = {1, 2}
    CallbackKind <- MCCallbackKind
    Tagged = {1}
    Hooks = {q1, q2}
    NoCallback = 0
    CallbackMaxAttempts = 2
    CallbackMaxCalls = 2
    Commands = {1, 2, 3}
    CommandKind <- MCCommandKind
    CancelledBy <- MCCancelledBy
    Executors = {q1, q2}
    NoCommand = 0
    CommandMaxFaults = 2
    Clerks = {q1, q2}
    References = {1, 2, 3}
    WalletAmount <- MCWalletAmount
    Payments = {11, 12}
    PaymentAmount <- MCPaymentAmount
    Manual = {12}
    InvoiceTotal = 2
    CreditAmount = 1
    MaxNotes = 2
    NoWallet = NoWallet
    UsageTenants = {1, 2, 3}
    UsageRuns = {q1, q2}
    UsagePage = 2
    UsageMax = 1
    UsageMaxFaults = 1
    Mails = {1}
    MailWorkers = {q1, q2}
    NoMail = 0
    CanaryAllowance = 1
    MailMaxAttempts = 2
    MailMaxFaults = 2
    DkimKeys = {1, 2}
    KeyRequests = {q1, q2}
    NoKey = 0
    LastDay = 1
    Tasks = {1, 2}
    ResultKeys = {1, 2}
    Payloads = {1, 2}
    NoPayload = 0
    Holds = {"h1"}
    HeldTask <- MCHeldTask
    TaskMaxAttempts = 2
    PurgeLimit = 1
    LastKid = 1
    Browsers = {21}
    Flows = {1}
    Sessions = {1, 2, 3}
    SignInRequests = {q1, q2}
    NoFlow = 0
    NoBrowser = 0
    NoSession = 0
    SessionTTL = 2
    LastTick = 2
    Members = {1, 2}
    Founder = 1
    Handlers = {q1, q2}
    Changes = {21}
    Invitations = {31}
    NoMember = 0
    Inbound = {1, 2, 3}
    Outbound = {9}
    Size <- MCSize
    MessageId <- MCMessageId
    Surplus <- MCSurplus
    MailQuota = 3
    Deliverers = {q1, q2}
    Deleters = {q1, q2}
    NoMessage = 0
    BillingEvents = {1, 2}
    BillingWorkers = {q1, q2}
    WorkMaxAttempts = 2
    WorkPage = 1
    WorkMaxFaults = 1
    NewTenants = {1}
    Provisioners = {q1, q2}
    ProvisionRequests = {21}
    NoTenant = 0
    ProvisionMaxAttempts = 2
    ProvisionMaxRetries = 1
    ProvisionMaxFaults = 1
    SuppressionRows = {1, 2}
    NoRow = 0
    GateWriters = {q1, q2}
    GateSenders = {21}
    SendQuota = 1
    MaxControls = 2
    Subjects = {1, 2}
    EmailOf <- MCEmailOf
    NoUser = 0
    Arrivals = {q1, q2}
    Invites = {31, 32}
    NoInvite = 30
    MaxInvited = 2
    Rotators = {q1, q2}
    Submitters = {21}
    MaxSecret = 3
SYMMETRY ServicesSymmetry
SPECIFICATION ServicesSpec
INVARIANTS
    ServicesTypeOK
    NoCallbackIsLost
    CommandSendsOnce
    MoneyAddsUp
    SnapshotsAreCurrent
    SecurityMailOnce
    DkimKeysAreTheirOwn
    SignInsAreOnce
    AuthorityIsCurrent
    QuotaCountsTheMail
    ClosedGatesBind
PROPERTIES
    EventKeepsPromise
    ResultsStand
\* Tables fill up, requests are answered and bounds are reached.
CHECK_DEADLOCK FALSE
