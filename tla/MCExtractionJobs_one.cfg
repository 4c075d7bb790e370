SPECIFICATION Spec
CONSTANTS
    j1 = j1
    j2 = j2
    u1 = u1
    u2 = u2
    w1 = w1
    w2 = w2
    NoWorker = NoWorker
    NoJob = NoJob
    Users = {u1}
    Jobs = {j1}
    Owner <- OneJobOwner
    FreeJobs = {}
    Workers = {w1, w2}
    InitialCredits <- TwoCreditsEach
    MaxRecovery = 1
    MaxVersions = 3
    MaxLedger = 3
    MaxAttempts = 2
    MaxStops = 1
SYMMETRY WorkerSymmetry
INVARIANTS
    CreditHasOneFate
    ProviderCalledOnce
    OpenAttemptMatches
    ResultReserved
    ReceiptsAreGenuine
PROPERTIES
    CancelBinds
    ApprovalFollowsResult
CHECK_DEADLOCK FALSE
