SPECIFICATION FairSpec
CONSTANTS
    j1 = j1
    j2 = j2
    u1 = u1
    u2 = u2
    w1 = w1
    w2 = w2
    NoWorker = NoWorker
    NoJob = NoJob
    Users = {u1}
    Jobs = {j1, j2}
    Owner <- SameOwner
    FreeJobs = {}
    Workers = {w1}
    InitialCredits <- TwoCreditsEach
    MaxRecovery = 1
    MaxVersions = 1
    MaxLedger = 4
    MaxAttempts = 1
    MaxStops = 1
PROPERTIES
    CreditsAreAccounted
    EveryAttemptEnds
CHECK_DEADLOCK FALSE
