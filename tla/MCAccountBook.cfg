SPECIFICATION Spec
CONSTANTS
    u1 = u1
    u2 = u2
    j1 = j1
    e1 = e1
    Service = Service
    Users = {u1, u2}
    Jobs = {j1}
    Owner <- OneJobOwner
    FreeJobs = {}
    Events = {e1}
    Buyer <- OneBuyer
    MaxRows <- Limits
    Reserve <- Reserves
    AuditCap = 3
    RollupKeys = 1
    MaxRecovery = 1
    MaxLedger = 5
    MaxEvents = 1
    Grantees = {u2}
    Welcome = 1
    PackSize = 1
    MaxAttempts = 2
    MaxOther <- OtherRows
    MaxVersions = 2
    MaxUnbudgeted = 2
INVARIANTS
    TerminalRowsFit
    PurchaseGrantedOnce
PROPERTIES
    CreditsAreBooked
CHECK_DEADLOCK FALSE
