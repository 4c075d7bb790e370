SPECIFICATION Spec
CONSTANTS
    u1 = u1
    u2 = u2
    j1 = j1
    e1 = e1
    Service = Service
    Users = {u1}
    Jobs = {j1}
    Owner <- OneJobOwner
    FreeJobs = {}
    Events = {}
    Buyer <- NoBuyer
    MaxRows <- BuyerLimits
    Reserve <- BuyerReserves
    AuditCap = 12
    RollupKeys = 1
    MaxRecovery = 0
    MaxLedger = 3
    MaxEvents = 1
    Grantees = {}
    Welcome = 1
    PackSize = 1
    MaxAttempts = 1
    MaxOther <- BuyerRows
    MaxVersions = 1
    MaxUnbudgeted = 8
INVARIANTS
    RefundIsNeverStranded
CHECK_DEADLOCK FALSE
