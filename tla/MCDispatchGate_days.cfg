SPECIFICATION Spec
CONSTANTS
    j1 = j1
    j2 = j2
    u1 = u1
    u2 = u2
    Users = {u1, u2}
    Jobs = {j1, j2}
    Owner <- OwnerEach
    DailyLimit = 2
    UserFailureLimit = 1
    GlobalFailureLimit = 2
    MaxAttemptsPerJob = 2
    TicksPerDay = 2
    Window = 1
    MaxTime = 3
    MaxSetbacks = 1
INVARIANTS
    AllowanceHolds
PROPERTIES
    PauseHolds
    AllowanceNeverReturns
CHECK_DEADLOCK FALSE
