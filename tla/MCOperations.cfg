SPECIFICATION OpsSpec
CONSTANTS
    Keys = {k1, k2}
    Orders = {o1, o2}
    Requests = {r1, r2, r3}
    None = None
    Calls = {e1, e2}
    NoCall = NoCall
    Samples = {1, 2}
    Recipes = {recipe}
    NoRecipe = NoRecipe
    MaxChanges = 1
    Trainers = {n1, n2, n3}
    NoTrainer = NoTrainer
    LastStep = 3
    SaveLimit = 2
    TrainRecipes = {i1, i2}
    NoIdentity = NoIdentity
    OneAtATime = TRUE
    Writers = {w1, w2}
    MaxVersions = 6
    Containers = {c1, c2}
    HubReleases = {h1}
    Published = {p1}
    Foreign = foreign
    Sources = {f1}
    Retain = 2
    LastTime = 4
    Faults = TRUE
    Starters = {s1, s2}
    OldAccounts = {a1, a2}
    OldKeys = {d1, d2}
    Clients = {q1, q2, q3}
    Slots <- SlotsOf
    RateLimit = 1
    KeptWindows = 1
    LastWindow = 2
    Small = small
    Middle = middle
    Wide = wide
    Huge = huge
    Threads = {t1, t2, t3}
    Charts = {small, middle, wide, huge}
    ImageSize <- SizeOf
    MaxBytes = 4
    MaxEntries = 2
    Tabs = {b1, b2}
    LastVersion = 3
    LastAttempt = 2
    First = first
    Second = second
    Customer = customer
    Pages = {g1, g2}
    Principals = {customer, other}
    Nobody = nobody
    Selections = {first, second}
    Selector <- SelectorOf
    BootMayFail = FALSE
INVARIANTS
    OpsTypeOK
    OneJobPerKey
    AnswersAreTrue
    SamplesBoughtOnce
    ComparisonStands
    SavesSurvive
    ConsumedWasReviewed
    AnswersMatchDigest
    VerifiedCopyKept
    UpgradeKeepsData
    SlotsMatchWork
    WindowHolds
    CountsWhatItHolds
    NoEditIsLost
    ApprovalsAreGenuine
    MadeIsRecovered
CHECK_DEADLOCK FALSE
