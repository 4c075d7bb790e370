SPECIFICATION Spec
CONSTANTS
    u = u
    j = j
    x = x
    Nobody = Nobody
    Ops = {x, j}
    Kind <- ApiAndJob
    From <- FromApi
INVARIANTS
    SourcesExist
    NothingOwnedIsQueued
PROPERTIES
    DoneMeansGone
CHECK_DEADLOCK FALSE
