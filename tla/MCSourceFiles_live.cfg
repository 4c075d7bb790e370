SPECIFICATION FairSpec
CONSTANTS
    u = u
    j = j
    x = x
    Nobody = Nobody
    Ops = {u, j}
    Kind <- UploadAndJob
    From <- FromUpload
PROPERTIES
    NothingLingers
CHECK_DEADLOCK FALSE
