SPECIFICATION Spec
CONSTANTS
    Clients = {c1}
    NoClient = NoClient
    Keys = {k1, k2, k3}
    BucketNames = {b1}
    RecycleBin = RecycleBin
    RecycleKey = RecycleKey
    Contents = {x, y}
    x = x
    y = y
    Bodies <- SingleChunk
    MaxRequests = 6
    MaxFaults = 0
INVARIANT UsedDraftsArePreserved
CHECK_DEADLOCK FALSE
