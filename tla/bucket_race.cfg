SPECIFICATION Spec
CONSTANTS
    Clients = {c1, c2}
    NoClient = NoClient
    Keys = {k1, k2}
    BucketNames = {b1}
    RecycleBin = RecycleBin
    RecycleKey = RecycleKey
    Contents = {x, y}
    x = x
    y = y
    Bodies <- SingleChunk
    MaxRequests = 4
    MaxFaults = 0
PROPERTY OnlyEmptyBucketsAreDeleted
CHECK_DEADLOCK FALSE
