SPECIFICATION Spec
CONSTANTS
    Clients = {c1}
    NoClient = NoClient
    Keys = {k1}
    BucketNames = {b1}
    RecycleBin = RecycleBin
    RecycleKey = RecycleKey
    Contents = {x, y}
    x = x
    y = y
    Bodies <- WithEmptyBody
    MaxRequests = 4
    MaxFaults = 0
INVARIANT AckedIsReadable
CHECK_DEADLOCK FALSE
