SPECIFICATION FairSpec
CONSTANTS
    Clients = {c1, c2}
    NoClient = NoClient
    Keys = {k1, k2}
    BucketNames = {b1, RecycleBin}
    RecycleBin = RecycleBin
    RecycleKey = RecycleKey
    Contents = {x, y}
    x = x
    y = y
    Bodies <- OneAndTwoChunks
    MaxRequests = 4
    MaxFaults = 1
PROPERTIES Answered ImplementsStore
CHECK_DEADLOCK FALSE
