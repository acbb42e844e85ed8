SPECIFICATION Spec
CONSTANTS
    Clients = {c1, c2}
    NoClient = NoClient
    Keys = {k1, k2}
    BucketNames = {b1}
    RecycleBin = RecycleBin
    RecycleKey = RecycleKey
    Contents = {x, y}
    x = x
    y = y
    Bodies <- OneAndTwoChunks
    MaxRequests = 6
    MaxFaults = 0
SYMMETRY ClientKeySymmetry
INVARIANTS TypeOK DedupSingleDraft QuiescentWhole FaithfulFetch
CHECK_DEADLOCK FALSE
