SPECIFICATION Spec
CONSTANTS
    Clients = {c1, c2}
    NoClient = NoClient
    Keys = {k1, k2}
    BucketNames = {b1, RecycleBin}
    RecycleBin = RecycleBin
    RecycleKey = RecycleKey
    Contents = {x, y}
    x = x
    y = y
    Bodies <- SharedChunks
    MaxRequests = 5
    MaxFaults = 1
SYMMETRY ClientKeySymmetry
INVARIANTS LockInv AckedWhole DraftMatchesRow RowsMatchObject
PROPERTY DraftsLeaveByRecycling
CHECK_DEADLOCK FALSE
