SPECIFICATION Spec
CONSTANTS
    Clients = {c1, c2}
    PartNumbers = {1}
    Blocks = {a, b}
    Bodies <- ShortAndLong
    Lists <- OnePart
    NoFile = NoFile
    NoBody = NoBody
    a = a
    b = b
    Disciplined = FALSE
    MaxUploads = 1
    MaxRequests = 2
    MaxFaults = 0
SYMMETRY ClientSymmetry
CHECK_DEADLOCK FALSE
INVARIANT RowsMatchFiles
