SPECIFICATION Spec
CONSTANTS
    Clients = {c1, c2, c3}
    PartNumbers = {1, 2}
    Blocks = {a, b}
    Bodies <- ShortAndLong
    Lists <- OneOrTwoParts
    NoFile = NoFile
    NoBody = NoBody
    a = a
    b = b
    Disciplined = TRUE
    MaxUploads = 1
    MaxRequests = 5
    MaxFaults = 1
SYMMETRY ClientSymmetry
CHECK_DEADLOCK FALSE
INVARIANTS TypeOK AckedPartsAreStored AssembledAsAcked ClosedStaysClosed
