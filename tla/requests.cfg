SPECIFICATION Spec
CONSTANTS
    AnyByte = "_"
    AnyBytes = "%"
    Escape <- Backslash
    MiB = 2
    Word = 8
    Skew = 2
    OurKey = "key"
    OurSecret = "secret"
    Slash = 1
    Trim <- Trimmed
    Collapse <- Collapsed
    UriEncoded <- Encoded
    PathEncoded <- Encoded
    Bytes <- KeyBytes
    KeyPool <- ShortKeys
    ListRequests <- ListParameters
    Bodies <- ShortBodies
    ChunkSizes <- Sizes
    SignRequests <- SignedAndForged
    Clocks <- FreshAndLate
INVARIANTS
    ListingHidesNothing
    ListingGroupsAsS3
    ListingCountsHonestly
    ChunksReassemble
    SignedRequestsAreServed
CHECK_DEADLOCK FALSE
