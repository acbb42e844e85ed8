SPECIFICATION FairSpec
CONSTANTS
    Callers = {c1}
    NoOne = NoOne
    Subjects = {"s1"}
    MaxCalls = 2
    MaxFaults = 1
PROPERTY ProbeEnds
CHECK_DEADLOCK FALSE
