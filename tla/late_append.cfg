SPECIFICATION Spec
CONSTANTS
    Callers = {c1}
    NoOne = NoOne
    Subjects = {"s1"}
    MaxCalls = 2
    MaxFaults = 1
INVARIANT ReturnsOwnDraft
CHECK_DEADLOCK FALSE
