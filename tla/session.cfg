SPECIFICATION ImpatientSpec
CONSTANTS
    Callers = {c1, c2}
    NoOne = NoOne
    Subjects = {"s1"}
    MaxCalls = 4
    MaxFaults = 2
INVARIANTS TypeOK InSync RightAnswer
PROPERTY CallsEnd
CHECK_DEADLOCK FALSE
