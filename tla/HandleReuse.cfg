SPECIFICATION Spec
CONSTANTS
    c1 = c1
    c2 = c2
    g1 = g1
    Client = {c1, c2}
    Group = {g1}
    Fd = {1, 2}
    None = None
    NoGroup = NoGroup
    NoJob = NoJob
    FdSetSize = 3
    Request <- MCRequest
    Asking <- MCAsking
INVARIANT OwnSocketOnly
CHECK_DEADLOCK FALSE
