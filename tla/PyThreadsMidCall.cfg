CONSTANTS
    PyThreads = {p1}
    CbThreads = {c1, c2, c3}
    InitAtStart = FALSE
SPECIFICATION Spec
INVARIANT GILNotLeaked
CHECK_DEADLOCK FALSE
