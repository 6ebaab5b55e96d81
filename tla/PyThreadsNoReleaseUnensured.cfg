CONSTANTS
    PyThreads = {p1}
    CbThreads = {c1, c2, c3}
    InitAtStart = FALSE
SPECIFICATION Spec
INVARIANT NoReleaseUnensured
CHECK_DEADLOCK FALSE
