CONSTANT MaxRuns = 2
SPECIFICATION Spec
INVARIANT NoFilterLeak
CHECK_DEADLOCK FALSE
