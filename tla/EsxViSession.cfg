CONSTANT MaxRuns = 2
SPECIFICATION Spec
INVARIANT FilterRefValid
PROPERTY PollLoopEnds
CHECK_DEADLOCK FALSE
