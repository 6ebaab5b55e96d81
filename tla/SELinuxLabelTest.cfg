CONSTANT MaxLines = 2
SPECIFICATION Spec
INVARIANT NoStrayFiles
PROPERTY CreatedTestReturns
CHECK_DEADLOCK FALSE
