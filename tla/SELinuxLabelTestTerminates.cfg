CONSTANT MaxLines = 2
SPECIFICATION Spec
PROPERTY Terminates
CHECK_DEADLOCK FALSE
