SPECIFICATION Spec
CONSTANTS
    MaxLinks = 2
    MaxAccepts = 2
    MaxCalls = 1
INVARIANT StopIsFinal
CHECK_DEADLOCK FALSE
