SPECIFICATION Spec
CONSTANTS
    MaxLinks = 2
    MaxAccepts = 2
    MaxCalls = 1
INVARIANT ListenIsListening
CHECK_DEADLOCK FALSE
