SPECIFICATION Spec
CONSTANTS
    MaxLinks = 2
    MaxAccepts = 3
    MaxCalls = 3
INVARIANTS
    TypeOK
    NullOnlyFromConstructor
    OpenSocketIsOwned
    OneListener
    
    StepsEnabled
CHECK_DEADLOCK FALSE
