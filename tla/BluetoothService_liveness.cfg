SPECIFICATION FairSpec
CONSTANTS
    MaxLinks = 2
    MaxAccepts = 4
    MaxCalls = 1
PROPERTIES
    ManagerSpec
    ConnectingEnds
    LostIsNoticed
    CancelledAcceptEnds
CHECK_DEADLOCK FALSE
