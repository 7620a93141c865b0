SPECIFICATION FairSpec
CONSTANTS
    MaxPosts = 2
    NumFiles = 2
INVARIANTS
    TypeOK
    DialogHiddenWhenIdle
    InferenceWhileResumed
PROPERTIES
    
    NewestModelWins
    TasksFinish
