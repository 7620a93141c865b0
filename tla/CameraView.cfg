SPECIFICATION FairSpec
CONSTANT MaxFrames = 4
INVARIANTS
    TypeOK
    FrameIntact
    WorkerHasResources
    StoppedHoldsNothing
    
PROPERTIES
    FeedSpec
    CallsReturn
    FrameIsTaken
