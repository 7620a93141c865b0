SPECIFICATION FairSpec
CONSTANTS
    MaxFrames = 2
INVARIANTS
    TextSettles
    NeverDrawnBackwards
    StepsEnabled
PROPERTIES
    PictureCatchesUp
    UIReturns
