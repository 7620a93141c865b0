SPECIFICATION Spec
CONSTANTS
    Contour <- MCContour
    MaxContours = 4
    MaxFrames = 3
INVARIANTS
    TypeOK
    SolverInput
    
    
    RendererFollowsPose
CHECK_DEADLOCK FALSE
