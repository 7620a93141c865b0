SPECIFICATION Spec
CONSTANTS
    MaxPosts = 2
    NumFiles = 1
INVARIANT ModelOutlivesInterpreter
