SPECIFICATION Spec
CONSTANT MaxFrames = 1
INVARIANT StartedMeansPreview
