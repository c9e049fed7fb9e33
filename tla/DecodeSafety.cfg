SPECIFICATION Spec
CONSTANTS
    t1 = t1  t2 = t2  s1 = s1  s2 = s2  d = d  v = v
    NULL = NULL
    Threads <- TwoThreads
    Surfaces <- TwoSurfaces
    Contexts <- BothContexts
    VideoProc <- VideoProcContext
    Capacity = 1
    MaxGeneration = 2
    MaxPictures = 3
    Rules <- AllRules
CHECK_DEADLOCK FALSE
SYMMETRY Symmetry
INVARIANT NoDanglingSurface
INVARIANT ReadyMeansDone
INVARIANT ResolvingIsOwned
INVARIANT FailureReported
INVARIANT ExportedFrameFinished
PROPERTY NewGenerationWaits
