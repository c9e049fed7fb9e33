SPECIFICATION FairSpec
CONSTANTS
    t1 = t1  t2 = t2  s1 = s1  s2 = s2  d = d  v = v
    NULL = NULL
    Threads <- TwoThreads
    Surfaces <- OneSurface
    Contexts <- DecodeContext
    VideoProc <- NoContexts
    Capacity = 1
    MaxGeneration = 2
    MaxPictures = 2
    Rules <- AllRules
CHECK_DEADLOCK FALSE
PROPERTY SyncReturns
PROPERTY CallsReturn
