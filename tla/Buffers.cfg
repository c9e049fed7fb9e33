SPECIFICATION MCSpec
CONSTANTS
    NULL = NULL
    Types <- MCTypes
    InitialCapacity = 1
    MaxCapacity = 3
    MaxGeneration = 2
    MaxUses = 2
    Threads = {t1, t2}
    ClassSizes <- MCClassSizes
    PoolBlocks = 1
    PoolMaxBytes = 2
    SizeModulus = 16
    Sizes = {0, 1, 2, 4}
    MaxBlocks = 2
    GobWidth = 4
    GobHeight = 2
    PlaneAlignment = 16
    MaxLegacyBuffers = 2
    Int32Max = 127
    UInt32Max = 600
    UInt64Max = 1000000
CHECK_DEADLOCK FALSE
INVARIANT FreeListExact
INVARIANT IdsExact
INVARIANT BlocksOwned
INVARIANT ImageBuffersLive
INVARIANT PoolWithinLimits
INVARIANT ImageMemorySound
