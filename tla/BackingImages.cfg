SPECIFICATION Spec
CONSTANTS
    t1 = t1
    t2 = t2
    s1 = s1
    s2 = s2
    i1 = i1
    i2 = i2
    i3 = i3
    None = None
    Threads <- MCThreads
    Surfaces <- MCSurfaces
    Images <- MCImages
    SurfaceBytes <- MCSurfaceBytes
    MaxDetachedBackingImages = 2
    MaxDetachedBackingImageBytes = 3
    MemoryBudgetBytes = 3
    VideoProcScratchMaxBytes = 1
    MaxSerial = 4
SYMMETRY MCSymmetry
INVARIANTS
    NoDanglingImage
    DetachedListExact
    BorrowsCounted
    CacheBounded
PROPERTIES
    EvictionOrder
