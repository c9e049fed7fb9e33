SPECIFICATION Spec
CONSTANTS
    c1 = c1  c2 = c2  s1 = s1  s2 = s2  s3 = s3
    NULL = NULL  VPP = VPP
    Contexts <- OneContext
    AV1 <- NoContext
    Surfaces <- MCSurfaces
    MinSurfaces = 1
    MaxSurfaces = 2
    DefaultSurfaces = 1
    Override = 0
    Hints <- VaryingHints
    VideoProcTargets <- NoSurface
    NamesAll = FALSE
    ForeignDisplay = FALSE
    MaxReferences = 1
    MaxJobs = 1

INVARIANT ReferencesKept
