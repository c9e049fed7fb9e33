SPECIFICATION MCSpec
CONSTANTS
    MinCapacity = 4
    SizeMax = 1000
    IndexCapacity = 4
    CodecNames = {"H264", "HEVC", "MPEG2", "MPEG4", "VC1", "VP8", "VP9", "JPEG", "AV1"}
    Groups <- MCGroups
    Pictures <- MCPictures
    Matrices <- MCMatrices
    Tables <- MCTables
    Blocks = {0, 9, 1000}
    MaxLength = 24
    MaxTiles = 4
    TrimThreshold = 8
    TrimFrames = 2
    MaxPictures = 3
    MaxGroups = 2
INVARIANTS
    VerdictExact
    SubmittedFaithful
    TilesTracked
    CodecFieldsExact
CHECK_DEADLOCK FALSE
