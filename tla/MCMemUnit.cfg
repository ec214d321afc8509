SPECIFICATION Spec
CONSTANTS
    WordLimit = 64
    LaneBaseLimit = 16
    MaxWarpSize = 4
    LocalStride = 4
    SmCount = 2
    Launches <- AllLaunches
    MaxOps <- OpsOf
    ByteBase = 2
    Sizes = {2, 4}
    Values = {11}
    GlobalBase = 4
    GlobalSize = 4
    GlobalAddrs = {4, 5, 6, 8}
    LocalAddrs = {0, 1}
    Params <- ParamLayout
INVARIANTS
    ThreadsCoverGrid
    LoadsAreWhole
    LocalIsPrivate
