SPECIFICATION Spec
CONSTANTS
    Isa <- MCIsa
    Descs <- MCDescs
    F32RegIdBias = 8
    Bits32 = 4
    Bits64 = 8
    WarpSize = 3
    PredCount = 2
    FAdd <- MCFAdd
    FMul <- MCFMul
    FFma <- MCFFma
    FOfU32 <- MCFOfU32
    Texts <- MCTexts
    Launchings <- MCLaunchings
    DevicePtrs <- MCDevicePtrs
    LaunchBound <- MCLaunchBound
INVARIANTS
    RegistersMatchText
    PcFollowsText
