SPECIFICATION FairSpec
CONSTANTS
    Lanes = {0, 1, 2}
    NumPreds = 2
    Kernels <- MCKernels
INVARIANTS
    NoLaneDuplicated
    NoLaneLost
    JoinWaitsBelow
    ReconvDiagsOnlyAtExit
    StackBounded
    DistinctJoinsReconverge
PROPERTIES
    ReturnedLanesFrozen
    LanesAreThreads
    LoopFreeWarpEnds
