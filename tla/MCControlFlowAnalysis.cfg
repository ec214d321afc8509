SPECIFICATION Spec
CONSTANTS
    MaxLen = 4
    Images <- MCImages
INVARIANTS
    FixpointIsPostDominance
    ReconvIsIpdom
    AcceptsExitingKernels
