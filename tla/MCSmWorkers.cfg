SPECIFICATION FairSpec
CONSTANTS
    Configs <- AllConfigs
INVARIANTS
    TypeOK
    CtaConserved
    DispatchInOrder
    StepsWithinBudget
    CompletedUnlessCut
    FaultIsReported
    WarpPolicyKept
PROPERTIES
    RunEnds
