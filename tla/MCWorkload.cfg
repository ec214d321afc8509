SPECIFICATION FairSpec
CONSTANTS
    NumStreams = 3
    Events = {"a", "b"}
    Programs <- MCPrograms
INVARIANTS
    TypeOK
    DeadlockIsReal
PROPERTIES
    StreamsKeepOrder
    WorkloadEnds
