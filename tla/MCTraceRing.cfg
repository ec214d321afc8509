SPECIFICATION Spec
CONSTANTS
    Workers = {w1, w2}
    Cfgs <- MCCfgs
    MaxInsts = 1
    MaxRuns = 2
SYMMETRY WorkerSymmetry
INVARIANTS
    EachWorkerInOrder
    CountersMatchEvents
PROPERTY
    KeepsNewest
