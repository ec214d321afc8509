SPECIFICATION Spec
CHECK_DEADLOCK FALSE
CONSTANTS
    Threads = {"t1", "t2", "t3"}
    HostFuns = {"f"}
    Entries = {"e"}
    Dims = {"usable", "zero"}
    Budgets <- MCBudgets
    MaxNest <- MCMaxNest
    MaxModules = 1
INVARIANT
    LaunchUsesOwnConfig
