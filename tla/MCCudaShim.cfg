SPECIFICATION FairSpec
CHECK_DEADLOCK FALSE
CONSTANTS
    Threads = {"t1", "t2", "t3"}
    HostFuns = {"f"}
    Entries = {"e"}
    Dims = {"usable", "zero"}
    Budgets <- MCBudgets
    MaxNest <- MCMaxNest
    MaxModules = 1
INVARIANTS
    CommandsStayWithCaller
    NoStaleConfig
PROPERTIES
    CallsReturn
