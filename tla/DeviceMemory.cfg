SPECIFICATION Spec
CONSTANTS
    AddrLimit = 10
    HostLimit = 8
    FirstAddr = 2
    Align = 2
    AllocSizes = {2, 3}
    CopySizes = {1, 2}
    Values = {1}
    MaxAllocs = 2
INVARIANTS
    TypeOK
    CopiesStayInside
    InsideIsAccepted
PROPERTIES
    BehavesAsHeap
