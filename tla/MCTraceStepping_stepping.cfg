SPECIFICATION Spec
CONSTANTS
    VMs = {A, B}
    NoVM = NoVM
    Code <- MCCode
    BreakPoints = {2}
    MaxDepth = 4
    MaxNesting = 5
INVARIANTS
    TypeOK
    NestingCountsCalls
PROPERTIES
    StopsWhereCommanded
    MissesNoStop
CONSTRAINT TornIsShort
SYMMETRY Symmetry
CHECK_DEADLOCK FALSE
