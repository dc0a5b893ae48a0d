SPECIFICATION Spec
CONSTANTS
    VMs = {A}
    NoVM = NoVM
    Code <- MCCode
    BreakPoints = {2}
    MaxDepth = 2
    MaxNesting = 2
INVARIANT TraceBreaksAreMarked
CHECK_DEADLOCK FALSE
