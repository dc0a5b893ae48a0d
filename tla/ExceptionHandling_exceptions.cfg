SPECIFICATION FairSpec
CONSTANTS
    VMs = {A, B}
    NoVM = NoVM
    MaxDepth = 6
    MaxTraps = 1
CONSTRAINT OnCourse
INVARIANTS
    TypeOK
    StacksAgree
    ControlAgrees
    FailedMachinesHaveNoCalls
    HostFindsNothingLeft
    CodeRunsInItsCall
    UnwindingIsChecked
PROPERTIES
    ImplementsThrowSemantics
    UnwindingEnds
