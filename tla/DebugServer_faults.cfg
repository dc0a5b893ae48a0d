SPECIFICATION Spec
CONSTANTS
    Traces = {"StepIn"}
    MaxInbox = 1
    MayBreak = TRUE
    MayDetach = TRUE
    MayClose = TRUE
    MayEnd = TRUE
INVARIANTS TypeOK Handshake InspectionSeesStoppedProgram StartsOnlyFinishedThreads
PROPERTIES ImplementsBreakSession
CHECK_DEADLOCK FALSE
