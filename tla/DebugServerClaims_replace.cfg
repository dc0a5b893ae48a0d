SPECIFICATION FairSpec
CONSTANTS
    Traces = {"StepIn"}
    MaxInbox = 1
    MayBreak = FALSE
    MayDetach = TRUE
    MayClose = FALSE
    MayEnd = FALSE
PROPERTY LostClientIsReplaced
CHECK_DEADLOCK FALSE
