SPECIFICATION FairSpec
CONSTANTS
    Traces = {"StepIn"}
    MaxInbox = 1
    MayBreak = TRUE
    MayDetach = FALSE
    MayClose = FALSE
    MayEnd = FALSE
PROPERTIES BreakIsReported ReleaseIsHonoured
