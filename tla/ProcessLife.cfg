CONSTANTS
    Limited = {TRUE, FALSE}
    Faults = {"spawn", "read"}
    MaxOutput = 2
    Siblings = TRUE
SPECIFICATION FairSpec
INVARIANTS
    OwnSignalsReachTheChild
    ExitIsTheChilds
    OutputBeforeExit
    TimerFindsProcess
PROPERTY ExitsOnce
CHECK_DEADLOCK FALSE
