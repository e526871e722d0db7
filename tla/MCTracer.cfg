CONSTANTS
    RootPid = 1
    Pids = {1, 2}
    NoPid = 0
    Views = {v0, v1}
    InitView = v0
    NoView = none
    SeccompModes = {TRUE, FALSE}
    Threads = TRUE
    TableCap = 2
SPECIFICATION FairSpec
INVARIANTS TypeOK EntryExitPaired CopyIsFaithful FreshExact NoForgottenStop SurvivorsNeverRan
CHECK_DEADLOCK FALSE
PROPERTY RootEndsRun
