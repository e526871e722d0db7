CONSTANTS
    RootPid = 1
    Pids = {1, 2}
    NoPid = 0
    Views = {v0, v1}
    InitView = v0
    NoView = none
    SeccompModes = {TRUE, FALSE}
    Threads = FALSE
    TableCap = 2
SPECIFICATION Spec
INVARIANT ChildIsCopy
CHECK_DEADLOCK FALSE
