CONSTANTS
    Runs = {1, 2}
    Threads = {t1, t2}
    Engines = {"ptrace", "envonly"}
    HostIgnores = {TRUE, FALSE}
    Statuses <- MCStatuses
    None = none
SPECIFICATION Spec
SYMMETRY ThreadSymmetry
INVARIANTS TypeOK ExitValueIsGuests OthersNotReaped PipesPrivate EofWhenGone
CHECK_DEADLOCK FALSE
