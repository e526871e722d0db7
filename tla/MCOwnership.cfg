CONSTANTS
    Procs = {1, 2}
    Dropped = {2}
    Paths = {1, 2}
    Inodes = {i1, i2}
    NoInode = none
    Fake = 0
    Guest = 1000
    Me = 10
    Other = 20
    NOID <- MCNOID
    Requests <- MCRequests
    Initial <- MCInitial
    Calls = {"chown", "create", "unlink", "rename"}
    MaxCalls = 5
CHECK_DEADLOCK FALSE
SPECIFICATION Spec
INVARIANTS TypeOK ReportedIsPromised
SYMMETRY InodeSymmetry
