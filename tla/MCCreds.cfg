CONSTANTS
    Uids = {0, 1, 2}
    Gids = {0, 1}
    NOID <- MCNOID
    FakeUid = 0
    FakeGid = 0
    RealUid = 0
    RealGid = 0
    MaxGroups = 1
SPECIFICATION Spec
INVARIANTS TypeOK FsuidHeld DropIsComplete RealIdsNeverChange
PROPERTIES DropIrreversible UnprivilegedGainsNothing RefusedChangesNothing
