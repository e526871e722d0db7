CONSTANTS
    Files = {1, 2, 3}
    Owners = {1, 2}
    NoFile = 0
    NoOwner = 0
    Hash <- MCHash
    FirstCap = 2
SPECIFICATION Spec
INVARIANTS TypeOK FindTerminates EveryEntryFound CountExact
PROPERTY IsAMap
