SPECIFICATION Spec
CONSTANTS
    Names <- MCNames
    Relative = {"./sh", "./bx", "./s1"}
    Absolute <- MCAbsolute
    Bound <- MCBound
    Kind <- MCKind
    FirstFiles <- MCFiles
    Upgrades <- MCUpgrades
    Argvs <- MCArgvs
    Bytes <- MCBytes
    MAX_EXEC_ARGS = 2
    MAX_SHEBANG_DEPTH = 3
    MAX_CACHE = 1
    KERNEL_DEPTH = 3
INVARIANTS
    TypeOK
    RunsAsInRoot
    ExeShown
    BlobFits
