SPECIFICATION Spec
CHECK_DEADLOCK FALSE
CONSTANTS
    WIDTH = 6
    Mapped <- MCMapped
    ALIGN = 2
    SCRATCH_MARGIN = 4
    Strings <- MCStrings
    Size <- MCSize
    Garbage = "G"
    Files <- MCFiles
    Parent <- MCParent
    Above <- MCAbove
    Folders = {"Hd", "Hs", "top"}
    Mine = {"Hd", "Hf", "Hs", "Hg", "top"}
    Translate <- MCTranslate
    Relative = {"g"}
    Empty = "e"
    SUN_PATH = 2
    SUN_SIZE = 3
    PATH_LEN = 3
    Home <- MCHome
    Heap <- MCHeap
    Pointers <- MCPointers
    SPs <- MCSPs
    Buffers <- MCBuffers
    Cwd = "d"
    Cwd_host = "Hd"
    Arch = "aarch64"
    Modes <- MCModes
    Absent = {"Hg"}
    RedZone = 2
    FrameSize = 6
    fake_root = TRUE
    MaxCalls = 3
INVARIANT
    CwdShown
