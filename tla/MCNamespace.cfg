CONSTANTS
    Procs = {1}
    Privileged = {1}
    Dirs <- MCDirs
    Link <- MCLink
    GivenRoot <- MCRoot
    Startup <- MCStartup
    TracerCwd <- MCTracerCwd
    Given <- MCGiven
    Sources <- MCSources
    Probes <- MCProbes
    MAX_SYMLINK_HOPS = 3
    MAX_BINDINGS = 2
    PATH_LEN = 4
SPECIFICATION Spec
INVARIANTS TypeOK TableIsMounts ReachesIntended LastLeftAlone RoundTrip
PROPERTY WalkAdvances
