SPECIFICATION MCSpec
CONSTANTS
    Programs <- MCPrograms
    Inputs <- MCInputs
    PipeSize = 2
    BufSize = 3
    Faults = {"start", "input", "kill"}
    c1 = c1
    c2 = c2
    Cmds = {c1, c2}
    Uids = {"root", "user"}
    ShimPaths <- MCShimPaths
    Targets <- MCTargets
    BaseName <- MCBaseName
    MaxStarts = 2
    MaxFileOps = 1
    MaxMishaps = 1
    ShimFaults = {"io", "kill"}
INVARIANTS ReportsHonest  PackedIsCurrent UsermodeStable
PROPERTIES RunEnds
CHECK_DEADLOCK FALSE
