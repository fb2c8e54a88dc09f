SPECIFICATION Spec
CONSTANTS
    p1 = p1  p2 = p2
    Pkgs = {p1, p2}
    Index = Index
    Offers <- MCSwitch
    Locals = {p2}
    Permanent = FALSE
    MaxAge = 1
    Pauses = {2}
    MaxLag = 1
    MaxTime = 3
    MaxCommands = 3
    Faults = {"net", "disk", "crash"}
    Verbs = {"update", "add", "upgrade", "sync", "purge"}
INVARIANTS CacheIntact  UpdateIsFresh
PROPERTIES CleanKeepsInstalled
CHECK_DEADLOCK FALSE
