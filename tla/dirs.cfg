CONSTANTS
    a1 = a1
    a2 = a2
    b1 = b1
    root = root
    top = top
    sub = sub
    None = None
    ListHead = ListHead
    Poison = Poison
    Gone = Gone
    Pkg <- MCPkg
    NameOf <- MCNameOf
    NameRank <- MCNameRank
    Order <- MCOrder
    Priority <- MCPriority
    Origin <- MCOrigin
    Dir <- MCDir
    Root = root
    Parent <- MCParent
    Above <- MCAbove
    DirsOf <- MCDirsOf
    RootFiles = {a1, a2, b1}
    Acl <- MCAcl
    UserAcl = {"user"}
    Occupied = {}
    RefRange = 65536
    Options = {"fixperms", "reinstall"}
    Faults = {"unpack", "chmod", "crash"}
SPECIFICATION FairSpec
INVARIANTS InstancesSound 
PROPERTIES RmdirOnlyUnused UserModeKept WalkEnds
