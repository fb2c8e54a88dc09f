CONSTANTS
    a1 = a1
    a2 = a2
    b1 = b1
    shared = shared
    conf = conf
    over = over
    lib = lib
    usrlib = usrlib
    merged = merged
    None = None
    NoEntry = NoEntry
    OverlayEntry = OverlayEntry
    Absent = Absent
    NoDigest = NoDigest
    Pkg <- MergedPkg
    NameOf <- MergedName
    Path <- MergedPath
    Location <- MergedLocation
    Loc <- MergedLoc
    Protected = {conf}
    Digest = {"c1", "c2"}
    UserContent = {"user"}
    Ships <- MergedShips
    Order <- MergedOrder
    Replaces = {}
    Priority <- MergedPriority
    Origin <- MergedOrigin
    OverlayFiles = {}
    FlagSets = {{}, {"purge"}}
    UserWrites = {"user"}
    Faults = {"extract","refuse","control","unpack","script","unlink","write","crash"}
SPECIFICATION Spec
CONSTRAINT OneFault
INVARIANTS NoDanglingOwner SuccessIsComplete
PROPERTIES PurgeSparesOthers ProtectedEditsSurvive
