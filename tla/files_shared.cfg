CONSTANTS
    a1 = a1
    a2 = a2
    b1 = b1
    shared = shared
    conf = conf
    over = over
    lib = lib
    usrlib = usrlib
    merged = merged
    None = None
    NoEntry = NoEntry
    OverlayEntry = OverlayEntry
    Absent = Absent
    NoDigest = NoDigest
    Pkg <- SharedPkg
    NameOf <- SharedName
    Path <- SharedPath
    Location <- SharedPath
    Loc <- SharedLoc
    Protected = {conf}
    Digest = {"c1", "c2", "cb"}
    UserContent = {"user"}
    Ships <- SharedShips
    Order <- SharedOrder
    Replaces <- SharedReplaces
    Priority <- SharedPriority
    Origin <- SharedOrigin
    OverlayFiles = {over}
    FlagSets = {{}, {"force_overwrite"}, {"clean_protected"}}
    UserWrites = {"user"}
    Faults = {}
SPECIFICATION Spec
INVARIANTS UnauditedOwned FileCountExact
