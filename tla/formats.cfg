SPECIFICATION Spec
CONSTANTS
    Parts = {"extract", "stream", "version", "adb", "index", "audit"}
    Archives <- MCArchives
    Actions = {"verify", "identity", "generate"}
    Users = {"install", "meta", "verify", "index"}
    Sources <- MCSources
    BufSize = 4
    Sizes = {1, 3, 5}
    MaxCalls = 3
    NumberBits = 8
    Blob8Max = 3
    Blob16Max = 5
    IntMax = 9
    Trees <- MCTrees
    MaxWrites = 3
    Files <- MCFiles
    ArgLists <- MCArgLists
    Contents <- MCContents
    Modes = {"fresh", "update", "index", "merge", "filter"}
    MaxTime = 3
    MaxRebuilds = 1
    DirPaths <- MCDirPaths
    FilePaths <- MCFilePaths
    PkgDirs <- MCPkgDirs
    PkgFiles <- MCPkgFiles
    PkgOf <- MCPkgOf
    NewNames = {"conf.apk-new"}
    RuleLines <- MCRuleLines
    AuditOpts <- MCAuditOpts
    AuditArgs <- MCAuditArgs
    MaxEdits = 2
INVARIANTS StreamExact  VersionsSound AdbFaithful 
PROPERTIES Resumes IndexCurrent
CHECK_DEADLOCK FALSE
