SPECIFICATION Spec
CONSTANTS
    na = na  nb = nb  nc = nc  v = v
    p1 = p1  p2 = p2  q1 = q1  q2 = q2  r1 = r1  vp = vp
    None = None
    NameSeq <- Names
    Args <- MCArgs
    UpgradeFlags = {{}, {"available"}}
    Virtual = vp
    Universes <- MCUniverses
    MaxCommands = 2
INVARIANTS SolutionSound ChangesetSound
PROPERTIES  SolverProgress
CHECK_DEADLOCK FALSE
