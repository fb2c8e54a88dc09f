CONSTANTS
    w1 = w1
    w2 = w2
    rd = rd
    i1 = i1
    i2 = i2
    None = None
    Hole = Hole
    Torn = Torn
    Proc = {w1, w2}
    Readers = {}
    Creators = {}
    Waiters = {w1, w2}
    Inode = {i1, i2}
    MaxTx = 3
    NewRoot = FALSE
    Faults = {"crash", "stall"}
SPECIFICATION FairSpec
INVARIANTS WritersExclude DatabaseIntact
PROPERTIES ImplementsDbLog ArmedWaitEnds
