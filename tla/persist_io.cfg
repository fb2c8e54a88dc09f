CONSTANTS
    w1 = w1
    w2 = w2
    rd = rd
    i1 = i1
    i2 = i2
    None = None
    Hole = Hole
    Torn = Torn
    Proc = {w1, rd}
    Readers = {rd}
    Creators = {w1}
    Waiters = {}
    Inode = {i1, i2}
    MaxTx = 2
    NewRoot = TRUE
    Faults = {"io"}
SPECIFICATION Spec
INVARIANTS SilentWriteIsComplete
