SPECIFICATION Spec
CONSTANTS
    Proc = {p1, p2}
    Buf = {b1, b2}
    Blk = {k1, k2}
    k1 = k1
    k2 = k2
    bsize <- Sizes
    None = None
    bufhwm = 3
    PAGESIZE = 1
    few = 0
    MaxOdd = 1
    Calls <- AllCalls
SYMMETRY Sym
INVARIANTS BuffersAccounted OneBufferPerBlock SleepersWait NoGridlock Coherent
PROPERTY BdwaitWaits
CHECK_DEADLOCK FALSE
