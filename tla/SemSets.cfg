SPECIFICATION Spec
CONSTANTS
    Proc = {p1, p2}
    NoProc = NoProc
    semmnu = 2
    semmni = 2
    semmns = 2
    semmsl = 2
    mapslots = 1
    semvmx = 2
    semaem = 2
    semume = 1
    ushort = 65536
    MaxSeq = 1
    MaxStops = 1
    PageFaults = FALSE
    SlotReuse = FALSE
    OpLists <- TwoSemLists
    SetVals <- ZeroOne
SYMMETRY Sym
INVARIANTS
    SemundoExact CountBound NoOrphanSleeper FreeSemsClean SetsDisjoint UndoExclusive UndoEntriesLive
