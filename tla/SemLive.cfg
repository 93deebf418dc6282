SPECIFICATION FairSpec
CONSTANTS
    Proc = {p1, p2}
    NoProc = NoProc
    semmnu = 1
    semmni = 1
    semmns = 1
    semmsl = 1
    mapslots = 1
    semvmx = 2
    semaem = 1
    semume = 1
    ushort = 65536
    MaxSeq = 1
    MaxStops = 1
    PageFaults = FALSE
    SlotReuse = FALSE
    OpLists <- OneSemLists
    SetVals <- ZeroOne
PROPERTIES RemovedSetReleases
