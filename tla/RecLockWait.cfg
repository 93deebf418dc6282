SPECIFICATION Spec
CONSTANTS
    Proc = {p1, p2, p3}
    Remote = {}
    File = {f}
    maxend = 1
    KmemFails = TRUE
    Requests <- AllWaits
SYMMETRY Sym
INVARIANTS ListsOrdered NoClash FoundStands WaitersEnd
