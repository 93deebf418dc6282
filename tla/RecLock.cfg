SPECIFICATION FairSpec
CONSTANTS
    Proc = {p1, p2}
    Remote = {p2}
    File = {f}
    maxend = 2
    KmemFails = FALSE
    Requests <- AllLocks
INVARIANTS TypeOK
PROPERTIES ImplementsLockTable WaiterReturns
