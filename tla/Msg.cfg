SPECIFICATION Spec
CONSTANTS
    msgmni = 1
    msgmnb = 4
    msgtql = 2
    msgssz = 2
    msgseg = 3
    mapslots = 2
    MsgTypes = {1, 2}
    MsgSizes = {0, 1, 3}
    Selects <- SomeSelects
    Limits = {2, 4}
    Superuser = FALSE
    Proc = {p1, p2}
    MaxSeq = 1
    Calls <- AllCalls
SYMMETRY Sym
INVARIANTS TypeOK CountsAgree ResourcesKept LockExclusive NoLostWakeup RemovalReleases
PROPERTY ImplementsMsgQueue
