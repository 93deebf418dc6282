SPECIFICATION Spec
CONSTANTS
    Proc = {p1, p2}
    Msg = {m1, m2, m3}
    None = None
    Kinds <- SomeKinds
    Calls <- SomeCalls
    Marks <- SomeMarks
SYMMETRY Sym
INVARIANTS QueueSound NoStalledDriver SleepersWait PriFlag
PROPERTY ImplementsBandQueue
CHECK_DEADLOCK FALSE
