SPECIFICATION Spec
CONSTANTS
    Proc = {p1, p2}
    first = 1
    last = 7
    mapslots = 2
    npgpt = 2
    Sizes = {1, 2, 3}
SYMMETRY Sym
INVARIANTS MapWellFormed NoSleeperWithFit
PROPERTIES LostOnlyByOverflow ImplementsFreeMap
