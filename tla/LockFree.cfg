CONSTANTS
    Proc = {p1, p2, p3}
    CountMod = 4
    Sizes = {1, 3}
    Limits = {4, 7}
    Memory = 7
    SizeMod = 8
SPECIFICATION Spec
INVARIANTS
    WordExact
PROPERTIES
    AtomicCalls
    SomeCallEnds
