CONSTANTS
    Proc = {p1, p2, p3}
    Seg = {s1, s2}
    InfoLock = InfoLock
    NoLock = NoLock
    NoProc = NoProc
    MaxLevel = 2
    DetachLocked = FALSE
SPECIFICATION Spec
SYMMETRY Symmetry
INVARIANTS
    RegionsExclusive
    LevelIsLock
    SyncExclusive
