CONSTANTS
    p1 = p1
    p2 = p2
    p3 = p3
    Proc = {p1, p2}
    Len = 1
    Work <- FloatWork
    MaxOps = 1
    Options <- AtomicOptions
    Float = TRUE
    StartValue = 0
    NaN = NaN
    NegZero = NegZero
    NoProc = NoProc
SPECIFICATION FairSpec
PROPERTY UpdatesAtomic
