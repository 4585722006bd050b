CONSTANTS
    p1 = p1
    p2 = p2
    p3 = p3
    Proc = {p1, p2, p3}
    Len = 2
    Work <- MixedWork
    MaxOps = 2
    Options <- AgreedOptions
    Float = FALSE
    StartValue = 1
    NaN = NaN
    NegZero = NegZero
    NoProc = NoProc
SPECIFICATION FairSpec
INVARIANTS WholeVariable
PROPERTIES
    UpdatesAtomic
    OpsEnd
