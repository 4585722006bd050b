CONSTANTS
    Proc = {p1, p2}
    Obj = {o1, o2}
    SegNumMax = 1
    NoSeg = NoSeg
    NoObj = NoObj
    NoProc = NoProc
    CountMod = 1073741824
    MaxSharedSegments = {2}
    MaxSharedSize = 2
    WillSharedGC = TRUE
    Commands = {"share", "fetch"}
    Persist = {TRUE, FALSE}
    MaxFailures = 0
SPECIFICATION Spec
SYMMETRY Symmetry
VIEW View
INVARIANTS
    SharedListIntact
    UsingExact
    UpToDateIsCurrent
    CopiesAreMapped
