CONSTANTS
    Proc = {p1, p2}
    Obj = {o1}
    SegNumMax = 1
    NoSeg = NoSeg
    NoObj = NoObj
    NoProc = NoProc
    CountMod = 1073741824
    MaxSharedSegments = {1}
    MaxSharedSize = 1
    WillSharedGC = TRUE
    Commands = {"share", "fetch"}
    Persist = {FALSE}
    MaxFailures = 0
SPECIFICATION Spec
SYMMETRY Symmetry
VIEW View
INVARIANTS
    OnlyUnusedCollected
