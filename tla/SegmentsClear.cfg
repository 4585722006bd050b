CONSTANTS
    Proc = {p1, p2}
    Obj = {o1, o2}
    SegNumMax = 1
    NoSeg = NoSeg
    NoObj = NoObj
    NoProc = NoProc
    CountMod = 1073741824
    MaxSharedSegments = {1, 2}
    MaxSharedSize = 2
    WillSharedGC = FALSE
    Commands = {"share", "clear", "clear_all", "clean", "config"}
    Persist = {FALSE}
    MaxFailures = 1
SPECIFICATION Spec
SYMMETRY Symmetry
VIEW View
INVARIANTS
    SizeAccounted
    NoSegmentLeft
PROPERTY
    ListInOrder
