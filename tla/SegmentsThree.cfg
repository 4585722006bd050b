CONSTANTS
    Proc = {p1, p2, p3}
    Obj = {o1}
    SegNumMax = 1
    NoSeg = NoSeg
    NoObj = NoObj
    NoProc = NoProc
    CountMod = 1073741824
    MaxSharedSegments = {0, 1}
    MaxSharedSize = 1
    WillSharedGC = TRUE
    Commands = {"share", "fetch_recent", "clear_all", "config", "other"}
    Persist = {FALSE}
    MaxFailures = 0
SPECIFICATION Spec
SYMMETRY Symmetry
VIEW View
INVARIANTS
    TrackedIsPinned
    TrackingExact
    LockReturned
