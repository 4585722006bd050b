CONSTANTS
    Proc = {p1, p2, p3}
    Obj = {o1, o2, o3, o4}
    NoObj = NoObj
    Config = {c1}
    DefaultConfig = c1
    Zeroed = Zeroed
    CountMod = 1073741824
    MaxCrashes = 1
    MaxFailures = 1
SPECIFICATION Spec
SYMMETRY Symmetry
VIEW View
CHECK_DEADLOCK FALSE
INVARIANTS
    TypeOK
    SameSharedInfo
    OneInitializer
    LastOneOutAlone
    NothingLeftBehind
    ConfigLoaded
    AttachInv
