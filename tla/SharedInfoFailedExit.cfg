CONSTANTS
    Proc = {p1, p2}
    Obj = {o1, o2, o3}
    NoObj = NoObj
    Config = {c1}
    DefaultConfig = c1
    Zeroed = Zeroed
    CountMod = 1073741824
    MaxCrashes = 0
    MaxFailures = 1
SPECIFICATION FairSpec
CHECK_DEADLOCK FALSE
PROPERTY UnlinkWaitAlwaysEnds
