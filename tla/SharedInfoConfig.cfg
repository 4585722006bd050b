CONSTANTS
    Proc = {p1, p2}
    Obj = {o1, o2, o3}
    NoObj = NoObj
    Config = {c1, c2}
    DefaultConfig = c1
    Zeroed = Zeroed
    CountMod = 1073741824
    MaxCrashes = 0
    MaxFailures = 0
SPECIFICATION Spec
INVARIANT SavedConfigIsRead
