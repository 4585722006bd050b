CONSTANTS
    Var <- MCVar
    Depth <- MCDepth
    MaxDepth = 2
    HeaderSize = 64
    SignatureSize = 16
    WordSize = 8
    Alignment = 32
    SizeMax = SizeMax
SPECIFICATION Spec
INVARIANTS
    WithinSegment
    AreasDisjoint
    DataAligned
    FetchedIsShared
