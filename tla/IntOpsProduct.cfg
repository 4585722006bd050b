CONSTANTS
    W = 8
    Kind = "int64"
    SingleBits = 9
    DoubleBits = 10
    OverflowWraps = TRUE
    Trap = Trap
SPECIFICATION Spec
INVARIANT ProductExact
