CONSTANTS
    W = 8
    Kind = "int64"
    SingleBits = 5
    DoubleBits = 6
    OverflowWraps = TRUE
    Trap = Trap
SPECIFICATION Spec
INVARIANT ConversionsSaturate
