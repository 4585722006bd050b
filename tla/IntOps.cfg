CONSTANTS
    W = 8
    Kind = "small"
    SingleBits = 9
    DoubleBits = 10
    OverflowWraps = TRUE
    Trap = Trap
SPECIFICATION Spec
INVARIANTS
    SaturatingSums
    SaturatingProducts
    RoundedQuotients
    RemaindersExact
    ConversionsSaturate
