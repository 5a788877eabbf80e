SPECIFICATION FairSpec
CONSTANTS
    Blocks <- SmallBlocks
    Certificate <- SmallCertificate
    NoBlock = NoBlock
    ReorgHorizon = 4
    PinWriteMayFail = FALSE
    INVALID = INVALID
PROPERTY PendingPinArrives
CHECK_DEADLOCK FALSE
