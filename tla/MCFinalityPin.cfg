SPECIFICATION FairSpec
CONSTANTS
    Blocks <- MCBlocks
    Certificate <- MCCertificate
    NoBlock = NoBlock
    ReorgHorizon = 3
    PinWriteMayFail = TRUE
    INVALID = INVALID
INVARIANTS
    TypeOK
    PinNeverForgotten
PROPERTIES
    FinalizedNeverDisconnected
    PinsFormChain
    PinEnforced
CHECK_DEADLOCK FALSE
