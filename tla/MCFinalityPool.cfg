SPECIFICATION FairSpec
CONSTANTS
    v1 = v1
    v2 = v2
    v3 = v3
    Nobody = Nobody
    ModernStart = 1
    EpochBlocks = 2
    CheckpointInterval = 1
    CheckpointDepth = 1
    MaxEpochExtension = 4
    MinFinalitySet = 1
    MaxFinalitySet = 4
    Order <- MCOrder
    Views <- MCViews
    Messages <- MCMessages
    MaxTracked = 2
    MaxRestarts = 1
INVARIANTS
    TypeOK
    BestVerifies
PROPERTIES
    VerifiedWorkKept
    NewestCertified
