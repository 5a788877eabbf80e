SPECIFICATION Spec
CONSTANTS
    a = a
    b = b
    c = c
    ModernStart = 2
    EpochBlocks = 2
    CheckpointInterval = 1
    CheckpointDepth = 1
    MaxEpochExtension = 2
    MinFinalitySet = 2
    MaxFinalitySet = 3
    Registries <- MCRegistries
    SignerSets <- MCSignerSets
    MaxHeight = 6
    MaxBlocks = 6
INVARIANTS
    TypeOK
    IncrementalMatchesWalk
    HandoverAuthorized
    EpochsBounded
    SetInForceAgrees
CHECK_DEADLOCK FALSE
