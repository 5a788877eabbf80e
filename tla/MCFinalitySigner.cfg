SPECIFICATION Spec
CONSTANTS
    v1 = v1
    v2 = v2
    v3 = v3
    v4 = v4
    ModernStart = 1
    EpochBlocks = 2
    CheckpointInterval = 1
    CheckpointDepth = 1
    MaxEpochExtension = 4
    MinFinalitySet = 1
    MaxFinalitySet = 4
    Block <- MCBlock
    SetHash <- MCSetHash
    NullHash = NullHash
    MaxEpoch = 8
    DirectorySyncs = TRUE
    ABSENT = ABSENT
    INVALID = INVALID
    Views <- MCViews
    Self = v1
    SigningDepth = 1
    PinnedRecoveries <- MCPinned
    OperatorRecoveries <- MCOperator
    OperatorDepth = 2
    NoRecovery = NoRecovery
    Damages = {INVALID}
INVARIANTS
    TypeOK
    NoEquivocation
    VoteIsDurable
    LockRespected
PROPERTY VoterSpec
