SPECIFICATION RelaySpec
CONSTANTS
    v1 = v1
    v2 = v2
    p1 = p1
    p2 = p2
    NoTip = NoTip
    RelayPeers <- MCPeers
    OwnVotes <- MCOwnVotes
    ModernStart = 1
    EpochBlocks = 4
    CheckpointInterval = 2
    CheckpointDepth = 1
    MaxEpochExtension = 4
    MinFinalitySet = 1
    MaxFinalitySet = 4
    Order <- MCOrder
    Views <- MCViews
    Messages <- MCMessages
    MaxTracked = 2
    MaxRestarts = 0
    MaxBatch = 2
    MaxReconnects = 1
PROPERTIES
    ReplayIsCurrent
    VotesReplayed
