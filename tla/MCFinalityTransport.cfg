SPECIFICATION TransportSpec
CONSTANTS
    v1 = v1
    v2 = v2
    Nobody = Nobody
    p1 = p1
    p2 = p2
    Peers <- MCPeers
    ModernStart = 1
    EpochBlocks = 4
    CheckpointInterval = 2
    CheckpointDepth = 1
    MaxEpochExtension = 4
    MinFinalitySet = 1
    MaxFinalitySet = 4
    Order <- MCOrder
    Views <- MCViews
    Messages <- MCMessages
    MaxTracked = 1
    MaxRestarts = 0
    MaxAhead = 1
    MaxEntries = 2
    MaxPeerEntries = 1
    MaxSources = 2
    MaxRetryBatch = 2
    MaxRetryPerPeer = 1
    MaxRetryPerCoordinate = 1
    MaxDeliveries = 4
INVARIANTS
    QuotaExact
    RelayAccepted
PROPERTIES
    NoGenuineVoteLost
    EarlyVoteCounts
