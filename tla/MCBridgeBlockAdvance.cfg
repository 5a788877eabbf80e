SPECIFICATION Spec
CONSTANTS
    Activation = 2
    WithdrawalStart = 3
    LastApproval = 9
    UndoBlocks = 2
    Deployment = 1
    Checkpoint = 2
    LastForkSlot = 9
    PeriodSlots = 4
    MaxBackfill = 2
    MaxHeaders = 3
    MaxSyncLag = 4
    EpochLength = 2
    MaxPerBlock = 2
    MaxPerEpoch = 2
    Deposits <- MCDeposits
    Blocks <- MCBlocks
    Mempool <- MCMempool
    MaxHeight = 7
INVARIANT ConnectedChainReplays
CHECK_DEADLOCK FALSE
