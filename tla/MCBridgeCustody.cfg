SPECIFICATION Spec
CONSTANTS
    EpochBlocks = 2
    MaxEpochExtension = 2
    CheckpointInterval = 2
    CheckpointDepth = 0
    BridgeActivation = 1
    WithdrawalStart = 3
    MinEpochDuration = 1
    MaxEpochLag = 2
    MaxCertificateAge = 1
    MinDepositExitWindow = 1
    BootstrapDeadline = 1
    Amounts = {1}
    strong = strong
    weak = weak
    ValidatorSets = {strong, weak}
    Qualified = {strong}
    MinForkHeight = 2
    MaxCertificates = 3
    MaxHeight = 5
    MaxTime = 3
    MaxDeposits = 1
    MaxWithdrawals = 1
INVARIANTS
    CustodyBalanced
    VerifierFollowsLineage
    AcceptedBurnsReleasable
PROPERTY AcceptedBurnReleased
CHECK_DEADLOCK FALSE
