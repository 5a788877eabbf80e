SPECIFICATION Spec
CONSTANTS
    a = a
    b = b
    c = c
    d = d
    ModernStart = 1
    EpochBlocks = 5
    CheckpointInterval = 1
    CheckpointDepth = 1
    MaxEpochExtension = 8
    MinFinalitySet = 2
    MaxFinalitySet = 4
    Validators = {a, b, c, d}
    Faulty = {}
    Blocks = {1, 2, 3, 4, 5, 6, 7, 8, 9}
    Ancestors <- HandoverAncestors
    HeightOf <- HandoverHeight
    SetOf <- HandoverSet
    SuccessorOf <- HandoverSuccessor
    NoBlock = NoBlock
INVARIANT AgreementAcrossSets
CHECK_DEADLOCK FALSE
