SPECIFICATION Spec
CONSTANTS
    a = a
    b = b
    c = c
    d = d
    ModernStart = 1
    EpochBlocks = 8
    CheckpointInterval = 1
    CheckpointDepth = 1
    MaxEpochExtension = 8
    MinFinalitySet = 2
    MaxFinalitySet = 4
    Validators = {a, b, c, d}
    Faulty = {d}
    Blocks = {1, 2, 3, 4, 5, 6, 7, 8}
    Ancestors <- ForkAncestors
    HeightOf <- ForkHeight
    SetOf <- ForkSet
    SuccessorOf <- ForkSuccessor
    NoBlock = NoBlock
SYMMETRY Alike
INVARIANTS
    TypeOK
    Agreement
    ConflictsPassed
CHECK_DEADLOCK FALSE
