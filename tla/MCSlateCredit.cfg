SPECIFICATION Spec
CONSTANTS
    N = 6
    Top = 2
    Reads <- FourReads
    NoSkill = {5}
    Shrinkage = 1
    Clip <- Third
    Coef <- Half
CHECK_DEADLOCK FALSE
INVARIANTS
    TypeOK
    OnlyRegretMovesGroup
    BetterStratumGainsMore
    VerifierDecides
