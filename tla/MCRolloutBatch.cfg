SPECIFICATION FairSpec
CONSTANTS
    Rows <- TwoTaskRows
    N = 2
    BatchSize = 2
    OverSampling = 3
    Extra = 1
    TransferSize = 1
    MinDelta = 1
    MaxDropped = 1
    MaxRejects = 1
    Configs <- AllSettings
    Evals = {e1}
    MaxBad = 2
    MaxFaults = 1
CHECK_DEADLOCK FALSE
INVARIANTS
    TypeOK
    SlotPerGroup
    NeverWaitsOnNothing
    NoGroupTwice
    PartitionWhole
    ArmsAgree
    LeftoversUnused
PROPERTIES
    KeepsGate
    EverythingEnds
