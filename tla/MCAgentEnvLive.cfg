SPECIFICATION FairSpec

CONSTANTS
    s1 = s1
    s2 = s2
    t1 = t1
    Samples <- Siblings
    Tasks <- OneTask
    TaskOf <- SameTask
    ActiveCap = 1
    SetupCap = 1
    MaxAttempts = 1
    MaxTurns = 1
    MaxCalls = 1
    Shadow <- Single
    MayTimeout <- Other
    MayCancel <- Single
    RmMayFail <- Other

INVARIANT TrainedIsGraded
PROPERTY KeepsContract
PROPERTY StatusSettled
PROPERTY AllReturn
PROPERTY PermitsReturn

\* Every rollout of the batch ends: the end is not a deadlock of the code.
CHECK_DEADLOCK FALSE
