SPECIFICATION Spec

CONSTANTS
    s1 = s1
    s2 = s2
    t1 = t1
    Samples <- Siblings
    Tasks <- OneTask
    TaskOf <- SameTask
    ActiveCap = 2
    SetupCap = 1
    MaxAttempts = 2
    MaxTurns = 2
    MaxCalls = 1
    Shadow <- Single
    MayTimeout = {}
    MayCancel = {}
    RmMayFail = {}

INVARIANT TypeOK
INVARIANT AtMostOneGrade
INVARIANT InfraNeverTrains
INVARIANT PoisonIsReal
INVARIANT OneAttemptLeavesNothing

\* Every rollout of the batch ends: the end is not a deadlock of the code.
CHECK_DEADLOCK FALSE
