SPECIFICATION Spec

CONSTANTS
    s1 = s1
    s2 = s2
    t1 = t1
    Samples <- Single
    Tasks <- OneTask
    TaskOf <- SingleTask
    ActiveCap = 1
    SetupCap = 1
    MaxAttempts = 2
    MaxTurns = 1
    MaxCalls = 1
    Shadow <- Single
    MayTimeout = {}
    MayCancel = {}
    RmMayFail = {}

INVARIANT NothingLeft

\* Every rollout of the batch ends: the end is not a deadlock of the code.
CHECK_DEADLOCK FALSE
