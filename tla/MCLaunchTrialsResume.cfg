SPECIFICATION FairSpec

CONSTANTS
    p1 = p1
    p2 = p2
    a1 = a1
    a2 = a2
    b1 = b1
    c1 = c1
    c2 = c2
    k1 = k1
    k2 = k2
    k3 = k3
    Launchers <- OnePhase
    Trials <- OneTrials
    OwnerOf <- OneOwner
    TaskOf <- OneTasks
    Claw = {}
    BenchOf <- OneBench
    BenchCap <- OneCap
    Workers = 2
    TaskWindow = 1
    RetryRounds = 1
    MaxLaunches = 2
    MaxSignals = 1
    MayRaise = {b1}

INVARIANT OkIsBacked
PROPERTY FinalNeverRerun
PROPERTY LauncherEnds

\* Every launcher ends.
CHECK_DEADLOCK FALSE
