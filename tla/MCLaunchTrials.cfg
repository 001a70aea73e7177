SPECIFICATION Spec

CONSTANTS
    p1 = p1
    p2 = p2
    a1 = a1
    a2 = a2
    b1 = b1
    c1 = c1
    c2 = c2
    k1 = k1
    k2 = k2
    k3 = k3
    Launchers <- BothPhases
    Trials <- BothTrials
    OwnerOf <- BothOwners
    TaskOf <- BothTasks
    Claw <- BothClaw
    BenchOf <- BothBenches
    BenchCap <- Cap
    Workers = 2
    TaskWindow = 1
    RetryRounds = 0
    MaxLaunches = 1
    MaxSignals = 0
    MayRaise = {}

INVARIANT TypeOK
INVARIANT OneClaw
INVARIANT NoSlotBlocked
INVARIANT NoneDropped

\* Every launcher ends.
CHECK_DEADLOCK FALSE
