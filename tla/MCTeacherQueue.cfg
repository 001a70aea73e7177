SPECIFICATION Spec

CONSTANTS
    t1 = t1
    t2 = t2
    Tasks <- TwoTasks
    BatchTasks = 1
    MaxRuns = 2
    MaxFailures = 1
    MaxCrashes = 1
    MaxFaults = 1

SYMMETRY Symmetry

INVARIANT TypeOK
INVARIANT OnePlace
INVARIANT NothingLost
INVARIANT SuccessIsComplete

\* The last invocation ends.
CHECK_DEADLOCK FALSE
