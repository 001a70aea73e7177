SPECIFICATION Spec

CONSTANTS
    t1 = t1
    t2 = t2
    Tasks <- OneTask
    BatchTasks = 1
    MaxRuns = 1
    MaxFailures = 0
    MaxCrashes = 0
    MaxFaults = 0

PROPERTY WorkerDrains

\* The last invocation ends.
CHECK_DEADLOCK FALSE
