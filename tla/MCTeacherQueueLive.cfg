SPECIFICATION FairSpec

CONSTANTS
    t1 = t1
    t2 = t2
    Tasks <- OneTask
    BatchTasks = 1
    MaxRuns = 3
    MaxFailures = 1
    MaxCrashes = 1
    MaxFaults = 2

PROPERTY PipelineEnds

\* The last invocation ends.
CHECK_DEADLOCK FALSE
