SPECIFICATION FairSpec

CONSTANTS
    Modes = {"host", "docker"}
    MaxStarts = 2
    MaxExecs = 2
    MaxLines = 1
    MaxProcs = 3

INVARIANT TypeOK
INVARIANT AnswerComplete
INVARIANT NextShellIdle
 
PROPERTY ExecReturns

\* Nobody need call exec again.
CHECK_DEADLOCK FALSE
