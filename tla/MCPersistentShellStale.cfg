SPECIFICATION Spec

CONSTANTS
    Modes = {"docker"}
    MaxStarts = 2
    MaxExecs = 2
    MaxLines = 1
    MaxProcs = 3

INVARIANT OutputIsOwn

\* Nobody need call exec again.
CHECK_DEADLOCK FALSE
