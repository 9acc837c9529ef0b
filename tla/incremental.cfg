SPECIFICATION Spec
CONSTANTS
    NRepo = 3
    MaxRev = 2
    INT_MAX = 9
    ResumeFroms = {0, 2}
    MaxLines = 2
    Log <- SmallLogs
    MaxMark = 2
    MaxRuns = 2
INVARIANTS TypeOK NothingLost KeptIsPast FailsAgain
PROPERTIES CutoffDecreases Terminates
CHECK_DEADLOCK FALSE
