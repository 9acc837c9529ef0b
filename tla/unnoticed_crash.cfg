SPECIFICATION Spec
CONSTANTS
    Repo = {a, b, c}
    maxSimultaneousProcesses = 2
    MaxCrash = 1
SYMMETRY Permutation
INVARIANT CrashIsNoticed
CHECK_DEADLOCK FALSE
