SPECIFICATION Spec
CONSTANTS
    Repo = {a, b, c, d, e}
    maxSimultaneousProcesses = 3
    MaxCrash = 2
SYMMETRY Permutation
INVARIANTS
    TypeOK ProcessLimit CacheIsExact AbortsOnlyAfterCrash LeastRecentlyUsedGoes
CHECK_DEADLOCK FALSE
