SPECIFICATION Spec
CONSTANTS
    PathOrder <- StandardPaths
    FilePath <- StandardFiles
    DirPath <- StandardDirs
    Rules <- StandardRules
    Repositories <- StandardRepositories
    Imports <- StandardImports
    MaxRev = 3
    MaxEdits = 3
    MaxTotalEdits = 3
INVARIANTS
    TypeOK TreeExact PointsExact FailureExplained AsksProperly
PROPERTY OthersUntouched
CHECK_DEADLOCK FALSE
