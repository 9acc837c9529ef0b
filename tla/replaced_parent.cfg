SPECIFICATION Spec
CONSTANTS
    PathOrder <- StandardPaths
    FilePath <- StandardFiles
    DirPath <- StandardDirs
    Rules <- StandardRules
    Repositories <- StandardRepositories
    Imports <- StandardImports
    MaxRev = 3
    MaxEdits = 3
    MaxTotalEdits = 3
INVARIANT GoneIsGone
CHECK_DEADLOCK FALSE
