SPECIFICATION Spec
CONSTANTS
    master = master
    topic = topic
    Null = Null
    Branch = {master, topic}
    DefaultBranch = master
    RuleBranches = {topic}
    TagBranch = {topic}
    Conflicts = {}
    MaxOps = 2
    ManyToOne = FALSE
    EmptySources = FALSE
    CommitInterval = 2
    maxMark = 20
    MaxRev = 4
    MaxTotalOps = 4
    MaxCommitMark = 6
    MaxFiles = 2
    MaxEvict = 1
    EvictPhases = {"idle", "prepare", "commit"}
    MaxFinish = 3
    MaxCrash = 0
    CrashKinds = {}
INVARIANTS
    TypeOK NeverFatal ExportExact PointsExact DeletedHistoryKept TagsExact
PROPERTY ImplementsBranchHistory
CHECK_DEADLOCK FALSE
