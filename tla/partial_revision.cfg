SPECIFICATION Spec
CONSTANTS
    master = master
    topic = topic
    Null = Null
    Branch = {master, topic}
    DefaultBranch = master
    RuleBranches = {topic}
    TagBranch = {topic}
    Conflicts = {}
    MaxOps = 2
    ManyToOne = FALSE
    EmptySources = FALSE
    CommitInterval = 2
    maxMark = 20
    MaxRev = 3
    MaxTotalOps = 4
    MaxCommitMark = 6
    MaxFiles = 2
    MaxEvict = 0
    EvictPhases = {"idle", "prepare", "commit"}
    MaxFinish = 0
    MaxCrash = 2
    CrashKinds = {"interrupt","kill"}
INVARIANT LiveTipsExact
CHECK_DEADLOCK FALSE
