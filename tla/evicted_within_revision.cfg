SPECIFICATION Spec
CONSTANTS
    master = master
    topic = topic
    Null = Null
    Branch = {master, topic}
    DefaultBranch = master
    RuleBranches = {}
    TagBranch = {topic}
    Conflicts = {}
    MaxOps = 2
    ManyToOne = FALSE
    EmptySources = FALSE
    CommitInterval = 2
    maxMark = 20
    MaxRev = 3
    MaxTotalOps = 4
    MaxCommitMark = 6
    MaxFiles = 2
    MaxEvict = 1
    EvictPhases = {"idle", "prepare", "commit"}
    MaxFinish = 0
    MaxCrash = 2
    CrashKinds = {"interrupt","kill"}
INVARIANT NoCommitTwice
CHECK_DEADLOCK FALSE
