SPECIFICATION Spec
CONSTANTS
    trunk = trunk
    b1 = b1
    t1 = t1
    r1 = r1
    r2 = r2
    pre = pre
    back = back
    bad = bad
    ann = ann
    bob = bob
    h = h
    s1 = s1
    s2 = s2
    NoName = NoName
    NoArg = NoArg
    File = {}
    Variable = {}
    BackReference = {back}
    Loose = {}
    Name <- MCName
    Pattern <- MCPattern
    BadPattern = {bad}
    Path <- MCPath
    MatchesPath <- MCMatchesPath
    Expand <- MCExpand
    Trunk = trunk
    BranchDir = {b1}
    TagDir = {t1}
    User = {ann, bob}
    Digits7 = {h}
    Digits33 = {s1, s2}
    World <- MCWorld
    Request <- MCRequest
    ValidRules <- MCValidRules
    MaxFaults = 2
    MaxRuns = 2
INVARIANTS
    RealRevisionsKept
CHECK_DEADLOCK FALSE
