SPECIFICATION Spec
CONSTANTS
    main = main
    inc = inc
    deep = deep
    deeper = deeper
    lost = lost
    r1 = r1
    r2 = r2
    b1 = b1
    b2 = b2
    back = back
    slashed = slashed
    v = v
    target = target
    words = words
    unset = unset
    p1 = p1
    p2 = p2
    bad = bad
    onlyFirst = onlyFirst
    both = both
    neither = neither
    NoName = NoName
    NoArg = NoArg
    Missing = Missing
    File <- MCFile
    Name <- MCName
    Pattern = {p1, p2, bad}
    Variable = {v, target}
    BackReference = {back, target}
    Loose = {words, unset}
    BadPattern = {bad}
    Path <- MCPath
    MatchesPath <- MCMatchesPath
    Expand <- MCExpand
    VariableIn <- MCVariableIn
    Filled <- MCFilled
    Unslashed <- MCUnslashed
    Root = main
    Contents <- WordsContents
    kMaxIncludeDepth = 3
    MaxOpen = 4
    HEAD = 5
INVARIANTS
    AcceptedIsLoaded
CHECK_DEADLOCK FALSE
