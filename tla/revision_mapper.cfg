SPECIFICATION Spec
CONSTANTS
    h1 = h1
    h2 = h2
    t1 = t1
    t2 = t2
    Digits7 <- MCDigits7
    Digits33 <- MCDigits33
    Call <- MCCall
    Skip <- MCSkip
    Query <- MCQuery
    MaxCalls = 3
    MaxFaults = 2
INVARIANTS
    TypeOK OneToOneExact LookupsExact ArtifactsWhole
CHECK_DEADLOCK FALSE
