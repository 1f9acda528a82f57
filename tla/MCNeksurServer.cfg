SPECIFICATION FairSpec
CONSTANTS
    r1 = r1
    r2 = r2
    ta = ta
    tb = tb
    c1 = c1
    c2 = c2
    tab1 = tab1
    us = us
    g1 = g1
    g2 = g2
    b1 = b1
    b2 = b2
    VRequests = {r1, r2}
    VTenants = {ta, tb}
    VCatalogs = {c1, c2}
    VVends = {c1}
    VTables = {tab1}
    VRegions = {us}
    VCacheSize = 1
    VTTL = {2}
    VMaxTime = 3
    KThreads = {g1, g2}
    KKeys = {b1, b2}
    KCacheSize = 1
    KTTL = 1
    KMaxTime = 3
    KMaxDeks = 3
    HMaxGen = 3
    HSigned = {1, 3}
    HExpiry <- MCHExpiry
    HCovers = {1, 2}
    HGrace = 1
    HMaxTime = 5
    SPolicies <- MCPolicies
    SEngines = {"trino", "spark", "dremio"}
    SQueries <- MCQueries
    SMasks <- MCMasks
    FScenarios <- MCScenarios
    FValues <- MCValues
    FUnsafe = {"o'brien", "le'vel"}
    FCacheSize = 1
    FMaxRequests = 2
    FMaxChanges = 2
INVARIANTS CredentialsSound KeysSound InUseSound PolicyKeepsMeaning QueryKeepsMeaning VerdictsFollowFacts
PROPERTIES RotationsSound CallersReturn
CHECK_DEADLOCK FALSE
