SPECIFICATION DurableSpec
CONSTANTS
    x = x
    y = y
    SuMaxRuns = 2
    SuMaxEdits = 1
    CdNames = {"main", "a-b", "a_b"}
    CdVar <- MCCdVar
    CdZones = {z1}
    CdMaxRuns = 2
    CdMaxAccts = 2
    UpVersions = {1, 2}
    UpFirst = 1
    UpMaxRuns = 2
    UpMaxFaults = 2
    LdIPs = {x, y}
    LdRules = {"r"}
    LdCallers = {"pipeline", "recheck"}
    LdTTLs <- MCLdTTLs
    LdWindow = 1
    LdExempt = 0
    LdGrace = 1
    LdMinCfg = 1
    LdFloor = 2
    LdMinIn = 2
    LdRearm = 1
    LdEdgeWindow = 1
    LdEdgeCap = 1
    LdScenes <- MCLdScenes
    LdNever = 9
    LdMaxStrikes = 3
    LdMaxCount = 3

    
PROPERTIES
    
    
    LdSafe
CHECK_DEADLOCK FALSE
