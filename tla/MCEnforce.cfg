SPECIFICATION EnforceSpec
CONSTANTS
    a1 = a1
    a2 = a2
    Address = {a1, a2}
    Elem <- MCElem
    Want <- MCWant
    Client = {k1}
    MaxTTL = 2
    Env = {"nft", "crash", "flush", "calm"}
    LsIPs = {a1, a2}
    LsAllow = {a2}
    LsAdopt = TRUE
    LsBatchMax = 1
    LsMaxChanges = 2
    LsMaxFaults = 2
    EzIPs = {1, 2}
    EzZones = {1}
    EzPerRule = 1
    EzMaxRules = 4
    EzMaxChanges = 2
    EzMaxFaults = 1
    EsIPs = {a1, a2}
    EsCap = 1
    EsLockTries = 2
    EsMaxCalls = 2
    EsMaxFaults = 2
    FdEntries = {"x", "y", "g", "r"}
    FdContent <- MCFdContent
    FdActions <- MCFdActions
    FdReserved = {"r"}
    FdGuards = {"g"}
    FdAllowable = {"y"}
    FdMaxOps = 1
    FdMaxFaults = 1
INVARIANTS
    CacheMatchesKernel
    
    EzInv
    FdInv
PROPERTIES
    LsSharesList
    EsSafe
    Backstop
    EdgesHeal
    FdConverges
CHECK_DEADLOCK FALSE
