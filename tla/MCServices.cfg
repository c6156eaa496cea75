SPECIFICATION ServicesSpec
CONSTANTS
    NtChannels <- MCNtChannels
    NtCasts <- MCNtCasts
    NtQuota = 1
    NtCritQuota = 2
    NtMinute = 1
    NtDedup = 1
    NtSupWindow = 1
    NtIneffWindow = 1
    NtFlip = 2
    NtMaxTime = 2
    NtMaxFaults = 1
    DbReqs = {r1, r2}
    DbUsers = {"op"}
    DbAdmins = {"root"}
    DbNames <- MCDbNames
    DbScenes = {"login", "names", "session"}
    DbMax = 2
    DbWindow = 2
    DbLockout = 2
    DbGlobalMax = 4
    DbCap = 2
    DbTimeout = 1
    DbMaxTime = 3
    DbMaxTries <- MCDbTries
    DbMaxReloads = 1
    SmSinks = {"s1", "s2"}
    SmWants <- MCSmWants
    SmOrder <- MCSmOrder
    SmQueue = 1
    SmBatch = 2
    SmMaxBackoff = 1
    SmPrior = 1
    SmMaxRows = 3
    SmMaxFaults = 1
    PlQueue = 1
    PlMaxFails = 2
    PlHour = 2
    PlBackoff <- MCPlBackoff
    PlMaxCalls = 2
    PlMaxTime = 3
    PlMaxFaults = 2
INVARIANTS
    SmInv
    PlInv
PROPERTIES
    NtSafe
    
    SiemCatchesUp
    PlNobodyHangs
CHECK_DEADLOCK FALSE
