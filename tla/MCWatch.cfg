SPECIFICATION WatchSpec
CONSTANTS
    a = a
    b = b
    FtMaxWrites = 4
    FtMaxFiles = 3
    FtMaxFaults = 1
    FtLineCap = 2
    CsColls = {c1}
    CsKinds = {"stream", "docker"}
    CsBase = 1
    CsMaxBackoff = 2
    CsAlert = 2
    CsConnectMax = 1
    CsReconnectMax = 2
    CsMidCap = 1
    CsOutCap = 1
    CsMaxPanics = 1
    CsMaxLines = 2
    CsMaxOutages = 1
    DtIPs = {a, b}
    DtTypes <- MCDtTypes
    DtBase <- MCDtBase
    DtOverlays <- MCDtOverlays
    DtHour = 2
    DtCutoff = 3
    DtBucket = 2
    DtMaxSamp = 1
    DtMaxIPs = 1
    DtSkew = 0
    DtMaxTime = 5
    DtMaxEvents = 3
    DtMaxFaults = 1
    AiIPs = {i1, i2}
    AiStatic = {i2}
    AiSig <- MCAiSig
    AiCap = 1
    AiCooldown = 2
    AiBackoff = 1
    AiKinds <- MCAiKinds
    AiDaily = 2
    AiMaxRetries = 1
    AiDelayCap = 2
    SpIPs = {p1}
    SpPeerTTL = 1
    SpSessTTL = 1
    SpGrace = 1
    SpWindow = 4
    SpMaxAttempts = 2
    SpMaxPending = 1
    SpMaxEvents = 2
    Conn = {"c1", "c2"}
    Scenes <- MCScenes
    EvWatchers = {w1, w2}
    EvTabs = {t1}
    EvFaces = {"watch", "dash"}
    EvBuf = 1
    EvMaxBack = 2
    EvLimit = 3
    EvBurst = 2
    EvQueue = 3
    EvMaxRows <- MCEvRows
    EvMaxFaults = 1
INVARIANTS
    FtInv
    CsInv
    AiInv
    ArmInv
    EvInv
PROPERTIES
    SpSafe
    DtSafe
    AiEpisodes
    TailCatchesUp
    SuperviseLive
    SpResolved
    Reverts
    EvWatchReturns
CHECK_DEADLOCK FALSE
