SPECIFICATION FairSpec
CONSTANTS
    Address = {a1}
    Prefix <- MCPrefix
    StaticAllow <- MCNoAllow
    AllowTarget <- MCNoAllow
    Worker = {w1}
    Conn = {c1}
    Goroutine <- MCGoroutine
    BanTarget <- MCHosts
    MaxAttempts = 1
    Env = {"enforcer", "peers", "flush", "crash", "quiesce"}
PROPERTIES
    Converges
