SPECIFICATION Spec
CONSTANTS
    Address = {a1}
    Prefix <- MCPrefix
    StaticAllow <- MCNoAllow
    AllowTarget <- MCHosts
    Worker = {w1}
    Conn = {c1}
    Goroutine <- MCGoroutine
    BanTarget <- MCHosts
    MaxAttempts = 2
    Env = {}
PROPERTIES
    DisableAllClean
