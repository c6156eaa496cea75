SPECIFICATION Spec
CONSTANTS
    Address = {a1}
    Prefix <- MCPrefix
    StaticAllow <- MCNoAllow
    AllowTarget <- MCHosts
    Worker = {w1}
    Conn = {c1}
    Goroutine <- MCGoroutine
    BanTarget <- MCHosts
    MaxAttempts = 1
    Env = {"store", "allow_expiry"}
PROPERTIES
    NoRevival
