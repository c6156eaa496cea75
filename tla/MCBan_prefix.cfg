SPECIFICATION Spec
CONSTANTS
    Address = {a1, a2}
    Prefix <- MCPrefix
    StaticAllow <- MCNoAllow
    AllowTarget <- MCHosts
    Worker = {w1}
    Conn = {c1}
    Goroutine <- MCGoroutine
    BanTarget <- MCPrefix
    MaxAttempts = 2
    Env = {}
PROPERTIES
    PrefixBanPersists
