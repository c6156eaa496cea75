SPECIFICATION RepairSpec
CONSTANTS
    a1 = a1
    a2 = a2
    Address = {a1, a2}
    Prefix <- MCPrefix
    StaticAllow <- MCStaticAllow
    AllowTarget <- MCRevocable
    Conn = {c1, c2}
    Goroutine <- MCGoroutine
    Env = {"crash", "store", "allow_expiry", "enforcer"}
INVARIANTS
    AllowTypeOK
    
    
