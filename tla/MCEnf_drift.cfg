SPECIFICATION DriftSpec
CONSTANTS
    a1 = a1
    a2 = a2
    Address = {a1, a2}
    Elem <- MCElem
    Want <- MCWant
    Client = {k1}
    MaxTTL = 1
    Env = {"calm"}
PROPERTIES
    Backstop
