SPECIFICATION Spec
CONSTANTS
    p1 = p1
    p2 = p2
    s1 = s1
    s2 = s2
    e1 = e1
    e2 = e2
    k1 = k1
    k2 = k2
    NoSession = NoSession
    Planted = Planted
    Procs = {p1}
    Engines = {e1}
    Sessions = {s1, s2}
    EngineOf <- OneEngine
    Keys = {k1}
    Roots = {NoSession}
    MaxOpen = 0
    Nesting = TRUE
    Strict = TRUE
    Faults = {"cancel", "close"}
INVARIANTS OpenTransactionJoined
