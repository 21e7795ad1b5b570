SPECIFICATION Spec
CONSTANTS
    p1 = p1
    p2 = p2
    s1 = s1
    s2 = s2
    e1 = e1
    e2 = e2
    k1 = k1
    k2 = k2
    NoSession = NoSession
    Planted = Planted
    Procs = {p1, p2}
    Engines = {e1, e2}
    Sessions = {s1, s2}
    EngineOf <- TwoEngines
    Keys = {k1}
    Roots = {NoSession, Planted}
    MaxOpen = 2
    Nesting = TRUE
    Strict = FALSE
    Faults = {"cancel", "close"}
SYMMETRY GoroutineSymmetry
INVARIANTS TypeInv Atomicity VerdictHolds Released
PROPERTIES NoLateEffect ImplementsAtomicTx
