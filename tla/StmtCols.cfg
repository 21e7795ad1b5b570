SPECIFICATION Spec
CONSTANTS
    Procs = {p1, p2}
    Ops = {"Exec", "Exist", "Get", "Find", "FindCol"}
    MaxOpen = 1
    MaxRows = 2
INVARIANTS
    CompleteOrError
