SPECIFICATION FairSpec
CONSTANTS
    Procs = {p1, p2}
    Ops = {"Exec", "Exist", "Get", "Find"}
    MaxOpen = 1
    MaxRows = 1
INVARIANTS
    TypeInv
    CompleteOrError
    NothingLeftOpen
PROPERTIES
    OperationsReturn
