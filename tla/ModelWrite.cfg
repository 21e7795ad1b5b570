SPECIFICATION Spec
CONSTANTS
    c1 = c1
    c2 = c2
    m1 = m1
    m2 = m2
    m3 = m3
    Clients = {c1, c2}
    Models = {m1, m2, m3}
    Owner <- Owners
    ChosenId <- ChosenIds
    Cases <- AllCases
    Values = {0, 1}
    IdRange = 3
    MaxRows = 3
    MaxNow = 2
    MaxCalls = 4
INVARIANTS
    TypeInv
    OneRowPerModel
    ModelNamesItsRow
    LockedRowStands
PROPERTIES
    UpdateOwnRowOnly
    CreatedStands
CHECK_DEADLOCK FALSE
