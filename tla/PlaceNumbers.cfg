SPECIFICATION Spec
CONSTANTS
    MaxLen = 6
    Chars = {"?", "x"}
    Args = {"a", "b", "c", "d"}
    Inputs <- AllInputs
    Positional = TRUE
INVARIANTS
    NumbersInOrder
    DriverSeesMeaning
    DebugShowsWhatIsSent
