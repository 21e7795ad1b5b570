SPECIFICATION Spec
CONSTANTS
    Files = {1, 2, 3}
    Dir <- Dirs
    Texts <- TextsTried
    BadNames = {{}, {2}}
    Local <- Locals
    MaxRuns = 2
    MaxEdits = 2
INVARIANTS
    TypeInv
    SuccessIsComplete
    DescribesSource
    OneUnfinished
    LeftoversDoNotMatter
PROPERTIES
    OnlyOwnFiles
CHECK_DEADLOCK FALSE
