SPECIFICATION Spec
CONSTANTS
    Kinds = {"select"}
    WhereShapes = {"eq"}
    HavingShapes = {}
    Through = {"QueryModelStmt", "QueryColStmt"}
    Nesting = 5
    MaxCalls = 2
INVARIANTS
    OrderByAsAsked
CHECK_DEADLOCK FALSE
