SPECIFICATION Spec
CONSTANTS
    Kinds = {"select", "insert", "update", "delete"}
    WhereShapes = {"nil", "empty", "wrong", "string", "expr", "eq", "eqEmpty", "eqList", "notEq", "gte",
                   "in", "notIn", "inEmpty", "notInEmpty", "or", "andNested",
                   "orNil", "andWrong", "exprBad", "concatNil",
                   "tryNotEqual", "tryNone", "tryLike", "tryRange", "tryMin", "tryEnd",
                   "tryLikes", "tryNoLikes", "tryMultiLike", "tryIn", "tryNotInNone"}
    HavingShapes = {"eq", "or"}
    Through = {"builder", "QueryModelStmt", "QueryColStmt", "UpdateStmt", "DeleteStmt"}
    Nesting = 5
    MaxCalls = 3
INVARIANTS
    TypeOK
    ArgsInOrder
    ConditionsHold
    FailsWhenRefused
CHECK_DEADLOCK FALSE
