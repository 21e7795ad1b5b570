SPECIFICATION Spec
CONSTANTS
    Ids <- FiveIds
    GroupOf <- Grouping
    Shapes = {"plain", "distinct", "grouped", "having", "havingRows", "twoColumns"}
    W = 8
    Pages = {0, 1, 2, 3, 4}
    Sizes = {0, 1, 2, 3}
    Changes = {"insert", "delete"}
    MaxCalls = 3
    MaxChanges = 2
INVARIANTS
    WalkMeetsAll
    TotalIsLength
PROPERTIES
    PageIsWindow
    FindIsLastPage
CHECK_DEADLOCK FALSE
