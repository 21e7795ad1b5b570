------------------------------- MODULE SqlTry -------------------------------
(***************************************************************************)
(* Package builder/try: predicates made of values a caller may not have.   *)
(* A missing value (a nil pointer, a zero time, a blank text, no elements) *)
(* makes no condition.                                                     *)
(*                                                                         *)
(* A call is a record; its predicate is what the function returns.         *)
(***************************************************************************)
EXTENDS SqlText

Missing == [k |-> "missing"]

Compared(op, col, val) ==
    IF op \in {"=", "<>"} THEN [k |-> "eq", not |-> op = "<>", map |-> <<<<col, val>>>>]
    ELSE [k |-> "cmp", op |-> op, map |-> <<<<col, val>>>>]
AllOf(parts) == [k |-> "conj", op |-> "AND", parts |-> parts]
AnyOf(parts) == [k |-> "conj", op |-> "OR", parts |-> parts]

\* Equal, NotEqual, Gt, Gte, Lt, Lte, and Like, which trims its text first.
TryCompare(op, col, val) == IF val = Missing THEN [k |-> "nil"] ELSE Compared(op, col, val)

\* Variant: the end of a range is used without looking whether there is one.
TryRangeToAnyEnd(col, min, max, below) ==
    IF min = Missing THEN TryCompare(below, col, max)
    ELSE AllOf(<<Compared(">=", col, min), Compared(below, col, max)>>)

\* Range, and TimeRange, which leaves its end out.
TryRange(col, min, max, below) ==
    CASE min = Missing -> TryCompare(below, col, max)
      [] min # Missing /\ max = Missing -> Compared(">=", col, min)
      [] OTHER -> AllOf(<<Compared(">=", col, min), Compared(below, col, max)>>)

TryLikes(col, vals) ==
    IF vals = <<>> THEN [k |-> "nil"]
    ELSE AnyOf([i \in DOMAIN vals |-> Compared("LIKE", col, vals[i])])

\* Without columns there is nothing to be like: Or of nothing.
TryMultiLike(cols, val) ==
    IF val = Missing THEN [k |-> "nil"]
    ELSE AnyOf([i \in DOMAIN cols |-> Compared("LIKE", cols[i], val)])

\* In and NotIn.
TryIn(col, vs, not) ==
    IF vs = <<>> THEN [k |-> "nil"]
    ELSE [k |-> "in", col |-> col, not |-> not, val |-> List(vs)]

\* The calls there are.
TryCalls ==
    LET Bounds == Vals \cup {Missing} IN
    [k : {"try"}, f : {"compare"}, op : STRING, col : STRING, val : Bounds]
    \cup [k : {"try"}, f : {"range"}, col : STRING, min : Bounds, max : Bounds, below : STRING]
    \cup [k : {"try"}, f : {"likes"}, col : STRING, vals : Seq(Vals)]
    \cup [k : {"try"}, f : {"multi"}, cols : Seq(STRING), val : Bounds]
    \cup [k : {"try"}, f : {"in"}, col : STRING, vs : Seq(Nat), not : BOOLEAN]

\* The predicate Where is given.
Given(pred) ==
    IF pred.k # "try" THEN pred
    ELSE CASE pred.f = "compare" -> TryCompare(pred.op, pred.col, pred.val)
           [] pred.f = "range"   -> TryRange(pred.col, pred.min, pred.max, pred.below)
           [] pred.f = "likes"   -> TryLikes(pred.col, pred.vals)
           [] pred.f = "multi"   -> TryMultiLike(pred.cols, pred.val)
           [] pred.f = "in"      -> TryIn(pred.col, pred.vs, pred.not)
=============================================================================
