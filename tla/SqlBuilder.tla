----------------------------- MODULE SqlBuilder -----------------------------
(***************************************************************************)
(* A statement under construction (builder/select.go, insert.go, update.go *)
(* and delete.go), by itself or inside a statement of package lorm         *)
(* (select.go, update.go and delete.go there), which passes calls on to    *)
(* it: the builder's fields, one action per method, in any order a caller  *)
(* may choose.  Every state is one in which ToSql may be called.           *)
(*                                                                         *)
(* A call's arguments are new numbers, so that an argument that turns up   *)
(* at another placeholder than its own is noticed.                         *)
(***************************************************************************)
EXTENDS SqlTry

CONSTANTS
    Kinds,          \* the builders in use
    Through,        \* what they are used through
    WhereShapes,    \* the predicates given to Where
    HavingShapes,   \* and to Having
    MaxCalls        \* bounds the calls after the constructor

AllShapes == {"nil", "empty", "wrong", "string", "expr", "eq", "eqNull", "eqEmpty", "eqList",
              "notEq", "valuer", "gte", "like", "ltNull", "in", "notIn", "inEmpty", "notInEmpty",
              "or", "orEmpty", "andNested", "orNil", "andWrong", "exprBad", "concatNil",
              "tryNotEqual", "tryNone", "tryLike", "tryRange", "tryMin", "tryTimeRange", "tryEnd", "tryLikes",
              "tryNoLikes", "tryMultiLike", "tryNoColumn", "tryIn", "tryNotInNone"}

ASSUME BuilderAssumption ==
    /\ Kinds \subseteq {"select", "insert", "update", "delete"}
    /\ WhereShapes \cup HavingShapes \subseteq AllShapes
    /\ Through \subseteq {"builder", "QueryModelStmt", "QueryColStmt", "UpdateStmt", "DeleteStmt"}
    /\ MaxCalls \in Nat
    /\ Nesting \in Nat /\ Nesting >= 5     \* an AddColumn of an Alias of a Concat of an Expr of a SELECT

\* The provers do not know that these are strings.
Words == {"a", "b", "c", "d", "s", "t", "u", "x", "", "1", "<", "<=", "+", "NOT LIKE", "WITH", "RETURNING",
          "DISTINCT", "IGNORE", "REPLACE", "JOIN", "ON", "FIELD", "COALESCE", "UPPER", "NOT"}
ASSUME WordAssumption == Words \subseteq STRING

VARIABLES
    through,    \* "builder", or the statement that owns it
    b,          \* the builder
    calls,      \* the number of calls made
    asked       \* history: what was given to Where, Having and the OrderBys

vars == <<through, b, calls, asked>>

-----------------------------------------------------------------------------
(* What callers pass *)

Str(tokens, args) == [k |-> "str", sql |-> tokens, args |-> args]
Expr(tokens, given) == [k |-> "expr", sql |-> tokens, given |-> given]
Eq(map) == [k |-> "eq", not |-> FALSE, map |-> map]
Conj(op, parts) == [k |-> "conj", op |-> op, parts |-> parts]
In(col, not, val) == [k |-> "in", col |-> col, not |-> not, val |-> val]
Cmp(op, map) == [k |-> "cmp", op |-> op, map |-> map]

\* Calls of package try.
Try(op, col, val) == [k |-> "try", f |-> "compare", op |-> op, col |-> col, val |-> val]
TryBetween(min, max, below) ==
    [k |-> "try", f |-> "range", col |-> "a", min |-> min, max |-> max, below |-> below]

Pred(shape, v) ==
    CASE shape = "nil"      -> [k |-> "nil"]
      [] shape = "empty"    -> Str(<<>>, <<>>)
      [] shape = "wrong"    -> [k |-> "other"]
      [] shape = "string"   -> Str(<<N("a"), K("<"), P(v)>>, <<v>>)
      [] shape = "expr"     -> Expr(Parens(<<N("a"), K("="), P(v), K("OR"), N("b"), K("<>"), P(v + 1)>>),
                                    <<Val(v), Val(v + 1)>>)
      [] shape = "eq"       -> Eq(<<<<"a", Val(v)>>, <<"b", Val(v + 1)>>>>)
      [] shape = "eqNull"   -> Eq(<<<<"a", Null>>, <<"b", Val(v)>>>>)
      [] shape = "eqEmpty"  -> Eq(<<>>)
      [] shape = "eqList"   -> Eq(<<<<"a", List(<<v, v + 1>>)>>>>)
      [] shape = "valuer"   -> Eq(<<<<"a", BadValuer>>>>)
      [] shape = "notEq"    -> [k |-> "eq", not |-> TRUE, map |-> <<<<"a", Null>>, <<"b", Val(v)>>>>]
      [] shape = "gte"      -> Cmp(">=", <<<<"a", Val(v)>>, <<"b", Val(v + 1)>>>>)
      [] shape = "like"     -> Cmp("NOT LIKE", <<<<"b", Val(v)>>>>)
      [] shape = "ltNull"   -> Cmp("<", <<<<"a", Null>>>>)
      [] shape = "in"       -> In("a", FALSE, List(<<v, v + 2>>))
      [] shape = "notIn"    -> In("b", TRUE, Val(v))
      [] shape = "inEmpty"    -> In("a", FALSE, List(<<>>))
      [] shape = "notInEmpty" -> In("a", TRUE, List(<<>>))
      [] shape = "or"       -> Conj("OR", <<Eq(<<<<"a", Val(v)>>>>),
                                            Conj("AND", <<In("b", FALSE, Val(v + 1)),
                                                          Cmp("NOT LIKE", <<>>)>>)>>)
      [] shape = "orEmpty"  -> Conj("OR", <<>>)
      [] shape = "andNested" -> Conj("AND", <<Eq(<<<<"b", Val(v)>>>>),
                                              Conj("OR", <<Eq(<<<<"a", Null>>>>),
                                                           Cmp("<=", <<<<"a", Val(v + 1)>>>>)>>)>>)
      [] shape = "orNil"     -> Conj("OR", <<Eq(<<<<"a", Val(v)>>>>), [k |-> "nil"]>>)
      [] shape = "andWrong"  -> Conj("AND", <<Eq(<<<<"b", Val(v)>>>>),
                                              Conj("OR", <<Cmp("<", <<<<"a", Null>>>>)>>)>>)
      [] shape = "exprBad"   -> Expr(<<K("NOT"), P(v)>>, <<Eq(<<<<"a", BadValuer>>>>)>>)
      [] shape = "concatNil" -> [k |-> "concat", parts |-> <<Str(<<K("NOT")>>, <<>>), [k |-> "nil"]>>]
      [] shape = "tryNotEqual"  -> Try("<>", "a", Val(v))
      [] shape = "tryNone"      -> Try("LIKE", "b", Missing)
      [] shape = "tryLike"      -> Try("LIKE", "b", Val(v))
      [] shape = "tryRange"     -> TryBetween(Val(v), Val(v + 1), "<=")
      [] shape = "tryMin"       -> TryBetween(Val(v + 1), Missing, "<=")
      [] shape = "tryTimeRange" -> TryBetween(Val(v), Val(v + 1), "<")
      [] shape = "tryEnd"       -> TryBetween(Missing, Val(v + 1), "<")
      [] shape = "tryLikes"     -> [k |-> "try", f |-> "likes", col |-> "b", vals |-> <<Val(v), Val(v + 1)>>]
      [] shape = "tryNoLikes"   -> [k |-> "try", f |-> "likes", col |-> "b", vals |-> <<>>]
      [] shape = "tryMultiLike" -> [k |-> "try", f |-> "multi", cols |-> <<"a", "b">>, val |-> Val(v)]
      [] shape = "tryNoColumn"  -> [k |-> "try", f |-> "multi", cols |-> <<>>, val |-> Val(v)]
      [] shape = "tryIn"        -> [k |-> "try", f |-> "in", col |-> "a", vs |-> <<v, v + 2>>, not |-> FALSE]
      [] shape = "tryNotInNone" -> [k |-> "try", f |-> "in", col |-> "a", vs |-> <<>>, not |-> TRUE]

Empty(kind) ==
    CASE kind = "select" ->
           [k |-> "select", prefixes |-> <<>>, options |-> <<>>,
            columns |-> <<Str(<<N("a")>>, <<>>)>>, from |-> <<Str(<<N("t")>>, <<>>)>>,
            joins |-> <<>>, where |-> <<>>, groupBys |-> <<>>, having |-> <<>>,
            orderBys |-> <<>>, limit |-> "", offset |-> "", suffixes |-> <<>>]
      [] kind = "update" ->
           [k |-> "update", prefixes |-> <<>>, table |-> "t", sets |-> <<>>, from |-> <<>>,
            where |-> <<>>, orderBys |-> <<>>, limit |-> "", offset |-> "", suffixes |-> <<>>]
      [] kind = "delete" ->
           [k |-> "delete", prefixes |-> <<>>, table |-> "t", where |-> <<>>,
            orderBys |-> <<>>, limit |-> "", offset |-> "", suffixes |-> <<>>]
      [] kind = "insert" ->
           [k |-> "insert", prefixes |-> <<>>, keyword |-> "", options |-> <<>>,
            table |-> "t", cols |-> <<>>, rows |-> <<>>, select |-> <<>>, suffixes |-> <<>>]

Sub(v) == [Empty("select") EXCEPT !.where = <<Str(<<N("b"), K("="), P(v)>>, <<v>>)>>]
Case(v) == [k |-> "case", what |-> <<>>,
            whens |-> <<<<Eq(<<<<"a", Val(v)>>>>), Str(<<K("1")>>, <<>>)>>>>,
            els |-> <<Expr(<<P(v + 1)>>, <<Val(v + 1)>>)>>]
Coalesce(v) == [k |-> "concat",
                parts |-> <<Str(<<K("COALESCE"), K("(")>>, <<>>),
                            Expr(<<P(v), K(","), P(v + 1)>>, <<Sub(v), Val(v + 1)>>),
                            Str(<<K(")")>>, <<>>)>>]
Alias(expr, name) == [k |-> "alias", expr |-> expr, as |-> name]

-----------------------------------------------------------------------------
(* Statements and their builders *)

\* The methods of a statement: each passes its arguments on to a method of the
\* builder, of the same name unless it says otherwise.
PassedOn(names) == [m \in names |-> m]
QueryModelStmt ==
    [PassedOn({"Prefix", "Options", "Select", "AddColumn", "Column", "RemoveColumns", "From", "FromSelect",
               "JoinClause", "Where", "GroupBy", "Having", "OrderByClause", "OrderBy",
               "Limit", "RemoveLimit", "Offset", "RemoveOffset", "Suffix"})
     EXCEPT !["Column"] = "AddColumn", !["OrderByClause"] = "Having"]
QueryColStmt ==
    [PassedOn({"Prefix", "Options", "Columns", "Column", "RemoveColumns", "From", "FromSelect",
               "JoinClause", "Where", "GroupBy", "Having", "OrderByClause", "OrderBy",
               "Limit", "RemoveLimit", "Offset", "RemoveOffset", "Suffix"})
     EXCEPT !["Columns"] = "Select", !["Column"] = "AddColumn", !["OrderByClause"] = "Having"]
UpdateStmt ==
    [PassedOn({"Table", "Prefix", "Set", "ID", "Where", "OrderBy", "Limit", "Offset", "Suffix"})
     EXCEPT !["ID"] = "Where"]
DeleteStmt ==
    [PassedOn({"Table", "Prefix", "ID", "Where", "OrderBy", "Limit", "Offset", "Suffix"})
     EXCEPT !["ID"] = "Where"]

Methods ==
    CASE through = "QueryModelStmt" -> QueryModelStmt
      [] through = "QueryColStmt"   -> QueryColStmt
      [] through = "UpdateStmt"     -> UpdateStmt
      [] through = "DeleteStmt"     -> DeleteStmt

\* A statement of a builder of this kind starts with this much of it.
Start(stmt, kind) ==
    CASE stmt \in {"builder", "QueryModelStmt"} -> Empty(kind)
      [] stmt = "QueryColStmt" -> [Empty(kind) EXCEPT !.columns = <<>>, !.from = <<>>]
      [] stmt \in {"UpdateStmt", "DeleteStmt"} -> [Empty(kind) EXCEPT !.table = ""]

KindsOf(stmt) ==
    CASE stmt = "builder" -> Kinds
      [] stmt \in {"QueryModelStmt", "QueryColStmt"} -> Kinds \cap {"select"}
      [] stmt = "UpdateStmt" -> Kinds \cap {"update"}
      [] stmt = "DeleteStmt" -> Kinds \cap {"delete"}

-----------------------------------------------------------------------------
(* The methods *)

Of(kinds) == b.k \in kinds /\ calls < MaxCalls

\* A call that ends in this method of the builder.
Is(method, kinds) ==
    Of(kinds) /\ (through # "builder" => method \in {Methods[m] : m \in DOMAIN Methods})

\* The caller's method, and the builder's method that it ends in.
Called(method, kinds) == Of(kinds) /\ (through # "builder" => method \in DOMAIN Methods)
Reached(method) == IF through = "builder" THEN method ELSE Methods[method]

V == 10 * (calls + 1)

Update(new) == b' = new /\ calls' = calls + 1 /\ UNCHANGED through
Only == UNCHANGED asked

SaysNothing(pred) == Given(pred).k = "nil" \/ pred = Str(<<>>, <<>>)

\* The methods that take a predicate.  A SelectBuilder's Where does not keep nil
\* and ""; the others keep whatever they get.
Kept(method, pred) ==
    CASE method = "Where" /\ b.k = "select" /\ SaysNothing(pred) -> b
      [] method = "Where" /\ ~(b.k = "select" /\ SaysNothing(pred)) ->
            [b EXCEPT !.where = Append(@, Part(Given(pred)))]
      [] method = "Having"  -> [b EXCEPT !.having = Append(@, Part(Given(pred)))]
      [] method = "OrderByClause" -> [b EXCEPT !.orderBys = Append(@, pred)]

Init ==
    /\ through \in Through
    /\ \E kind \in KindsOf(through) : b = Start(through, kind)
    /\ calls = 0
    /\ asked = [where |-> <<>>, having |-> <<>>, orderBy |-> <<>>]

Prefix ==
    /\ Is("Prefix", {"select", "insert", "update", "delete"})
    /\ Update([b EXCEPT !.prefixes = Append(@,
            Expr(<<K("WITH"), N("c"), K("AS")>> \o Parens(<<K("SELECT"), P(V)>>), <<Val(V)>>))])
    /\ Only

Suffix ==
    /\ Is("Suffix", {"select", "insert", "update", "delete"})
    /\ Update([b EXCEPT !.suffixes = Append(@, Expr(<<K("RETURNING"), P(V)>>, <<Val(V)>>))])
    /\ Only

\* Table of an UpdateBuilder, From of a DeleteBuilder, Into of an InsertBuilder.
Table ==
    /\ Is("Table", {"update", "delete", "insert"})
    /\ Update([b EXCEPT !.table = "u"])
    /\ Only

\* Distinct is Options("DISTINCT").
Options ==
    /\ Is("Options", {"select", "insert"})
    /\ Update([b EXCEPT !.options = Append(@, IF b.k = "select" THEN "DISTINCT" ELSE "IGNORE")])
    /\ Only

Select ==
    /\ Is("Select", {"select"})
    /\ Update([b EXCEPT !.columns = <<Str(<<N("b")>>, <<>>)>>])
    /\ Only

RemoveColumns ==
    /\ Is("RemoveColumns", {"select"})
    /\ Update([b EXCEPT !.columns = <<>>])
    /\ Only

AddColumn ==
    /\ Is("AddColumn", {"select"})
    /\ \E column \in {Str(<<N("a"), K("+"), P(V)>>, <<V>>), Alias(Case(V), "c"),
                      Alias(Coalesce(V), "d")} :
            Update([b EXCEPT !.columns = Append(@, column)])
    /\ Only

From ==
    /\ Is("From", {"select", "update"})
    /\ Update([b EXCEPT !.from = <<Str(<<N("u")>>, <<>>)>>])
    /\ Only

FromSelect ==
    /\ Is("FromSelect", {"select", "update"})
    /\ Update([b EXCEPT !.from = <<Alias(Sub(V), "s")>>])
    /\ Only

\* Join, LeftJoin, RightJoin, InnerJoin and CrossJoin differ in the keyword.
JoinClause ==
    /\ Is("JoinClause", {"select"})
    /\ Update([b EXCEPT !.joins = Append(@,
            Str(<<K("JOIN"), N("u"), K("ON"), N("x"), K("="), P(V)>>, <<V>>))])
    /\ Only

Where ==
    /\ Called("Where", {"select", "update", "delete"})
    /\ \E shape \in WhereShapes :
        /\ Update(Kept(Reached("Where"), Pred(shape, V)))
        /\ asked' = [asked EXCEPT !.where = Append(@, Pred(shape, V))]

\* A statement's ID is its Where with "id = ?".
ID ==
    /\ through # "builder"
    /\ Called("ID", {"update", "delete"})
    /\ LET pred == Str(<<N("a"), K("="), P(V)>>, <<V>>) IN
        /\ Update(Kept(Reached("ID"), pred))
        /\ asked' = [asked EXCEPT !.where = Append(@, pred)]

Having ==
    /\ Called("Having", {"select"})
    /\ \E shape \in HavingShapes :
        /\ Update(Kept(Reached("Having"), Pred(shape, V)))
        /\ asked' = [asked EXCEPT !.having = Append(@, Pred(shape, V))]

GroupBy ==
    /\ Is("GroupBy", {"select"})
    /\ Update([b EXCEPT !.groupBys = Append(@, "a")])
    /\ Only

OrderByClause ==
    /\ Called("OrderByClause", {"select"})
    /\ LET term == Str(<<K("FIELD"), K("("), P(V), K(")")>>, <<V>>) IN
        /\ Update(Kept(Reached("OrderByClause"), term))
        /\ asked' = [asked EXCEPT !.orderBy = Append(@, term)]

\* OrderBy of a SelectBuilder is its OrderByClause of each.
OrderBy ==
    /\ Is("OrderBy", {"select", "update", "delete"})
    /\ LET term == Str(<<N("a")>>, <<>>) IN
        /\ Update([b EXCEPT !.orderBys = Append(@, IF b.k = "select" THEN term ELSE "a")])
        /\ asked' = [asked EXCEPT !.orderBy = Append(@, term)]

Limit ==
    /\ Is("Limit", {"select", "update", "delete"})
    /\ Update([b EXCEPT !.limit = "1"])
    /\ Only

Offset ==
    /\ Is("Offset", {"select", "update", "delete"})
    /\ Update([b EXCEPT !.offset = "1"])
    /\ Only

RemoveLimit ==
    /\ Is("RemoveLimit", {"select"})
    /\ Update([b EXCEPT !.limit = ""])
    /\ Only

RemoveOffset ==
    /\ Is("RemoveOffset", {"select"})
    /\ Update([b EXCEPT !.offset = ""])
    /\ Only

\* UpdateBuilder.Set and SetMap, which calls it for every key in order.
Set ==
    /\ Is("Set", {"update"})
    /\ \E pairs \in {<<<<"a", Val(V)>>>>, <<<<"b", Sub(V)>>>>, <<<<"b", Case(V)>>>>, <<<<"b", Coalesce(V)>>>>,
                     <<<<"a", Val(V)>>, <<"b", Val(V + 1)>>>>} :
            Update([b EXCEPT !.sets = @ \o pairs])
    /\ Only

Columns ==
    /\ Of({"insert"})
    /\ Update([b EXCEPT !.cols = <<"a", "b">>])
    /\ Only

Values ==
    /\ Of({"insert"})
    /\ \E row \in {<<Val(V), Val(V + 1)>>, <<Expr(<<K("UPPER"), K("("), P(V), K(")")>>, <<Val(V)>>), Val(V + 1)>>} :
            Update([b EXCEPT !.rows = Append(@, row)])
    /\ Only

\* InsertBuilder.SetMap starts over.
SetMap ==
    /\ Of({"insert"})
    /\ Update([b EXCEPT !.cols = <<"a", "b">>, !.rows = <<<<Val(V), Val(V + 1)>>>>])
    /\ Only

InsertSelect ==
    /\ Of({"insert"})
    /\ Update([b EXCEPT !.select = <<Sub(V)>>])
    /\ Only

\* Replace is an InsertBuilder with another keyword.
StatementKeyword ==
    /\ Of({"insert"})
    /\ Update([b EXCEPT !.keyword = "REPLACE"])
    /\ Only

Next ==
    \/ Table \/ Prefix \/ Suffix \/ Options
    \/ Select \/ RemoveColumns \/ AddColumn \/ From \/ FromSelect \/ JoinClause
    \/ Where \/ ID \/ Having \/ GroupBy \/ OrderByClause \/ OrderBy
    \/ Limit \/ Offset \/ RemoveLimit \/ RemoveOffset
    \/ Set \/ Columns \/ Values \/ SetMap \/ InsertSelect \/ StatementKeyword

Spec == Init /\ [][Next]_vars

-----------------------------------------------------------------------------
(* Properties *)

Predicates == Sqlizers(Nesting - 1) \cup TryCalls

\* Types: what a statement is made of is nested less deep than itself.
TypeOK ==
    /\ through \in Through /\ b.k \in Kinds
    /\ b \in StatementsOf(Sqlizers(Nesting - 1))
    /\ calls \in 0 .. MaxCalls
    /\ asked \in [where : Seq(Predicates), having : Seq(Predicates), orderBy : Seq(Predicates)]

\* Every placeholder gets the argument that was given with it: through every
\* nesting of expressions, and across the clauses, the arguments come in the
\* order of the question marks, none missing and none left over.
ArgsInOrder ==
    LET result == ToSql(b) IN ~result.err => result.args = MeantFor(result.sql)

\* Nothing is sent exactly if something is missing or ToSql of a predicate that
\* was asked for comes to nothing: because of a value deep inside it that Eq, Lt
\* or an argument's Value refuses, a part of a wrong type, or a nil inside an And,
\* an Or or a ConcatExpr.  ToSql returns an error then, or panics (see Failure);
\* no statement goes out without the predicate.
FailsWhenRefused ==
    ToSql(b).err <=>
        Wrong(b) \/ \E pred \in ToSet(asked.where) \cup ToSet(asked.having) :
                        pred.k # "try" /\ Refused(Part(pred))

=============================================================================
