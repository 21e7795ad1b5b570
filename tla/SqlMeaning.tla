----------------------------- MODULE SqlMeaning -----------------------------
(***************************************************************************)
(* What a condition means: on one side the truth value SQL gives a WHERE   *)
(* clause as a database reads it, from the written tokens and the numbered *)
(* arguments; on the other side what the predicate a caller gave stands    *)
(* for.  A row gives each column a number or NULL, and truth has three      *)
(* values.                                                                 *)
(***************************************************************************)
EXTENDS SqlBuilder

\* The number an argument stands for.  Values have no wildcards, so that LIKE with
\* a value as its pattern, which is what the code makes of it, is equality.  (The
\* comments of package try promise LIKE "%value%": the code does not write that.)
NumberOf(v) == v % 2
NoValue == 2        \* NULL in a row

Truth(holds) == IF holds THEN "true" ELSE "false"
Not3(t) == IF t = "true" THEN "false" ELSE IF t = "false" THEN "true" ELSE t
And3(T) == IF "bad" \in T THEN "bad" ELSE IF "false" \in T THEN "false"
           ELSE IF "unknown" \in T THEN "unknown" ELSE "true"
Or3(T)  == IF "bad" \in T THEN "bad" ELSE IF "true" \in T THEN "true"
           ELSE IF "unknown" \in T THEN "unknown" ELSE "false"

Operators == {"=", "<>", "<", "<=", ">", ">=", "LIKE", "NOT LIKE"}

Compare(x, op, n) ==
    CASE x = NoValue -> "unknown"
      [] x # NoValue /\ op \in {"=", "LIKE"} -> Truth(x = n)
      [] x # NoValue /\ op \in {"<>", "NOT LIKE"} -> Truth(x # n)
      [] x # NoValue /\ op = "<"  -> Truth(x < n)
      [] x # NoValue /\ op = "<=" -> Truth(x <= n)
      [] x # NoValue /\ op = ">"  -> Truth(x > n)
      [] x # NoValue /\ op = ">=" -> Truth(x >= n)

IsNull(x) == Truth(x = NoValue)
Within(x, vs) == Or3({Compare(x, "=", NumberOf(v)) : v \in vs})

-----------------------------------------------------------------------------
(* The database's side *)

\* The driver gives the i-th placeholder the i-th argument.
Bound(tokens, args) ==
    [j \in DOMAIN tokens |->
        IF ~IsPlaceholder(tokens[j]) THEN tokens[j]
        ELSE LET i == Cardinality({h \in 1 .. j : IsPlaceholder(tokens[h])})
             IN IF i \in DOMAIN args THEN P(args[i]) ELSE K("?")]

Depth(tokens, j) ==
    Cardinality({i \in 1 .. j : tokens[i] = K("(")})
      - Cardinality({i \in 1 .. j - 1 : tokens[i] = K(")")})

\* Where a word stands outside parentheses.
Places(tokens, words) ==
    {j \in DOMAIN tokens : tokens[j] \in words /\ Depth(tokens, j) = 0}

ClauseWords == {K("GROUP BY"), K("HAVING"), K("ORDER BY"), K("LIMIT"), K("OFFSET"), K("RETURNING")}

\* The tokens of a clause, in a sequence; <<>> when there is none.
ClauseOf(tokens, word) ==
    LET starts == Places(tokens, {K(word)}) IN
    IF starts = {} THEN <<>>
    ELSE LET first == Min(starts)
             ends == {j \in Places(tokens, ClauseWords) : j > first}
         IN <<SubSeq(tokens, first + 1, IF ends = {} THEN Len(tokens) ELSE Min(ends) - 1)>>

\* column op ?, column IS NULL, column IN (?, ?), a literal; "bad" otherwise.
Atom(tokens, row) ==
    LET n == Len(tokens)
        word(j) == tokens[j][2]
        negated(t, not) == IF not THEN Not3(t) ELSE t
    IN CASE tokens = <<sqlTrue>>  -> "true"
         [] tokens = <<sqlFalse>> -> "false"
         [] n >= 3 /\ tokens[1][1] = "name" /\ tokens[2] \in {K("IN"), K("NOT IN")} ->
                LET inside == SubSeq(tokens, 4, n - 1) IN
                IF /\ tokens[3] = K("(") /\ tokens[n] = K(")") /\ inside # <<>>
                   /\ \A j \in DOMAIN inside :
                        IF j % 2 = 1 THEN IsPlaceholder(inside[j]) ELSE inside[j] = K(",")
                THEN negated(Within(row[word(1)],
                                    {inside[j][2] : j \in {h \in DOMAIN inside : h % 2 = 1}}),
                             word(2) = "NOT IN")
                ELSE "bad"
         [] n = 3 /\ tokens[1][1] = "name" /\ tokens[2][2] \in Operators /\ IsPlaceholder(tokens[3]) ->
                Compare(row[word(1)], word(2), NumberOf(word(3)))
         [] n = 3 /\ tokens[1][1] = "name" /\ tokens[3] = K("NULL") ->
                negated(IsNull(row[word(1)]), word(2) = "IS NOT")
         [] OTHER -> "bad"

RECURSIVE Evaluate(_, _)
\* OR binds weakest, then AND, then parentheses.
Evaluate(tokens, row) ==
    LET ors == Places(tokens, {K("OR")})
        ands == Places(tokens, {K("AND")})
        split == IF ors # {} THEN Min(ors) ELSE Min(ands)
        sides == {Evaluate(SubSeq(tokens, 1, split - 1), row),
                  Evaluate(SubSeq(tokens, split + 1, Len(tokens)), row)}
    IN IF tokens = <<>> THEN "bad"
       ELSE IF ors # {} THEN Or3(sides)
       ELSE IF ands # {} THEN And3(sides)
       ELSE IF tokens[1] = K("(") /\ Last(tokens) = K(")")
       THEN Evaluate(SubSeq(tokens, 2, Len(tokens) - 1), row)
       ELSE Atom(tokens, row)

\* A row passes a clause that is not there.
Passes(clause, row) == IF clause = <<>> THEN "true" ELSE Evaluate(clause[1], row)

-----------------------------------------------------------------------------
(* The caller's side *)

\* What a caller of package try asks for: that the values there are hold their
\* comparison, one of them for Likes and MultiLike; nothing without values.  (LIKE
\* compares with the value as the code writes it.)
TryMeans(call, row) ==
    LET Holds(op, col, val) == Compare(row[col], op, NumberOf(val.v))
        Hold(op, col, vals) == {Holds(op, col, val) : val \in vals \ {Missing}}
    IN CASE call.f = "compare" -> And3(Hold(call.op, call.col, {call.val}))
         [] call.f = "range"   -> And3(Hold(">=", call.col, {call.min}) \cup Hold(call.below, call.col, {call.max}))
         [] call.f = "likes"   -> IF call.vals = <<>> THEN "true"
                                  ELSE Or3(Hold("LIKE", call.col, ToSet(call.vals)))
         [] call.f = "multi"   -> IF call.val = Missing THEN "true"
                                  ELSE Or3({Holds("LIKE", col, call.val) : col \in ToSet(call.cols)})
         [] call.f = "in"      -> IF call.vs = <<>> THEN "true"
                                  ELSE LET t == Within(row[call.col], ToSet(call.vs))
                                       IN IF call.not THEN Not3(t) ELSE t

RECURSIVE Means(_, _)
\* The truth of a predicate: nil and "" say nothing, a map is the conjunction
\* of its entries, And and Or are what they are called.
Means(pred, row) ==
    CASE pred.k = "nil" -> "true"
      [] pred.k \in {"str", "expr"} ->
            IF pred.sql = <<>> THEN "true" ELSE Evaluate(pred.sql, row)
      [] pred.k = "eq" ->
            And3({LET x == row[entry[1]] IN
                  LET t == IF entry[2].k = "null" THEN IsNull(x)
                           ELSE Compare(x, "=", NumberOf(entry[2].v))
                  IN IF pred.not THEN Not3(t) ELSE t : entry \in ToSet(pred.map)})
      [] pred.k = "cmp" ->
            And3({Compare(row[entry[1]], pred.op, NumberOf(entry[2].v)) : entry \in ToSet(pred.map)})
      [] pred.k = "in" ->
            LET t == Within(row[pred.col], IF pred.val.k = "list" THEN ToSet(pred.val.vs) ELSE {pred.val.v})
            IN IF pred.not THEN Not3(t) ELSE t
      [] pred.k = "try" -> TryMeans(pred, row)
      [] pred.k = "conj" /\ pred.op = "AND" -> And3({Means(part, row) : part \in ToSet(pred.parts)})
      [] pred.k = "conj" /\ pred.op = "OR"  -> Or3({Means(part, row) : part \in ToSet(pred.parts)})

-----------------------------------------------------------------------------
(* Properties *)

Rows == [{"a", "b"} -> {0, 1, NoValue}]

\* OrderByClause of a query statement does not order, see OrderByAsAsked.
Misfiled == b.k = "select" /\ Len(b.orderBys) # Len(asked.orderBy)

\* A row passes the WHERE (HAVING) clause as the database reads it exactly if it
\* satisfies every predicate that was given to Where (Having) by the caller,
\* through whatever statement: none is lost, weakened, put into another clause
\* or joined to its neighbour in a way SQL groups differently, and those that
\* say nothing leave no gap in the text (of an update or a delete they leave
\* WHERE or AND with nothing behind it).  A predicate that is refused comes to no
\* statement, see FailsWhenRefused.
ConditionsHold ==
    LET result == ToSql(b)
        text == Bound(result.sql, result.args)
        where == ClauseOf(text, "WHERE")
        having == ClauseOf(text, "HAVING")
    IN  /\ b.k # "insert" /\ ~result.err /\ ~Misfiled
        /\ b.k = "select" \/ ~\E pred \in ToSet(asked.where) : SaysNothing(pred)
        =>  \A row \in Rows :
                /\ Passes(where, row) = And3({Means(pred, row) : pred \in ToSet(asked.where)})
                /\ Passes(having, row) = And3({Means(pred, row) : pred \in ToSet(asked.having)})

-----------------------------------------------------------------------------
(* What the documentation says *)

\* OrderByClause adds ORDER BY clause to the query (select.go): the clause is
\* made of what was given to it and to OrderBy, in that order.
OrderByAsAsked ==
    LET result == ToSql(b)
        terms == [i \in DOMAIN asked.orderBy |-> asked.orderBy[i].sql]
    IN ~result.err => ClauseOf(result.sql, "ORDER BY")
                        = IF terms = <<>> THEN <<>> ELSE <<Join(terms, Comma)>>
=============================================================================
