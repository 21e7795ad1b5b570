------------------------------ MODULE SqlText ------------------------------
(***************************************************************************)
(* What the ToSql methods of package builder write: a sequence of tokens   *)
(* and the arguments that go with it.                                      *)
(*                                                                         *)
(* A token is a pair: a keyword, a column or other name, or a placeholder  *)
(* <<"?", v>>, where v is the argument its author meant for it; the code   *)
(* only ever writes the question mark.  Blanks are left out.               *)
(*                                                                         *)
(* A Sqlizer is a record whose field k names its type.                     *)
(***************************************************************************)
EXTENDS Naturals, Sequences, SequencesExt, FiniteSetsExt

CONSTANT Nesting    \* bounds how deep Sqlizers are nested

K(word) == <<"kw", word>>
N(name) == <<"name", name>>
P(v)    == <<"?", v>>
IsPlaceholder(token) == token[1] = "?"

\* The condition literals "(1=1)" and "(1=0)".
sqlTrue  == K("(1=1)")
sqlFalse == K("(1=0)")

\* Plain values, and those that Eq and its like treat in their own way: nil,
\* slices, and a driver.Valuer whose Value fails.
Val(v)    == [k |-> "val", v |-> v]
Null      == [k |-> "null"]
List(vs)  == [k |-> "list", vs |-> vs]
BadValuer == [k |-> "badValuer"]

\* In the place of a Sqlizer there may also be nil, or something of a wrong type.
\* (An argument of Expr, Set or Values that is nil is a plain value.)
IsSqlizer(x) == x.k \notin {"val", "null", "list", "badValuer", "nil", "empty", "other"}

\* Results of ToSql.
Sql(tokens, args) == [sql |-> tokens, args |-> args, err |-> FALSE]
Word(word) == Sql(<<K(word)>>, <<>>)
Nothing == Sql(<<>>, <<>>)

\* No text: ToSql returns an error or, asked of a nil Sqlizer, panics.  Either
\* way nothing goes to the database.
Failure == [sql |-> <<>>, args |-> <<>>, err |-> TRUE]

\* Texts written one after the other; the first error is returned.
Concat(results) ==
    IF \E i \in DOMAIN results : results[i].err THEN Failure
    ELSE Sql(FlattenSeq([i \in DOMAIN results |-> results[i].sql]),
             FlattenSeq([i \in DOMAIN results |-> results[i].args]))

\* strings.Join.
Join(texts, sep) ==
    FlattenSeq([i \in DOMAIN texts |-> IF i = 1 THEN texts[i] ELSE sep \o texts[i]])

\* Variant: a part that fails is skipped like an empty one.
AppendedSkippingErrors(results, sep) ==
    LET sqls == [i \in DOMAIN results |-> results[i].sql] IN
    Sql(FlattenSeq([i \in DOMAIN sqls |->
            IF sqls[i] = <<>> \/ i = 1 THEN sqls[i] ELSE sep \o sqls[i]]),
        FlattenSeq([i \in DOMAIN sqls |-> results[i].args]))

\* appendToSql: an empty part is skipped; every other but the first of all
\* parts gets the separator, a part after an empty first one included.
Appended(results, sep) ==
    IF \E i \in DOMAIN results : results[i].err THEN Failure
    ELSE LET sqls == [i \in DOMAIN results |-> results[i].sql] IN
         Sql(FlattenSeq([i \in DOMAIN sqls |->
                 IF sqls[i] = <<>> \/ i = 1 THEN sqls[i] ELSE sep \o sqls[i]]),
             FlattenSeq([i \in DOMAIN sqls |->
                 IF sqls[i] = <<>> THEN <<>> ELSE results[i].args]))

\* The words of a clause and its parts, when there are parts.
Clause(words, results, sep) ==
    IF results = <<>> THEN Nothing
    ELSE Concat(<<Sql([i \in DOMAIN words |-> K(words[i])], <<>>),
                  Appended(results, sep)>>)

Names(words, names) ==
    IF names = <<>> THEN Nothing
    ELSE Sql([i \in DOMAIN words |-> K(words[i])]
             \o Join([i \in DOMAIN names |-> <<N(names[i])>>], <<K(",")>>), <<>>)

\* LIMIT and OFFSET are kept as text, "" when they are not set.
Number(word, n) == IF n = "" THEN Nothing ELSE Sql(<<K(word), N(n)>>, <<>>)

-----------------------------------------------------------------------------
(* Conditions: expr.go *)

And == <<K("AND")>>
Comma == <<K(",")>>
Parens(tokens) == <<K("(")>> \o tokens \o <<K(")")>>

\* Placeholders(count), each meant for its value.
Placeholders(vs) == Join([i \in DOMAIN vs |-> <<P(vs[i])>>], Comma)

\* One entry <<key, value>> of an Eq or NotEq; entries come sorted by key.
EqEntry(entry, not) ==
    LET key == entry[1]
        val == entry[2]
    IN CASE val.k = "null" -> Sql(<<N(key), K(IF not THEN "IS NOT" ELSE "IS"), K("NULL")>>, <<>>)
         [] val.k = "val"  -> Sql(<<N(key), K(IF not THEN "<>" ELSE "="), P(val.v)>>, <<val.v>>)
         [] OTHER -> Failure

EqSql(map, not) ==
    IF map = <<>> THEN Sql(<<sqlTrue>>, <<>>)
    ELSE LET entries == [i \in DOMAIN map |-> EqEntry(map[i], not)] IN
         IF \E i \in DOMAIN entries : entries[i].err THEN Failure
         ELSE Sql(Join([i \in DOMAIN map |-> entries[i].sql], And), Concat(entries).args)

\* Lt, Lte, Gt, Gte and the Like family: neither nil nor slices; an empty map
\* writes nothing.
CmpSql(map, op) ==
    IF \E i \in DOMAIN map : map[i][2].k # "val" THEN Failure
    ELSE Sql(Join([i \in DOMAIN map |-> <<N(map[i][1]), K(op), P(map[i][2].v)>>], And),
             [i \in DOMAIN map |-> map[i][2].v])

InSql(col, val, not) ==
    LET In(vs) == Sql(<<N(col), K(IF not THEN "NOT IN" ELSE "IN")>>
                      \o Parens(Placeholders(vs)), vs)
    IN CASE val.k = "list" /\ val.vs = <<>> -> Sql(<<IF not THEN sqlTrue ELSE sqlFalse>>, <<>>)
         [] val.k = "list" /\ val.vs # <<>> -> In(val.vs)
         [] val.k = "val" -> In(<<val.v>>)
         [] OTHER -> Failure

\* The results that hold something.
NonEmpty(results) ==
    FlattenSeq([i \in DOMAIN results |-> IF results[i].sql = <<>> THEN <<>> ELSE <<results[i]>>])

\* Variant: the parentheses around And and Or are left out.
ConjSqlBare(results, op) ==
    LET written == NonEmpty(results) IN
    CASE results = <<>> -> Sql(<<IF op = "AND" THEN sqlTrue ELSE sqlFalse>>, <<>>)
      [] results # <<>> /\ \E i \in DOMAIN results : results[i].err -> Failure
      [] OTHER -> Sql(Join([i \in DOMAIN written |-> written[i].sql], <<K(op)>>),
                      Concat(written).args)

\* And and Or: empty parts are dropped with their arguments.
ConjSql(results, op) ==
    LET written == NonEmpty(results)
        failed == \E i \in DOMAIN results : results[i].err
    IN CASE results = <<>> -> Sql(<<IF op = "AND" THEN sqlTrue ELSE sqlFalse>>, <<>>)
      [] failed -> Failure
      [] results # <<>> /\ ~failed /\ written = <<>> -> Nothing
      [] OTHER -> Sql(Parens(Join([i \in DOMAIN written |-> written[i].sql], <<K(op)>>)),
                      Concat(written).args)

\* Variant: the arguments of a nested Sqlizer come after the plain ones.
ExprSqlNestedLast(tokens, given, results) ==
    LET nth(j) == Cardinality({i \in 1 .. j : IsPlaceholder(tokens[i])})
        nested == {i \in DOMAIN given : IsSqlizer(given[i])}
        text == FlattenSeq([j \in DOMAIN tokens |->
                    IF IsPlaceholder(tokens[j]) /\ nth(j) \in nested
                    THEN results[nth(j)].sql ELSE <<tokens[j]>>])
        args(S) == FlattenSeq([i \in DOMAIN given |-> IF i \in S THEN results[i].args ELSE <<>>])
    IN IF \E i \in nested : results[i].err THEN Failure
       ELSE Sql(text, args(DOMAIN given \ nested) \o args(nested))

\* Expr: every placeholder takes the next argument; a Sqlizer takes the place
\* of its placeholder, and its arguments that of itself.
ExprSql(tokens, given, results) ==
    LET nth(j) == Cardinality({i \in 1 .. j : IsPlaceholder(tokens[i])})
        nested == {i \in DOMAIN given : IsSqlizer(given[i])}
        text == FlattenSeq([j \in DOMAIN tokens |->
                    IF IsPlaceholder(tokens[j]) /\ nth(j) \in nested
                    THEN results[nth(j)].sql ELSE <<tokens[j]>>])
    IN IF \E i \in nested : results[i].err THEN Failure
       ELSE Sql(text, FlattenSeq([i \in DOMAIN given |-> results[i].args]))

\* CASE: what and els are absent when they are <<>>.
CaseSql(what, whens, els) ==
    IF whens = <<>> THEN Failure
    ELSE Concat(<<Word("CASE")>> \o what
                \o FlattenSeq([i \in DOMAIN whens |->
                      <<Word("WHEN"), whens[i][1], Word("THEN"), whens[i][2]>>])
                \o (IF els = <<>> THEN <<>> ELSE <<Word("ELSE")>> \o els)
                \o <<Word("END")>>)

-----------------------------------------------------------------------------
(* Statements.  Fields that hold Sqlizers come as the results of their ToSql. *)

SelectSql(b, prefixes, columns, from, joins, where, having, orderBy, suffixes) ==
    IF b.columns = <<>> THEN Failure
    ELSE Concat(<<Appended(prefixes, <<>>), Word("SELECT"),
                  Sql([i \in DOMAIN b.options |-> K(b.options[i])], <<>>),
                  Appended(columns, Comma),
                  Clause(<<"FROM">>, from, <<>>),
                  Appended(joins, <<>>),
                  Clause(<<"WHERE">>, where, And),
                  Names(<<"GROUP BY">>, b.groupBys),
                  Clause(<<"HAVING">>, having, And),
                  Clause(<<"ORDER BY">>, orderBy, Comma),
                  Number("LIMIT", b.limit), Number("OFFSET", b.offset),
                  Appended(suffixes, <<>>)>>)

\* UPDATE; a value that is a SELECT is put in parentheses.
SetSql(clause, result) ==
    CASE ~IsSqlizer(clause[2]) -> Concat(<<Sql(<<N(clause[1]), K("=")>>, <<>>), result>>)
      [] IsSqlizer(clause[2]) /\ clause[2].k = "select" ->
            Concat(<<Sql(<<N(clause[1]), K("="), K("(")>>, <<>>), result, Word(")")>>)
      [] OTHER -> Concat(<<Sql(<<N(clause[1]), K("=")>>, <<>>), result>>)

UpdateSql(b, prefixes, values, from, where, suffixes) ==
    IF b.table = "" \/ b.sets = <<>> THEN Failure
    ELSE Concat(<<Appended(prefixes, <<>>), Word("UPDATE"), Sql(<<N(b.table)>>, <<>>), Word("SET"),
                  LET sets == [i \in DOMAIN b.sets |-> SetSql(b.sets[i], values[i])]
                  IN IF \E i \in DOMAIN sets : sets[i].err THEN Failure
                     ELSE Sql(Join([i \in DOMAIN sets |-> sets[i].sql], Comma), Concat(sets).args),
                  Clause(<<"FROM">>, from, <<>>),
                  Clause(<<"WHERE">>, where, And),
                  Names(<<"ORDER BY">>, b.orderBys),
                  Number("LIMIT", b.limit), Number("OFFSET", b.offset),
                  Appended(suffixes, <<>>)>>)

DeleteSql(b, prefixes, where, suffixes) ==
    IF b.table = "" THEN Failure
    ELSE Concat(<<Appended(prefixes, <<>>), Word("DELETE FROM"), Sql(<<N(b.table)>>, <<>>),
                  Clause(<<"WHERE">>, where, And),
                  Names(<<"ORDER BY">>, b.orderBys),
                  Number("LIMIT", b.limit), Number("OFFSET", b.offset),
                  Appended(suffixes, <<>>)>>)

\* INSERT: a SELECT has priority over rows of values.
RowSql(results) ==
    IF \E i \in DOMAIN results : results[i].err THEN Failure
    ELSE Sql(Parens(Join([i \in DOMAIN results |-> results[i].sql], Comma)), Concat(results).args)

InsertSql(b, prefixes, rows, select, suffixes) ==
    IF b.table = "" \/ (b.rows = <<>> /\ select = <<>>) THEN Failure
    ELSE LET written == [i \in DOMAIN rows |-> RowSql(rows[i])]
             values == IF \E i \in DOMAIN written : written[i].err THEN Failure
                       ELSE Sql(<<K("VALUES")>> \o Join([i \in DOMAIN written |-> written[i].sql], Comma),
                                Concat(written).args)
         IN Concat(<<Appended(prefixes, <<>>), Word(IF b.keyword = "" THEN "INSERT" ELSE b.keyword),
                     Sql([i \in DOMAIN b.options |-> K(b.options[i])], <<>>),
                     Word("INTO"), Sql(<<N(b.table)>>, <<>>),
                     IF b.cols = <<>> THEN Nothing
                     ELSE Sql(Parens(Join([i \in DOMAIN b.cols |-> <<N(b.cols[i])>>], Comma)), <<>>),
                     IF select # <<>> THEN select[1] ELSE values,
                     Appended(suffixes, <<>>)>>)

-----------------------------------------------------------------------------
\* newPart and newWherePart: what a clause or a CASE is given may be nil, and is
\* then written as nothing.  Everywhere else nil stays what it is.
Part(pred) == IF pred.k = "nil" THEN [k |-> "empty"] ELSE pred

\* Sqlizer.ToSql of s, where T[part] is what ToSql of a part returns; a plain
\* value becomes a placeholder and its argument.
Written(T, s) ==
    LET All(parts) == [i \in DOMAIN parts |-> T[parts[i]]] IN
    CASE s.k \in {"nil", "other"} -> Failure
      [] s.k = "empty"  -> Nothing
      [] s.k = "val"    -> Sql(<<P(s.v)>>, <<s.v>>)
      [] s.k = "str"    -> Sql(s.sql, s.args)
      [] s.k = "expr"   -> ExprSql(s.sql, s.given, All(s.given))
      [] s.k = "concat" -> Concat(All(s.parts))
      [] s.k = "alias"  -> Concat(<<Word("("), T[s.expr], Sql(<<K(")"), K("AS"), N(s.as)>>, <<>>)>>)
      [] s.k = "eq"     -> EqSql(s.map, s.not)
      [] s.k = "cmp"    -> CmpSql(s.map, s.op)
      [] s.k = "in"     -> InSql(s.col, s.val, s.not)
      [] s.k = "conj"   -> ConjSql(All(s.parts), s.op)
      [] s.k = "case"   -> CaseSql(All(s.what),
                                   [i \in DOMAIN s.whens |-> <<T[s.whens[i][1]], T[s.whens[i][2]]>>],
                                   All(s.els))
      [] s.k = "select" -> SelectSql(s, All(s.prefixes), All(s.columns), All(s.from), All(s.joins),
                                     All(s.where), All(s.having), All(s.orderBys), All(s.suffixes))
      [] s.k = "update" -> UpdateSql(s, All(s.prefixes), [i \in DOMAIN s.sets |-> T[s.sets[i][2]]],
                                     All(s.from), All(s.where), All(s.suffixes))
      [] s.k = "delete" -> DeleteSql(s, All(s.prefixes), All(s.where), All(s.suffixes))
      [] s.k = "insert" -> InsertSql(s, All(s.prefixes), [i \in DOMAIN s.rows |-> All(s.rows[i])],
                                     All(s.select), All(s.suffixes))

-----------------------------------------------------------------------------
(* The Sqlizers there are, and ToSql of each *)

Tokens == ({"kw", "name"} \X STRING) \cup ({"?"} \X Nat)
Vals   == [k : {"val"}, v : Nat]
Comparands == Vals \cup [k : {"list"}, vs : Seq(Nat)] \cup [k : {"null", "badValuer"}]
Entries == Seq(STRING \X Comparands)

\* The provers do not know that these are strings.
Keywords == {"(1=1)", "(1=0)", "(", ")", ",", "AND", "OR", "=", "<>", "IS", "IS NOT", "NULL", "IN", "NOT IN",
             "CASE", "WHEN", "THEN", "ELSE", "END", "AS", "SELECT", "FROM", "WHERE", "GROUP BY", "HAVING",
             "ORDER BY", "LIMIT", "OFFSET", "UPDATE", "SET", "DELETE FROM", "INSERT", "INTO", "VALUES",
             "LIKE", ">="}
ASSUME KeywordAssumption == Keywords \subseteq STRING

\* The arguments that the placeholders of a text are meant for.
MeantFor(tokens) ==
    FlattenSeq([j \in DOMAIN tokens |-> IF IsPlaceholder(tokens[j]) THEN <<tokens[j][2]>> ELSE <<>>])

\* A caller gives a text an argument for each of its placeholders.
Fits(tokens, given) ==
    LET marks == MeantFor(tokens) IN
    /\ Len(given) = Len(marks)
    /\ \A i \in DOMAIN given : IsSqlizer(given[i]) \/ given[i] = Val(marks[i])

\* Conditions and other expressions made of parts in S; these are more than Go
\* lets one build, for S holds values and parts besides Sqlizers.
ExprsOf(S) ==
    [k : {"nil", "empty", "other"}] \cup Vals
    \cup {s \in [k : {"str"}, sql : Seq(Tokens), args : Seq(Nat)] : s.args = MeantFor(s.sql)}
    \cup {s \in [k : {"expr"}, sql : Seq(Tokens), given : Seq(S)] : Fits(s.sql, s.given)}
    \cup [k : {"concat"}, parts : Seq(S)]
    \cup [k : {"alias"}, expr : S, as : STRING]
    \cup [k : {"eq"}, map : Entries, not : BOOLEAN]
    \cup [k : {"cmp"}, map : Entries, op : STRING]
    \cup [k : {"in"}, col : STRING, val : Comparands, not : BOOLEAN]
    \cup [k : {"conj"}, op : {"AND", "OR"}, parts : Seq(S)]
    \cup [k : {"case"}, what : Seq(S), whens : Seq(S \X S), els : Seq(S)]

\* Statements made of parts in S.
Selects(S) ==
    [k : {"select"}, prefixes : Seq(S), options : Seq(STRING), columns : Seq(S), from : Seq(S),
     joins : Seq(S), where : Seq(S), groupBys : Seq(STRING), having : Seq(S), orderBys : Seq(S),
     limit : STRING, offset : STRING, suffixes : Seq(S)]
Updates(S) ==
    [k : {"update"}, prefixes : Seq(S), table : STRING, sets : Seq(STRING \X S), from : Seq(S),
     where : Seq(S), orderBys : Seq(STRING), limit : STRING, offset : STRING, suffixes : Seq(S)]
Deletes(S) ==
    [k : {"delete"}, prefixes : Seq(S), table : STRING, where : Seq(S), orderBys : Seq(STRING),
     limit : STRING, offset : STRING, suffixes : Seq(S)]
Inserts(S) ==
    [k : {"insert"}, prefixes : Seq(S), keyword : STRING, options : Seq(STRING), table : STRING,
     cols : Seq(STRING), rows : Seq(Seq(S)), select : Seq(S), suffixes : Seq(S)]

StatementsOf(S) == Selects(S) \cup Updates(S) \cup Deletes(S) \cup Inserts(S)
SqlizersOf(S) == ExprsOf(S) \cup StatementsOf(S)

\* ToSql of the Sqlizers whose parts are nested n deep.
Above(below) == [s \in SqlizersOf(DOMAIN below) |-> Written(below, s)]
ToSqlAt[n \in Nat] == Above(IF n = 0 THEN <<>> ELSE ToSqlAt[n - 1])

Sqlizers(n) == DOMAIN ToSqlAt[n]
ToSql(s) == ToSqlAt[Nesting][s]

-----------------------------------------------------------------------------
(* The Sqlizers no SQL can be written for *)

\* Nil where a Sqlizer should be, of a wrong type, with a value that cannot be
\* had, with nil or a slice where only a value makes sense, or with something
\* missing.  That Eq and NotEq refuse slices is what the code does;
\* the comment on Where (select.go:278) promises IN.
Wrong(s) ==
    CASE s.k \in {"nil", "other"} -> TRUE
      [] s.k = "eq"     -> \E i \in DOMAIN s.map : s.map[i][2].k \in {"list", "badValuer"}
      [] s.k = "cmp"    -> \E i \in DOMAIN s.map : s.map[i][2].k # "val"
      [] s.k = "in"     -> s.val.k \in {"null", "badValuer"}
      [] s.k = "case"   -> s.whens = <<>>
      [] s.k = "select" -> s.columns = <<>>
      [] s.k = "update" -> s.table = "" \/ s.sets = <<>>
      [] s.k = "insert" -> s.table = "" \/ (s.rows = <<>> /\ s.select = <<>>)
      [] s.k = "delete" -> s.table = ""
      [] OTHER -> FALSE

\* The parts that have to be written with it.
PartsOf(s) ==
    CASE s.k \in {"concat", "conj"} -> ToSet(s.parts)
      [] s.k = "expr"   -> ToSet(s.given)
      [] s.k = "alias"  -> {s.expr}
      [] s.k = "case"   -> ToSet(s.what) \cup ToSet(s.els)
                           \cup UNION {{s.whens[i][1], s.whens[i][2]} : i \in DOMAIN s.whens}
      [] s.k = "select" -> ToSet(s.prefixes) \cup ToSet(s.columns) \cup ToSet(s.from) \cup ToSet(s.joins)
                           \cup ToSet(s.where) \cup ToSet(s.having) \cup ToSet(s.orderBys)
                           \cup ToSet(s.suffixes)
      [] s.k = "update" -> ToSet(s.prefixes) \cup {s.sets[i][2] : i \in DOMAIN s.sets} \cup ToSet(s.from)
                           \cup ToSet(s.where) \cup ToSet(s.suffixes)
      [] s.k = "delete" -> ToSet(s.prefixes) \cup ToSet(s.where) \cup ToSet(s.suffixes)
      [] s.k = "insert" -> ToSet(s.prefixes) \cup ToSet(s.suffixes)
                           \cup (IF s.select # <<>> THEN {s.select[1]}
                                 ELSE UNION {ToSet(s.rows[i]) : i \in DOMAIN s.rows})
      [] OTHER -> {}

\* One is refused that is wrong or has a part that is.
RefusedBy(below, s) == Wrong(s) \/ \E part \in PartsOf(s) : below[part]
RefusedAbove(below) == [s \in SqlizersOf(DOMAIN below) |-> RefusedBy(below, s)]
RefusedAt[n \in Nat] == RefusedAbove(IF n = 0 THEN <<>> ELSE RefusedAt[n - 1])
Refused(s) == RefusedAt[Nesting][s]
=============================================================================
