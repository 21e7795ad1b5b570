---------------------------- MODULE Placeholders ----------------------------
(***************************************************************************)
(* The way of the question marks, character by character: Expr.ToSql       *)
(* (builder/expr.go) puts nested Sqlizers in the place of theirs, the      *)
(* session (session.go) has them replaced when there are arguments, and    *)
(* replacePositionalPlaceholders (builder/placeholder.go) numbers them for *)
(* PostgreSQL, Oracle and SQL Server.  Two in a row are an escaped one.    *)
(* DebugSqlizer (builder/sqlizer.go) reads the same marks once more, to    *)
(* show a statement with its values.                                       *)
(*                                                                         *)
(* What is written is a sequence of characters with a number, 0 but for a  *)
(* numbered placeholder such as $2.                                        *)
(***************************************************************************)
EXTENDS Naturals, Sequences

CONSTANTS
    Chars,          \* the characters of a text, "?" among them
    Args,           \* the values bound
    Inputs,         \* the Exprs: [sql, given]
    Positional      \* the dialect numbers its placeholders

\* An argument given to Expr is a value or a Sqlizer, known by its ToSql.
Plain(v) == [nested |-> FALSE, sql |-> <<"?">>, args |-> <<v>>]
Nested(sql, args) == [nested |-> TRUE, sql |-> sql, args |-> args]

ASSUME PlaceholderAssumption ==
    /\ "?" \in Chars /\ "mark" \notin Chars
    /\ Positional \in BOOLEAN
    /\ \A expr \in Inputs :
          /\ expr.sql \in Seq(Chars)
          /\ expr.given \in Seq([nested : BOOLEAN, sql : Seq(Chars), args : Seq(Args)])

VARIABLES
    pc,
    input,      \* the Expr
    sp, ap,     \* what Expr.ToSql has not read yet
    text, args, \* what it has written
    sql,        \* what replacePositionalPlaceholders has not read yet
    buf, i      \* what it has written, and the last number

exprVars == <<sp, ap, text, args>>
vars == <<pc, input, sp, ap, text, args, sql, buf, i>>

Copied(chars) == [j \in 1 .. Len(chars) |-> [c |-> chars[j], n |-> 0]]

\* strings.Index(s, "?"), when there is one.
HasMark(s) == \E j \in 1 .. Len(s) : s[j] = "?"
Mark(s) == CHOOSE j \in 1 .. Len(s) : s[j] = "?" /\ \A h \in 1 .. j - 1 : s[h] # "?"
Escaped(s) == Mark(s) < Len(s) /\ s[Mark(s) + 1] = "?"

Upto(s, j) == SubSeq(s, 1, j)
After(s, j) == SubSeq(s, j + 1, Len(s))

Init ==
    /\ input \in Inputs
    /\ pc = "expand"
    /\ sp = input.sql /\ ap = input.given
    /\ text = <<>> /\ args = <<>>
    /\ sql = <<>> /\ buf = <<>> /\ i = 0

-----------------------------------------------------------------------------
(* Expr.ToSql *)

Expanding == pc = "expand" /\ ap # <<>> /\ sp # <<>> /\ HasMark(sp)

ExpandEscaped ==
    /\ Expanding
    /\ Escaped(sp)
    /\ text' = text \o Upto(sp, Mark(sp) + 1)
    /\ sp' = After(sp, Mark(sp) + 1)
    /\ UNCHANGED <<pc, input, ap, args, sql, buf, i>>

\* Variant: the escape is not looked for.
ExpandArgAnyMark ==
    /\ Expanding
    /\ text' = text \o Upto(sp, Mark(sp) - 1) \o ap[1].sql
    /\ args' = args \o ap[1].args
    /\ ap' = Tail(ap)
    /\ sp' = After(sp, Mark(sp))
    /\ UNCHANGED <<pc, input, sql, buf, i>>

\* A Sqlizer takes the place of its question mark; a value keeps it.  (Of a
\* Sqlizer that fails, see SqlText.)
ExpandArg ==
    /\ Expanding
    /\ ~Escaped(sp)
    /\ text' = text \o Upto(sp, Mark(sp) - 1) \o ap[1].sql
    /\ args' = args \o ap[1].args
    /\ ap' = Tail(ap)
    /\ sp' = After(sp, Mark(sp))
    /\ UNCHANGED <<pc, input, sql, buf, i>>

\* A Sqlizer that no question mark is left for is bound as it is.
AsValue(given) == IF given.nested THEN given.sql ELSE given.args[1]

\* What is left is appended, arguments too.
ExpandEnds ==
    /\ pc = "expand"
    /\ ~Expanding
    /\ text' = text \o sp
    /\ args' = args \o [j \in 1 .. Len(ap) |-> AsValue(ap[j])]
    /\ sp' = <<>> /\ ap' = <<>>
    /\ pc' = "send"
    /\ UNCHANGED <<input, sql, buf, i>>

-----------------------------------------------------------------------------
(* session.Exec and Query, and the numbering *)

\* Without arguments the text goes to the database as it is; Question returns
\* what it is given.
Send ==
    /\ pc = "send"
    /\ IF args = <<>> \/ ~Positional
       THEN pc' = "sent" /\ buf' = Copied(text) /\ UNCHANGED sql
       ELSE pc' = "replace" /\ sql' = text /\ UNCHANGED buf
    /\ UNCHANGED <<input, exprVars, i>>

ReplaceEscaped ==
    /\ pc = "replace"
    /\ HasMark(sql)
    /\ Escaped(sql)
    /\ buf' = buf \o Copied(Upto(sql, Mark(sql)))
    /\ sql' = After(sql, Mark(sql) + 1)
    /\ UNCHANGED <<pc, input, exprVars, i>>

\* Variant: numbers start at 0.
ReplaceMarkFromZero ==
    /\ pc = "replace"
    /\ HasMark(sql)
    /\ ~Escaped(sql)
    /\ i' = i + 1
    /\ buf' = buf \o Copied(Upto(sql, Mark(sql) - 1)) \o <<[c |-> "$", n |-> i]>>
    /\ sql' = After(sql, Mark(sql))
    /\ UNCHANGED <<pc, input, exprVars>>

ReplaceMark ==
    /\ pc = "replace"
    /\ HasMark(sql)
    /\ ~Escaped(sql)
    /\ i' = i + 1
    /\ buf' = buf \o Copied(Upto(sql, Mark(sql) - 1)) \o <<[c |-> "$", n |-> i + 1]>>
    /\ sql' = After(sql, Mark(sql))
    /\ UNCHANGED <<pc, input, exprVars>>

ReplaceEnds ==
    /\ pc = "replace"
    /\ ~HasMark(sql)
    /\ pc' = "sent"
    /\ buf' = buf \o Copied(sql)
    /\ sql' = <<>>
    /\ UNCHANGED <<input, exprVars, i>>

\* The statement was sent; the next Expr is another behaviour.
Sent == pc = "sent" /\ UNCHANGED vars

Next ==
    \/ ExpandEscaped \/ ExpandArg \/ ExpandEnds
    \/ Send \/ ReplaceEscaped \/ ReplaceMark \/ ReplaceEnds
    \/ Sent

Spec == Init /\ [][Next]_vars

-----------------------------------------------------------------------------
(* Types *)

Given == [nested : BOOLEAN, sql : Seq(Chars), args : Seq(Args)]

\* What is written to the database: "$" stands for the dialect's prefix.
Entry == [c : Chars \cup {"$"}, n : Nat]

TypeInv ==
    /\ pc \in {"expand", "send", "replace", "sent"}
    /\ sp \in Seq(Chars) /\ text \in Seq(Chars) /\ sql \in Seq(Chars)
    /\ ap \in Seq(Given)
    /\ buf \in Seq(Entry)
    /\ i \in Nat
    /\ pc \in {"expand", "send"} => buf = <<>> /\ i = 0

-----------------------------------------------------------------------------
(* Properties *)

IsNumber(entry) == entry.n # 0

\* The numbers in b are 1, 2, ... k, in this order, each once.
Numbered(b, k) ==
    /\ \A j \in 1 .. Len(b) : b[j].n <= k
    /\ \A j, h \in 1 .. Len(b) : j < h /\ IsNumber(b[j]) /\ IsNumber(b[h]) => b[j].n < b[h].n
    /\ \A m \in 1 .. k : \E j \in 1 .. Len(b) : b[j].n = m

\* The placeholders written are numbered 1, 2, ... in this order, each number
\* once, whatever the text (replacePositionalPlaceholders,
\* builder/placeholder.go): a gap or a repetition would bind every later
\* argument to the wrong placeholder.
NumbersInOrder == Numbered(buf, i)

Tokens == Chars \cup {"mark"}
Pieces == Tokens \cup Args

\* A text as its writer reads it: characters, an escaped question mark being
\* one of them, and marks.
Reading[s \in Seq(Chars)] ==
    IF s = <<>> THEN <<>>
    ELSE IF Head(s) # "?" THEN <<Head(s)>> \o Reading[Tail(s)]
    ELSE IF Len(s) > 1 /\ s[2] = "?" THEN <<"?">> \o Reading[After(s, 2)]
    ELSE <<"mark">> \o Reading[Tail(s)]

Marks[r \in Seq(Tokens)] ==
    IF r = <<>> THEN 0 ELSE (IF Head(r) = "mark" THEN 1 ELSE 0) + Marks[Tail(r)]

Fits(s, n) == Marks[Reading[s]] = n

\* As many arguments as marks, in the Expr and in those nested in it.
WellFormed(expr) ==
    /\ Fits(expr.sql, Len(expr.given))
    /\ \A j \in 1 .. Len(expr.given) : Fits(expr.given[j].sql, Len(expr.given[j].args))

\* A reading with what takes the place of its marks, in order.
Filled[p \in Seq(Tokens) \X Seq(Seq(Pieces))] ==
    IF p[1] = <<>> THEN <<>>
    ELSE IF Head(p[1]) = "mark" /\ p[2] # <<>>
    THEN Head(p[2]) \o Filled[<<Tail(p[1]), Tail(p[2])>>]
    ELSE <<Head(p[1])>> \o Filled[<<Tail(p[1]), p[2]>>]

Singles(values) == [h \in 1 .. Len(values) |-> <<values[h]>>]

\* What each of the Sqlizers and values given stands for.
Meanings(given) ==
    [j \in 1 .. Len(given) |-> Filled[<<Reading[given[j].sql], Singles(given[j].args)>>]]

Meaning(expr) == Filled[<<Reading[expr.sql], Meanings(expr.given)>>]

\* What the database makes of a numbered text and its arguments.
Bound == [j \in 1 .. Len(buf) |-> IF IsNumber(buf[j]) THEN args[buf[j].n] ELSE buf[j].c]

\* The database gets the text the writer meant, each value at the mark it was
\* given for, nested ones in their place, escaped question marks single:
\* Expr.ToSql keeps escapes escaped for the numbering that follows, and no
\* mark and escape run into each other where a Sqlizer was put in.
DriverSeesMeaning ==
    pc = "sent" /\ Positional /\ args # <<>> /\ WellFormed(input) => Bound = Meaning(input)

-----------------------------------------------------------------------------
(* DebugSqlizer *)

Showing(chars) == [shown |-> TRUE, text |-> chars]
DebugError == [shown |-> FALSE, text |-> <<>>]

\* What was shown, before the rest.
Before(chars, rest) == IF rest.shown THEN Showing(chars \o rest.text) ELSE DebugError

\* Variant: an escape is not looked for.
DebugFillAnyMark(s, n, values, rest) ==
    IF n + 1 > Len(values) THEN DebugError
    ELSE Before(Upto(s, Mark(s) - 1) \o <<values[n + 1]>>, rest[<<After(s, Mark(s)), n + 1>>])

\* One turn at a question mark, n values shown: what is shown from there on.
DebugFill(s, n, values, rest) ==
    IF Escaped(s) THEN Before(Upto(s, Mark(s)), rest[<<After(s, Mark(s) + 1), n>>])
    ELSE IF n + 1 > Len(values) THEN DebugError
    ELSE Before(Upto(s, Mark(s) - 1) \o <<values[n + 1]>>, rest[<<After(s, Mark(s)), n + 1>>])

\* The text with its values in place; an error for too few or too many.
DebugSqlizer(chars, values) ==
    LET Shown[p \in Seq(Chars) \X (0 .. Len(values))] ==
            IF HasMark(p[1]) THEN DebugFill(p[1], p[2], values, Shown)
            ELSE IF p[2] < Len(values) THEN DebugError ELSE Showing(p[1])
    IN Shown[<<chars, 0>>]

\* What DebugSqlizer shows of a statement with arguments is what the database
\* makes of it, and it shows an error exactly if there are more or fewer
\* arguments than the numbers written: the two loops that read question marks
\* (builder/sqlizer.go and builder/placeholder.go) agree on every text.
DebugShowsWhatIsSent ==
    pc = "sent" /\ Positional /\ args # <<>> =>
        DebugSqlizer(text, args) = IF i = Len(args) THEN Showing(Bound) ELSE DebugError
=============================================================================
