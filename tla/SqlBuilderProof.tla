--------------------------- MODULE SqlBuilderProof ----------------------------
(***************************************************************************)
(* A statement under construction keeps its types through any calls, so that *)
(* what SqlTextProof shows of every Sqlizer holds for it in every state:   *)
(* arguments in order (ArgumentsStayInOrder), and nothing sent exactly for *)
(* what is missing or was asked for and cannot be written (RefusalsFail).  *)
(*                                                                         *)
(* The first lemmas say of one thing the actions pass that it is a Sqlizer, *)
(* and how deep it is nested; then, that a statement with one of these in one *)
(* of its fields is a statement still.  For the errors, what is not refused is *)
(* Fine, and the inductive invariant FineInv says that everything but the  *)
(* predicates is, and that a predicate is refused exactly if it was asked for. *)
(***************************************************************************)
EXTENDS SqlTextProof, SqlBuilder

-----------------------------------------------------------------------------
(* Nesting *)

\* Sequences, and Sqlizers, over a larger set are more,
LEMMA SeqGrows == ASSUME NEW S, NEW T, S \subseteq T, NEW x \in Seq(S) PROVE x \in Seq(T)
OBVIOUS

LEMMA SqlizersGrow ==
    ASSUME NEW S, NEW T, S \subseteq T
    PROVE  SqlizersOf(S) \subseteq SqlizersOf(T) /\ StatementsOf(S) \subseteq StatementsOf(T)
<1>0. Seq(S) \subseteq Seq(T) /\ Seq(S \X S) \subseteq Seq(T \X T)
      /\ Seq(STRING \X S) \subseteq Seq(STRING \X T) /\ Seq(Seq(S)) \subseteq Seq(Seq(T))
  <2>1. Seq(S) \subseteq Seq(T)
    BY SeqGrows
  <2>2. S \X S \subseteq T \X T /\ STRING \X S \subseteq STRING \X T
    OBVIOUS
  <2> QED BY <2>1, <2>2, SeqGrows
<1>1. ExprsOf(S) \subseteq ExprsOf(T)
  <2> SUFFICES ASSUME NEW s \in ExprsOf(S) PROVE s \in ExprsOf(T)
    OBVIOUS
  <2>0. \/ s \in [k : {"nil", "empty", "other"}] \cup Vals
        \/ s \in {x \in [k : {"str"}, sql : Seq(Tokens), args : Seq(Nat)] : x.args = MeantFor(x.sql)}
        \/ s \in [k : {"expr"}, sql : Seq(Tokens), given : Seq(S)] /\ Fits(s.sql, s.given)
        \/ s \in [k : {"concat"}, parts : Seq(S)]
        \/ s \in [k : {"alias"}, expr : S, as : STRING]
        \/ s \in [k : {"eq"}, map : Entries, not : BOOLEAN]
        \/ s \in [k : {"cmp"}, map : Entries, op : STRING]
        \/ s \in [k : {"in"}, col : STRING, val : Comparands, not : BOOLEAN]
        \/ s \in [k : {"conj"}, op : {"AND", "OR"}, parts : Seq(S)]
        \/ s \in [k : {"case"}, what : Seq(S), whens : Seq(S \X S), els : Seq(S)]
    BY Zenon DEF ExprsOf
  <2>1. CASE s \in [k : {"expr"}, sql : Seq(Tokens), given : Seq(S)] /\ Fits(s.sql, s.given)
    <3>1. s \in [k : {"expr"}, sql : Seq(Tokens), given : Seq(T)] /\ Fits(s.sql, s.given)
      BY <1>0, <2>1
    <3> QED BY <3>1, Zenon DEF ExprsOf
  <2>2. CASE s \in [k : {"concat"}, parts : Seq(S)]
    <3>1. s \in [k : {"concat"}, parts : Seq(T)]
      BY <1>0, <2>2
    <3> QED BY <3>1, Zenon DEF ExprsOf
  <2>3. CASE s \in [k : {"alias"}, expr : S, as : STRING]
    <3>1. s \in [k : {"alias"}, expr : T, as : STRING]
      BY <2>3
    <3> QED BY <3>1, Zenon DEF ExprsOf
  <2>4. CASE s \in [k : {"conj"}, op : {"AND", "OR"}, parts : Seq(S)]
    <3>1. s \in [k : {"conj"}, op : {"AND", "OR"}, parts : Seq(T)]
      BY <1>0, <2>4
    <3> QED BY <3>1, Zenon DEF ExprsOf
  <2>5. CASE s \in [k : {"case"}, what : Seq(S), whens : Seq(S \X S), els : Seq(S)]
    <3>1. s \in [k : {"case"}, what : Seq(T), whens : Seq(T \X T), els : Seq(T)]
      BY <1>0, <2>5
    <3> QED BY <3>1, Zenon DEF ExprsOf
  <2> QED BY <2>0, <2>1, <2>2, <2>3, <2>4, <2>5, Zenon DEF ExprsOf
<1>2. StatementsOf(S) \subseteq StatementsOf(T)
  <2>1. Selects(S) \subseteq Selects(T)
    BY <1>0 DEF Selects
  <2>2. Updates(S) \subseteq Updates(T)
    BY <1>0 DEF Updates
  <2>3. Deletes(S) \subseteq Deletes(T)
    BY <1>0 DEF Deletes
  <2>4. Inserts(S) \subseteq Inserts(T)
    BY <1>0 DEF Inserts
  <2> QED BY <2>1, <2>2, <2>3, <2>4, Zenon DEF StatementsOf
<1> QED BY <1>1, <1>2, Zenon DEF SqlizersOf

\* so each level holds those below it.
LEMMA Deeper == \A n \in Nat : Sqlizers(n) \subseteq Sqlizers(n + 1)
<1> DEFINE G == {n \in Nat : Sqlizers(n) \subseteq Sqlizers(n + 1)}
<1>1. 0 \in G
  <2>1. Sqlizers(0) = SqlizersOf({}) /\ Sqlizers(0 + 1) = SqlizersOf(Sqlizers(0))
    BY SqlizersAt, Zenon
  <2>2. Sqlizers(0) \subseteq Sqlizers(0 + 1)
    BY <2>1, SqlizersGrow
  <2> QED BY <2>2
<1>2. ASSUME NEW n \in Nat, n \in G PROVE n + 1 \in G
  <2>1. n + 1 \in Nat /\ Sqlizers(n) \subseteq Sqlizers(n + 1)
    BY <1>2
  <2>2. Sqlizers(n + 1) = SqlizersOf(Sqlizers(n)) /\ Sqlizers((n + 1) + 1) = SqlizersOf(Sqlizers(n + 1))
    BY <2>1, SqlizersAt, Zenon
  <2>3. Sqlizers(n + 1) \subseteq Sqlizers((n + 1) + 1)
    BY <2>1, <2>2, SqlizersGrow
  <2> QED BY <2>1, <2>3
<1>3. Nat \subseteq G
  <2> HIDE DEF G
  <2> QED BY <1>1, <1>2, SetInduction
<1> QED BY <1>3

LEMMA DeeperStill ==
    ASSUME NEW n \in Nat, NEW m \in Nat, n <= m
    PROVE  Sqlizers(n) \subseteq Sqlizers(m)
<1> DEFINE G == {d \in Nat : Sqlizers(n) \subseteq Sqlizers(n + d)}
<1>1. 0 \in G
  <2>1. n + 0 = n
    OBVIOUS
  <2> QED BY <2>1
<1>2. ASSUME NEW d \in Nat, d \in G PROVE d + 1 \in G
  <2>1. n + d \in Nat /\ n + (d + 1) = (n + d) + 1
    OBVIOUS
  <2>2. Sqlizers(n + d) \subseteq Sqlizers((n + d) + 1)
    BY <2>1, Deeper
  <2> QED BY <1>2, <2>1, <2>2
<1>3. Nat \subseteq G
  <2> HIDE DEF G
  <2> QED BY <1>1, <1>2, SetInduction
<1>4. m - n \in Nat /\ n + (m - n) = m
  OBVIOUS
<1>5. m - n \in G
  BY <1>3, <1>4
<1> QED BY <1>4, <1>5

\* Expressions without parts are nested in no depth.
Flat == SqlizersOf({})

LEMMA LevelsAre ==
    ASSUME NEW n \in Nat
    PROVE  Flat \subseteq Sqlizers(n) /\ ExprsOf(Sqlizers(n)) \subseteq Sqlizers(n + 1)
           /\ StatementsOf(Sqlizers(n)) \subseteq Sqlizers(n + 1)
<1>1. Flat \subseteq Sqlizers(n)
  BY SqlizersAt, DeeperStill DEF Flat
<1>2. Sqlizers(n + 1) = SqlizersOf(Sqlizers(n))
  BY SqlizersAt
<1> QED BY <1>1, <1>2, Zenon DEF SqlizersOf

-----------------------------------------------------------------------------
(* Texts with one or two placeholders *)

\* What a text with one placeholder, with two and with none is meant for.
LEMMA MarkedOnce ==
    ASSUME NEW t \in Texts, NEW j \in DOMAIN t, IsPlaceholder(t[j]),
           \A i \in DOMAIN t : IsPlaceholder(t[i]) => i = j
    PROVE  MeantFor(t) = <<t[j][2]>>
<1> DEFINE before(i) == {h \in 1 .. i : IsPlaceholder(t[h])}
<1>1. PICK n \in Nat : n = Len(t) /\ DOMAIN t = 1 .. n
  BY DEF Texts
<1>2. before(n) = {j} /\ before(j) = {j}
  BY <1>1
<1> HIDE DEF before
<1>3. Cardinality(before(n)) = 1 /\ Cardinality(before(j)) = 1
  BY <1>2, FS_Singleton
<1>4. Nth(t, n) = 1 /\ Nth(t, j) = 1
  BY <1>3, Zenon DEF Nth, before
<1>5. Len(MeantFor(t)) = 1 /\ MeantFor(t)[1] = t[j][2]
  BY <1>1, <1>4, NthMark
<1>6. MeantFor(t) \in Seq(Nat)
  BY MeantType
<1> QED BY <1>5, <1>6

LEMMA MarkedTwice ==
    ASSUME NEW t \in Texts, NEW i \in DOMAIN t, NEW j \in DOMAIN t, i < j,
           IsPlaceholder(t[i]), IsPlaceholder(t[j]),
           \A h \in DOMAIN t : IsPlaceholder(t[h]) => h = i \/ h = j
    PROVE  MeantFor(t) = <<t[i][2], t[j][2]>>
<1> DEFINE before(h) == {g \in 1 .. h : IsPlaceholder(t[g])}
<1>1. PICK n \in Nat : n = Len(t) /\ DOMAIN t = 1 .. n
  BY DEF Texts
<1>2. before(n) = {i, j} /\ before(i) = {i} /\ before(j) = {i, j} /\ i # j
  BY <1>1
<1> HIDE DEF before
<1>3. Cardinality({i}) = 1 /\ Cardinality({i, j}) = 2
  <2>1. Cardinality({i}) = 1 /\ IsFiniteSet({i})
    BY FS_Singleton
  <2>2. {i, j} = {i} \cup {j} /\ j \notin {i}
    BY <1>2
  <2> QED BY <2>1, <2>2, FS_AddElement
<1>4. Nth(t, n) = 2 /\ Nth(t, i) = 1 /\ Nth(t, j) = 2
  BY <1>2, <1>3, Zenon DEF Nth, before
<1>5. Len(MeantFor(t)) = 2 /\ MeantFor(t)[1] = t[i][2] /\ MeantFor(t)[2] = t[j][2]
  BY <1>1, <1>4, NthMark
<1>6. MeantFor(t) \in Seq(Nat)
  BY MeantType
<1> QED BY <1>5, <1>6

LEMMA UnmarkedText ==
    ASSUME NEW t \in Texts, \A i \in DOMAIN t : ~IsPlaceholder(t[i])
    PROVE  MeantFor(t) = <<>>
<1>1. Plain(t)
  BY DEF Plain, Texts, Mark
<1> QED BY <1>1, MeantPlain

-----------------------------------------------------------------------------
(* What callers pass *)

\* The words are strings.
LEMMA Spoken == Keywords \subseteq STRING /\ Words \subseteq STRING
BY KeywordAssumption, WordAssumption

\* Keywords and names are tokens without arguments; a placeholder is one with.
LEMMA PlainTokens ==
    ASSUME NEW w \in STRING
    PROVE  K(w) \in Tokens /\ ~IsPlaceholder(K(w)) /\ N(w) \in Tokens /\ ~IsPlaceholder(N(w))
<1>1. K(w) \in Tokens /\ N(w) \in Tokens
  BY TokenTypes, Zenon
<1> QED BY <1>1 DEF K, N, IsPlaceholder

LEMMA MarkTokens ==
    ASSUME NEW v \in Nat
    PROVE  P(v) \in Tokens /\ IsPlaceholder(P(v)) /\ P(v)[2] = v
<1>1. P(v) \in Tokens
  BY TokenTypes, Zenon
<1> QED BY <1>1 DEF P, IsPlaceholder

\* A text with its only placeholder at the end.
LEMMA EndsMarked ==
    ASSUME NEW x \in STRING, NEW y \in STRING, NEW v \in Nat
    PROVE  <<N(x), K(y), P(v)>> \in Texts /\ MeantFor(<<N(x), K(y), P(v)>>) = <<v>>
<1>1. N(x) \in Tokens /\ Mark(N(x)) = <<>> /\ K(y) \in Tokens /\ Mark(K(y)) = <<>>
      /\ P(v) \in Tokens /\ Mark(P(v)) = <<v>>
  BY TokenTypes, Zenon
<1> QED BY <1>1, MarkedTriple

\* What a condition compares, and its entries.
LEMMA ComparandIs ==
    /\ \A v \in Nat : Val(v) \in Comparands
    /\ \A vs \in Seq(Nat) : List(vs) \in Comparands
    /\ Null \in Comparands /\ BadValuer \in Comparands
BY DEF Comparands, Vals, Val, List, Null, BadValuer

LEMMA EntriesAre ==
    ASSUME NEW x \in STRING, NEW c \in Comparands
    PROVE  <<>> \in Entries /\ <<<<x, c>>>> \in Entries
           /\ \A y \in STRING, d \in Comparands : <<<<x, c>>, <<y, d>>>> \in Entries
<1>1. <<>> \in Entries
  BY DEF Entries
<1>2. \A y \in STRING, d \in Comparands : <<y, d>> \in STRING \X Comparands
  OBVIOUS
<1>3. PICK e \in STRING \X Comparands : e = <<x, c>>
  BY <1>2
<1>4. <<e>> \in Entries
  BY Single, Zenon DEF Entries
<1>5. ASSUME NEW f \in STRING \X Comparands PROVE <<e, f>> \in Entries
  <2> DEFINE S == STRING \X Comparands
  <2>1. e \in S /\ f \in S
    BY <1>5
  <2> HIDE DEF S
  <2>2. <<e, f>> \in Seq(S)
    BY <2>1
  <2> QED BY <2>2, Zenon DEF Entries, S
<1> QED BY <1>1, <1>2, <1>3, <1>4, <1>5, Zenon

\* Sqlizers without parts,
LEMMA FlatAre ==
    /\ [k |-> "nil"] \in Flat /\ [k |-> "empty"] \in Flat /\ [k |-> "other"] \in Flat
    /\ \A v \in Nat : Val(v) \in Flat
    /\ \A t \in Texts : Str(t, MeantFor(t)) \in Flat
    /\ \A map \in Entries, op \in STRING, not \in BOOLEAN :
         Eq(map) \in Flat /\ [k |-> "eq", not |-> not, map |-> map] \in Flat /\ Cmp(op, map) \in Flat
    /\ \A col \in STRING, not \in BOOLEAN, val \in Comparands : In(col, not, val) \in Flat
<1>1. ExprsOf({}) \subseteq Flat
  BY Zenon DEF Flat, SqlizersOf
<1>2. /\ \A kind \in {"nil", "empty", "other"} : [k |-> kind] \in [k : {"nil", "empty", "other"}]
      /\ \A v \in Nat : Val(v) \in Vals
  BY DEF Val, Vals
<1>3. ASSUME NEW t \in Texts PROVE Str(t, MeantFor(t)) \in Flat
  <2>1. MeantFor(t) \in Seq(Nat) /\ t \in Seq(Tokens)
    BY MeantType DEF Texts
  <2>2. /\ Str(t, MeantFor(t)) \in [k : {"str"}, sql : Seq(Tokens), args : Seq(Nat)]
        /\ Str(t, MeantFor(t)).args = MeantFor(Str(t, MeantFor(t)).sql)
    BY <2>1 DEF Str
  <2> QED BY <1>1, <2>2, Zenon DEF ExprsOf
<1>4. ASSUME NEW map \in Entries, NEW op \in STRING, NEW not \in BOOLEAN
      PROVE  Eq(map) \in Flat /\ [k |-> "eq", not |-> not, map |-> map] \in Flat /\ Cmp(op, map) \in Flat
  <2>1. /\ Eq(map) \in [k : {"eq"}, map : Entries, not : BOOLEAN]
        /\ [k |-> "eq", not |-> not, map |-> map] \in [k : {"eq"}, map : Entries, not : BOOLEAN]
        /\ Cmp(op, map) \in [k : {"cmp"}, map : Entries, op : STRING]
    BY DEF Eq, Cmp
  <2> QED BY <1>1, <2>1, Zenon DEF ExprsOf
<1>5. ASSUME NEW col \in STRING, NEW not \in BOOLEAN, NEW val \in Comparands
      PROVE  In(col, not, val) \in Flat
  <2>1. In(col, not, val) \in [k : {"in"}, col : STRING, val : Comparands, not : BOOLEAN]
    BY DEF In
  <2> QED BY <1>1, <2>1, Zenon DEF ExprsOf
<1>6. [k |-> "nil"] \in Flat /\ [k |-> "empty"] \in Flat /\ [k |-> "other"] \in Flat
      /\ \A v \in Nat : Val(v) \in Flat
  <2>1. [k : {"nil", "empty", "other"}] \subseteq Flat /\ Vals \subseteq Flat
    BY <1>1, Zenon DEF ExprsOf
  <2> QED BY <1>2, <2>1
<1> QED BY <1>3, <1>4, <1>5, <1>6

\* an And or Or, and an Expr.
LEMMA ConjIs ==
    ASSUME NEW S, NEW op \in {"AND", "OR"}, NEW parts \in Seq(S)
    PROVE  [k |-> "conj", op |-> op, parts |-> parts] \in ExprsOf(S)
<1>1. [k |-> "conj", op |-> op, parts |-> parts] \in [k : {"conj"}, op : {"AND", "OR"}, parts : Seq(S)]
  OBVIOUS
<1> QED BY <1>1, Zenon DEF ExprsOf

LEMMA ExprIs ==
    ASSUME NEW S, NEW t \in Texts, NEW given \in Seq(S), Fits(t, given)
    PROVE  Expr(t, given) \in ExprsOf(S)
<1>1. /\ Expr(t, given) \in [k : {"expr"}, sql : Seq(Tokens), given : Seq(S)]
      /\ Expr(t, given).sql = t /\ Expr(t, given).given = given
  BY DEF Expr, Texts
<1>2. Fits(Expr(t, given).sql, Expr(t, given).given)
  BY <1>1, Zenon
<1> QED BY <1>1, <1>2, Zenon DEF ExprsOf

\* A text with one placeholder fits its argument, one with two its two.
LEMMA FitsOne ==
    ASSUME NEW t \in Texts, NEW v \in Nat, MeantFor(t) = <<v>>, NEW x, IsSqlizer(x) \/ x = Val(v)
    PROVE  Fits(t, <<x>>)
<1>1. Len(<<x>>) = Len(<<v>>) /\ \A i \in DOMAIN <<x>> : i = 1
  OBVIOUS
<1>2. <<x>>[1] = x /\ <<v>>[1] = v
  OBVIOUS
<1> QED BY <1>1, <1>2, Zenon DEF Fits

LEMMA FitsTwo ==
    ASSUME NEW t \in Texts, NEW v \in Nat, NEW w \in Nat, MeantFor(t) = <<v, w>>,
           NEW x, IsSqlizer(x) \/ x = Val(v)
    PROVE  Fits(t, <<x, Val(w)>>)
<1>1. PICK y : y = Val(w)
  BY Zenon
<1>2. Len(<<x, y>>) = Len(<<v, w>>) /\ \A i \in DOMAIN <<x, y>> : i = 1 \/ i = 2
  OBVIOUS
<1>3. <<x, y>>[1] = x /\ <<x, y>>[2] = y /\ <<v, w>>[1] = v /\ <<v, w>>[2] = w
  OBVIOUS
<1> QED BY <1>1, <1>2, <1>3, Zenon DEF Fits

\* A sequence of two.
LEMMA PairIs == ASSUME NEW S, NEW x \in S, NEW y \in S PROVE <<x, y>> \in Seq(S)
OBVIOUS

-----------------------------------------------------------------------------
(* Package try *)

\* A comparison with a value that is there
LEMMA ComparedIs ==
    ASSUME NEW op \in STRING, NEW col \in STRING, NEW val \in Comparands
    PROVE  Compared(op, col, val) \in Flat
<1>1. <<<<col, val>>>> \in Entries
  BY EntriesAre
<1>2. (op = "<>") \in BOOLEAN
  OBVIOUS
<1>3. CASE op \in {"=", "<>"}
  <2>1. Compared(op, col, val) = [k |-> "eq", not |-> op = "<>", map |-> <<<<col, val>>>>]
    BY <1>3, Zenon DEF Compared
  <2>2. [k |-> "eq", not |-> op = "<>", map |-> <<<<col, val>>>>] \in Flat
    BY <1>1, <1>2, FlatAre, Zenon
  <2> QED BY <2>1, <2>2, Zenon
<1>4. CASE op \notin {"=", "<>"}
  <2>1. Compared(op, col, val) = Cmp(op, <<<<col, val>>>>)
    BY <1>4, Zenon DEF Compared, Cmp
  <2>2. Cmp(op, <<<<col, val>>>>) \in Flat
    BY <1>1, FlatAre, Zenon
  <2> QED BY <2>1, <2>2, Zenon
<1> QED BY <1>3, <1>4

LEMMA BoundIs ==
    ASSUME NEW val \in Vals \cup {Missing}, val # Missing
    PROVE  val \in Comparands
BY DEF Comparands

LEMMA NoneIsFlat == [k |-> "nil"] \in Flat /\ [k |-> "empty"] \in Flat
BY FlatAre

\* or may be missing.
LEMMA TryCompareIs ==
    ASSUME NEW op \in STRING, NEW col \in STRING, NEW val \in Vals \cup {Missing}
    PROVE  TryCompare(op, col, val) \in Flat
<1>1. CASE val = Missing
  BY <1>1, NoneIsFlat DEF TryCompare
<1>2. CASE val # Missing
  BY <1>2, BoundIs, ComparedIs DEF TryCompare
<1> QED BY <1>1, <1>2

\* What the functions of package try return is one condition, or one of such.
LEMMA TryIs ==
    ASSUME NEW call \in TryCalls
    PROVE  Given(call) \in Flat \cup ExprsOf(Flat)
<1> DEFINE B == Vals \cup {Missing}
<1>0. \/ call \in [k : {"try"}, f : {"compare"}, op : STRING, col : STRING, val : B]
      \/ call \in [k : {"try"}, f : {"range"}, col : STRING, min : B, max : B, below : STRING]
      \/ call \in [k : {"try"}, f : {"likes"}, col : STRING, vals : Seq(Vals)]
      \/ call \in [k : {"try"}, f : {"multi"}, cols : Seq(STRING), val : B]
      \/ call \in [k : {"try"}, f : {"in"}, col : STRING, vs : Seq(Nat), not : BOOLEAN]
  BY Zenon DEF TryCalls
<1>a. "LIKE" \in STRING /\ ">=" \in STRING
  BY KeywordAssumption DEF Keywords
<1>1. CASE call \in [k : {"try"}, f : {"compare"}, op : STRING, col : STRING, val : B]
  <2>1. call.k = "try" /\ call.f = "compare" /\ call.op \in STRING /\ call.col \in STRING /\ call.val \in B
    BY <1>1
  <2>2. Given(call) = TryCompare(call.op, call.col, call.val)
    BY <2>1 DEF Given
  <2> QED BY <2>1, <2>2, TryCompareIs
<1>2. CASE call \in [k : {"try"}, f : {"range"}, col : STRING, min : B, max : B, below : STRING]
  <2>1. call.k = "try" /\ call.f = "range" /\ call.col \in STRING /\ call.min \in B /\ call.max \in B
        /\ call.below \in STRING
    BY <1>2
  <2>2. Given(call) = TryRange(call.col, call.min, call.max, call.below)
    BY <2>1 DEF Given
  <2>3. CASE call.min = Missing
    <3>1. Given(call) = TryCompare(call.below, call.col, call.max)
      BY <2>2, <2>3 DEF TryRange
    <3> QED BY <2>1, <3>1, TryCompareIs
  <2>4. CASE call.min # Missing
    <3>1. Compared(">=", call.col, call.min) \in Flat
      BY <1>a, <2>1, <2>4, BoundIs, ComparedIs
    <3>2. CASE call.max = Missing
      <4>1. Given(call) = Compared(">=", call.col, call.min)
        BY <2>2, <2>4, <3>2 DEF TryRange
      <4> QED BY <3>1, <4>1
    <3>3. CASE call.max # Missing
      <4>1. Compared(call.below, call.col, call.max) \in Flat
        BY <2>1, <3>3, BoundIs, ComparedIs
      <4>2. <<Compared(">=", call.col, call.min), Compared(call.below, call.col, call.max)>> \in Seq(Flat)
        BY <3>1, <4>1, PairIs
      <4>3. Given(call) = AllOf(<<Compared(">=", call.col, call.min), Compared(call.below, call.col, call.max)>>)
        BY <2>2, <2>4, <3>3 DEF TryRange
      <4>4. Given(call) \in ExprsOf(Flat)
        BY <4>2, <4>3, ConjIs DEF AllOf
      <4> QED BY <4>4
    <3> QED BY <3>2, <3>3
  <2> QED BY <2>3, <2>4
<1>3. CASE call \in [k : {"try"}, f : {"likes"}, col : STRING, vals : Seq(Vals)]
  <2>1. call.k = "try" /\ call.f = "likes" /\ call.col \in STRING /\ call.vals \in Seq(Vals)
    BY <1>3
  <2>2. Given(call) = TryLikes(call.col, call.vals)
    BY <2>1 DEF Given
  <2> DEFINE parts == [i \in DOMAIN call.vals |-> Compared("LIKE", call.col, call.vals[i])]
  <2>3. DOMAIN call.vals = 1 .. Len(call.vals) /\ Len(call.vals) \in Nat
        /\ \A i \in DOMAIN call.vals : call.vals[i] \in Vals
    BY <2>1
  <2>4. Vals \subseteq Comparands
    BY Zenon DEF Comparands
  <2>5. \A i \in DOMAIN call.vals : Compared("LIKE", call.col, call.vals[i]) \in Flat
    BY <1>a, <2>1, <2>3, <2>4, ComparedIs
  <2>6. parts \in Seq(Flat)
    BY <2>3, <2>5
  <2>7. Given(call) \in {[k |-> "nil"], AnyOf(parts)}
    BY <2>2, Zenon DEF TryLikes
  <2> HIDE DEF parts
  <2>8. AnyOf(parts) \in ExprsOf(Flat)
    BY <2>6, ConjIs DEF AnyOf
  <2> QED BY <2>7, <2>8, NoneIsFlat
<1>4. CASE call \in [k : {"try"}, f : {"multi"}, cols : Seq(STRING), val : B]
  <2>1. call.k = "try" /\ call.f = "multi" /\ call.cols \in Seq(STRING) /\ call.val \in B
    BY <1>4
  <2>2. Given(call) = TryMultiLike(call.cols, call.val)
    BY <2>1 DEF Given
  <2> DEFINE parts == [i \in DOMAIN call.cols |-> Compared("LIKE", call.cols[i], call.val)]
  <2>3. CASE call.val = Missing
    BY <2>2, <2>3, NoneIsFlat DEF TryMultiLike
  <2>4. CASE call.val # Missing
    <3>1. DOMAIN call.cols = 1 .. Len(call.cols) /\ Len(call.cols) \in Nat
          /\ \A i \in DOMAIN call.cols : call.cols[i] \in STRING
      BY <2>1
    <3>2. call.val \in Comparands
      BY <2>1, <2>4, BoundIs
    <3>3. \A i \in DOMAIN call.cols : Compared("LIKE", call.cols[i], call.val) \in Flat
      BY <1>a, <3>1, <3>2, ComparedIs, Zenon
    <3>4. parts \in Seq(Flat)
      BY <3>1, <3>3
    <3>5. Given(call) = AnyOf(parts)
      BY <2>2, <2>4, Zenon DEF TryMultiLike
    <3> HIDE DEF parts
    <3>6. AnyOf(parts) \in ExprsOf(Flat)
      BY <3>4, ConjIs DEF AnyOf
    <3> QED BY <3>5, <3>6
  <2> QED BY <2>3, <2>4
<1>5. CASE call \in [k : {"try"}, f : {"in"}, col : STRING, vs : Seq(Nat), not : BOOLEAN]
  <2>1. call.k = "try" /\ call.f = "in" /\ call.col \in STRING /\ call.vs \in Seq(Nat) /\ call.not \in BOOLEAN
    BY <1>5
  <2>2. Given(call) = TryIn(call.col, call.vs, call.not)
    BY <2>1 DEF Given
  <2>3. Given(call) \in {[k |-> "nil"], In(call.col, call.not, List(call.vs))}
    BY <2>2, Zenon DEF TryIn, In
  <2>4. In(call.col, call.not, List(call.vs)) \in Flat
    BY <2>1, ComparandIs, FlatAre, Zenon
  <2> QED BY <2>3, <2>4, NoneIsFlat
<1> HIDE DEF B
<1> QED BY <1>0, <1>1, <1>2, <1>3, <1>4, <1>5

-----------------------------------------------------------------------------
(* What the actions give the builder *)

\* The words one by one.
LEMMA NamesAndWords ==
    /\ "a" \in STRING /\ "b" \in STRING /\ "c" \in STRING /\ "d" \in STRING /\ "s" \in STRING
    /\ "t" \in STRING /\ "u" \in STRING /\ "x" \in STRING /\ "" \in STRING /\ "1" \in STRING
    /\ "<" \in STRING /\ "<=" \in STRING /\ "+" \in STRING /\ "NOT LIKE" \in STRING
    /\ "WITH" \in STRING /\ "RETURNING" \in STRING /\ "DISTINCT" \in STRING /\ "IGNORE" \in STRING
    /\ "REPLACE" \in STRING /\ "JOIN" \in STRING /\ "ON" \in STRING
    /\ "FIELD" \in STRING /\ "COALESCE" \in STRING /\ "UPPER" \in STRING /\ "NOT" \in STRING
BY WordAssumption DEF Words

LEMMA MoreWords ==
    /\ "(" \in STRING /\ ")" \in STRING /\ "," \in STRING /\ "=" \in STRING /\ "<>" \in STRING
    /\ "OR" \in STRING /\ "AS" \in STRING /\ "SELECT" \in STRING /\ ">=" \in STRING /\ "LIKE" \in STRING
BY KeywordAssumption DEF Keywords

\* A text without placeholders.
LEMMA NameIs == ASSUME NEW w \in STRING PROVE Str(<<N(w)>>, <<>>) \in Flat /\ Str(<<K(w)>>, <<>>) \in Flat
<1>1. N(w) \in Tokens /\ Mark(N(w)) = <<>> /\ K(w) \in Tokens /\ Mark(K(w)) = <<>>
  BY TokenTypes, Zenon
<1>2. /\ <<N(w)>> \in Texts /\ MeantFor(<<N(w)>>) = <<>>
      /\ <<K(w)>> \in Texts /\ MeantFor(<<K(w)>>) = <<>>
  BY <1>1, PlainOne, MeantPlain
<1>3. Str(<<N(w)>>, MeantFor(<<N(w)>>)) \in Flat /\ Str(<<K(w)>>, MeantFor(<<K(w)>>)) \in Flat
  BY <1>2, FlatAre, Zenon
<1> QED BY <1>2, <1>3, Zenon

\* A column compared to a value.
LEMMA ComparisonIs ==
    ASSUME NEW w \in STRING, NEW op \in STRING, NEW v \in Nat
    PROVE  Str(<<N(w), K(op), P(v)>>, <<v>>) \in Flat
<1>1. <<N(w), K(op), P(v)>> \in Texts /\ MeantFor(<<N(w), K(op), P(v)>>) = <<v>>
  BY EndsMarked
<1>2. Str(<<N(w), K(op), P(v)>>, MeantFor(<<N(w), K(op), P(v)>>)) \in Flat
  BY <1>1, FlatAre, Zenon
<1> QED BY <1>1, <1>2, Zenon

\* Short sequences, by their elements.
LEMMA PairParts ==
    ASSUME NEW S, NEW x \in S, NEW y \in S
    PROVE  /\ <<x, y>> \in Seq(S) /\ <<x, y>>[1] = x /\ <<x, y>>[2] = y
           /\ \A i \in DOMAIN <<x, y>> : i = 1 \/ i = 2
           /\ 2 \in DOMAIN <<x, y>>
OBVIOUS

\* A keyword and a placeholder.
LEMMA WordAndMark ==
    ASSUME NEW w \in STRING, NEW v \in Nat
    PROVE  <<K(w), P(v)>> \in Texts /\ MeantFor(<<K(w), P(v)>>) = <<v>>
<1>1. PICK t : t = <<K(w), P(v)>>
  BY Zenon
<1>2. K(w) \in Tokens /\ ~IsPlaceholder(K(w)) /\ P(v) \in Tokens /\ IsPlaceholder(P(v)) /\ P(v)[2] = v
  BY PlainTokens, MarkTokens
<1>3. t \in Texts /\ t[1] = K(w) /\ t[2] = P(v) /\ 2 \in DOMAIN t /\ \A i \in DOMAIN t : i = 1 \/ i = 2
  BY <1>1, <1>2, PairParts, Zenon DEF Texts
<1>4. 2 \in DOMAIN t /\ IsPlaceholder(t[2]) /\ \A i \in DOMAIN t : IsPlaceholder(t[i]) => i = 2
  BY <1>2, <1>3, Zenon
<1>5. MeantFor(t) = <<t[2][2]>>
  BY <1>3, <1>4, MarkedOnce
<1> QED BY <1>1, <1>2, <1>3, <1>5, Zenon

\* The condition of the shape "expr".
Disjunction(v) == <<N("a"), K("="), P(v), K("OR"), N("b"), K("<>"), P(v + 1)>>

\* Its text fits its two arguments.
LEMMA DisjunctionIs ==
    ASSUME NEW v \in Nat
    PROVE  /\ Parens(Disjunction(v)) \in Texts
           /\ Fits(Parens(Disjunction(v)), <<Val(v), Val(v + 1)>>)
<1>1. v + 1 \in Nat
  OBVIOUS
<1>2. /\ N("a") \in Tokens /\ K("=") \in Tokens /\ P(v) \in Tokens /\ K("OR") \in Tokens
      /\ N("b") \in Tokens /\ K("<>") \in Tokens /\ P(v + 1) \in Tokens
      /\ ~IsPlaceholder(N("a")) /\ ~IsPlaceholder(K("=")) /\ IsPlaceholder(P(v)) /\ P(v)[2] = v
      /\ ~IsPlaceholder(K("OR")) /\ ~IsPlaceholder(N("b")) /\ ~IsPlaceholder(K("<>"))
      /\ IsPlaceholder(P(v + 1)) /\ P(v + 1)[2] = v + 1
  BY <1>1, NamesAndWords, MoreWords, PlainTokens, MarkTokens
<1>3. PICK t : t = Disjunction(v)
  BY Zenon
<1>4. t \in Texts /\ DOMAIN t = 1 .. 7
  BY <1>2, <1>3 DEF Disjunction, Texts
<1>5. /\ t[1] = N("a") /\ t[2] = K("=") /\ t[3] = P(v) /\ t[4] = K("OR") /\ t[5] = N("b")
      /\ t[6] = K("<>") /\ t[7] = P(v + 1)
  BY <1>3 DEF Disjunction
<1>6. \A i \in DOMAIN t : IsPlaceholder(t[i]) => i = 3 \/ i = 7
  <2>1. \A i \in DOMAIN t : i = 1 \/ i = 2 \/ i = 3 \/ i = 4 \/ i = 5 \/ i = 6 \/ i = 7
    BY <1>4
  <2> QED BY <1>2, <1>5, <2>1, Zenon
<1>7. MeantFor(t) = <<t[3][2], t[7][2]>>
  <2>1. 3 \in DOMAIN t /\ 7 \in DOMAIN t /\ 3 < 7
    BY <1>4
  <2>2. IsPlaceholder(t[3]) /\ IsPlaceholder(t[7])
    BY <1>2, <1>5, Zenon
  <2> QED BY <1>4, <1>6, <2>1, <2>2, MarkedTwice
<1>8. MeantFor(t) = <<v, v + 1>>
  BY <1>2, <1>5, <1>7, Zenon
<1>9. Parens(t) \in Texts /\ MeantFor(Parens(t)) = <<v, v + 1>>
  BY <1>4, <1>8, MeantParens, Zenon
<1>10. Fits(Parens(t), <<Val(v), Val(v + 1)>>)
  BY <1>1, <1>9, FitsTwo
<1> QED BY <1>3, <1>9, <1>10, Zenon

\* The ends of a range, and values that may be missing.
Bounds == Vals \cup {Missing}

LEMMA BoundsAre == Missing \in Bounds /\ \A v \in Nat : Val(v) \in Bounds
BY DEF Bounds, Val, Vals

\* The calls of package try.
LEMMA CallsAre ==
    /\ \A op, col \in STRING, val \in Bounds : Try(op, col, val) \in TryCalls
    /\ \A min, max \in Bounds, below \in STRING : TryBetween(min, max, below) \in TryCalls
    /\ \A col \in STRING, vals \in Seq(Vals) :
           [k |-> "try", f |-> "likes", col |-> col, vals |-> vals] \in TryCalls
    /\ \A cols \in Seq(STRING), val \in Bounds :
           [k |-> "try", f |-> "multi", cols |-> cols, val |-> val] \in TryCalls
    /\ \A col \in STRING, vs \in Seq(Nat), not \in BOOLEAN :
           [k |-> "try", f |-> "in", col |-> col, vs |-> vs, not |-> not] \in TryCalls
<1>1. \A op, col \in STRING, val \in Bounds : Try(op, col, val) \in TryCalls
  BY DEF Try, TryCalls, Bounds
<1>2. "a" \in STRING
  BY NamesAndWords
<1>3. \A min, max \in Bounds, below \in STRING : TryBetween(min, max, below) \in TryCalls
  BY <1>2 DEF TryBetween, TryCalls, Bounds
<1>4. \A col \in STRING, vals \in Seq(Vals) :
        [k |-> "try", f |-> "likes", col |-> col, vals |-> vals] \in TryCalls
  BY DEF TryCalls
<1>5. \A cols \in Seq(STRING), val \in Bounds :
        [k |-> "try", f |-> "multi", cols |-> cols, val |-> val] \in TryCalls
  BY DEF TryCalls, Bounds
<1>6. \A col \in STRING, vs \in Seq(Nat), not \in BOOLEAN :
        [k |-> "try", f |-> "in", col |-> col, vs |-> vs, not |-> not] \in TryCalls
  BY DEF TryCalls
<1> QED BY <1>1, <1>3, <1>4, <1>5, <1>6

\* What Where and Having are given.
Nested == Flat \cup ExprsOf(Flat)
NestedTwice == Nested \cup ExprsOf(Nested)

\* Every predicate the actions pass is a Sqlizer or a call of package try.
LEMMA PredIs ==
    ASSUME NEW shape \in AllShapes, NEW v \in Nat
    PROVE  Pred(shape, v) \in NestedTwice \cup TryCalls
<1>1. v + 1 \in Nat /\ v + 2 \in Nat /\ <<v, v + 1>> \in Seq(Nat) /\ <<v, v + 2>> \in Seq(Nat)
      /\ <<>> \in Seq(Nat)
  OBVIOUS
<1>2. "a" \in STRING /\ "b" \in STRING /\ TRUE \in BOOLEAN /\ FALSE \in BOOLEAN
  BY NamesAndWords
<1>3. /\ Val(v) \in Comparands /\ Val(v + 1) \in Comparands /\ Null \in Comparands /\ BadValuer \in Comparands
      /\ List(<<v, v + 1>>) \in Comparands /\ List(<<v, v + 2>>) \in Comparands /\ List(<<>>) \in Comparands
  BY <1>1, ComparandIs, Zenon
<1>4. /\ <<>> \in Entries /\ \A x \in Comparands : <<<<"a", x>>>> \in Entries /\ <<<<"b", x>>>> \in Entries
      /\ \A x, y \in Comparands : <<<<"a", x>>, <<"b", y>>>> \in Entries
  BY <1>2, <1>3, EntriesAre, Zenon
<1>5. \A map \in Entries, op \in STRING, not \in BOOLEAN :
        Eq(map) \in Flat /\ [k |-> "eq", not |-> not, map |-> map] \in Flat /\ Cmp(op, map) \in Flat
  BY FlatAre
<1>6. \A not \in BOOLEAN, val \in Comparands : In("a", not, val) \in Flat /\ In("b", not, val) \in Flat
  BY <1>2, FlatAre, Zenon
<1>7. Flat \subseteq NestedTwice /\ ExprsOf(Flat) \subseteq NestedTwice
      /\ ExprsOf(Nested) \subseteq NestedTwice
      /\ ExprsOf(Flat) \subseteq Nested /\ Flat \subseteq Nested
  BY Zenon DEF NestedTwice, Nested
<1>8. CASE shape \in {"nil", "empty", "wrong", "string"}
  <2>1. [k |-> "nil"] \in Flat /\ [k |-> "other"] \in Flat
    BY FlatAre
  <2>2. Str(<<>>, <<>>) \in Flat
    <3>1. <<>> \in Texts /\ MeantFor(<<>>) = <<>>
      BY MeantNone DEF Texts
    <3> QED BY <3>1, FlatAre, Zenon
  <2>3. Str(<<N("a"), K("<"), P(v)>>, <<v>>) \in Flat
    BY NamesAndWords, ComparisonIs
  <2>4. Pred(shape, v) \in {[k |-> "nil"], [k |-> "other"], Str(<<>>, <<>>), Str(<<N("a"), K("<"), P(v)>>, <<v>>)}
    BY <1>8 DEF Pred
  <2> QED BY <1>7, <2>1, <2>2, <2>3, <2>4
<1>9. CASE shape = "expr"
  <2>1. Pred(shape, v) = Expr(Parens(Disjunction(v)), <<Val(v), Val(v + 1)>>)
    BY <1>9 DEF Pred, Disjunction
  <2>2. <<Val(v), Val(v + 1)>> \in Seq(Flat)
    BY <1>1, FlatAre, PairIs
  <2>3. Expr(Parens(Disjunction(v)), <<Val(v), Val(v + 1)>>) \in ExprsOf(Flat)
    BY <2>2, DisjunctionIs, ExprIs
  <2> QED BY <1>7, <2>1, <2>3
<1>10. CASE shape \in {"eq", "eqNull", "eqEmpty", "eqList", "valuer", "notEq"}
  <2>1. Pred(shape, v) \in {Eq(<<<<"a", Val(v)>>, <<"b", Val(v + 1)>>>>), Eq(<<<<"a", Null>>, <<"b", Val(v)>>>>),
                            Eq(<<>>), Eq(<<<<"a", List(<<v, v + 1>>)>>>>), Eq(<<<<"a", BadValuer>>>>),
                            [k |-> "eq", not |-> TRUE, map |-> <<<<"a", Null>>, <<"b", Val(v)>>>>]}
    BY <1>10 DEF Pred
  <2>2. /\ <<<<"a", Val(v)>>, <<"b", Val(v + 1)>>>> \in Entries
        /\ <<<<"a", Null>>, <<"b", Val(v)>>>> \in Entries
        /\ <<<<"a", List(<<v, v + 1>>)>>>> \in Entries /\ <<<<"a", BadValuer>>>> \in Entries
    BY <1>3, <1>4, Zenon
  <2>3. \A map \in Entries : Eq(map) \in Flat /\ [k |-> "eq", not |-> TRUE, map |-> map] \in Flat
    BY <1>2, <1>5, Zenon
  <2>4. /\ Eq(<<<<"a", Val(v)>>, <<"b", Val(v + 1)>>>>) \in Flat
        /\ Eq(<<<<"a", Null>>, <<"b", Val(v)>>>>) \in Flat
        /\ Eq(<<>>) \in Flat /\ Eq(<<<<"a", List(<<v, v + 1>>)>>>>) \in Flat
        /\ Eq(<<<<"a", BadValuer>>>>) \in Flat
        /\ [k |-> "eq", not |-> TRUE, map |-> <<<<"a", Null>>, <<"b", Val(v)>>>>] \in Flat
    BY <1>4, <2>2, <2>3, Zenon
  <2>5. Pred(shape, v) \in Flat
    BY <2>1, <2>4, Zenon
  <2> QED BY <1>7, <2>5
<1>11. CASE shape \in {"gte", "like", "ltNull"}
  <2>1. Pred(shape, v) \in {Cmp(">=", <<<<"a", Val(v)>>, <<"b", Val(v + 1)>>>>), Cmp("NOT LIKE", <<<<"b", Val(v)>>>>),
                            Cmp("<", <<<<"a", Null>>>>)}
    BY <1>11 DEF Pred
  <2>2. \A map \in Entries : Cmp(">=", map) \in Flat /\ Cmp("NOT LIKE", map) \in Flat
        /\ Cmp("<", map) \in Flat
    BY <1>5, NamesAndWords, MoreWords, Zenon
  <2>3. /\ <<<<"a", Val(v)>>, <<"b", Val(v + 1)>>>> \in Entries /\ <<<<"b", Val(v)>>>> \in Entries
        /\ <<<<"a", Null>>>> \in Entries
    BY <1>3, <1>4, Zenon
  <2>4. Pred(shape, v) \in Flat
    BY <2>1, <2>2, <2>3, Zenon
  <2> QED BY <1>7, <2>4
<1>12. CASE shape \in {"in", "notIn", "inEmpty", "notInEmpty"}
  <2>1. Pred(shape, v) \in {In("a", FALSE, List(<<v, v + 2>>)), In("b", TRUE, Val(v)),
                            In("a", FALSE, List(<<>>)), In("a", TRUE, List(<<>>))}
    BY <1>12 DEF Pred
  <2>2. Pred(shape, v) \in Flat
    BY <1>2, <1>3, <1>6, <2>1, Zenon
  <2> QED BY <1>7, <2>2
<1>13. CASE shape = "orEmpty"
  <2>1. Pred(shape, v) = Conj("OR", <<>>)
    BY <1>13 DEF Pred
  <2>2. <<>> \in Seq(Flat)
    OBVIOUS
  <2>3. Conj("OR", <<>>) \in ExprsOf(Flat)
    BY <2>2, ConjIs DEF Conj
  <2> QED BY <1>7, <2>1, <2>3
<1>14. CASE shape = "or"
  <2> DEFINE inner == Conj("AND", <<In("b", FALSE, Val(v + 1)), Cmp("NOT LIKE", <<>>)>>)
             first == Eq(<<<<"a", Val(v)>>>>)
  <2>1. Pred(shape, v) = Conj("OR", <<first, inner>>)
    BY <1>14 DEF Pred
  <2>2. first \in Flat /\ In("b", FALSE, Val(v + 1)) \in Flat
        /\ Cmp("NOT LIKE", <<>>) \in Flat
    BY <1>2, <1>3, <1>4, <1>5, <1>6, NamesAndWords, Zenon
  <2>3. <<In("b", FALSE, Val(v + 1)), Cmp("NOT LIKE", <<>>)>> \in Seq(Flat)
    BY <2>2, PairIs
  <2>4. inner \in ExprsOf(Flat)
    BY <2>3, ConjIs DEF Conj
  <2> HIDE DEF inner, first
  <2>5. <<first, inner>> \in Seq(Nested)
    BY <1>7, <2>2, <2>4, PairIs
  <2>6. Conj("OR", <<first, inner>>) \in ExprsOf(Nested)
    BY <2>5, ConjIs DEF Conj
  <2> QED BY <1>7, <2>1, <2>6
<1>15. CASE shape = "andNested"
  <2> DEFINE first == Eq(<<<<"b", Val(v)>>>>)
             x == Eq(<<<<"a", Null>>>>)
             y == Cmp("<=", <<<<"a", Val(v + 1)>>>>)
             inner == Conj("OR", <<x, y>>)
  <2>1. Pred(shape, v) = Conj("AND", <<first, inner>>)
    BY <1>15 DEF Pred
  <2>2. first \in Flat /\ x \in Flat /\ y \in Flat
    BY <1>2, <1>3, <1>4, <1>5, NamesAndWords, Zenon
  <2> HIDE DEF first, x, y
  <2>3. <<x, y>> \in Seq(Flat)
    BY <2>2, PairIs
  <2>4. inner \in ExprsOf(Flat)
    BY <2>3, ConjIs DEF Conj
  <2> HIDE DEF inner
  <2>5. <<first, inner>> \in Seq(Nested)
    BY <1>7, <2>2, <2>4, PairIs
  <2>6. Conj("AND", <<first, inner>>) \in ExprsOf(Nested)
    BY <2>5, ConjIs DEF Conj
  <2> QED BY <1>7, <2>1, <2>6
<1>16. CASE shape \in {"tryNotEqual", "tryNone", "tryLike"}
  <2>1. Pred(shape, v) \in {Try("<>", "a", Val(v)), Try("LIKE", "b", Missing), Try("LIKE", "b", Val(v))}
    BY <1>16 DEF Pred
  <2>2. Val(v) \in Bounds /\ Missing \in Bounds
    BY BoundsAre
  <2>3. Try("<>", "a", Val(v)) \in TryCalls /\ Try("LIKE", "b", Missing) \in TryCalls
        /\ Try("LIKE", "b", Val(v)) \in TryCalls
    BY <1>2, <2>2, MoreWords, CallsAre, Zenon
  <2> QED BY <2>1, <2>3, Zenon
<1>17. CASE shape \in {"tryRange", "tryMin", "tryTimeRange", "tryEnd"}
  <2>1. Pred(shape, v) \in {TryBetween(Val(v), Val(v + 1), "<="), TryBetween(Val(v + 1), Missing, "<="),
                            TryBetween(Val(v), Val(v + 1), "<"), TryBetween(Missing, Val(v + 1), "<")}
    BY <1>17 DEF Pred
  <2>2. Val(v) \in Bounds /\ Val(v + 1) \in Bounds /\ Missing \in Bounds
    BY <1>1, BoundsAre
  <2>3. /\ TryBetween(Val(v), Val(v + 1), "<=") \in TryCalls
        /\ TryBetween(Val(v + 1), Missing, "<=") \in TryCalls
        /\ TryBetween(Val(v), Val(v + 1), "<") \in TryCalls
        /\ TryBetween(Missing, Val(v + 1), "<") \in TryCalls
    BY <2>2, NamesAndWords, CallsAre, Zenon
  <2> QED BY <2>1, <2>3, Zenon
<1>18. CASE shape \in {"tryLikes", "tryNoLikes"}
  <2> DEFINE likes(vals) == [k |-> "try", f |-> "likes", col |-> "b", vals |-> vals]
  <2>1. Pred(shape, v) \in {likes(<<Val(v), Val(v + 1)>>), likes(<<>>)}
    BY <1>18 DEF Pred
  <2>2. Val(v) \in Vals /\ Val(v + 1) \in Vals
    BY <1>1 DEF Val, Vals
  <2>3. <<Val(v), Val(v + 1)>> \in Seq(Vals) /\ <<>> \in Seq(Vals)
    BY <2>2, PairIs
  <2>4. \A vals \in Seq(Vals) : likes(vals) \in TryCalls
    BY <1>2, CallsAre
  <2> HIDE DEF likes
  <2> QED BY <2>1, <2>3, <2>4, Zenon
<1>19. CASE shape \in {"tryMultiLike", "tryNoColumn"}
  <2> DEFINE multi(cols) == [k |-> "try", f |-> "multi", cols |-> cols, val |-> Val(v)]
  <2>1. Pred(shape, v) \in {multi(<<"a", "b">>), multi(<<>>)}
    BY <1>19 DEF Pred
  <2>2. Val(v) \in Bounds
    BY BoundsAre
  <2>3. <<"a", "b">> \in Seq(STRING) /\ <<>> \in Seq(STRING)
    BY <1>2, PairIs
  <2>4. \A cols \in Seq(STRING) : multi(cols) \in TryCalls
    BY <2>2, CallsAre
  <2> HIDE DEF multi
  <2> QED BY <2>1, <2>3, <2>4, Zenon
<1>20. CASE shape \in {"tryIn", "tryNotInNone"}
  <2> DEFINE in(vs, not) == [k |-> "try", f |-> "in", col |-> "a", vs |-> vs, not |-> not]
  <2>1. Pred(shape, v) \in {in(<<v, v + 2>>, FALSE), in(<<>>, TRUE)}
    BY <1>20 DEF Pred
  <2>2. \A vs \in Seq(Nat), not \in BOOLEAN : in(vs, not) \in TryCalls
    BY <1>2, CallsAre
  <2> HIDE DEF in
  <2> QED BY <1>1, <1>2, <2>1, <2>2, Zenon
<1>21. CASE shape \in {"orNil", "concatNil"}
  <2> DEFINE nil == [k |-> "nil"]
             first == Eq(<<<<"a", Val(v)>>>>)
             word == Str(<<K("NOT")>>, <<>>)
  <2>1. Pred(shape, v) \in {Conj("OR", <<first, nil>>), [k |-> "concat", parts |-> <<word, nil>>]}
    BY <1>21 DEF Pred
  <2>2. first \in Flat /\ nil \in Flat /\ word \in Flat
    BY <1>3, <1>4, <1>5, NoneIsFlat, NameIs, NamesAndWords, Zenon
  <2> HIDE DEF first, nil, word
  <2>3. <<first, nil>> \in Seq(Flat) /\ <<word, nil>> \in Seq(Flat)
    BY <2>2, PairIs
  <2>4. Conj("OR", <<first, nil>>) \in ExprsOf(Flat)
    BY <2>3, ConjIs DEF Conj
  <2>5. [k |-> "concat", parts |-> <<word, nil>>] \in ExprsOf(Flat)
    <3>1. [k |-> "concat", parts |-> <<word, nil>>] \in [k : {"concat"}, parts : Seq(Flat)]
      BY <2>3
    <3> QED BY <3>1, Zenon DEF ExprsOf
  <2> QED BY <1>7, <2>1, <2>4, <2>5
<1>22. CASE shape = "andWrong"
  <2> DEFINE first == Eq(<<<<"b", Val(v)>>>>)
             x == Cmp("<", <<<<"a", Null>>>>)
             inner == Conj("OR", <<x>>)
  <2>1. Pred(shape, v) = Conj("AND", <<first, inner>>)
    BY <1>22 DEF Pred
  <2>2. first \in Flat /\ x \in Flat
    BY <1>3, <1>4, <1>5, NamesAndWords, Zenon
  <2> HIDE DEF first, x
  <2>3. <<x>> \in Seq(Flat)
    BY <2>2, Single, Zenon
  <2>4. inner \in ExprsOf(Flat)
    BY <2>3, ConjIs DEF Conj
  <2> HIDE DEF inner
  <2>5. <<first, inner>> \in Seq(Nested)
    BY <1>7, <2>2, <2>4, PairIs
  <2>6. Conj("AND", <<first, inner>>) \in ExprsOf(Nested)
    BY <2>5, ConjIs DEF Conj
  <2> QED BY <1>7, <2>1, <2>6
<1>23. CASE shape = "exprBad"
  <2> DEFINE x == Eq(<<<<"a", BadValuer>>>>)
             text == <<K("NOT"), P(v)>>
  <2>1. Pred(shape, v) = Expr(text, <<x>>)
    BY <1>23 DEF Pred
  <2>2. x \in Flat
    BY <1>2, <1>3, <1>4, <1>5, Zenon
  <2>3. IsSqlizer(x)
    BY DEF Eq, IsSqlizer
  <2>4. text \in Texts /\ MeantFor(text) = <<v>>
    BY WordAndMark, NamesAndWords
  <2> HIDE DEF x, text
  <2>5. <<x>> \in Seq(Flat)
    BY <2>2, Single, Zenon
  <2>6. Fits(text, <<x>>)
    BY <2>3, <2>4, FitsOne
  <2>7. Expr(text, <<x>>) \in ExprsOf(Flat)
    BY <2>4, <2>5, <2>6, ExprIs
  <2> QED BY <1>7, <2>1, <2>7
<1> QED BY <1>8, <1>9, <1>10, <1>11, <1>12, <1>13, <1>14, <1>15, <1>16, <1>17, <1>18, <1>19, <1>20,
       <1>21, <1>22, <1>23 DEF AllShapes

-----------------------------------------------------------------------------
(* The expressions that are given to the builder *)

\* A sequence of three.
LEMMA TripleParts ==
    ASSUME NEW S, NEW x \in S, NEW y \in S, NEW z \in S
    PROVE  /\ <<x, y, z>> \in Seq(S) /\ <<x, y, z>>[1] = x /\ <<x, y, z>>[2] = y /\ <<x, y, z>>[3] = z
           /\ \A i \in DOMAIN <<x, y, z>> : i = 1 \/ i = 2 \/ i = 3
           /\ 1 \in DOMAIN <<x, y, z>> /\ 3 \in DOMAIN <<x, y, z>>
BY SMTT(40)

\* A function of one placeholder.
LEMMA CallText ==
    ASSUME NEW w \in STRING, NEW v \in Nat
    PROVE  /\ <<K(w), K("("), P(v), K(")")>> \in Texts
           /\ MeantFor(<<K(w), K("("), P(v), K(")")>>) = <<v>>
<1>1. PICK t : t = <<K(w), K("("), P(v), K(")")>>
  BY Zenon
<1>2. /\ K(w) \in Tokens /\ ~IsPlaceholder(K(w)) /\ P(v) \in Tokens /\ IsPlaceholder(P(v)) /\ P(v)[2] = v
      /\ K("(") \in Tokens /\ ~IsPlaceholder(K("(")) /\ K(")") \in Tokens /\ ~IsPlaceholder(K(")"))
  BY PlainTokens, MarkTokens, MoreWords
<1>3. t \in Texts /\ DOMAIN t = 1 .. 4 /\ t[1] = K(w) /\ t[2] = K("(") /\ t[3] = P(v) /\ t[4] = K(")")
  BY <1>1, <1>2 DEF Texts
<1>4. 3 \in DOMAIN t /\ IsPlaceholder(t[3]) /\ \A i \in DOMAIN t : IsPlaceholder(t[i]) => i = 3
  <2>1. 3 \in DOMAIN t /\ \A i \in DOMAIN t : i = 1 \/ i = 2 \/ i = 3 \/ i = 4
    BY <1>3
  <2> QED BY <1>2, <1>3, <2>1, Zenon
<1>5. MeantFor(t) = <<t[3][2]>>
  BY <1>3, <1>4, MarkedOnce
<1> QED BY <1>1, <1>2, <1>3, <1>5, Zenon

\* The condition of a JOIN.
LEMMA JoinText ==
    ASSUME NEW v \in Nat
    PROVE  /\ <<K("JOIN"), N("u"), K("ON"), N("x"), K("="), P(v)>> \in Texts
           /\ MeantFor(<<K("JOIN"), N("u"), K("ON"), N("x"), K("="), P(v)>>) = <<v>>
<1>1. PICK t : t = <<K("JOIN"), N("u"), K("ON"), N("x"), K("="), P(v)>>
  BY Zenon
<1>2. /\ K("JOIN") \in Tokens /\ ~IsPlaceholder(K("JOIN")) /\ N("u") \in Tokens /\ ~IsPlaceholder(N("u"))
      /\ K("ON") \in Tokens /\ ~IsPlaceholder(K("ON")) /\ N("x") \in Tokens /\ ~IsPlaceholder(N("x"))
      /\ K("=") \in Tokens /\ ~IsPlaceholder(K("="))
      /\ P(v) \in Tokens /\ IsPlaceholder(P(v)) /\ P(v)[2] = v
  BY PlainTokens, MarkTokens, NamesAndWords, MoreWords
<1>3. t \in Texts /\ DOMAIN t = 1 .. 6
      /\ t[1] = K("JOIN") /\ t[2] = N("u") /\ t[3] = K("ON") /\ t[4] = N("x") /\ t[5] = K("=") /\ t[6] = P(v)
  BY <1>1, <1>2 DEF Texts
<1>4. 6 \in DOMAIN t /\ IsPlaceholder(t[6]) /\ \A i \in DOMAIN t : IsPlaceholder(t[i]) => i = 6
  <2>1. 6 \in DOMAIN t /\ \A i \in DOMAIN t : i = 1 \/ i = 2 \/ i = 3 \/ i = 4 \/ i = 5 \/ i = 6
    BY <1>3
  <2> QED BY <1>2, <1>3, <2>1, Zenon
<1>5. MeantFor(t) = <<t[6][2]>>
  BY <1>3, <1>4, MarkedOnce
<1> QED BY <1>1, <1>2, <1>3, <1>5, Zenon

\* Two arguments of a function.
LEMMA ListText ==
    ASSUME NEW v \in Nat, NEW w \in Nat
    PROVE  <<P(v), K(","), P(w)>> \in Texts /\ MeantFor(<<P(v), K(","), P(w)>>) = <<v, w>>
<1>1. PICK t : t = <<P(v), K(","), P(w)>>
  BY Zenon
<1>2. /\ P(v) \in Tokens /\ IsPlaceholder(P(v)) /\ P(v)[2] = v /\ K(",") \in Tokens /\ ~IsPlaceholder(K(","))
      /\ P(w) \in Tokens /\ IsPlaceholder(P(w)) /\ P(w)[2] = w
  BY PlainTokens, MarkTokens, MoreWords
<1>3. /\ t \in Texts /\ t[1] = P(v) /\ t[2] = K(",") /\ t[3] = P(w) /\ 1 \in DOMAIN t /\ 3 \in DOMAIN t
      /\ \A i \in DOMAIN t : i = 1 \/ i = 2 \/ i = 3
  <2>1. PICK x, y, z \in Tokens : x = P(v) /\ y = K(",") /\ z = P(w)
    BY <1>2, Zenon
  <2>2. t = <<x, y, z>>
    BY <1>1, <2>1, Zenon
  <2>3. /\ <<x, y, z>> \in Seq(Tokens) /\ <<x, y, z>>[1] = x /\ <<x, y, z>>[2] = y /\ <<x, y, z>>[3] = z
        /\ \A i \in DOMAIN <<x, y, z>> : i = 1 \/ i = 2 \/ i = 3
        /\ 1 \in DOMAIN <<x, y, z>> /\ 3 \in DOMAIN <<x, y, z>>
    BY TripleParts
  <2> QED BY <2>1, <2>2, <2>3, Zenon DEF Texts
<1>4. /\ 1 \in DOMAIN t /\ 3 \in DOMAIN t /\ 1 < 3
      /\ IsPlaceholder(t[1]) /\ IsPlaceholder(t[3])
      /\ \A i \in DOMAIN t : IsPlaceholder(t[i]) => i = 1 \/ i = 3
  <2>1. 1 < 3
    OBVIOUS
  <2> QED BY <1>2, <1>3, <2>1, Zenon
<1>5. MeantFor(t) = <<t[1][2], t[3][2]>>
  BY <1>3, <1>4, MarkedTwice
<1> QED BY <1>1, <1>2, <1>3, <1>5, Zenon

\* An expression whose only argument is a value.
LEMMA ValueExpr ==
    ASSUME NEW t \in Texts, NEW v \in Nat, MeantFor(t) = <<v>>
    PROVE  Expr(t, <<Val(v)>>) \in ExprsOf(Flat)
<1>1. Val(v) \in Flat
  BY FlatAre
<1>2. <<Val(v)>> \in Seq(Flat)
  BY <1>1, Single, Zenon
<1> QED BY <1>2, FitsOne, ExprIs

\* A text and its argument.
LEMMA TextIs ==
    ASSUME NEW t \in Texts, NEW args, MeantFor(t) = args
    PROVE  Str(t, args) \in Flat
BY FlatAre, Zenon

\* The expression a Prefix or a Suffix adds.
LEMMA PrefixIs ==
    ASSUME NEW v \in Nat
    PROVE  Expr(<<K("WITH"), N("c"), K("AS")>> \o Parens(<<K("SELECT"), P(v)>>), <<Val(v)>>) \in ExprsOf(Flat)
<1>1. <<K("SELECT"), P(v)>> \in Texts /\ MeantFor(<<K("SELECT"), P(v)>>) = <<v>>
  BY WordAndMark, MoreWords
<1>2. /\ Parens(<<K("SELECT"), P(v)>>) \in Texts
      /\ MeantFor(Parens(<<K("SELECT"), P(v)>>)) = <<v>>
  BY <1>1, MeantParens, Zenon
<1>3. /\ K("WITH") \in Tokens /\ Mark(K("WITH")) = <<>> /\ N("c") \in Tokens /\ Mark(N("c")) = <<>>
      /\ K("AS") \in Tokens /\ Mark(K("AS")) = <<>>
  BY TokenTypes, NamesAndWords, MoreWords, Zenon
<1>4. <<K("WITH"), N("c"), K("AS")>> \in Texts /\ MeantFor(<<K("WITH"), N("c"), K("AS")>>) = <<>>
  BY <1>3, MarkedTriple
<1> DEFINE head == <<K("WITH"), N("c"), K("AS")>>
           tail == Parens(<<K("SELECT"), P(v)>>)
<1>5. head \in Texts /\ MeantFor(head) = <<>> /\ tail \in Texts /\ MeantFor(tail) = <<v>>
  BY <1>2, <1>4
<1> HIDE DEF head, tail
<1>6. head \o tail \in Texts /\ MeantFor(head \o tail) = <<v>>
  BY <1>5, MeantBehind, Zenon
<1>7. Expr(head \o tail, <<Val(v)>>) \in ExprsOf(Flat)
  BY <1>6, ValueExpr
<1> QED BY <1>7, Zenon DEF head, tail

\* What Suffix gets.
LEMMA SuffixIs == ASSUME NEW v \in Nat PROVE Expr(<<K("RETURNING"), P(v)>>, <<Val(v)>>) \in ExprsOf(Flat)
BY WordAndMark, ValueExpr, NamesAndWords

\* The function in a row of values.
LEMMA FunctionIs ==
    ASSUME NEW v \in Nat
    PROVE  Expr(<<K("UPPER"), K("("), P(v), K(")")>>, <<Val(v)>>) \in ExprsOf(Flat)
BY CallText, ValueExpr, NamesAndWords

\* The new statement of each kind.
LEMMA EmptyIs ==
    ASSUME NEW S, Str(<<N("a")>>, <<>>) \in S, Str(<<N("t")>>, <<>>) \in S
    PROVE  /\ Empty("select") \in Selects(S) /\ Empty("update") \in Updates(S)
           /\ Empty("delete") \in Deletes(S) /\ Empty("insert") \in Inserts(S)
<1>2. <<Str(<<N("a")>>, <<>>)>> \in Seq(S) /\ <<Str(<<N("t")>>, <<>>)>> \in Seq(S)
      /\ <<>> \in Seq(S) /\ <<>> \in Seq(STRING) /\ <<>> \in Seq(Seq(S)) /\ <<>> \in Seq(STRING \X S)
  <2>1. /\ <<Str(<<N("a")>>, <<>>)>> \in Seq(S) /\ <<Str(<<N("t")>>, <<>>)>> \in Seq(S)
    BY Single, Zenon
  <2>2. <<>> \in Seq(S) /\ <<>> \in Seq(STRING) /\ <<>> \in Seq(Seq(S)) /\ <<>> \in Seq(STRING \X S)
    OBVIOUS
  <2> QED BY <2>1, <2>2
<1>3. "" \in STRING /\ "t" \in STRING
  BY NamesAndWords
<1>4. Empty("select") \in Selects(S)
  <2> DEFINE columns == <<Str(<<N("a")>>, <<>>)>>
             from == <<Str(<<N("t")>>, <<>>)>>
  <2>1. columns \in Seq(S) /\ from \in Seq(S)
    BY <1>2
  <2>2. Empty("select") = [k |-> "select", prefixes |-> <<>>, options |-> <<>>, columns |-> columns, from |-> from,
            joins |-> <<>>, where |-> <<>>, groupBys |-> <<>>, having |-> <<>>,
            orderBys |-> <<>>, limit |-> "", offset |-> "", suffixes |-> <<>>]
    BY DEF Empty
  <2>3. <<>> \in Seq(S) /\ <<>> \in Seq(STRING) /\ "" \in STRING
    BY <1>2, <1>3
  <2> HIDE DEF columns, from
  <2>4. [k |-> "select", prefixes |-> <<>>, options |-> <<>>, columns |-> columns, from |-> from,
         joins |-> <<>>, where |-> <<>>, groupBys |-> <<>>, having |-> <<>>,
         orderBys |-> <<>>, limit |-> "", offset |-> "", suffixes |-> <<>>] \in Selects(S)
    BY <2>1, <2>3 DEF Selects
  <2> QED BY <2>2, <2>4, Zenon
<1>5. Empty("update") \in Updates(S)
  BY <1>2, <1>3 DEF Updates, Empty
<1>6. Empty("delete") \in Deletes(S)
  BY <1>2, <1>3 DEF Deletes, Empty
<1>7. Empty("insert") \in Inserts(S)
  BY <1>2, <1>3 DEF Inserts, Empty
<1> QED BY <1>4, <1>5, <1>6, <1>7

\* Its texts need nothing.
LEMMA EmptyFlat ==
    /\ Str(<<N("a")>>, <<>>) \in Flat /\ Str(<<N("t")>>, <<>>) \in Flat
    /\ Empty("select") \in Selects(Flat)
<1>1. Str(<<N("a")>>, <<>>) \in Flat /\ Str(<<N("t")>>, <<>>) \in Flat
  BY NameIs, NamesAndWords
<1> QED BY <1>1, EmptyIs

\* A SELECT inside of another statement.
LEMMA SubIs == ASSUME NEW v \in Nat PROVE Sub(v) \in Selects(Flat)
<1>1. Str(<<N("b"), K("="), P(v)>>, <<v>>) \in Flat
  BY ComparisonIs, NamesAndWords, MoreWords
<1> DEFINE where == <<Str(<<N("b"), K("="), P(v)>>, <<v>>)>>
<1>2. where \in Seq(Flat)
  BY <1>1, Single, Zenon
<1>3. Sub(v) = [Empty("select") EXCEPT !.where = where]
  BY DEF Sub
<1> HIDE DEF where
<1> QED BY <1>2, <1>3, EmptyFlat DEF Selects

\* An Alias, a CASE and a COALESCE of a SELECT.
LEMMA AliasIs ==
    ASSUME NEW n \in Nat, NEW expr \in Sqlizers(n), NEW name \in STRING
    PROVE  Alias(expr, name) \in Sqlizers(n + 1)
<1>1. Alias(expr, name) \in [k : {"alias"}, expr : Sqlizers(n), as : STRING]
  BY DEF Alias
<1>2. Alias(expr, name) \in ExprsOf(Sqlizers(n))
  BY <1>1, Zenon DEF ExprsOf
<1> QED BY <1>2, LevelsAre

LEMMA CaseIs == ASSUME NEW v \in Nat PROVE Case(v) \in Sqlizers(2)
<1>1. v + 1 \in Nat
  OBVIOUS
<1>2. Flat \subseteq Sqlizers(1) /\ Flat = Sqlizers(0) /\ ExprsOf(Flat) \subseteq Sqlizers(1)
      /\ ExprsOf(Sqlizers(1)) \subseteq Sqlizers(2)
  <2>1. Flat = Sqlizers(0)
    BY SqlizersAt DEF Flat
  <2>2. 0 \in Nat /\ 1 \in Nat /\ 0 + 1 = 1 /\ 1 + 1 = 2
    OBVIOUS
  <2> QED BY <2>1, <2>2, LevelsAre, Zenon
<1>3. Val(v) \in Comparands /\ "a" \in STRING /\ "1" \in STRING
  BY ComparandIs, NamesAndWords
<1>4. <<<<"a", Val(v)>>>> \in Entries
  BY <1>3, EntriesAre
<1>5. Eq(<<<<"a", Val(v)>>>>) \in Sqlizers(1)
  <2>1. "=" \in STRING /\ FALSE \in BOOLEAN
    BY MoreWords
  <2>2. Eq(<<<<"a", Val(v)>>>>) \in Flat
    BY <1>4, <2>1, FlatAre, Zenon
  <2> QED BY <1>2, <2>2, Zenon
<1>6. Str(<<K("1")>>, <<>>) \in Sqlizers(1)
  BY <1>2, <1>3, NameIs
<1>7. Expr(<<P(v + 1)>>, <<Val(v + 1)>>) \in Sqlizers(1)
  <2>1. P(v + 1) \in Tokens /\ Mark(P(v + 1)) = <<v + 1>>
    BY <1>1, TokenTypes, Zenon
  <2>2. <<P(v + 1)>> \in Texts /\ MeantFor(<<P(v + 1)>>) = <<v + 1>>
    BY <2>1, MeantOne, Single, Zenon DEF Texts
  <2> QED BY <1>1, <1>2, <2>2, ValueExpr
<1> DEFINE when == Eq(<<<<"a", Val(v)>>>>)
           then == Str(<<K("1")>>, <<>>)
           else == Expr(<<P(v + 1)>>, <<Val(v + 1)>>)
<1>8. Case(v) = [k |-> "case", what |-> <<>>, whens |-> <<<<when, then>>>>, els |-> <<else>>]
  BY DEF Case
<1>9. when \in Sqlizers(1) /\ then \in Sqlizers(1) /\ else \in Sqlizers(1)
  BY <1>5, <1>6, <1>7
<1> HIDE DEF when, then, else
<1>10. Case(v) \in [k : {"case"}, what : Seq(Sqlizers(1)), whens : Seq(Sqlizers(1) \X Sqlizers(1)),
                    els : Seq(Sqlizers(1))]
  <2> DEFINE S == Sqlizers(1)
             pair == <<when, then>>
  <2>1. pair \in S \X S /\ else \in S
    BY <1>9
  <2> HIDE DEF S, pair
  <2>2. <<pair>> \in Seq(S \X S) /\ <<else>> \in Seq(S) /\ <<>> \in Seq(S)
    <3>1. <<pair>> \in Seq(S \X S) /\ <<else>> \in Seq(S)
      BY <2>1, Single, Zenon
    <3> QED BY <3>1
  <2>3. [k |-> "case", what |-> <<>>, whens |-> <<pair>>, els |-> <<else>>]
          \in [k : {"case"}, what : Seq(S), whens : Seq(S \X S), els : Seq(S)]
    BY <2>2
  <2> QED BY <1>8, <2>3, Zenon DEF S, pair
<1>11. Case(v) \in ExprsOf(Sqlizers(1))
  BY <1>10, Zenon DEF ExprsOf
<1> QED BY <1>2, <1>11

\* A Concat of Sqlizers one level down.
LEMMA CoalesceMade ==
    ASSUME NEW v \in Nat
    PROVE  /\ Str(<<K("COALESCE"), K("(")>>, <<>>) \in Sqlizers(2)
           /\ Expr(<<P(v), K(","), P(v + 1)>>, <<Sub(v), Val(v + 1)>>) \in Sqlizers(2)
           /\ Str(<<K(")")>>, <<>>) \in Sqlizers(2)
           /\ ExprsOf(Sqlizers(2)) \subseteq Sqlizers(3)
<1>1. v + 1 \in Nat
  OBVIOUS
<1>2. /\ Flat \subseteq Sqlizers(1) /\ Flat \subseteq Sqlizers(2) /\ StatementsOf(Flat) \subseteq Sqlizers(1)
      /\ ExprsOf(Sqlizers(1)) \subseteq Sqlizers(2) /\ ExprsOf(Sqlizers(2)) \subseteq Sqlizers(3)
  <2>1. Flat = Sqlizers(0)
    BY SqlizersAt DEF Flat
  <2>2. 0 \in Nat /\ 1 \in Nat /\ 2 \in Nat /\ 0 + 1 = 1 /\ 1 + 1 = 2 /\ 2 + 1 = 3
    OBVIOUS
  <2> QED BY <2>1, <2>2, LevelsAre, Zenon
<1>3. Sub(v) \in Sqlizers(1) /\ IsSqlizer(Sub(v))
  <2>1. Sub(v) \in Selects(Flat)
    BY SubIs
  <2>2. Sub(v).k = "select"
    BY <2>1 DEF Selects
  <2>3. Sub(v) \in StatementsOf(Flat)
    BY <2>1, Zenon DEF StatementsOf
  <2> QED BY <1>2, <2>2, <2>3 DEF IsSqlizer
<1>4. Expr(<<P(v), K(","), P(v + 1)>>, <<Sub(v), Val(v + 1)>>) \in Sqlizers(2)
  <2>1. <<P(v), K(","), P(v + 1)>> \in Texts /\ MeantFor(<<P(v), K(","), P(v + 1)>>) = <<v, v + 1>>
    BY <1>1, ListText
  <2>2. Val(v + 1) \in Sqlizers(1)
    BY <1>1, <1>2, FlatAre
  <2>3. <<Sub(v), Val(v + 1)>> \in Seq(Sqlizers(1))
    BY <1>3, <2>2, PairIs
  <2>4. Fits(<<P(v), K(","), P(v + 1)>>, <<Sub(v), Val(v + 1)>>)
    BY <1>1, <1>3, <2>1, FitsTwo
  <2> QED BY <1>2, <2>1, <2>3, <2>4, ExprIs
<1>5. Str(<<K("COALESCE"), K("(")>>, <<>>) \in Sqlizers(2) /\ Str(<<K(")")>>, <<>>) \in Sqlizers(2)
  <2>1. /\ K("COALESCE") \in Tokens /\ Mark(K("COALESCE")) = <<>>
        /\ K("(") \in Tokens /\ Mark(K("(")) = <<>>
    BY TokenTypes, NamesAndWords, MoreWords, Zenon
  <2>2. <<K("COALESCE"), K("(")>> \in Texts /\ MeantFor(<<K("COALESCE"), K("(")>>) = <<>>
    BY <2>1, PlainPair, MeantPlain
  <2>3. Str(<<K("COALESCE"), K("(")>>, <<>>) \in Flat
    BY <2>2, TextIs
  <2> QED BY <1>2, <2>3, NameIs, MoreWords
<1> QED BY <1>2, <1>4, <1>5

LEMMA CoalesceIs == ASSUME NEW v \in Nat PROVE Coalesce(v) \in Sqlizers(3)
<1> DEFINE open == Str(<<K("COALESCE"), K("(")>>, <<>>)
           list == Expr(<<P(v), K(","), P(v + 1)>>, <<Sub(v), Val(v + 1)>>)
           close == Str(<<K(")")>>, <<>>)
           S == Sqlizers(2)
<1>6. Coalesce(v) = [k |-> "concat", parts |-> <<open, list, close>>]
  BY DEF Coalesce
<1>7. open \in S /\ list \in S /\ close \in S
  BY CoalesceMade
<1> HIDE DEF open, list, close, S
<1>8. <<open, list, close>> \in Seq(S)
  BY <1>7
<1>9. Coalesce(v) \in [k : {"concat"}, parts : Seq(S)]
  BY <1>6, <1>8
<1>10. Coalesce(v) \in ExprsOf(Sqlizers(2))
  BY <1>9, Zenon DEF ExprsOf, S
<1> QED BY <1>10, CoalesceMade

-----------------------------------------------------------------------------
(* The builder's types *)

\* What a call of Where, ID, Having or OrderByClause ends in.
LEMMA ReachedIs ==
    ASSUME through \in {"builder", "QueryModelStmt", "QueryColStmt", "UpdateStmt", "DeleteStmt"}, NEW kinds
    PROVE  /\ Called("Where", kinds) => Reached("Where") = "Where"
           /\ Called("Having", kinds) => Reached("Having") = "Having"
           /\ Called("ID", kinds) /\ through # "builder" => Reached("ID") = "Where"
           /\ Called("OrderByClause", kinds) => Reached("OrderByClause") \in {"Having", "OrderByClause"}
<1>1. CASE through = "builder"
  BY <1>1 DEF Reached
<1>2. CASE through \in {"QueryModelStmt", "QueryColStmt"}
  BY <1>2 DEF Reached, Called, Methods, QueryModelStmt, QueryColStmt, PassedOn
<1>3. CASE through \in {"UpdateStmt", "DeleteStmt"}
  BY <1>3 DEF Reached, Called, Methods, UpdateStmt, DeleteStmt, PassedOn
<1> QED BY <1>1, <1>2, <1>3

\* A statement is of the type its field k names.
LEMMA StatementKinds ==
    ASSUME NEW S, NEW s \in StatementsOf(S)
    PROVE  /\ s.k \in {"select", "update", "delete", "insert"}
           /\ s.k = "select" <=> s \in Selects(S)
           /\ s.k = "update" <=> s \in Updates(S)
           /\ s.k = "delete" <=> s \in Deletes(S)
           /\ s.k = "insert" <=> s \in Inserts(S)
<1>1. s \in Selects(S) \/ s \in Updates(S) \/ s \in Deletes(S) \/ s \in Inserts(S)
  BY Zenon DEF StatementsOf
<1>2. s \in Selects(S) => s.k = "select"
  BY DEF Selects
<1>3. s \in Updates(S) => s.k = "update"
  BY DEF Updates
<1>4. s \in Deletes(S) => s.k = "delete"
  BY DEF Deletes
<1>5. s \in Inserts(S) => s.k = "insert"
  BY DEF Inserts
<1> QED BY <1>1, <1>2, <1>3, <1>4, <1>5

\* The same statement with another value in one of its fields.
LEMMA SelectWith ==
    ASSUME NEW S, NEW s \in Selects(S), NEW parts \in Seq(S), NEW names \in Seq(STRING), NEW name \in STRING
    PROVE  /\ [s EXCEPT !.prefixes = parts] \in Selects(S) /\ [s EXCEPT !.columns = parts] \in Selects(S)
           /\ [s EXCEPT !.from = parts] \in Selects(S) /\ [s EXCEPT !.joins = parts] \in Selects(S)
           /\ [s EXCEPT !.where = parts] \in Selects(S) /\ [s EXCEPT !.having = parts] \in Selects(S)
           /\ [s EXCEPT !.orderBys = parts] \in Selects(S) /\ [s EXCEPT !.suffixes = parts] \in Selects(S)
           /\ [s EXCEPT !.options = names] \in Selects(S) /\ [s EXCEPT !.groupBys = names] \in Selects(S)
           /\ [s EXCEPT !.limit = name] \in Selects(S) /\ [s EXCEPT !.offset = name] \in Selects(S)
<1>1. [s EXCEPT !.prefixes = parts] \in Selects(S) /\ [s EXCEPT !.columns = parts] \in Selects(S)
  BY DEF Selects
<1>2. [s EXCEPT !.from = parts] \in Selects(S) /\ [s EXCEPT !.joins = parts] \in Selects(S)
  BY DEF Selects
<1>3. [s EXCEPT !.where = parts] \in Selects(S) /\ [s EXCEPT !.having = parts] \in Selects(S)
  BY DEF Selects
<1>4. [s EXCEPT !.orderBys = parts] \in Selects(S) /\ [s EXCEPT !.suffixes = parts] \in Selects(S)
  BY DEF Selects
<1>5. [s EXCEPT !.options = names] \in Selects(S) /\ [s EXCEPT !.groupBys = names] \in Selects(S)
  BY DEF Selects
<1>6. [s EXCEPT !.limit = name] \in Selects(S) /\ [s EXCEPT !.offset = name] \in Selects(S)
  BY DEF Selects
<1> QED BY <1>1, <1>2, <1>3, <1>4, <1>5, <1>6

\* An UPDATE, a DELETE and an INSERT too.
LEMMA UpdateWith ==
    ASSUME NEW S, NEW s \in Updates(S), NEW parts \in Seq(S), NEW names \in Seq(STRING), NEW name \in STRING,
           NEW sets \in Seq(STRING \X S)
    PROVE  /\ [s EXCEPT !.prefixes = parts] \in Updates(S) /\ [s EXCEPT !.from = parts] \in Updates(S)
           /\ [s EXCEPT !.where = parts] \in Updates(S) /\ [s EXCEPT !.suffixes = parts] \in Updates(S)
           /\ [s EXCEPT !.sets = sets] \in Updates(S) /\ [s EXCEPT !.orderBys = names] \in Updates(S)
           /\ [s EXCEPT !.table = name] \in Updates(S)
           /\ [s EXCEPT !.limit = name] \in Updates(S) /\ [s EXCEPT !.offset = name] \in Updates(S)
<1>1. [s EXCEPT !.prefixes = parts] \in Updates(S) /\ [s EXCEPT !.from = parts] \in Updates(S)
  BY DEF Updates
<1>2. [s EXCEPT !.where = parts] \in Updates(S) /\ [s EXCEPT !.suffixes = parts] \in Updates(S)
  BY DEF Updates
<1>3. [s EXCEPT !.sets = sets] \in Updates(S) /\ [s EXCEPT !.orderBys = names] \in Updates(S)
  BY DEF Updates
<1>4. [s EXCEPT !.table = name] \in Updates(S)
  BY DEF Updates
<1>5. [s EXCEPT !.limit = name] \in Updates(S) /\ [s EXCEPT !.offset = name] \in Updates(S)
  BY DEF Updates
<1> QED BY <1>1, <1>2, <1>3, <1>4, <1>5

LEMMA DeleteWith ==
    ASSUME NEW S, NEW s \in Deletes(S), NEW parts \in Seq(S), NEW names \in Seq(STRING), NEW name \in STRING
    PROVE  /\ [s EXCEPT !.prefixes = parts] \in Deletes(S) /\ [s EXCEPT !.where = parts] \in Deletes(S)
           /\ [s EXCEPT !.suffixes = parts] \in Deletes(S) /\ [s EXCEPT !.orderBys = names] \in Deletes(S)
           /\ [s EXCEPT !.table = name] \in Deletes(S)
           /\ [s EXCEPT !.limit = name] \in Deletes(S) /\ [s EXCEPT !.offset = name] \in Deletes(S)
<1>1. [s EXCEPT !.prefixes = parts] \in Deletes(S) /\ [s EXCEPT !.where = parts] \in Deletes(S)
  BY DEF Deletes
<1>2. [s EXCEPT !.suffixes = parts] \in Deletes(S) /\ [s EXCEPT !.orderBys = names] \in Deletes(S)
  BY DEF Deletes
<1>3. [s EXCEPT !.table = name] \in Deletes(S)
  BY DEF Deletes
<1>4. [s EXCEPT !.limit = name] \in Deletes(S) /\ [s EXCEPT !.offset = name] \in Deletes(S)
  BY DEF Deletes
<1> QED BY <1>1, <1>2, <1>3, <1>4

LEMMA InsertWith ==
    ASSUME NEW S, NEW s \in Inserts(S), NEW parts \in Seq(S), NEW names \in Seq(STRING), NEW name \in STRING,
           NEW rows \in Seq(Seq(S))
    PROVE  /\ [s EXCEPT !.prefixes = parts] \in Inserts(S) /\ [s EXCEPT !.select = parts] \in Inserts(S)
           /\ [s EXCEPT !.suffixes = parts] \in Inserts(S) /\ [s EXCEPT !.options = names] \in Inserts(S)
           /\ [s EXCEPT !.cols = names] \in Inserts(S) /\ [s EXCEPT !.rows = rows] \in Inserts(S)
           /\ [s EXCEPT !.cols = names, !.rows = rows] \in Inserts(S)
           /\ [s EXCEPT !.table = name] \in Inserts(S) /\ [s EXCEPT !.keyword = name] \in Inserts(S)
<1>1. [s EXCEPT !.prefixes = parts] \in Inserts(S) /\ [s EXCEPT !.select = parts] \in Inserts(S)
  BY DEF Inserts
<1>2. [s EXCEPT !.suffixes = parts] \in Inserts(S) /\ [s EXCEPT !.options = names] \in Inserts(S)
  BY DEF Inserts
<1>3. [s EXCEPT !.cols = names] \in Inserts(S) /\ [s EXCEPT !.rows = rows] \in Inserts(S)
  BY DEF Inserts
<1>4. [s EXCEPT !.cols = names, !.rows = rows] \in Inserts(S)
  BY <1>3 DEF Inserts
<1>5. [s EXCEPT !.table = name] \in Inserts(S) /\ [s EXCEPT !.keyword = name] \in Inserts(S)
  BY DEF Inserts
<1> QED BY <1>1, <1>2, <1>3, <1>4, <1>5

\* A statement's fields.
LEMMA SelectFields ==
    ASSUME NEW S, NEW s \in Selects(S)
    PROVE  /\ s.prefixes \in Seq(S) /\ s.columns \in Seq(S) /\ s.from \in Seq(S) /\ s.joins \in Seq(S)
           /\ s.where \in Seq(S) /\ s.having \in Seq(S) /\ s.orderBys \in Seq(S) /\ s.suffixes \in Seq(S)
           /\ s.options \in Seq(STRING) /\ s.groupBys \in Seq(STRING)
BY DEF Selects

LEMMA UpdateFields ==
    ASSUME NEW S, NEW s \in Updates(S)
    PROVE  /\ s.prefixes \in Seq(S) /\ s.sets \in Seq(STRING \X S) /\ s.from \in Seq(S)
           /\ s.where \in Seq(S) /\ s.orderBys \in Seq(STRING) /\ s.suffixes \in Seq(S)
BY DEF Updates

LEMMA DeleteFields ==
    ASSUME NEW S, NEW s \in Deletes(S)
    PROVE  /\ s.prefixes \in Seq(S) /\ s.where \in Seq(S)
           /\ s.orderBys \in Seq(STRING) /\ s.suffixes \in Seq(S)
BY DEF Deletes

LEMMA InsertFields ==
    ASSUME NEW S, NEW s \in Inserts(S)
    PROVE  /\ s.prefixes \in Seq(S) /\ s.options \in Seq(STRING) /\ s.rows \in Seq(Seq(S))
           /\ s.select \in Seq(S) /\ s.suffixes \in Seq(S)
BY DEF Inserts

\* What the parts of the builder are.
Below == Sqlizers(Nesting - 1)

\* What the actions pass lies below a statement.
LEMMA BelowIs ==
    /\ Nesting - 1 \in Nat
    /\ Flat \subseteq Below /\ ExprsOf(Flat) \subseteq Below /\ StatementsOf(Flat) \subseteq Below
    /\ NestedTwice \subseteq Below /\ Sqlizers(2) \subseteq Below /\ Sqlizers(3) \subseteq Below
    /\ Sqlizers(4) \subseteq Below
    /\ StatementsOf(Below) \subseteq Sqlizers(Nesting)
<1>1. /\ Nesting - 1 \in Nat /\ (Nesting - 1) + 1 = Nesting
      /\ 1 <= Nesting - 1 /\ 2 <= Nesting - 1 /\ 3 <= Nesting - 1 /\ 4 <= Nesting - 1
      /\ 0 \in Nat /\ 1 \in Nat /\ 2 \in Nat /\ 3 \in Nat /\ 4 \in Nat /\ 0 + 1 = 1 /\ 1 + 1 = 2
  BY BuilderAssumption
<1>2. /\ Sqlizers(1) \subseteq Below /\ Sqlizers(2) \subseteq Below /\ Sqlizers(3) \subseteq Below
      /\ Sqlizers(4) \subseteq Below
  BY <1>1, DeeperStill DEF Below
<1>3. Flat = Sqlizers(0)
  BY SqlizersAt DEF Flat
<1>4. Flat \subseteq Sqlizers(1) /\ ExprsOf(Flat) \subseteq Sqlizers(1)
      /\ StatementsOf(Flat) \subseteq Sqlizers(1)
  BY <1>1, <1>3, LevelsAre, Zenon
<1>5. Nested \subseteq Sqlizers(1)
  BY <1>4 DEF Nested
<1>6. ExprsOf(Nested) \subseteq Sqlizers(2)
  <2>1. SqlizersOf(Nested) \subseteq SqlizersOf(Sqlizers(1))
    BY <1>5, SqlizersGrow
  <2>2. SqlizersOf(Sqlizers(1)) = Sqlizers(2)
    BY <1>1, SqlizersAt, Zenon
  <2> QED BY <2>1, <2>2, Zenon DEF SqlizersOf
<1>7. NestedTwice \subseteq Below
  BY <1>2, <1>5, <1>6 DEF NestedTwice
<1>8. StatementsOf(Below) \subseteq Sqlizers(Nesting)
  BY <1>1, LevelsAre, Zenon DEF Below
<1> QED BY <1>1, <1>2, <1>4, <1>7, <1>8

\* A call of package try is none.
LEMMA NoSqlizerTries == \A n \in Nat : \A s \in Sqlizers(n) : s.k # "try"
<1>1. ASSUME NEW S, NEW s \in SqlizersOf(S) PROVE s.k # "try"
  <2>1. CASE s \in StatementsOf(S)
    BY <2>1, StatementKinds
  <2>2. CASE s \in ExprsOf(S)
    BY <2>2 DEF ExprsOf, Vals
  <2> QED BY <2>1, <2>2, Zenon DEF SqlizersOf
<1>2. ASSUME NEW n \in Nat PROVE \A s \in Sqlizers(n) : s.k # "try"
  <2>1. n = 0 \/ (n - 1 \in Nat /\ (n - 1) + 1 = n)
    OBVIOUS
  <2>2. \E S : Sqlizers(n) = SqlizersOf(S)
    BY <2>1, SqlizersAt, Zenon
  <2> QED BY <1>1, <2>2
<1> QED BY <1>2

\* What a clause makes of something is a part if that is one, and empty if it is nil.
LEMMA PartIs ==
    ASSUME NEW S, NEW x \in S \cup {[k |-> "nil"]}, [k |-> "empty"] \in S
    PROVE  Part(x) \in S
<1>1. CASE x.k = "nil"
  BY <1>1 DEF Part
<1>2. CASE x.k # "nil"
  <2>1. x # [k |-> "nil"]
    BY <1>2
  <2> QED BY <1>2, <2>1 DEF Part
<1> QED BY <1>1, <1>2

\* What the methods are given.
LEMMA PredicateIs ==
    ASSUME NEW shape \in AllShapes, NEW v \in Nat
    PROVE  Pred(shape, v) \in Predicates /\ Part(Given(Pred(shape, v))) \in Below
<1>1. Pred(shape, v) \in NestedTwice \cup TryCalls
  BY PredIs
<1>2. Pred(shape, v) \in Predicates
  BY <1>1, BelowIs, Zenon DEF Predicates, Below
<1>a. Given(Pred(shape, v)) \in Below => Part(Given(Pred(shape, v))) \in Below
  <2>1. [k |-> "empty"] \in Below
    BY NoneIsFlat, BelowIs, Zenon
  <2> QED BY <2>1, PartIs
<1>3. CASE Pred(shape, v) \in TryCalls
  <2>1. Given(Pred(shape, v)) \in Flat \cup ExprsOf(Flat)
    BY <1>3, TryIs
  <2> QED BY <1>2, <1>a, <2>1, BelowIs, Zenon
<1>4. CASE Pred(shape, v) \in NestedTwice
  <2>1. Pred(shape, v).k # "try"
    <3>1. Pred(shape, v) \in Sqlizers(Nesting - 1)
      BY <1>4, BelowIs, Zenon DEF Below
    <3> QED BY <3>1, NoSqlizerTries, BelowIs
  <2>2. Given(Pred(shape, v)) = Pred(shape, v)
    BY <2>1, Zenon DEF Given
  <2> QED BY <1>2, <1>4, <1>a, <2>2, BelowIs, Zenon
<1> QED BY <1>1, <1>3, <1>4, Zenon

-----------------------------------------------------------------------------
(* Statements with other parts *)

\* The other statement is of the same kind, made of parts in S.
Alike(S, s, t) == t \in StatementsOf(S) /\ t.k = s.k

\* A statement with other parts is one of the same kind.
LEMMA AlikeSelects ==
    ASSUME NEW S, NEW s \in StatementsOf(S), s.k = "select"
    PROVE  s \in Selects(S) /\ \A t \in Selects(S) : Alike(S, s, t)
<1>1. s \in Selects(S)
  BY StatementKinds
<1>2. ASSUME NEW t \in Selects(S) PROVE Alike(S, s, t)
  <2>1. t \in StatementsOf(S)
    BY Zenon DEF StatementsOf
  <2>2. t.k = "select"
    BY <2>1, StatementKinds
  <2> QED BY <2>1, <2>2 DEF Alike
<1> QED BY <1>1, <1>2

LEMMA AlikeUpdates ==
    ASSUME NEW S, NEW s \in StatementsOf(S), s.k = "update"
    PROVE  s \in Updates(S) /\ \A t \in Updates(S) : Alike(S, s, t)
<1>1. s \in Updates(S)
  BY StatementKinds
<1>2. ASSUME NEW t \in Updates(S) PROVE Alike(S, s, t)
  <2>1. t \in StatementsOf(S)
    BY Zenon DEF StatementsOf
  <2>2. t.k = "update"
    BY <2>1, StatementKinds
  <2> QED BY <2>1, <2>2 DEF Alike
<1> QED BY <1>1, <1>2

LEMMA AlikeDeletes ==
    ASSUME NEW S, NEW s \in StatementsOf(S), s.k = "delete"
    PROVE  s \in Deletes(S) /\ \A t \in Deletes(S) : Alike(S, s, t)
<1>1. s \in Deletes(S)
  BY StatementKinds
<1>2. ASSUME NEW t \in Deletes(S) PROVE Alike(S, s, t)
  <2>1. t \in StatementsOf(S)
    BY Zenon DEF StatementsOf
  <2>2. t.k = "delete"
    BY <2>1, StatementKinds
  <2> QED BY <2>1, <2>2 DEF Alike
<1> QED BY <1>1, <1>2

LEMMA AlikeInserts ==
    ASSUME NEW S, NEW s \in StatementsOf(S), s.k = "insert"
    PROVE  s \in Inserts(S) /\ \A t \in Inserts(S) : Alike(S, s, t)
<1>1. s \in Inserts(S)
  BY StatementKinds
<1>2. ASSUME NEW t \in Inserts(S) PROVE Alike(S, s, t)
  <2>1. t \in StatementsOf(S)
    BY Zenon DEF StatementsOf
  <2>2. t.k = "insert"
    BY <2>1, StatementKinds
  <2> QED BY <2>1, <2>2 DEF Alike
<1> QED BY <1>1, <1>2

\* Sequences that a call makes.
LEMMA Longer ==
    ASSUME NEW S, NEW x \in S, NEW xs \in Seq(S)
    PROVE  Append(xs, x) \in Seq(S) /\ <<x>> \in Seq(S) /\ <<>> \in Seq(S)
<1>1. <<x>> \in Seq(S)
  BY Single, Zenon
<1> QED BY <1>1

\* What the methods that several builders have make of theirs.
LEMMA SharedAlike ==
    ASSUME NEW S, NEW s \in StatementsOf(S), NEW part \in S, NEW name \in STRING
    PROVE  /\ Alike(S, s, [s EXCEPT !.prefixes = Append(@, part)])
           /\ Alike(S, s, [s EXCEPT !.suffixes = Append(@, part)])
           /\ s.k # "insert" => /\ Alike(S, s, [s EXCEPT !.where = Append(@, part)])
                                /\ Alike(S, s, [s EXCEPT !.limit = name])
                                /\ Alike(S, s, [s EXCEPT !.offset = name])
           /\ s.k \in {"select", "update"} => Alike(S, s, [s EXCEPT !.from = <<part>>])
           /\ s.k \in {"select", "insert"} => Alike(S, s, [s EXCEPT !.options = Append(@, name)])
           /\ s.k # "select" => Alike(S, s, [s EXCEPT !.table = name])
           /\ s.k \in {"update", "delete"} => Alike(S, s, [s EXCEPT !.orderBys = Append(@, name)])
<1>1. CASE s.k = "select"
  <2>1. s \in Selects(S) /\ \A t \in Selects(S) : Alike(S, s, t)
    BY <1>1, AlikeSelects
  <2>2. Append(s.prefixes, part) \in Seq(S) /\ Append(s.suffixes, part) \in Seq(S)
        /\ Append(s.where, part) \in Seq(S) /\ <<part>> \in Seq(S) /\ Append(s.options, name) \in Seq(STRING)
    BY <2>1, SelectFields, Longer
  <2>3. /\ [s EXCEPT !.prefixes = Append(@, part)] \in Selects(S)
        /\ [s EXCEPT !.suffixes = Append(@, part)] \in Selects(S)
        /\ [s EXCEPT !.where = Append(@, part)] \in Selects(S)
        /\ [s EXCEPT !.limit = name] \in Selects(S) /\ [s EXCEPT !.offset = name] \in Selects(S)
        /\ [s EXCEPT !.from = <<part>>] \in Selects(S)
        /\ [s EXCEPT !.options = Append(@, name)] \in Selects(S)
    BY <2>1, <2>2, SelectWith
  <2> QED BY <1>1, <2>1, <2>3
<1>2. CASE s.k = "update"
  <2>1. s \in Updates(S) /\ \A t \in Updates(S) : Alike(S, s, t)
    BY <1>2, AlikeUpdates
  <2>2. Append(s.prefixes, part) \in Seq(S) /\ Append(s.suffixes, part) \in Seq(S)
        /\ Append(s.where, part) \in Seq(S) /\ <<part>> \in Seq(S)
        /\ Append(s.orderBys, name) \in Seq(STRING) /\ s.sets \in Seq(STRING \X S)
    BY <2>1, UpdateFields, Longer
  <2>3. /\ [s EXCEPT !.prefixes = Append(@, part)] \in Updates(S)
        /\ [s EXCEPT !.suffixes = Append(@, part)] \in Updates(S)
        /\ [s EXCEPT !.where = Append(@, part)] \in Updates(S)
        /\ [s EXCEPT !.limit = name] \in Updates(S) /\ [s EXCEPT !.offset = name] \in Updates(S)
        /\ [s EXCEPT !.from = <<part>>] \in Updates(S) /\ [s EXCEPT !.table = name] \in Updates(S)
        /\ [s EXCEPT !.orderBys = Append(@, name)] \in Updates(S)
    BY <2>1, <2>2, UpdateWith
  <2> QED BY <1>2, <2>1, <2>3
<1>3. CASE s.k = "delete"
  <2>1. s \in Deletes(S) /\ \A t \in Deletes(S) : Alike(S, s, t)
    BY <1>3, AlikeDeletes
  <2>2. Append(s.prefixes, part) \in Seq(S) /\ Append(s.suffixes, part) \in Seq(S)
        /\ Append(s.where, part) \in Seq(S) /\ Append(s.orderBys, name) \in Seq(STRING)
    BY <2>1, DeleteFields, Longer
  <2>3. /\ [s EXCEPT !.prefixes = Append(@, part)] \in Deletes(S)
        /\ [s EXCEPT !.suffixes = Append(@, part)] \in Deletes(S)
        /\ [s EXCEPT !.where = Append(@, part)] \in Deletes(S)
        /\ [s EXCEPT !.limit = name] \in Deletes(S) /\ [s EXCEPT !.offset = name] \in Deletes(S)
        /\ [s EXCEPT !.table = name] \in Deletes(S)
        /\ [s EXCEPT !.orderBys = Append(@, name)] \in Deletes(S)
    BY <2>1, <2>2, DeleteWith
  <2> QED BY <1>3, <2>1, <2>3
<1>4. CASE s.k = "insert"
  <2>1. s \in Inserts(S) /\ \A t \in Inserts(S) : Alike(S, s, t)
    BY <1>4, AlikeInserts
  <2>2. Append(s.prefixes, part) \in Seq(S) /\ Append(s.suffixes, part) \in Seq(S)
        /\ Append(s.options, name) \in Seq(STRING) /\ s.rows \in Seq(Seq(S))
    BY <2>1, InsertFields, Longer
  <2>3. /\ [s EXCEPT !.prefixes = Append(@, part)] \in Inserts(S)
        /\ [s EXCEPT !.suffixes = Append(@, part)] \in Inserts(S)
        /\ [s EXCEPT !.options = Append(@, name)] \in Inserts(S)
        /\ [s EXCEPT !.table = name] \in Inserts(S)
    BY <2>1, <2>2, InsertWith
  <2> QED BY <1>4, <2>1, <2>3
<1> QED BY <1>1, <1>2, <1>3, <1>4, StatementKinds, Zenon

\* And what the methods of one builder make of its own.
LEMMA SelectAlike ==
    ASSUME NEW S, NEW s \in StatementsOf(S), s.k = "select", NEW part \in S, NEW name \in STRING
    PROVE  /\ Alike(S, s, [s EXCEPT !.columns = <<part>>]) /\ Alike(S, s, [s EXCEPT !.columns = <<>>])
           /\ Alike(S, s, [s EXCEPT !.columns = Append(@, part)])
           /\ Alike(S, s, [s EXCEPT !.joins = Append(@, part)])
           /\ Alike(S, s, [s EXCEPT !.having = Append(@, part)])
           /\ Alike(S, s, [s EXCEPT !.orderBys = Append(@, part)])
           /\ Alike(S, s, [s EXCEPT !.groupBys = Append(@, name)])
<1>1. s \in Selects(S) /\ \A t \in Selects(S) : Alike(S, s, t)
  BY AlikeSelects
<1>2. /\ <<part>> \in Seq(S) /\ <<>> \in Seq(S)
      /\ Append(s.columns, part) \in Seq(S) /\ Append(s.joins, part) \in Seq(S)
      /\ Append(s.having, part) \in Seq(S) /\ Append(s.orderBys, part) \in Seq(S)
      /\ Append(s.groupBys, name) \in Seq(STRING)
  BY <1>1, SelectFields, Longer
<1>3. /\ [s EXCEPT !.columns = <<part>>] \in Selects(S) /\ [s EXCEPT !.columns = <<>>] \in Selects(S)
      /\ [s EXCEPT !.columns = Append(@, part)] \in Selects(S)
      /\ [s EXCEPT !.joins = Append(@, part)] \in Selects(S)
      /\ [s EXCEPT !.having = Append(@, part)] \in Selects(S)
      /\ [s EXCEPT !.orderBys = Append(@, part)] \in Selects(S)
      /\ [s EXCEPT !.groupBys = Append(@, name)] \in Selects(S)
  BY <1>1, <1>2, SelectWith
<1> QED BY <1>1, <1>3

LEMMA UpdateAlike ==
    ASSUME NEW S, NEW s \in StatementsOf(S), s.k = "update", NEW pairs \in Seq(STRING \X S)
    PROVE  Alike(S, s, [s EXCEPT !.sets = @ \o pairs])
<1>1. s \in Updates(S) /\ \A t \in Updates(S) : Alike(S, s, t)
  BY AlikeUpdates
<1>2. s.sets \in Seq(STRING \X S)
  BY <1>1, UpdateFields
<1>3. s.sets \o pairs \in Seq(STRING \X S)
  BY <1>2
<1>4. [s EXCEPT !.sets = @ \o pairs] \in Updates(S)
  BY <1>1, <1>3, UpdateWith, NamesAndWords DEF Updates
<1> QED BY <1>1, <1>4

LEMMA InsertAlike ==
    ASSUME NEW S, NEW s \in StatementsOf(S), s.k = "insert", NEW cols \in Seq(STRING), NEW row \in Seq(S),
           NEW part \in S, NEW name \in STRING
    PROVE  /\ Alike(S, s, [s EXCEPT !.cols = cols]) /\ Alike(S, s, [s EXCEPT !.rows = Append(@, row)])
           /\ Alike(S, s, [s EXCEPT !.cols = cols, !.rows = <<row>>])
           /\ Alike(S, s, [s EXCEPT !.select = <<part>>]) /\ Alike(S, s, [s EXCEPT !.keyword = name])
<1>1. s \in Inserts(S) /\ \A t \in Inserts(S) : Alike(S, s, t)
  BY AlikeInserts
<1>2. <<part>> \in Seq(S) /\ Append(s.rows, row) \in Seq(Seq(S)) /\ <<row>> \in Seq(Seq(S))
  <2>1. s.rows \in Seq(Seq(S))
    BY <1>1, InsertFields
  <2>2. <<part>> \in Seq(S) /\ <<row>> \in Seq(Seq(S))
    BY Single, Zenon
  <2> QED BY <2>1, <2>2
<1>3. /\ [s EXCEPT !.cols = cols] \in Inserts(S) /\ [s EXCEPT !.rows = Append(@, row)] \in Inserts(S)
      /\ [s EXCEPT !.cols = cols, !.rows = <<row>>] \in Inserts(S)
      /\ [s EXCEPT !.select = <<part>>] \in Inserts(S) /\ [s EXCEPT !.keyword = name] \in Inserts(S)
  BY <1>1, <1>2, InsertWith
<1> QED BY <1>1, <1>3

-----------------------------------------------------------------------------
(* Calls *)

\* A call that makes another statement of the same kind of it keeps the types.
LEMMA CallKeeps ==
    ASSUME TypeOK, calls < MaxCalls, NEW new, Alike(Below, b, new), Update(new),
           asked' \in [where : Seq(Predicates), having : Seq(Predicates), orderBy : Seq(Predicates)]
    PROVE  TypeOK'
<1>1. through' \in Through /\ b'.k \in Kinds /\ b' \in StatementsOf(Sqlizers(Nesting - 1))
  BY Zenon DEF TypeOK, Alike, Update, Below
<1>2. calls' \in 0 .. MaxCalls
  BY BuilderAssumption DEF TypeOK, Update
<1> QED BY <1>1, <1>2, Zenon DEF TypeOK, Predicates

LEMMA OnlyKeeps ==
    ASSUME TypeOK, calls < MaxCalls, NEW new, Alike(Below, b, new), Update(new), Only
    PROVE  TypeOK'
<1>1. asked' \in [where : Seq(Predicates), having : Seq(Predicates), orderBy : Seq(Predicates)]
  BY Zenon DEF TypeOK, Only
<1> QED BY <1>1, CallKeeps

\* What is asked for is one of the predicates.
LEMMA AskedIs ==
    ASSUME TypeOK, NEW pred \in Predicates
    PROVE  /\ [asked EXCEPT !.where = Append(@, pred)]
                \in [where : Seq(Predicates), having : Seq(Predicates), orderBy : Seq(Predicates)]
           /\ [asked EXCEPT !.having = Append(@, pred)]
                \in [where : Seq(Predicates), having : Seq(Predicates), orderBy : Seq(Predicates)]
           /\ [asked EXCEPT !.orderBy = Append(@, pred)]
                \in [where : Seq(Predicates), having : Seq(Predicates), orderBy : Seq(Predicates)]
<1>1. asked \in [where : Seq(Predicates), having : Seq(Predicates), orderBy : Seq(Predicates)]
  BY Zenon DEF TypeOK
<1>2. Append(asked.where, pred) \in Seq(Predicates) /\ Append(asked.having, pred) \in Seq(Predicates)
      /\ Append(asked.orderBy, pred) \in Seq(Predicates)
  BY <1>1
<1> QED BY <1>1, <1>2

\* Where, Having and OrderByClause keep the builder's kind.
LEMMA KeptAlike ==
    ASSUME TypeOK, NEW pred, Part(Given(pred)) \in Below,
           NEW method \in {"Where", "Having", "OrderByClause"}, b.k # "insert", method # "Where" => b.k = "select",
           method = "OrderByClause" => pred \in Below
    PROVE  Alike(Below, b, Kept(method, pred))
<1>1. b \in StatementsOf(Below) /\ "a" \in STRING
  BY NamesAndWords, Zenon DEF TypeOK, Below
<1>2. CASE method = "Where" /\ b.k = "select" /\ SaysNothing(pred)
  <2>1. Kept(method, pred) = b
    BY <1>2 DEF Kept
  <2> QED BY <1>1, <2>1 DEF Alike
<1>3. CASE method = "Where" /\ ~(b.k = "select" /\ SaysNothing(pred))
  <2>1. Kept(method, pred) = [b EXCEPT !.where = Append(@, Part(Given(pred)))]
    BY <1>3 DEF Kept
  <2>2. Alike(Below, b, [b EXCEPT !.where = Append(@, Part(Given(pred)))])
    BY <1>1, SharedAlike
  <2> QED BY <2>1, <2>2
<1>4. CASE method = "Having"
  <2>1. Kept(method, pred) = [b EXCEPT !.having = Append(@, Part(Given(pred)))]
    BY <1>4 DEF Kept
  <2>2. Alike(Below, b, [b EXCEPT !.having = Append(@, Part(Given(pred)))])
    BY <1>1, <1>4, SelectAlike
  <2> QED BY <2>1, <2>2
<1>5. CASE method = "OrderByClause"
  <2>1. Kept(method, pred) = [b EXCEPT !.orderBys = Append(@, pred)]
    BY <1>5 DEF Kept
  <2>2. Alike(Below, b, [b EXCEPT !.orderBys = Append(@, pred)])
    BY <1>1, <1>5, SelectAlike
  <2> QED BY <2>1, <2>2
<1> QED BY <1>2, <1>3, <1>4, <1>5

\* A text that is given as it is.
LEMMA TextPredicate ==
    ASSUME NEW t, NEW args, Str(t, args) \in Flat
    PROVE  Str(t, args) \in Below /\ Str(t, args) \in Predicates /\ Part(Given(Str(t, args))) = Str(t, args)
<1>1. Str(t, args).k # "try" /\ Str(t, args).k # "nil"
  BY DEF Str
<1>2. Part(Given(Str(t, args))) = Str(t, args)
  BY <1>1, Zenon DEF Given, Part
<1>3. Str(t, args) \in Below
  BY BelowIs
<1> QED BY <1>2, <1>3, Zenon DEF Predicates, Below

\* The builder's calls so far, and the numbers they give.
LEMMA CallNumbers ==
    ASSUME TypeOK
    PROVE  V \in Nat /\ V + 1 \in Nat /\ b \in StatementsOf(Below) /\ through \in Through
           /\ through \in {"builder", "QueryModelStmt", "QueryColStmt", "UpdateStmt", "DeleteStmt"}
<1>1. calls \in Nat
  BY BuilderAssumption DEF TypeOK
<1>2. V \in Nat /\ V + 1 \in Nat
  BY <1>1 DEF V
<1>3. b \in StatementsOf(Below) /\ through \in Through
  BY Zenon DEF TypeOK, Below
<1> QED BY <1>2, <1>3, BuilderAssumption

\* The builders a caller starts with.
LEMMA StartIs ==
    ASSUME NEW S, Str(<<N("a")>>, <<>>) \in S, Str(<<N("t")>>, <<>>) \in S,
           NEW stmt \in Through, NEW kind \in KindsOf(stmt)
    PROVE  Start(stmt, kind) \in StatementsOf(S) /\ Start(stmt, kind).k \in Kinds
<1>1. kind \in Kinds /\ kind \in {"select", "update", "delete", "insert"}
      /\ (stmt = "QueryColStmt" => kind = "select") /\ (stmt = "UpdateStmt" => kind = "update")
      /\ (stmt = "DeleteStmt" => kind = "delete")
      /\ stmt \in {"builder", "QueryModelStmt", "QueryColStmt", "UpdateStmt", "DeleteStmt"}
  BY BuilderAssumption DEF KindsOf
<1>2. Empty(kind) \in StatementsOf(S) /\ Empty(kind).k = kind
  <2>1. Empty(kind) \in StatementsOf(S)
    BY <1>1, EmptyIs DEF StatementsOf
  <2> QED BY <1>1, <2>1 DEF Empty
<1>4. CASE stmt \in {"builder", "QueryModelStmt"}
  <2>1. Start(stmt, kind) = Empty(kind)
    BY <1>4 DEF Start
  <2> QED BY <1>1, <1>2, <2>1
<1>5. CASE stmt = "QueryColStmt"
  <2>1. Empty(kind) \in Selects(S)
    BY <1>1, <1>2, <1>5, StatementKinds
  <2>2. Start(stmt, kind) = [Empty(kind) EXCEPT !.columns = <<>>, !.from = <<>>]
    BY <1>5 DEF Start
  <2>3. <<>> \in Seq(S)
    OBVIOUS
  <2>4. Start(stmt, kind) \in Selects(S)
    BY <2>1, <2>2, <2>3 DEF Selects
  <2>5. Start(stmt, kind) \in StatementsOf(S)
    BY <2>4, Zenon DEF StatementsOf
  <2>6. Start(stmt, kind).k = "select"
    BY <2>4, <2>5, StatementKinds
  <2> QED BY <1>1, <1>5, <2>5, <2>6
<1>6. CASE stmt = "UpdateStmt"
  <2>1. Empty(kind) \in Updates(S)
    BY <1>1, <1>2, <1>6, StatementKinds
  <2>2. Start(stmt, kind) = [Empty(kind) EXCEPT !.table = ""]
    BY <1>6 DEF Start
  <2>3. "" \in STRING
    BY NamesAndWords
  <2>4. Start(stmt, kind) \in Updates(S)
    BY <2>1, <2>2, <2>3 DEF Updates
  <2>5. Start(stmt, kind) \in StatementsOf(S)
    BY <2>4, Zenon DEF StatementsOf
  <2>6. Start(stmt, kind).k = "update"
    BY <2>4, <2>5, StatementKinds
  <2> QED BY <1>1, <1>6, <2>5, <2>6
<1>7. CASE stmt = "DeleteStmt"
  <2>1. Empty(kind) \in Deletes(S)
    BY <1>1, <1>2, <1>7, StatementKinds
  <2>2. Start(stmt, kind) = [Empty(kind) EXCEPT !.table = ""]
    BY <1>7 DEF Start
  <2>3. "" \in STRING
    BY NamesAndWords
  <2>4. Start(stmt, kind) \in Deletes(S)
    BY <2>1, <2>2, <2>3 DEF Deletes
  <2>5. Start(stmt, kind) \in StatementsOf(S)
    BY <2>4, Zenon DEF StatementsOf
  <2>6. Start(stmt, kind).k = "delete"
    BY <2>4, <2>5, StatementKinds
  <2> QED BY <1>1, <1>7, <2>5, <2>6
<1> QED BY <1>1, <1>4, <1>5, <1>6, <1>7

-----------------------------------------------------------------------------
(* Types *)

\* A statement starts with its types,
LEMMA InitTyped == Init => TypeOK
<1> SUFFICES ASSUME Init PROVE TypeOK
  OBVIOUS
<1>1. PICK kind \in KindsOf(through) : b = Start(through, kind)
  BY DEF Init
<1>2. through \in Through /\ b.k \in Kinds /\ b \in StatementsOf(Sqlizers(Nesting - 1))
  <2>1. through \in Through
    BY DEF Init
  <2>2. Str(<<N("a")>>, <<>>) \in Below /\ Str(<<N("t")>>, <<>>) \in Below
    BY EmptyFlat, BelowIs
  <2> QED BY <1>1, <2>1, <2>2, StartIs, Zenon DEF Below
<1>3. calls \in 0 .. MaxCalls
  BY BuilderAssumption DEF Init
<1>4. asked \in [where : Seq(Predicates), having : Seq(Predicates), orderBy : Seq(Predicates)]
  <2>1. <<>> \in Seq(Predicates)
    OBVIOUS
  <2> QED BY <2>1 DEF Init
<1> QED BY <1>2, <1>3, <1>4, Zenon DEF TypeOK

\* No member at all makes a sequence.
LEMMA EmptySequence == \A S : <<>> \in Seq(S)
OBVIOUS

\* What FromSelect and Set get.
LEMMA AliasSubIs == ASSUME NEW v \in Nat PROVE Alias(Sub(v), "s") \in Below
<1>1. Sub(v) \in Sqlizers(1) /\ 1 + 1 = 2 /\ 1 \in Nat
  <2>1. Sub(v) \in StatementsOf(Flat) /\ Flat = Sqlizers(0)
    BY SubIs, SqlizersAt, Zenon DEF StatementsOf, Flat
  <2>2. 0 \in Nat /\ 0 + 1 = 1 /\ 1 + 1 = 2 /\ 1 \in Nat
    OBVIOUS
  <2> QED BY <2>1, <2>2, LevelsAre, Zenon
<1>2. Alias(Sub(v), "s") \in Sqlizers(2)
  BY <1>1, AliasIs, NamesAndWords, Zenon
<1> QED BY <1>2, BelowIs

\* What Set, Values and InsertSelect are given.
LEMMA GivenIs ==
    ASSUME NEW v \in Nat
    PROVE  /\ Val(v) \in Below /\ Val(v + 1) \in Below /\ Sub(v) \in Below /\ Case(v) \in Below
           /\ Coalesce(v) \in Below
<1>1. Val(v) \in Below /\ Val(v + 1) \in Below
  BY FlatAre, BelowIs
<1>2. Sub(v) \in Below
  BY SubIs, BelowIs DEF StatementsOf
<1>3. Case(v) \in Below /\ Coalesce(v) \in Below
  BY CaseIs, CoalesceIs, BelowIs
<1> QED BY <1>1, <1>2, <1>3

\* The parts of a Coalesce lie below a statement.
LEMMA CoalesceParts ==
    ASSUME NEW v \in Nat
    PROVE  /\ Str(<<K("COALESCE"), K("(")>>, <<>>) \in Below
           /\ Expr(<<P(v), K(","), P(v + 1)>>, <<Sub(v), Val(v + 1)>>) \in Below
           /\ Str(<<K(")")>>, <<>>) \in Below
BY CoalesceMade, BelowIs

\* What Set is given.
LEMMA SetPairs ==
    ASSUME NEW v \in Nat, NEW S, Val(v) \in S, Val(v + 1) \in S, Sub(v) \in S, Case(v) \in S, Coalesce(v) \in S
    PROVE  /\ <<<<"a", Val(v)>>>> \in Seq(STRING \X S) /\ <<<<"b", Sub(v)>>>> \in Seq(STRING \X S)
           /\ <<<<"b", Case(v)>>>> \in Seq(STRING \X S) /\ <<<<"b", Coalesce(v)>>>> \in Seq(STRING \X S)
           /\ <<<<"a", Val(v)>>, <<"b", Val(v + 1)>>>> \in Seq(STRING \X S)
<1> DEFINE Q == STRING \X S
<1>1. "a" \in STRING /\ "b" \in STRING
  BY NamesAndWords
<1>2. /\ <<"a", Val(v)>> \in Q /\ <<"b", Sub(v)>> \in Q /\ <<"b", Case(v)>> \in Q
      /\ <<"b", Coalesce(v)>> \in Q /\ <<"b", Val(v + 1)>> \in Q
  BY <1>1
<1> HIDE DEF Q
<1>3. /\ <<<<"a", Val(v)>>>> \in Seq(Q) /\ <<<<"b", Sub(v)>>>> \in Seq(Q) /\ <<<<"b", Case(v)>>>> \in Seq(Q)
      /\ <<<<"b", Coalesce(v)>>>> \in Seq(Q)
  BY <1>2, Single, Zenon
<1>4. <<<<"a", Val(v)>>, <<"b", Val(v + 1)>>>> \in Seq(Q)
  BY <1>2, PairIs
<1> QED BY <1>3, <1>4 DEF Q

\* and every call keeps them.
LEMMA NextTyped == TypeOK /\ Next => TypeOK'
<1> SUFFICES ASSUME TypeOK, Next PROVE TypeOK'
  OBVIOUS
<1>1. /\ V \in Nat /\ V + 1 \in Nat /\ b \in StatementsOf(Below) /\ through \in Through
      /\ through \in {"builder", "QueryModelStmt", "QueryColStmt", "UpdateStmt", "DeleteStmt"}
  BY CallNumbers
<1>2. Flat \subseteq Below /\ ExprsOf(Flat) \subseteq Below /\ "a" \in STRING /\ "b" \in STRING
      /\ [k |-> "nil"] \in Below /\ [k |-> "empty"] \in Below
  BY BelowIs, NoneIsFlat, NamesAndWords, Zenon
<1>3. CASE Table
  <2>1. b.k \in {"update", "delete", "insert"} /\ calls < MaxCalls /\ Update([b EXCEPT !.table = "u"]) /\ Only
    BY <1>3 DEF Table, Is, Of
  <2>2. "u" \in STRING
    BY NamesAndWords
  <2>3. Alike(Below, b, [b EXCEPT !.table = "u"])
    BY <1>1, <1>2, <2>1, <2>2, SharedAlike
  <2> QED BY <2>1, <2>3, OnlyKeeps
<1>4. CASE Prefix
  <2> DEFINE part == Expr(<<K("WITH"), N("c"), K("AS")>> \o Parens(<<K("SELECT"), P(V)>>), <<Val(V)>>)
             new == [b EXCEPT !.prefixes = Append(@, part)]
  <2>1. b.k \in {"select", "insert", "update", "delete"} /\ calls < MaxCalls /\ Update(new) /\ Only
    BY <1>4 DEF Prefix, Is, Of
  <2>2. part \in Below
    BY <1>1, <1>2, PrefixIs
  <2> HIDE DEF part
  <2>3. Alike(Below, b, new)
    BY <1>1, <1>2, <2>1, <2>2, SharedAlike
  <2> HIDE DEF new
  <2> QED BY <2>1, <2>3, OnlyKeeps
<1>5. CASE Suffix
  <2> DEFINE part == Expr(<<K("RETURNING"), P(V)>>, <<Val(V)>>)
             new == [b EXCEPT !.suffixes = Append(@, part)]
  <2>1. b.k \in {"select", "insert", "update", "delete"} /\ calls < MaxCalls /\ Update(new) /\ Only
    BY <1>5 DEF Suffix, Is, Of
  <2>2. part \in Below
    BY <1>1, <1>2, SuffixIs
  <2> HIDE DEF part
  <2>3. Alike(Below, b, new)
    BY <1>1, <1>2, <2>1, <2>2, SharedAlike
  <2> HIDE DEF new
  <2> QED BY <2>1, <2>3, OnlyKeeps
<1>6. CASE Options
  <2> DEFINE part == IF b.k = "select" THEN "DISTINCT" ELSE "IGNORE"
             new == [b EXCEPT !.options = Append(@, part)]
  <2>1. b.k \in {"select", "insert"} /\ calls < MaxCalls /\ Update(new) /\ Only
    BY <1>6 DEF Options, Is, Of
  <2>2. part \in STRING
    BY NamesAndWords
  <2> HIDE DEF part
  <2>3. Alike(Below, b, new)
    BY <1>1, <1>2, <2>1, <2>2, SharedAlike
  <2> HIDE DEF new
  <2> QED BY <2>1, <2>3, OnlyKeeps
<1>7. CASE Select
  <2> DEFINE part == Str(<<N("b")>>, <<>>)
             new == [b EXCEPT !.columns = <<part>>]
  <2>1. b.k \in {"select"} /\ calls < MaxCalls /\ Update(new) /\ Only
    BY <1>7 DEF Select, Is, Of
  <2>2. part \in Below
    BY <1>2, NameIs
  <2> HIDE DEF part
  <2>3. Alike(Below, b, new)
    BY <1>1, <1>2, <2>1, <2>2, SelectAlike
  <2> HIDE DEF new
  <2> QED BY <2>1, <2>3, OnlyKeeps
<1>8. CASE RemoveColumns
  <2>1. b.k \in {"select"} /\ calls < MaxCalls /\ Update([b EXCEPT !.columns = <<>>]) /\ Only
    BY <1>8 DEF RemoveColumns, Is, Of
  <2>2. Alike(Below, b, [b EXCEPT !.columns = <<>>])
    BY <1>1, <1>2, <2>1, SelectAlike
  <2> QED BY <2>1, <2>2, OnlyKeeps
<1>9. CASE AddColumn
  <2>1. PICK column \in {Str(<<N("a"), K("+"), P(V)>>, <<V>>), Alias(Case(V), "c"), Alias(Coalesce(V), "d")} :
          Update([b EXCEPT !.columns = Append(@, column)])
    BY <1>9 DEF AddColumn
  <2>2. b.k = "select" /\ calls < MaxCalls /\ Only
    BY <1>9 DEF AddColumn, Is, Of
  <2>3. Str(<<N("a"), K("+"), P(V)>>, <<V>>) \in Below
    BY <1>1, <1>2, ComparisonIs, NamesAndWords
  <2>4. Alias(Case(V), "c") \in Below /\ Alias(Coalesce(V), "d") \in Below
    <3>1. 2 \in Nat /\ 3 \in Nat /\ 2 + 1 = 3 /\ 3 + 1 = 4
      OBVIOUS
    <3>2. Case(V) \in Sqlizers(2) /\ Coalesce(V) \in Sqlizers(3) /\ "c" \in STRING /\ "d" \in STRING
      BY <1>1, CaseIs, CoalesceIs, NamesAndWords
    <3>3. Alias(Case(V), "c") \in Sqlizers(3) /\ Alias(Coalesce(V), "d") \in Sqlizers(4)
      BY <3>1, <3>2, AliasIs, Zenon
    <3> QED BY <3>3, BelowIs
  <2>5. column \in Below
    BY <2>1, <2>3, <2>4, Zenon
  <2>6. Alike(Below, b, [b EXCEPT !.columns = Append(@, column)])
    BY <1>1, <1>2, <2>2, <2>5, SelectAlike
  <2> QED BY <2>1, <2>2, <2>6, OnlyKeeps
<1>10. CASE From
  <2> DEFINE part == Str(<<N("u")>>, <<>>)
             new == [b EXCEPT !.from = <<part>>]
  <2>1. b.k \in {"select", "update"} /\ calls < MaxCalls /\ Update(new) /\ Only
    BY <1>10 DEF From, Is, Of
  <2>2. part \in Below
    BY <1>2, NameIs, NamesAndWords
  <2> HIDE DEF part
  <2>3. Alike(Below, b, new)
    BY <1>1, <1>2, <2>1, <2>2, SharedAlike
  <2> HIDE DEF new
  <2> QED BY <2>1, <2>3, OnlyKeeps
<1>11. CASE FromSelect
  <2> DEFINE part == Alias(Sub(V), "s")
             new == [b EXCEPT !.from = <<part>>]
  <2>1. b.k \in {"select", "update"} /\ calls < MaxCalls /\ Update(new) /\ Only
    BY <1>11 DEF FromSelect, Is, Of
  <2>2. part \in Below
    BY <1>1, AliasSubIs
  <2> HIDE DEF part
  <2>3. Alike(Below, b, new)
    BY <1>1, <1>2, <2>1, <2>2, SharedAlike
  <2> HIDE DEF new
  <2> QED BY <2>1, <2>3, OnlyKeeps
<1>12. CASE JoinClause
  <2> DEFINE part == Str(<<K("JOIN"), N("u"), K("ON"), N("x"), K("="), P(V)>>, <<V>>)
             new == [b EXCEPT !.joins = Append(@, part)]
  <2>1. b.k \in {"select"} /\ calls < MaxCalls /\ Update(new) /\ Only
    BY <1>12 DEF JoinClause, Is, Of
  <2>2. part \in Below
    BY <1>1, <1>2, JoinText, TextIs
  <2> HIDE DEF part
  <2>3. Alike(Below, b, new)
    BY <1>1, <1>2, <2>1, <2>2, SelectAlike
  <2> HIDE DEF new
  <2> QED BY <2>1, <2>3, OnlyKeeps
<1>13. CASE Where
  <2>1. PICK shape \in WhereShapes : /\ Update(Kept(Reached("Where"), Pred(shape, V)))
                                   /\ asked' = [asked EXCEPT !.where = Append(@, Pred(shape, V))]
    BY <1>13 DEF Where
  <2>2. b.k \in {"select", "update", "delete"} /\ calls < MaxCalls
    BY <1>13 DEF Where, Called, Of
  <2>3. Reached("Where") = "Where"
    BY <1>13, <1>1, ReachedIs DEF Where
  <2>4. Pred(shape, V) \in Predicates /\ Part(Given(Pred(shape, V))) \in Below
    BY <1>1, <2>1, PredicateIs, BuilderAssumption
  <2>5. Alike(Below, b, Kept("Where", Pred(shape, V)))
    BY <2>2, <2>4, KeptAlike
  <2> QED BY <2>1, <2>2, <2>3, <2>4, <2>5, AskedIs, CallKeeps
<1>14. CASE ID
  <2> DEFINE pred == Str(<<N("a"), K("="), P(V)>>, <<V>>)
  <2>1. b.k \in {"update", "delete"} /\ calls < MaxCalls /\ Update(Kept(Reached("ID"), pred))
        /\ asked' = [asked EXCEPT !.where = Append(@, pred)]
    BY <1>14 DEF ID, Called, Of
  <2>2. Reached("ID") = "Where"
    BY <1>14, <1>1, ReachedIs DEF ID
  <2>3. pred \in Flat
    BY <1>1, <1>2, ComparisonIs, MoreWords
  <2>4. pred \in Below /\ pred \in Predicates /\ Part(Given(pred)) = pred
    BY <2>3, TextPredicate
  <2> HIDE DEF pred
  <2>5. Alike(Below, b, Kept("Where", pred))
    BY <2>1, <2>4, KeptAlike
  <2> QED BY <2>1, <2>2, <2>4, <2>5, AskedIs, CallKeeps
<1>15. CASE Having
  <2>1. PICK shape \in HavingShapes : /\ Update(Kept(Reached("Having"), Pred(shape, V)))
                                   /\ asked' = [asked EXCEPT !.having = Append(@, Pred(shape, V))]
    BY <1>15 DEF Having
  <2>2. b.k \in {"select"} /\ calls < MaxCalls
    BY <1>15 DEF Having, Called, Of
  <2>3. Reached("Having") = "Having"
    BY <1>15, <1>1, ReachedIs DEF Having
  <2>4. Pred(shape, V) \in Predicates /\ Part(Given(Pred(shape, V))) \in Below
    BY <1>1, <2>1, PredicateIs, BuilderAssumption
  <2>5. Alike(Below, b, Kept("Having", Pred(shape, V)))
    BY <2>2, <2>4, KeptAlike
  <2> QED BY <2>1, <2>2, <2>3, <2>4, <2>5, AskedIs, CallKeeps
<1>16. CASE GroupBy
  <2>1. b.k \in {"select"} /\ calls < MaxCalls /\ Update([b EXCEPT !.groupBys = Append(@, "a")]) /\ Only
    BY <1>16 DEF GroupBy, Is, Of
  <2>2. Alike(Below, b, [b EXCEPT !.groupBys = Append(@, "a")])
    BY <1>1, <1>2, <2>1, SelectAlike
  <2> QED BY <2>1, <2>2, OnlyKeeps
<1>17. CASE OrderByClause
  <2> DEFINE term == Str(<<K("FIELD"), K("("), P(V), K(")")>>, <<V>>)
  <2>1. b.k = "select" /\ calls < MaxCalls /\ Update(Kept(Reached("OrderByClause"), term))
        /\ asked' = [asked EXCEPT !.orderBy = Append(@, term)]
    BY <1>17 DEF OrderByClause, Called, Of
  <2>2. Reached("OrderByClause") \in {"Having", "OrderByClause"}
    BY <1>17, <1>1, ReachedIs DEF OrderByClause
  <2>3. term \in Flat
    BY <1>1, CallText, TextIs, NamesAndWords
  <2>4. term \in Below /\ term \in Predicates /\ Part(Given(term)) = term
    BY <2>3, TextPredicate
  <2> HIDE DEF term
  <2>5. Alike(Below, b, Kept(Reached("OrderByClause"), term))
    BY <2>1, <2>2, <2>4, KeptAlike
  <2> QED BY <2>1, <2>4, <2>5, AskedIs, CallKeeps
<1>18. CASE OrderBy
  <2> DEFINE term == Str(<<N("a")>>, <<>>)
             new == [b EXCEPT !.orderBys = Append(@, IF b.k = "select" THEN term ELSE "a")]
  <2>1. b.k \in {"select", "update", "delete"} /\ calls < MaxCalls /\ Update(new)
        /\ asked' = [asked EXCEPT !.orderBy = Append(@, term)]
    BY <1>18 DEF OrderBy, Is, Of
  <2>2. term \in Flat
    BY <1>2, NameIs
  <2>3. term \in Below /\ term \in Predicates
    BY <2>2, TextPredicate
  <2> HIDE DEF term
  <2>4. CASE b.k = "select"
    <3>1. new = [b EXCEPT !.orderBys = Append(@, term)]
      BY <2>4
    <3>2. Alike(Below, b, [b EXCEPT !.orderBys = Append(@, term)])
      BY <1>1, <1>2, <2>3, <2>4, SelectAlike
    <3> HIDE DEF new
    <3> QED BY <2>1, <2>3, <3>1, <3>2, AskedIs, CallKeeps
  <2>5. CASE b.k # "select"
    <3>1. new = [b EXCEPT !.orderBys = Append(@, "a")]
      BY <2>5
    <3>2. Alike(Below, b, [b EXCEPT !.orderBys = Append(@, "a")])
      BY <1>1, <1>2, <2>1, <2>5, SharedAlike
    <3> HIDE DEF new
    <3> QED BY <2>1, <2>3, <3>1, <3>2, AskedIs, CallKeeps
  <2> QED BY <2>4, <2>5
<1>19. CASE Limit
  <2>1. b.k \in {"select", "update", "delete"} /\ calls < MaxCalls /\ Update([b EXCEPT !.limit = "1"]) /\ Only
    BY <1>19 DEF Limit, Is, Of
  <2>2. "1" \in STRING
    BY NamesAndWords
  <2>3. Alike(Below, b, [b EXCEPT !.limit = "1"])
    BY <1>1, <1>2, <2>1, <2>2, SharedAlike
  <2> QED BY <2>1, <2>3, OnlyKeeps
<1>20. CASE Offset
  <2>1. b.k \in {"select", "update", "delete"} /\ calls < MaxCalls /\ Update([b EXCEPT !.offset = "1"])
        /\ Only
    BY <1>20 DEF Offset, Is, Of
  <2>2. "1" \in STRING
    BY NamesAndWords
  <2>3. Alike(Below, b, [b EXCEPT !.offset = "1"])
    BY <1>1, <1>2, <2>1, <2>2, SharedAlike
  <2> QED BY <2>1, <2>3, OnlyKeeps
<1>21. CASE RemoveLimit
  <2>1. b.k \in {"select"} /\ calls < MaxCalls /\ Update([b EXCEPT !.limit = ""]) /\ Only
    BY <1>21 DEF RemoveLimit, Is, Of
  <2>2. "" \in STRING
    BY NamesAndWords
  <2>3. Alike(Below, b, [b EXCEPT !.limit = ""])
    BY <1>1, <1>2, <2>1, <2>2, SharedAlike
  <2> QED BY <2>1, <2>3, OnlyKeeps
<1>22. CASE RemoveOffset
  <2>1. b.k \in {"select"} /\ calls < MaxCalls /\ Update([b EXCEPT !.offset = ""]) /\ Only
    BY <1>22 DEF RemoveOffset, Is, Of
  <2>2. "" \in STRING
    BY NamesAndWords
  <2>3. Alike(Below, b, [b EXCEPT !.offset = ""])
    BY <1>1, <1>2, <2>1, <2>2, SharedAlike
  <2> QED BY <2>1, <2>3, OnlyKeeps
<1>23. CASE Set
  <2>1. PICK pairs \in {<<<<"a", Val(V)>>>>, <<<<"b", Sub(V)>>>>, <<<<"b", Case(V)>>>>, <<<<"b", Coalesce(V)>>>>,
                        <<<<"a", Val(V)>>, <<"b", Val(V + 1)>>>>} :
          Update([b EXCEPT !.sets = @ \o pairs])
    BY <1>23 DEF Set
  <2>2. b.k = "update" /\ calls < MaxCalls /\ Only
    BY <1>23 DEF Set, Is, Of
  <2>3. pairs \in Seq(STRING \X Below)
    BY <1>1, <2>1, GivenIs, SetPairs, Zenon
  <2>4. Alike(Below, b, [b EXCEPT !.sets = @ \o pairs])
    BY <1>1, <2>2, <2>3, UpdateAlike
  <2> QED BY <2>1, <2>2, <2>4, OnlyKeeps
<1>24. CASE Columns
  <2>1. b.k = "insert" /\ calls < MaxCalls /\ Update([b EXCEPT !.cols = <<"a", "b">>]) /\ Only
    BY <1>24 DEF Columns, Of
  <2>2. <<"a", "b">> \in Seq(STRING) /\ <<>> \in Seq(Below)
    BY <1>2, PairIs
  <2>3. Alike(Below, b, [b EXCEPT !.cols = <<"a", "b">>])
    BY <1>1, <1>2, <2>1, <2>2, InsertAlike
  <2> QED BY <2>1, <2>3, OnlyKeeps
<1>25. CASE Values
  <2>1. PICK row \in {<<Val(V), Val(V + 1)>>, <<Expr(<<K("UPPER"), K("("), P(V), K(")")>>, <<Val(V)>>), Val(V + 1)>>} :
          Update([b EXCEPT !.rows = Append(@, row)])
    BY <1>25 DEF Values
  <2>2. b.k = "insert" /\ calls < MaxCalls /\ Only
    BY <1>25 DEF Values, Of
  <2>3. row \in Seq(Below) /\ <<>> \in Seq(STRING)
    <3>1. Val(V) \in Below /\ Val(V + 1) \in Below
          /\ Expr(<<K("UPPER"), K("("), P(V), K(")")>>, <<Val(V)>>) \in Below
      BY <1>1, <1>2, FlatAre, FunctionIs
    <3>2. /\ <<Val(V), Val(V + 1)>> \in Seq(Below)
          /\ <<Expr(<<K("UPPER"), K("("), P(V), K(")")>>, <<Val(V)>>), Val(V + 1)>> \in Seq(Below)
      BY <3>1, PairIs
    <3>3. row \in Seq(Below)
      BY <2>1, <3>2, Zenon
    <3> QED BY <3>3
  <2>4. Alike(Below, b, [b EXCEPT !.rows = Append(@, row)])
    BY <1>1, <1>2, <2>2, <2>3, InsertAlike
  <2> QED BY <2>1, <2>2, <2>4, OnlyKeeps
<1>26. CASE SetMap
  <2> DEFINE row == <<Val(V), Val(V + 1)>>
  <2>1. b.k = "insert" /\ calls < MaxCalls /\ Update([b EXCEPT !.cols = <<"a", "b">>, !.rows = <<row>>])
        /\ Only
    BY <1>26 DEF SetMap, Of
  <2>2. <<"a", "b">> \in Seq(STRING) /\ row \in Seq(Below)
    <3>1. Val(V) \in Below /\ Val(V + 1) \in Below
      BY <1>1, <1>2, FlatAre
    <3> QED BY <1>2, <3>1, PairIs
  <2> HIDE DEF row
  <2>3. Alike(Below, b, [b EXCEPT !.cols = <<"a", "b">>, !.rows = <<row>>])
    BY <1>1, <1>2, <2>1, <2>2, InsertAlike
  <2> QED BY <2>1, <2>3, OnlyKeeps
<1>27. CASE InsertSelect
  <2>1. b.k = "insert" /\ calls < MaxCalls /\ Update([b EXCEPT !.select = <<Sub(V)>>]) /\ Only
    BY <1>27 DEF InsertSelect, Of
  <2>2. Sub(V) \in Below /\ <<>> \in Seq(Below) /\ <<>> \in Seq(STRING)
    BY <1>1, GivenIs
  <2>3. Alike(Below, b, [b EXCEPT !.select = <<Sub(V)>>])
    BY <1>1, <1>2, <2>1, <2>2, InsertAlike
  <2> QED BY <2>1, <2>3, OnlyKeeps
<1>28. CASE StatementKeyword
  <2>1. b.k = "insert" /\ calls < MaxCalls /\ Update([b EXCEPT !.keyword = "REPLACE"]) /\ Only
    BY <1>28 DEF StatementKeyword, Of
  <2>2. "REPLACE" \in STRING
    BY NamesAndWords
  <2>3. <<>> \in Seq(Below) /\ <<>> \in Seq(STRING)
    BY Zenon, EmptySequence
  <2>4. Alike(Below, b, [b EXCEPT !.keyword = "REPLACE"])
    BY <1>1, <1>2, <2>1, <2>2, <2>3, InsertAlike
  <2> QED BY <2>1, <2>4, OnlyKeeps
<1> QED BY <1>3, <1>4, <1>5, <1>6, <1>7, <1>8, <1>9, <1>10, <1>11, <1>12, <1>13, <1>14, <1>15,
       <1>16, <1>17, <1>18, <1>19, <1>20, <1>21, <1>22, <1>23, <1>24, <1>25, <1>26, <1>27, <1>28 DEF Next

\* Every step of the builder keeps its types.
THEOREM TypesStay == Spec => []TypeOK
<1>1. TypeOK /\ UNCHANGED vars => TypeOK'
  BY Zenon DEF TypeOK, vars, Predicates
<1>2. TypeOK /\ [Next]_vars => TypeOK'
  BY <1>1, NextTyped
<1> QED BY <1>2, InitTyped, PTL DEF Spec

\* Every placeholder gets the argument that was given with it.
THEOREM ArgumentsStayInOrder == Spec => []ArgsInOrder
<1>1. TypeOK => ArgsInOrder
  <2> SUFFICES ASSUME TypeOK PROVE ArgsInOrder
    OBVIOUS
  <2>1. b \in StatementsOf(Below)
    BY CallNumbers
  <2>2. b \in Sqlizers(Nesting) /\ Nesting \in Nat
    BY <2>1, BelowIs, BuilderAssumption
  <2>3. ToSql(b).args = MeantFor(ToSql(b).sql)
    BY <2>2, ToSqlMatches
  <2> QED BY <2>3 DEF ArgsInOrder
<1> QED BY <1>1, TypesStay, PTL

-----------------------------------------------------------------------------
(* What is refused at one level is refused at all *)

\* The parts of a Sqlizer are among those it is made of.
LEMMA PartsLie ==
    ASSUME NEW S, NEW s \in SqlizersOf(S)
    PROVE  PartsOf(s) \subseteq S
<1>0. \/ s \in [k : {"nil", "empty", "other"}] \/ s \in Vals
      \/ s \in [k : {"str"}, sql : Seq(Tokens), args : Seq(Nat)]
      \/ s \in [k : {"expr"}, sql : Seq(Tokens), given : Seq(S)]
      \/ s \in [k : {"concat"}, parts : Seq(S)]
      \/ s \in [k : {"alias"}, expr : S, as : STRING]
      \/ s \in [k : {"eq"}, map : Entries, not : BOOLEAN]
      \/ s \in [k : {"cmp"}, map : Entries, op : STRING]
      \/ s \in [k : {"in"}, col : STRING, val : Comparands, not : BOOLEAN]
      \/ s \in [k : {"conj"}, op : {"AND", "OR"}, parts : Seq(S)]
      \/ s \in [k : {"case"}, what : Seq(S), whens : Seq(S \X S), els : Seq(S)]
      \/ s \in Selects(S) \/ s \in Updates(S) \/ s \in Deletes(S) \/ s \in Inserts(S)
  BY Zenon DEF SqlizersOf, ExprsOf, StatementsOf
<1>1. ASSUME NEW parts \in Seq(S) PROVE ToSet(parts) \subseteq S
  BY DEF ToSet
<1>2. CASE \/ s \in [k : {"nil", "empty", "other"}] \/ s \in Vals
           \/ s \in [k : {"str"}, sql : Seq(Tokens), args : Seq(Nat)]
           \/ s \in [k : {"eq"}, map : Entries, not : BOOLEAN]
           \/ s \in [k : {"cmp"}, map : Entries, op : STRING]
           \/ s \in [k : {"in"}, col : STRING, val : Comparands, not : BOOLEAN]
  <2>1. s.k \in {"nil", "empty", "other", "val", "str", "eq", "cmp", "in"}
    BY <1>2 DEF Vals
  <2> QED BY <2>1 DEF PartsOf
<1>3. CASE s \in [k : {"expr"}, sql : Seq(Tokens), given : Seq(S)]
  <2>1. s.k = "expr" /\ s.given \in Seq(S)
    BY <1>3
  <2>2. PartsOf(s) = ToSet(s.given)
    BY <2>1 DEF PartsOf
  <2> QED BY <1>1, <2>1, <2>2, Zenon
<1>4. CASE \/ s \in [k : {"concat"}, parts : Seq(S)]
           \/ s \in [k : {"conj"}, op : {"AND", "OR"}, parts : Seq(S)]
  <2>1. s.k \in {"concat", "conj"} /\ s.parts \in Seq(S)
    BY <1>4
  <2>2. PartsOf(s) = ToSet(s.parts)
    BY <2>1 DEF PartsOf
  <2> QED BY <1>1, <2>1, <2>2, Zenon
<1>5. CASE s \in [k : {"alias"}, expr : S, as : STRING]
  <2>1. s.k = "alias" /\ s.expr \in S
    BY <1>5
  <2>2. PartsOf(s) = {s.expr}
    BY <2>1 DEF PartsOf
  <2> QED BY <2>1, <2>2
<1>6. CASE s \in [k : {"case"}, what : Seq(S), whens : Seq(S \X S), els : Seq(S)]
  <2>1. s.k = "case" /\ s.what \in Seq(S) /\ s.whens \in Seq(S \X S) /\ s.els \in Seq(S)
    BY <1>6
  <2> DEFINE branches == UNION {{s.whens[i][1], s.whens[i][2]} : i \in DOMAIN s.whens}
  <2>2. PartsOf(s) = ToSet(s.what) \cup ToSet(s.els) \cup branches
    BY <2>1 DEF PartsOf
  <2>3. \A i \in DOMAIN s.whens : s.whens[i][1] \in S /\ s.whens[i][2] \in S
    <3> DEFINE whens == s.whens
    <3>1. whens \in Seq(S \X S)
      BY <2>1
    <3> HIDE DEF whens
    <3>2. \A i \in DOMAIN whens : whens[i] \in S \X S
      BY <3>1
    <3>3. \A i \in DOMAIN whens : whens[i][1] \in S /\ whens[i][2] \in S
      BY <3>2
    <3> QED BY <3>3 DEF whens
  <2>4. branches \subseteq S
    <3>1. \A part : part \in branches <=> \E i \in DOMAIN s.whens : part = s.whens[i][1] \/ part = s.whens[i][2]
      OBVIOUS
    <3> HIDE DEF branches
    <3> QED BY <2>3, <3>1, Zenon
  <2> HIDE DEF branches
  <2>5. ToSet(s.what) \subseteq S /\ ToSet(s.els) \subseteq S
    BY <1>1, <2>1, Zenon
  <2> QED BY <2>2, <2>4, <2>5
<1>7. CASE s \in Selects(S)
  <2>1. s.k = "select"
    BY <1>7 DEF Selects
  <2>2. PartsOf(s) = ToSet(s.prefixes) \cup ToSet(s.columns) \cup ToSet(s.from) \cup ToSet(s.joins)
                       \cup ToSet(s.where) \cup ToSet(s.having) \cup ToSet(s.orderBys) \cup ToSet(s.suffixes)
    BY <2>1 DEF PartsOf
  <2>3. /\ s.prefixes \in Seq(S) /\ s.columns \in Seq(S) /\ s.from \in Seq(S) /\ s.joins \in Seq(S)
        /\ s.where \in Seq(S) /\ s.having \in Seq(S) /\ s.orderBys \in Seq(S) /\ s.suffixes \in Seq(S)
    BY <1>7, SelectFields
  <2>4. /\ ToSet(s.prefixes) \subseteq S /\ ToSet(s.columns) \subseteq S /\ ToSet(s.from) \subseteq S
        /\ ToSet(s.joins) \subseteq S /\ ToSet(s.where) \subseteq S /\ ToSet(s.having) \subseteq S
        /\ ToSet(s.orderBys) \subseteq S /\ ToSet(s.suffixes) \subseteq S
    BY <1>1, <2>3, Zenon
  <2> QED BY <2>2, <2>4, Zenon
<1>8. CASE s \in Updates(S)
  <2>1. s.k = "update"
    BY <1>8 DEF Updates
  <2> DEFINE values == {s.sets[i][2] : i \in DOMAIN s.sets}
  <2>2. PartsOf(s) = ToSet(s.prefixes) \cup values \cup ToSet(s.from) \cup ToSet(s.where) \cup ToSet(s.suffixes)
    BY <2>1 DEF PartsOf
  <2>3. /\ s.prefixes \in Seq(S) /\ s.from \in Seq(S) /\ s.where \in Seq(S) /\ s.suffixes \in Seq(S)
        /\ s.sets \in Seq(STRING \X S)
    BY <1>8, UpdateFields
  <2>4. ToSet(s.prefixes) \subseteq S /\ ToSet(s.from) \subseteq S /\ ToSet(s.where) \subseteq S
        /\ ToSet(s.suffixes) \subseteq S
    BY <1>1, <2>3, Zenon
  <2>5. values \subseteq S
    <3> DEFINE sets == s.sets
    <3>1. sets \in Seq(STRING \X S)
      BY <2>3
    <3> HIDE DEF sets
    <3>2. \A i \in DOMAIN sets : sets[i] \in STRING \X S
      BY <3>1
    <3>3. \A i \in DOMAIN sets : sets[i][2] \in S
      BY <3>2
    <3> QED BY <3>3 DEF sets
  <2> HIDE DEF values
  <2> QED BY <2>2, <2>4, <2>5, Zenon
<1>9. CASE s \in Deletes(S)
  <2>1. s.k = "delete"
    BY <1>9 DEF Deletes
  <2>2. PartsOf(s) = ToSet(s.prefixes) \cup ToSet(s.where) \cup ToSet(s.suffixes)
    BY <2>1 DEF PartsOf
  <2>3. ToSet(s.prefixes) \subseteq S /\ ToSet(s.where) \subseteq S /\ ToSet(s.suffixes) \subseteq S
    BY <1>1, <1>9, DeleteFields
  <2> QED BY <2>2, <2>3, Zenon
<1>10. CASE s \in Inserts(S)
  <2>1. s.k = "insert"
    BY <1>10 DEF Inserts
  <2> DEFINE held == IF s.select # <<>> THEN {s.select[1]} ELSE UNION {ToSet(s.rows[i]) : i \in DOMAIN s.rows}
  <2>2. PartsOf(s) = ToSet(s.prefixes) \cup ToSet(s.suffixes) \cup held
    BY <2>1 DEF PartsOf
  <2>3. s.prefixes \in Seq(S) /\ s.rows \in Seq(Seq(S)) /\ s.select \in Seq(S) /\ s.suffixes \in Seq(S)
    BY <1>10, InsertFields
  <2>4. ToSet(s.prefixes) \subseteq S /\ ToSet(s.suffixes) \subseteq S
    BY <1>1, <2>3, Zenon
  <2>5. held \subseteq S
    <3>1. CASE s.select # <<>>
      <4>1. s.select[1] \in S
        BY <2>3, <3>1
      <4> QED BY <3>1, <4>1
    <3>2. CASE s.select = <<>>
      <4>1. \A i \in DOMAIN s.rows : s.rows[i] \in Seq(S)
        BY <2>3
      <4>2. \A i \in DOMAIN s.rows : ToSet(s.rows[i]) \subseteq S
        BY <1>1, <4>1, Zenon
      <4> QED BY <3>2, <4>2
    <3> QED BY <3>1, <3>2
  <2> HIDE DEF held
  <2> QED BY <2>2, <2>4, <2>5, Zenon
<1> QED BY <1>0, <1>2, <1>3, <1>4, <1>5, <1>6, <1>7, <1>8, <1>9, <1>10, Zenon

\* What its parts are matters to a Sqlizer, and nothing else.
LEMMA RefusedByParts ==
    ASSUME NEW R, NEW Q, NEW s, \A part \in PartsOf(s) : R[part] <=> Q[part]
    PROVE  RefusedBy(R, s) <=> RefusedBy(Q, s)
BY Zenon DEF RefusedBy

\* Levels of Sqlizers.
LEMMA RefusedLevel ==
    ASSUME NEW n \in Nat
    PROVE  /\ \A s \in Sqlizers(n + 1) : RefusedAt[n + 1][s] <=> RefusedBy(RefusedAt[n], s)
           /\ \A s \in Sqlizers(n) : PartsOf(s) \subseteq Sqlizers(n)
           /\ \A s \in Sqlizers(n + 1) : PartsOf(s) \subseteq Sqlizers(n)
           /\ \A s \in Sqlizers(0) : PartsOf(s) = {} /\ (RefusedAt[0][s] <=> Wrong(s))
<1>1. DOMAIN RefusedAt[n] = Sqlizers(n) /\ DOMAIN <<>> = {}
  <2>1. DOMAIN RefusedAt[n] = Sqlizers(n)
    BY AgreeAt, Zenon DEF Agree, Sqlizers
  <2> QED BY <2>1
<1>2. RefusedAt[n + 1] = RefusedAbove(RefusedAt[n]) /\ RefusedAt[0] = RefusedAbove(<<>>)
  BY RefusedAtIs
<1>3. Sqlizers(n + 1) = SqlizersOf(Sqlizers(n)) /\ Sqlizers(0) = SqlizersOf({})
  BY SqlizersAt, Zenon
<1>4. \A s \in Sqlizers(n + 1) : RefusedAt[n + 1][s] <=> RefusedBy(RefusedAt[n], s)
  BY <1>1, <1>2, <1>3, Zenon DEF RefusedAbove
<1>5. \A s \in Sqlizers(n + 1) : PartsOf(s) \subseteq Sqlizers(n)
  BY <1>3, PartsLie, Zenon
<1>6. \A s \in Sqlizers(n) : PartsOf(s) \subseteq Sqlizers(n)
  BY <1>5, Deeper, Zenon
<1>7. \A s \in Sqlizers(0) : PartsOf(s) = {}
  <2>1. \A s \in Sqlizers(0) : PartsOf(s) \subseteq {}
    BY <1>3, PartsLie, Zenon
  <2> QED BY <2>1
<1>8. \A s \in Sqlizers(0) : RefusedAt[0][s] <=> RefusedBy(<<>>, s)
  BY <1>1, <1>2, <1>3, Zenon DEF RefusedAbove
<1>9. \A s \in Sqlizers(0) : RefusedAt[0][s] <=> Wrong(s)
  BY <1>7, <1>8, Zenon DEF RefusedBy
<1> QED BY <1>4, <1>5, <1>6, <1>7, <1>9

\* At every level the same are refused.
LEMMA RefusedHigher == \A n \in Nat : \A s \in Sqlizers(n) : RefusedAt[n + 1][s] <=> RefusedAt[n][s]
<1> DEFINE G == {n \in Nat : \A s \in Sqlizers(n) : RefusedAt[n + 1][s] <=> RefusedAt[n][s]}
<1>1. 0 \in G
  <2>1. 0 + 1 = 1 /\ 0 \in Nat
    OBVIOUS
  <2>2. ASSUME NEW s \in Sqlizers(0) PROVE RefusedAt[1][s] <=> RefusedAt[0][s]
    <3>1. s \in Sqlizers(1)
      BY <2>1, Deeper, Zenon
    <3>2. RefusedAt[1][s] <=> RefusedBy(RefusedAt[0], s)
      BY <2>1, <3>1, RefusedLevel, Zenon
    <3>3. PartsOf(s) = {} /\ (RefusedAt[0][s] <=> Wrong(s))
      BY <2>1, RefusedLevel, Zenon
    <3> QED BY <3>2, <3>3, Zenon DEF RefusedBy
  <2> QED BY <2>1, <2>2
<1>2. ASSUME NEW n \in Nat, n \in G PROVE n + 1 \in G
  <2>1. n + 1 \in Nat
    OBVIOUS
  <2>2. ASSUME NEW s \in Sqlizers(n + 1) PROVE RefusedAt[(n + 1) + 1][s] <=> RefusedAt[n + 1][s]
    <3>1. s \in Sqlizers((n + 1) + 1)
      BY <2>1, Deeper, Zenon
    <3>2. RefusedAt[(n + 1) + 1][s] <=> RefusedBy(RefusedAt[n + 1], s)
      BY <2>1, <3>1, RefusedLevel, Zenon
    <3>3. RefusedAt[n + 1][s] <=> RefusedBy(RefusedAt[n], s)
      BY RefusedLevel, Zenon
    <3>4. \A part \in PartsOf(s) : RefusedAt[n + 1][part] <=> RefusedAt[n][part]
      <4>1. PartsOf(s) \subseteq Sqlizers(n)
        BY RefusedLevel, Zenon
      <4> QED BY <1>2, <4>1, Zenon
    <3>5. RefusedBy(RefusedAt[n + 1], s) <=> RefusedBy(RefusedAt[n], s)
      BY <3>4, RefusedByParts, Zenon
    <3> QED BY <3>2, <3>3, <3>5, Zenon
  <2> QED BY <2>1, <2>2
<1>3. Nat \subseteq G
  <2> HIDE DEF G
  <2> QED BY <1>1, <1>2, SetInduction
<1> QED BY <1>3

\* So a Sqlizer is refused that is wrong or has a part that is refused.
LEMMA RefusedIs ==
    ASSUME NEW s \in Sqlizers(Nesting)
    PROVE  Refused(s) <=> RefusedBy(RefusedAt[Nesting], s)
<1>1. Nesting - 1 \in Nat /\ (Nesting - 1) + 1 = Nesting
  BY BuilderAssumption
<1>2. Refused(s) <=> RefusedBy(RefusedAt[Nesting - 1], s)
  BY <1>1, RefusedLevel, Zenon DEF Refused
<1>3. PartsOf(s) \subseteq Sqlizers(Nesting - 1)
  BY <1>1, RefusedLevel, Zenon
<1>4. \A part \in Sqlizers(Nesting - 1) : RefusedAt[Nesting][part] <=> RefusedAt[Nesting - 1][part]
  BY <1>1, RefusedHigher, Zenon
<1>5. RefusedBy(RefusedAt[Nesting - 1], s) <=> RefusedBy(RefusedAt[Nesting], s)
  BY <1>3, <1>4, RefusedByParts, Zenon
<1> QED BY <1>2, <1>5, Zenon

-----------------------------------------------------------------------------
(* What the actions pass can be written *)

\* The parts that are not refused.
Fine == {s \in Below : ~Refused(s)}

\* A sequence of parts that are fine has none that is refused.
LEMMA NoneRefused ==
    ASSUME NEW parts \in Seq(Fine)
    PROVE  ~Some(RefusedAt[Nesting], parts)
<1>1. ToSet(parts) \subseteq Fine
  BY DEF ToSet
<1> QED BY <1>1, Zenon DEF Some, Fine, Refused

\* One of the parts, as its own parts are refused or not.
LEMMA FineIs ==
    ASSUME NEW s \in Below
    PROVE  s \in Fine <=> ~RefusedBy(RefusedAt[Nesting], s)
<1>1. Nesting - 1 \in Nat /\ (Nesting - 1) + 1 = Nesting
  BY BuilderAssumption
<1>2. s \in Sqlizers(Nesting)
  BY <1>1, Deeper, Zenon DEF Below
<1> QED BY <1>2, RefusedIs, Zenon DEF Fine

\* What is fine, kind by kind.
LEMMA FineKinds ==
    ASSUME NEW s \in Below
    PROVE  /\ s.k \in {"empty", "val", "str"} => s \in Fine
           /\ s.k = "expr" /\ s.given \in Seq(Fine) => s \in Fine
           /\ s.k \in {"concat", "conj"} /\ s.parts \in Seq(Fine) => s \in Fine
           /\ s.k = "alias" /\ s.expr \in Fine => s \in Fine
           /\ s.k = "eq" /\ (\A i \in DOMAIN s.map : s.map[i][2].k \notin {"list", "badValuer"}) => s \in Fine
           /\ s.k = "cmp" /\ (\A i \in DOMAIN s.map : s.map[i][2].k = "val") => s \in Fine
           /\ s.k = "in" /\ s.val.k = "list" => s \in Fine
           /\ /\ s.k = "case" /\ s.whens # <<>> /\ s.what \in Seq(Fine) /\ s.els \in Seq(Fine)
              /\ \A i \in DOMAIN s.whens : s.whens[i][1] \in Fine /\ s.whens[i][2] \in Fine
              => s \in Fine
           /\ /\ s.k = "select" /\ s.columns # <<>>
              /\ s.prefixes \in Seq(Fine) /\ s.columns \in Seq(Fine) /\ s.from \in Seq(Fine)
              /\ s.joins \in Seq(Fine) /\ s.where \in Seq(Fine) /\ s.having \in Seq(Fine)
              /\ s.orderBys \in Seq(Fine) /\ s.suffixes \in Seq(Fine)
              => s \in Fine
<1> DEFINE R == RefusedAt[Nesting]
<1>1. s \in Fine <=> ~RefusedBy(R, s)
  BY FineIs
<1>2. \A parts \in Seq(Fine) : ~Some(R, parts)
  BY NoneRefused
<1>3. \A part \in Fine : ~R[part]
  BY Zenon DEF Fine, Refused
<1> HIDE DEF R
<1>4. s.k \in {"empty", "val", "str"} => s \in Fine
  BY <1>1, RefusedAs, Zenon
<1>5. s.k = "expr" /\ s.given \in Seq(Fine) => s \in Fine
  BY <1>1, <1>2, RefusedAs, Zenon
<1>6. s.k \in {"concat", "conj"} /\ s.parts \in Seq(Fine) => s \in Fine
  BY <1>1, <1>2, RefusedAs, Zenon
<1>7. s.k = "alias" /\ s.expr \in Fine => s \in Fine
  BY <1>1, <1>3, RefusedAs, Zenon
<1>8. s.k = "eq" /\ (\A i \in DOMAIN s.map : s.map[i][2].k \notin {"list", "badValuer"}) => s \in Fine
  BY <1>1, RefusedAs, Zenon
<1>9. s.k = "cmp" /\ (\A i \in DOMAIN s.map : s.map[i][2].k = "val") => s \in Fine
  BY <1>1, RefusedAs, Zenon
<1>10. s.k = "in" /\ s.val.k = "list" => s \in Fine
  <2>1. s.val.k = "list" => s.val.k \notin {"null", "badValuer"}
    OBVIOUS
  <2> QED BY <1>1, <2>1, RefusedAs, Zenon
<1>11. /\ s.k = "case" /\ s.whens # <<>> /\ s.what \in Seq(Fine) /\ s.els \in Seq(Fine)
       /\ \A i \in DOMAIN s.whens : s.whens[i][1] \in Fine /\ s.whens[i][2] \in Fine
       => s \in Fine
  BY <1>1, <1>2, <1>3, RefusedAs, Zenon
<1>12. /\ s.k = "select" /\ s.columns # <<>>
       /\ s.prefixes \in Seq(Fine) /\ s.columns \in Seq(Fine) /\ s.from \in Seq(Fine)
       /\ s.joins \in Seq(Fine) /\ s.where \in Seq(Fine) /\ s.having \in Seq(Fine)
       /\ s.orderBys \in Seq(Fine) /\ s.suffixes \in Seq(Fine)
       => s \in Fine
  <2> SUFFICES ASSUME s.k = "select", s.columns # <<>>,
                      s.prefixes \in Seq(Fine), s.columns \in Seq(Fine), s.from \in Seq(Fine),
                      s.joins \in Seq(Fine), s.where \in Seq(Fine), s.having \in Seq(Fine),
                      s.orderBys \in Seq(Fine), s.suffixes \in Seq(Fine)
               PROVE  s \in Fine
    OBVIOUS
  <2>1. ~(\/ s.columns = <<>> \/ Some(R, s.prefixes) \/ Some(R, s.columns)
          \/ Some(R, s.from) \/ Some(R, s.joins) \/ Some(R, s.where)
          \/ Some(R, s.having) \/ Some(R, s.orderBys) \/ Some(R, s.suffixes))
    BY <1>2, Zenon
  <2> QED BY <1>1, <2>1, RefusedAs, Zenon
<1> QED BY <1>4, <1>5, <1>6, <1>7, <1>8, <1>9, <1>10, <1>11, <1>12, Zenon

\* Values and texts are fine, and an Expr or Alias of what is.
LEMMA FineSimple ==
    /\ \A v \in Nat : Val(v) \in Fine
    /\ [k |-> "empty"] \in Fine
    /\ \A t, args : Str(t, args) \in Below => Str(t, args) \in Fine
    /\ \A t, given : Expr(t, given) \in Below /\ given \in Seq(Fine) => Expr(t, given) \in Fine
    /\ \A expr, name : Alias(expr, name) \in Below /\ expr \in Fine => Alias(expr, name) \in Fine
<1>1. \A v \in Nat : Val(v) \in Below /\ Val(v).k \in {"empty", "val", "str"}
  BY BelowIs, FlatAre DEF Val
<1>2. [k |-> "empty"] \in Below /\ [k |-> "empty"].k \in {"empty", "val", "str"}
  BY BelowIs, NoneIsFlat
<1>3. \A t, args : Str(t, args).k \in {"empty", "val", "str"}
  BY DEF Str
<1>4. \A t, given : Expr(t, given).k = "expr" /\ Expr(t, given).given = given
  BY DEF Expr
<1>5. \A expr, name : Alias(expr, name).k = "alias" /\ Alias(expr, name).expr = expr
  BY DEF Alias
<1>6. \A v \in Nat : Val(v) \in Fine
  BY <1>1, FineKinds, Zenon
<1>7. [k |-> "empty"] \in Fine
  BY <1>2, FineKinds, Zenon
<1>8. ASSUME NEW t, NEW args, Str(t, args) \in Below PROVE Str(t, args) \in Fine
  BY <1>3, <1>8, FineKinds, Zenon
<1>9. ASSUME NEW t, NEW given, Expr(t, given) \in Below, given \in Seq(Fine) PROVE Expr(t, given) \in Fine
  <2>1. Expr(t, given).k = "expr" /\ Expr(t, given).given \in Seq(Fine)
    BY <1>4, <1>9
  <2> QED BY <1>9, <2>1, FineKinds, Zenon
<1>10. ASSUME NEW expr, NEW name, Alias(expr, name) \in Below, expr \in Fine PROVE Alias(expr, name) \in Fine
  <2>1. Alias(expr, name).k = "alias" /\ Alias(expr, name).expr \in Fine
    BY <1>5, <1>10
  <2> QED BY <1>10, <2>1, FineKinds, Zenon
<1> QED BY <1>6, <1>7, <1>8, <1>9, <1>10, Zenon

\* What Set, Values, InsertSelect and FromSelect are given is fine.
LEMMA GivenFine ==
    ASSUME NEW v \in Nat
    PROVE  /\ Val(v) \in Fine /\ Val(v + 1) \in Fine /\ Sub(v) \in Fine /\ Case(v) \in Fine
           /\ Coalesce(v) \in Fine
           /\ Str(<<N("a")>>, <<>>) \in Fine /\ Str(<<N("t")>>, <<>>) \in Fine
<1>1. Val(v) \in Fine /\ Val(v + 1) \in Fine
  BY FineSimple
<1>2. \A t, args : Str(t, args) \in Flat => Str(t, args) \in Fine
  BY FineSimple, BelowIs, Zenon
<1>3. Str(<<N("a")>>, <<>>) \in Fine /\ Str(<<N("t")>>, <<>>) \in Fine
  BY <1>2, EmptyFlat, Zenon
<1>4. Sub(v) \in Fine
  <2> DEFINE where == <<Str(<<N("b"), K("="), P(v)>>, <<v>>)>>
  <2>1. Str(<<N("b"), K("="), P(v)>>, <<v>>) \in Fine
    <3>1. "b" \in STRING /\ "=" \in STRING
      BY NamesAndWords, MoreWords
    <3>2. Str(<<N("b"), K("="), P(v)>>, <<v>>) \in Flat
      BY <3>1, ComparisonIs, Zenon
    <3> QED BY <1>2, <3>2, Zenon
  <2>2. where \in Seq(Fine)
    BY <2>1, Single, Zenon
  <2>3. Empty("select") \in Selects(Fine) /\ Empty("select").columns # <<>>
    <3>1. Empty("select") \in Selects(Fine)
      BY <1>3, EmptyIs
    <3> QED BY <3>1 DEF Empty
  <2>4. Sub(v) = [Empty("select") EXCEPT !.where = where]
    BY Zenon DEF Sub
  <2> HIDE DEF where
  <2>5. Sub(v) \in Selects(Fine)
    BY <2>2, <2>3, <2>4 DEF Selects
  <2>6. Sub(v).k = "select" /\ Sub(v).columns # <<>>
    BY <2>3, <2>4 DEF Selects
  <2> QED BY <2>5, <2>6, GivenIs, FineKinds, SelectFields, Zenon
<1>5. Case(v) \in Fine
  <2> DEFINE when == Eq(<<<<"a", Val(v)>>>>)
             then == Str(<<K("1")>>, <<>>)
             else == Expr(<<P(v + 1)>>, <<Val(v + 1)>>)
  <2>1. Case(v) = [k |-> "case", what |-> <<>>, whens |-> <<<<when, then>>>>, els |-> <<else>>]
    BY DEF Case
  <2>2. when \in Fine
    <3>1. when \in Below
      <4>1. <<<<"a", Val(v)>>>> \in Entries
        BY ComparandIs, EntriesAre, NamesAndWords, Zenon
      <4>2. "=" \in STRING /\ FALSE \in BOOLEAN
        BY MoreWords
      <4> QED BY <4>1, <4>2, FlatAre, BelowIs, Zenon
    <3>2. when.k = "eq" /\ \A i \in DOMAIN when.map : when.map[i][2].k \notin {"list", "badValuer"}
      BY DEF Eq, Val
    <3> QED BY <3>1, <3>2, FineKinds, Zenon
  <2>3. then \in Fine
    BY <1>2, NameIs, NamesAndWords, Zenon
  <2>4. else \in Fine
    <3>1. v + 1 \in Nat
      OBVIOUS
    <3>2. P(v + 1) \in Tokens /\ Mark(P(v + 1)) = <<v + 1>>
      BY <3>1, TokenTypes, Zenon
    <3>3. <<P(v + 1)>> \in Texts /\ MeantFor(<<P(v + 1)>>) = <<v + 1>>
      BY <3>2, MeantOne, Single, Zenon DEF Texts
    <3>4. else \in Below
      BY <3>1, <3>3, ValueExpr, BelowIs
    <3>5. <<Val(v + 1)>> \in Seq(Fine)
      BY <1>1, Single, Zenon
    <3> QED BY <3>4, <3>5, FineSimple, Zenon
  <2> HIDE DEF when, then, else
  <2>5. /\ Case(v).k = "case" /\ Case(v).whens # <<>>
        /\ \A i \in DOMAIN Case(v).whens : Case(v).whens[i][1] \in Fine /\ Case(v).whens[i][2] \in Fine
    BY <2>1, <2>2, <2>3
  <2>6. Case(v).what \in Seq(Fine) /\ Case(v).els \in Seq(Fine)
    <3>1. <<else>> \in Seq(Fine) /\ <<>> \in Seq(Fine)
      BY <2>4, Single, EmptySequence, Zenon
    <3> QED BY <2>1, <3>1
  <2> QED BY <2>5, <2>6, GivenIs, FineKinds, Zenon
<1>6. Coalesce(v) \in Fine
  <2> DEFINE open == Str(<<K("COALESCE"), K("(")>>, <<>>)
             list == Expr(<<P(v), K(","), P(v + 1)>>, <<Sub(v), Val(v + 1)>>)
             close == Str(<<K(")")>>, <<>>)
  <2>1. Coalesce(v) = [k |-> "concat", parts |-> <<open, list, close>>]
    BY DEF Coalesce
  <2>2. open \in Below /\ list \in Below /\ close \in Below
    BY CoalesceParts
  <2>3. open \in Fine /\ close \in Fine
    BY <2>2, FineSimple, Zenon
  <2>4. list \in Fine
    <3>1. <<Sub(v), Val(v + 1)>> \in Seq(Fine)
      BY <1>1, <1>4, PairIs
    <3> QED BY <2>2, <3>1, FineSimple, Zenon
  <2> HIDE DEF open, list, close
  <2>5. <<open, list, close>> \in Seq(Fine)
    BY <2>3, <2>4
  <2>6. Coalesce(v).k \in {"concat", "conj"} /\ Coalesce(v).parts \in Seq(Fine)
    BY <2>1, <2>5
  <2> QED BY <2>6, GivenIs, FineKinds, Zenon
<1> QED BY <1>1, <1>3, <1>4, <1>5, <1>6

\* A comparison with a value is fine.
LEMMA ComparedFine ==
    ASSUME NEW op \in STRING, NEW col \in STRING, NEW val \in Vals
    PROVE  Compared(op, col, val) \in Fine
<1>1. val \in Comparands /\ val.k = "val"
  BY DEF Comparands, Vals
<1>2. Compared(op, col, val) \in Below
  BY <1>1, ComparedIs, BelowIs, Zenon
<1>3. CASE op \in {"=", "<>"}
  <2>1. Compared(op, col, val) = [k |-> "eq", not |-> op = "<>", map |-> <<<<col, val>>>>]
    BY <1>3, Zenon DEF Compared
  <2>2. /\ Compared(op, col, val).k = "eq"
        /\ \A i \in DOMAIN Compared(op, col, val).map :
             Compared(op, col, val).map[i][2].k \notin {"list", "badValuer"}
    BY <1>1, <2>1
  <2> QED BY <1>2, <2>2, FineKinds, Zenon
<1>4. CASE op \notin {"=", "<>"}
  <2>1. Compared(op, col, val) = [k |-> "cmp", op |-> op, map |-> <<<<col, val>>>>]
    BY <1>4, Zenon DEF Compared
  <2>2. /\ Compared(op, col, val).k = "cmp"
        /\ \A i \in DOMAIN Compared(op, col, val).map : Compared(op, col, val).map[i][2].k = "val"
    BY <1>1, <2>1
  <2> QED BY <1>2, <2>2, FineKinds, Zenon
<1> QED BY <1>3, <1>4

LEMMA TryCompareFine ==
    ASSUME NEW op \in STRING, NEW col \in STRING, NEW val \in Vals \cup {Missing}
    PROVE  TryCompare(op, col, val) \in Fine \cup {[k |-> "nil"]}
<1>1. CASE val = Missing
  BY <1>1 DEF TryCompare
<1>2. CASE val # Missing
  BY <1>2, ComparedFine DEF TryCompare
<1> QED BY <1>1, <1>2

\* So is an And or Or of what is fine.
LEMMA ConjFine ==
    ASSUME NEW op \in {"AND", "OR"}, NEW parts \in Seq(Fine),
           [k |-> "conj", op |-> op, parts |-> parts] \in Below
    PROVE  [k |-> "conj", op |-> op, parts |-> parts] \in Fine
<1>1. [k |-> "conj", op |-> op, parts |-> parts].k \in {"concat", "conj"}
      /\ [k |-> "conj", op |-> op, parts |-> parts].parts \in Seq(Fine)
  OBVIOUS
<1> QED BY <1>1, FineKinds, Zenon

\* What the functions of package try return can be written, or is nil.
LEMMA TryFine ==
    ASSUME NEW call \in TryCalls
    PROVE  Given(call) \in Fine \cup {[k |-> "nil"]}
<1> DEFINE B == Vals \cup {Missing}
<1>0. \/ call \in [k : {"try"}, f : {"compare"}, op : STRING, col : STRING, val : B]
      \/ call \in [k : {"try"}, f : {"range"}, col : STRING, min : B, max : B, below : STRING]
      \/ call \in [k : {"try"}, f : {"likes"}, col : STRING, vals : Seq(Vals)]
      \/ call \in [k : {"try"}, f : {"multi"}, cols : Seq(STRING), val : B]
      \/ call \in [k : {"try"}, f : {"in"}, col : STRING, vs : Seq(Nat), not : BOOLEAN]
  BY Zenon DEF TryCalls
<1>a. "LIKE" \in STRING /\ ">=" \in STRING
  BY MoreWords
<1>b. Given(call) \in Below
  BY TryIs, BelowIs, Zenon
<1>1. CASE call \in [k : {"try"}, f : {"compare"}, op : STRING, col : STRING, val : B]
  <2>1. call.k = "try" /\ call.f = "compare" /\ call.op \in STRING /\ call.col \in STRING /\ call.val \in B
    BY <1>1
  <2>2. Given(call) = TryCompare(call.op, call.col, call.val)
    BY <2>1 DEF Given
  <2> QED BY <2>1, <2>2, TryCompareFine
<1>2. CASE call \in [k : {"try"}, f : {"range"}, col : STRING, min : B, max : B, below : STRING]
  <2>1. call.k = "try" /\ call.f = "range" /\ call.col \in STRING /\ call.min \in B /\ call.max \in B
        /\ call.below \in STRING
    BY <1>2
  <2>2. Given(call) = TryRange(call.col, call.min, call.max, call.below)
    BY <2>1 DEF Given
  <2>3. CASE call.min = Missing
    <3>1. Given(call) = TryCompare(call.below, call.col, call.max)
      BY <2>2, <2>3 DEF TryRange
    <3> QED BY <2>1, <3>1, TryCompareFine
  <2>4. CASE call.min # Missing
    <3>1. Compared(">=", call.col, call.min) \in Fine
      BY <1>a, <2>1, <2>4, ComparedFine
    <3>2. CASE call.max = Missing
      <4>1. Given(call) = Compared(">=", call.col, call.min)
        BY <2>2, <2>4, <3>2 DEF TryRange
      <4> QED BY <3>1, <4>1
    <3>3. CASE call.max # Missing
      <4> DEFINE parts == <<Compared(">=", call.col, call.min), Compared(call.below, call.col, call.max)>>
      <4>1. Compared(call.below, call.col, call.max) \in Fine
        BY <2>1, <3>3, ComparedFine
      <4>2. parts \in Seq(Fine)
        BY <3>1, <4>1, PairIs
      <4>3. Given(call) = [k |-> "conj", op |-> "AND", parts |-> parts]
        BY <2>2, <2>4, <3>3 DEF TryRange, AllOf
      <4> HIDE DEF parts
      <4> QED BY <1>b, <4>2, <4>3, ConjFine
    <3> QED BY <3>2, <3>3
  <2> QED BY <2>3, <2>4
<1>3. CASE call \in [k : {"try"}, f : {"likes"}, col : STRING, vals : Seq(Vals)]
  <2>1. call.k = "try" /\ call.f = "likes" /\ call.col \in STRING /\ call.vals \in Seq(Vals)
    BY <1>3
  <2>2. Given(call) = TryLikes(call.col, call.vals)
    BY <2>1 DEF Given
  <2> DEFINE parts == [i \in DOMAIN call.vals |-> Compared("LIKE", call.col, call.vals[i])]
  <2>3. DOMAIN call.vals = 1 .. Len(call.vals) /\ Len(call.vals) \in Nat
        /\ \A i \in DOMAIN call.vals : call.vals[i] \in Vals
    BY <2>1
  <2>4. \A i \in DOMAIN call.vals : Compared("LIKE", call.col, call.vals[i]) \in Fine
    BY <1>a, <2>1, <2>3, ComparedFine
  <2>5. parts \in Seq(Fine)
    BY <2>3, <2>4
  <2>6. Given(call) \in {[k |-> "nil"], [k |-> "conj", op |-> "OR", parts |-> parts]}
    BY <2>2, Zenon DEF TryLikes, AnyOf
  <2> HIDE DEF parts
  <2> QED BY <1>b, <2>5, <2>6, ConjFine
<1>4. CASE call \in [k : {"try"}, f : {"multi"}, cols : Seq(STRING), val : B]
  <2>1. call.k = "try" /\ call.f = "multi" /\ call.cols \in Seq(STRING) /\ call.val \in B
    BY <1>4
  <2>2. Given(call) = TryMultiLike(call.cols, call.val)
    BY <2>1 DEF Given
  <2> DEFINE parts == [i \in DOMAIN call.cols |-> Compared("LIKE", call.cols[i], call.val)]
  <2>3. CASE call.val = Missing
    BY <2>2, <2>3 DEF TryMultiLike
  <2>4. CASE call.val # Missing
    <3>1. DOMAIN call.cols = 1 .. Len(call.cols) /\ Len(call.cols) \in Nat
          /\ \A i \in DOMAIN call.cols : call.cols[i] \in STRING
      BY <2>1
    <3>2. call.val \in Vals
      BY <2>1, <2>4
    <3>3. \A i \in DOMAIN call.cols : Compared("LIKE", call.cols[i], call.val) \in Fine
      BY <1>a, <3>1, <3>2, ComparedFine, Zenon
    <3>4. parts \in Seq(Fine)
      BY <3>1, <3>3
    <3>5. Given(call) = [k |-> "conj", op |-> "OR", parts |-> parts]
      BY <2>2, <2>4, Zenon DEF TryMultiLike, AnyOf
    <3> HIDE DEF parts
    <3> QED BY <1>b, <3>4, <3>5, ConjFine
  <2> QED BY <2>3, <2>4
<1>5. CASE call \in [k : {"try"}, f : {"in"}, col : STRING, vs : Seq(Nat), not : BOOLEAN]
  <2>1. call.k = "try" /\ call.f = "in" /\ call.col \in STRING /\ call.vs \in Seq(Nat) /\ call.not \in BOOLEAN
    BY <1>5
  <2>2. Given(call) = TryIn(call.col, call.vs, call.not)
    BY <2>1 DEF Given
  <2>3. CASE call.vs = <<>>
    BY <2>2, <2>3 DEF TryIn
  <2>4. CASE call.vs # <<>>
    <3>1. Given(call) = [k |-> "in", col |-> call.col, not |-> call.not, val |-> List(call.vs)]
      BY <2>2, <2>4, Zenon DEF TryIn
    <3>2. Given(call).k = "in" /\ Given(call).val.k = "list"
      BY <3>1 DEF List
    <3> QED BY <1>b, <3>2, FineKinds, Zenon
  <2> QED BY <2>3, <2>4
<1> HIDE DEF B
<1> QED BY <1>0, <1>1, <1>2, <1>3, <1>4, <1>5

\* What package try gives is never refused,
Denied(pred) == pred.k # "try" /\ Refused(Part(pred))

\* so that what Where keeps of a predicate is refused exactly if it is.
LEMMA GivenDenied ==
    ASSUME NEW pred \in Predicates
    PROVE  Part(Given(pred)) \in Below /\ (Refused(Part(Given(pred))) <=> Denied(pred))
<1>1. CASE pred \in TryCalls
  <2>1. pred.k = "try"
    BY <1>1 DEF TryCalls
  <2>2. Part(Given(pred)) \in Fine
    <3>1. Given(pred) \in Fine \cup {[k |-> "nil"]}
      BY <1>1, TryFine
    <3> QED BY <3>1, FineSimple, PartIs
  <2> QED BY <2>1, <2>2, Zenon DEF Denied, Fine
<1>2. CASE pred \in Below
  <2>1. pred.k # "try"
    BY <1>2, NoSqlizerTries, BelowIs, Zenon DEF Below
  <2>2. Given(pred) = pred
    BY <2>1, Zenon DEF Given
  <2>3. Part(pred) \in Below
    <3>1. [k |-> "empty"] \in Below
      BY NoneIsFlat, BelowIs, Zenon
    <3> QED BY <1>2, <3>1, PartIs
  <2> QED BY <2>1, <2>2, <2>3, Zenon DEF Denied
<1> QED BY <1>1, <1>2, Zenon DEF Predicates, Below

-----------------------------------------------------------------------------
(* Statements whose predicates are left out *)

Bare(s) == [f \in DOMAIN s |-> IF f \in {"where", "having"} THEN <<>> ELSE s[f]]

\* The other statement has the same predicates, and nothing else that is refused.
Cleanly(s, t) ==
    /\ t.k = s.k /\ Bare(t) \in StatementsOf(Fine)
    /\ s.k # "insert" => t.where = s.where
    /\ s.k = "select" => t.having = s.having

\* The fields of a statement that is bare are its own.
LEMMA BareFields ==
    ASSUME NEW S, NEW s \in StatementsOf(S)
    PROVE  /\ "k" \in DOMAIN s /\ Bare(s).k = s.k
           /\ "prefixes" \in DOMAIN s /\ Bare(s).prefixes = s.prefixes
           /\ "suffixes" \in DOMAIN s /\ Bare(s).suffixes = s.suffixes
           /\ s.k # "insert" => "where" \in DOMAIN s
           /\ s.k = "select" => /\ "having" \in DOMAIN s
                                /\ Bare(s).columns = s.columns /\ Bare(s).joins = s.joins
                                /\ Bare(s).orderBys = s.orderBys /\ Bare(s).groupBys = s.groupBys
           /\ s.k \in {"select", "insert"} => Bare(s).options = s.options
           /\ s.k \in {"update", "delete"} => Bare(s).orderBys = s.orderBys
           /\ s.k = "update" => Bare(s).sets = s.sets
           /\ s.k = "insert" => Bare(s).rows = s.rows
<1>1. CASE s \in Selects(S)
  BY <1>1 DEF Selects, Bare
<1>2. CASE s \in Updates(S)
  BY <1>2 DEF Updates, Bare
<1>3. CASE s \in Deletes(S)
  BY <1>3 DEF Deletes, Bare
<1>4. CASE s \in Inserts(S)
  BY <1>4 DEF Inserts, Bare
<1> QED BY <1>1, <1>2, <1>3, <1>4, Zenon DEF StatementsOf

\* Another value in another field changes no predicate.
LEMMA CleanBy ==
    ASSUME NEW s \in StatementsOf(Below), NEW f, f \notin {"k", "where", "having"}, NEW x,
           [Bare(s) EXCEPT ![f] = x] \in StatementsOf(Fine)
    PROVE  Cleanly(s, [s EXCEPT ![f] = x])
<1>1. Bare([s EXCEPT ![f] = x]) = [Bare(s) EXCEPT ![f] = x]
  BY DEF Bare
<1>2. \A g \in DOMAIN s : g # f => [s EXCEPT ![f] = x][g] = s[g]
  OBVIOUS
<1>3. "k" # f /\ "where" # f /\ "having" # f
  OBVIOUS
<1> DEFINE t == [s EXCEPT ![f] = x]
<1>4. t.k = s.k /\ (s.k # "insert" => t.where = s.where) /\ (s.k = "select" => t.having = s.having)
  BY <1>2, <1>3, BareFields, Zenon
<1> QED BY <1>1, <1>4, Zenon DEF Cleanly

\* What the methods make of a statement whose other parts can be written.
LEMMA SharedClean ==
    ASSUME NEW s \in StatementsOf(Below), Bare(s) \in StatementsOf(Fine), NEW part \in Fine, NEW name \in STRING
    PROVE  /\ Cleanly(s, [s EXCEPT !.prefixes = Append(@, part)])
           /\ Cleanly(s, [s EXCEPT !.suffixes = Append(@, part)])
           /\ s.k # "insert" => /\ Cleanly(s, [s EXCEPT !.limit = name])
                                /\ Cleanly(s, [s EXCEPT !.offset = name])
           /\ s.k \in {"select", "update"} => Cleanly(s, [s EXCEPT !.from = <<part>>])
           /\ s.k \in {"select", "insert"} => Cleanly(s, [s EXCEPT !.options = Append(@, name)])
           /\ s.k # "select" => Cleanly(s, [s EXCEPT !.table = name])
           /\ s.k \in {"update", "delete"} => Cleanly(s, [s EXCEPT !.orderBys = Append(@, name)])
<1>1. /\ Bare(s).k = s.k /\ Bare(s).prefixes = s.prefixes /\ Bare(s).suffixes = s.suffixes
      /\ s.k \in {"select", "insert"} => Bare(s).options = s.options
      /\ s.k \in {"update", "delete"} => Bare(s).orderBys = s.orderBys
  BY BareFields
<1> DEFINE r == Bare(s)
<1>2. /\ [r EXCEPT !.prefixes = Append(r.prefixes, part)] \in StatementsOf(Fine)
      /\ [r EXCEPT !.suffixes = Append(r.suffixes, part)] \in StatementsOf(Fine)
      /\ r.k # "insert" => /\ [r EXCEPT !.limit = name] \in StatementsOf(Fine)
                           /\ [r EXCEPT !.offset = name] \in StatementsOf(Fine)
      /\ r.k \in {"select", "update"} => [r EXCEPT !.from = <<part>>] \in StatementsOf(Fine)
      /\ r.k \in {"select", "insert"} => [r EXCEPT !.options = Append(r.options, name)] \in StatementsOf(Fine)
      /\ r.k # "select" => [r EXCEPT !.table = name] \in StatementsOf(Fine)
      /\ r.k \in {"update", "delete"} => [r EXCEPT !.orderBys = Append(r.orderBys, name)] \in StatementsOf(Fine)
  <2> HIDE DEF r
  <2> QED BY SharedAlike, Zenon DEF Alike, r
<1>3. Cleanly(s, [s EXCEPT !.prefixes = Append(s.prefixes, part)])
  BY <1>1, <1>2, CleanBy, Zenon
<1>4. Cleanly(s, [s EXCEPT !.suffixes = Append(s.suffixes, part)])
  BY <1>1, <1>2, CleanBy, Zenon
<1> QED BY <1>1, <1>2, <1>3, <1>4, CleanBy

\* The methods of one kind of statement only.
LEMMA SelectClean ==
    ASSUME NEW s \in StatementsOf(Below), Bare(s) \in StatementsOf(Fine), s.k = "select", NEW part \in Fine,
           NEW name \in STRING
    PROVE  /\ Cleanly(s, [s EXCEPT !.columns = <<part>>]) /\ Cleanly(s, [s EXCEPT !.columns = <<>>])
           /\ Cleanly(s, [s EXCEPT !.columns = Append(@, part)])
           /\ Cleanly(s, [s EXCEPT !.joins = Append(@, part)])
           /\ Cleanly(s, [s EXCEPT !.orderBys = Append(@, part)])
           /\ Cleanly(s, [s EXCEPT !.groupBys = Append(@, name)])
<1>1. /\ Bare(s).k = "select" /\ Bare(s).columns = s.columns /\ Bare(s).joins = s.joins
      /\ Bare(s).orderBys = s.orderBys /\ Bare(s).groupBys = s.groupBys
  BY BareFields
<1> DEFINE r == Bare(s)
<1>2. /\ [r EXCEPT !.columns = <<part>>] \in StatementsOf(Fine)
      /\ [r EXCEPT !.columns = <<>>] \in StatementsOf(Fine)
      /\ [r EXCEPT !.columns = Append(r.columns, part)] \in StatementsOf(Fine)
      /\ [r EXCEPT !.joins = Append(r.joins, part)] \in StatementsOf(Fine)
      /\ [r EXCEPT !.orderBys = Append(r.orderBys, part)] \in StatementsOf(Fine)
      /\ [r EXCEPT !.groupBys = Append(r.groupBys, name)] \in StatementsOf(Fine)
  <2>1. r \in StatementsOf(Fine) /\ r.k = "select"
    BY <1>1
  <2> HIDE DEF r
  <2> QED BY <2>1, SelectAlike, Zenon DEF Alike
<1> QED BY <1>1, <1>2, CleanBy

LEMMA UpdateClean ==
    ASSUME NEW s \in StatementsOf(Below), Bare(s) \in StatementsOf(Fine), s.k = "update",
           NEW pairs \in Seq(STRING \X Fine)
    PROVE  Cleanly(s, [s EXCEPT !.sets = @ \o pairs])
<1>1. Bare(s).k = "update" /\ Bare(s).sets = s.sets
  BY BareFields
<1> DEFINE r == Bare(s)
<1>2. [r EXCEPT !.sets = r.sets \o pairs] \in StatementsOf(Fine)
  <2>1. r \in StatementsOf(Fine) /\ r.k = "update"
    BY <1>1
  <2> HIDE DEF r
  <2> QED BY <2>1, UpdateAlike, Zenon DEF Alike
<1> QED BY <1>1, <1>2, CleanBy

LEMMA InsertClean ==
    ASSUME NEW s \in StatementsOf(Below), Bare(s) \in StatementsOf(Fine), s.k = "insert", NEW cols \in Seq(STRING),
           NEW row \in Seq(Fine), NEW part \in Fine, NEW name \in STRING
    PROVE  /\ Cleanly(s, [s EXCEPT !.cols = cols]) /\ Cleanly(s, [s EXCEPT !.rows = Append(@, row)])
           /\ Cleanly(s, [s EXCEPT !.cols = cols, !.rows = <<row>>])
           /\ Cleanly(s, [s EXCEPT !.select = <<part>>]) /\ Cleanly(s, [s EXCEPT !.keyword = name])
<1>1. Bare(s).k = "insert" /\ Bare(s).rows = s.rows
  BY BareFields
<1> DEFINE r == Bare(s)
<1>2. /\ [r EXCEPT !.cols = cols] \in StatementsOf(Fine)
      /\ [r EXCEPT !.rows = Append(r.rows, row)] \in StatementsOf(Fine)
      /\ [r EXCEPT !.cols = cols, !.rows = <<row>>] \in StatementsOf(Fine)
      /\ [r EXCEPT !.select = <<part>>] \in StatementsOf(Fine)
      /\ [r EXCEPT !.keyword = name] \in StatementsOf(Fine)
  <2>1. r \in StatementsOf(Fine) /\ r.k = "insert"
    BY <1>1
  <2> HIDE DEF r
  <2> QED BY <2>1, InsertAlike, Zenon DEF Alike
<1>3. Cleanly(s, [s EXCEPT !.cols = cols, !.rows = <<row>>])
  <2> DEFINE t == [s EXCEPT !.cols = cols]
             u == [t EXCEPT !.rows = <<row>>]
  <2>1. Bare(u) = [Bare(s) EXCEPT !.cols = cols, !.rows = <<row>>]
    BY DEF Bare
  <2>2. "k" \in DOMAIN s
    BY BareFields
  <2>3. DOMAIN t = DOMAIN s /\ t.k = s.k
    BY <2>2
  <2> HIDE DEF t
  <2>4. u.k = s.k
    BY <2>2, <2>3
  <2>5. u = [s EXCEPT !.cols = cols, !.rows = <<row>>]
    BY DEF t
  <2> HIDE DEF u
  <2>6. Cleanly(s, u)
    BY <1>2, <2>1, <2>4 DEF Cleanly
  <2> QED BY <2>5, <2>6
<1> QED BY <1>1, <1>2, <1>3, CleanBy

-----------------------------------------------------------------------------
(* What was asked for *)

AnyRefused(parts) == Some(RefusedAt[Nesting], parts)
AnyDenied(preds) == \E pred \in ToSet(preds) : Denied(pred)

\* A builder's predicates are refused exactly if one it was asked for is, and
\* nothing else in it is.
FineInv ==
    /\ Bare(b) \in StatementsOf(Fine)
    /\ b.k # "insert" => (AnyRefused(b.where) <=> AnyDenied(asked.where))
    /\ b.k = "select" => (AnyRefused(b.having) <=> AnyDenied(asked.having))
    /\ b.k = "insert" => asked.where = <<>>
    /\ b.k # "select" => asked.having = <<>>

\* A call that changes no predicate keeps this.
LEMMA CleanKeeps ==
    ASSUME FineInv, NEW new, Cleanly(b, new), b' = new,
           asked'.where = asked.where, asked'.having = asked.having
    PROVE  FineInv'
<1>1. b'.k = b.k /\ Bare(b') \in StatementsOf(Fine)
  BY Zenon DEF Cleanly
<1>2. b.k # "insert" => b'.where = b.where
  BY Zenon DEF Cleanly
<1>3. b.k = "select" => b'.having = b.having
  BY Zenon DEF Cleanly
<1>4. b'.k # "insert" => (AnyRefused(b'.where) <=> AnyDenied(asked'.where))
  BY <1>1, <1>2, Zenon DEF FineInv
<1>5. b'.k = "select" => (AnyRefused(b'.having) <=> AnyDenied(asked'.having))
  BY <1>1, <1>3, Zenon DEF FineInv
<1> QED BY <1>1, <1>4, <1>5, Zenon DEF FineInv, AnyRefused, AnyDenied

LEMMA OnlyClean ==
    ASSUME FineInv, NEW new, Cleanly(b, new), Update(new), Only
    PROVE  FineInv'
BY CleanKeeps, Zenon DEF Update, Only

\* One more part, one more predicate.
LEMMA OneMore ==
    ASSUME NEW S, NEW parts \in Seq(S), NEW x
    PROVE  /\ AnyRefused(Append(parts, x)) <=> AnyRefused(parts) \/ Refused(x)
           /\ AnyDenied(Append(parts, x)) <=> AnyDenied(parts) \/ Denied(x)
<1>1. ToSet(Append(parts, x)) = ToSet(parts) \cup {x}
  <2>1. Append(parts, x) \in Seq(S \cup {x}) /\ Len(Append(parts, x)) = Len(parts) + 1
        /\ \A i \in 1 .. Len(parts) : Append(parts, x)[i] = parts[i]
    OBVIOUS
  <2>2. Append(parts, x)[Len(parts) + 1] = x
    OBVIOUS
  <2>3. ASSUME NEW y \in ToSet(Append(parts, x)) PROVE y \in ToSet(parts) \cup {x}
    <3>1. PICK i \in 1 .. Len(parts) + 1 : Append(parts, x)[i] = y
      BY <2>1, <2>3 DEF ToSet
    <3>2. CASE i = Len(parts) + 1
      BY <2>2, <3>1, <3>2
    <3>3. CASE i # Len(parts) + 1
      <4>1. i \in 1 .. Len(parts)
        BY <3>1, <3>3
      <4> QED BY <2>1, <3>1, <4>1 DEF ToSet
    <3> QED BY <3>2, <3>3
  <2>4. ASSUME NEW y \in ToSet(parts) \cup {x} PROVE y \in ToSet(Append(parts, x))
    <3>1. CASE y = x
      BY <2>1, <2>2, <3>1 DEF ToSet
    <3>2. CASE y \in ToSet(parts)
      <4>1. PICK i \in 1 .. Len(parts) : parts[i] = y
        BY <3>2 DEF ToSet
      <4>2. Append(parts, x)[i] = y /\ i \in 1 .. Len(Append(parts, x))
        BY <2>1, <4>1
      <4> QED BY <2>1, <4>2 DEF ToSet
    <3> QED BY <2>4, <3>1, <3>2
  <2> QED BY <2>3, <2>4
<1>2. AnyRefused(Append(parts, x)) <=> AnyRefused(parts) \/ Refused(x)
  BY <1>1, Zenon DEF AnyRefused, Some, Refused
<1>3. AnyDenied(Append(parts, x)) <=> AnyDenied(parts) \/ Denied(x)
  BY <1>1, Zenon DEF AnyDenied
<1> QED BY <1>2, <1>3

\* A predicate that goes to Where goes to no other field.
LEMMA BareWhere == ASSUME NEW s, NEW x PROVE Bare([s EXCEPT !.where = x]) = Bare(s)
BY DEF Bare

LEMMA BareHaving == ASSUME NEW s, NEW x PROVE Bare([s EXCEPT !.having = x]) = Bare(s)
BY DEF Bare

\* The sequences that predicates are in.
LEMMA PredicateFields ==
    ASSUME TypeOK
    PROVE  /\ b \in StatementsOf(Below) /\ b.k \in {"select", "insert", "update", "delete"}
           /\ b.k # "insert" => b.where \in Seq(Below) /\ "where" \in DOMAIN b /\ "k" \in DOMAIN b
           /\ b.k = "select" => b.having \in Seq(Below) /\ "having" \in DOMAIN b
           /\ asked.where \in Seq(Predicates) /\ asked.having \in Seq(Predicates)
           /\ DOMAIN asked = {"where", "having", "orderBy"}
<1>1. b \in StatementsOf(Below)
  BY CallNumbers
<1>2. asked.where \in Seq(Predicates) /\ asked.having \in Seq(Predicates)
      /\ DOMAIN asked = {"where", "having", "orderBy"}
  <2>1. asked \in [where : Seq(Predicates), having : Seq(Predicates), orderBy : Seq(Predicates)]
    BY Zenon DEF TypeOK
  <2> QED BY <2>1
<1>3. CASE b \in Selects(Below)
  BY <1>1, <1>2, <1>3 DEF Selects
<1>4. CASE b \in Updates(Below)
  BY <1>1, <1>2, <1>4 DEF Updates
<1>5. CASE b \in Deletes(Below)
  BY <1>1, <1>2, <1>5 DEF Deletes
<1>6. CASE b \in Inserts(Below)
  BY <1>1, <1>2, <1>6 DEF Inserts
<1> QED BY <1>1, <1>3, <1>4, <1>5, <1>6, Zenon DEF StatementsOf

\* What says nothing is not refused.
LEMMA NothingDenied ==
    ASSUME NEW pred \in Predicates, SaysNothing(pred)
    PROVE  ~Denied(pred)
<1>1. Part(Given(pred)).k \in {"empty", "val", "str"}
  <2>1. CASE Given(pred).k = "nil"
    BY <2>1 DEF Part
  <2>2. CASE pred = Str(<<>>, <<>>)
    <3>1. pred.k = "str"
      BY <2>2 DEF Str
    <3> QED BY <3>1 DEF Given, Part
  <2> QED BY <2>1, <2>2 DEF SaysNothing
<1>2. Part(Given(pred)) \in Fine
  BY <1>1, GivenDenied, FineKinds, Zenon
<1> QED BY <1>2, GivenDenied, Zenon DEF Fine

\* Where keeps what it is given, unless that says nothing.
LEMMA WhereKeeps ==
    ASSUME TypeOK, FineInv, b.k # "insert", NEW pred \in Predicates, Update(Kept("Where", pred)),
           asked' = [asked EXCEPT !.where = Append(@, pred)]
    PROVE  FineInv'
<1>1. /\ b.where \in Seq(Below) /\ "where" \in DOMAIN b /\ "k" \in DOMAIN b
      /\ asked.where \in Seq(Predicates) /\ DOMAIN asked = {"where", "having", "orderBy"}
  BY PredicateFields
<1>2. asked'.where = Append(asked.where, pred) /\ asked'.having = asked.having
  BY <1>1
<1>3. AnyDenied(asked'.where) <=> AnyDenied(asked.where) \/ Denied(pred)
  BY <1>1, <1>2, OneMore, Zenon
<1>4. CASE b.k = "select" /\ SaysNothing(pred)
  <2>1. b' = b
    BY <1>4 DEF Update, Kept
  <2>2. ~Denied(pred)
    BY <1>4, NothingDenied
  <2> QED BY <1>2, <1>3, <2>1, <2>2, Zenon DEF FineInv, AnyRefused, AnyDenied
<1>5. CASE ~(b.k = "select" /\ SaysNothing(pred))
  <2>1. b' = [b EXCEPT !.where = Append(@, Part(Given(pred)))]
    BY <1>5 DEF Update, Kept
  <2>2. b'.k = b.k /\ b'.where = Append(b.where, Part(Given(pred))) /\ b'.having = b.having
    BY <1>1, <2>1
  <2>3. Bare(b') = Bare(b)
    BY <2>1, BareWhere
  <2>4. AnyRefused(b'.where) <=> AnyRefused(b.where) \/ Refused(Part(Given(pred)))
    BY <1>1, <2>2, OneMore, Zenon
  <2>5. Refused(Part(Given(pred))) <=> Denied(pred)
    BY GivenDenied
  <2>6. AnyRefused(b'.where) <=> AnyDenied(asked'.where)
    BY <1>3, <2>4, <2>5, Zenon DEF FineInv
  <2>7. b'.k = "select" => (AnyRefused(b'.having) <=> AnyDenied(asked'.having))
    BY <1>2, <2>2, Zenon DEF FineInv
  <2>8. Bare(b') \in StatementsOf(Fine) /\ b'.k # "insert" /\ (b'.k # "select" => asked'.having = <<>>)
    BY <1>2, <2>2, <2>3, Zenon DEF FineInv
  <2> QED BY <2>6, <2>7, <2>8, Zenon DEF FineInv, AnyRefused, AnyDenied
<1> QED BY <1>4, <1>5

\* So does Having.
LEMMA HavingKeeps ==
    ASSUME TypeOK, FineInv, b.k = "select", NEW pred \in Predicates, NEW x,
           Refused(x) <=> Denied(pred),
           b' = [b EXCEPT !.having = Append(@, x)], asked'.where = asked.where,
           \/ asked'.having = Append(asked.having, pred)
           \/ asked'.having = asked.having /\ ~Denied(pred)
    PROVE  FineInv'
<1>1. /\ b.having \in Seq(Below) /\ "having" \in DOMAIN b /\ "k" \in DOMAIN b
      /\ asked.having \in Seq(Predicates)
  <2>1. b.k # "insert"
    OBVIOUS
  <2> QED BY <2>1, PredicateFields
<1>2. AnyDenied(asked'.having) <=> AnyDenied(asked.having) \/ Denied(pred)
  BY <1>1, OneMore, Zenon
<1>3. b'.k = b.k /\ b'.having = Append(b.having, x) /\ b'.where = b.where
  BY <1>1
<1>4. Bare(b') = Bare(b)
  BY BareHaving
<1>5. AnyRefused(b'.having) <=> AnyRefused(b.having) \/ Refused(x)
  BY <1>1, <1>3, OneMore, Zenon
<1>6. AnyRefused(b'.having) <=> AnyDenied(asked'.having)
  BY <1>2, <1>5, Zenon DEF FineInv
<1>7. b.k # "insert" /\ b'.k = "select"
  BY <1>3
<1>8. AnyRefused(b'.where) <=> AnyDenied(asked'.where)
  BY <1>3, <1>7, Zenon DEF FineInv
<1>9. Bare(b') \in StatementsOf(Fine)
  BY <1>4, Zenon DEF FineInv
<1>10. b'.k # "insert"
  BY <1>3, <1>7
<1> QED BY <1>6, <1>7, <1>8, <1>9, <1>10, Zenon DEF FineInv, AnyRefused, AnyDenied

\* Every call keeps what is refused to what was asked for.
LEMMA NextFine == TypeOK /\ FineInv /\ Next => FineInv'
<1> SUFFICES ASSUME TypeOK, FineInv, Next PROVE FineInv'
  OBVIOUS
<1>1. /\ V \in Nat /\ V + 1 \in Nat /\ b \in StatementsOf(Below) /\ Bare(b) \in StatementsOf(Fine)
      /\ through \in Through
      /\ through \in {"builder", "QueryModelStmt", "QueryColStmt", "UpdateStmt", "DeleteStmt"}
  BY CallNumbers DEF FineInv
<1>2. Flat \subseteq Below /\ ExprsOf(Flat) \subseteq Below /\ "a" \in STRING /\ "b" \in STRING
      /\ [k |-> "empty"] \in Fine
  BY BelowIs, FineSimple, NamesAndWords, Zenon
<1>a. \A t, args : Str(t, args) \in Flat => Str(t, args) \in Fine
  BY <1>2, FineSimple, Zenon
<1>b. \A t : Expr(t, <<Val(V)>>) \in ExprsOf(Flat) => Expr(t, <<Val(V)>>) \in Fine
  <2>1. <<Val(V)>> \in Seq(Fine)
    BY <1>1, GivenFine, Single, Zenon
  <2> QED BY <1>2, <2>1, FineSimple, Zenon
<1>3. CASE Table
  <2> DEFINE part == "u"
             new == [b EXCEPT !.table = part]
  <2>1. b.k \in {"update", "delete", "insert"} /\ Update(new) /\ Only
    BY <1>3 DEF Table, Is, Of
  <2>2. part \in STRING
    BY NamesAndWords
  <2> HIDE DEF part
  <2>3. Cleanly(b, new)
    BY <1>1, <2>1, <2>2, <1>2, SharedClean
  <2> HIDE DEF new
  <2> QED BY <2>1, <2>3, OnlyClean
<1>4. CASE Prefix
  <2> DEFINE part == Expr(<<K("WITH"), N("c"), K("AS")>> \o Parens(<<K("SELECT"), P(V)>>), <<Val(V)>>)
             new == [b EXCEPT !.prefixes = Append(@, part)]
  <2>1. b.k \in {"select", "insert", "update", "delete"} /\ Update(new) /\ Only
    BY <1>4 DEF Prefix, Is, Of
  <2>2. part \in Fine
    BY <1>1, <1>b, PrefixIs, Zenon
  <2> HIDE DEF part
  <2>3. Cleanly(b, new)
    BY <1>1, <2>1, <2>2, <1>2, SharedClean
  <2> HIDE DEF new
  <2> QED BY <2>1, <2>3, OnlyClean
<1>5. CASE Suffix
  <2> DEFINE part == Expr(<<K("RETURNING"), P(V)>>, <<Val(V)>>)
             new == [b EXCEPT !.suffixes = Append(@, part)]
  <2>1. b.k \in {"select", "insert", "update", "delete"} /\ Update(new) /\ Only
    BY <1>5 DEF Suffix, Is, Of
  <2>2. part \in Fine
    BY <1>1, <1>b, SuffixIs, Zenon
  <2> HIDE DEF part
  <2>3. Cleanly(b, new)
    BY <1>1, <2>1, <2>2, <1>2, SharedClean
  <2> HIDE DEF new
  <2> QED BY <2>1, <2>3, OnlyClean
<1>6. CASE Options
  <2> DEFINE part == IF b.k = "select" THEN "DISTINCT" ELSE "IGNORE"
             new == [b EXCEPT !.options = Append(@, part)]
  <2>1. b.k \in {"select", "insert"} /\ Update(new) /\ Only
    BY <1>6 DEF Options, Is, Of
  <2>2. part \in STRING
    BY NamesAndWords
  <2> HIDE DEF part
  <2>3. Cleanly(b, new)
    BY <1>1, <2>1, <2>2, <1>2, SharedClean
  <2> HIDE DEF new
  <2> QED BY <2>1, <2>3, OnlyClean
<1>7. CASE Select
  <2> DEFINE part == Str(<<N("b")>>, <<>>)
             new == [b EXCEPT !.columns = <<part>>]
  <2>1. b.k \in {"select"} /\ Update(new) /\ Only
    BY <1>7 DEF Select, Is, Of
  <2>2. part \in Fine
    BY <1>2, <1>a, NameIs, Zenon
  <2> HIDE DEF part
  <2>3. Cleanly(b, new)
    BY <1>1, <2>1, <2>2, <1>2, SelectClean
  <2> HIDE DEF new
  <2> QED BY <2>1, <2>3, OnlyClean
<1>8. CASE RemoveColumns
  <2> DEFINE new == [b EXCEPT !.columns = <<>>]
  <2>1. b.k \in {"select"} /\ Update(new) /\ Only
    BY <1>8 DEF RemoveColumns, Is, Of
  <2>3. Cleanly(b, new)
    BY <1>1, <1>2, <2>1, SelectClean
  <2> HIDE DEF new
  <2> QED BY <2>1, <2>3, OnlyClean
<1>9. CASE AddColumn
  <2>1. PICK column \in {Str(<<N("a"), K("+"), P(V)>>, <<V>>), Alias(Case(V), "c"), Alias(Coalesce(V), "d")} :
          Update([b EXCEPT !.columns = Append(@, column)])
    BY <1>9 DEF AddColumn
  <2>2. b.k = "select" /\ Only
    BY <1>9 DEF AddColumn, Is, Of
  <2>3. Str(<<N("a"), K("+"), P(V)>>, <<V>>) \in Fine
    <3>1. "+" \in STRING
      BY NamesAndWords
    <3> QED BY <1>1, <1>2, <1>a, <3>1, ComparisonIs, Zenon
  <2>4. Alias(Case(V), "c") \in Fine /\ Alias(Coalesce(V), "d") \in Fine
    <3>1. 2 \in Nat /\ 3 \in Nat /\ 2 + 1 = 3 /\ 3 + 1 = 4
      OBVIOUS
    <3>2. Case(V) \in Sqlizers(2) /\ Coalesce(V) \in Sqlizers(3) /\ "c" \in STRING /\ "d" \in STRING
      BY <1>1, CaseIs, CoalesceIs, NamesAndWords
    <3>3. Alias(Case(V), "c") \in Sqlizers(3) /\ Alias(Coalesce(V), "d") \in Sqlizers(4)
      BY <3>1, <3>2, AliasIs, Zenon
    <3>4. Alias(Case(V), "c") \in Below /\ Alias(Coalesce(V), "d") \in Below
      BY <3>3, BelowIs
    <3> QED BY <1>1, <3>4, GivenFine, FineSimple, Zenon
  <2>5. column \in Fine
    BY <2>1, <2>3, <2>4, Zenon
  <2> DEFINE new == [b EXCEPT !.columns = Append(@, column)]
  <2>6. Cleanly(b, new)
    BY <1>1, <1>2, <2>2, <2>5, SelectClean
  <2>7. Update(new)
    BY <2>1
  <2> HIDE DEF new
  <2> QED BY <2>2, <2>6, <2>7, OnlyClean
<1>10. CASE From
  <2> DEFINE part == Str(<<N("u")>>, <<>>)
             new == [b EXCEPT !.from = <<part>>]
  <2>1. b.k \in {"select", "update"} /\ Update(new) /\ Only
    BY <1>10 DEF From, Is, Of
  <2>2. part \in Fine
    <3>1. "u" \in STRING
      BY NamesAndWords
    <3> QED BY <1>a, <3>1, NameIs, Zenon
  <2> HIDE DEF part
  <2>3. Cleanly(b, new)
    BY <1>1, <2>1, <2>2, <1>2, SharedClean
  <2> HIDE DEF new
  <2> QED BY <2>1, <2>3, OnlyClean
<1>11. CASE FromSelect
  <2> DEFINE part == Alias(Sub(V), "s")
             new == [b EXCEPT !.from = <<part>>]
  <2>1. b.k \in {"select", "update"} /\ Update(new) /\ Only
    BY <1>11 DEF FromSelect, Is, Of
  <2>2. part \in Fine
    BY <1>1, AliasSubIs, GivenFine, FineSimple, Zenon
  <2> HIDE DEF part
  <2>3. Cleanly(b, new)
    BY <1>1, <2>1, <2>2, <1>2, SharedClean
  <2> HIDE DEF new
  <2> QED BY <2>1, <2>3, OnlyClean
<1>12. CASE JoinClause
  <2> DEFINE part == Str(<<K("JOIN"), N("u"), K("ON"), N("x"), K("="), P(V)>>, <<V>>)
             new == [b EXCEPT !.joins = Append(@, part)]
  <2>1. b.k \in {"select"} /\ Update(new) /\ Only
    BY <1>12 DEF JoinClause, Is, Of
  <2>2. part \in Fine
    <3>1. Str(<<K("JOIN"), N("u"), K("ON"), N("x"), K("="), P(V)>>, <<V>>) \in Flat
      BY <1>1, JoinText, TextIs
    <3> QED BY <1>a, <3>1, Zenon
  <2> HIDE DEF part
  <2>3. Cleanly(b, new)
    BY <1>1, <2>1, <2>2, <1>2, SelectClean
  <2> HIDE DEF new
  <2> QED BY <2>1, <2>3, OnlyClean
<1>13. CASE Where
  <2>1. PICK shape \in WhereShapes : /\ Update(Kept(Reached("Where"), Pred(shape, V)))
                                   /\ asked' = [asked EXCEPT !.where = Append(@, Pred(shape, V))]
    BY <1>13 DEF Where
  <2>2. b.k # "insert"
    BY <1>13 DEF Where, Called, Of
  <2>3. Reached("Where") = "Where"
    BY <1>13, <1>1, ReachedIs DEF Where
  <2>4. Pred(shape, V) \in Predicates
    BY <1>1, <2>1, PredicateIs, BuilderAssumption
  <2> QED BY <2>1, <2>2, <2>3, <2>4, WhereKeeps
<1>14. CASE ID
  <2> DEFINE pred == Str(<<N("a"), K("="), P(V)>>, <<V>>)
  <2>1. b.k # "insert" /\ Update(Kept(Reached("ID"), pred))
        /\ asked' = [asked EXCEPT !.where = Append(@, pred)]
    BY <1>14 DEF ID, Called, Of
  <2>2. Reached("ID") = "Where"
    BY <1>14, <1>1, ReachedIs DEF ID
  <2>3. pred \in Flat
    BY <1>1, <1>2, ComparisonIs, MoreWords
  <2>4. pred \in Predicates
    BY <2>3, TextPredicate
  <2> HIDE DEF pred
  <2> QED BY <2>1, <2>2, <2>4, WhereKeeps
<1>15. CASE Having
  <2>1. PICK shape \in HavingShapes : /\ Update(Kept(Reached("Having"), Pred(shape, V)))
                                    /\ asked' = [asked EXCEPT !.having = Append(@, Pred(shape, V))]
    BY <1>15 DEF Having
  <2>2. b.k = "select"
    BY <1>15 DEF Having, Called, Of
  <2>3. Reached("Having") = "Having"
    BY <1>15, <1>1, ReachedIs DEF Having
  <2> DEFINE pred == Pred(shape, V)
  <2>4. pred \in Predicates
    BY <1>1, <2>1, PredicateIs, BuilderAssumption
  <2>5. b' = [b EXCEPT !.having = Append(@, Part(Given(pred)))]
    BY <2>1, <2>3 DEF Update, Kept
  <2>6. asked'.where = asked.where /\ asked'.having = Append(asked.having, pred)
    BY <2>1, PredicateFields
  <2> HIDE DEF pred
  <2>7. Refused(Part(Given(pred))) <=> Denied(pred)
    BY <2>4, GivenDenied
  <2> QED BY <2>2, <2>4, <2>5, <2>6, <2>7, HavingKeeps
<1>16. CASE GroupBy
  <2> DEFINE part == "a"
             new == [b EXCEPT !.groupBys = Append(@, part)]
  <2>1. b.k \in {"select"} /\ Update(new) /\ Only
    BY <1>16 DEF GroupBy, Is, Of
  <2>2. part \in STRING
    BY <1>2
  <2> HIDE DEF part
  <2>3. Cleanly(b, new)
    BY <1>1, <2>1, <2>2, <1>2, SelectClean
  <2> HIDE DEF new
  <2> QED BY <2>1, <2>3, OnlyClean
<1>17. CASE OrderByClause
  <2> DEFINE term == Str(<<K("FIELD"), K("("), P(V), K(")")>>, <<V>>)
  <2>1. b.k = "select" /\ Update(Kept(Reached("OrderByClause"), term))
        /\ asked' = [asked EXCEPT !.orderBy = Append(@, term)]
    BY <1>17 DEF OrderByClause, Called, Of
  <2>2. Reached("OrderByClause") \in {"Having", "OrderByClause"}
    BY <1>17, <1>1, ReachedIs DEF OrderByClause
  <2>3. term \in Flat
    BY <1>1, CallText, TextIs, NamesAndWords
  <2>4. term \in Predicates /\ Part(Given(term)) = term /\ term \in Fine
    BY <1>a, <2>3, TextPredicate
  <2> HIDE DEF term
  <2>5. asked'.where = asked.where /\ asked'.having = asked.having
    BY <2>1, PredicateFields
  <2>6. CASE Reached("OrderByClause") = "OrderByClause"
    <3> DEFINE new == [b EXCEPT !.orderBys = Append(@, term)]
    <3>1. b' = new
      BY <2>1, <2>6 DEF Update, Kept
    <3>2. Cleanly(b, new)
      BY <1>1, <1>2, <2>1, <2>4, SelectClean
    <3> HIDE DEF new
    <3> QED BY <2>5, <3>1, <3>2, CleanKeeps
  <2>7. CASE Reached("OrderByClause") = "Having"
    <3>1. b' = [b EXCEPT !.having = Append(@, term)]
      BY <2>1, <2>4, <2>7 DEF Update, Kept
    <3>2. ~Refused(term) /\ ~Denied(term)
      BY <2>4, GivenDenied, Zenon DEF Fine
    <3> QED BY <2>1, <2>4, <2>5, <3>1, <3>2, HavingKeeps
  <2> QED BY <2>2, <2>6, <2>7
<1>18. CASE OrderBy
  <2> DEFINE term == Str(<<N("a")>>, <<>>)
             new == [b EXCEPT !.orderBys = Append(@, IF b.k = "select" THEN term ELSE "a")]
  <2>1. b.k \in {"select", "update", "delete"} /\ Update(new)
        /\ asked' = [asked EXCEPT !.orderBy = Append(@, term)]
    BY <1>18 DEF OrderBy, Is, Of
  <2>2. term \in Fine
    BY <1>1, GivenFine
  <2> HIDE DEF term
  <2>3. asked'.where = asked.where /\ asked'.having = asked.having
    BY <2>1, PredicateFields
  <2>4. Cleanly(b, new)
    <3>1. CASE b.k = "select"
      <4>1. new = [b EXCEPT !.orderBys = Append(@, term)]
        BY <3>1
      <4>2. Cleanly(b, [b EXCEPT !.orderBys = Append(@, term)])
        BY <1>1, <1>2, <2>2, <3>1, SelectClean
      <4> QED BY <4>1, <4>2
    <3>2. CASE b.k # "select"
      <4>1. new = [b EXCEPT !.orderBys = Append(@, "a")]
        BY <3>2
      <4>2. Cleanly(b, [b EXCEPT !.orderBys = Append(@, "a")])
        BY <1>1, <1>2, <2>1, <2>2, <3>2, SharedClean
      <4> QED BY <4>1, <4>2
    <3> QED BY <3>1, <3>2
  <2>5. b' = new
    BY <2>1 DEF Update
  <2> HIDE DEF new
  <2> QED BY <2>3, <2>4, <2>5, CleanKeeps
<1>19. CASE Limit
  <2> DEFINE new == [b EXCEPT !.limit = "1"]
  <2>1. b.k \in {"select", "update", "delete"} /\ Update(new) /\ Only
    BY <1>19 DEF Limit, Is, Of
  <2>2. "1" \in STRING
    BY NamesAndWords
  <2>3. Cleanly(b, new)
    BY <1>1, <1>2, <2>1, <2>2, SharedClean
  <2> HIDE DEF new
  <2> QED BY <2>1, <2>3, OnlyClean
<1>20. CASE Offset
  <2> DEFINE new == [b EXCEPT !.offset = "1"]
  <2>1. b.k \in {"select", "update", "delete"} /\ Update(new) /\ Only
    BY <1>20 DEF Offset, Is, Of
  <2>2. "1" \in STRING
    BY NamesAndWords
  <2>3. Cleanly(b, new)
    BY <1>1, <1>2, <2>1, <2>2, SharedClean
  <2> HIDE DEF new
  <2> QED BY <2>1, <2>3, OnlyClean
<1>21. CASE RemoveLimit
  <2> DEFINE new == [b EXCEPT !.limit = ""]
  <2>1. b.k \in {"select"} /\ Update(new) /\ Only
    BY <1>21 DEF RemoveLimit, Is, Of
  <2>2. "" \in STRING
    BY NamesAndWords
  <2>3. Cleanly(b, new)
    BY <1>1, <1>2, <2>1, <2>2, SharedClean
  <2> HIDE DEF new
  <2> QED BY <2>1, <2>3, OnlyClean
<1>22. CASE RemoveOffset
  <2> DEFINE new == [b EXCEPT !.offset = ""]
  <2>1. b.k \in {"select"} /\ Update(new) /\ Only
    BY <1>22 DEF RemoveOffset, Is, Of
  <2>2. "" \in STRING
    BY NamesAndWords
  <2>3. Cleanly(b, new)
    BY <1>1, <1>2, <2>1, <2>2, SharedClean
  <2> HIDE DEF new
  <2> QED BY <2>1, <2>3, OnlyClean
<1>23. CASE Set
  <2>1. PICK pairs \in {<<<<"a", Val(V)>>>>, <<<<"b", Sub(V)>>>>, <<<<"b", Case(V)>>>>, <<<<"b", Coalesce(V)>>>>,
                        <<<<"a", Val(V)>>, <<"b", Val(V + 1)>>>>} :
          Update([b EXCEPT !.sets = @ \o pairs])
    BY <1>23 DEF Set
  <2>2. b.k = "update" /\ Only
    BY <1>23 DEF Set, Is, Of
  <2>3. pairs \in Seq(STRING \X Fine)
    BY <1>1, <2>1, GivenFine, SetPairs, Zenon
  <2> DEFINE new == [b EXCEPT !.sets = @ \o pairs]
  <2>4. Cleanly(b, new)
    BY <1>1, <2>2, <2>3, UpdateClean
  <2>5. Update(new)
    BY <2>1
  <2> HIDE DEF new
  <2> QED BY <2>2, <2>4, <2>5, OnlyClean
<1>24. CASE Columns
  <2> DEFINE new == [b EXCEPT !.cols = <<"a", "b">>]
  <2>1. b.k \in {"insert"} /\ Update(new) /\ Only
    BY <1>24 DEF Columns, Of
  <2>2. <<"a", "b">> \in Seq(STRING) /\ <<>> \in Seq(Fine)
    BY <1>2, PairIs
  <2>3. Cleanly(b, new)
    BY <1>1, <1>2, <2>1, <2>2, InsertClean
  <2> HIDE DEF new
  <2> QED BY <2>1, <2>3, OnlyClean
<1>25. CASE Values
  <2>1. PICK row \in {<<Val(V), Val(V + 1)>>, <<Expr(<<K("UPPER"), K("("), P(V), K(")")>>, <<Val(V)>>), Val(V + 1)>>} :
          Update([b EXCEPT !.rows = Append(@, row)])
    BY <1>25 DEF Values
  <2>2. b.k = "insert" /\ Only
    BY <1>25 DEF Values, Of
  <2>3. row \in Seq(Fine) /\ <<>> \in Seq(STRING)
    <3>1. Val(V) \in Fine /\ Val(V + 1) \in Fine
      BY <1>1, GivenFine
    <3>2. Expr(<<K("UPPER"), K("("), P(V), K(")")>>, <<Val(V)>>) \in Fine
      BY <1>1, <1>b, FunctionIs, Zenon
    <3>3. /\ <<Val(V), Val(V + 1)>> \in Seq(Fine)
          /\ <<Expr(<<K("UPPER"), K("("), P(V), K(")")>>, <<Val(V)>>), Val(V + 1)>> \in Seq(Fine)
      BY <3>1, <3>2, PairIs
    <3>4. row \in Seq(Fine)
      BY <2>1, <3>3, Zenon
    <3> QED BY <3>4
  <2> DEFINE new == [b EXCEPT !.rows = Append(@, row)]
  <2>4. Cleanly(b, new)
    BY <1>1, <1>2, <2>2, <2>3, InsertClean
  <2>5. Update(new)
    BY <2>1
  <2> HIDE DEF new
  <2> QED BY <2>2, <2>4, <2>5, OnlyClean
<1>26. CASE SetMap
  <2> DEFINE row == <<Val(V), Val(V + 1)>>
             new == [b EXCEPT !.cols = <<"a", "b">>, !.rows = <<row>>]
  <2>1. b.k = "insert" /\ Update(new) /\ Only
    BY <1>26 DEF SetMap, Of
  <2>2. <<"a", "b">> \in Seq(STRING) /\ row \in Seq(Fine)
    <3>1. Val(V) \in Fine /\ Val(V + 1) \in Fine
      BY <1>1, GivenFine
    <3> QED BY <1>2, <3>1, PairIs
  <2> HIDE DEF row
  <2>3. Cleanly(b, new)
    BY <1>1, <1>2, <2>1, <2>2, InsertClean
  <2> HIDE DEF new
  <2> QED BY <2>1, <2>3, OnlyClean
<1>27. CASE InsertSelect
  <2> DEFINE new == [b EXCEPT !.select = <<Sub(V)>>]
  <2>1. b.k \in {"insert"} /\ Update(new) /\ Only
    BY <1>27 DEF InsertSelect, Of
  <2>2. Sub(V) \in Fine /\ <<>> \in Seq(Fine) /\ <<>> \in Seq(STRING)
    BY <1>1, GivenFine
  <2>3. Cleanly(b, new)
    BY <1>1, <1>2, <2>1, <2>2, InsertClean
  <2> HIDE DEF new
  <2> QED BY <2>1, <2>3, OnlyClean
<1>28. CASE StatementKeyword
  <2> DEFINE new == [b EXCEPT !.keyword = "REPLACE"]
  <2>1. b.k = "insert" /\ Update(new) /\ Only
    BY <1>28 DEF StatementKeyword, Of
  <2>2. "REPLACE" \in STRING
    BY NamesAndWords
  <2>3. <<>> \in Seq(Fine) /\ <<>> \in Seq(STRING)
    BY EmptySequence, Zenon
  <2>4. Cleanly(b, new)
    BY <1>1, <1>2, <2>1, <2>2, <2>3, InsertClean
  <2> HIDE DEF new
  <2> QED BY <2>1, <2>4, OnlyClean
<1> QED BY <1>3, <1>4, <1>5, <1>6, <1>7, <1>8, <1>9, <1>10, <1>11, <1>12, <1>13, <1>14, <1>15,
       <1>16, <1>17, <1>18, <1>19, <1>20, <1>21, <1>22, <1>23, <1>24, <1>25, <1>26, <1>27, <1>28 DEF Next

\* A statement without its predicates is still one.
LEMMA BareStatement == ASSUME NEW S, NEW s \in StatementsOf(S) PROVE Bare(s) \in StatementsOf(S)
<1>0. <<>> \in Seq(S)
  BY EmptySequence, Zenon
<1>1. CASE s \in Selects(S)
  <2>1. Bare(s) = [s EXCEPT !.where = <<>>, !.having = <<>>]
    BY <1>1 DEF Selects, Bare
  <2>2. [s EXCEPT !.where = <<>>, !.having = <<>>] \in Selects(S)
    BY <1>0, <1>1 DEF Selects
  <2> QED BY <2>1, <2>2 DEF StatementsOf
<1>2. CASE s \in Updates(S)
  <2>1. Bare(s) = [s EXCEPT !.where = <<>>]
    BY <1>2 DEF Updates, Bare
  <2>2. [s EXCEPT !.where = <<>>] \in Updates(S)
    BY <1>0, <1>2 DEF Updates
  <2> QED BY <2>1, <2>2 DEF StatementsOf
<1>3. CASE s \in Deletes(S)
  <2>1. Bare(s) = [s EXCEPT !.where = <<>>]
    BY <1>3 DEF Deletes, Bare
  <2>2. [s EXCEPT !.where = <<>>] \in Deletes(S)
    BY <1>0, <1>3 DEF Deletes
  <2> QED BY <2>1, <2>2 DEF StatementsOf
<1>4. CASE s \in Inserts(S)
  <2>1. Bare(s) = s
    BY <1>4 DEF Inserts, Bare
  <2> QED BY <2>1
<1> QED BY <1>1, <1>2, <1>3, <1>4, Zenon DEF StatementsOf

\* A builder starts without predicates.
LEMMA StartBare ==
    ASSUME NEW stmt \in Through, NEW kind \in KindsOf(stmt)
    PROVE  /\ Start(stmt, kind).k # "insert" => Start(stmt, kind).where = <<>>
           /\ Start(stmt, kind).k = "select" => Start(stmt, kind).having = <<>>
<1>1. kind \in {"select", "update", "delete", "insert"}
      /\ (stmt = "QueryColStmt" => kind = "select") /\ (stmt = "UpdateStmt" => kind = "update")
      /\ (stmt = "DeleteStmt" => kind = "delete")
      /\ stmt \in {"builder", "QueryModelStmt", "QueryColStmt", "UpdateStmt", "DeleteStmt"}
  BY BuilderAssumption DEF KindsOf
<1>2. CASE stmt \in {"builder", "QueryModelStmt"}
  <2>1. Start(stmt, kind) = Empty(kind)
    BY <1>2 DEF Start
  <2>2. CASE kind = "select"
    <3>1. Start(stmt, kind) = Empty("select")
      BY <2>1, <2>2
    <3>2. Empty("select").k = "select" /\ Empty("select").where = <<>> /\ Empty("select").having = <<>>
      BY DEF Empty
    <3> QED BY <3>1, <3>2
  <2>3. CASE kind = "update"
    <3>1. Start(stmt, kind) = Empty("update")
      BY <2>1, <2>3
    <3>2. Empty("update").k = "update" /\ Empty("update").where = <<>>
      BY DEF Empty
    <3> QED BY <3>1, <3>2
  <2>4. CASE kind = "delete"
    <3>1. Start(stmt, kind) = Empty("delete")
      BY <2>1, <2>4
    <3>2. Empty("delete").k = "delete" /\ Empty("delete").where = <<>>
      BY DEF Empty
    <3> QED BY <3>1, <3>2
  <2>5. CASE kind = "insert"
    <3>1. Start(stmt, kind) = Empty("insert")
      BY <2>1, <2>5
    <3>2. Empty("insert").k = "insert"
      BY DEF Empty
    <3> QED BY <3>1, <3>2
  <2> QED BY <1>1, <2>2, <2>3, <2>4, <2>5
<1>3. CASE stmt = "QueryColStmt"
  <2>1. Start(stmt, kind) = [Empty("select") EXCEPT !.columns = <<>>, !.from = <<>>]
    BY <1>1, <1>3 DEF Start
  <2> QED BY <2>1 DEF Empty
<1>4. CASE stmt = "UpdateStmt"
  <2>1. Start(stmt, kind) = [Empty("update") EXCEPT !.table = ""]
    BY <1>1, <1>4 DEF Start
  <2> QED BY <2>1 DEF Empty
<1>5. CASE stmt = "DeleteStmt"
  <2>1. Start(stmt, kind) = [Empty("delete") EXCEPT !.table = ""]
    BY <1>1, <1>5 DEF Start
  <2> QED BY <2>1 DEF Empty
<1>6. stmt \in {"builder", "QueryModelStmt"} \/ stmt = "QueryColStmt" \/ stmt = "UpdateStmt" \/ stmt = "DeleteStmt"
  BY <1>1
<1> QED BY <1>2, <1>3, <1>4, <1>5, <1>6, Zenon

\* Of no predicate none is refused.
LEMMA NoneSo == ~AnyRefused(<<>>) /\ ~AnyDenied(<<>>)
<1>1. ToSet(<<>>) = {}
  BY DEF ToSet
<1> QED BY <1>1, Zenon DEF AnyRefused, AnyDenied, Some

\* The start has nothing that is refused.
LEMMA InitFine == Init => FineInv
<1> SUFFICES ASSUME Init PROVE FineInv
  OBVIOUS
<1>1. PICK kind \in KindsOf(through) : b = Start(through, kind)
  BY DEF Init
<1>2. through \in Through
  BY DEF Init
<1>3. b \in StatementsOf(Fine)
  <2>1. 0 \in Nat
    OBVIOUS
  <2>2. Str(<<N("a")>>, <<>>) \in Fine /\ Str(<<N("t")>>, <<>>) \in Fine
    BY <2>1, GivenFine
  <2> QED BY <1>1, <1>2, <2>2, StartIs, Zenon
<1>4. (b.k # "insert" => b.where = <<>>) /\ (b.k = "select" => b.having = <<>>)
  BY <1>1, <1>2, StartBare, Zenon
<1>5. asked.where = <<>> /\ asked.having = <<>>
  BY DEF Init
<1>6. Bare(b) \in StatementsOf(Fine)
  BY <1>3, BareStatement
<1> QED BY <1>4, <1>5, <1>6, NoneSo, Zenon DEF FineInv

\* What is refused of a builder's statement.
LEMMA RefusedBuilder ==
    ASSUME TypeOK, FineInv
    PROVE  RefusedBy(RefusedAt[Nesting], b)
             <=> Wrong(b) \/ AnyDenied(asked.where) \/ AnyDenied(asked.having)
<1> DEFINE R == RefusedAt[Nesting]
<1>1. b \in StatementsOf(Below) /\ Bare(b) \in StatementsOf(Fine)
  BY CallNumbers DEF FineInv
<1>2. \A parts \in Seq(Fine) : ~Some(R, parts)
  BY NoneRefused
<1>3. \A part \in Fine : ~R[part]
  BY Zenon DEF Fine, Refused
<1>4. b.k # "insert" => (Some(R, b.where) <=> AnyDenied(asked.where))
  BY Zenon DEF FineInv, AnyRefused
<1>5. b.k = "select" => (Some(R, b.having) <=> AnyDenied(asked.having))
  BY Zenon DEF FineInv, AnyRefused
<1>6. b.k = "insert" => ~AnyDenied(asked.where)
  BY NoneSo, Zenon DEF FineInv
<1>7. b.k # "select" => ~AnyDenied(asked.having)
  BY NoneSo, Zenon DEF FineInv
<1> SUFFICES RefusedBy(R, b) <=> Wrong(b) \/ AnyDenied(asked.where) \/ AnyDenied(asked.having)
  OBVIOUS
<1> HIDE DEF R
<1>8. CASE b \in Selects(Below)
  <2>1. b.k = "select" /\ Bare(b) \in Selects(Fine) /\ (Wrong(b) <=> b.columns = <<>>)
    <3>1. b.k = "select"
      BY <1>8 DEF Selects
    <3>2. Bare(b).k = "select"
      BY <1>1, <3>1, BareFields
    <3> QED BY <1>1, <3>1, <3>2, StatementKinds DEF Wrong
  <2>2. /\ b.prefixes \in Seq(Fine) /\ b.columns \in Seq(Fine) /\ b.from \in Seq(Fine)
        /\ b.joins \in Seq(Fine) /\ b.orderBys \in Seq(Fine) /\ b.suffixes \in Seq(Fine)
    <3>1. /\ Bare(b).prefixes = b.prefixes /\ Bare(b).columns = b.columns /\ Bare(b).from = b.from
          /\ Bare(b).joins = b.joins /\ Bare(b).orderBys = b.orderBys /\ Bare(b).suffixes = b.suffixes
      BY <1>8 DEF Selects, Bare
    <3> QED BY <2>1, <3>1 DEF Selects
  <2>3. b.k # "insert"
    BY <2>1
  <2>4. RefusedBy(R, b)
          <=> \/ b.columns = <<>> \/ Some(R, b.prefixes) \/ Some(R, b.columns)
              \/ Some(R, b.from) \/ Some(R, b.joins) \/ Some(R, b.where)
              \/ Some(R, b.having) \/ Some(R, b.orderBys) \/ Some(R, b.suffixes)
    BY <2>1, RefusedAs, Zenon
  <2>5. /\ ~Some(R, b.prefixes) /\ ~Some(R, b.columns) /\ ~Some(R, b.from)
        /\ ~Some(R, b.joins) /\ ~Some(R, b.orderBys) /\ ~Some(R, b.suffixes)
    BY <1>2, <2>2, Zenon
  <2> QED BY <1>4, <1>5, <2>1, <2>3, <2>4, <2>5, Zenon
<1>9. CASE b \in Updates(Below)
  <2>1. b.k = "update" /\ Bare(b) \in Updates(Fine) /\ (Wrong(b) <=> b.table = "" \/ b.sets = <<>>)
    <3>1. b.k = "update"
      BY <1>9 DEF Updates
    <3>2. Bare(b).k = "update"
      BY <1>1, <3>1, BareFields
    <3> QED BY <1>1, <3>1, <3>2, StatementKinds DEF Wrong
  <2>2. /\ b.prefixes \in Seq(Fine) /\ b.from \in Seq(Fine) /\ b.suffixes \in Seq(Fine)
        /\ b.sets \in Seq(STRING \X Fine)
    <3>1. /\ Bare(b).prefixes = b.prefixes /\ Bare(b).from = b.from /\ Bare(b).suffixes = b.suffixes
          /\ Bare(b).sets = b.sets
      BY <1>9 DEF Updates, Bare
    <3> QED BY <2>1, <3>1 DEF Updates
  <2>3. \A i \in DOMAIN b.sets : b.sets[i][2] \in Fine
    BY <2>2
  <2>4. ~\E i \in DOMAIN b.sets : R[b.sets[i][2]]
    BY <1>3, <2>3, Zenon
  <2>5. b.k # "insert" /\ b.k # "select"
    BY <2>1
  <2>6. RefusedBy(R, b)
          <=> \/ b.table = "" \/ b.sets = <<>> \/ Some(R, b.prefixes)
              \/ (\E i \in DOMAIN b.sets : R[b.sets[i][2]])
              \/ Some(R, b.from) \/ Some(R, b.where) \/ Some(R, b.suffixes)
    BY <2>1, RefusedAs, Zenon
  <2>7. ~Some(R, b.prefixes) /\ ~Some(R, b.from) /\ ~Some(R, b.suffixes)
    BY <1>2, <2>2, Zenon
  <2> QED BY <1>4, <1>7, <2>1, <2>4, <2>5, <2>6, <2>7, Zenon
<1>10. CASE b \in Deletes(Below)
  <2>1. b.k = "delete" /\ Bare(b) \in Deletes(Fine) /\ (Wrong(b) <=> b.table = "")
    <3>1. b.k = "delete"
      BY <1>10 DEF Deletes
    <3>2. Bare(b).k = "delete"
      BY <1>1, <3>1, BareFields
    <3> QED BY <1>1, <3>1, <3>2, StatementKinds DEF Wrong
  <2>2. b.prefixes \in Seq(Fine) /\ b.suffixes \in Seq(Fine)
    <3>1. Bare(b).prefixes = b.prefixes /\ Bare(b).suffixes = b.suffixes
      BY <1>10 DEF Deletes, Bare
    <3> QED BY <2>1, <3>1 DEF Deletes
  <2>3. b.k # "insert" /\ b.k # "select"
    BY <2>1
  <2>4. RefusedBy(R, b)
          <=> b.table = "" \/ Some(R, b.prefixes) \/ Some(R, b.where) \/ Some(R, b.suffixes)
    BY <2>1, RefusedAs, Zenon
  <2>5. ~Some(R, b.prefixes) /\ ~Some(R, b.suffixes)
    BY <1>2, <2>2, Zenon
  <2> QED BY <1>4, <1>7, <2>1, <2>3, <2>4, <2>5, Zenon
<1>11. CASE b \in Inserts(Below)
  <2>1. b.k = "insert" /\ Bare(b) = b /\ b \in Inserts(Fine)
        /\ (Wrong(b) <=> b.table = "" \/ (b.rows = <<>> /\ b.select = <<>>))
    <3>1. b.k = "insert" /\ Bare(b) = b
      BY <1>11 DEF Inserts, Bare
    <3> QED BY <1>1, <3>1, StatementKinds DEF Wrong
  <2>2. /\ b.prefixes \in Seq(Fine) /\ b.suffixes \in Seq(Fine) /\ b.select \in Seq(Fine)
        /\ b.rows \in Seq(Seq(Fine))
    BY <2>1 DEF Inserts
  <2>3. \A i \in DOMAIN b.rows : b.rows[i] \in Seq(Fine)
    BY <2>2
  <2>4. b.select # <<>> => b.select[1] \in Fine
    BY <2>2
  <2>5. ~\E i \in DOMAIN b.rows : Some(R, b.rows[i])
    BY <1>2, <2>3, Zenon
  <2>6. ~(b.select # <<>> /\ R[b.select[1]])
    BY <1>3, <2>4, Zenon
  <2>7. b.k # "select"
    BY <2>1
  <2>8. RefusedBy(R, b)
          <=> \/ b.table = "" \/ (b.rows = <<>> /\ b.select = <<>>)
              \/ Some(R, b.prefixes) \/ Some(R, b.suffixes)
              \/ b.select # <<>> /\ R[b.select[1]]
              \/ b.select = <<>> /\ \E i \in DOMAIN b.rows : Some(R, b.rows[i])
    BY <2>1, RefusedAs, Zenon
  <2>9. ~Some(R, b.prefixes) /\ ~Some(R, b.suffixes)
    BY <1>2, <2>2, Zenon
  <2> QED BY <1>6, <1>7, <2>1, <2>5, <2>6, <2>7, <2>8, <2>9, Zenon
<1> QED BY <1>1, <1>8, <1>9, <1>10, <1>11, Zenon DEF StatementsOf

\* Nothing is sent exactly if something is missing or a predicate that was asked
\* for comes to nothing, by a value that is refused, a part of a wrong type or a
\* nil inside And, Or, an Alias or a ConcatExpr, however deep inside it: ToSql
\* returns an error or panics, and no statement goes out without the predicate.
THEOREM RefusalsFail == Spec => []FailsWhenRefused
<1>1. TypeOK /\ FineInv => FailsWhenRefused
  <2> SUFFICES ASSUME TypeOK, FineInv PROVE FailsWhenRefused
    OBVIOUS
  <2>1. b \in Sqlizers(Nesting) /\ Nesting \in Nat
    BY CallNumbers, BelowIs, BuilderAssumption
  <2>2. ToSql(b).err <=> Refused(b)
    BY <2>1, ToSqlFails
  <2>3. Refused(b) <=> Wrong(b) \/ AnyDenied(asked.where) \/ AnyDenied(asked.having)
    BY <2>1, RefusedIs, RefusedBuilder, Zenon
  <2>4. AnyDenied(asked.where) \/ AnyDenied(asked.having)
          <=> \E pred \in ToSet(asked.where) \cup ToSet(asked.having) : pred.k # "try" /\ Refused(Part(pred))
    BY Zenon DEF AnyDenied, Denied
  <2> QED BY <2>2, <2>3, <2>4, Zenon DEF FailsWhenRefused
<1>2. FineInv /\ UNCHANGED vars => FineInv'
  BY Zenon DEF FineInv, vars, AnyRefused, AnyDenied
<1>3. TypeOK /\ FineInv /\ [Next]_vars => FineInv'
  BY <1>2, NextFine
<1>4. Spec => []FineInv
  <2>1. Spec => []TypeOK
    BY TypesStay
  <2> QED BY <1>3, <2>1, InitFine, PTL DEF Spec
<1> QED BY <1>1, <1>4, TypesStay, PTL

===============================================================================
