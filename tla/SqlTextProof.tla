---------------------------- MODULE SqlTextProof ------------------------------
(***************************************************************************)
(* What ToSql returns, for every Sqlizer however deep it is nested: each   *)
(* placeholder has its argument (ToSqlMatches), and an error comes exactly *)
(* where something cannot be written (ToSqlFails).                         *)
(*                                                                         *)
(* A result is Good when its arguments are what its text is meant for.  Every *)
(* text a ToSql puts together of Good results is Good, and fails exactly if *)
(* one of them did or something is missing; the theorems follow by induction *)
(* over the nesting, with the induction over numbers of SetInduction.      *)
(***************************************************************************)
EXTENDS SqlText, SequenceTheorems, WellFoundedInduction, FiniteSetTheorems, TLAPS

-----------------------------------------------------------------------------
(* Induction over numbers *)

\* Induction over the numbers of a set.
LEMMA SetInduction ==
    ASSUME NEW G, 0 \in G, \A n \in Nat : n \in G => n + 1 \in G
    PROVE  Nat \subseteq G
<1> DEFINE bad == Nat \ G
<1>1. SUFFICES ASSUME bad # {} PROVE FALSE
  OBVIOUS
<1>2. PICK n \in bad : \A m \in bad : <<m, n>> \notin OpToRel(<, Nat)
  <2>1. bad \subseteq Nat
    OBVIOUS
  <2> HIDE DEF bad
  <2> QED BY <1>1, <2>1, WFMin, NatLessThanWellFounded
<1>3. n - 1 \in Nat /\ n - 1 < n /\ (n - 1) + 1 = n
  <2>1. n \in Nat /\ n # 0
    BY <1>2
  <2> QED BY <2>1
<1>4. n - 1 \in G
  BY <1>2, <1>3 DEF OpToRel
<1> QED BY <1>2, <1>3, <1>4

\* Induction up to a number.
LEMMA UptoInduction ==
    ASSUME NEW G, NEW m \in Nat, 0 \in G, \A n \in 0 .. m - 1 : n \in G => n + 1 \in G
    PROVE  \A n \in 0 .. m : n \in G
<1> DEFINE H == {n \in Nat : n <= m => n \in G}
<1>1. 0 \in H
  OBVIOUS
<1>2. ASSUME NEW n \in Nat, n \in H PROVE n + 1 \in H
  BY <1>2
<1>3. Nat \subseteq H
  <2> HIDE DEF H
  <2> QED BY <1>1, <1>2, SetInduction
<1> QED BY <1>3

-----------------------------------------------------------------------------
(* FlattenSeq *)

\* f[i] is the first i of seqs joined.
Adds(f, seqs, i) == f[i + 1] = f[i] \o seqs[i + 1]
Joins(f, seqs) ==
    /\ DOMAIN f = 0 .. Len(seqs)
    /\ f = [i \in 0 .. Len(seqs) |-> f[i]]
    /\ f[0] = <<>>
    /\ \A i \in 0 .. Len(seqs) - 1 : Adds(f, seqs, i)

\* Sequences can be joined one by one
LEMMA JoinsExist ==
    ASSUME NEW S, NEW seqs \in Seq(Seq(S))
    PROVE  \E f : Joins(f, seqs)
<1> DEFINE Start(n, f) == /\ DOMAIN f = 0 .. n
                          /\ f = [i \in 0 .. n |-> f[i]]
                          /\ f[0] = <<>>
                          /\ \A i \in 0 .. n - 1 : Adds(f, seqs, i)
           G == {n \in Nat : \E f : Start(n, f)}
<1>1. 0 \in G
  <2>1. 0 .. 0 - 1 = {}
    OBVIOUS
  <2>2. Start(0, [i \in 0 .. 0 |-> <<>>])
    BY <2>1
  <2> QED BY <2>2
<1>2. ASSUME NEW m \in Nat, m \in G PROVE m + 1 \in G
  <2>1. PICK f : Start(m, f)
    BY <1>2
  <2>0. PICK last : last = f[m] \o seqs[m + 1]
    OBVIOUS
  <2> DEFINE g == [i \in 0 .. m + 1 |-> IF i <= m THEN f[i] ELSE last]
  <2>2. g = [i \in 0 .. m + 1 |-> g[i]] /\ DOMAIN g = 0 .. m + 1
    OBVIOUS
  <2>3. g[0] = <<>>
    BY <2>1
  <2>4. ASSUME NEW i \in 0 .. m PROVE Adds(g, seqs, i)
    <3>1. CASE i < m
      <4>1. g[i] = f[i] /\ g[i + 1] = f[i + 1] /\ i \in 0 .. m - 1
        BY <3>1
      <4>2. Adds(f, seqs, i)
        BY <2>1, <4>1
      <4> HIDE DEF g
      <4> QED BY <4>1, <4>2, Zenon DEF Adds
    <3>2. CASE i = m
      <4>1. g[m] = f[m] /\ g[m + 1] = last
        OBVIOUS
      <4> HIDE DEF g
      <4> QED BY <2>0, <3>2, <4>1, Zenon DEF Adds
    <3> QED BY <3>1, <3>2
  <2>5. (m + 1) - 1 = m
    OBVIOUS
  <2>6. Start(m + 1, g)
    <3> HIDE DEF g
    <3>1. \A i \in 0 .. (m + 1) - 1 : Adds(g, seqs, i)
      BY <2>4, <2>5
    <3> QED BY <2>2, <2>3, <3>1, Zenon
  <2> HIDE DEF g, Start
  <2> QED BY <2>6
<1>3. Len(seqs) \in G
  <2>1. Len(seqs) \in Nat
    OBVIOUS
  <2> HIDE DEF G
  <2> QED BY <1>1, <1>2, <2>1, SetInduction
<1> QED BY <1>3 DEF Joins

\* Induction over the sequences joined.
LEMMA JoinInduction ==
    ASSUME NEW S, NEW seqs \in Seq(S), NEW G,
           0 \in G, \A n \in 0 .. Len(seqs) - 1 : n \in G => n + 1 \in G
    PROVE  \A n \in 0 .. Len(seqs) : n \in G
BY UptoInduction

\* and what is joined stays a sequence over the same set
LEMMA JoinsTyped ==
    ASSUME NEW S, NEW seqs \in Seq(Seq(S)), NEW f, Joins(f, seqs)
    PROVE  \A i \in 0 .. Len(seqs) : f[i] \in Seq(S)
<1> DEFINE G == {n \in Nat : f[n] \in Seq(S)}
<1>1. 0 \in G
  <2>1. <<>> \in Seq(S)
    OBVIOUS
  <2> QED BY <2>1, Zenon DEF Joins
<1>2. ASSUME NEW n \in 0 .. Len(seqs) - 1, n \in G PROVE n + 1 \in G
  <2>1. n + 1 \in 1 .. Len(seqs)
    OBVIOUS
  <2>2. seqs[n + 1] \in Seq(S) /\ f[n] \in Seq(S)
    BY <1>2, <2>1
  <2>3. f[n] \o seqs[n + 1] \in Seq(S)
    BY <2>2
  <2>4. f[n + 1] \in Seq(S)
    BY <2>3, Zenon DEF Joins, Adds
  <2> QED BY <2>1, <2>4
<1>3. \A n \in 0 .. Len(seqs) : n \in G
  <2> HIDE DEF G
  <2> QED BY <1>1, <1>2, JoinInduction
<1> QED BY <1>3

\* in one way only.
LEMMA JoinsUnique ==
    ASSUME NEW S, NEW seqs \in Seq(Seq(S)), NEW f, Joins(f, seqs), NEW g, Joins(g, seqs)
    PROVE  \A n \in 0 .. Len(seqs) : f[n] = g[n]
<1> DEFINE G == {n \in Nat : f[n] = g[n]}
<1>1. 0 \in G
  BY Zenon DEF Joins
<1>2. ASSUME NEW n \in 0 .. Len(seqs) - 1, n \in G PROVE n + 1 \in G
  <2>1. f[n + 1] = g[n + 1]
    BY <1>2, Zenon DEF Joins, Adds
  <2> QED BY <2>1
<1>3. \A n \in 0 .. Len(seqs) : n \in G
  <2> HIDE DEF G
  <2> QED BY <1>1, <1>2, JoinInduction
<1> QED BY <1>3

\* What FlattenSeq makes of a sequence that is not empty.
FlattenStep(h, seqs) ==
    h = [i \in 1 .. Len(seqs) |-> IF i = 1 THEN seqs[i] ELSE h[i - 1] \o seqs[i]]

\* Nothing joined with a sequence.
LEMMA EmptyJoin == ASSUME NEW S, NEW s \in Seq(S) PROVE <<>> \o s = s
OBVIOUS

\* The joins of FlattenSeq, numbered from 1 as it numbers them
LEMMA JoinedStep ==
    ASSUME NEW S, NEW seqs \in Seq(Seq(S)), NEW f, Joins(f, seqs)
    PROVE  FlattenStep([i \in 1 .. Len(seqs) |-> f[i]], seqs)
<1> DEFINE d == [i \in 1 .. Len(seqs) |-> f[i]]
<1>1. ASSUME NEW i \in 1 .. Len(seqs)
      PROVE  d[i] = IF i = 1 THEN seqs[i] ELSE d[i - 1] \o seqs[i]
  <2>1. CASE i = 1
    <3>1. seqs[1] \in Seq(S) /\ 0 \in 0 .. Len(seqs) - 1 /\ d[1] = f[1] /\ 0 + 1 = 1
      BY <2>1
    <3>2. <<>> \o seqs[1] = seqs[1]
      BY <3>1, EmptyJoin
    <3>3. f[1] = f[0] \o seqs[1] /\ f[0] = <<>>
      BY <3>1, Zenon DEF Joins, Adds
    <3>4. d[1] = seqs[1]
      <4> HIDE DEF d
      <4> QED BY <3>1, <3>2, <3>3, Zenon
    <3> QED BY <2>1, <3>4
  <2>2. CASE i # 1
    <3>1. /\ i - 1 \in 0 .. Len(seqs) - 1 /\ (i - 1) + 1 = i
          /\ d[i] = f[i] /\ d[i - 1] = f[i - 1]
      BY <2>2
    <3> HIDE DEF d
    <3>2. f[i] = f[i - 1] \o seqs[i]
      BY <3>1, Zenon DEF Joins, Adds
    <3> QED BY <2>2, <3>1, <3>2, Zenon
  <2> QED BY <2>1, <2>2
<1>2. d = [i \in 1 .. Len(seqs) |-> d[i]]
  OBVIOUS
<1>3. d = [i \in 1 .. Len(seqs) |-> IF i = 1 THEN seqs[i] ELSE d[i - 1] \o seqs[i]]
  <2> HIDE DEF d
  <2> QED BY <1>1, <1>2, Zenon
<1> QED BY <1>3 DEF FlattenStep

\* and back.
LEMMA StepJoins ==
    ASSUME NEW S, NEW seqs \in Seq(Seq(S)), NEW h, FlattenStep(h, seqs)
    PROVE  Joins([i \in 0 .. Len(seqs) |-> IF i = 0 THEN <<>> ELSE h[i]], seqs)
<1> DEFINE e == [i \in 0 .. Len(seqs) |-> IF i = 0 THEN <<>> ELSE h[i]]
<1>0. \A i \in 1 .. Len(seqs) : h[i] = IF i = 1 THEN seqs[i] ELSE h[i - 1] \o seqs[i]
  BY Zenon DEF FlattenStep
<1>1. ASSUME NEW i \in 0 .. Len(seqs) - 1 PROVE Adds(e, seqs, i)
  <2>1. CASE i = 0
    <3>1. seqs[1] \in Seq(S) /\ 1 \in 1 .. Len(seqs) /\ e[1] = h[1] /\ e[0] = <<>> /\ 0 + 1 = 1
      BY <2>1
    <3>2. <<>> \o seqs[1] = seqs[1]
      BY <3>1, EmptyJoin
    <3>3. h[1] = seqs[1]
      BY <1>0, <3>1
    <3> HIDE DEF e
    <3> QED BY <2>1, <3>1, <3>2, <3>3, Zenon DEF Adds
  <2>2. CASE i # 0
    <3>1. /\ i + 1 \in 1 .. Len(seqs) /\ i + 1 # 1 /\ (i + 1) - 1 = i
          /\ e[i] = h[i] /\ e[i + 1] = h[i + 1]
      BY <2>2
    <3> HIDE DEF e
    <3>2. h[i + 1] = h[i] \o seqs[i + 1]
      BY <1>0, <3>1, Zenon
    <3> QED BY <3>1, <3>2, Zenon DEF Adds
  <2> QED BY <2>1, <2>2
<1>2. e = [i \in 0 .. Len(seqs) |-> e[i]] /\ DOMAIN e = 0 .. Len(seqs) /\ e[0] = <<>>
  OBVIOUS
<1>3. Joins(e, seqs)
  <2> HIDE DEF e
  <2> QED BY <1>1, <1>2 DEF Joins
<1> QED BY <1>3

\* FlattenSeq joins them all.
LEMMA FlattenJoins ==
    ASSUME NEW S, NEW seqs \in Seq(Seq(S)), NEW f, Joins(f, seqs)
    PROVE  FlattenSeq(seqs) = f[Len(seqs)]
<1>1. CASE seqs = <<>>
  <2>1. FlattenSeq(seqs) = <<>> /\ Len(seqs) = 0
    BY <1>1 DEF FlattenSeq
  <2> QED BY <2>1, Zenon DEF Joins
<1>2. CASE seqs # <<>>
  <2>1. Len(seqs) \in Nat /\ Len(seqs) # 0
    BY <1>2
  <2>2. PICK c : c = CHOOSE h : FlattenStep(h, seqs)
    OBVIOUS
  <2>3. FlattenStep(c, seqs)
    BY <2>2, JoinedStep
  <2>4. FlattenSeq(seqs) = c[Len(seqs)]
    BY <2>1, <2>2 DEF FlattenSeq, FlattenStep
  <2> DEFINE e == [i \in 0 .. Len(seqs) |-> IF i = 0 THEN <<>> ELSE c[i]]
  <2>5. Joins(e, seqs)
    BY <2>3, StepJoins
  <2>6. e[Len(seqs)] = c[Len(seqs)] /\ Len(seqs) \in 0 .. Len(seqs)
    BY <2>1
  <2> HIDE DEF e
  <2>7. e[Len(seqs)] = f[Len(seqs)]
    BY <2>5, <2>6, JoinsUnique
  <2> QED BY <2>4, <2>6, <2>7
<1> QED BY <1>1, <1>2

\* FlattenSeq gives a sequence over the same set.
LEMMA FlattenType ==
    ASSUME NEW S, NEW seqs \in Seq(Seq(S))
    PROVE  FlattenSeq(seqs) \in Seq(S)
<1>1. PICK f : Joins(f, seqs)
  BY JoinsExist
<1>2. FlattenSeq(seqs) = f[Len(seqs)]
  BY <1>1, FlattenJoins
<1>3. Len(seqs) \in 0 .. Len(seqs)
  OBVIOUS
<1> QED BY <1>1, <1>2, <1>3, JoinsTyped

\* FlattenSeq of one sequence, and of none.
LEMMA FlattenOne == ASSUME NEW S, NEW s \in Seq(S) PROVE FlattenSeq(<<s>>) = s
<1>1. <<s>> \in Seq(Seq(S)) /\ Len(<<s>>) = 1 /\ <<s>>[0 + 1] = s
  OBVIOUS
<1> DEFINE f == [i \in 0 .. 1 |-> IF i = 0 THEN <<>> ELSE s]
<1>2. f[0] = <<>> /\ f[0 + 1] = s /\ f[1] = s /\ DOMAIN f = 0 .. 1 /\ f = [i \in 0 .. 1 |-> f[i]]
  OBVIOUS
<1>3. <<>> \o s = s
  BY EmptyJoin
<1> HIDE DEF f
<1>4. Adds(f, <<s>>, 0)
  BY <1>1, <1>2, <1>3, Zenon DEF Adds
<1>5. \A i \in 0 .. 1 - 1 : i = 0
  OBVIOUS
<1>6. Joins(f, <<s>>)
  BY <1>1, <1>2, <1>4, <1>5, Zenon DEF Joins
<1> QED BY <1>1, <1>2, <1>6, FlattenJoins

LEMMA FlattenNone == FlattenSeq(<<>>) = <<>>
BY DEF FlattenSeq

Associative(S) == \A s, t, u \in Seq(S) : (s \o t) \o u = s \o (t \o u)
\* Joining is associative, and joining nothing changes nothing.
LEMMA JoinAssociative == ASSUME NEW S PROVE Associative(S)
BY DEF Associative

LEMMA JoinNothing == ASSUME NEW S, NEW s \in Seq(S) PROVE s \o <<>> = s
OBVIOUS

\* Where the members of two sequences are in both together.
LEMMA JoinedAt ==
    ASSUME NEW S, NEW a \in Seq(S), NEW c \in Seq(S)
    PROVE  /\ a \o c \in Seq(S) /\ Len(a \o c) = Len(a) + Len(c)
           /\ \A i \in 1 .. Len(a) : (a \o c)[i] = a[i]
           /\ \A i \in 1 .. Len(c) : (a \o c)[Len(a) + i] = c[i]
OBVIOUS

\* FlattenSeq of two sequences of sequences one after the other.
LEMMA FlattenConcat ==
    ASSUME NEW S, NEW a \in Seq(Seq(S)), NEW c \in Seq(Seq(S))
    PROVE  FlattenSeq(a \o c) = FlattenSeq(a) \o FlattenSeq(c)
<1>1. PICK f : Joins(f, a)
  BY JoinsExist
<1>2. PICK g : Joins(g, c)
  BY JoinsExist
<1>3. PICK m \in Nat : m = Len(a)
  OBVIOUS
<1>4. PICK n \in Nat : n = Len(c)
  OBVIOUS
<1>5. PICK h : Joins(h, a \o c)
  BY JoinsExist, JoinedAt
<1>6. /\ Len(a \o c) = m + n
      /\ a \o c \in Seq(Seq(S))
      /\ \A i \in 0 .. m - 1 : (a \o c)[i + 1] = a[i + 1]
      /\ \A i \in 0 .. n - 1 : (a \o c)[(m + i) + 1] = c[i + 1] /\ c[i + 1] \in Seq(S)
  <2>1. \A i \in 0 .. m - 1 : i + 1 \in 1 .. m
    OBVIOUS
  <2>2. \A i \in 0 .. n - 1 : i + 1 \in 1 .. n /\ (m + i) + 1 = m + (i + 1)
    OBVIOUS
  <2>3. \A i \in 1 .. n : c[i] \in Seq(S)
    BY <1>4
  <2>4. /\ a \o c \in Seq(Seq(S)) /\ Len(a \o c) = m + n
        /\ \A i \in 1 .. m : (a \o c)[i] = a[i]
        /\ \A i \in 1 .. n : (a \o c)[m + i] = c[i]
    BY <1>3, <1>4, JoinedAt
  <2> QED BY <2>1, <2>2, <2>3, <2>4
<1>7. /\ \A i \in 0 .. m : f[i] \in Seq(S)
      /\ \A i \in 0 .. n : g[i] \in Seq(S)
  BY <1>1, <1>2, <1>3, <1>4, JoinsTyped
<1>8. \A i \in 0 .. m : h[i] = f[i]
  <2> DEFINE G == {i \in Nat : h[i] = f[i]}
  <2>1. 0 \in G
    BY <1>1, <1>5, Zenon DEF Joins
  <2>2. ASSUME NEW i \in 0 .. m - 1, i \in G PROVE i + 1 \in G
    <3>1. i \in 0 .. Len(a \o c) - 1 /\ i \in 0 .. Len(a) - 1 /\ i + 1 \in Nat
      BY <1>3, <1>6
    <3>2. h[i + 1] = f[i + 1]
      BY <1>1, <1>5, <1>6, <2>2, <3>1, Zenon DEF Joins, Adds
    <3> QED BY <3>1, <3>2
  <2> HIDE DEF G
  <2>3. \A i \in 0 .. m : i \in G
    BY <2>1, <2>2, UptoInduction
  <2> QED BY <2>3 DEF G
<1>9. \A i \in 0 .. n : h[m + i] = f[m] \o g[i]
  <2> DEFINE G == {i \in Nat : h[m + i] = f[m] \o g[i]}
  <2>0. f[m] \in Seq(S) /\ m \in 0 .. m /\ m + 0 = m
    BY <1>7
  <2>1. 0 \in G
    <3>1. g[0] = <<>> /\ h[m + 0] = f[m]
      BY <1>2, <1>8, <2>0, Zenon DEF Joins
    <3>2. f[m] \o <<>> = f[m]
      BY <2>0, JoinNothing
    <3>3. h[m + 0] = f[m] \o g[0]
      BY <3>1, <3>2, Zenon
    <3> QED BY <3>3
  <2>2. ASSUME NEW i \in 0 .. n - 1, i \in G PROVE i + 1 \in G
    <3>1. /\ m + i \in 0 .. Len(a \o c) - 1 /\ i \in 0 .. Len(c) - 1 /\ i + 1 \in Nat
          /\ m + (i + 1) = (m + i) + 1 /\ i \in 0 .. n
      BY <1>4, <1>6
    <3>2. h[(m + i) + 1] = h[m + i] \o c[i + 1] /\ c[i + 1] \in Seq(S)
      BY <1>5, <1>6, <3>1, Zenon DEF Joins, Adds
    <3>3. g[i + 1] = g[i] \o c[i + 1]
      BY <1>2, <3>1, Zenon DEF Joins, Adds
    <3>4. (f[m] \o g[i]) \o c[i + 1] = f[m] \o (g[i] \o c[i + 1])
      <4>1. f[m] \in Seq(S) /\ g[i] \in Seq(S) /\ c[i + 1] \in Seq(S)
        BY <1>7, <2>0, <3>1, <3>2
      <4>2. \A s, t, u \in Seq(S) : (s \o t) \o u = s \o (t \o u)
        <5>1. Associative(S)
          BY JoinAssociative
        <5> QED BY <5>1, Zenon DEF Associative
      <4> QED BY <4>1, <4>2, Zenon
    <3>5. h[m + i] = f[m] \o g[i]
      BY <2>2
    <3>6. h[m + (i + 1)] = f[m] \o g[i + 1]
      BY <3>1, <3>2, <3>3, <3>4, <3>5, Zenon
    <3> QED BY <3>1, <3>6
  <2> HIDE DEF G
  <2>3. \A i \in 0 .. n : i \in G
    BY <2>1, <2>2, UptoInduction
  <2> QED BY <2>3 DEF G
<1>10. h[m + n] = f[m] \o g[n]
  <2>1. n \in 0 .. n
    OBVIOUS
  <2> QED BY <1>9, <2>1, Zenon
<1>11. /\ FlattenSeq(a \o c) = h[m + n] /\ FlattenSeq(a) = f[m] /\ FlattenSeq(c) = g[n]
  BY <1>1, <1>2, <1>3, <1>4, <1>5, <1>6, FlattenJoins
<1> QED BY <1>10, <1>11, Zenon

-----------------------------------------------------------------------------
(* What the placeholders of a text are meant for *)

Texts == Seq(Tokens)
Mark(token) == IF IsPlaceholder(token) THEN <<token[2]>> ELSE <<>>
Marks(tokens) == [j \in DOMAIN tokens |-> Mark(tokens[j])]

\* What a text is meant to be given, token by token.
LEMMA MeantMarks == ASSUME NEW tokens PROVE MeantFor(tokens) = FlattenSeq(Marks(tokens))
BY DEF MeantFor, Marks, Mark

\* Types of these.
LEMMA MarkType == ASSUME NEW x \in Tokens PROVE Mark(x) \in Seq(Nat)
<1>1. CASE x \in {"?"} \X Nat
  BY <1>1 DEF Mark, IsPlaceholder
<1>2. CASE x \in {"kw", "name"} \X STRING
  <2>1. Mark(x) = <<>>
    BY <1>2 DEF Mark, IsPlaceholder
  <2>2. <<>> \in Seq(Nat)
    OBVIOUS
  <2> QED BY <2>1, <2>2
<1> QED BY <1>1, <1>2 DEF Tokens

LEMMA MarksType ==
    ASSUME NEW s \in Texts
    PROVE  Marks(s) \in Seq(Seq(Nat)) /\ Len(Marks(s)) = Len(s)
<1>1. \A j \in DOMAIN s : s[j] \in Tokens
  BY DEF Texts
<1>2. \A j \in DOMAIN s : Mark(s[j]) \in Seq(Nat)
  BY <1>1, MarkType
<1>3. DOMAIN s = 1 .. Len(s) /\ Len(s) \in Nat
  BY DEF Texts
<1> QED BY <1>2, <1>3 DEF Marks

LEMMA MeantType == ASSUME NEW s \in Texts PROVE MeantFor(s) \in Seq(Nat)
BY MarksType, MeantMarks, FlattenType

\* What no token, one token and two texts are meant for.
LEMMA MeantNone == MeantFor(<<>>) = <<>>
<1>1. Marks(<<>>) = <<>>
  BY DEF Marks
<1> QED BY <1>1, MeantMarks, FlattenNone

LEMMA MeantOne == ASSUME NEW x \in Tokens PROVE MeantFor(<<x>>) = Mark(x)
<1>1. Marks(<<x>>) = <<Mark(x)>>
  <2>1. DOMAIN <<x>> = 1 .. 1 /\ <<x>>[1] = x
    OBVIOUS
  <2> QED BY <2>1 DEF Marks
<1>2. FlattenSeq(<<Mark(x)>>) = Mark(x)
  BY MarkType, FlattenOne
<1> QED BY <1>1, <1>2, MeantMarks

LEMMA MeantTwo ==
    ASSUME NEW s \in Texts, NEW t \in Texts
    PROVE  MeantFor(s \o t) = MeantFor(s) \o MeantFor(t) /\ s \o t \in Texts
<1>1. /\ s \o t \in Texts /\ Len(s \o t) = Len(s) + Len(t)
      /\ \A j \in 1 .. Len(s) : (s \o t)[j] = s[j]
      /\ \A j \in 1 .. Len(t) : (s \o t)[Len(s) + j] = t[j]
  BY JoinedAt DEF Texts
<1>2. /\ Marks(s) \in Seq(Seq(Nat)) /\ Len(Marks(s)) = Len(s)
      /\ Marks(t) \in Seq(Seq(Nat)) /\ Len(Marks(t)) = Len(t)
      /\ Marks(s \o t) \in Seq(Seq(Nat)) /\ Len(Marks(s \o t)) = Len(s) + Len(t)
  BY <1>1, MarksType
<1>3. Marks(s \o t) = Marks(s) \o Marks(t)
  <2>0. /\ Len(s) \in Nat /\ Len(t) \in Nat
        /\ DOMAIN s = 1 .. Len(s) /\ DOMAIN t = 1 .. Len(t) /\ DOMAIN (s \o t) = 1 .. Len(s) + Len(t)
    BY <1>1 DEF Texts
  <2>1. /\ \A j \in 1 .. Len(s) : (Marks(s) \o Marks(t))[j] = Marks(s)[j]
        /\ \A j \in 1 .. Len(t) : (Marks(s) \o Marks(t))[Len(s) + j] = Marks(t)[j]
        /\ Len(Marks(s) \o Marks(t)) = Len(s) + Len(t)
        /\ Marks(s) \o Marks(t) \in Seq(Seq(Nat))
    <3>1. /\ \A j \in 1 .. Len(Marks(s)) : (Marks(s) \o Marks(t))[j] = Marks(s)[j]
          /\ \A j \in 1 .. Len(Marks(t)) : (Marks(s) \o Marks(t))[Len(Marks(s)) + j] = Marks(t)[j]
          /\ Len(Marks(s) \o Marks(t)) = Len(Marks(s)) + Len(Marks(t))
          /\ Marks(s) \o Marks(t) \in Seq(Seq(Nat))
      <4>1. \A u, v \in Seq(Seq(Nat)) :
              /\ \A j \in 1 .. Len(u) : (u \o v)[j] = u[j]
              /\ \A j \in 1 .. Len(v) : (u \o v)[Len(u) + j] = v[j]
              /\ Len(u \o v) = Len(u) + Len(v)
              /\ u \o v \in Seq(Seq(Nat))
        BY JoinedAt
      <4> QED BY <1>2, <4>1, Zenon
    <3> QED BY <1>2, <3>1, Zenon
  <2>2. ASSUME NEW j \in 1 .. Len(s) PROVE Marks(s \o t)[j] = Marks(s)[j]
    <3>1. j \in DOMAIN s /\ j \in DOMAIN (s \o t) /\ (s \o t)[j] = s[j]
      BY <1>1, <2>0
    <3> QED BY <3>1, Zenon DEF Marks
  <2>3. ASSUME NEW j \in 1 .. Len(t) PROVE Marks(s \o t)[Len(s) + j] = Marks(t)[j]
    <3>1. j \in DOMAIN t /\ Len(s) + j \in DOMAIN (s \o t) /\ (s \o t)[Len(s) + j] = t[j]
      BY <1>1, <2>0
    <3> QED BY <3>1, Zenon DEF Marks
  <2>4. ASSUME NEW i \in 1 .. Len(s) + Len(t)
        PROVE  Marks(s \o t)[i] = (Marks(s) \o Marks(t))[i]
    <3>1. CASE i \in 1 .. Len(s)
      BY <2>1, <2>2, <3>1
    <3>2. CASE i \notin 1 .. Len(s)
      <4>1. PICK j \in 1 .. Len(t) : i = Len(s) + j
        <5>1. i - Len(s) \in 1 .. Len(t) /\ i = Len(s) + (i - Len(s))
          BY <2>0, <3>2
        <5> QED BY <5>1
      <4> QED BY <2>1, <2>3, <4>1, Zenon
    <3> QED BY <3>1, <3>2
  <2> QED BY <1>2, <2>1, <2>4, SeqEqual
<1>4. FlattenSeq(Marks(s) \o Marks(t)) = FlattenSeq(Marks(s)) \o FlattenSeq(Marks(t))
  BY <1>2, FlattenConcat
<1> QED BY <1>1, <1>3, <1>4, MeantMarks, Zenon

\* The marks of texts joined are theirs joined.
LEMMA MeantFlatten ==
    ASSUME NEW seqs \in Seq(Texts)
    PROVE  /\ FlattenSeq(seqs) \in Texts
           /\ MeantFor(FlattenSeq(seqs)) = FlattenSeq([i \in DOMAIN seqs |-> MeantFor(seqs[i])])
<1> DEFINE meant == [i \in DOMAIN seqs |-> MeantFor(seqs[i])]
<1>1. /\ seqs \in Seq(Seq(Tokens)) /\ Len(seqs) \in Nat /\ DOMAIN seqs = 1 .. Len(seqs)
      /\ \A i \in 1 .. Len(seqs) : seqs[i] \in Texts
  BY DEF Texts
<1>2. meant \in Seq(Seq(Nat)) /\ Len(meant) = Len(seqs)
      /\ \A i \in 1 .. Len(seqs) : meant[i] = MeantFor(seqs[i])
  <2>1. \A i \in 1 .. Len(seqs) : MeantFor(seqs[i]) \in Seq(Nat)
    BY <1>1, MeantType
  <2> QED BY <1>1, <2>1
<1> HIDE DEF meant
<1>3. PICK f : Joins(f, seqs)
  BY <1>1, JoinsExist
<1>4. PICK g : Joins(g, meant)
  BY <1>2, JoinsExist
<1>5. \A i \in 0 .. Len(seqs) : f[i] \in Texts
  BY <1>1, <1>3, JoinsTyped DEF Texts
<1> DEFINE G == {i \in Nat : MeantFor(f[i]) = g[i]}
<1>6. 0 \in G
  <2>1. MeantFor(f[0]) = g[0]
    BY <1>3, <1>4, MeantNone, Zenon DEF Joins
  <2> QED BY <2>1
<1>7. ASSUME NEW i \in 0 .. Len(seqs) - 1, i \in G PROVE i + 1 \in G
  <2>1. i + 1 \in 1 .. Len(seqs) /\ i \in 0 .. Len(seqs) - 1 /\ i \in 0 .. Len(meant) - 1
        /\ i \in 0 .. Len(seqs)
    BY <1>1, <1>2
  <2>2. f[i] \in Texts /\ seqs[i + 1] \in Texts /\ meant[i + 1] = MeantFor(seqs[i + 1])
    BY <1>1, <1>2, <1>5, <2>1
  <2>3. MeantFor(f[i] \o seqs[i + 1]) = MeantFor(f[i]) \o MeantFor(seqs[i + 1])
    BY <2>2, MeantTwo
  <2>4. f[i + 1] = f[i] \o seqs[i + 1] /\ g[i + 1] = g[i] \o meant[i + 1]
    BY <1>3, <1>4, <2>1, Zenon DEF Joins, Adds
  <2>5. MeantFor(f[i]) = g[i]
    BY <1>7
  <2>6. MeantFor(f[i + 1]) = g[i + 1]
    BY <2>2, <2>3, <2>4, <2>5, Zenon
  <2> QED BY <2>1, <2>6
<1>8. \A i \in 0 .. Len(seqs) : i \in G
  <2> HIDE DEF G
  <2> QED BY <1>1, <1>6, <1>7, UptoInduction
<1>9. MeantFor(f[Len(seqs)]) = g[Len(seqs)] /\ f[Len(seqs)] \in Texts
  BY <1>1, <1>5, <1>8
<1>10. FlattenSeq(seqs) = f[Len(seqs)] /\ FlattenSeq(meant) = g[Len(meant)]
  BY <1>1, <1>2, <1>3, <1>4, FlattenJoins
<1> QED BY <1>2, <1>9, <1>10, Zenon DEF meant

-----------------------------------------------------------------------------
(* Texts *)

\* FlattenSeq of empty sequences, and of single members.
LEMMA FlattenEmpties ==
    ASSUME NEW n \in Nat, NEW seqs, seqs = [i \in 1 .. n |-> <<>>]
    PROVE  FlattenSeq(seqs) = <<>>
<1>1. seqs \in Seq(Seq(Nat)) /\ Len(seqs) = n
  <2>1. <<>> \in Seq(Nat)
    OBVIOUS
  <2> QED BY <2>1
<1> DEFINE f == [i \in 0 .. n |-> <<>>]
<1>2. <<>> \o <<>> = <<>>
  OBVIOUS
<1>3. ASSUME NEW i \in 0 .. n - 1 PROVE Adds(f, seqs, i)
  <2>1. f[i] = <<>> /\ f[i + 1] = <<>> /\ seqs[i + 1] = <<>>
    OBVIOUS
  <2> HIDE DEF f
  <2> QED BY <1>2, <2>1, Zenon DEF Adds
<1>4. DOMAIN f = 0 .. n /\ f = [i \in 0 .. n |-> f[i]] /\ f[0] = <<>> /\ f[n] = <<>>
  OBVIOUS
<1> HIDE DEF f
<1>5. Joins(f, seqs)
  BY <1>1, <1>3, <1>4, Zenon DEF Joins
<1>6. FlattenSeq(seqs) = f[Len(seqs)]
  BY <1>1, <1>5, FlattenJoins
<1> QED BY <1>1, <1>4, <1>6

LEMMA FlattenSingles ==
    ASSUME NEW S, NEW vs \in Seq(S), NEW seqs, seqs = [i \in 1 .. Len(vs) |-> <<vs[i]>>]
    PROVE  FlattenSeq(seqs) = vs
<1>0. Len(vs) \in Nat /\ \A i \in 1 .. Len(vs) : vs[i] \in S
  OBVIOUS
<1>1. seqs \in Seq(Seq(S)) /\ Len(seqs) = Len(vs)
  <2>1. \A i \in 1 .. Len(vs) : <<vs[i]>> \in Seq(S)
    BY <1>0
  <2> QED BY <1>0, <2>1
<1> DEFINE f == [i \in 0 .. Len(vs) |-> SubSeq(vs, 1, i)]
<1>3. ASSUME NEW i \in 0 .. Len(vs) - 1 PROVE Adds(f, seqs, i)
  <2>1. f[i] = SubSeq(vs, 1, i) /\ f[i + 1] = SubSeq(vs, 1, i + 1) /\ seqs[i + 1] = <<vs[i + 1]>>
    BY <1>0
  <2>2. SubSeq(vs, 1, i + 1) = SubSeq(vs, 1, i) \o <<vs[i + 1]>>
    <3>1. /\ SubSeq(vs, 1, i + 1) \in Seq(S) /\ Len(SubSeq(vs, 1, i + 1)) = i + 1
          /\ \A j \in 1 .. i + 1 : SubSeq(vs, 1, i + 1)[j] = vs[j]
      BY <1>0
    <3>2. /\ SubSeq(vs, 1, i) \in Seq(S) /\ Len(SubSeq(vs, 1, i)) = i
          /\ \A j \in 1 .. i : SubSeq(vs, 1, i)[j] = vs[j]
      BY <1>0
    <3>3. PICK u \in Seq(S) : u = SubSeq(vs, 1, i)
      BY <3>2
    <3>4. PICK w \in Seq(S) : w = SubSeq(vs, 1, i + 1)
      BY <3>1
    <3>5. vs[i + 1] \in S
      BY <1>0
    <3>6. /\ u \o <<vs[i + 1]>> \in Seq(S) /\ Len(u \o <<vs[i + 1]>>) = i + 1
          /\ \A j \in 1 .. i + 1 : (u \o <<vs[i + 1]>>)[j] = vs[j]
      BY <3>2, <3>3, <3>5
    <3>7. w = u \o <<vs[i + 1]>>
      BY <3>1, <3>4, <3>6, SeqEqual
    <3> QED BY <3>3, <3>4, <3>7, Zenon
  <2> HIDE DEF f
  <2> QED BY <2>1, <2>2, Zenon DEF Adds
<1>4. /\ DOMAIN f = 0 .. Len(vs) /\ f = [i \in 0 .. Len(vs) |-> f[i]]
      /\ f[0] = <<>> /\ f[Len(vs)] = vs
  <2>1. SubSeq(vs, 1, 0) = <<>>
    OBVIOUS
  <2>2. SubSeq(vs, 1, Len(vs)) = vs
    BY SubSeqFull
  <2> QED BY <1>0, <2>1, <2>2
<1> HIDE DEF f
<1>5. Joins(f, seqs)
  BY <1>1, <1>3, <1>4, Zenon DEF Joins
<1>6. FlattenSeq(seqs) = f[Len(seqs)]
  BY <1>1, <1>5, FlattenJoins
<1> QED BY <1>1, <1>4, <1>6

\* Keywords and names are no placeholders.
LEMMA TokenTypes ==
    /\ \A w \in STRING : K(w) \in Tokens /\ Mark(K(w)) = <<>>
    /\ \A w \in STRING : N(w) \in Tokens /\ Mark(N(w)) = <<>>
    /\ \A v \in Nat : P(v) \in Tokens /\ Mark(P(v)) = <<v>>
BY DEF K, N, P, Tokens, Mark, IsPlaceholder

\* Texts without placeholders.
Plain(s) == s \in Texts /\ \A j \in 1 .. Len(s) : Mark(s[j]) = <<>>

\* A text without placeholders is meant for nothing,
LEMMA MeantPlain == ASSUME NEW s, Plain(s) PROVE s \in Texts /\ MeantFor(s) = <<>>
<1>1. s \in Texts /\ Len(s) \in Nat /\ DOMAIN s = 1 .. Len(s)
  BY DEF Plain, Texts
<1>2. Marks(s) = [i \in 1 .. Len(s) |-> <<>>]
  BY <1>1 DEF Marks, Plain
<1> QED BY <1>1, <1>2, FlattenEmpties, MeantMarks

\* The marks of texts joined with something between them.
LEMMA MeantPieces ==
    ASSUME NEW texts \in Seq(Texts), NEW args, args = [i \in DOMAIN texts |-> args[i]],
           \A i \in DOMAIN texts : args[i] = MeantFor(texts[i])
    PROVE  FlattenSeq(texts) \in Texts /\ FlattenSeq(args) = MeantFor(FlattenSeq(texts))
<1>1. args = [i \in DOMAIN texts |-> MeantFor(texts[i])]
  BY Zenon
<1> QED BY <1>1, MeantFlatten

\* so a separator before a text adds nothing
LEMMA MeantBehind ==
    ASSUME NEW sep \in Texts, MeantFor(sep) = <<>>, NEW s \in Texts
    PROVE  sep \o s \in Texts /\ MeantFor(sep \o s) = MeantFor(s)
<1>1. sep \o s \in Texts /\ MeantFor(sep \o s) = MeantFor(sep) \o MeantFor(s)
  BY MeantTwo
<1>2. <<>> \o MeantFor(s) = MeantFor(s)
  BY MeantType, EmptyJoin
<1> QED BY <1>1, <1>2, Zenon

\* and joined texts are meant for what each of them is, in order.
LEMMA MeantJoin ==
    ASSUME NEW texts \in Seq(Texts), NEW sep \in Texts, MeantFor(sep) = <<>>,
           NEW args, args = [i \in DOMAIN texts |-> args[i]],
           \A i \in DOMAIN texts : args[i] = MeantFor(texts[i])
    PROVE  Join(texts, sep) \in Texts /\ MeantFor(Join(texts, sep)) = FlattenSeq(args)
<1> DEFINE piece(i) == IF i = 1 THEN texts[i] ELSE sep \o texts[i]
           pieces == [i \in DOMAIN texts |-> piece(i)]
<1>1. ASSUME NEW i \in DOMAIN texts PROVE piece(i) \in Texts /\ MeantFor(piece(i)) = MeantFor(texts[i])
  <2>1. texts[i] \in Texts
    OBVIOUS
  <2>2. sep \o texts[i] \in Texts /\ MeantFor(sep \o texts[i]) = MeantFor(texts[i])
    BY <2>1, MeantBehind
  <2> QED BY <2>1, <2>2, Zenon
<1> HIDE DEF piece
<1>2. pieces \in Seq(Texts) /\ DOMAIN pieces = DOMAIN texts /\ \A i \in DOMAIN texts : pieces[i] = piece(i)
  BY <1>1
<1> HIDE DEF pieces
<1>3. \A i \in DOMAIN pieces : args[i] = MeantFor(pieces[i])
  BY <1>1, <1>2, Zenon
<1>4. args = [i \in DOMAIN pieces |-> args[i]]
  BY <1>2, Zenon
<1>5. FlattenSeq(pieces) \in Texts /\ FlattenSeq(args) = MeantFor(FlattenSeq(pieces))
  BY <1>2, <1>3, <1>4, MeantPieces
<1>6. Join(texts, sep) = FlattenSeq(pieces)
  BY Zenon DEF Join, pieces, piece
<1> QED BY <1>5, <1>6, Zenon

-----------------------------------------------------------------------------
(* Results *)

\* Results of ToSql whose arguments are those their placeholders are meant for.
Results == [sql : Texts, args : Seq(Nat), err : BOOLEAN]
Matched(r) == r.args = MeantFor(r.sql)
Good == {r \in Results : Matched(r)}

\* What a result that is matched is made of.
LEMMA GoodIs ==
    ASSUME NEW r \in Good
    PROVE  r.sql \in Texts /\ r.args = MeantFor(r.sql) /\ r.args \in Seq(Nat) /\ r.err \in BOOLEAN
BY DEF Good, Results, Matched

\* A text with the arguments it is meant for is matched.
LEMMA GoodSql ==
    ASSUME NEW s \in Texts, NEW args, args = MeantFor(s)
    PROVE  Sql(s, args) \in Good /\ Sql(s, args).err = FALSE
<1>1. args \in Seq(Nat)
  BY MeantType
<1> QED BY <1>1 DEF Sql, Good, Results, Matched

\* A text without placeholders needs none.
LEMMA GoodPlain == ASSUME NEW s, Plain(s) PROVE Sql(s, <<>>) \in Good
BY MeantPlain, GoodSql

LEMMA PlainNone == Plain(<<>>)
BY DEF Plain, Texts

LEMMA PlainOne == ASSUME NEW x \in Tokens, Mark(x) = <<>> PROVE Plain(<<x>>)
<1>1. <<x>> \in Seq(Tokens) /\ Len(<<x>>) = 1 /\ <<x>>[1] = x
  OBVIOUS
<1> QED BY <1>1 DEF Plain, Texts

LEMMA PlainPair ==
    ASSUME NEW x \in Tokens, NEW y \in Tokens, Mark(x) = <<>>, Mark(y) = <<>>
    PROVE  Plain(<<x, y>>)
<1>1. <<x, y>> \in Seq(Tokens) /\ Len(<<x, y>>) = 2 /\ <<x, y>>[1] = x /\ <<x, y>>[2] = y
  OBVIOUS
<1>2. \A j \in 1 .. 2 : j = 1 \/ j = 2
  OBVIOUS
<1> QED BY <1>1, <1>2 DEF Plain, Texts

\* An error, nothing and a word are matched.
LEMMA GoodFailure == Failure \in Good
<1>1. <<>> \in Texts /\ <<>> \in Seq(Nat)
  BY DEF Texts
<1>2. MeantFor(<<>>) = <<>>
  BY MeantNone
<1> QED BY <1>1, <1>2 DEF Good, Results, Matched, Failure

LEMMA GoodNothing == Nothing \in Good
BY PlainNone, GoodPlain DEF Nothing

LEMMA GoodWord == ASSUME NEW w \in STRING PROVE Word(w) \in Good
<1>1. K(w) \in Tokens /\ Mark(K(w)) = <<>>
  BY TokenTypes, Zenon
<1>2. Plain(<<K(w)>>)
  BY <1>1, PlainOne
<1> QED BY <1>2, GoodPlain DEF Word

\* What a text keeps of results whose arguments it takes, in the same order.
SqlsOf(results) == [i \in DOMAIN results |-> results[i].sql]
ArgsOf(results) == [i \in DOMAIN results |-> results[i].args]

\* The texts of matched results and their arguments.
LEMMA SqlsAndArgs ==
    ASSUME NEW results \in Seq(Good)
    PROVE  /\ SqlsOf(results) \in Seq(Texts)
           /\ DOMAIN SqlsOf(results) = DOMAIN results
           /\ ArgsOf(results) = [i \in DOMAIN SqlsOf(results) |-> ArgsOf(results)[i]]
           /\ \A i \in DOMAIN SqlsOf(results) : ArgsOf(results)[i] = MeantFor(SqlsOf(results)[i])
<1>1. DOMAIN results = 1 .. Len(results) /\ Len(results) \in Nat
      /\ \A i \in DOMAIN results : results[i] \in Good
  OBVIOUS
<1>2. \A i \in DOMAIN results : results[i].sql \in Texts /\ results[i].args = MeantFor(results[i].sql)
  BY <1>1, GoodIs
<1>3. SqlsOf(results) \in Seq(Texts) /\ DOMAIN SqlsOf(results) = DOMAIN results
  BY <1>1, <1>2 DEF SqlsOf
<1>4. \A i \in DOMAIN results : ArgsOf(results)[i] = results[i].args /\ SqlsOf(results)[i] = results[i].sql
  BY Zenon DEF SqlsOf, ArgsOf
<1>5. ArgsOf(results) = [i \in DOMAIN results |-> ArgsOf(results)[i]]
  BY Zenon DEF ArgsOf
<1> QED BY <1>2, <1>3, <1>4, <1>5, Zenon

\* Matched results one after the other are matched, with a separator too.
LEMMA GoodConcat == ASSUME NEW results \in Seq(Good) PROVE Concat(results) \in Good
<1>1. CASE \E i \in DOMAIN results : results[i].err
  BY <1>1, GoodFailure DEF Concat
<1>2. CASE ~\E i \in DOMAIN results : results[i].err
  <2>1. FlattenSeq(SqlsOf(results)) \in Texts
        /\ FlattenSeq(ArgsOf(results)) = MeantFor(FlattenSeq(SqlsOf(results)))
    BY SqlsAndArgs, MeantPieces
  <2>2. Concat(results) = Sql(FlattenSeq(SqlsOf(results)), FlattenSeq(ArgsOf(results)))
    BY <1>2, Zenon DEF Concat, SqlsOf, ArgsOf
  <2> QED BY <2>1, <2>2, GoodSql
<1> QED BY <1>1, <1>2

LEMMA GoodJoin ==
    ASSUME NEW results \in Seq(Good), \A i \in DOMAIN results : ~results[i].err,
           NEW sep \in Texts, MeantFor(sep) = <<>>
    PROVE  /\ Join(SqlsOf(results), sep) \in Texts
           /\ Concat(results).args = MeantFor(Join(SqlsOf(results), sep))
           /\ Sql(Join(SqlsOf(results), sep), Concat(results).args) \in Good
<1>1. /\ Join(SqlsOf(results), sep) \in Texts
      /\ MeantFor(Join(SqlsOf(results), sep)) = FlattenSeq(ArgsOf(results))
  BY SqlsAndArgs, MeantJoin
<1>2. Concat(results) = Sql(FlattenSeq(SqlsOf(results)), FlattenSeq(ArgsOf(results)))
  BY Zenon DEF Concat, SqlsOf, ArgsOf
<1>3. Concat(results).args = FlattenSeq(ArgsOf(results))
  BY <1>2 DEF Sql
<1> QED BY <1>1, <1>3, GoodSql

Separates(sep) == sep \in Texts /\ MeantFor(sep) = <<>>

\* The separators the code writes hold no placeholder.
LEMMA Separators ==
    /\ Separates(<<>>) /\ Separates(And) /\ Separates(Comma)
    /\ \A w \in STRING : Separates(<<K(w)>>)
<1>1. ASSUME NEW w \in STRING PROVE Separates(<<K(w)>>)
  <2>1. K(w) \in Tokens /\ Mark(K(w)) = <<>>
    BY TokenTypes, Zenon
  <2>2. Plain(<<K(w)>>)
    BY <2>1, PlainOne
  <2> QED BY <2>2, MeantPlain DEF Separates
<1>2. Separates(<<>>)
  BY PlainNone, MeantPlain DEF Separates
<1>3. "AND" \in STRING /\ "," \in STRING
  BY KeywordAssumption DEF Keywords
<1>4. Separates(<<K("AND")>>) /\ Separates(<<K(",")>>)
  BY <1>1, <1>3, Zenon
<1> QED BY <1>1, <1>2, <1>4, Zenon DEF And, Comma

\* What appendToSql writes of matched results, a clause of them,
LEMMA GoodAppended ==
    ASSUME NEW results \in Seq(Good), NEW sep, Separates(sep)
    PROVE  Appended(results, sep) \in Good
<1>1. CASE \E i \in DOMAIN results : results[i].err
  BY <1>1, GoodFailure DEF Appended
<1>2. CASE ~\E i \in DOMAIN results : results[i].err
  <2> DEFINE sqls == SqlsOf(results)
             piece(i) == IF sqls[i] = <<>> \/ i = 1 THEN sqls[i] ELSE sep \o sqls[i]
             given(i) == IF sqls[i] = <<>> THEN <<>> ELSE results[i].args
             pieces == [i \in DOMAIN sqls |-> piece(i)]
             args == [i \in DOMAIN sqls |-> given(i)]
  <2>1. Appended(results, sep) = Sql(FlattenSeq(pieces), FlattenSeq(args))
    BY <1>2, Zenon DEF Appended, SqlsOf
  <2>2. /\ sqls \in Seq(Texts) /\ DOMAIN sqls = DOMAIN results
        /\ \A i \in DOMAIN sqls : sqls[i] = results[i].sql /\ results[i].args = MeantFor(sqls[i])
    <3>1. SqlsOf(results) \in Seq(Texts) /\ DOMAIN SqlsOf(results) = DOMAIN results
          /\ \A i \in DOMAIN SqlsOf(results) : ArgsOf(results)[i] = MeantFor(SqlsOf(results)[i])
      BY SqlsAndArgs
    <3>2. \A i \in DOMAIN results : SqlsOf(results)[i] = results[i].sql
          /\ ArgsOf(results)[i] = results[i].args
      BY Zenon DEF SqlsOf, ArgsOf
    <3> QED BY <3>1, <3>2, Zenon
  <2> HIDE DEF sqls
  <2>3. ASSUME NEW i \in DOMAIN sqls
        PROVE  piece(i) \in Texts /\ given(i) = MeantFor(piece(i))
    <3>1. sqls[i] \in Texts
      BY <2>2
    <3>2. sep \o sqls[i] \in Texts /\ MeantFor(sep \o sqls[i]) = MeantFor(sqls[i])
      BY <3>1, MeantBehind DEF Separates
    <3>3. MeantFor(<<>>) = <<>>
      BY MeantNone
    <3>4. given(i) = MeantFor(sqls[i])
      BY <2>2, <3>3, Zenon
    <3>5. piece(i) \in Texts /\ MeantFor(piece(i)) = MeantFor(sqls[i])
      BY <3>1, <3>2, Zenon
    <3> HIDE DEF piece, given
    <3> QED BY <3>4, <3>5, Zenon
  <2> HIDE DEF piece, given
  <2>4. pieces \in Seq(Texts) /\ DOMAIN pieces = DOMAIN sqls /\ args = [i \in DOMAIN pieces |-> args[i]]
        /\ \A i \in DOMAIN pieces : args[i] = MeantFor(pieces[i])
    BY <2>2, <2>3
  <2>5. FlattenSeq(pieces) \in Texts /\ FlattenSeq(args) = MeantFor(FlattenSeq(pieces))
    <3> HIDE DEF pieces, args
    <3> QED BY <2>4, MeantPieces
  <2> QED BY <2>1, <2>5, GoodSql
<1> QED BY <1>1, <1>2

\* Keywords and names written one after the other.
LEMMA PlainWords ==
    ASSUME NEW words \in Seq(STRING)
    PROVE  Plain([i \in DOMAIN words |-> K(words[i])])
<1>0. \A i \in 1 .. Len(words) : words[i] \in STRING
  OBVIOUS
<1>1. \A i \in 1 .. Len(words) : K(words[i]) \in Tokens /\ Mark(K(words[i])) = <<>>
  BY <1>0, TokenTypes, Zenon
<1>2. DOMAIN words = 1 .. Len(words) /\ Len(words) \in Nat
  OBVIOUS
<1> QED BY <1>1, <1>2 DEF Plain, Texts

LEMMA GoodClause ==
    ASSUME NEW words \in Seq(STRING), NEW results \in Seq(Good), NEW sep, Separates(sep)
    PROVE  Clause(words, results, sep) \in Good
<1>1. Sql([i \in DOMAIN words |-> K(words[i])], <<>>) \in Good /\ Appended(results, sep) \in Good
  BY PlainWords, GoodPlain, GoodAppended
<1>2. <<Sql([i \in DOMAIN words |-> K(words[i])], <<>>), Appended(results, sep)>> \in Seq(Good)
  BY <1>1
<1> QED BY <1>2, GoodConcat, GoodNothing DEF Clause

\* A list of names.
NameTexts(names) == [i \in DOMAIN names |-> <<N(names[i])>>]

\* names in a row
LEMMA PlainNames ==
    ASSUME NEW names \in Seq(STRING)
    PROVE  /\ Join(NameTexts(names), Comma) \in Texts
           /\ MeantFor(Join(NameTexts(names), Comma)) = <<>>
<1>0. DOMAIN names = 1 .. Len(names) /\ Len(names) \in Nat /\ \A i \in DOMAIN names : names[i] \in STRING
  OBVIOUS
<1>1. DOMAIN names = 1 .. Len(names) /\ Len(names) \in Nat
      /\ \A i \in DOMAIN names : N(names[i]) \in Tokens /\ Mark(N(names[i])) = <<>>
  BY <1>0, TokenTypes, Zenon
<1>2. \A i \in DOMAIN names : <<N(names[i])>> \in Texts /\ MeantFor(<<N(names[i])>>) = <<>>
  BY <1>1, MeantOne DEF Texts
<1>3. NameTexts(names) \in Seq(Texts) /\ DOMAIN NameTexts(names) = DOMAIN names
      /\ \A i \in DOMAIN names : NameTexts(names)[i] = <<N(names[i])>>
  BY <1>1, <1>2 DEF NameTexts
<1> DEFINE args == [i \in DOMAIN NameTexts(names) |-> <<>>]
<1>4. args = [i \in DOMAIN NameTexts(names) |-> args[i]]
      /\ \A i \in DOMAIN NameTexts(names) : args[i] = MeantFor(NameTexts(names)[i])
  BY <1>2, <1>3, Zenon
<1>5. FlattenSeq(args) = <<>>
  <2>1. args = [i \in 1 .. Len(names) |-> <<>>]
    BY <1>1, <1>3
  <2> HIDE DEF args
  <2> QED BY <1>1, <2>1, FlattenEmpties
<1> HIDE DEF args
<1>6. /\ Join(NameTexts(names), Comma) \in Texts
      /\ MeantFor(Join(NameTexts(names), Comma)) = FlattenSeq(args)
  BY <1>3, <1>4, Separators, MeantJoin DEF Separates
<1> QED BY <1>5, <1>6

\* and texts with words around them are matched.
LEMMA MeantAround ==
    ASSUME NEW s \in Texts, MeantFor(s) = <<>>, NEW t \in Texts
    PROVE  /\ s \o t \in Texts /\ MeantFor(s \o t) = MeantFor(t)
           /\ t \o s \in Texts /\ MeantFor(t \o s) = MeantFor(t)
<1>1. s \o t \in Texts /\ MeantFor(s \o t) = MeantFor(t)
  BY MeantBehind
<1>2. t \o s \in Texts /\ MeantFor(t \o s) = MeantFor(t) \o MeantFor(s)
  BY MeantTwo
<1>3. MeantFor(t) \o <<>> = MeantFor(t)
  BY MeantType, JoinNothing
<1> QED BY <1>1, <1>2, <1>3, Zenon

LEMMA GoodNames ==
    ASSUME NEW words \in Seq(STRING), NEW names \in Seq(STRING)
    PROVE  Names(words, names) \in Good
<1> DEFINE kws == [i \in DOMAIN words |-> K(words[i])]
           list == Join(NameTexts(names), Comma)
<1>1. kws \in Texts /\ MeantFor(kws) = <<>>
  BY PlainWords, MeantPlain
<1>2. list \in Texts /\ MeantFor(list) = <<>>
  BY PlainNames
<1> HIDE DEF kws, list
<1>3. kws \o list \in Texts /\ MeantFor(kws \o list) = <<>>
  BY <1>1, <1>2, MeantAround
<1>4. Sql(kws \o list, <<>>) \in Good
  BY <1>3, GoodSql
<1>5. names # <<>> => Names(words, names) = Sql(kws \o list, <<>>)
  BY Zenon DEF Names, kws, list, NameTexts, Comma
<1>6. names = <<>> => Names(words, names) = Nothing
  BY DEF Names
<1> QED BY <1>4, <1>5, <1>6, GoodNothing

LEMMA GoodNumber ==
    ASSUME NEW word \in STRING, NEW n \in STRING
    PROVE  Number(word, n) \in Good
<1>1. K(word) \in Tokens /\ Mark(K(word)) = <<>> /\ N(n) \in Tokens /\ Mark(N(n)) = <<>>
  BY TokenTypes, Zenon
<1>3. Plain(<<K(word), N(n)>>)
  BY <1>1, PlainPair
<1> QED BY <1>3, GoodPlain, GoodNothing DEF Number

LEMMA MeantParens ==
    ASSUME NEW s \in Texts
    PROVE  Parens(s) \in Texts /\ MeantFor(Parens(s)) = MeantFor(s)
<1>1. Separates(<<K("(")>>) /\ Separates(<<K(")")>>)
  <2>1. "(" \in STRING /\ ")" \in STRING
    BY KeywordAssumption DEF Keywords
  <2> QED BY <2>1, Separators, Zenon
<1>2. <<K("(")>> \o s \in Texts /\ MeantFor(<<K("(")>> \o s) = MeantFor(s)
  BY <1>1, MeantAround DEF Separates
<1>3. (<<K("(")>> \o s) \o <<K(")")>> \in Texts
      /\ MeantFor((<<K("(")>> \o s) \o <<K(")")>>) = MeantFor(s)
  BY <1>1, <1>2, MeantAround DEF Separates
<1> QED BY <1>3, Zenon DEF Parens

-----------------------------------------------------------------------------
(* Conditions *)

\* A sequence of three.
LEMMA PairAndOne == ASSUME NEW S, NEW x \in S, NEW y \in S, NEW z \in S PROVE <<x, y>> \o <<z>> = <<x, y, z>>
<1>1. /\ <<x, y>> \in Seq(S) /\ Len(<<x, y>>) = 2
      /\ <<x, y>>[1] = x /\ <<x, y>>[2] = y
  OBVIOUS
<1>2. <<z>> \in Seq(S) /\ Len(<<z>>) = 1 /\ <<z>>[1] = z
  OBVIOUS
<1>3. /\ <<x, y, z>> \in Seq(S) /\ Len(<<x, y, z>>) = 3
      /\ <<x, y, z>>[1] = x /\ <<x, y, z>>[2] = y /\ <<x, y, z>>[3] = z
  OBVIOUS
<1>4. PICK a, b, c : a = <<x, y>> /\ b = <<z>> /\ c = <<x, y, z>>
  BY Zenon
<1>5. /\ a \in Seq(S) /\ b \in Seq(S) /\ c \in Seq(S) /\ Len(a) = 2 /\ Len(b) = 1 /\ Len(c) = 3
      /\ a[1] = x /\ a[2] = y /\ b[1] = z /\ c[1] = x /\ c[2] = y /\ c[3] = z
  BY <1>1, <1>2, <1>3, <1>4, Zenon
<1>6. a \o b \in Seq(S) /\ Len(a \o b) = 3 /\ \A i \in 1 .. 3 : (a \o b)[i] = c[i]
  <2>1. /\ a \o b \in Seq(S) /\ Len(a \o b) = 2 + 1
        /\ \A i \in 1 .. 2 : (a \o b)[i] = a[i]
        /\ \A i \in 1 .. 1 : (a \o b)[2 + i] = b[i]
    BY <1>5, JoinedAt, SMTT(40)
  <2>2. (a \o b)[1] = x /\ (a \o b)[2] = y
    BY <1>5, <2>1
  <2>3. (a \o b)[3] = z
    BY <1>5, <2>1
  <2>4. \A i \in 1 .. 3 : i = 1 \/ i = 2 \/ i = 3
    OBVIOUS
  <2> QED BY <1>5, <2>1, <2>2, <2>3, <2>4
<1>7. a \o b = c
  BY <1>5, <1>6, SeqEqual
<1> QED BY <1>4, <1>7, Zenon

\* A column, an operator and a placeholder are meant for its argument.
LEMMA MarkedTriple ==
    ASSUME NEW x \in Tokens, NEW y \in Tokens, NEW z \in Tokens, Mark(x) = <<>>, Mark(y) = <<>>
    PROVE  <<x, y, z>> \in Texts /\ MeantFor(<<x, y, z>>) = Mark(z)
<1>1. <<x, y>> \in Texts /\ MeantFor(<<x, y>>) = <<>>
  BY PlainPair, MeantPlain
<1>2. <<z>> \in Texts /\ MeantFor(<<z>>) = Mark(z)
  BY MeantOne DEF Texts
<1>3. <<x, y>> \o <<z>> = <<x, y, z>>
  BY PairAndOne
<1>4. <<x, y>> \o <<z>> \in Texts /\ MeantFor(<<x, y>> \o <<z>>) = MeantFor(<<z>>)
  BY <1>1, <1>2, MeantAround
<1> QED BY <1>2, <1>3, <1>4, Zenon

\* What a map's keys are compared to.
LEMMA ComparandKinds ==
    ASSUME NEW val \in Comparands
    PROVE  /\ val.k = "val" => val.v \in Nat
           /\ val.k = "list" => val.vs \in Seq(Nat)
           /\ val.k \in {"val", "list", "null", "badValuer"}
BY DEF Comparands, Vals

\* A keyword is a token without argument.
LEMMA KeywordTokens ==
    ASSUME NEW w \in Keywords
    PROVE  w \in STRING /\ K(w) \in Tokens /\ Mark(K(w)) = <<>>
<1>1. w \in STRING
  BY KeywordAssumption
<1> QED BY <1>1, TokenTypes, Zenon

\* What each condition writes is matched: an entry of an Eq, a literal, an Eq,
LEMMA GoodEqEntry ==
    ASSUME NEW entry \in STRING \X Comparands, NEW not \in BOOLEAN
    PROVE  EqEntry(entry, not) \in Good
<1> DEFINE key == entry[1]
           val == entry[2]
           is == IF not THEN "IS NOT" ELSE "IS"
           eq == IF not THEN "<>" ELSE "="
<1>1. key \in STRING /\ val \in Comparands
  OBVIOUS
<1>2. is \in Keywords /\ eq \in Keywords /\ "NULL" \in Keywords
  BY DEF Keywords
<1> HIDE DEF key, val, is, eq
<1>3. /\ K(is) \in Tokens /\ Mark(K(is)) = <<>> /\ K(eq) \in Tokens /\ Mark(K(eq)) = <<>>
      /\ K("NULL") \in Tokens /\ Mark(K("NULL")) = <<>>
  BY <1>2, KeywordTokens
<1>4. N(key) \in Tokens /\ Mark(N(key)) = <<>>
  BY <1>1, TokenTypes, Zenon
<1>5. Sql(<<N(key), K(is), K("NULL")>>, <<>>) \in Good
  BY <1>3, <1>4, MarkedTriple, GoodSql
<1>6. ASSUME val.k = "val" PROVE Sql(<<N(key), K(eq), P(val.v)>>, <<val.v>>) \in Good
  <2>1. val.v \in Nat
    BY <1>1, <1>6, ComparandKinds
  <2>2. P(val.v) \in Tokens /\ Mark(P(val.v)) = <<val.v>>
    BY <2>1, TokenTypes, Zenon
  <2>3. <<N(key), K(eq), P(val.v)>> \in Texts /\ MeantFor(<<N(key), K(eq), P(val.v)>>) = <<val.v>>
    BY <1>3, <1>4, <2>2, MarkedTriple
  <2> QED BY <2>3, GoodSql
<1>7. CASE val.k = "null"
  <2>1. EqEntry(entry, not) = Sql(<<N(key), K(is), K("NULL")>>, <<>>)
    BY <1>7 DEF EqEntry, key, val, is
  <2> QED BY <1>5, <2>1
<1>8. CASE val.k = "val"
  <2>1. EqEntry(entry, not) = Sql(<<N(key), K(eq), P(val.v)>>, <<val.v>>)
    BY <1>8 DEF EqEntry, key, val, eq
  <2> QED BY <1>6, <1>8, <2>1
<1>9. CASE val.k # "null" /\ val.k # "val"
  <2>1. EqEntry(entry, not) = Failure
    BY <1>9 DEF EqEntry, val
  <2> QED BY <2>1, GoodFailure
<1> QED BY <1>7, <1>8, <1>9

LEMMA GoodLiteral == Sql(<<sqlTrue>>, <<>>) \in Good /\ Sql(<<sqlFalse>>, <<>>) \in Good
<1>1. K("(1=1)") \in Tokens /\ Mark(K("(1=1)")) = <<>> /\ K("(1=0)") \in Tokens /\ Mark(K("(1=0)")) = <<>>
  BY KeywordTokens DEF Keywords
<1> QED BY <1>1, PlainOne, GoodPlain DEF sqlTrue, sqlFalse

LEMMA GoodEq ==
    ASSUME NEW map \in Entries, NEW not \in BOOLEAN
    PROVE  EqSql(map, not) \in Good
<1> DEFINE entries == [i \in DOMAIN map |-> EqEntry(map[i], not)]
<1>1. DOMAIN map = 1 .. Len(map) /\ Len(map) \in Nat /\ \A i \in DOMAIN map : map[i] \in STRING \X Comparands
  BY DEF Entries
<1>2. entries \in Seq(Good) /\ DOMAIN entries = DOMAIN map
  <2>1. \A i \in DOMAIN map : EqEntry(map[i], not) \in Good
    BY <1>1, GoodEqEntry
  <2> QED BY <1>1, <2>1
<1>3. CASE map = <<>>
  BY <1>3, GoodLiteral DEF EqSql
<1>4. CASE map # <<>> /\ \E i \in DOMAIN entries : entries[i].err
  <2>1. EqSql(map, not) = Failure
    BY <1>4, Zenon DEF EqSql
  <2> QED BY <2>1, GoodFailure
<1>5. CASE map # <<>> /\ ~\E i \in DOMAIN entries : entries[i].err
  <2>1. EqSql(map, not) = Sql(Join([i \in DOMAIN map |-> entries[i].sql], And), Concat(entries).args)
    BY <1>5, Zenon DEF EqSql
  <2> HIDE DEF entries
  <2>2. [i \in DOMAIN map |-> entries[i].sql] = SqlsOf(entries)
    BY <1>2, Zenon DEF SqlsOf
  <2>3. Sql(Join(SqlsOf(entries), And), Concat(entries).args) \in Good
    BY <1>2, <1>5, Separators, GoodJoin DEF Separates
  <2> QED BY <2>1, <2>2, <2>3, Zenon
<1> QED BY <1>3, <1>4, <1>5

\* a comparison,
LEMMA GoodCmp ==
    ASSUME NEW map \in Entries, NEW op \in STRING
    PROVE  CmpSql(map, op) \in Good
<1>1. CASE \E i \in DOMAIN map : map[i][2].k # "val"
  BY <1>1, GoodFailure DEF CmpSql
<1>2. CASE ~\E i \in DOMAIN map : map[i][2].k # "val"
  <2> DEFINE name(i) == map[i][1]
             v(i) == map[i][2].v
             text(i) == <<N(name(i)), K(op), P(v(i))>>
             vs == [i \in DOMAIN map |-> v(i)]
             texts == [i \in DOMAIN map |-> text(i)]
             args == [i \in DOMAIN map |-> <<v(i)>>]
  <2>1. CmpSql(map, op) = Sql(Join(texts, And), vs)
    BY <1>2, Zenon DEF CmpSql
  <2>2. /\ DOMAIN map = 1 .. Len(map) /\ Len(map) \in Nat
        /\ \A i \in DOMAIN map : name(i) \in STRING /\ v(i) \in Nat
    <3>1. DOMAIN map = 1 .. Len(map) /\ Len(map) \in Nat
          /\ \A i \in DOMAIN map : map[i] \in STRING \X Comparands
      BY DEF Entries
    <3>2. \A i \in DOMAIN map : map[i][1] \in STRING /\ map[i][2] \in Comparands
      BY <3>1
    <3> QED BY <1>2, <3>1, <3>2, ComparandKinds
  <2> HIDE DEF name, v
  <2>3. \A i \in DOMAIN map : text(i) \in Texts /\ MeantFor(text(i)) = <<v(i)>>
    <3> SUFFICES ASSUME NEW i \in DOMAIN map PROVE text(i) \in Texts /\ MeantFor(text(i)) = <<v(i)>>
      OBVIOUS
    <3>1. /\ N(name(i)) \in Tokens /\ Mark(N(name(i))) = <<>>
          /\ K(op) \in Tokens /\ Mark(K(op)) = <<>>
          /\ P(v(i)) \in Tokens /\ Mark(P(v(i))) = <<v(i)>>
      BY <2>2, TokenTypes, Zenon
    <3> QED BY <3>1, MarkedTriple
  <2> HIDE DEF text
  <2>4. texts \in Seq(Texts) /\ DOMAIN texts = DOMAIN map
    BY <2>2, <2>3
  <2>5. args = [i \in DOMAIN texts |-> args[i]] /\ \A i \in DOMAIN texts : args[i] = MeantFor(texts[i])
    BY <2>3, <2>4, Zenon
  <2>6. vs \in Seq(Nat) /\ FlattenSeq(args) = vs
    <3>1. vs \in Seq(Nat) /\ Len(vs) = Len(map)
      BY <2>2
    <3>2. args = [i \in 1 .. Len(vs) |-> <<vs[i]>>]
      BY <2>2, <3>1
    <3> HIDE DEF vs, args
    <3> QED BY <3>1, <3>2, FlattenSingles
  <2> HIDE DEF vs, texts, args
  <2>7. Join(texts, And) \in Texts /\ MeantFor(Join(texts, And)) = FlattenSeq(args)
    BY <2>4, <2>5, Separators, MeantJoin DEF Separates
  <2> QED BY <2>1, <2>6, <2>7, GoodSql
<1> QED BY <1>1, <1>2

\* an IN over a list of values,
LEMMA MeantPlaceholders ==
    ASSUME NEW vs \in Seq(Nat)
    PROVE  Placeholders(vs) \in Texts /\ MeantFor(Placeholders(vs)) = vs
<1> DEFINE texts == [i \in DOMAIN vs |-> <<P(vs[i])>>]
           args == [i \in DOMAIN vs |-> <<vs[i]>>]
<1>1. DOMAIN vs = 1 .. Len(vs) /\ Len(vs) \in Nat /\ \A i \in DOMAIN vs : vs[i] \in Nat
  OBVIOUS
<1>2. \A i \in DOMAIN vs : P(vs[i]) \in Tokens /\ Mark(P(vs[i])) = <<vs[i]>>
  BY <1>1, TokenTypes, Zenon
<1>3. \A i \in DOMAIN vs : <<P(vs[i])>> \in Texts /\ MeantFor(<<P(vs[i])>>) = <<vs[i]>>
  BY <1>2, MeantOne DEF Texts
<1>4. texts \in Seq(Texts) /\ DOMAIN texts = DOMAIN vs
  BY <1>1, <1>3
<1>5. args = [i \in DOMAIN texts |-> args[i]] /\ \A i \in DOMAIN texts : args[i] = MeantFor(texts[i])
  BY <1>3, <1>4, Zenon
<1>6. FlattenSeq(args) = vs
  <2>1. args = [i \in 1 .. Len(vs) |-> <<vs[i]>>]
    BY <1>1
  <2> HIDE DEF args
  <2> QED BY <2>1, FlattenSingles
<1>7. Placeholders(vs) = Join(texts, Comma)
  BY Zenon DEF Placeholders
<1> HIDE DEF texts, args
<1>8. Join(texts, Comma) \in Texts /\ MeantFor(Join(texts, Comma)) = FlattenSeq(args)
  BY <1>4, <1>5, Separators, MeantJoin DEF Separates
<1> QED BY <1>6, <1>7, <1>8

LEMMA GoodIn ==
    ASSUME NEW col \in STRING, NEW val \in Comparands, NEW not \in BOOLEAN
    PROVE  InSql(col, val, not) \in Good
<1> DEFINE in == IF not THEN "NOT IN" ELSE "IN"
           written(vs) == Sql(<<N(col), K(in)>> \o Parens(Placeholders(vs)), vs)
<1>1. ASSUME NEW vs \in Seq(Nat) PROVE written(vs) \in Good
  <2>1. in \in Keywords
    BY DEF Keywords
  <2> HIDE DEF in
  <2>2. K(in) \in Tokens /\ Mark(K(in)) = <<>>
    BY <2>1, KeywordTokens
  <2>3. N(col) \in Tokens /\ Mark(N(col)) = <<>>
    BY TokenTypes, Zenon
  <2>4. <<N(col), K(in)>> \in Texts /\ MeantFor(<<N(col), K(in)>>) = <<>>
    BY <2>2, <2>3, PlainPair, MeantPlain
  <2>5. Parens(Placeholders(vs)) \in Texts /\ MeantFor(Parens(Placeholders(vs))) = vs
    BY MeantPlaceholders, MeantParens
  <2>6. /\ <<N(col), K(in)>> \o Parens(Placeholders(vs)) \in Texts
        /\ MeantFor(<<N(col), K(in)>> \o Parens(Placeholders(vs))) = MeantFor(Parens(Placeholders(vs)))
    BY <2>4, <2>5, MeantAround
  <2>7. MeantFor(<<N(col), K(in)>> \o Parens(Placeholders(vs))) = vs
    BY <2>5, <2>6, Zenon
  <2> QED BY <2>6, <2>7, GoodSql
<1>2. val.k = "val" => val.v \in Nat /\ <<val.v>> \in Seq(Nat)
  BY ComparandKinds
<1>3. val.k = "list" => val.vs \in Seq(Nat)
  BY ComparandKinds
<1>4. \/ InSql(col, val, not) \in {Sql(<<sqlTrue>>, <<>>), Sql(<<sqlFalse>>, <<>>), Failure}
      \/ val.k = "list" /\ InSql(col, val, not) = written(val.vs)
      \/ val.k = "val" /\ InSql(col, val, not) = written(<<val.v>>)
  <2>1. CASE val.k = "list" /\ val.vs = <<>>
    BY <2>1, Zenon DEF InSql
  <2>2. CASE val.k = "list" /\ val.vs # <<>>
    BY <2>2 DEF InSql
  <2>3. CASE val.k = "val"
    BY <2>3 DEF InSql
  <2>4. CASE val.k # "list" /\ val.k # "val"
    BY <2>4 DEF InSql
  <2> QED BY <2>1, <2>2, <2>3, <2>4
<1> HIDE DEF written
<1> QED BY <1>1, <1>2, <1>3, <1>4, GoodLiteral, GoodFailure

\* And and Or.
NoErr == {r \in Good : ~r.err}

\* and an And or Or of matched parts.
LEMMA NonEmptyGood ==
    ASSUME NEW results \in Seq(Good), \A i \in DOMAIN results : ~results[i].err
    PROVE  NonEmpty(results) \in Seq(NoErr)
<1> DEFINE kept == [i \in DOMAIN results |-> IF results[i].sql = <<>> THEN <<>> ELSE <<results[i]>>]
<1>1. DOMAIN results = 1 .. Len(results) /\ Len(results) \in Nat
      /\ \A i \in DOMAIN results : results[i] \in NoErr
  BY DEF NoErr
<1>2. \A i \in DOMAIN results : <<results[i]>> \in Seq(NoErr)
  BY <1>1
<1>3. <<>> \in Seq(NoErr)
  OBVIOUS
<1>4. kept \in Seq(Seq(NoErr))
  BY <1>1, <1>2, <1>3
<1> HIDE DEF kept
<1>5. FlattenSeq(kept) \in Seq(NoErr)
  BY <1>4, FlattenType
<1> QED BY <1>5, Zenon DEF NonEmpty, kept

LEMMA GoodConj ==
    ASSUME NEW results \in Seq(Good), NEW op \in {"AND", "OR"}
    PROVE  ConjSql(results, op) \in Good
<1> DEFINE written == NonEmpty(results)
<1>1. CASE results = <<>>
  <2>1. ConjSql(results, op) = Sql(<<IF op = "AND" THEN sqlTrue ELSE sqlFalse>>, <<>>)
    BY <1>1 DEF ConjSql
  <2>2. op = "AND" \/ op # "AND"
    OBVIOUS
  <2>3. ConjSql(results, op) \in {Sql(<<sqlTrue>>, <<>>), Sql(<<sqlFalse>>, <<>>)}
    BY <2>1, <2>2, Zenon
  <2> QED BY <2>3, GoodLiteral
<1>2. CASE results # <<>> /\ \E i \in DOMAIN results : results[i].err
  <2>1. ConjSql(results, op) = Failure
    BY <1>2 DEF ConjSql
  <2> QED BY <2>1, GoodFailure
<1>3. CASE results # <<>> /\ ~(\E i \in DOMAIN results : results[i].err) /\ written = <<>>
  BY <1>3, GoodNothing DEF ConjSql
<1>4. CASE results # <<>> /\ ~(\E i \in DOMAIN results : results[i].err) /\ written # <<>>
  <2>1. ConjSql(results, op)
          = Sql(Parens(Join([i \in DOMAIN written |-> written[i].sql], <<K(op)>>)), Concat(written).args)
    BY <1>4 DEF ConjSql
  <2>2. written \in Seq(NoErr)
    BY <1>4, NonEmptyGood
  <2> HIDE DEF written
  <2>3. written \in Seq(Good) /\ \A i \in DOMAIN written : ~written[i].err
    BY <2>2 DEF NoErr
  <2>4. Separates(<<K(op)>>)
    <3>1. op \in STRING
      BY KeywordAssumption DEF Keywords
    <3> QED BY <3>1, Separators, Zenon
  <2>5. /\ Join(SqlsOf(written), <<K(op)>>) \in Texts
        /\ Concat(written).args = MeantFor(Join(SqlsOf(written), <<K(op)>>))
    BY <2>3, <2>4, GoodJoin DEF Separates
  <2>6. /\ Parens(Join(SqlsOf(written), <<K(op)>>)) \in Texts
        /\ MeantFor(Parens(Join(SqlsOf(written), <<K(op)>>))) = MeantFor(Join(SqlsOf(written), <<K(op)>>))
    BY <2>5, MeantParens
  <2>7. ConjSql(results, op) = Sql(Parens(Join(SqlsOf(written), <<K(op)>>)), Concat(written).args)
    BY <2>1, Zenon DEF SqlsOf
  <2>8. Concat(written).args = MeantFor(Parens(Join(SqlsOf(written), <<K(op)>>)))
    BY <2>5, <2>6, Zenon
  <2> QED BY <2>6, <2>7, <2>8, GoodSql
<1> QED BY <1>1, <1>2, <1>3, <1>4

-----------------------------------------------------------------------------
(* Expr *)

\* The number of placeholders among the first j tokens.
Nth(tokens, j) == Cardinality({i \in 1 .. j : IsPlaceholder(tokens[i])})

\* Counting the placeholders from the left.
LEMMA NthCounts ==
    ASSUME NEW tokens
    PROVE  /\ Nth(tokens, 0) = 0
           /\ \A j \in Nat : /\ Nth(tokens, j) \in Nat
                             /\ Nth(tokens, j + 1)
                                  = IF IsPlaceholder(tokens[j + 1]) THEN Nth(tokens, j) + 1 ELSE Nth(tokens, j)
<1> DEFINE before(j) == {i \in 1 .. j : IsPlaceholder(tokens[i])}
<1>1. ASSUME NEW j \in Nat PROVE IsFiniteSet(before(j)) /\ Cardinality(before(j)) \in Nat
  <2>1. IsFiniteSet(1 .. j)
    BY FS_Interval
  <2>2. before(j) \subseteq 1 .. j
    OBVIOUS
  <2>3. IsFiniteSet(before(j))
    BY <2>1, <2>2, FS_Subset
  <2> QED BY <2>3, FS_CardinalityType
<1>2. before(0) = {}
  OBVIOUS
<1>3. ASSUME NEW j \in Nat, IsPlaceholder(tokens[j + 1])
      PROVE  Cardinality(before(j + 1)) = Cardinality(before(j)) + 1
  <2>1. before(j + 1) = before(j) \cup {j + 1} /\ j + 1 \notin before(j)
    BY <1>3
  <2> HIDE DEF before
  <2> QED BY <1>1, <2>1, FS_AddElement
<1>4. ASSUME NEW j \in Nat, ~IsPlaceholder(tokens[j + 1])
      PROVE  before(j + 1) = before(j)
  BY <1>4
<1>5. Cardinality(before(0)) = 0
  BY <1>2, FS_EmptySet
<1> QED BY <1>1, <1>3, <1>4, <1>5, Zenon DEF Nth

\* The j-th token's mark is where Nth says.
LEMMA NthMark ==
    ASSUME NEW tokens \in Texts
    PROVE  /\ Nth(tokens, Len(tokens)) = Len(MeantFor(tokens))
           /\ \A j \in DOMAIN tokens : IsPlaceholder(tokens[j]) =>
                /\ Nth(tokens, j) \in 1 .. Len(MeantFor(tokens))
                /\ MeantFor(tokens)[Nth(tokens, j)] = tokens[j][2]
<1>0. PICK n \in Nat : n = Len(tokens) /\ DOMAIN tokens = 1 .. n
  BY DEF Texts
<1>1. Marks(tokens) \in Seq(Seq(Nat)) /\ Len(Marks(tokens)) = n
      /\ \A j \in 0 .. n - 1 : Marks(tokens)[j + 1] = Mark(tokens[j + 1]) /\ tokens[j + 1] \in Tokens
  <2>1. \A j \in 0 .. n - 1 : j + 1 \in DOMAIN tokens /\ tokens[j + 1] \in Tokens
    BY <1>0 DEF Texts
  <2> QED BY <1>0, <2>1, MarksType DEF Marks
<1>2. PICK f : Joins(f, Marks(tokens))
  BY <1>1, JoinsExist
<1>3. \A j \in 0 .. n : f[j] \in Seq(Nat)
  BY <1>1, <1>2, JoinsTyped
<1>4. f[0] = <<>> /\ \A j \in 0 .. n - 1 : f[j + 1] = f[j] \o Mark(tokens[j + 1])
  BY <1>1, <1>2, Zenon DEF Joins, Adds
<1>5. ASSUME NEW j \in 0 .. n - 1
      PROVE  /\ ~IsPlaceholder(tokens[j + 1]) => f[j + 1] = f[j]
             /\ IsPlaceholder(tokens[j + 1]) =>
                  /\ Len(f[j + 1]) = Len(f[j]) + 1
                  /\ f[j + 1][Len(f[j]) + 1] = tokens[j + 1][2]
                  /\ \A q \in 1 .. Len(f[j]) : f[j + 1][q] = f[j][q]
  <2>0. PICK u \in Seq(Nat) : u = f[j]
    BY <1>3
  <2>1. ASSUME ~IsPlaceholder(tokens[j + 1]) PROVE f[j + 1] = f[j]
    <3>1. Mark(tokens[j + 1]) = <<>>
      BY <2>1 DEF Mark
    <3>2. u \o <<>> = u
      BY JoinNothing
    <3> QED BY <1>4, <2>0, <3>1, <3>2, Zenon
  <2>2. ASSUME IsPlaceholder(tokens[j + 1])
        PROVE  /\ Len(f[j + 1]) = Len(u) + 1
               /\ f[j + 1][Len(u) + 1] = tokens[j + 1][2]
               /\ \A q \in 1 .. Len(u) : f[j + 1][q] = u[q]
    <3>1. Mark(tokens[j + 1]) = <<tokens[j + 1][2]>> /\ Mark(tokens[j + 1]) \in Seq(Nat)
      BY <1>1, <2>2, MarkType DEF Mark
    <3>2. PICK w \in Seq(Nat) : w = Mark(tokens[j + 1])
      BY <3>1
    <3>5. \A y : Len(<<y>>) = 1 /\ <<y>>[1] = y
      OBVIOUS
    <3>6. Len(w) = 1 /\ w[1] = tokens[j + 1][2]
      BY <3>1, <3>2, <3>5, Zenon
    <3>7. /\ Len(u \o w) = Len(u) + Len(w)
          /\ \A q \in 1 .. Len(u) : (u \o w)[q] = u[q]
          /\ \A q \in 1 .. Len(w) : (u \o w)[Len(u) + q] = w[q]
      BY JoinedAt
    <3>3. /\ Len(u \o w) = Len(u) + 1 /\ (u \o w)[Len(u) + 1] = w[1]
          /\ \A q \in 1 .. Len(u) : (u \o w)[q] = u[q]
      BY <3>6, <3>7
    <3>4. f[j + 1] = u \o w
      BY <1>4, <2>0, <3>2, Zenon
    <3> QED BY <3>3, <3>4, <3>6, Zenon
  <2> QED BY <2>0, <2>1, <2>2
<1> DEFINE Counted(j) ==
             /\ Len(f[j]) = Nth(tokens, j)
             /\ \A i \in 1 .. j : IsPlaceholder(tokens[i]) =>
                  /\ Nth(tokens, i) \in 1 .. Len(f[j])
                  /\ f[j][Nth(tokens, i)] = tokens[i][2]
           G == {j \in Nat : Counted(j)}
<1>6. 0 \in G
  <2>1. Len(f[0]) = 0 /\ Nth(tokens, 0) = 0
    BY <1>4, NthCounts
  <2> QED BY <2>1
<1>7. ASSUME NEW j \in 0 .. n - 1, j \in G PROVE j + 1 \in G
  <2>1. Counted(j)
    BY <1>7
  <2>2. /\ Nth(tokens, j) \in Nat
        /\ Nth(tokens, j + 1)
             = IF IsPlaceholder(tokens[j + 1]) THEN Nth(tokens, j) + 1 ELSE Nth(tokens, j)
    BY NthCounts
  <2>3. Len(f[j]) \in Nat
    BY <1>3
  <2>4. \A i \in 1 .. j + 1 : i \in 1 .. j \/ i = j + 1
    OBVIOUS
  <2>5. CASE IsPlaceholder(tokens[j + 1])
    <3>1. /\ Len(f[j + 1]) = Len(f[j]) + 1
          /\ f[j + 1][Len(f[j]) + 1] = tokens[j + 1][2]
          /\ \A q \in 1 .. Len(f[j]) : f[j + 1][q] = f[j][q]
      BY <1>5, <2>5
    <3>2. Len(f[j + 1]) = Nth(tokens, j + 1)
      BY <2>1, <2>2, <2>5, <3>1
    <3>3. ASSUME NEW i \in 1 .. j, IsPlaceholder(tokens[i])
          PROVE  /\ Nth(tokens, i) \in 1 .. Len(f[j + 1])
                 /\ f[j + 1][Nth(tokens, i)] = tokens[i][2]
      <4>1. Nth(tokens, i) \in 1 .. Len(f[j]) /\ f[j][Nth(tokens, i)] = tokens[i][2]
        BY <2>1, <3>3
      <4> QED BY <2>3, <3>1, <4>1
    <3>4. /\ Nth(tokens, j + 1) \in 1 .. Len(f[j + 1])
          /\ f[j + 1][Nth(tokens, j + 1)] = tokens[j + 1][2]
      BY <2>1, <2>2, <2>3, <2>5, <3>1
    <3>5. Counted(j + 1)
      BY <2>4, <3>2, <3>3, <3>4
    <3> QED BY <3>5
  <2>6. CASE ~IsPlaceholder(tokens[j + 1])
    <3>1. f[j + 1] = f[j] /\ Nth(tokens, j + 1) = Nth(tokens, j)
      BY <1>5, <2>2, <2>6
    <3>2. Counted(j + 1)
      BY <2>1, <2>4, <2>6, <3>1
    <3> QED BY <3>2
  <2> QED BY <2>5, <2>6
<1>8. \A j \in 0 .. n : j \in G
  <2> HIDE DEF G
  <2> QED BY <1>6, <1>7, UptoInduction
<1>9. Counted(n)
  BY <1>8
<1>10. MeantFor(tokens) = f[n]
  BY <1>1, <1>2, FlattenJoins, MeantMarks
<1> QED BY <1>0, <1>9, <1>10

\* Expr: a Sqlizer's text takes the place of its placeholder, its arguments the
\* place of its mark.
LEMMA GoodExpr ==
    ASSUME NEW tokens \in Texts, NEW given, Fits(tokens, given),
           NEW results \in Seq(Good), DOMAIN results = DOMAIN given, Len(results) = Len(given),
           \A i \in DOMAIN given : ~IsSqlizer(given[i]) => results[i].args = <<given[i].v>>
    PROVE  ExprSql(tokens, given, results) \in Good
<1> DEFINE nested == {i \in DOMAIN given : IsSqlizer(given[i])}
           marks == MeantFor(tokens)
           takes(j) == IsPlaceholder(tokens[j]) /\ Nth(tokens, j) \in nested
           piece(j) == IF takes(j) THEN results[Nth(tokens, j)].sql ELSE <<tokens[j]>>
           pieces == [j \in DOMAIN tokens |-> piece(j)]
<1>1. CASE \E i \in nested : results[i].err
  BY <1>1, GoodFailure DEF ExprSql
<1>2. CASE ~\E i \in nested : results[i].err
  <2>1. ExprSql(tokens, given, results) = Sql(FlattenSeq(pieces), FlattenSeq([i \in DOMAIN given |-> results[i].args]))
    BY <1>2, Zenon DEF ExprSql, Nth
  <2>2. [i \in DOMAIN given |-> results[i].args] = ArgsOf(results)
    BY Zenon DEF ArgsOf
  <2>3. PICK n \in Nat : n = Len(tokens) /\ DOMAIN tokens = 1 .. n /\ \A j \in 1 .. n : tokens[j] \in Tokens
    BY DEF Texts
  <2>21. PICK m \in Nat : m = Len(results)
    <3>1. Len(results) \in Nat
      OBVIOUS
    <3> QED BY <3>1, Zenon
  <2>4. /\ m = Len(results) /\ DOMAIN results = 1 .. m /\ DOMAIN given = 1 .. m
        /\ \A i \in 1 .. m : results[i] \in Good
    <3>1. DOMAIN results = 1 .. Len(results) /\ \A i \in 1 .. Len(results) : results[i] \in Good
      OBVIOUS
    <3> QED BY <2>21, <3>1, Zenon
  <2>5. /\ marks \in Seq(Nat) /\ Len(marks) = m
        /\ \A i \in 1 .. m : i \in nested \/ given[i] = Val(marks[i])
    BY <2>4, MeantType DEF Fits
  <2>6. /\ Nth(tokens, n) = m
        /\ \A j \in 1 .. n : IsPlaceholder(tokens[j]) =>
             Nth(tokens, j) \in 1 .. m /\ marks[Nth(tokens, j)] = tokens[j][2]
    BY <2>3, <2>5, NthMark
  <2>7. ASSUME NEW i \in 1 .. m
        PROVE  /\ results[i].sql \in Texts /\ MeantFor(results[i].sql) = results[i].args
               /\ results[i].args \in Seq(Nat)
               /\ i \notin nested => results[i].args = <<marks[i]>>
    <3>1. results[i] \in Good
      BY <2>4
    <3>2. ASSUME i \notin nested PROVE results[i].args = <<given[i].v>> /\ given[i].v = marks[i]
      <4>1. i \in DOMAIN given /\ ~IsSqlizer(given[i])
        BY <2>4, <3>2, Zenon
      <4>2. given[i] = Val(marks[i])
        BY <2>5, <3>2, Zenon
      <4>3. Val(marks[i]).v = marks[i]
        BY DEF Val
      <4> QED BY <4>1, <4>2, <4>3, Zenon
    <3> QED BY <3>1, <3>2, GoodIs
  <2> HIDE DEF nested, marks
  <2>8. ASSUME NEW j \in 1 .. n
        PROVE  /\ piece(j) \in Texts
               /\ ~IsPlaceholder(tokens[j]) => MeantFor(piece(j)) = <<>>
               /\ IsPlaceholder(tokens[j]) => MeantFor(piece(j)) = results[Nth(tokens, j)].args
    <3>1. tokens[j] \in Tokens /\ <<tokens[j]>> \in Texts /\ MeantFor(<<tokens[j]>>) = Mark(tokens[j])
      BY <2>3, MeantOne DEF Texts
    <3>2. CASE ~IsPlaceholder(tokens[j])
      <4>1. piece(j) = <<tokens[j]>> /\ Mark(tokens[j]) = <<>>
        BY <3>2 DEF Mark
      <4> HIDE DEF piece
      <4> QED BY <3>1, <3>2, <4>1
    <3>3. CASE IsPlaceholder(tokens[j]) /\ Nth(tokens, j) \in nested
      <4>1. piece(j) = results[Nth(tokens, j)].sql
        BY <3>3
      <4> HIDE DEF piece
      <4> QED BY <2>6, <2>7, <3>3, <4>1
    <3>4. CASE IsPlaceholder(tokens[j]) /\ Nth(tokens, j) \notin nested
      <4>1. piece(j) = <<tokens[j]>> /\ Mark(tokens[j]) = <<tokens[j][2]>>
        BY <3>4 DEF Mark
      <4>2. results[Nth(tokens, j)].args = <<tokens[j][2]>>
        BY <2>6, <2>7, <3>4
      <4> HIDE DEF piece
      <4> QED BY <3>1, <3>4, <4>1, <4>2
    <3> QED BY <3>2, <3>3, <3>4
  <2> HIDE DEF piece
  <2>9. pieces \in Seq(Texts) /\ DOMAIN pieces = 1 .. n /\ \A j \in 1 .. n : pieces[j] = piece(j)
    BY <2>3, <2>8
  <2> HIDE DEF pieces
  <2> DEFINE meant == [j \in DOMAIN pieces |-> MeantFor(pieces[j])]
  <2>10. FlattenSeq(pieces) \in Texts /\ MeantFor(FlattenSeq(pieces)) = FlattenSeq(meant)
    BY <2>9, MeantFlatten
  <2>11. meant \in Seq(Seq(Nat)) /\ Len(meant) = n
         /\ \A j \in 0 .. n - 1 : meant[j + 1] = MeantFor(piece(j + 1))
    <3>1. \A j \in 1 .. n : MeantFor(piece(j)) \in Seq(Nat)
      BY <2>8, MeantType
    <3>2. \A j \in 1 .. n : meant[j] = MeantFor(piece(j))
      BY <2>9, Zenon
    <3>3. \A j \in 0 .. n - 1 : j + 1 \in 1 .. n
      OBVIOUS
    <3>4. DOMAIN meant = 1 .. n /\ meant = [j \in 1 .. n |-> meant[j]]
      BY <2>9, Zenon
    <3> HIDE DEF meant
    <3>5. \A j \in 1 .. n : meant[j] \in Seq(Nat)
      BY <3>1, <3>2, Zenon
    <3>6. meant \in Seq(Seq(Nat)) /\ Len(meant) = n
      BY <3>4, <3>5
    <3>7. \A j \in 0 .. n - 1 : meant[j + 1] = MeantFor(piece(j + 1))
      BY <3>2, <3>3, Zenon
    <3> QED BY <3>6, <3>7
  <2> HIDE DEF meant
  <2>12. ArgsOf(results) \in Seq(Seq(Nat)) /\ Len(ArgsOf(results)) = m
         /\ \A i \in 1 .. m : ArgsOf(results)[i] = results[i].args
    BY <2>4, <2>7 DEF ArgsOf
  <2>13. PICK g : Joins(g, meant)
    BY <2>11, JoinsExist
  <2>14. PICK a : Joins(a, ArgsOf(results))
    BY <2>12, JoinsExist
  <2> DEFINE G == {j \in Nat : g[j] = a[Nth(tokens, j)]}
  <2>15. 0 \in G
    <3>1. g[0] = <<>> /\ a[0] = <<>> /\ Nth(tokens, 0) = 0
      BY <2>13, <2>14, NthCounts, Zenon DEF Joins
    <3> QED BY <3>1
  <2>16. ASSUME NEW j \in 0 .. n - 1, j \in G PROVE j + 1 \in G
    <3>0. j \in Nat /\ j + 1 \in Nat /\ j + 1 \in 1 .. n /\ j \in 0 .. Len(meant) - 1 /\ j \in 0 .. n
      BY <2>11
    <3>1. g[j + 1] = g[j] \o MeantFor(piece(j + 1)) /\ g[j] = a[Nth(tokens, j)]
      BY <2>11, <2>13, <2>16, <3>0, Zenon DEF Joins, Adds
    <3>2. PICK p \in Nat : p = Nth(tokens, j)
      BY <3>0, NthCounts
    <3>3. Nth(tokens, j + 1) = IF IsPlaceholder(tokens[j + 1]) THEN p + 1 ELSE p
      BY <3>0, <3>2, NthCounts
    <3>4. CASE IsPlaceholder(tokens[j + 1])
      <4>1. Nth(tokens, j + 1) = p + 1 /\ p + 1 \in 1 .. m
        BY <2>6, <3>0, <3>3, <3>4
      <4>2. p \in 0 .. Len(ArgsOf(results)) - 1 /\ ArgsOf(results)[p + 1] = results[p + 1].args
        BY <2>12, <4>1
      <4>3. a[p + 1] = a[p] \o results[p + 1].args
        BY <2>14, <4>2, Zenon DEF Joins, Adds
      <4>4. MeantFor(piece(j + 1)) = results[p + 1].args
        BY <2>8, <3>0, <3>4, <4>1
      <4>5. g[j + 1] = a[Nth(tokens, j + 1)]
        BY <3>1, <3>2, <4>1, <4>3, <4>4, Zenon
      <4> QED BY <3>0, <4>5
    <3>5. CASE ~IsPlaceholder(tokens[j + 1])
      <4>1. Nth(tokens, j + 1) = p /\ MeantFor(piece(j + 1)) = <<>>
        BY <2>8, <3>0, <3>3, <3>5
      <4>2. g[j] \in Seq(Nat)
        BY <2>11, <2>13, <3>0, JoinsTyped
      <4>3. g[j] \o <<>> = g[j]
        BY <4>2, JoinNothing
      <4>4. g[j + 1] = a[Nth(tokens, j + 1)]
        BY <3>1, <3>2, <4>1, <4>3, Zenon
      <4> QED BY <3>0, <4>4
    <3> QED BY <3>4, <3>5
  <2>17. n \in G
    <3> HIDE DEF G
    <3>1. \A j \in 0 .. n : j \in G
      BY <2>15, <2>16, UptoInduction
    <3> QED BY <3>1
  <2>18. g[n] = a[m]
    BY <2>6, <2>17
  <2>19. FlattenSeq(meant) = g[n] /\ FlattenSeq(ArgsOf(results)) = a[m]
    BY <2>11, <2>12, <2>13, <2>14, FlattenJoins
  <2>20. FlattenSeq(ArgsOf(results)) = MeantFor(FlattenSeq(pieces))
    BY <2>10, <2>18, <2>19, Zenon
  <2> QED BY <2>1, <2>2, <2>10, <2>20, GoodSql
<1> QED BY <1>1, <1>2

-----------------------------------------------------------------------------
(* Statements *)

\* A sequence of one.
LEMMA Single == ASSUME NEW S, NEW x \in S PROVE <<x>> \in Seq(S)
OBVIOUS

\* Words and names are matched.
LEMMA GoodKeyword == ASSUME NEW w \in Keywords PROVE Word(w) \in Good /\ <<w>> \in Seq(STRING)
<1>1. w \in STRING
  BY KeywordAssumption
<1>2. <<w>> \in Seq(STRING)
  BY <1>1, Single, Zenon
<1> QED BY <1>1, <1>2, GoodWord

LEMMA GoodWords ==
    ASSUME NEW words \in Seq(STRING)
    PROVE  Sql([i \in DOMAIN words |-> K(words[i])], <<>>) \in Good
BY PlainWords, GoodPlain

LEMMA GoodName == ASSUME NEW name \in STRING PROVE Sql(<<N(name)>>, <<>>) \in Good
<1>1. N(name) \in Tokens /\ Mark(N(name)) = <<>>
  BY TokenTypes, Zenon
<1> QED BY <1>1, PlainOne, GoodPlain

\* CASE
LEMMA GoodCase ==
    ASSUME NEW what \in Seq(Good), NEW whens \in Seq(Good \X Good), NEW els \in Seq(Good)
    PROVE  CaseSql(what, whens, els) \in Good
<1> DEFINE branch(i) == <<Word("WHEN"), whens[i][1], Word("THEN"), whens[i][2]>>
           branches == [i \in DOMAIN whens |-> branch(i)]
           else == IF els = <<>> THEN <<>> ELSE <<Word("ELSE")>> \o els
<1>1. /\ Word("CASE") \in Good /\ Word("WHEN") \in Good /\ Word("THEN") \in Good
      /\ Word("ELSE") \in Good /\ Word("END") \in Good
  BY GoodKeyword DEF Keywords
<1>2. DOMAIN whens = 1 .. Len(whens) /\ Len(whens) \in Nat
      /\ \A i \in DOMAIN whens : whens[i][1] \in Good /\ whens[i][2] \in Good
  OBVIOUS
<1>3. \A i \in DOMAIN whens : branch(i) \in Seq(Good)
  BY <1>1, <1>2
<1> HIDE DEF branch
<1>4. branches \in Seq(Seq(Good))
  BY <1>2, <1>3
<1>5. else \in Seq(Good)
  <2>1. <<Word("ELSE")>> \in Seq(Good)
    BY <1>1
  <2>2. <<Word("ELSE")>> \o els \in Seq(Good)
    BY <2>1
  <2> QED BY <2>2
<1>6. <<Word("CASE")>> \in Seq(Good) /\ <<Word("END")>> \in Seq(Good)
  BY <1>1
<1>7. FlattenSeq(branches) \in Seq(Good)
  BY <1>4, FlattenType
<1>8. CaseSql(what, whens, els)
        \in {Failure, Concat(<<Word("CASE")>> \o what \o FlattenSeq(branches) \o else \o <<Word("END")>>)}
  BY Zenon DEF CaseSql, branch
<1> HIDE DEF branches, else
<1>9. <<Word("CASE")>> \o what \o FlattenSeq(branches) \o else \o <<Word("END")>> \in Seq(Good)
  BY <1>5, <1>6, <1>7
<1> QED BY <1>8, <1>9, GoodConcat, GoodFailure

\* What a SELECT writes of matched parts is matched.
LEMMA GoodSelect ==
    ASSUME NEW s, s.options \in Seq(STRING), s.groupBys \in Seq(STRING),
           s.limit \in STRING, s.offset \in STRING,
           NEW prefixes \in Seq(Good), NEW columns \in Seq(Good), NEW from \in Seq(Good),
           NEW joins \in Seq(Good), NEW where \in Seq(Good), NEW having \in Seq(Good),
           NEW orderBy \in Seq(Good), NEW suffixes \in Seq(Good)
    PROVE  SelectSql(s, prefixes, columns, from, joins, where, having, orderBy, suffixes) \in Good
<1> DEFINE p1 == Appended(prefixes, <<>>)
           p2 == Word("SELECT")
           p3 == Sql([i \in DOMAIN s.options |-> K(s.options[i])], <<>>)
           p4 == Appended(columns, Comma)
           p5 == Clause(<<"FROM">>, from, <<>>)
           p6 == Appended(joins, <<>>)
           p7 == Clause(<<"WHERE">>, where, And)
           p8 == Names(<<"GROUP BY">>, s.groupBys)
           p9 == Clause(<<"HAVING">>, having, And)
           p10 == Clause(<<"ORDER BY">>, orderBy, Comma)
           p11 == Number("LIMIT", s.limit)
           p12 == Number("OFFSET", s.offset)
           p13 == Appended(suffixes, <<>>)
           parts == <<p1, p2, p3, p4, p5, p6, p7, p8, p9, p10, p11, p12, p13>>
<1>1. /\ Word("SELECT") \in Good /\ <<"FROM">> \in Seq(STRING) /\ <<"WHERE">> \in Seq(STRING)
      /\ <<"GROUP BY">> \in Seq(STRING) /\ <<"HAVING">> \in Seq(STRING) /\ <<"ORDER BY">> \in Seq(STRING)
  BY GoodKeyword DEF Keywords
<1>2. "LIMIT" \in STRING /\ "OFFSET" \in STRING
  BY KeywordAssumption DEF Keywords
<1>3. p1 \in Good /\ p4 \in Good /\ p6 \in Good /\ p13 \in Good
  BY Separators, GoodAppended
<1>4. p2 \in Good /\ p3 \in Good /\ p8 \in Good /\ p11 \in Good /\ p12 \in Good
  BY <1>1, <1>2, GoodWords, GoodNames, GoodNumber
<1>5. p5 \in Good /\ p7 \in Good /\ p9 \in Good /\ p10 \in Good
  BY <1>1, Separators, GoodClause
<1>6. SelectSql(s, prefixes, columns, from, joins, where, having, orderBy, suffixes) \in {Failure, Concat(parts)}
  BY Zenon DEF SelectSql
<1>7. parts \in Seq(Good)
  <2> HIDE DEF p1, p2, p3, p4, p5, p6, p7, p8, p9, p10, p11, p12, p13
  <2> QED BY <1>3, <1>4, <1>5
<1> HIDE DEF parts
<1> QED BY <1>6, <1>7, GoodConcat, GoodFailure

\* The list of an UPDATE's assignments, of a row's values, of an INSERT's rows.
LEMMA GoodList ==
    ASSUME NEW results \in Seq(Good), \A i \in DOMAIN results : ~results[i].err,
           NEW head \in Texts, MeantFor(head) = <<>>
    PROVE  /\ Sql(Join(SqlsOf(results), Comma), Concat(results).args) \in Good
           /\ Sql(Parens(Join(SqlsOf(results), Comma)), Concat(results).args) \in Good
           /\ Sql(head \o Join(SqlsOf(results), Comma), Concat(results).args) \in Good
<1> DEFINE list == Join(SqlsOf(results), Comma)
<1>1. /\ list \in Texts /\ Concat(results).args = MeantFor(list)
      /\ Sql(list, Concat(results).args) \in Good
  BY Separators, GoodJoin DEF Separates
<1> HIDE DEF list
<1>2. Parens(list) \in Texts /\ Concat(results).args = MeantFor(Parens(list))
  BY <1>1, MeantParens
<1>3. head \o list \in Texts /\ Concat(results).args = MeantFor(head \o list)
  BY <1>1, MeantAround
<1>4. Sql(Parens(list), Concat(results).args) \in Good /\ Sql(head \o list, Concat(results).args) \in Good
  BY <1>2, <1>3, GoodSql
<1> QED BY <1>1, <1>4 DEF list

\* So is an assignment of an UPDATE,
LEMMA GoodSet ==
    ASSUME NEW S, NEW clause \in STRING \X S, NEW result \in Good
    PROVE  SetSql(clause, result) \in Good
<1> DEFINE plain == Sql(<<N(clause[1]), K("=")>>, <<>>)
           open == Sql(<<N(clause[1]), K("="), K("(")>>, <<>>)
<1>1. clause[1] \in STRING
  OBVIOUS
<1>2. N(clause[1]) \in Tokens /\ Mark(N(clause[1])) = <<>>
  BY <1>1, TokenTypes, Zenon
<1>3. K("=") \in Tokens /\ Mark(K("=")) = <<>> /\ K("(") \in Tokens /\ Mark(K("(")) = <<>>
  BY KeywordTokens DEF Keywords
<1>4. plain \in Good
  BY <1>2, <1>3, PlainPair, GoodPlain
<1>5. open \in Good
  BY <1>2, <1>3, MarkedTriple, GoodSql
<1>6. Word(")") \in Good
  BY GoodKeyword DEF Keywords
<1>7. SetSql(clause, result) \in {Concat(<<plain, result>>), Concat(<<open, result, Word(")")>>)}
  <2>1. CASE ~IsSqlizer(clause[2])
    BY <2>1 DEF SetSql
  <2>2. CASE IsSqlizer(clause[2]) /\ clause[2].k = "select"
    BY <2>2 DEF SetSql
  <2>3. CASE IsSqlizer(clause[2]) /\ clause[2].k # "select"
    BY <2>3 DEF SetSql
  <2> QED BY <2>1, <2>2, <2>3
<1> HIDE DEF plain, open
<1>8. <<plain, result>> \in Seq(Good) /\ <<open, result, Word(")")>> \in Seq(Good)
  BY <1>4, <1>5, <1>6
<1> QED BY <1>7, <1>8, GoodConcat

\* an UPDATE,
LEMMA GoodUpdate ==
    ASSUME NEW S, NEW s, s.table \in STRING, s.sets \in Seq(STRING \X S), s.orderBys \in Seq(STRING),
           s.limit \in STRING, s.offset \in STRING,
           NEW prefixes \in Seq(Good), NEW values \in Seq(Good), DOMAIN values = DOMAIN s.sets,
           NEW from \in Seq(Good), NEW where \in Seq(Good), NEW suffixes \in Seq(Good)
    PROVE  UpdateSql(s, prefixes, values, from, where, suffixes) \in Good
<1> DEFINE sets == [i \in DOMAIN s.sets |-> SetSql(s.sets[i], values[i])]
           p1 == Appended(prefixes, <<>>)
           p2 == Word("UPDATE")
           p3 == Sql(<<N(s.table)>>, <<>>)
           p4 == Word("SET")
           p5 == IF \E i \in DOMAIN sets : sets[i].err THEN Failure
                 ELSE Sql(Join([i \in DOMAIN sets |-> sets[i].sql], Comma), Concat(sets).args)
           p6 == Clause(<<"FROM">>, from, <<>>)
           p7 == Clause(<<"WHERE">>, where, And)
           p8 == Names(<<"ORDER BY">>, s.orderBys)
           p9 == Number("LIMIT", s.limit)
           p10 == Number("OFFSET", s.offset)
           p11 == Appended(suffixes, <<>>)
           parts == <<p1, p2, p3, p4, p5, p6, p7, p8, p9, p10, p11>>
<1>1. /\ Word("UPDATE") \in Good /\ Word("SET") \in Good /\ <<"FROM">> \in Seq(STRING)
      /\ <<"WHERE">> \in Seq(STRING) /\ <<"ORDER BY">> \in Seq(STRING)
  BY GoodKeyword DEF Keywords
<1>2. "LIMIT" \in STRING /\ "OFFSET" \in STRING
  BY KeywordAssumption DEF Keywords
<1>3. p1 \in Good /\ p11 \in Good
  BY Separators, GoodAppended
<1>4. p2 \in Good /\ p3 \in Good /\ p4 \in Good /\ p8 \in Good /\ p9 \in Good /\ p10 \in Good
  BY <1>1, <1>2, GoodName, GoodNames, GoodNumber
<1>5. p6 \in Good /\ p7 \in Good
  BY <1>1, Separators, GoodClause
<1>6. p5 \in Good
  <2>1. \A i \in DOMAIN s.sets : s.sets[i] \in STRING \X S /\ values[i] \in Good
    OBVIOUS
  <2>2. \A i \in DOMAIN s.sets : SetSql(s.sets[i], values[i]) \in Good
    BY <2>1, GoodSet
  <2>3. DOMAIN s.sets = 1 .. Len(s.sets) /\ Len(s.sets) \in Nat
    OBVIOUS
  <2>4. sets \in Seq(Good)
    BY <2>2, <2>3
  <2>5. [i \in DOMAIN sets |-> sets[i].sql] = SqlsOf(sets)
    BY Zenon DEF SqlsOf
  <2> HIDE DEF sets
  <2>6. <<>> \in Texts /\ MeantFor(<<>>) = <<>>
    BY MeantNone DEF Texts
  <2>7. ASSUME ~\E i \in DOMAIN sets : sets[i].err
        PROVE  Sql(Join(SqlsOf(sets), Comma), Concat(sets).args) \in Good
    BY <2>4, <2>6, <2>7, GoodList
  <2> QED BY <2>5, <2>7, GoodFailure, Zenon
<1>7. UpdateSql(s, prefixes, values, from, where, suffixes) \in {Failure, Concat(parts)}
  BY Zenon DEF UpdateSql
<1>8. parts \in Seq(Good)
  <2> HIDE DEF p1, p2, p3, p4, p5, p6, p7, p8, p9, p10, p11
  <2> QED BY <1>3, <1>4, <1>5, <1>6
<1> HIDE DEF parts
<1> QED BY <1>7, <1>8, GoodConcat, GoodFailure

\* a DELETE,
LEMMA GoodDelete ==
    ASSUME NEW s, s.table \in STRING, s.orderBys \in Seq(STRING), s.limit \in STRING, s.offset \in STRING,
           NEW prefixes \in Seq(Good), NEW where \in Seq(Good), NEW suffixes \in Seq(Good)
    PROVE  DeleteSql(s, prefixes, where, suffixes) \in Good
<1> DEFINE p1 == Appended(prefixes, <<>>)
           p2 == Word("DELETE FROM")
           p3 == Sql(<<N(s.table)>>, <<>>)
           p4 == Clause(<<"WHERE">>, where, And)
           p5 == Names(<<"ORDER BY">>, s.orderBys)
           p6 == Number("LIMIT", s.limit)
           p7 == Number("OFFSET", s.offset)
           p8 == Appended(suffixes, <<>>)
           parts == <<p1, p2, p3, p4, p5, p6, p7, p8>>
<1>1. Word("DELETE FROM") \in Good /\ <<"WHERE">> \in Seq(STRING) /\ <<"ORDER BY">> \in Seq(STRING)
  BY GoodKeyword DEF Keywords
<1>2. "LIMIT" \in STRING /\ "OFFSET" \in STRING
  BY KeywordAssumption DEF Keywords
<1>3. p1 \in Good /\ p8 \in Good
  BY Separators, GoodAppended
<1>4. p2 \in Good /\ p3 \in Good /\ p5 \in Good /\ p6 \in Good /\ p7 \in Good
  BY <1>1, <1>2, GoodName, GoodNames, GoodNumber
<1>5. p4 \in Good
  BY <1>1, Separators, GoodClause
<1>6. DeleteSql(s, prefixes, where, suffixes) \in {Failure, Concat(parts)}
  BY Zenon DEF DeleteSql
<1>7. parts \in Seq(Good)
  <2> HIDE DEF p1, p2, p3, p4, p5, p6, p7, p8
  <2> QED BY <1>3, <1>4, <1>5
<1> HIDE DEF parts
<1> QED BY <1>6, <1>7, GoodConcat, GoodFailure

\* a row of values and an INSERT.
LEMMA GoodRow == ASSUME NEW results \in Seq(Good) PROVE RowSql(results) \in Good
<1>1. <<>> \in Texts /\ MeantFor(<<>>) = <<>>
  BY MeantNone DEF Texts
<1>2. ASSUME ~\E i \in DOMAIN results : results[i].err
      PROVE  Sql(Parens(Join(SqlsOf(results), Comma)), Concat(results).args) \in Good
  BY <1>1, <1>2, GoodList
<1>3. [i \in DOMAIN results |-> results[i].sql] = SqlsOf(results)
  BY Zenon DEF SqlsOf
<1> QED BY <1>2, <1>3, GoodFailure, Zenon DEF RowSql

LEMMA GoodInsert ==
    ASSUME NEW s, s.keyword \in STRING, s.options \in Seq(STRING), s.table \in STRING, s.cols \in Seq(STRING),
           NEW prefixes \in Seq(Good), NEW rows \in Seq(Seq(Good)), NEW select \in Seq(Good),
           NEW suffixes \in Seq(Good)
    PROVE  InsertSql(s, prefixes, rows, select, suffixes) \in Good
<1> DEFINE written == [i \in DOMAIN rows |-> RowSql(rows[i])]
           values == IF \E i \in DOMAIN written : written[i].err THEN Failure
                     ELSE Sql(<<K("VALUES")>> \o Join([i \in DOMAIN written |-> written[i].sql], Comma),
                              Concat(written).args)
           p1 == Appended(prefixes, <<>>)
           p2 == Word(IF s.keyword = "" THEN "INSERT" ELSE s.keyword)
           p3 == Sql([i \in DOMAIN s.options |-> K(s.options[i])], <<>>)
           p4 == Word("INTO")
           p5 == Sql(<<N(s.table)>>, <<>>)
           p6 == IF s.cols = <<>> THEN Nothing
                 ELSE Sql(Parens(Join([i \in DOMAIN s.cols |-> <<N(s.cols[i])>>], Comma)), <<>>)
           p7 == IF select # <<>> THEN select[1] ELSE values
           p8 == Appended(suffixes, <<>>)
           parts == <<p1, p2, p3, p4, p5, p6, p7, p8>>
<1>1. p1 \in Good /\ p8 \in Good
  BY Separators, GoodAppended
<1>2. p2 \in Good /\ p3 \in Good /\ p4 \in Good /\ p5 \in Good
  BY GoodKeyword, GoodWord, GoodWords, GoodName DEF Keywords
<1>3. p6 \in Good
  <2>1. Join(NameTexts(s.cols), Comma) \in Texts /\ MeantFor(Join(NameTexts(s.cols), Comma)) = <<>>
    BY PlainNames
  <2>2. /\ Parens(Join(NameTexts(s.cols), Comma)) \in Texts
        /\ <<>> = MeantFor(Parens(Join(NameTexts(s.cols), Comma)))
    BY <2>1, MeantParens
  <2>3. Sql(Parens(Join(NameTexts(s.cols), Comma)), <<>>) \in Good
    BY <2>2, GoodSql
  <2>4. [i \in DOMAIN s.cols |-> <<N(s.cols[i])>>] = NameTexts(s.cols)
    BY Zenon DEF NameTexts
  <2> QED BY <2>3, <2>4, GoodNothing, Zenon
<1>4. values \in Good
  <2>1. DOMAIN rows = 1 .. Len(rows) /\ Len(rows) \in Nat /\ \A i \in DOMAIN rows : rows[i] \in Seq(Good)
    OBVIOUS
  <2>2. \A i \in DOMAIN rows : RowSql(rows[i]) \in Good
    BY <2>1, GoodRow
  <2>3. written \in Seq(Good)
    BY <2>1, <2>2
  <2>4. [i \in DOMAIN written |-> written[i].sql] = SqlsOf(written)
    BY Zenon DEF SqlsOf
  <2> HIDE DEF written
  <2>5. <<K("VALUES")>> \in Texts /\ MeantFor(<<K("VALUES")>>) = <<>>
    <3>1. K("VALUES") \in Tokens /\ Mark(K("VALUES")) = <<>>
      BY KeywordTokens DEF Keywords
    <3> QED BY <3>1, PlainOne, MeantPlain
  <2>6. ASSUME ~\E i \in DOMAIN written : written[i].err
        PROVE  Sql(<<K("VALUES")>> \o Join(SqlsOf(written), Comma), Concat(written).args) \in Good
    BY <2>3, <2>5, <2>6, GoodList
  <2> QED BY <2>4, <2>6, GoodFailure, Zenon
<1>5. p7 \in Good
  <2>1. select # <<>> => select[1] \in Good
    OBVIOUS
  <2> HIDE DEF values
  <2> QED BY <1>4, <2>1
<1>6. InsertSql(s, prefixes, rows, select, suffixes) \in {Failure, Concat(parts)}
  BY Zenon DEF InsertSql
<1>7. parts \in Seq(Good)
  <2> HIDE DEF p1, p2, p3, p4, p5, p6, p7, p8
  <2> QED BY <1>1, <1>2, <1>3, <1>5
<1> HIDE DEF parts
<1> QED BY <1>6, <1>7, GoodConcat, GoodFailure

-----------------------------------------------------------------------------
(* The recursion *)

ToSqlNext(f, n) == Above(IF n = 0 THEN <<>> ELSE f[n - 1])
ToSqlUpTo(f, n) == f = [i \in 0 .. n |-> ToSqlNext(f, i)]

\* The levels up to any one exist,
LEMMA ToSqlUpToExist == \A n \in Nat : \E f : ToSqlUpTo(f, n)
<1> DEFINE G == {n \in Nat : \E f : ToSqlUpTo(f, n)}
<1>1. 0 \in G
  <2> DEFINE f == [i \in 0 .. 0 |-> Above(<<>>)]
  <2>1. \A i \in 0 .. 0 : i = 0
    OBVIOUS
  <2>2. \A i \in 0 .. 0 : ToSqlNext(f, i) = Above(<<>>)
    BY <2>1, Zenon DEF ToSqlNext
  <2>3. ToSqlUpTo(f, 0)
    BY <2>2, Zenon DEF ToSqlUpTo
  <2> QED BY <2>3
<1>2. ASSUME NEW n \in Nat, n \in G PROVE n + 1 \in G
  <2>1. PICK f : ToSqlUpTo(f, n)
    BY <1>2
  <2> DEFINE g == [i \in 0 .. n + 1 |-> IF i = n + 1 THEN Above(f[n]) ELSE f[i]]
  <2>2. \A i \in 0 .. n : i # n + 1 /\ i \in 0 .. n + 1
    OBVIOUS
  <2>3. \A i \in 0 .. n : g[i] = f[i]
    BY <2>2, Zenon
  <2>4. \A i \in 0 .. n : f[i] = ToSqlNext(f, i)
    BY <2>1, Zenon DEF ToSqlUpTo
  <2>5. \A i \in 0 .. n + 1 : g[i] = IF i = n + 1 THEN Above(f[n]) ELSE f[i]
    BY Zenon
  <2>6. g = [i \in 0 .. n + 1 |-> g[i]]
    BY Zenon
  <2> HIDE DEF g
  <2>7. \A i \in 0 .. n + 1 : i # 0 => i - 1 \in 0 .. n
    OBVIOUS
  <2>8. ASSUME NEW i \in 0 .. n + 1 PROVE g[i] = ToSqlNext(g, i)
    <3>1. CASE i = n + 1
      <4>1. g[i] = Above(f[n]) /\ i # 0 /\ i - 1 = n /\ n \in 0 .. n
        BY <2>5, <3>1
      <4>2. g[n] = f[n]
        BY <2>3, <4>1
      <4> QED BY <4>1, <4>2 DEF ToSqlNext
    <3>2. CASE i # n + 1
      <4>1. i \in 0 .. n
        BY <3>2
      <4>2. g[i] = ToSqlNext(f, i)
        BY <2>3, <2>4, <4>1
      <4>3. i # 0 => g[i - 1] = f[i - 1]
        BY <2>3, <2>7
      <4> QED BY <4>2, <4>3 DEF ToSqlNext
    <3> QED BY <3>1, <3>2
  <2>9. ToSqlUpTo(g, n + 1)
    BY <2>6, <2>8, Zenon DEF ToSqlUpTo
  <2> QED BY <2>9
<1>3. Nat \subseteq G
  <2> HIDE DEF G
  <2> QED BY <1>1, <1>2, SetInduction
<1> QED BY <1>3

\* and those up to a higher one agree with them,
LEMMA ToSqlUpToAgree ==
    ASSUME NEW n \in Nat, NEW m \in Nat, n <= m, NEW f, NEW g, ToSqlUpTo(f, n), ToSqlUpTo(g, m)
    PROVE  f[n] = g[n]
<1> DEFINE G == {i \in Nat : f[i] = g[i]}
<1>1. \A i \in 0 .. n : f[i] = ToSqlNext(f, i)
  BY Zenon DEF ToSqlUpTo
<1>2. \A i \in 0 .. m : g[i] = ToSqlNext(g, i)
  BY Zenon DEF ToSqlUpTo
<1>3. 0 \in G
  <2>1. 0 \in 0 .. n /\ 0 \in 0 .. m
    OBVIOUS
  <2>2. f[0] = Above(<<>>) /\ g[0] = Above(<<>>)
    BY <1>1, <1>2, <2>1, Zenon DEF ToSqlNext
  <2> QED BY <2>2
<1>4. ASSUME NEW i \in 0 .. n - 1, i \in G PROVE i + 1 \in G
  <2>1. i + 1 \in 0 .. n /\ i + 1 \in 0 .. m /\ i + 1 # 0 /\ (i + 1) - 1 = i /\ i + 1 \in Nat
    OBVIOUS
  <2>2. f[i + 1] = Above(f[i]) /\ g[i + 1] = Above(g[i])
    BY <1>1, <1>2, <2>1, Zenon DEF ToSqlNext
  <2>3. f[i + 1] = g[i + 1]
    BY <1>4, <2>2
  <2> QED BY <2>1, <2>3
<1>5. n \in G
  <2> HIDE DEF G
  <2>1. \A i \in 0 .. n : i \in G
    BY <1>3, <1>4, UptoInduction
  <2> QED BY <2>1
<1> QED BY <1>5

\* ToSqlAt is what its definition says.
LEMMA ToSqlAtIs ==
    /\ ToSqlAt[0] = Above(<<>>)
    /\ \A n \in Nat : ToSqlAt[n + 1] = Above(ToSqlAt[n])
<1> DEFINE best(n) == CHOOSE f : ToSqlUpTo(f, n)
           diagonal == [n \in Nat |-> best(n)[n]]
<1>1. \A n \in Nat : ToSqlUpTo(best(n), n)
  BY ToSqlUpToExist, Zenon
<1> HIDE DEF best
<1>2. \A n \in Nat : diagonal[n] = best(n)[n]
  BY Zenon
<1>3. diagonal = [n \in Nat |-> diagonal[n]]
  BY Zenon
<1> HIDE DEF diagonal
<1>4. ASSUME NEW n \in Nat PROVE diagonal[n] = ToSqlNext(diagonal, n)
  <2>1. n \in 0 .. n
    OBVIOUS
  <2>2. ToSqlUpTo(best(n), n)
    BY <1>1
  <2>3. best(n)[n] = ToSqlNext(best(n), n)
    BY <2>1, <2>2, Zenon DEF ToSqlUpTo
  <2>4. ASSUME n # 0 PROVE best(n)[n - 1] = diagonal[n - 1]
    <3>1. n - 1 \in Nat /\ n - 1 <= n
      BY <2>4
    <3>2. ToSqlUpTo(best(n - 1), n - 1)
      BY <1>1, <3>1
    <3>3. best(n - 1)[n - 1] = best(n)[n - 1]
      BY <2>2, <3>1, <3>2, ToSqlUpToAgree
    <3> QED BY <1>2, <3>1, <3>3
  <2>5. ToSqlNext(best(n), n) = ToSqlNext(diagonal, n)
    <3>1. CASE n = 0
      BY <3>1, Zenon DEF ToSqlNext
    <3>2. CASE n # 0
      BY <2>4, <3>2, Zenon DEF ToSqlNext
    <3> QED BY <3>1, <3>2
  <2> QED BY <1>2, <2>3, <2>5
<1>5. diagonal = [n \in Nat |-> ToSqlNext(diagonal, n)]
  BY <1>3, <1>4, Zenon
<1>6. ToSqlAt = [n \in Nat |-> ToSqlNext(ToSqlAt, n)]
  <2>1. diagonal = [n \in Nat |-> Above(IF n = 0 THEN <<>> ELSE diagonal[n - 1])]
    BY <1>5, Zenon DEF ToSqlNext
  <2>2. ToSqlAt = CHOOSE f : f = [n \in Nat |-> Above(IF n = 0 THEN <<>> ELSE f[n - 1])]
    BY Zenon DEF ToSqlAt
  <2>3. ToSqlAt = [n \in Nat |-> Above(IF n = 0 THEN <<>> ELSE ToSqlAt[n - 1])]
    BY <2>1, <2>2, Zenon
  <2> QED BY <2>3, Zenon DEF ToSqlNext
<1>7. \A n \in Nat : ToSqlAt[n] = ToSqlNext(ToSqlAt, n)
  BY <1>6, Zenon
<1>8. ToSqlAt[0] = Above(<<>>)
  BY <1>7, Zenon DEF ToSqlNext
<1>9. ASSUME NEW n \in Nat PROVE ToSqlAt[n + 1] = Above(ToSqlAt[n])
  <2>1. n + 1 \in Nat /\ n + 1 # 0 /\ (n + 1) - 1 = n
    OBVIOUS
  <2> QED BY <1>7, <2>1, Zenon DEF ToSqlNext
<1> QED BY <1>8, <1>9

-----------------------------------------------------------------------------
(* ToSql *)

\* What ToSql returns for the parts of a Sqlizer.
Faithful(T) ==
    /\ \A s \in DOMAIN T : T[s] \in Good
    /\ \A v \in Nat : Val(v) \in DOMAIN T => T[Val(v)].args = <<v>>
All(T, parts) == [i \in DOMAIN parts |-> T[parts[i]]]

\* The results of the parts of a Sqlizer are matched.
LEMMA AllGood ==
    ASSUME NEW T, Faithful(T), NEW parts \in Seq(DOMAIN T)
    PROVE  /\ All(T, parts) \in Seq(Good)
           /\ DOMAIN All(T, parts) = DOMAIN parts /\ Len(All(T, parts)) = Len(parts)
           /\ \A i \in DOMAIN parts : All(T, parts)[i] = T[parts[i]]
<1>1. DOMAIN parts = 1 .. Len(parts) /\ Len(parts) \in Nat /\ \A i \in DOMAIN parts : parts[i] \in DOMAIN T
  OBVIOUS
<1>2. \A i \in DOMAIN parts : T[parts[i]] \in Good
  BY <1>1, Zenon DEF Faithful
<1> QED BY <1>1, <1>2 DEF All

\* An Expr whose parts are matched is matched,
LEMMA WrittenExpr ==
    ASSUME NEW T, Faithful(T), NEW s \in [k : {"expr"}, sql : Seq(Tokens), given : Seq(DOMAIN T)],
           Fits(s.sql, s.given)
    PROVE  ExprSql(s.sql, s.given, All(T, s.given)) \in Good
<1>1. s.sql \in Texts /\ s.given \in Seq(DOMAIN T)
  BY DEF Texts
<1>2. /\ All(T, s.given) \in Seq(Good)
      /\ DOMAIN All(T, s.given) = DOMAIN s.given /\ Len(All(T, s.given)) = Len(s.given)
      /\ \A i \in DOMAIN s.given : All(T, s.given)[i] = T[s.given[i]]
  BY <1>1, AllGood
<1>3. ASSUME NEW i \in DOMAIN s.given, ~IsSqlizer(s.given[i])
      PROVE  All(T, s.given)[i].args = <<s.given[i].v>>
  <2>1. s.given[i] = Val(MeantFor(s.sql)[i]) /\ Len(s.given) = Len(MeantFor(s.sql))
    BY <1>3, Zenon DEF Fits
  <2>2. MeantFor(s.sql) \in Seq(Nat)
    BY <1>1, MeantType
  <2>3. i \in 1 .. Len(s.given) /\ s.given[i] \in DOMAIN T
    BY <1>1
  <2>4. PICK v \in Nat : v = MeantFor(s.sql)[i]
    <3>1. MeantFor(s.sql)[i] \in Nat
      BY <2>1, <2>2, <2>3
    <3> QED BY <3>1, Zenon
  <2>5. T[s.given[i]].args = <<v>>
    BY <2>1, <2>3, <2>4, Zenon DEF Faithful
  <2>6. s.given[i].v = v
    BY <2>1, <2>4 DEF Val
  <2> QED BY <1>2, <2>5, <2>6, Zenon
<1> QED BY <1>1, <1>2, <1>3, GoodExpr

\* A value of this kind is written this way.
LEMMA WrittenAs ==
    ASSUME NEW T, NEW s
    PROVE  /\ s.k \in {"nil", "other"} => Written(T, s) = Failure
           /\ s.k = "empty"  => Written(T, s) = Nothing
           /\ s.k = "val"    => Written(T, s) = Sql(<<P(s.v)>>, <<s.v>>)
           /\ s.k = "str"    => Written(T, s) = Sql(s.sql, s.args)
           /\ s.k = "expr"   => Written(T, s) = ExprSql(s.sql, s.given, All(T, s.given))
           /\ s.k = "concat" => Written(T, s) = Concat(All(T, s.parts))
           /\ s.k = "alias"  => Written(T, s)
                                  = Concat(<<Word("("), T[s.expr], Sql(<<K(")"), K("AS"), N(s.as)>>, <<>>)>>)
           /\ s.k = "eq"     => Written(T, s) = EqSql(s.map, s.not)
           /\ s.k = "cmp"    => Written(T, s) = CmpSql(s.map, s.op)
           /\ s.k = "in"     => Written(T, s) = InSql(s.col, s.val, s.not)
           /\ s.k = "conj"   => Written(T, s) = ConjSql(All(T, s.parts), s.op)
           /\ s.k = "case"   => Written(T, s)
                                  = CaseSql(All(T, s.what),
                                            [i \in DOMAIN s.whens |-> <<T[s.whens[i][1]], T[s.whens[i][2]]>>],
                                            All(T, s.els))
           /\ s.k = "select" => Written(T, s)
                                  = SelectSql(s, All(T, s.prefixes), All(T, s.columns), All(T, s.from),
                                              All(T, s.joins), All(T, s.where), All(T, s.having),
                                              All(T, s.orderBys), All(T, s.suffixes))
           /\ s.k = "update" => Written(T, s)
                                  = UpdateSql(s, All(T, s.prefixes), [i \in DOMAIN s.sets |-> T[s.sets[i][2]]],
                                              All(T, s.from), All(T, s.where), All(T, s.suffixes))
           /\ s.k = "delete" => Written(T, s)
                                  = DeleteSql(s, All(T, s.prefixes), All(T, s.where), All(T, s.suffixes))
           /\ s.k = "insert" => Written(T, s)
                                  = InsertSql(s, All(T, s.prefixes), [i \in DOMAIN s.rows |-> All(T, s.rows[i])],
                                              All(T, s.select), All(T, s.suffixes))
BY DEF Written, All

\* and every Sqlizer of which they are parts.
LEMMA WrittenGood ==
    ASSUME NEW T, Faithful(T), NEW s \in SqlizersOf(DOMAIN T)
    PROVE  Written(T, s) \in Good
<1> DEFINE S == DOMAIN T
<1>0. \/ s \in [k : {"nil", "empty", "other"}] \/ s \in Vals
      \/ s \in [k : {"str"}, sql : Seq(Tokens), args : Seq(Nat)] /\ s.args = MeantFor(s.sql)
      \/ s \in [k : {"expr"}, sql : Seq(Tokens), given : Seq(S)] /\ Fits(s.sql, s.given)
      \/ s \in [k : {"concat"}, parts : Seq(S)]
      \/ s \in [k : {"alias"}, expr : S, as : STRING]
      \/ s \in [k : {"eq"}, map : Entries, not : BOOLEAN]
      \/ s \in [k : {"cmp"}, map : Entries, op : STRING]
      \/ s \in [k : {"in"}, col : STRING, val : Comparands, not : BOOLEAN]
      \/ s \in [k : {"conj"}, op : {"AND", "OR"}, parts : Seq(S)]
      \/ s \in [k : {"case"}, what : Seq(S), whens : Seq(S \X S), els : Seq(S)]
      \/ s \in [k : {"select"}, prefixes : Seq(S), options : Seq(STRING), columns : Seq(S), from : Seq(S),
                joins : Seq(S), where : Seq(S), groupBys : Seq(STRING), having : Seq(S), orderBys : Seq(S),
                limit : STRING, offset : STRING, suffixes : Seq(S)]
      \/ s \in [k : {"update"}, prefixes : Seq(S), table : STRING, sets : Seq(STRING \X S), from : Seq(S),
                where : Seq(S), orderBys : Seq(STRING), limit : STRING, offset : STRING, suffixes : Seq(S)]
      \/ s \in [k : {"delete"}, prefixes : Seq(S), table : STRING, where : Seq(S),
                orderBys : Seq(STRING), limit : STRING, offset : STRING, suffixes : Seq(S)]
      \/ s \in [k : {"insert"}, prefixes : Seq(S), keyword : STRING, options : Seq(STRING), table : STRING,
                cols : Seq(STRING), rows : Seq(Seq(S)), select : Seq(S), suffixes : Seq(S)]
  BY Zenon DEF SqlizersOf, ExprsOf, StatementsOf, Selects, Updates, Deletes, Inserts
<1>1. CASE s \in [k : {"nil", "empty", "other"}]
  <2>1. s.k \in {"nil", "other"} \/ s.k = "empty"
    BY <1>1
  <2> QED BY <2>1, WrittenAs, GoodNothing, GoodFailure
<1>2. CASE s \in Vals
  <2>1. s.k = "val" /\ s.v \in Nat
    BY <1>2 DEF Vals
  <2>2. P(s.v) \in Tokens /\ Mark(P(s.v)) = <<s.v>>
    BY <2>1, TokenTypes, Zenon
  <2>3. <<P(s.v)>> \in Texts /\ MeantFor(<<P(s.v)>>) = <<s.v>>
    BY <2>2, MeantOne DEF Texts
  <2> QED BY <2>1, <2>3, WrittenAs, GoodSql, ZenonT(40)
<1>3. CASE s \in [k : {"str"}, sql : Seq(Tokens), args : Seq(Nat)] /\ s.args = MeantFor(s.sql)
  <2>1. s.k = "str" /\ s.sql \in Texts
    BY <1>3 DEF Texts
  <2>2. Sql(s.sql, s.args) \in Good
    BY <1>3, <2>1, GoodSql
  <2> QED BY <2>1, <2>2, WrittenAs, Zenon
<1>4. CASE s \in [k : {"expr"}, sql : Seq(Tokens), given : Seq(S)] /\ Fits(s.sql, s.given)
  <2>1. s.k = "expr"
    BY <1>4
  <2>2. ExprSql(s.sql, s.given, All(T, s.given)) \in Good
    BY <1>4, WrittenExpr
  <2> QED BY <2>1, <2>2, WrittenAs, Zenon
<1>5. CASE s \in [k : {"concat"}, parts : Seq(S)]
  <2>1. s.k = "concat" /\ s.parts \in Seq(S)
    BY <1>5
  <2> QED BY <2>1, WrittenAs, AllGood, GoodConcat
<1>6. CASE s \in [k : {"alias"}, expr : S, as : STRING]
  <2>1. s.k = "alias" /\ s.expr \in S /\ s.as \in STRING
    BY <1>6
  <2>2. T[s.expr] \in Good
    BY <2>1, Zenon DEF Faithful
  <2>3. Word("(") \in Good
    BY GoodKeyword DEF Keywords
  <2>4. /\ K(")") \in Tokens /\ Mark(K(")")) = <<>> /\ K("AS") \in Tokens /\ Mark(K("AS")) = <<>>
    BY KeywordTokens DEF Keywords
  <2>5. N(s.as) \in Tokens /\ Mark(N(s.as)) = <<>>
    BY <2>1, TokenTypes, Zenon
  <2>6. Sql(<<K(")"), K("AS"), N(s.as)>>, <<>>) \in Good
    BY <2>4, <2>5, MarkedTriple, GoodSql
  <2>7. <<Word("("), T[s.expr], Sql(<<K(")"), K("AS"), N(s.as)>>, <<>>)>> \in Seq(Good)
    BY <2>2, <2>3, <2>6
  <2> QED BY <2>1, <2>7, WrittenAs, GoodConcat
<1>7. CASE s \in [k : {"eq"}, map : Entries, not : BOOLEAN]
  <2>1. s.k = "eq" /\ s.map \in Entries /\ s.not \in BOOLEAN
    BY <1>7
  <2> QED BY <2>1, WrittenAs, GoodEq
<1>8. CASE s \in [k : {"cmp"}, map : Entries, op : STRING]
  <2>1. s.k = "cmp" /\ s.map \in Entries /\ s.op \in STRING
    BY <1>8
  <2> QED BY <2>1, WrittenAs, GoodCmp
<1>9. CASE s \in [k : {"in"}, col : STRING, val : Comparands, not : BOOLEAN]
  <2>1. s.k = "in" /\ s.col \in STRING /\ s.val \in Comparands /\ s.not \in BOOLEAN
    BY <1>9
  <2> QED BY <2>1, WrittenAs, GoodIn
<1>10. CASE s \in [k : {"conj"}, op : {"AND", "OR"}, parts : Seq(S)]
  <2>1. s.k = "conj" /\ s.op \in {"AND", "OR"} /\ s.parts \in Seq(S)
    BY <1>10
  <2>2. ConjSql(All(T, s.parts), s.op) \in Good
    BY <2>1, AllGood, GoodConj
  <2> QED BY <2>1, <2>2, WrittenAs, Zenon
<1>11. CASE s \in [k : {"case"}, what : Seq(S), whens : Seq(S \X S), els : Seq(S)]
  <2>1. s.k = "case" /\ s.what \in Seq(S) /\ s.whens \in Seq(S \X S) /\ s.els \in Seq(S)
    BY <1>11
  <2> DEFINE branch(i) == <<T[s.whens[i][1]], T[s.whens[i][2]]>>
             whens == [i \in DOMAIN s.whens |-> branch(i)]
  <2>2. DOMAIN s.whens = 1 .. Len(s.whens) /\ Len(s.whens) \in Nat
        /\ \A i \in DOMAIN s.whens : s.whens[i] \in S \X S
    BY <2>1
  <2>3. \A i \in DOMAIN s.whens : s.whens[i][1] \in S /\ s.whens[i][2] \in S
    BY <2>2
  <2>4. \A i \in DOMAIN s.whens : T[s.whens[i][1]] \in Good /\ T[s.whens[i][2]] \in Good
    BY <2>3, Zenon DEF Faithful
  <2>5. \A i \in DOMAIN s.whens : branch(i) \in Good \X Good
    BY <2>4
  <2>6. Written(T, s) = CaseSql(All(T, s.what), whens, All(T, s.els))
    BY <2>1, WrittenAs, Zenon
  <2> HIDE DEF branch
  <2>7. whens \in Seq(Good \X Good)
    BY <2>2, <2>5
  <2> HIDE DEF whens
  <2> QED BY <2>1, <2>6, <2>7, AllGood, GoodCase
<1>12. CASE s \in [k : {"select"}, prefixes : Seq(S), options : Seq(STRING), columns : Seq(S), from : Seq(S),
                   joins : Seq(S), where : Seq(S), groupBys : Seq(STRING), having : Seq(S), orderBys : Seq(S),
                   limit : STRING, offset : STRING, suffixes : Seq(S)]
  <2>1. /\ s.k = "select" /\ s.options \in Seq(STRING) /\ s.groupBys \in Seq(STRING)
        /\ s.limit \in STRING /\ s.offset \in STRING
        /\ s.prefixes \in Seq(S) /\ s.columns \in Seq(S) /\ s.from \in Seq(S) /\ s.joins \in Seq(S)
        /\ s.where \in Seq(S) /\ s.having \in Seq(S) /\ s.orderBys \in Seq(S) /\ s.suffixes \in Seq(S)
    BY <1>12
  <2>2. /\ All(T, s.prefixes) \in Seq(Good) /\ All(T, s.columns) \in Seq(Good) /\ All(T, s.from) \in Seq(Good)
        /\ All(T, s.joins) \in Seq(Good) /\ All(T, s.where) \in Seq(Good) /\ All(T, s.having) \in Seq(Good)
        /\ All(T, s.orderBys) \in Seq(Good) /\ All(T, s.suffixes) \in Seq(Good)
    BY <2>1, AllGood
  <2>3. Written(T, s) = SelectSql(s, All(T, s.prefixes), All(T, s.columns), All(T, s.from),
                                  All(T, s.joins), All(T, s.where), All(T, s.having),
                                  All(T, s.orderBys), All(T, s.suffixes))
    BY <2>1, WrittenAs, Zenon
  <2>4. SelectSql(s, All(T, s.prefixes), All(T, s.columns), All(T, s.from), All(T, s.joins),
                  All(T, s.where), All(T, s.having), All(T, s.orderBys), All(T, s.suffixes)) \in Good
    BY <2>1, <2>2, GoodSelect, Zenon
  <2> QED BY <2>3, <2>4, Zenon
<1>13. CASE s \in [k : {"update"}, prefixes : Seq(S), table : STRING, sets : Seq(STRING \X S), from : Seq(S),
                   where : Seq(S), orderBys : Seq(STRING), limit : STRING, offset : STRING, suffixes : Seq(S)]
  <2>1. /\ s.k = "update" /\ s.table \in STRING /\ s.sets \in Seq(STRING \X S) /\ s.orderBys \in Seq(STRING)
        /\ s.limit \in STRING /\ s.offset \in STRING
        /\ s.prefixes \in Seq(S) /\ s.from \in Seq(S) /\ s.where \in Seq(S) /\ s.suffixes \in Seq(S)
    BY <1>13
  <2>2. /\ All(T, s.prefixes) \in Seq(Good) /\ All(T, s.from) \in Seq(Good)
        /\ All(T, s.where) \in Seq(Good) /\ All(T, s.suffixes) \in Seq(Good)
    BY <2>1, AllGood
  <2> DEFINE values == [i \in DOMAIN s.sets |-> T[s.sets[i][2]]]
  <2>3. DOMAIN s.sets = 1 .. Len(s.sets) /\ Len(s.sets) \in Nat /\ \A i \in DOMAIN s.sets : s.sets[i][2] \in S
    BY <2>1
  <2>4. \A i \in DOMAIN s.sets : T[s.sets[i][2]] \in Good
    BY <2>3, Zenon DEF Faithful
  <2>5. values \in Seq(Good) /\ DOMAIN values = DOMAIN s.sets
    BY <2>3, <2>4
  <2>6. Written(T, s) = UpdateSql(s, All(T, s.prefixes), values, All(T, s.from), All(T, s.where), All(T, s.suffixes))
    BY <2>1, WrittenAs, Zenon
  <2> HIDE DEF values
  <2>7. UpdateSql(s, All(T, s.prefixes), values, All(T, s.from), All(T, s.where), All(T, s.suffixes)) \in Good
    BY <2>1, <2>2, <2>5, GoodUpdate, Zenon
  <2> QED BY <2>6, <2>7, Zenon
<1>14. CASE s \in [k : {"delete"}, prefixes : Seq(S), table : STRING, where : Seq(S),
                   orderBys : Seq(STRING), limit : STRING, offset : STRING, suffixes : Seq(S)]
  <2>1. /\ s.k = "delete" /\ s.table \in STRING /\ s.orderBys \in Seq(STRING)
        /\ s.limit \in STRING /\ s.offset \in STRING
        /\ s.prefixes \in Seq(S) /\ s.where \in Seq(S) /\ s.suffixes \in Seq(S)
    BY <1>14
  <2>2. All(T, s.prefixes) \in Seq(Good) /\ All(T, s.where) \in Seq(Good) /\ All(T, s.suffixes) \in Seq(Good)
    BY <2>1, AllGood
  <2>3. Written(T, s) = DeleteSql(s, All(T, s.prefixes), All(T, s.where), All(T, s.suffixes))
    BY <2>1, WrittenAs, Zenon
  <2>4. DeleteSql(s, All(T, s.prefixes), All(T, s.where), All(T, s.suffixes)) \in Good
    BY <2>1, <2>2, GoodDelete
  <2> QED BY <2>3, <2>4, Zenon
<1>15. CASE s \in [k : {"insert"}, prefixes : Seq(S), keyword : STRING, options : Seq(STRING), table : STRING,
                   cols : Seq(STRING), rows : Seq(Seq(S)), select : Seq(S), suffixes : Seq(S)]
  <2>1. /\ s.k = "insert" /\ s.keyword \in STRING /\ s.options \in Seq(STRING) /\ s.table \in STRING
        /\ s.cols \in Seq(STRING) /\ s.rows \in Seq(Seq(S))
        /\ s.prefixes \in Seq(S) /\ s.select \in Seq(S) /\ s.suffixes \in Seq(S)
    BY <1>15
  <2>2. All(T, s.prefixes) \in Seq(Good) /\ All(T, s.select) \in Seq(Good) /\ All(T, s.suffixes) \in Seq(Good)
    BY <2>1, AllGood
  <2> DEFINE rows == [i \in DOMAIN s.rows |-> All(T, s.rows[i])]
  <2>3. DOMAIN s.rows = 1 .. Len(s.rows) /\ Len(s.rows) \in Nat
        /\ \A i \in DOMAIN s.rows : s.rows[i] \in Seq(S)
    BY <2>1
  <2>4. \A i \in DOMAIN s.rows : All(T, s.rows[i]) \in Seq(Good)
    BY <2>3, AllGood
  <2>5. rows \in Seq(Seq(Good))
    BY <2>3, <2>4
  <2>6. Written(T, s) = InsertSql(s, All(T, s.prefixes), rows, All(T, s.select), All(T, s.suffixes))
    BY <2>1, WrittenAs, Zenon
  <2> HIDE DEF rows
  <2>7. InsertSql(s, All(T, s.prefixes), rows, All(T, s.select), All(T, s.suffixes)) \in Good
    BY <2>1, <2>2, <2>5, GoodInsert
  <2> QED BY <2>6, <2>7, Zenon
<1> HIDE DEF S
<1> QED BY <1>0, <1>1, <1>2, <1>3, <1>4, <1>5, <1>6, <1>7, <1>8, <1>9, <1>10, <1>11, <1>12, <1>13, <1>14, <1>15,
           Zenon

\* So the next level is matched when the one below is,
LEMMA FaithfulAbove ==
    ASSUME NEW T, Faithful(T)
    PROVE  Faithful(Above(T)) /\ DOMAIN Above(T) = SqlizersOf(DOMAIN T)
<1>1. DOMAIN Above(T) = SqlizersOf(DOMAIN T) /\ \A s \in SqlizersOf(DOMAIN T) : Above(T)[s] = Written(T, s)
  BY Zenon DEF Above
<1>2. \A s \in DOMAIN Above(T) : Above(T)[s] \in Good
  BY <1>1, WrittenGood, Zenon
<1>3. ASSUME NEW v \in Nat, Val(v) \in DOMAIN Above(T) PROVE Above(T)[Val(v)].args = <<v>>
  <2>1. Val(v).k = "val" /\ Val(v).v = v
    BY DEF Val
  <2>2. Written(T, Val(v)) = Sql(<<P(v)>>, <<v>>)
    BY <2>1, WrittenAs, Zenon
  <2>3. Sql(<<P(v)>>, <<v>>).args = <<v>>
    BY DEF Sql
  <2> QED BY <1>1, <1>3, <2>2, <2>3, Zenon
<1> QED BY <1>1, <1>2, <1>3, Zenon DEF Faithful

\* and every level is.
LEMMA FaithfulAt == \A n \in Nat : Faithful(ToSqlAt[n])
<1> DEFINE G == {n \in Nat : Faithful(ToSqlAt[n])}
<1>1. Faithful(<<>>)
  <2>1. DOMAIN <<>> = {}
    OBVIOUS
  <2> QED BY <2>1, Zenon DEF Faithful
<1>2. 0 \in G
  BY <1>1, FaithfulAbove, ToSqlAtIs
<1>3. ASSUME NEW n \in Nat, n \in G PROVE n + 1 \in G
  BY <1>3, FaithfulAbove, ToSqlAtIs
<1>4. Nat \subseteq G
  <2> HIDE DEF G
  <2> QED BY <1>2, <1>3, SetInduction
<1> QED BY <1>4

\* The Sqlizers of each level are made of those of the one below.
LEMMA SqlizersAt ==
    /\ Sqlizers(0) = SqlizersOf({})
    /\ \A n \in Nat : Sqlizers(n + 1) = SqlizersOf(Sqlizers(n))
<1>1. DOMAIN <<>> = {} /\ Faithful(<<>>)
  <2>1. DOMAIN <<>> = {}
    OBVIOUS
  <2> QED BY <2>1, Zenon DEF Faithful
<1>2. Sqlizers(0) = SqlizersOf({})
  BY <1>1, FaithfulAbove, ToSqlAtIs, Zenon DEF Sqlizers
<1>3. ASSUME NEW n \in Nat PROVE Sqlizers(n + 1) = SqlizersOf(Sqlizers(n))
  BY FaithfulAt, FaithfulAbove, ToSqlAtIs, Zenon DEF Sqlizers
<1> QED BY <1>2, <1>3

\* What ToSql of any Sqlizer writes has its arguments in the order of the
\* placeholders they are meant for.
THEOREM ToSqlMatches ==
    ASSUME Nesting \in Nat
    PROVE  \A s \in Sqlizers(Nesting) : ToSql(s).args = MeantFor(ToSql(s).sql)
<1> SUFFICES ASSUME NEW s \in Sqlizers(Nesting) PROVE ToSql(s) \in Good
  BY GoodIs
<1> QED BY FaithfulAt, Zenon DEF Faithful, Sqlizers, ToSql

-----------------------------------------------------------------------------
(* Failures *)

\* One of the results is an error.
Failing(results) == \E i \in DOMAIN results : results[i].err

\* Errors among no, one, two and three results,
LEMMA NoneFailing == Failing(<<>>) = FALSE
BY DEF Failing

LEMMA OneFailing == ASSUME NEW r \in Good PROVE Failing(<<r>>) <=> r.err
BY DEF Failing

LEMMA TwoFailing == ASSUME NEW r \in Good, NEW s \in Good PROVE Failing(<<r, s>>) <=> r.err \/ s.err
<1>1. \A i \in DOMAIN <<r, s>> : i = 1 \/ i = 2
  OBVIOUS
<1>2. 1 \in DOMAIN <<r, s>> /\ 2 \in DOMAIN <<r, s>> /\ <<r, s>>[1] = r /\ <<r, s>>[2] = s
  OBVIOUS
<1> QED BY <1>1, <1>2, Zenon DEF Failing

LEMMA ThreeFailing ==
    ASSUME NEW r \in Good, NEW s \in Good, NEW t \in Good
    PROVE  Failing(<<r, s, t>>) <=> r.err \/ s.err \/ t.err
<1>1. \A i \in DOMAIN <<r, s, t>> : i = 1 \/ i = 2 \/ i = 3
  OBVIOUS
<1>2. /\ 1 \in DOMAIN <<r, s, t>> /\ 2 \in DOMAIN <<r, s, t>> /\ 3 \in DOMAIN <<r, s, t>>
      /\ <<r, s, t>>[1] = r /\ <<r, s, t>>[2] = s /\ <<r, s, t>>[3] = t
  OBVIOUS
<1> QED BY <1>1, <1>2, Zenon DEF Failing

\* and among results one after the other.
LEMMA FailingJoined ==
    ASSUME NEW r \in Seq(Good), NEW s \in Seq(Good)
    PROVE  Failing(r \o s) <=> Failing(r) \/ Failing(s)
<1>1. /\ DOMAIN r = 1 .. Len(r) /\ DOMAIN s = 1 .. Len(s) /\ DOMAIN (r \o s) = 1 .. Len(r) + Len(s)
      /\ Len(r) \in Nat /\ Len(s) \in Nat
  OBVIOUS
<1>2. /\ \A i \in 1 .. Len(r) : (r \o s)[i] = r[i]
      /\ \A i \in 1 .. Len(s) : (r \o s)[Len(r) + i] = s[i]
  OBVIOUS
<1>3. ASSUME Failing(r \o s) PROVE Failing(r) \/ Failing(s)
  <2>1. PICK i \in 1 .. Len(r) + Len(s) : (r \o s)[i].err
    BY <1>1, <1>3, Zenon DEF Failing
  <2>2. CASE i <= Len(r)
    <3>1. i \in 1 .. Len(r)
      BY <1>1, <2>2
    <3> QED BY <1>1, <1>2, <2>1, <3>1, Zenon DEF Failing
  <2>3. CASE i > Len(r)
    <3>1. i - Len(r) \in 1 .. Len(s) /\ Len(r) + (i - Len(r)) = i
      BY <1>1, <2>3
    <3> QED BY <1>1, <1>2, <2>1, <3>1, Zenon DEF Failing
  <2> QED BY <1>1, <2>2, <2>3
<1>4. ASSUME Failing(r) PROVE Failing(r \o s)
  <2>1. PICK i \in 1 .. Len(r) : r[i].err
    BY <1>1, <1>4, Zenon DEF Failing
  <2>2. i \in 1 .. Len(r) + Len(s)
    BY <1>1
  <2> QED BY <1>1, <1>2, <2>1, <2>2, Zenon DEF Failing
<1>5. ASSUME Failing(s) PROVE Failing(r \o s)
  <2>1. PICK i \in 1 .. Len(s) : s[i].err
    BY <1>1, <1>5, Zenon DEF Failing
  <2>2. Len(r) + i \in 1 .. Len(r) + Len(s)
    BY <1>1
  <2> QED BY <1>1, <1>2, <2>1, <2>2, Zenon DEF Failing
<1> QED BY <1>3, <1>4, <1>5

LEMMA FailingFlattened ==
    ASSUME NEW seqs \in Seq(Seq(Good))
    PROVE  Failing(FlattenSeq(seqs)) <=> \E i \in DOMAIN seqs : Failing(seqs[i])
<1>1. PICK f : Joins(f, seqs)
  BY JoinsExist
<1>2. FlattenSeq(seqs) = f[Len(seqs)] /\ \A i \in 0 .. Len(seqs) : f[i] \in Seq(Good)
  BY <1>1, FlattenJoins, JoinsTyped
<1>3. DOMAIN seqs = 1 .. Len(seqs) /\ Len(seqs) \in Nat /\ \A i \in DOMAIN seqs : seqs[i] \in Seq(Good)
  OBVIOUS
<1> DEFINE G == {n \in 0 .. Len(seqs) : Failing(f[n]) <=> \E i \in 1 .. n : Failing(seqs[i])}
<1>4. 0 \in G
  <2>1. f[0] = <<>> /\ 1 .. 0 = {} /\ 0 \in 0 .. Len(seqs)
    BY <1>1, <1>3 DEF Joins
  <2>2. ~Failing(f[0]) /\ ~\E i \in 1 .. 0 : Failing(seqs[i])
    BY <2>1, NoneFailing, Zenon
  <2> QED BY <2>1, <2>2
<1>5. ASSUME NEW n \in 0 .. Len(seqs) - 1, n \in G PROVE n + 1 \in G
  <2>1. /\ n + 1 \in DOMAIN seqs /\ n \in 0 .. Len(seqs) /\ n + 1 \in 0 .. Len(seqs)
        /\ \A i \in 1 .. n + 1 : i \in 1 .. n \/ i = n + 1
        /\ \A i \in 1 .. n : i \in 1 .. n + 1
        /\ n + 1 \in 1 .. n + 1
    BY <1>3
  <2>2. f[n] \in Seq(Good) /\ seqs[n + 1] \in Seq(Good)
    BY <1>2, <1>3, <2>1
  <2>3. f[n + 1] = f[n] \o seqs[n + 1]
    BY <1>1, Zenon DEF Joins, Adds
  <2>4. Failing(f[n + 1]) <=> Failing(f[n]) \/ Failing(seqs[n + 1])
    BY <2>2, <2>3, FailingJoined
  <2>5. Failing(f[n]) <=> \E i \in 1 .. n : Failing(seqs[i])
    BY <1>5
  <2>6. Failing(f[n + 1]) <=> \E i \in 1 .. n + 1 : Failing(seqs[i])
    BY <2>1, <2>4, <2>5, Zenon
  <2> QED BY <2>1, <2>6
<1>6. \A n \in 0 .. Len(seqs) : n \in G
  <2> HIDE DEF G
  <2> QED BY <1>4, <1>5, JoinInduction
<1>7. Len(seqs) \in 0 .. Len(seqs)
  BY <1>3
<1>8. Failing(f[Len(seqs)]) <=> \E i \in 1 .. Len(seqs) : Failing(seqs[i])
  BY <1>6, <1>7
<1> QED BY <1>2, <1>3, <1>8, Zenon

\* What joins the results fails if one of them does.
LEMMA SqlFails == ASSUME NEW s, NEW args PROVE ~Sql(s, args).err
BY DEF Sql

LEMMA FailureFails == Failure.err
BY DEF Failure

\* Concat, appendToSql and a clause fail exactly if one of their results does,
LEMMA ConcatFails == ASSUME NEW results PROVE Concat(results).err <=> Failing(results)
<1>1. CASE Failing(results)
  <2>1. Concat(results) = Failure
    BY <1>1, Zenon DEF Concat, Failing
  <2> QED BY <1>1, <2>1, FailureFails
<1>2. CASE ~Failing(results)
  <2>1. \E s, args : Concat(results) = Sql(s, args)
    BY <1>2, Zenon DEF Concat, Failing
  <2> QED BY <1>2, <2>1, SqlFails
<1> QED BY <1>1, <1>2

LEMMA AppendedFails == ASSUME NEW results, NEW sep PROVE Appended(results, sep).err <=> Failing(results)
<1>1. CASE Failing(results)
  <2>1. Appended(results, sep) = Failure
    BY <1>1, Zenon DEF Appended, Failing
  <2> QED BY <1>1, <2>1, FailureFails
<1>2. CASE ~Failing(results)
  <2>1. \E s, args : Appended(results, sep) = Sql(s, args)
    BY <1>2, Zenon DEF Appended, Failing
  <2> QED BY <1>2, <2>1, SqlFails
<1> QED BY <1>1, <1>2

LEMMA ClauseFails ==
    ASSUME NEW words \in Seq(STRING), NEW results \in Seq(Good), NEW sep, Separates(sep)
    PROVE  Clause(words, results, sep).err <=> Failing(results)
<1>1. CASE results = <<>>
  <2>1. Clause(words, results, sep) = Nothing /\ ~Nothing.err
    BY <1>1, SqlFails DEF Clause, Nothing
  <2> QED BY <1>1, <2>1, NoneFailing
<1>2. CASE results # <<>>
  <2> DEFINE head == Sql([i \in DOMAIN words |-> K(words[i])], <<>>)
  <2>1. Clause(words, results, sep) = Concat(<<head, Appended(results, sep)>>)
    BY <1>2 DEF Clause
  <2>2. head \in Good /\ ~head.err /\ Appended(results, sep) \in Good
    BY GoodWords, GoodAppended, SqlFails
  <2> HIDE DEF head
  <2>3. Failing(<<head, Appended(results, sep)>>) <=> Failing(results)
    BY <2>2, TwoFailing, AppendedFails
  <2> QED BY <2>1, <2>3, ConcatFails
<1> QED BY <1>1, <1>2

\* names and numbers never.
LEMMA NamesFail == ASSUME NEW words, NEW names PROVE ~Names(words, names).err
<1>1. Names(words, names) = Nothing \/ \E s, args : Names(words, names) = Sql(s, args)
  BY Zenon DEF Names
<1> QED BY <1>1, SqlFails DEF Nothing

LEMMA NumberFails == ASSUME NEW word, NEW n PROVE ~Number(word, n).err
<1>1. Number(word, n) = Nothing \/ \E s, args : Number(word, n) = Sql(s, args)
  BY Zenon DEF Number
<1> QED BY <1>1, SqlFails DEF Nothing

-----------------------------------------------------------------------------
(* Errors among many results *)

\* Tuples of results.
LEMMA EightFailing ==
    ASSUME NEW p1, NEW p2, NEW p3, NEW p4, NEW p5, NEW p6, NEW p7, NEW p8
    PROVE  Failing(<<p1, p2, p3, p4, p5, p6, p7, p8>>)
             <=> p1.err \/ p2.err \/ p3.err \/ p4.err \/ p5.err \/ p6.err \/ p7.err \/ p8.err
<1> DEFINE all == <<p1, p2, p3, p4, p5, p6, p7, p8>>
<1>1. all[1] = p1 /\ all[2] = p2 /\ all[3] = p3 /\ all[4] = p4 /\ all[5] = p5 /\ all[6] = p6 /\ all[7] = p7
      /\ all[8] = p8
  OBVIOUS
<1>2. DOMAIN all = 1 .. 8
  OBVIOUS
<1> HIDE DEF all
<1>3. 1 \in DOMAIN all /\ 2 \in DOMAIN all /\ 3 \in DOMAIN all /\ 4 \in DOMAIN all /\ 5 \in DOMAIN all
      /\ 6 \in DOMAIN all /\ 7 \in DOMAIN all /\ 8 \in DOMAIN all
  BY <1>2
<1>4. \A i \in DOMAIN all : i = 1 \/ i = 2 \/ i = 3 \/ i = 4 \/ i = 5 \/ i = 6 \/ i = 7 \/ i = 8
  BY <1>2
<1>5. Failing(all) <=> p1.err \/ p2.err \/ p3.err \/ p4.err \/ p5.err \/ p6.err \/ p7.err \/ p8.err
  BY <1>1, <1>3, <1>4, Zenon DEF Failing
<1> QED BY <1>5 DEF all

\* Errors among four, eleven and thirteen results.
LEMMA FourFailing ==
    ASSUME NEW p1, NEW p2, NEW p3, NEW p4
    PROVE  Failing(<<p1, p2, p3, p4>>)
             <=> p1.err \/ p2.err \/ p3.err \/ p4.err
<1> DEFINE all == <<p1, p2, p3, p4>>
<1>1. all[1] = p1 /\ all[2] = p2 /\ all[3] = p3 /\ all[4] = p4
  OBVIOUS
<1>2. DOMAIN all = 1 .. 4
  OBVIOUS
<1> HIDE DEF all
<1>3. 1 \in DOMAIN all /\ 2 \in DOMAIN all /\ 3 \in DOMAIN all /\ 4 \in DOMAIN all
  BY <1>2
<1>4. \A i \in DOMAIN all : i = 1 \/ i = 2 \/ i = 3 \/ i = 4
  BY <1>2
<1>5. Failing(all) <=> p1.err \/ p2.err \/ p3.err \/ p4.err
  BY <1>1, <1>3, <1>4, Zenon DEF Failing
<1> QED BY <1>5 DEF all

LEMMA ElevenFailing ==
    ASSUME NEW p1, NEW p2, NEW p3, NEW p4, NEW p5, NEW p6, NEW p7, NEW p8, NEW p9, NEW p10, NEW p11
    PROVE  Failing(<<p1, p2, p3, p4, p5, p6, p7, p8, p9, p10, p11>>)
             <=> p1.err \/ p2.err \/ p3.err \/ p4.err \/ p5.err \/ p6.err \/ p7.err \/ p8.err \/ p9.err \/ p10.err \/ p11.err
<1> DEFINE all == <<p1, p2, p3, p4, p5, p6, p7, p8, p9, p10, p11>>
<1>1. all[1] = p1 /\ all[2] = p2 /\ all[3] = p3 /\ all[4] = p4 /\ all[5] = p5 /\ all[6] = p6 /\ all[7] = p7
      /\ all[8] = p8 /\ all[9] = p9 /\ all[10] = p10 /\ all[11] = p11
  OBVIOUS
<1>2. DOMAIN all = 1 .. 11
  OBVIOUS
<1> HIDE DEF all
<1>3. 1 \in DOMAIN all /\ 2 \in DOMAIN all /\ 3 \in DOMAIN all /\ 4 \in DOMAIN all /\ 5 \in DOMAIN all
      /\ 6 \in DOMAIN all /\ 7 \in DOMAIN all /\ 8 \in DOMAIN all /\ 9 \in DOMAIN all /\ 10 \in DOMAIN all
      /\ 11 \in DOMAIN all
  BY <1>2
<1>4. \A i \in DOMAIN all : i = 1 \/ i = 2 \/ i = 3 \/ i = 4 \/ i = 5 \/ i = 6 \/ i = 7 \/ i = 8 \/ i = 9 \/ i = 10 \/ i = 11
  BY <1>2
<1>5. Failing(all) <=> p1.err \/ p2.err \/ p3.err \/ p4.err \/ p5.err \/ p6.err \/ p7.err \/ p8.err \/ p9.err \/ p10.err \/ p11.err
  BY <1>1, <1>3, <1>4, Zenon DEF Failing
<1> QED BY <1>5 DEF all

LEMMA ThirteenFailing ==
    ASSUME NEW p1, NEW p2, NEW p3, NEW p4, NEW p5, NEW p6, NEW p7, NEW p8, NEW p9, NEW p10, NEW p11, NEW p12, NEW p13
    PROVE  Failing(<<p1, p2, p3, p4, p5, p6, p7, p8, p9, p10, p11, p12, p13>>)
             <=> p1.err \/ p2.err \/ p3.err \/ p4.err \/ p5.err \/ p6.err \/ p7.err \/ p8.err \/ p9.err \/ p10.err \/ p11.err \/ p12.err \/ p13.err
<1> DEFINE all == <<p1, p2, p3, p4, p5, p6, p7, p8, p9, p10, p11, p12, p13>>
<1>1. all[1] = p1 /\ all[2] = p2 /\ all[3] = p3 /\ all[4] = p4 /\ all[5] = p5 /\ all[6] = p6 /\ all[7] = p7
      /\ all[8] = p8 /\ all[9] = p9 /\ all[10] = p10 /\ all[11] = p11 /\ all[12] = p12 /\ all[13] = p13
  OBVIOUS
<1>2. DOMAIN all = 1 .. 13
  OBVIOUS
<1> HIDE DEF all
<1>3. 1 \in DOMAIN all /\ 2 \in DOMAIN all /\ 3 \in DOMAIN all /\ 4 \in DOMAIN all /\ 5 \in DOMAIN all
      /\ 6 \in DOMAIN all /\ 7 \in DOMAIN all /\ 8 \in DOMAIN all /\ 9 \in DOMAIN all /\ 10 \in DOMAIN all
      /\ 11 \in DOMAIN all /\ 12 \in DOMAIN all /\ 13 \in DOMAIN all
  BY <1>2
<1>4. \A i \in DOMAIN all : i = 1 \/ i = 2 \/ i = 3 \/ i = 4 \/ i = 5 \/ i = 6 \/ i = 7 \/ i = 8 \/ i = 9 \/ i = 10 \/ i = 11 \/ i = 12 \/ i = 13
  BY <1>2
<1>5. Failing(all) <=> p1.err \/ p2.err \/ p3.err \/ p4.err \/ p5.err \/ p6.err \/ p7.err \/ p8.err \/ p9.err \/ p10.err \/ p11.err \/ p12.err \/ p13.err
  BY <1>1, <1>3, <1>4, Zenon DEF Failing
<1> QED BY <1>5 DEF all

-----------------------------------------------------------------------------
(* What conditions and expressions fail on *)

\* An Eq fails on slices and Valuers that fail,
LEMMA EqEntryFails ==
    ASSUME NEW entry \in STRING \X Comparands, NEW not \in BOOLEAN
    PROVE  EqEntry(entry, not).err <=> entry[2].k \in {"list", "badValuer"}
<1>1. entry[2].k \in {"val", "list", "null", "badValuer"}
  BY ComparandKinds
<1>2. CASE entry[2].k \in {"val", "null"}
  <2>1. \E s, args : EqEntry(entry, not) = Sql(s, args)
    <3>1. CASE entry[2].k = "null"
      <4>1. EqEntry(entry, not)
              = Sql(<<N(entry[1]), K(IF not THEN "IS NOT" ELSE "IS"), K("NULL")>>, <<>>)
        BY <3>1 DEF EqEntry
      <4> QED BY <4>1, Zenon
    <3>2. CASE entry[2].k = "val"
      <4>1. EqEntry(entry, not)
              = Sql(<<N(entry[1]), K(IF not THEN "<>" ELSE "="), P(entry[2].v)>>, <<entry[2].v>>)
        BY <3>2 DEF EqEntry
      <4> QED BY <4>1, Zenon
    <3> QED BY <1>2, <3>1, <3>2
  <2> QED BY <1>2, <2>1, SqlFails
<1>3. CASE entry[2].k \in {"list", "badValuer"}
  <2>1. EqEntry(entry, not) = Failure
    BY <1>3 DEF EqEntry
  <2> QED BY <1>3, <2>1, FailureFails
<1> QED BY <1>1, <1>2, <1>3

LEMMA EqFails ==
    ASSUME NEW map \in Entries, NEW not \in BOOLEAN
    PROVE  EqSql(map, not).err <=> \E i \in DOMAIN map : map[i][2].k \in {"list", "badValuer"}
<1> DEFINE entries == [i \in DOMAIN map |-> EqEntry(map[i], not)]
<1>1. \A i \in DOMAIN map : entries[i].err <=> map[i][2].k \in {"list", "badValuer"}
  <2>1. \A i \in DOMAIN map : map[i] \in STRING \X Comparands
    BY DEF Entries
  <2>2. \A i \in DOMAIN map : EqEntry(map[i], not).err <=> map[i][2].k \in {"list", "badValuer"}
    BY <2>1, EqEntryFails
  <2> QED BY <2>2, Zenon
<1>2. CASE map = <<>>
  <2>1. \E s, args : EqSql(map, not) = Sql(s, args)
    BY <1>2, Zenon DEF EqSql
  <2>2. ~EqSql(map, not).err
    BY <2>1, SqlFails
  <2>3. DOMAIN map = {}
    BY <1>2
  <2> QED BY <2>2, <2>3, Zenon
<1>3. CASE map # <<>> /\ \E i \in DOMAIN entries : entries[i].err
  <2>1. EqSql(map, not) = Failure
    BY <1>3, Zenon DEF EqSql
  <2>2. \E i \in DOMAIN map : map[i][2].k \in {"list", "badValuer"}
    BY <1>1, <1>3, Zenon
  <2> QED BY <2>1, <2>2, FailureFails
<1>4. CASE map # <<>> /\ ~\E i \in DOMAIN entries : entries[i].err
  <2>1. \E s, args : EqSql(map, not) = Sql(s, args)
    BY <1>4, Zenon DEF EqSql
  <2>2. ~\E i \in DOMAIN map : map[i][2].k \in {"list", "badValuer"}
    BY <1>1, <1>4, Zenon
  <2>3. ~EqSql(map, not).err
    BY <2>1, SqlFails
  <2> QED BY <2>2, <2>3, Zenon
<1> QED BY <1>2, <1>3, <1>4

\* a comparison on everything that is not a value,
LEMMA CmpFails == ASSUME NEW map, NEW op PROVE CmpSql(map, op).err <=> \E i \in DOMAIN map : map[i][2].k # "val"
<1>1. CASE \E i \in DOMAIN map : map[i][2].k # "val"
  <2>1. CmpSql(map, op) = Failure
    BY <1>1, Zenon DEF CmpSql
  <2> QED BY <1>1, <2>1, FailureFails
<1>2. CASE ~\E i \in DOMAIN map : map[i][2].k # "val"
  <2>1. \E s, args : CmpSql(map, op) = Sql(s, args)
    BY <1>2, Zenon DEF CmpSql
  <2>2. ~CmpSql(map, op).err
    BY <2>1, SqlFails
  <2> QED BY <1>2, <2>2, Zenon
<1> QED BY <1>1, <1>2

\* an IN on nil and Valuers that fail,
LEMMA InFails ==
    ASSUME NEW col, NEW val \in Comparands, NEW not
    PROVE  InSql(col, val, not).err <=> val.k \in {"null", "badValuer"}
<1>1. val.k \in {"val", "list", "null", "badValuer"}
  BY ComparandKinds
<1> DEFINE in(vs) == Sql(<<N(col), K(IF not THEN "NOT IN" ELSE "IN")>> \o Parens(Placeholders(vs)), vs)
           literal == Sql(<<IF not THEN sqlTrue ELSE sqlFalse>>, <<>>)
<1>2. ~literal.err /\ \A vs : ~in(vs).err
  BY SqlFails
<1>3. CASE val.k = "list" /\ val.vs = <<>>
  <2>1. InSql(col, val, not) = literal
    BY <1>3 DEF InSql
  <2> QED BY <1>2, <1>3, <2>1
<1>4. CASE val.k = "list" /\ val.vs # <<>>
  <2>1. InSql(col, val, not) = in(val.vs)
    BY <1>4 DEF InSql
  <2> QED BY <1>2, <1>4, <2>1
<1>5. CASE val.k = "val"
  <2>1. InSql(col, val, not) = in(<<val.v>>)
    BY <1>5 DEF InSql
  <2> QED BY <1>2, <1>5, <2>1
<1>6. CASE val.k \in {"null", "badValuer"}
  <2>1. InSql(col, val, not) = Failure
    BY <1>6 DEF InSql
  <2> QED BY <1>6, <2>1, FailureFails
<1> QED BY <1>1, <1>3, <1>4, <1>5, <1>6

\* And and Or if a part does,
LEMMA ConjFails == ASSUME NEW results, NEW op PROVE ConjSql(results, op).err <=> Failing(results)
<1> DEFINE written == NonEmpty(results)
           failed == \E i \in DOMAIN results : results[i].err
<1>1. CASE results = <<>>
  <2>1. ConjSql(results, op) = Sql(<<IF op = "AND" THEN sqlTrue ELSE sqlFalse>>, <<>>)
    BY <1>1 DEF ConjSql
  <2>2. ~Failing(results)
    BY <1>1, NoneFailing
  <2>3. ~ConjSql(results, op).err
    BY <2>1, SqlFails
  <2> QED BY <2>2, <2>3, Zenon
<1>2. CASE results # <<>> /\ failed
  <2>1. ConjSql(results, op) = Failure
    BY <1>2 DEF ConjSql
  <2>2. Failing(results)
    BY <1>2, Zenon DEF Failing
  <2> QED BY <2>1, <2>2, FailureFails
<1>3. CASE results # <<>> /\ ~failed
  <2>1. ~Failing(results)
    BY <1>3, Zenon DEF Failing
  <2>2. CASE written = <<>>
    <3>1. ConjSql(results, op) = Nothing
      BY <1>3, <2>2 DEF ConjSql
    <3>2. ~ConjSql(results, op).err
      BY <3>1, SqlFails DEF Nothing
    <3> QED BY <2>1, <3>2, Zenon
  <2>3. CASE written # <<>>
    <3>1. ConjSql(results, op)
            = Sql(Parens(Join([i \in DOMAIN written |-> written[i].sql], <<K(op)>>)), Concat(written).args)
      BY <1>3, <2>3 DEF ConjSql
    <3>2. ~ConjSql(results, op).err
      BY <3>1, SqlFails
    <3> QED BY <2>1, <3>2, Zenon
  <2> QED BY <2>2, <2>3
<1> QED BY <1>1, <1>2, <1>3

\* an Expr if a nested Sqlizer does,
LEMMA ExprFails ==
    ASSUME NEW tokens, NEW given, NEW results
    PROVE  ExprSql(tokens, given, results).err
             <=> \E i \in DOMAIN given : IsSqlizer(given[i]) /\ results[i].err
<1> DEFINE failed == \E i \in {j \in DOMAIN given : IsSqlizer(given[j])} : results[i].err
<1>1. failed <=> \E i \in DOMAIN given : IsSqlizer(given[i]) /\ results[i].err
  BY Zenon
<1>2. CASE failed
  <2>1. ExprSql(tokens, given, results) = Failure
    BY <1>2, Zenon DEF ExprSql
  <2> QED BY <1>1, <1>2, <2>1, FailureFails
<1>3. CASE ~failed
  <2>1. \E s, args : ExprSql(tokens, given, results) = Sql(s, args)
    BY <1>3, Zenon DEF ExprSql
  <2>2. ~ExprSql(tokens, given, results).err
    BY <2>1, SqlFails
  <2> QED BY <1>1, <1>3, <2>2, Zenon
<1> QED BY <1>2, <1>3

\* and a CASE if a part does or it has no WHEN.
LEMMA CaseFails ==
    ASSUME NEW what \in Seq(Good), NEW whens \in Seq(Good \X Good), NEW els \in Seq(Good)
    PROVE  CaseSql(what, whens, els).err
             <=> \/ whens = <<>> \/ Failing(what) \/ Failing(els)
                 \/ \E i \in DOMAIN whens : whens[i][1].err \/ whens[i][2].err
<1> DEFINE branch(i) == <<Word("WHEN"), whens[i][1], Word("THEN"), whens[i][2]>>
           branches == [i \in DOMAIN whens |-> branch(i)]
           else == IF els = <<>> THEN <<>> ELSE <<Word("ELSE")>> \o els
           head == <<Word("CASE")>>
           tail == <<Word("END")>>
           all == head \o what \o FlattenSeq(branches) \o else \o tail
<1>1. /\ Word("CASE") \in Good /\ Word("WHEN") \in Good /\ Word("THEN") \in Good
      /\ Word("ELSE") \in Good /\ Word("END") \in Good
  BY GoodKeyword DEF Keywords
<1>2. \A w : ~Word(w).err
  BY SqlFails DEF Word
<1>3. DOMAIN whens = 1 .. Len(whens) /\ Len(whens) \in Nat
      /\ \A i \in DOMAIN whens : whens[i][1] \in Good /\ whens[i][2] \in Good
  OBVIOUS
<1>4. \A i \in DOMAIN whens : branch(i) \in Seq(Good)
      /\ (Failing(branch(i)) <=> whens[i][1].err \/ whens[i][2].err)
  <2>1. ASSUME NEW x \in Good, NEW y \in Good
        PROVE  /\ <<Word("WHEN"), x, Word("THEN"), y>> \in Seq(Good)
               /\ Failing(<<Word("WHEN"), x, Word("THEN"), y>>) <=> x.err \/ y.err
    <3>1. <<Word("WHEN"), x, Word("THEN"), y>> \in Seq(Good)
      BY <1>1
    <3>2. Failing(<<Word("WHEN"), x, Word("THEN"), y>>)
            <=> Word("WHEN").err \/ x.err \/ Word("THEN").err \/ y.err
      BY FourFailing
    <3> QED BY <1>2, <3>1, <3>2
  <2> QED BY <1>3, <2>1, Zenon
<1> HIDE DEF branch
<1>5. branches \in Seq(Seq(Good)) /\ DOMAIN branches = DOMAIN whens
      /\ \A i \in DOMAIN whens : branches[i] = branch(i)
  BY <1>3, <1>4
<1>6. /\ FlattenSeq(branches) \in Seq(Good)
      /\ Failing(FlattenSeq(branches)) <=> \E i \in DOMAIN whens : whens[i][1].err \/ whens[i][2].err
  <2> HIDE DEF branches
  <2>1. FlattenSeq(branches) \in Seq(Good)
    BY <1>5, FlattenType
  <2>2. Failing(FlattenSeq(branches)) <=> \E i \in DOMAIN branches : Failing(branches[i])
    BY <1>5, FailingFlattened
  <2> QED BY <1>4, <1>5, <2>1, <2>2, Zenon
<1>7. else \in Seq(Good) /\ (Failing(else) <=> Failing(els))
  <2>1. CASE els = <<>>
    BY <2>1
  <2>2. CASE els # <<>>
    <3>1. <<Word("ELSE")>> \in Seq(Good) /\ (Failing(<<Word("ELSE")>>) <=> FALSE)
      BY <1>1, <1>2, OneFailing
    <3>2. <<Word("ELSE")>> \o els \in Seq(Good)
      BY <3>1
    <3>3. Failing(<<Word("ELSE")>> \o els) <=> Failing(els)
      BY <3>1, FailingJoined
    <3> QED BY <2>2, <3>2, <3>3
  <2> QED BY <2>1, <2>2
<1>8. head \in Seq(Good) /\ tail \in Seq(Good) /\ ~Failing(head) /\ ~Failing(tail)
  BY <1>1, <1>2, OneFailing
<1>9. CaseSql(what, whens, els) = IF whens = <<>> THEN Failure ELSE Concat(all)
  BY Zenon DEF CaseSql, branch
<1> HIDE DEF branches, else, head, tail
<1>10. Failing(all) <=> Failing(what) \/ Failing(FlattenSeq(branches)) \/ Failing(else)
  <2>1. head \o what \in Seq(Good) /\ FlattenSeq(branches) \in Seq(Good)
        /\ (head \o what) \o FlattenSeq(branches) \in Seq(Good)
        /\ ((head \o what) \o FlattenSeq(branches)) \o else \in Seq(Good)
    BY <1>6, <1>7, <1>8
  <2>2. Failing(head \o what) <=> Failing(head) \/ Failing(what)
    BY <1>8, FailingJoined, Zenon
  <2>3. Failing((head \o what) \o FlattenSeq(branches))
          <=> Failing(head \o what) \/ Failing(FlattenSeq(branches))
    BY <2>1, FailingJoined, Zenon
  <2>4. Failing(((head \o what) \o FlattenSeq(branches)) \o else)
          <=> Failing((head \o what) \o FlattenSeq(branches)) \/ Failing(else)
    BY <1>7, <2>1, FailingJoined, Zenon
  <2>5. Failing(all) <=> Failing(((head \o what) \o FlattenSeq(branches)) \o else) \/ Failing(tail)
    BY <1>8, <2>1, FailingJoined, Zenon
  <2> HIDE DEF all
  <2> QED BY <1>8, <2>2, <2>3, <2>4, <2>5, Zenon
<1>11. Concat(all).err <=> Failing(all)
  BY ConcatFails
<1> HIDE DEF all
<1>12. CASE whens = <<>>
  BY <1>9, <1>12, FailureFails
<1>13. CASE whens # <<>>
  BY <1>6, <1>7, <1>9, <1>10, <1>11, <1>13
<1> QED BY <1>12, <1>13

-----------------------------------------------------------------------------
(* What statements fail on *)

\* What a SELECT fails on.
SelectFailing(s, prefixes, columns, from, joins, where, having, orderBy, suffixes) ==
    \/ s.columns = <<>>
    \/ Failing(prefixes) \/ Failing(columns) \/ Failing(from) \/ Failing(joins)
    \/ Failing(where) \/ Failing(having) \/ Failing(orderBy) \/ Failing(suffixes)

\* A SELECT fails without columns, or if a part does,
LEMMA SelectFails ==
    ASSUME NEW s, s.options \in Seq(STRING), s.groupBys \in Seq(STRING),
           s.limit \in STRING, s.offset \in STRING,
           NEW prefixes \in Seq(Good), NEW columns \in Seq(Good), NEW from \in Seq(Good),
           NEW joins \in Seq(Good), NEW where \in Seq(Good), NEW having \in Seq(Good),
           NEW orderBy \in Seq(Good), NEW suffixes \in Seq(Good)
    PROVE  SelectSql(s, prefixes, columns, from, joins, where, having, orderBy, suffixes).err
             <=> SelectFailing(s, prefixes, columns, from, joins, where, having, orderBy, suffixes)
<1> DEFINE p1 == Appended(prefixes, <<>>)
           p2 == Word("SELECT")
           p3 == Sql([i \in DOMAIN s.options |-> K(s.options[i])], <<>>)
           p4 == Appended(columns, Comma)
           p5 == Clause(<<"FROM">>, from, <<>>)
           p6 == Appended(joins, <<>>)
           p7 == Clause(<<"WHERE">>, where, And)
           p8 == Names(<<"GROUP BY">>, s.groupBys)
           p9 == Clause(<<"HAVING">>, having, And)
           p10 == Clause(<<"ORDER BY">>, orderBy, Comma)
           p11 == Number("LIMIT", s.limit)
           p12 == Number("OFFSET", s.offset)
           p13 == Appended(suffixes, <<>>)
           parts == <<p1, p2, p3, p4, p5, p6, p7, p8, p9, p10, p11, p12, p13>>
           written == SelectSql(s, prefixes, columns, from, joins, where, having, orderBy, suffixes)
<1>1. /\ <<"FROM">> \in Seq(STRING) /\ <<"WHERE">> \in Seq(STRING)
      /\ <<"HAVING">> \in Seq(STRING) /\ <<"ORDER BY">> \in Seq(STRING)
  BY GoodKeyword DEF Keywords
<1>2. /\ p1.err <=> Failing(prefixes)
      /\ p4.err <=> Failing(columns)
      /\ p6.err <=> Failing(joins)
      /\ p13.err <=> Failing(suffixes)
  BY AppendedFails
<1>3. p5.err <=> Failing(from)
  BY <1>1, Separators, ClauseFails, Zenon
<1>4. p7.err <=> Failing(where)
  BY <1>1, Separators, ClauseFails, Zenon
<1>5. p9.err <=> Failing(having)
  BY <1>1, Separators, ClauseFails, Zenon
<1>6. p10.err <=> Failing(orderBy)
  BY <1>1, Separators, ClauseFails, Zenon
<1>7. ~p2.err /\ ~p3.err /\ ~p8.err /\ ~p11.err /\ ~p12.err
  BY SqlFails, NamesFail, NumberFails DEF Word
<1>8. s.columns = <<>> => written = Failure
  BY Zenon DEF SelectSql
<1>9. s.columns # <<>> => written = Concat(parts)
  BY Zenon DEF SelectSql
<1> HIDE DEF p1, p2, p3, p4, p5, p6, p7, p8, p9, p10, p11, p12, p13, written
<1>10. Failing(parts)
         <=> \/ p1.err \/ p2.err \/ p3.err \/ p4.err \/ p5.err \/ p6.err \/ p7.err
             \/ p8.err \/ p9.err \/ p10.err \/ p11.err \/ p12.err \/ p13.err
  BY ThirteenFailing, SMTT(40)
<1>11. Concat(parts).err <=> Failing(parts)
  BY ConcatFails
<1> HIDE DEF parts
<1>12. written.err
         <=> \/ s.columns = <<>>
             \/ Failing(prefixes) \/ Failing(columns) \/ Failing(from) \/ Failing(joins)
             \/ Failing(where) \/ Failing(having) \/ Failing(orderBy) \/ Failing(suffixes)
  BY <1>2, <1>3, <1>4, <1>5, <1>6, <1>7, <1>8, <1>9, <1>10, <1>11, FailureFails, Zenon
<1> QED BY <1>12 DEF written, SelectFailing

\* a DELETE without table, or if a part does,
LEMMA DeleteFails ==
    ASSUME NEW s, s.table \in STRING, s.orderBys \in Seq(STRING), s.limit \in STRING, s.offset \in STRING,
           NEW prefixes \in Seq(Good), NEW where \in Seq(Good), NEW suffixes \in Seq(Good)
    PROVE  DeleteSql(s, prefixes, where, suffixes).err
             <=> s.table = "" \/ Failing(prefixes) \/ Failing(where) \/ Failing(suffixes)
<1> DEFINE p1 == Appended(prefixes, <<>>)
           p2 == Word("DELETE FROM")
           p3 == Sql(<<N(s.table)>>, <<>>)
           p4 == Clause(<<"WHERE">>, where, And)
           p5 == Names(<<"ORDER BY">>, s.orderBys)
           p6 == Number("LIMIT", s.limit)
           p7 == Number("OFFSET", s.offset)
           p8 == Appended(suffixes, <<>>)
           parts == <<p1, p2, p3, p4, p5, p6, p7, p8>>
           written == DeleteSql(s, prefixes, where, suffixes)
<1>1. <<"WHERE">> \in Seq(STRING)
  BY GoodKeyword DEF Keywords
<1>2. (p1.err <=> Failing(prefixes)) /\ (p8.err <=> Failing(suffixes))
  BY AppendedFails
<1>3. p4.err <=> Failing(where)
  BY <1>1, Separators, ClauseFails, Zenon
<1>4. ~p2.err /\ ~p3.err /\ ~p5.err /\ ~p6.err /\ ~p7.err
  BY SqlFails, NamesFail, NumberFails DEF Word
<1>5. s.table = "" => written = Failure
  BY Zenon DEF DeleteSql
<1>6. s.table # "" => written = Concat(parts)
  BY Zenon DEF DeleteSql
<1> HIDE DEF p1, p2, p3, p4, p5, p6, p7, p8, written
<1>7. Failing(parts)
        <=> p1.err \/ p2.err \/ p3.err \/ p4.err \/ p5.err \/ p6.err \/ p7.err \/ p8.err
  BY EightFailing
<1>8. Concat(parts).err <=> Failing(parts)
  BY ConcatFails
<1> HIDE DEF parts
<1>9. written.err <=> s.table = "" \/ Failing(prefixes) \/ Failing(where) \/ Failing(suffixes)
  BY <1>2, <1>3, <1>4, <1>5, <1>6, <1>7, <1>8, FailureFails, Zenon
<1> QED BY <1>9 DEF written

\* an UPDATE without table or assignments, or if a part or a value does,
LEMMA SetFails ==
    ASSUME NEW S, NEW clause \in STRING \X S, NEW result \in Good
    PROVE  SetSql(clause, result).err <=> result.err
<1> DEFINE plain == Sql(<<N(clause[1]), K("=")>>, <<>>)
           open == Sql(<<N(clause[1]), K("="), K("(")>>, <<>>)
           close == Word(")")
<1>1. clause[1] \in STRING
  OBVIOUS
<1>2. N(clause[1]) \in Tokens /\ Mark(N(clause[1])) = <<>>
  BY <1>1, TokenTypes, Zenon
<1>3. K("=") \in Tokens /\ Mark(K("=")) = <<>> /\ K("(") \in Tokens /\ Mark(K("(")) = <<>>
  BY KeywordTokens DEF Keywords
<1>4. plain \in Good
  BY <1>2, <1>3, PlainPair, GoodPlain
<1>5. open \in Good
  BY <1>2, <1>3, MarkedTriple, GoodSql
<1>6. close \in Good
  BY GoodKeyword DEF Keywords
<1>7. ~plain.err /\ ~open.err /\ ~close.err
  BY SqlFails DEF Word
<1>8. SetSql(clause, result) \in {Concat(<<plain, result>>), Concat(<<open, result, close>>)}
  <2>1. CASE ~IsSqlizer(clause[2])
    BY <2>1 DEF SetSql
  <2>2. CASE IsSqlizer(clause[2]) /\ clause[2].k = "select"
    BY <2>2 DEF SetSql
  <2>3. CASE IsSqlizer(clause[2]) /\ clause[2].k # "select"
    BY <2>3 DEF SetSql
  <2> QED BY <2>1, <2>2, <2>3
<1> HIDE DEF plain, open, close
<1>9. Failing(<<plain, result>>) <=> result.err
  BY <1>4, <1>7, TwoFailing
<1>10. Failing(<<open, result, close>>) <=> result.err
  BY <1>5, <1>6, <1>7, ThreeFailing
<1>11. Concat(<<plain, result>>).err <=> result.err
  BY <1>9, ConcatFails
<1>12. Concat(<<open, result, close>>).err <=> result.err
  BY <1>10, ConcatFails
<1> QED BY <1>8, <1>11, <1>12

\* What an UPDATE fails on.
UpdateFailing(s, prefixes, values, from, where, suffixes) ==
    \/ s.table = "" \/ s.sets = <<>>
    \/ Failing(prefixes) \/ Failing(values) \/ Failing(from) \/ Failing(where) \/ Failing(suffixes)

LEMMA UpdateFails ==
    ASSUME NEW S, NEW s, s.table \in STRING, s.sets \in Seq(STRING \X S), s.orderBys \in Seq(STRING),
           s.limit \in STRING, s.offset \in STRING,
           NEW prefixes \in Seq(Good), NEW values \in Seq(Good), DOMAIN values = DOMAIN s.sets,
           NEW from \in Seq(Good), NEW where \in Seq(Good), NEW suffixes \in Seq(Good)
    PROVE  UpdateSql(s, prefixes, values, from, where, suffixes).err
             <=> UpdateFailing(s, prefixes, values, from, where, suffixes)
<1> DEFINE sets == [i \in DOMAIN s.sets |-> SetSql(s.sets[i], values[i])]
           p1 == Appended(prefixes, <<>>)
           p2 == Word("UPDATE")
           p3 == Sql(<<N(s.table)>>, <<>>)
           p4 == Word("SET")
           p5 == IF \E i \in DOMAIN sets : sets[i].err THEN Failure
                 ELSE Sql(Join([i \in DOMAIN sets |-> sets[i].sql], Comma), Concat(sets).args)
           p6 == Clause(<<"FROM">>, from, <<>>)
           p7 == Clause(<<"WHERE">>, where, And)
           p8 == Names(<<"ORDER BY">>, s.orderBys)
           p9 == Number("LIMIT", s.limit)
           p10 == Number("OFFSET", s.offset)
           p11 == Appended(suffixes, <<>>)
           parts == <<p1, p2, p3, p4, p5, p6, p7, p8, p9, p10, p11>>
           written == UpdateSql(s, prefixes, values, from, where, suffixes)
<1>1. <<"FROM">> \in Seq(STRING) /\ <<"WHERE">> \in Seq(STRING)
  BY GoodKeyword DEF Keywords
<1>2. (p1.err <=> Failing(prefixes)) /\ (p11.err <=> Failing(suffixes))
  BY AppendedFails
<1>3. p6.err <=> Failing(from)
  BY <1>1, Separators, ClauseFails, Zenon
<1>4. p7.err <=> Failing(where)
  BY <1>1, Separators, ClauseFails, Zenon
<1>5. ~p2.err /\ ~p3.err /\ ~p4.err /\ ~p8.err /\ ~p9.err /\ ~p10.err
  BY SqlFails, NamesFail, NumberFails DEF Word
<1>6. p5.err <=> Failing(values)
  <2>1. \A i \in DOMAIN s.sets : s.sets[i] \in STRING \X S /\ values[i] \in Good
    OBVIOUS
  <2>2. \A i \in DOMAIN s.sets : SetSql(s.sets[i], values[i]).err <=> values[i].err
    BY <2>1, SetFails
  <2>3. DOMAIN sets = DOMAIN values /\ \A i \in DOMAIN sets : sets[i].err <=> values[i].err
    BY <2>2, Zenon
  <2> HIDE DEF sets
  <2>4. (\E i \in DOMAIN sets : sets[i].err) <=> Failing(values)
    BY <2>3, Zenon DEF Failing
  <2> QED BY <2>4, FailureFails, SqlFails
<1>7. s.table = "" \/ s.sets = <<>> => written = Failure
  BY Zenon DEF UpdateSql
<1>8. ~(s.table = "" \/ s.sets = <<>>) => written = Concat(parts)
  BY Zenon DEF UpdateSql
<1> HIDE DEF p1, p2, p3, p4, p5, p6, p7, p8, p9, p10, p11, written
<1>9. Failing(parts)
        <=> \/ p1.err \/ p2.err \/ p3.err \/ p4.err \/ p5.err \/ p6.err
            \/ p7.err \/ p8.err \/ p9.err \/ p10.err \/ p11.err
  BY ElevenFailing
<1>10. Concat(parts).err <=> Failing(parts)
  BY ConcatFails
<1> HIDE DEF parts
<1>11. written.err
         <=> \/ s.table = "" \/ s.sets = <<>>
             \/ Failing(prefixes) \/ Failing(values) \/ Failing(from) \/ Failing(where) \/ Failing(suffixes)
  BY <1>2, <1>3, <1>4, <1>5, <1>6, <1>7, <1>8, <1>9, <1>10, FailureFails, Zenon
<1> QED BY <1>11 DEF written, UpdateFailing

\* and an INSERT without rows and SELECT, or if what it writes of them fails.
LEMMA RowFails == ASSUME NEW results PROVE RowSql(results).err <=> Failing(results)
<1>1. CASE Failing(results)
  <2>1. RowSql(results) = Failure
    BY <1>1, Zenon DEF RowSql, Failing
  <2> QED BY <1>1, <2>1, FailureFails
<1>2. CASE ~Failing(results)
  <2>1. \E sql, args : RowSql(results) = Sql(sql, args)
    BY <1>2, Zenon DEF RowSql, Failing
  <2> QED BY <1>2, <2>1, SqlFails
<1> QED BY <1>1, <1>2

LEMMA InsertFails ==
    ASSUME NEW s, s.keyword \in STRING, s.options \in Seq(STRING), s.table \in STRING, s.cols \in Seq(STRING),
           NEW prefixes \in Seq(Good), NEW rows \in Seq(Seq(Good)), NEW select \in Seq(Good),
           NEW suffixes \in Seq(Good)
    PROVE  InsertSql(s, prefixes, rows, select, suffixes).err
             <=> \/ s.table = "" \/ (s.rows = <<>> /\ select = <<>>)
                 \/ Failing(prefixes) \/ Failing(suffixes)
                 \/ select # <<>> /\ select[1].err
                 \/ select = <<>> /\ \E i \in DOMAIN rows : Failing(rows[i])
<1> DEFINE written == [i \in DOMAIN rows |-> RowSql(rows[i])]
           values == IF \E i \in DOMAIN written : written[i].err THEN Failure
                     ELSE Sql(<<K("VALUES")>> \o Join([i \in DOMAIN written |-> written[i].sql], Comma),
                              Concat(written).args)
           p1 == Appended(prefixes, <<>>)
           p2 == Word(IF s.keyword = "" THEN "INSERT" ELSE s.keyword)
           p3 == Sql([i \in DOMAIN s.options |-> K(s.options[i])], <<>>)
           p4 == Word("INTO")
           p5 == Sql(<<N(s.table)>>, <<>>)
           p6 == IF s.cols = <<>> THEN Nothing
                 ELSE Sql(Parens(Join([i \in DOMAIN s.cols |-> <<N(s.cols[i])>>], Comma)), <<>>)
           p7 == IF select # <<>> THEN select[1] ELSE values
           p8 == Appended(suffixes, <<>>)
           parts == <<p1, p2, p3, p4, p5, p6, p7, p8>>
           whole == InsertSql(s, prefixes, rows, select, suffixes)
<1>1. (p1.err <=> Failing(prefixes)) /\ (p8.err <=> Failing(suffixes))
  BY AppendedFails
<1>2. ~p2.err /\ ~p3.err /\ ~p4.err /\ ~p5.err
  BY SqlFails DEF Word
<1>3. ~p6.err
  <2>1. ~Nothing.err
    BY SqlFails DEF Nothing
  <2> QED BY <2>1, SqlFails
<1>4. values.err <=> \E i \in DOMAIN rows : Failing(rows[i])
  <2>1. DOMAIN written = DOMAIN rows /\ \A i \in DOMAIN written : written[i].err <=> Failing(rows[i])
    BY RowFails, Zenon
  <2> HIDE DEF written
  <2> QED BY <2>1, FailureFails, SqlFails
<1>5. s.table = "" \/ (s.rows = <<>> /\ select = <<>>) => whole = Failure
  BY Zenon DEF InsertSql
<1>6. ~(s.table = "" \/ (s.rows = <<>> /\ select = <<>>)) => whole = Concat(parts)
  BY Zenon DEF InsertSql
<1> HIDE DEF values
<1>7. p7.err <=> \/ select # <<>> /\ select[1].err
                 \/ select = <<>> /\ \E i \in DOMAIN rows : Failing(rows[i])
  <2>1. CASE select # <<>>
    BY <2>1
  <2>2. CASE select = <<>>
    BY <1>4, <2>2
  <2> QED BY <2>1, <2>2
<1> HIDE DEF p1, p2, p3, p4, p5, p6, p7, p8, whole
<1>8. Failing(parts)
        <=> p1.err \/ p2.err \/ p3.err \/ p4.err \/ p5.err \/ p6.err \/ p7.err \/ p8.err
  BY EightFailing
<1>9. Concat(parts).err <=> Failing(parts)
  BY ConcatFails
<1> HIDE DEF parts
<1>10. whole.err
         <=> \/ s.table = "" \/ (s.rows = <<>> /\ select = <<>>)
             \/ Failing(prefixes) \/ Failing(suffixes)
             \/ select # <<>> /\ select[1].err
             \/ select = <<>> /\ \E i \in DOMAIN rows : Failing(rows[i])
  BY <1>1, <1>2, <1>3, <1>5, <1>6, <1>7, <1>8, <1>9, FailureFails, Zenon
<1> QED BY <1>10 DEF whole

-----------------------------------------------------------------------------
(* The recursion *)

RefusedNext(f, n) == RefusedAbove(IF n = 0 THEN <<>> ELSE f[n - 1])
RefusedUpTo(f, n) == f = [i \in 0 .. n |-> RefusedNext(f, i)]

\* The levels up to any one exist,
LEMMA RefusedUpToExist == \A n \in Nat : \E f : RefusedUpTo(f, n)
<1> DEFINE G == {n \in Nat : \E f : RefusedUpTo(f, n)}
<1>1. 0 \in G
  <2> DEFINE f == [i \in 0 .. 0 |-> RefusedAbove(<<>>)]
  <2>1. \A i \in 0 .. 0 : i = 0
    OBVIOUS
  <2>2. \A i \in 0 .. 0 : RefusedNext(f, i) = RefusedAbove(<<>>)
    BY <2>1, Zenon DEF RefusedNext
  <2>3. RefusedUpTo(f, 0)
    BY <2>2, Zenon DEF RefusedUpTo
  <2> QED BY <2>3
<1>2. ASSUME NEW n \in Nat, n \in G PROVE n + 1 \in G
  <2>1. PICK f : RefusedUpTo(f, n)
    BY <1>2
  <2> DEFINE g == [i \in 0 .. n + 1 |-> IF i = n + 1 THEN RefusedAbove(f[n]) ELSE f[i]]
  <2>2. \A i \in 0 .. n : i # n + 1 /\ i \in 0 .. n + 1
    OBVIOUS
  <2>3. \A i \in 0 .. n : g[i] = f[i]
    BY <2>2, Zenon
  <2>4. \A i \in 0 .. n : f[i] = RefusedNext(f, i)
    BY <2>1, Zenon DEF RefusedUpTo
  <2>5. \A i \in 0 .. n + 1 : g[i] = IF i = n + 1 THEN RefusedAbove(f[n]) ELSE f[i]
    BY Zenon
  <2>6. g = [i \in 0 .. n + 1 |-> g[i]]
    BY Zenon
  <2> HIDE DEF g
  <2>7. \A i \in 0 .. n + 1 : i # 0 => i - 1 \in 0 .. n
    OBVIOUS
  <2>8. ASSUME NEW i \in 0 .. n + 1 PROVE g[i] = RefusedNext(g, i)
    <3>1. CASE i = n + 1
      <4>1. g[i] = RefusedAbove(f[n]) /\ i # 0 /\ i - 1 = n /\ n \in 0 .. n
        BY <2>5, <3>1
      <4>2. g[n] = f[n]
        BY <2>3, <4>1
      <4> QED BY <4>1, <4>2 DEF RefusedNext
    <3>2. CASE i # n + 1
      <4>1. i \in 0 .. n
        BY <3>2
      <4>2. g[i] = RefusedNext(f, i)
        BY <2>3, <2>4, <4>1
      <4>3. i # 0 => g[i - 1] = f[i - 1]
        BY <2>3, <2>7
      <4> QED BY <4>2, <4>3 DEF RefusedNext
    <3> QED BY <3>1, <3>2
  <2>9. RefusedUpTo(g, n + 1)
    BY <2>6, <2>8, Zenon DEF RefusedUpTo
  <2> QED BY <2>9
<1>3. Nat \subseteq G
  <2> HIDE DEF G
  <2> QED BY <1>1, <1>2, SetInduction
<1> QED BY <1>3

\* and those up to a higher one agree with them,
LEMMA RefusedUpToAgree ==
    ASSUME NEW n \in Nat, NEW m \in Nat, n <= m, NEW f, NEW g, RefusedUpTo(f, n), RefusedUpTo(g, m)
    PROVE  f[n] = g[n]
<1> DEFINE G == {i \in Nat : f[i] = g[i]}
<1>1. \A i \in 0 .. n : f[i] = RefusedNext(f, i)
  BY Zenon DEF RefusedUpTo
<1>2. \A i \in 0 .. m : g[i] = RefusedNext(g, i)
  BY Zenon DEF RefusedUpTo
<1>3. 0 \in G
  <2>1. 0 \in 0 .. n /\ 0 \in 0 .. m
    OBVIOUS
  <2>2. f[0] = RefusedAbove(<<>>) /\ g[0] = RefusedAbove(<<>>)
    BY <1>1, <1>2, <2>1, Zenon DEF RefusedNext
  <2> QED BY <2>2
<1>4. ASSUME NEW i \in 0 .. n - 1, i \in G PROVE i + 1 \in G
  <2>1. i + 1 \in 0 .. n /\ i + 1 \in 0 .. m /\ i + 1 # 0 /\ (i + 1) - 1 = i /\ i + 1 \in Nat
    OBVIOUS
  <2>2. f[i + 1] = RefusedAbove(f[i]) /\ g[i + 1] = RefusedAbove(g[i])
    BY <1>1, <1>2, <2>1, Zenon DEF RefusedNext
  <2>3. f[i + 1] = g[i + 1]
    BY <1>4, <2>2
  <2> QED BY <2>1, <2>3
<1>5. n \in G
  <2> HIDE DEF G
  <2>1. \A i \in 0 .. n : i \in G
    BY <1>3, <1>4, UptoInduction
  <2> QED BY <2>1
<1> QED BY <1>5

\* RefusedAt is what its definition says.
LEMMA RefusedAtIs ==
    /\ RefusedAt[0] = RefusedAbove(<<>>)
    /\ \A n \in Nat : RefusedAt[n + 1] = RefusedAbove(RefusedAt[n])
<1> DEFINE best(n) == CHOOSE f : RefusedUpTo(f, n)
           diagonal == [n \in Nat |-> best(n)[n]]
<1>1. \A n \in Nat : RefusedUpTo(best(n), n)
  BY RefusedUpToExist, Zenon
<1> HIDE DEF best
<1>2. \A n \in Nat : diagonal[n] = best(n)[n]
  BY Zenon
<1>3. diagonal = [n \in Nat |-> diagonal[n]]
  BY Zenon
<1> HIDE DEF diagonal
<1>4. ASSUME NEW n \in Nat PROVE diagonal[n] = RefusedNext(diagonal, n)
  <2>1. n \in 0 .. n
    OBVIOUS
  <2>2. RefusedUpTo(best(n), n)
    BY <1>1
  <2>3. best(n)[n] = RefusedNext(best(n), n)
    BY <2>1, <2>2, Zenon DEF RefusedUpTo
  <2>4. ASSUME n # 0 PROVE best(n)[n - 1] = diagonal[n - 1]
    <3>1. n - 1 \in Nat /\ n - 1 <= n
      BY <2>4
    <3>2. RefusedUpTo(best(n - 1), n - 1)
      BY <1>1, <3>1
    <3>3. best(n - 1)[n - 1] = best(n)[n - 1]
      BY <2>2, <3>1, <3>2, RefusedUpToAgree
    <3> QED BY <1>2, <3>1, <3>3
  <2>5. RefusedNext(best(n), n) = RefusedNext(diagonal, n)
    <3>1. CASE n = 0
      BY <3>1, Zenon DEF RefusedNext
    <3>2. CASE n # 0
      BY <2>4, <3>2, Zenon DEF RefusedNext
    <3> QED BY <3>1, <3>2
  <2> QED BY <1>2, <2>3, <2>5
<1>5. diagonal = [n \in Nat |-> RefusedNext(diagonal, n)]
  BY <1>3, <1>4, Zenon
<1>6. RefusedAt = [n \in Nat |-> RefusedNext(RefusedAt, n)]
  <2>1. diagonal = [n \in Nat |-> RefusedAbove(IF n = 0 THEN <<>> ELSE diagonal[n - 1])]
    BY <1>5, Zenon DEF RefusedNext
  <2>2. RefusedAt = CHOOSE f : f = [n \in Nat |-> RefusedAbove(IF n = 0 THEN <<>> ELSE f[n - 1])]
    BY Zenon DEF RefusedAt
  <2>3. RefusedAt = [n \in Nat |-> RefusedAbove(IF n = 0 THEN <<>> ELSE RefusedAt[n - 1])]
    BY <2>1, <2>2, Zenon
  <2> QED BY <2>3, Zenon DEF RefusedNext
<1>7. \A n \in Nat : RefusedAt[n] = RefusedNext(RefusedAt, n)
  BY <1>6, Zenon
<1>8. RefusedAt[0] = RefusedAbove(<<>>)
  BY <1>7, Zenon DEF RefusedNext
<1>9. ASSUME NEW n \in Nat PROVE RefusedAt[n + 1] = RefusedAbove(RefusedAt[n])
  <2>1. n + 1 \in Nat /\ n + 1 # 0 /\ (n + 1) - 1 = n
    OBVIOUS
  <2> QED BY <1>7, <2>1, Zenon DEF RefusedNext
<1> QED BY <1>8, <1>9

-----------------------------------------------------------------------------
(* ToSql fails on what is refused *)

\* What is written for the parts fails on those that are refused.
Agree(T, R) ==
    /\ Faithful(T) /\ DOMAIN R = DOMAIN T
    /\ \A s \in DOMAIN T : T[s].err <=> R[s]
    /\ \A v \in Nat : Val(v) \in DOMAIN T => ~R[Val(v)]

\* A part of a sequence of parts is refused.
Some(R, parts) == \E part \in ToSet(parts) : R[part]

\* One of the parts fails exactly if one of them is refused.
LEMMA AllFailing ==
    ASSUME NEW T, NEW R, Agree(T, R), NEW parts \in Seq(DOMAIN T)
    PROVE  Failing(All(T, parts)) <=> Some(R, parts)
<1>1. \A i \in DOMAIN parts : parts[i] \in DOMAIN T
  OBVIOUS
<1>2. Failing(All(T, parts)) <=> \E i \in DOMAIN parts : T[parts[i]].err
  BY Zenon DEF Failing, All
<1>3. (\E i \in DOMAIN parts : T[parts[i]].err) <=> \E i \in DOMAIN parts : R[parts[i]]
  BY <1>1, Zenon DEF Agree
<1>4. (\E i \in DOMAIN parts : R[parts[i]]) <=> Some(R, parts)
  BY Zenon DEF Some, ToSet
<1> QED BY <1>2, <1>3, <1>4, Zenon

\* What is wrong with a Sqlizer of this kind, and what its parts are.
LEMMA RefusedAs ==
    ASSUME NEW R, NEW s
    PROVE  /\ s.k \in {"empty", "val", "str"} => (RefusedBy(R, s) <=> FALSE)
           /\ s.k \in {"nil", "other"} => (RefusedBy(R, s) <=> TRUE)
           /\ s.k = "expr"   => (RefusedBy(R, s) <=> Some(R, s.given))
           /\ s.k \in {"concat", "conj"} => (RefusedBy(R, s) <=> Some(R, s.parts))
           /\ s.k = "alias"  => (RefusedBy(R, s) <=> R[s.expr])
           /\ s.k = "eq"     => (RefusedBy(R, s)
                                   <=> \E i \in DOMAIN s.map : s.map[i][2].k \in {"list", "badValuer"})
           /\ s.k = "cmp"    => (RefusedBy(R, s) <=> \E i \in DOMAIN s.map : s.map[i][2].k # "val")
           /\ s.k = "in"     => (RefusedBy(R, s) <=> s.val.k \in {"null", "badValuer"})
           /\ s.k = "case"   => (RefusedBy(R, s)
                                   <=> \/ s.whens = <<>> \/ Some(R, s.what) \/ Some(R, s.els)
                                       \/ \E i \in DOMAIN s.whens : R[s.whens[i][1]] \/ R[s.whens[i][2]])
           /\ s.k = "select" => (RefusedBy(R, s)
                                   <=> \/ s.columns = <<>> \/ Some(R, s.prefixes) \/ Some(R, s.columns)
                                       \/ Some(R, s.from) \/ Some(R, s.joins) \/ Some(R, s.where)
                                       \/ Some(R, s.having) \/ Some(R, s.orderBys) \/ Some(R, s.suffixes))
           /\ s.k = "update" => (RefusedBy(R, s)
                                   <=> \/ s.table = "" \/ s.sets = <<>> \/ Some(R, s.prefixes)
                                       \/ (\E i \in DOMAIN s.sets : R[s.sets[i][2]])
                                       \/ Some(R, s.from) \/ Some(R, s.where) \/ Some(R, s.suffixes))
           /\ s.k = "delete" => (RefusedBy(R, s)
                                   <=> s.table = "" \/ Some(R, s.prefixes) \/ Some(R, s.where) \/ Some(R, s.suffixes))
           /\ s.k = "insert" => (RefusedBy(R, s)
                                   <=> \/ s.table = "" \/ (s.rows = <<>> /\ s.select = <<>>)
                                       \/ Some(R, s.prefixes) \/ Some(R, s.suffixes)
                                       \/ s.select # <<>> /\ R[s.select[1]]
                                       \/ s.select = <<>> /\ \E i \in DOMAIN s.rows : Some(R, s.rows[i]))
<1>1. ASSUME s.k \in {"empty", "val", "str"} PROVE ~Wrong(s) /\ PartsOf(s) = {}
  BY <1>1 DEF Wrong, PartsOf
<1>2. ASSUME s.k \in {"nil", "other"} PROVE Wrong(s)
  BY <1>2 DEF Wrong
<1>3. ASSUME s.k = "expr" PROVE ~Wrong(s) /\ PartsOf(s) = ToSet(s.given)
  BY <1>3 DEF Wrong, PartsOf
<1>4. ASSUME s.k \in {"concat", "conj"} PROVE ~Wrong(s) /\ PartsOf(s) = ToSet(s.parts)
  BY <1>4 DEF Wrong, PartsOf
<1>5. ASSUME s.k = "alias" PROVE ~Wrong(s) /\ PartsOf(s) = {s.expr}
  BY <1>5 DEF Wrong, PartsOf
<1>6. ASSUME s.k = "eq"
      PROVE  /\ Wrong(s) <=> \E i \in DOMAIN s.map : s.map[i][2].k \in {"list", "badValuer"}
             /\ PartsOf(s) = {}
  BY <1>6 DEF Wrong, PartsOf
<1>7. ASSUME s.k = "cmp"
      PROVE  (Wrong(s) <=> \E i \in DOMAIN s.map : s.map[i][2].k # "val") /\ PartsOf(s) = {}
  BY <1>7 DEF Wrong, PartsOf
<1>8. ASSUME s.k = "in" PROVE (Wrong(s) <=> s.val.k \in {"null", "badValuer"}) /\ PartsOf(s) = {}
  BY <1>8 DEF Wrong, PartsOf
<1>9. ASSUME s.k = "case"
      PROVE  /\ Wrong(s) <=> s.whens = <<>>
             /\ PartsOf(s) = ToSet(s.what) \cup ToSet(s.els)
                               \cup UNION {{s.whens[i][1], s.whens[i][2]} : i \in DOMAIN s.whens}
  BY <1>9 DEF Wrong, PartsOf
<1>10. ASSUME s.k = "select"
       PROVE  /\ Wrong(s) <=> s.columns = <<>>
              /\ PartsOf(s) = ToSet(s.prefixes) \cup ToSet(s.columns) \cup ToSet(s.from) \cup ToSet(s.joins)
                                \cup ToSet(s.where) \cup ToSet(s.having) \cup ToSet(s.orderBys)
                                \cup ToSet(s.suffixes)
  BY <1>10 DEF Wrong, PartsOf
<1>11. ASSUME s.k = "update"
       PROVE  /\ Wrong(s) <=> s.table = "" \/ s.sets = <<>>
              /\ PartsOf(s) = ToSet(s.prefixes) \cup {s.sets[i][2] : i \in DOMAIN s.sets} \cup ToSet(s.from)
                                \cup ToSet(s.where) \cup ToSet(s.suffixes)
  BY <1>11 DEF Wrong, PartsOf
<1>12. ASSUME s.k = "delete"
       PROVE  /\ Wrong(s) <=> s.table = ""
              /\ PartsOf(s) = ToSet(s.prefixes) \cup ToSet(s.where) \cup ToSet(s.suffixes)
  BY <1>12 DEF Wrong, PartsOf
<1>13. ASSUME s.k = "insert"
       PROVE  /\ Wrong(s) <=> s.table = "" \/ (s.rows = <<>> /\ s.select = <<>>)
              /\ PartsOf(s) = ToSet(s.prefixes) \cup ToSet(s.suffixes)
                                \cup (IF s.select # <<>> THEN {s.select[1]}
                                      ELSE UNION {ToSet(s.rows[i]) : i \in DOMAIN s.rows})
  BY <1>13 DEF Wrong, PartsOf
<1>14. s.k \in {"empty", "val", "str"} => (RefusedBy(R, s) <=> FALSE)
  BY <1>1, Zenon DEF RefusedBy
<1>15. s.k \in {"nil", "other"} => (RefusedBy(R, s) <=> TRUE)
  BY <1>2, Zenon DEF RefusedBy
<1>16. s.k = "expr"   => (RefusedBy(R, s) <=> Some(R, s.given))
  BY <1>3, Zenon DEF RefusedBy, Some
<1>17. s.k \in {"concat", "conj"} => (RefusedBy(R, s) <=> Some(R, s.parts))
  BY <1>4, Zenon DEF RefusedBy, Some
<1>18. s.k = "alias"  => (RefusedBy(R, s) <=> R[s.expr])
  BY <1>5, Zenon DEF RefusedBy
<1>19. s.k = "eq" => (RefusedBy(R, s) <=> \E i \in DOMAIN s.map : s.map[i][2].k \in {"list", "badValuer"})
  BY <1>6, Zenon DEF RefusedBy
<1>20. s.k = "cmp" => (RefusedBy(R, s) <=> \E i \in DOMAIN s.map : s.map[i][2].k # "val")
  BY <1>7, Zenon DEF RefusedBy
<1>21. s.k = "in" => (RefusedBy(R, s) <=> s.val.k \in {"null", "badValuer"})
  BY <1>8, Zenon DEF RefusedBy
<1>22. s.k = "case" => (RefusedBy(R, s)
                          <=> \/ s.whens = <<>> \/ Some(R, s.what) \/ Some(R, s.els)
                              \/ \E i \in DOMAIN s.whens : R[s.whens[i][1]] \/ R[s.whens[i][2]])
  <2> DEFINE branches == UNION {{s.whens[i][1], s.whens[i][2]} : i \in DOMAIN s.whens}
  <2>1. \A part : part \in branches <=> \E i \in DOMAIN s.whens : part = s.whens[i][1] \/ part = s.whens[i][2]
    OBVIOUS
  <2> HIDE DEF branches
  <2>2. (\E part \in branches : R[part]) <=> \E i \in DOMAIN s.whens : R[s.whens[i][1]] \/ R[s.whens[i][2]]
    BY <2>1, Zenon
  <2>3. s.k = "case" => /\ Wrong(s) <=> s.whens = <<>>
                        /\ PartsOf(s) = ToSet(s.what) \cup ToSet(s.els) \cup branches
    BY <1>9, Zenon DEF branches
  <2>4. s.k = "case" => (RefusedBy(R, s)
                           <=> \/ s.whens = <<>> \/ Some(R, s.what) \/ Some(R, s.els)
                               \/ \E part \in branches : R[part])
    BY <2>3, Zenon DEF RefusedBy, Some
  <2> QED BY <2>2, <2>4, Zenon
<1>23. s.k = "select" => (RefusedBy(R, s)
                            <=> \/ s.columns = <<>> \/ Some(R, s.prefixes) \/ Some(R, s.columns)
                                \/ Some(R, s.from) \/ Some(R, s.joins) \/ Some(R, s.where)
                                \/ Some(R, s.having) \/ Some(R, s.orderBys) \/ Some(R, s.suffixes))
  BY <1>10, Zenon DEF RefusedBy, Some
<1>24. s.k = "update" => (RefusedBy(R, s)
                            <=> \/ s.table = "" \/ s.sets = <<>> \/ Some(R, s.prefixes)
                                \/ (\E i \in DOMAIN s.sets : R[s.sets[i][2]])
                                \/ Some(R, s.from) \/ Some(R, s.where) \/ Some(R, s.suffixes))
  BY <1>11, Zenon DEF RefusedBy, Some
<1>25. s.k = "delete" => (RefusedBy(R, s)
                            <=> s.table = "" \/ Some(R, s.prefixes) \/ Some(R, s.where) \/ Some(R, s.suffixes))
  BY <1>12, Zenon DEF RefusedBy, Some
<1>26. s.k = "insert" => (RefusedBy(R, s)
                            <=> \/ s.table = "" \/ (s.rows = <<>> /\ s.select = <<>>)
                                \/ Some(R, s.prefixes) \/ Some(R, s.suffixes)
                                \/ s.select # <<>> /\ R[s.select[1]]
                                \/ s.select = <<>> /\ \E i \in DOMAIN s.rows : Some(R, s.rows[i]))
  <2>1. CASE s.select = <<>>
    BY <1>13, <2>1, Zenon DEF RefusedBy, Some
  <2>2. CASE s.select # <<>>
    BY <1>13, <2>2, Zenon DEF RefusedBy, Some
  <2> QED BY <2>1, <2>2
<1> QED BY <1>14, <1>15, <1>16, <1>17, <1>18, <1>19, <1>20, <1>21, <1>22, <1>23, <1>24, <1>25, <1>26, Zenon

\* An Expr fails exactly if one of its arguments is refused: plain values never are.
LEMMA WrittenExprFails ==
    ASSUME NEW T, NEW R, Agree(T, R), NEW s \in [k : {"expr"}, sql : Seq(Tokens), given : Seq(DOMAIN T)],
           Fits(s.sql, s.given)
    PROVE  ExprSql(s.sql, s.given, All(T, s.given)).err <=> Some(R, s.given)
<1>1. s.sql \in Texts /\ s.given \in Seq(DOMAIN T)
  BY DEF Texts
<1>2. \A i \in DOMAIN s.given : s.given[i] \in DOMAIN T /\ All(T, s.given)[i] = T[s.given[i]]
  BY <1>1 DEF All
<1>3. \A i \in DOMAIN s.given : All(T, s.given)[i].err <=> R[s.given[i]]
  BY <1>2, Zenon DEF Agree
<1>4. ASSUME NEW i \in DOMAIN s.given, ~IsSqlizer(s.given[i]) PROVE ~R[s.given[i]]
  <2>1. s.given[i] = Val(MeantFor(s.sql)[i]) /\ Len(s.given) = Len(MeantFor(s.sql))
    BY <1>4, Zenon DEF Fits
  <2>2. MeantFor(s.sql) \in Seq(Nat)
    BY <1>1, MeantType
  <2>3. i \in 1 .. Len(s.given)
    BY <1>1
  <2>4. MeantFor(s.sql)[i] \in Nat
    BY <2>1, <2>2, <2>3
  <2> QED BY <1>2, <2>1, <2>4, Zenon DEF Agree
<1>5. ExprSql(s.sql, s.given, All(T, s.given)).err
        <=> \E i \in DOMAIN s.given : IsSqlizer(s.given[i]) /\ All(T, s.given)[i].err
  BY ExprFails
<1>6. (\E i \in DOMAIN s.given : IsSqlizer(s.given[i]) /\ All(T, s.given)[i].err)
        <=> \E i \in DOMAIN s.given : R[s.given[i]]
  BY <1>3, <1>4, Zenon
<1>7. (\E i \in DOMAIN s.given : R[s.given[i]]) <=> Some(R, s.given)
  BY Zenon DEF Some, ToSet
<1> QED BY <1>5, <1>6, <1>7, Zenon

\* ToSql of s fails exactly if s is refused, when that is so of its parts.
LEMMA WrittenFails ==
    ASSUME NEW T, NEW R, Agree(T, R), NEW s \in SqlizersOf(DOMAIN T)
    PROVE  Written(T, s).err <=> RefusedBy(R, s)
<1> DEFINE S == DOMAIN T
<1>a. Faithful(T) /\ \A p \in DOMAIN T : T[p] \in Good /\ (T[p].err <=> R[p])
  BY Zenon DEF Agree, Faithful
<1>0. \/ s \in [k : {"nil", "empty", "other"}] \/ s \in Vals
      \/ s \in [k : {"str"}, sql : Seq(Tokens), args : Seq(Nat)] /\ s.args = MeantFor(s.sql)
      \/ s \in [k : {"expr"}, sql : Seq(Tokens), given : Seq(S)] /\ Fits(s.sql, s.given)
      \/ s \in [k : {"concat"}, parts : Seq(S)]
      \/ s \in [k : {"alias"}, expr : S, as : STRING]
      \/ s \in [k : {"eq"}, map : Entries, not : BOOLEAN]
      \/ s \in [k : {"cmp"}, map : Entries, op : STRING]
      \/ s \in [k : {"in"}, col : STRING, val : Comparands, not : BOOLEAN]
      \/ s \in [k : {"conj"}, op : {"AND", "OR"}, parts : Seq(S)]
      \/ s \in [k : {"case"}, what : Seq(S), whens : Seq(S \X S), els : Seq(S)]
      \/ s \in Selects(S) \/ s \in Updates(S) \/ s \in Deletes(S) \/ s \in Inserts(S)
  BY Zenon DEF SqlizersOf, ExprsOf, StatementsOf
<1>1. CASE s \in [k : {"nil", "empty", "other"}]
  <2>1. CASE s.k = "empty"
    <3>1. ~Written(T, s).err
      BY <2>1, WrittenAs, SqlFails DEF Nothing
    <3>2. ~RefusedBy(R, s)
      BY <2>1, RefusedAs
    <3> QED BY <3>1, <3>2
  <2>2. CASE s.k \in {"nil", "other"}
    <3>1. Written(T, s).err
      BY <2>2, WrittenAs, FailureFails
    <3>2. RefusedBy(R, s)
      BY <2>2, RefusedAs
    <3> QED BY <3>1, <3>2
  <2> QED BY <1>1, <2>1, <2>2
<1>2. CASE s \in Vals
  <2>1. s.k = "val"
    BY <1>2 DEF Vals
  <2>2. ~Written(T, s).err
    BY <2>1, WrittenAs, SqlFails
  <2>3. ~RefusedBy(R, s)
    BY <2>1, RefusedAs
  <2> QED BY <2>2, <2>3
<1>3. CASE s \in [k : {"str"}, sql : Seq(Tokens), args : Seq(Nat)] /\ s.args = MeantFor(s.sql)
  <2>1. s.k = "str"
    BY <1>3
  <2>2. ~Written(T, s).err
    BY <2>1, WrittenAs, SqlFails
  <2>3. ~RefusedBy(R, s)
    BY <2>1, RefusedAs
  <2> QED BY <2>2, <2>3
<1>4. CASE s \in [k : {"expr"}, sql : Seq(Tokens), given : Seq(S)] /\ Fits(s.sql, s.given)
  <2>1. s.k = "expr"
    BY <1>4
  <2>2. ExprSql(s.sql, s.given, All(T, s.given)).err <=> Some(R, s.given)
    BY <1>4, WrittenExprFails
  <2>3. Written(T, s) = ExprSql(s.sql, s.given, All(T, s.given))
    BY <2>1, WrittenAs, Zenon
  <2>4. RefusedBy(R, s) <=> Some(R, s.given)
    BY <2>1, RefusedAs, Zenon
  <2> QED BY <2>2, <2>3, <2>4, Zenon
<1>5. CASE s \in [k : {"concat"}, parts : Seq(S)]
  <2>1. s.k = "concat" /\ s.parts \in Seq(S)
    BY <1>5
  <2>2. Failing(All(T, s.parts)) <=> Some(R, s.parts)
    BY <2>1, AllFailing
  <2>3. Concat(All(T, s.parts)).err <=> Failing(All(T, s.parts))
    BY ConcatFails
  <2>4. Written(T, s) = Concat(All(T, s.parts))
    BY <2>1, WrittenAs, Zenon
  <2>5. RefusedBy(R, s) <=> Some(R, s.parts)
    BY <2>1, RefusedAs
  <2> QED BY <2>2, <2>3, <2>4, <2>5, Zenon
<1>6. CASE s \in [k : {"alias"}, expr : S, as : STRING]
  <2>1. s.k = "alias" /\ s.expr \in S /\ s.as \in STRING
    BY <1>6
  <2> DEFINE open == Word("(")
             close == Sql(<<K(")"), K("AS"), N(s.as)>>, <<>>)
  <2>2. T[s.expr] \in Good /\ (T[s.expr].err <=> R[s.expr])
    BY <1>a, <2>1, Zenon
  <2>3. open \in Good
    BY GoodKeyword DEF Keywords
  <2>4. /\ K(")") \in Tokens /\ Mark(K(")")) = <<>> /\ K("AS") \in Tokens /\ Mark(K("AS")) = <<>>
    BY KeywordTokens DEF Keywords
  <2>5. N(s.as) \in Tokens /\ Mark(N(s.as)) = <<>>
    BY <2>1, TokenTypes, Zenon
  <2>6. close \in Good
    BY <2>4, <2>5, MarkedTriple, GoodSql
  <2>7. ~open.err /\ ~close.err
    BY SqlFails DEF Word
  <2>8. Written(T, s) = Concat(<<open, T[s.expr], close>>)
    BY <2>1, WrittenAs, Zenon
  <2> HIDE DEF open, close
  <2>9. Failing(<<open, T[s.expr], close>>) <=> T[s.expr].err
    BY <2>2, <2>3, <2>6, <2>7, ThreeFailing
  <2>10. Concat(<<open, T[s.expr], close>>).err <=> Failing(<<open, T[s.expr], close>>)
    BY ConcatFails
  <2>11. RefusedBy(R, s) <=> R[s.expr]
    BY <2>1, RefusedAs, Zenon
  <2> QED BY <2>2, <2>8, <2>9, <2>10, <2>11, Zenon
<1>7. CASE s \in [k : {"eq"}, map : Entries, not : BOOLEAN]
  <2>1. s.k = "eq" /\ s.map \in Entries /\ s.not \in BOOLEAN
    BY <1>7
  <2>2. EqSql(s.map, s.not).err <=> \E i \in DOMAIN s.map : s.map[i][2].k \in {"list", "badValuer"}
    BY <2>1, EqFails
  <2>3. Written(T, s) = EqSql(s.map, s.not)
    BY <2>1, WrittenAs, Zenon
  <2>4. RefusedBy(R, s) <=> \E i \in DOMAIN s.map : s.map[i][2].k \in {"list", "badValuer"}
    BY <2>1, RefusedAs, Zenon
  <2> QED BY <2>2, <2>3, <2>4, Zenon
<1>8. CASE s \in [k : {"cmp"}, map : Entries, op : STRING]
  <2>1. s.k = "cmp"
    BY <1>8
  <2>2. CmpSql(s.map, s.op).err <=> \E i \in DOMAIN s.map : s.map[i][2].k # "val"
    BY CmpFails
  <2>3. Written(T, s) = CmpSql(s.map, s.op)
    BY <2>1, WrittenAs, Zenon
  <2>4. RefusedBy(R, s) <=> \E i \in DOMAIN s.map : s.map[i][2].k # "val"
    BY <2>1, RefusedAs, Zenon
  <2> QED BY <2>2, <2>3, <2>4, Zenon
<1>9. CASE s \in [k : {"in"}, col : STRING, val : Comparands, not : BOOLEAN]
  <2>1. s.k = "in" /\ s.val \in Comparands
    BY <1>9
  <2>2. InSql(s.col, s.val, s.not).err <=> s.val.k \in {"null", "badValuer"}
    BY <2>1, InFails
  <2>3. Written(T, s) = InSql(s.col, s.val, s.not)
    BY <2>1, WrittenAs, Zenon
  <2>4. RefusedBy(R, s) <=> s.val.k \in {"null", "badValuer"}
    BY <2>1, RefusedAs, Zenon
  <2> QED BY <2>2, <2>3, <2>4, Zenon
<1>10. CASE s \in [k : {"conj"}, op : {"AND", "OR"}, parts : Seq(S)]
  <2>1. s.k = "conj" /\ s.parts \in Seq(S)
    BY <1>10
  <2>2. Failing(All(T, s.parts)) <=> Some(R, s.parts)
    BY <2>1, AllFailing
  <2>3. ConjSql(All(T, s.parts), s.op).err <=> Failing(All(T, s.parts))
    BY ConjFails
  <2>4. Written(T, s) = ConjSql(All(T, s.parts), s.op)
    BY <2>1, WrittenAs, Zenon
  <2>5. RefusedBy(R, s) <=> Some(R, s.parts)
    BY <2>1, RefusedAs
  <2> QED BY <2>2, <2>3, <2>4, <2>5, Zenon
<1>11. CASE s \in [k : {"case"}, what : Seq(S), whens : Seq(S \X S), els : Seq(S)]
  <2>1. s.k = "case" /\ s.what \in Seq(S) /\ s.whens \in Seq(S \X S) /\ s.els \in Seq(S)
    BY <1>11
  <2> DEFINE branch(i) == <<T[s.whens[i][1]], T[s.whens[i][2]]>>
             whens == [i \in DOMAIN s.whens |-> branch(i)]
  <2>2. DOMAIN s.whens = 1 .. Len(s.whens) /\ Len(s.whens) \in Nat
        /\ \A i \in DOMAIN s.whens : s.whens[i] \in S \X S
    BY <2>1
  <2>3. \A i \in DOMAIN s.whens : s.whens[i][1] \in S /\ s.whens[i][2] \in S
    BY <2>2
  <2>4. \A i \in DOMAIN s.whens : T[s.whens[i][1]] \in Good /\ T[s.whens[i][2]] \in Good
    BY <1>a, <2>3, Zenon
  <2>5. \A i \in DOMAIN s.whens : branch(i) \in Good \X Good
    BY <2>4
  <2>6. \A i \in DOMAIN s.whens : branch(i)[1] = T[s.whens[i][1]] /\ branch(i)[2] = T[s.whens[i][2]]
    OBVIOUS
  <2>7. Written(T, s) = CaseSql(All(T, s.what), whens, All(T, s.els))
    BY <2>1, WrittenAs, Zenon
  <2> HIDE DEF branch
  <2>8. /\ whens \in Seq(Good \X Good) /\ DOMAIN whens = DOMAIN s.whens
        /\ whens = <<>> <=> s.whens = <<>>
        /\ \A i \in DOMAIN s.whens : whens[i] = branch(i)
    BY <2>2, <2>5
  <2> HIDE DEF whens
  <2>9. (\E i \in DOMAIN whens : whens[i][1].err \/ whens[i][2].err)
          <=> \E i \in DOMAIN s.whens : T[s.whens[i][1]].err \/ T[s.whens[i][2]].err
    <3>1. \A i \in DOMAIN s.whens : whens[i][1] = T[s.whens[i][1]] /\ whens[i][2] = T[s.whens[i][2]]
      BY <2>6, <2>8, Zenon
    <3> QED BY <2>8, <3>1, Zenon
  <2>10. (\E i \in DOMAIN s.whens : T[s.whens[i][1]].err \/ T[s.whens[i][2]].err)
           <=> \E i \in DOMAIN s.whens : R[s.whens[i][1]] \/ R[s.whens[i][2]]
    BY <1>a, <2>3, Zenon
  <2>11. /\ All(T, s.what) \in Seq(Good) /\ All(T, s.els) \in Seq(Good)
         /\ Failing(All(T, s.what)) <=> Some(R, s.what)
         /\ Failing(All(T, s.els)) <=> Some(R, s.els)
    BY <1>a, <2>1, AllGood, AllFailing
  <2>12. CaseSql(All(T, s.what), whens, All(T, s.els)).err
           <=> \/ whens = <<>> \/ Failing(All(T, s.what)) \/ Failing(All(T, s.els))
               \/ \E i \in DOMAIN whens : whens[i][1].err \/ whens[i][2].err
    BY <2>8, <2>11, CaseFails
  <2>13. RefusedBy(R, s)
           <=> \/ s.whens = <<>> \/ Some(R, s.what) \/ Some(R, s.els)
               \/ \E i \in DOMAIN s.whens : R[s.whens[i][1]] \/ R[s.whens[i][2]]
    BY <2>1, RefusedAs, Zenon
  <2> QED BY <2>7, <2>8, <2>9, <2>10, <2>11, <2>12, <2>13, Zenon
<1>12. CASE s \in Selects(S)
  <2>1. /\ s.k = "select" /\ s.options \in Seq(STRING) /\ s.groupBys \in Seq(STRING)
        /\ s.limit \in STRING /\ s.offset \in STRING
        /\ s.prefixes \in Seq(S) /\ s.columns \in Seq(S) /\ s.from \in Seq(S) /\ s.joins \in Seq(S)
        /\ s.where \in Seq(S) /\ s.having \in Seq(S) /\ s.orderBys \in Seq(S) /\ s.suffixes \in Seq(S)
    BY <1>12 DEF Selects
  <2>2. /\ All(T, s.prefixes) \in Seq(Good) /\ All(T, s.columns) \in Seq(Good) /\ All(T, s.from) \in Seq(Good)
        /\ All(T, s.joins) \in Seq(Good) /\ All(T, s.where) \in Seq(Good) /\ All(T, s.having) \in Seq(Good)
        /\ All(T, s.orderBys) \in Seq(Good) /\ All(T, s.suffixes) \in Seq(Good)
    BY <1>a, <2>1, AllGood
  <2>3. /\ Failing(All(T, s.prefixes)) <=> Some(R, s.prefixes)
        /\ Failing(All(T, s.columns)) <=> Some(R, s.columns)
        /\ Failing(All(T, s.from)) <=> Some(R, s.from)
        /\ Failing(All(T, s.joins)) <=> Some(R, s.joins)
        /\ Failing(All(T, s.where)) <=> Some(R, s.where)
        /\ Failing(All(T, s.having)) <=> Some(R, s.having)
        /\ Failing(All(T, s.orderBys)) <=> Some(R, s.orderBys)
        /\ Failing(All(T, s.suffixes)) <=> Some(R, s.suffixes)
    BY <2>1, AllFailing
  <2> DEFINE written == SelectSql(s, All(T, s.prefixes), All(T, s.columns), All(T, s.from), All(T, s.joins),
                                  All(T, s.where), All(T, s.having), All(T, s.orderBys), All(T, s.suffixes))
  <2>4. Written(T, s) = written
    BY <2>1, WrittenAs, Zenon
  <2>5. written.err
          <=> SelectFailing(s, All(T, s.prefixes), All(T, s.columns), All(T, s.from), All(T, s.joins),
                            All(T, s.where), All(T, s.having), All(T, s.orderBys), All(T, s.suffixes))
    BY <2>1, <2>2, SelectFails, Zenon
  <2> HIDE DEF written
  <2>6. RefusedBy(R, s)
          <=> \/ s.columns = <<>> \/ Some(R, s.prefixes) \/ Some(R, s.columns)
              \/ Some(R, s.from) \/ Some(R, s.joins) \/ Some(R, s.where)
              \/ Some(R, s.having) \/ Some(R, s.orderBys) \/ Some(R, s.suffixes)
    BY <2>1, RefusedAs, Zenon
  <2> QED BY <2>3, <2>4, <2>5, <2>6, Zenon DEF SelectFailing
<1>13. CASE s \in Updates(S)
  <2>1. /\ s.k = "update" /\ s.table \in STRING /\ s.sets \in Seq(STRING \X S) /\ s.orderBys \in Seq(STRING)
        /\ s.limit \in STRING /\ s.offset \in STRING
        /\ s.prefixes \in Seq(S) /\ s.from \in Seq(S) /\ s.where \in Seq(S) /\ s.suffixes \in Seq(S)
    BY <1>13 DEF Updates
  <2>2. /\ All(T, s.prefixes) \in Seq(Good) /\ All(T, s.from) \in Seq(Good)
        /\ All(T, s.where) \in Seq(Good) /\ All(T, s.suffixes) \in Seq(Good)
    BY <1>a, <2>1, AllGood
  <2>3. /\ Failing(All(T, s.prefixes)) <=> Some(R, s.prefixes)
        /\ Failing(All(T, s.from)) <=> Some(R, s.from)
        /\ Failing(All(T, s.where)) <=> Some(R, s.where)
        /\ Failing(All(T, s.suffixes)) <=> Some(R, s.suffixes)
    BY <2>1, AllFailing
  <2> DEFINE values == [i \in DOMAIN s.sets |-> T[s.sets[i][2]]]
  <2>4. DOMAIN s.sets = 1 .. Len(s.sets) /\ Len(s.sets) \in Nat /\ \A i \in DOMAIN s.sets : s.sets[i][2] \in S
    BY <2>1
  <2>5. \A i \in DOMAIN s.sets : T[s.sets[i][2]] \in Good /\ (T[s.sets[i][2]].err <=> R[s.sets[i][2]])
    BY <1>a, <2>4, Zenon
  <2>6. values \in Seq(Good) /\ DOMAIN values = DOMAIN s.sets
    BY <2>4, <2>5
  <2>7. Failing(values) <=> \E i \in DOMAIN s.sets : R[s.sets[i][2]]
    BY <2>5, Zenon DEF Failing
  <2> DEFINE written == UpdateSql(s, All(T, s.prefixes), values, All(T, s.from), All(T, s.where), All(T, s.suffixes))
  <2>8. Written(T, s) = written
    BY <2>1, WrittenAs, Zenon
  <2> HIDE DEF values
  <2>9. written.err
          <=> UpdateFailing(s, All(T, s.prefixes), values, All(T, s.from), All(T, s.where), All(T, s.suffixes))
    BY <2>1, <2>2, <2>6, UpdateFails, Zenon
  <2> HIDE DEF written
  <2>10. RefusedBy(R, s)
           <=> \/ s.table = "" \/ s.sets = <<>> \/ Some(R, s.prefixes)
               \/ (\E i \in DOMAIN s.sets : R[s.sets[i][2]])
               \/ Some(R, s.from) \/ Some(R, s.where) \/ Some(R, s.suffixes)
    BY <2>1, RefusedAs, Zenon
  <2> QED BY <2>3, <2>7, <2>8, <2>9, <2>10, Zenon DEF UpdateFailing
<1>14. CASE s \in Deletes(S)
  <2>1. /\ s.k = "delete" /\ s.table \in STRING /\ s.orderBys \in Seq(STRING)
        /\ s.limit \in STRING /\ s.offset \in STRING
        /\ s.prefixes \in Seq(S) /\ s.where \in Seq(S) /\ s.suffixes \in Seq(S)
    BY <1>14 DEF Deletes
  <2>2. All(T, s.prefixes) \in Seq(Good) /\ All(T, s.where) \in Seq(Good) /\ All(T, s.suffixes) \in Seq(Good)
    BY <1>a, <2>1, AllGood
  <2>3. /\ Failing(All(T, s.prefixes)) <=> Some(R, s.prefixes)
        /\ Failing(All(T, s.where)) <=> Some(R, s.where)
        /\ Failing(All(T, s.suffixes)) <=> Some(R, s.suffixes)
    BY <2>1, AllFailing
  <2> DEFINE written == DeleteSql(s, All(T, s.prefixes), All(T, s.where), All(T, s.suffixes))
  <2>4. Written(T, s) = written
    BY <2>1, WrittenAs, Zenon
  <2>5. written.err
          <=> \/ s.table = "" \/ Failing(All(T, s.prefixes)) \/ Failing(All(T, s.where))
              \/ Failing(All(T, s.suffixes))
    BY <2>1, <2>2, DeleteFails, Zenon
  <2> HIDE DEF written
  <2>6. RefusedBy(R, s) <=> s.table = "" \/ Some(R, s.prefixes) \/ Some(R, s.where) \/ Some(R, s.suffixes)
    BY <2>1, RefusedAs, Zenon
  <2> QED BY <2>3, <2>4, <2>5, <2>6, Zenon
<1>15. CASE s \in Inserts(S)
  <2>1. /\ s.k = "insert" /\ s.keyword \in STRING /\ s.options \in Seq(STRING) /\ s.table \in STRING
        /\ s.cols \in Seq(STRING) /\ s.rows \in Seq(Seq(S))
        /\ s.prefixes \in Seq(S) /\ s.select \in Seq(S) /\ s.suffixes \in Seq(S)
    BY <1>15 DEF Inserts
  <2>2. /\ All(T, s.prefixes) \in Seq(Good) /\ All(T, s.select) \in Seq(Good)
        /\ All(T, s.suffixes) \in Seq(Good)
        /\ DOMAIN All(T, s.select) = DOMAIN s.select /\ Len(All(T, s.select)) = Len(s.select)
        /\ \A i \in DOMAIN s.select : All(T, s.select)[i] = T[s.select[i]]
    BY <1>a, <2>1, AllGood
  <2>3. /\ Failing(All(T, s.prefixes)) <=> Some(R, s.prefixes)
        /\ Failing(All(T, s.suffixes)) <=> Some(R, s.suffixes)
    BY <2>1, AllFailing
  <2> DEFINE rows == [i \in DOMAIN s.rows |-> All(T, s.rows[i])]
             select == All(T, s.select)
  <2>4. DOMAIN s.rows = 1 .. Len(s.rows) /\ Len(s.rows) \in Nat
        /\ \A i \in DOMAIN s.rows : s.rows[i] \in Seq(S)
    BY <2>1
  <2>5. \A i \in DOMAIN s.rows : All(T, s.rows[i]) \in Seq(Good)
        /\ (Failing(All(T, s.rows[i])) <=> Some(R, s.rows[i]))
    BY <1>a, <2>4, AllGood, AllFailing
  <2>6. rows \in Seq(Seq(Good))
    BY <2>4, <2>5
  <2>7. (\E i \in DOMAIN rows : Failing(rows[i])) <=> \E i \in DOMAIN s.rows : Some(R, s.rows[i])
    BY <2>5, Zenon
  <2>8. select = <<>> <=> s.select = <<>>
    BY <2>1, <2>2
  <2>9. s.select # <<>> => (select[1].err <=> R[s.select[1]])
    <3>1. s.select # <<>> => 1 \in DOMAIN s.select /\ s.select[1] \in S
      BY <2>1
    <3> QED BY <1>a, <2>2, <3>1, Zenon
  <2> DEFINE written == InsertSql(s, All(T, s.prefixes), rows, select, All(T, s.suffixes))
  <2>10. Written(T, s) = written
    BY <2>1, WrittenAs, Zenon
  <2> HIDE DEF rows
  <2>11. written.err
          <=> \/ s.table = "" \/ (s.rows = <<>> /\ select = <<>>)
              \/ Failing(All(T, s.prefixes)) \/ Failing(All(T, s.suffixes))
              \/ select # <<>> /\ select[1].err
              \/ select = <<>> /\ \E i \in DOMAIN rows : Failing(rows[i])
    BY <2>1, <2>2, <2>6, InsertFails, Zenon
  <2> HIDE DEF written, select
  <2>12. RefusedBy(R, s)
           <=> \/ s.table = "" \/ (s.rows = <<>> /\ s.select = <<>>)
               \/ Some(R, s.prefixes) \/ Some(R, s.suffixes)
               \/ s.select # <<>> /\ R[s.select[1]]
               \/ s.select = <<>> /\ \E i \in DOMAIN s.rows : Some(R, s.rows[i])
    BY <2>1, RefusedAs, Zenon
  <2> QED BY <2>3, <2>7, <2>8, <2>9, <2>10, <2>11, <2>12, Zenon
<1> HIDE DEF S
<1> QED BY <1>0, <1>1, <1>2, <1>3, <1>4, <1>5, <1>6, <1>7, <1>8, <1>9, <1>10, <1>11, <1>12, <1>13, <1>14, <1>15,
           Zenon

\* The next level agrees when the one below does,
LEMMA AgreeAbove ==
    ASSUME NEW T, NEW R, Agree(T, R)
    PROVE  Agree(Above(T), RefusedAbove(R))
<1>1. Faithful(T) /\ DOMAIN R = DOMAIN T
  BY Zenon DEF Agree
<1>2. Faithful(Above(T)) /\ DOMAIN Above(T) = SqlizersOf(DOMAIN T)
  BY <1>1, FaithfulAbove
<1>3. /\ DOMAIN RefusedAbove(R) = SqlizersOf(DOMAIN T)
      /\ \A s \in SqlizersOf(DOMAIN T) : RefusedAbove(R)[s] = RefusedBy(R, s)
  BY <1>1, Zenon DEF RefusedAbove
<1>4. \A s \in SqlizersOf(DOMAIN T) : Above(T)[s] = Written(T, s)
  BY Zenon DEF Above
<1>5. \A s \in SqlizersOf(DOMAIN T) : Above(T)[s].err <=> RefusedAbove(R)[s]
  <2> TAKE s \in SqlizersOf(DOMAIN T)
  <2>1. Written(T, s).err <=> RefusedBy(R, s)
    BY WrittenFails
  <2> QED BY <1>3, <1>4, <2>1, Zenon
<1>6. ASSUME NEW v \in Nat, Val(v) \in SqlizersOf(DOMAIN T) PROVE ~RefusedAbove(R)[Val(v)]
  <2>1. Val(v).k \in {"empty", "val", "str"}
    BY DEF Val
  <2>2. ~RefusedBy(R, Val(v))
    BY <2>1, RefusedAs, Zenon
  <2> QED BY <1>3, <1>6, <2>2, Zenon
<1> QED BY <1>2, <1>3, <1>5, <1>6, Zenon DEF Agree

\* and every level does.
LEMMA AgreeAt == \A n \in Nat : Agree(ToSqlAt[n], RefusedAt[n])
<1> DEFINE G == {n \in Nat : Agree(ToSqlAt[n], RefusedAt[n])}
<1>1. Agree(<<>>, <<>>)
  <2>1. DOMAIN <<>> = {}
    OBVIOUS
  <2> QED BY <2>1, Zenon DEF Agree, Faithful
<1>2. 0 \in G
  BY <1>1, AgreeAbove, ToSqlAtIs, RefusedAtIs
<1>3. ASSUME NEW n \in Nat, n \in G PROVE n + 1 \in G
  BY <1>3, AgreeAbove, ToSqlAtIs, RefusedAtIs
<1>4. Nat \subseteq G
  <2> HIDE DEF G
  <2> QED BY <1>2, <1>3, SetInduction
<1> QED BY <1>4

\* ToSql comes to no text exactly on the Sqlizers that are refused, however deep
\* what is wrong is nested: nothing is sent without it.  Of what is wrong, ToSql
\* returns an error, but for a nil where an And, an Or, an Alias, a prefix or a
\* suffix needs a Sqlizer: of that it panics.
THEOREM ToSqlFails ==
    ASSUME Nesting \in Nat
    PROVE  \A s \in Sqlizers(Nesting) : ToSql(s).err <=> Refused(s)
BY AgreeAt, Zenon DEF Agree, Sqlizers, ToSql, Refused

===============================================================================
