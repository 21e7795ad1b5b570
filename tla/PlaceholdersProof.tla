------------------------- MODULE PlaceholdersProof -------------------------
(***************************************************************************)
(* The way of the question marks, for texts of any length and any Exprs:   *)
(*                                                                         *)
(*   - placeholders are numbered 1, 2, ... in order (PlaceholdersNumbered);*)
(*   - the database gets what the Expr means (DriverGetsMeaning): while    *)
(*     Expr.ToSql reads, what is written and what is not read yet mean     *)
(*     together what the Expr does (Sound), and while marks are numbered,  *)
(*     what the text does (Agrees);                                        *)
(*   - DebugSqlizer shows what the database gets (DebugAgreesWithSent):    *)
(*     what is numbered so far, and what DebugSqlizer shows of the rest,   *)
(*     are together what it shows of the text (DebugAgrees).               *)
(*                                                                         *)
(* The functions that say what a text means are recursive: Recursion shows *)
(* that a definition whose steps descend defines a function that follows   *)
(* them.                                                                   *)
(***************************************************************************)
EXTENDS Placeholders, SequenceTheorems, WellFoundedInduction, TLAPS

USE PlaceholderAssumption

-----------------------------------------------------------------------------
(* Recursion over numbers that get smaller *)

\* Induction over the numbers of a set.
LEMMA SetInduction ==
    ASSUME NEW G, 0 \in G, \A n \in Nat : n \in G => n + 1 \in G
    PROVE  Nat \subseteq G
<1> DEFINE bad == Nat \ G
<1>1. SUFFICES ASSUME bad # {} PROVE FALSE
  OBVIOUS
<1>2. PICK n \in bad : \A m \in bad : <<m, n>> \notin OpToRel(<, Nat)
  <2>1. bad \subseteq Nat
    OBVIOUS
  <2> HIDE DEF bad
  <2> QED BY <1>1, <2>1, WFMin, NatLessThanWellFounded
<1>3. n - 1 \in Nat /\ n - 1 < n /\ (n - 1) + 1 = n
  <2>1. n \in Nat /\ n # 0
    BY <1>2
  <2> QED BY <2>1
<1>4. n - 1 \in G
  BY <1>2, <1>3 DEF OpToRel
<1> QED BY <1>2, <1>3, <1>4

\* f does what step says for all of D that is smaller than n.
Follows(f, n, D, size, step) == \A s \in D : size[s] < n => f[s] = step[<<f, s>>]

\* What a step makes of s depends on f for what is smaller than s only.
Descends(D, V, size, step) ==
    /\ size \in [D -> Nat]
    /\ step \in [[D -> V] \X D -> V]
    /\ \A f, g \in [D -> V] : \A s \in D :
         (\A t \in D : size[t] < size[s] => f[t] = g[t]) => step[<<f, s>>] = step[<<g, s>>]

\* Two that do agree.
LEMMA FollowersAgree ==
    ASSUME NEW D, NEW V, NEW size, NEW step, Descends(D, V, size, step), NEW n \in Nat,
           NEW f \in [D -> V], NEW g \in [D -> V],
           Follows(f, n, D, size, step), Follows(g, n, D, size, step)
    PROVE  \A s \in D : size[s] < n => f[s] = g[s]
<1> DEFINE G == {k \in Nat : k <= n => \A s \in D : size[s] < k => f[s] = g[s]}
<1>0. \A s \in D : size[s] \in Nat
  BY DEF Descends
<1>1. 0 \in G
  BY <1>0
<1>2. ASSUME NEW k \in Nat, k \in G PROVE k + 1 \in G
  <2> SUFFICES ASSUME k + 1 <= n, NEW s \in D, size[s] < k + 1 PROVE f[s] = g[s]
    OBVIOUS
  <2>1. \A t \in D : size[t] < k => f[t] = g[t]
    BY <1>2
  <2>2. size[s] <= k /\ size[s] < n
    BY <1>0
  <2>3. \A t \in D : size[t] < size[s] => f[t] = g[t]
    BY <1>0, <2>1, <2>2
  <2>4. step[<<f, s>>] = step[<<g, s>>]
    BY <2>3 DEF Descends
  <2> QED BY <2>2, <2>4 DEF Follows
<1>3. n \in G
  <2> HIDE DEF G
  <2> QED BY <1>1, <1>2, SetInduction
<1> QED BY <1>3

\* A function that does what its definition says.
Solves(f, D, V, step) == f \in [D -> V] /\ \A s \in D : f[s] = step[<<f, s>>]

\* So a function is defined by steps that descend.
LEMMA Recursion ==
    ASSUME NEW D, NEW V, V # {}, NEW size, NEW step, Descends(D, V, size, step)
    PROVE  \E f : Solves(f, D, V, step)
<1>0. /\ \A s \in D : size[s] \in Nat
      /\ \A f \in [D -> V], s \in D : step[<<f, s>>] \in V
  BY DEF Descends
<1> DEFINE G == {n \in Nat : \E f \in [D -> V] : Follows(f, n, D, size, step)}
<1>1. 0 \in G
  <2>1. PICK v \in V : TRUE
    OBVIOUS
  <2>2. [s \in D |-> v] \in [D -> V]
    BY <2>1
  <2>3. \A s \in D : ~(size[s] < 0)
    BY <1>0
  <2> QED BY <2>2, <2>3 DEF Follows
<1>2. ASSUME NEW n \in Nat, n \in G PROVE n + 1 \in G
  <2>1. PICK f \in [D -> V] : Follows(f, n, D, size, step)
    BY <1>2
  <2> DEFINE g == [s \in D |-> step[<<f, s>>]]
  <2>2. g \in [D -> V]
    BY <1>0
  <2>3. \A s \in D : size[s] < n => g[s] = f[s]
    BY <2>1 DEF Follows
  <2>4. ASSUME NEW s \in D, size[s] < n + 1 PROVE g[s] = step[<<g, s>>]
    <3>1. size[s] <= n
      BY <1>0, <2>4
    <3>2. \A t \in D : size[t] < size[s] => f[t] = g[t]
      <4> HIDE DEF g
      <4> QED BY <1>0, <2>3, <3>1
    <3>3. g[s] = step[<<f, s>>]
      OBVIOUS
    <3> HIDE DEF g
    <3> QED BY <2>2, <3>2, <3>3 DEF Descends
  <2> HIDE DEF g
  <2>5. Follows(g, n + 1, D, size, step)
    BY <2>4 DEF Follows
  <2> QED BY <2>2, <2>5
<1>3. \A n \in Nat : \E f \in [D -> V] : Follows(f, n, D, size, step)
  <2>1. Nat \subseteq G
    <3> HIDE DEF G
    <3> QED BY <1>1, <1>2, SetInduction
  <2> QED BY <2>1
<1> DEFINE At(s) == CHOOSE f \in [D -> V] : Follows(f, size[s] + 1, D, size, step)
           F == [s \in D |-> At(s)[s]]
<1>4. \A s \in D : At(s) \in [D -> V] /\ Follows(At(s), size[s] + 1, D, size, step)
  <2> TAKE s \in D
  <2>1. size[s] + 1 \in Nat
    BY <1>0
  <2> QED BY <1>3, <2>1
<1>5. F \in [D -> V] /\ \A s \in D : F[s] = At(s)[s]
  BY <1>4
<1> HIDE DEF At, F
<1>6. ASSUME NEW s \in D PROVE F[s] = step[<<F, s>>]
  <2>1. ASSUME NEW t \in D, size[t] < size[s] PROVE At(s)[t] = F[t]
    <3>1. size[t] + 1 \in Nat /\ size[t] < size[t] + 1
          /\ \A u \in D : size[u] < size[t] + 1 => size[u] < size[s] + 1
      BY <1>0, <2>1
    <3>2. Follows(At(s), size[t] + 1, D, size, step)
      BY <1>4, <3>1 DEF Follows
    <3>3. At(s)[t] = At(t)[t]
      BY <1>4, <3>1, <3>2, FollowersAgree
    <3> QED BY <1>5, <3>3
  <2>2. step[<<At(s), s>>] = step[<<F, s>>]
    BY <1>4, <1>5, <2>1 DEF Descends
  <2>3. At(s)[s] = step[<<At(s), s>>]
    BY <1>0, <1>4 DEF Follows
  <2> QED BY <1>5, <2>2, <2>3
<1> QED BY <1>5, <1>6 DEF Solves

-----------------------------------------------------------------------------
(* Sequences from their first element on *)

\* A sequence is its first element and the others ...
LEMMA FromHead ==
    ASSUME NEW S, NEW s \in Seq(S), s # <<>>
    PROVE  /\ Head(s) \in S /\ Head(s) = s[1] /\ Tail(s) \in Seq(S)
           /\ Len(Tail(s)) < Len(s)
           /\ s = <<Head(s)>> \o Tail(s)
<1>1. Len(s) \in Nat \ {0} /\ Head(s) = s[1] /\ s[1] \in S /\ Len(Tail(s)) = Len(s) - 1
  BY EmptySeq, ElementOfSeq, HeadTailProperties
<1>2. Tail(s) \in Seq(S) /\ \A j \in 1 .. Len(Tail(s)) : Tail(s)[j] = s[j + 1]
  BY HeadTailProperties
<1>3. <<Head(s)>> \in Seq(S) /\ Len(<<Head(s)>>) = 1 /\ <<Head(s)>>[1] = s[1]
  BY <1>1
<1> DEFINE h == <<Head(s)>>
           t == Tail(s)
<1> HIDE DEF h, t
<1>4. /\ h \o t \in Seq(S) /\ Len(h \o t) = Len(s)
      /\ \A j \in 1 .. Len(s) : (h \o t)[j] = IF j <= 1 THEN h[j] ELSE t[j - 1]
  BY <1>1, <1>2, <1>3, ConcatProperties DEF h, t
<1>5. ASSUME NEW j \in 1 .. Len(s) PROVE (h \o t)[j] = s[j]
  <2>1. j = 1 \/ (j - 1 \in 1 .. Len(t) /\ (j - 1) + 1 = j)
    BY <1>1 DEF t
  <2> QED BY <1>2, <1>3, <1>4, <2>1 DEF h, t
<1>6. h \o t = s
  BY <1>4, <1>5, SeqEqual
<1> QED BY <1>1, <1>2, <1>6 DEF h, t

\* ... and what follows it does not change them.
LEMMA HeadOfConcat ==
    ASSUME NEW S, NEW s \in Seq(S), NEW t \in Seq(S), s # <<>>
    PROVE  /\ s \o t \in Seq(S) /\ s \o t # <<>>
           /\ Head(s \o t) = Head(s) /\ Tail(s \o t) = Tail(s) \o t
<1>1. Len(s) \in Nat \ {0} /\ Len(t) \in Nat
  BY EmptySeq
<1>2. s \o t \in Seq(S) /\ Len(s \o t) = Len(s) + Len(t)
      /\ \A j \in 1 .. Len(s) + Len(t) : (s \o t)[j] = IF j <= Len(s) THEN s[j] ELSE t[j - Len(s)]
  BY ConcatProperties
<1>3. s \o t # <<>>
  BY <1>1, <1>2, EmptySeq
<1>4. Head(s \o t) = Head(s)
  BY <1>1, <1>2
<1>5. Tail(s) \in Seq(S) /\ Len(Tail(s)) = Len(s) - 1 /\ \A j \in 1 .. Len(Tail(s)) : Tail(s)[j] = s[j + 1]
  BY HeadTailProperties
<1> DEFINE u == s \o t
           v == Tail(s)
<1>6. Tail(u) \in Seq(S) /\ Len(Tail(u)) = Len(u) - 1 /\ \A j \in 1 .. Len(Tail(u)) : Tail(u)[j] = u[j + 1]
  <2> HIDE DEF u
  <2> QED BY <1>2, <1>3, HeadTailProperties DEF u
<1> HIDE DEF u, v
<1>7. /\ v \o t \in Seq(S) /\ Len(v \o t) = Len(v) + Len(t)
      /\ \A j \in 1 .. Len(v) + Len(t) : (v \o t)[j] = IF j <= Len(v) THEN v[j] ELSE t[j - Len(v)]
  BY <1>5, ConcatProperties DEF v
<1>8. ASSUME NEW j \in 1 .. Len(Tail(u)) PROVE Tail(u)[j] = (v \o t)[j]
  <2>1. /\ j + 1 \in 1 .. Len(s) + Len(t) /\ j \in 1 .. Len(v) + Len(t)
        /\ Len(v) = Len(s) - 1
        /\ (j <= Len(v) => j + 1 <= Len(s) /\ j \in 1 .. Len(v))
        /\ (~(j <= Len(v)) => ~(j + 1 <= Len(s)) /\ j - Len(v) = (j + 1) - Len(s))
    BY <1>1, <1>2, <1>5, <1>6 DEF u, v
  <2>2. Tail(u)[j] = u[j + 1]
    BY <1>6
  <2>3. u[j + 1] = IF j + 1 <= Len(s) THEN s[j + 1] ELSE t[(j + 1) - Len(s)]
    BY <1>2, <2>1 DEF u
  <2>4. CASE j <= Len(v)
    BY <1>5, <1>7, <2>1, <2>2, <2>3, <2>4 DEF v
  <2>5. CASE ~(j <= Len(v))
    BY <1>7, <2>1, <2>2, <2>3, <2>5
  <2> QED BY <2>4, <2>5
<1>9. Len(Tail(u)) = Len(v \o t)
  BY <1>1, <1>2, <1>5, <1>6, <1>7 DEF u, v
<1>10. Tail(u) = v \o t
  BY <1>6, <1>7, <1>8, <1>9, SeqEqual
<1> QED BY <1>2, <1>3, <1>4, <1>10 DEF u, v

\* A sequence of one.
LEMMA Single == ASSUME NEW S, NEW e \in S PROVE <<e>> \in Seq(S) /\ Len(<<e>>) = 1 /\ <<e>> # <<>>
OBVIOUS

\* A question mark is a text.
LEMMA MarkText == <<"?">> \in Seq(Chars)
BY Single

\* What follows a single element.
LEMMA HeadOfSingle ==
    ASSUME NEW S, NEW e \in S, NEW t \in Seq(S)
    PROVE  /\ <<e>> \in Seq(S) /\ <<e>> \o t \in Seq(S) /\ <<e>> \o t # <<>>
           /\ Head(<<e>> \o t) = e /\ Tail(<<e>> \o t) = t
<1>1. <<e>> \in Seq(S) /\ <<e>> # <<>> /\ Head(<<e>>) = e /\ Tail(<<e>>) = <<>>
  OBVIOUS
<1>2. <<>> \o t = t
  BY ConcatEmptySeq
<1> QED BY <1>1, <1>2, HeadOfConcat

-----------------------------------------------------------------------------
(* Texts at their question marks *)

\* strings.Index finds a question mark where there is one, and the first.
LEMMA MarkFound ==
    ASSUME NEW s \in Seq(Chars), HasMark(s)
    PROVE  Mark(s) \in 1 .. Len(s) /\ s[Mark(s)] = "?" /\ \A h \in 1 .. Mark(s) - 1 : s[h] # "?"
  <1> DEFINE T == {j \in 1 .. Len(s) : s[j] = "?"}
  <1>1. T \subseteq Nat /\ T # {}
    BY DEF HasMark
  <1>2. PICK m \in T : \A j \in T : <<j, m>> \notin OpToRel(<, Nat)
    <2> HIDE DEF T
    <2> QED BY <1>1, WFMin, NatLessThanWellFounded
  <1>3. \A j \in T : ~(j < m)
    BY <1>1, <1>2 DEF OpToRel
  <1>4. \A h \in 1 .. m - 1 : s[h] # "?"
    BY <1>3
  <1>5. m \in 1 .. Len(s) /\ s[m] = "?"
    OBVIOUS
  <1>6. \E j \in 1 .. Len(s) : s[j] = "?" /\ \A h \in 1 .. j - 1 : s[h] # "?"
    BY <1>4, <1>5
  <1> QED BY <1>6 DEF Mark

\* A sequence cut in two.
LEMMA Parts ==
    ASSUME NEW S, NEW s \in Seq(S), NEW m \in Nat, m <= Len(s)
    PROVE  /\ Upto(s, m) \in Seq(S) /\ After(s, m) \in Seq(S)
           /\ Len(Upto(s, m)) = m /\ Len(After(s, m)) = Len(s) - m
           /\ \A j \in 1 .. m : Upto(s, m)[j] = s[j]
           /\ \A j \in 1 .. Len(s) - m : After(s, m)[j] = s[m + j]
           /\ s = Upto(s, m) \o After(s, m)
<1>0. Len(s) \in Nat /\ \A j \in 1 .. Len(s) : s[j] \in S
  BY LenProperties, ElementOfSeq
<1>1. /\ Upto(s, m) \in Seq(S) /\ Len(Upto(s, m)) = m
      /\ \A j \in 1 .. m : Upto(s, m)[j] = s[j]
  <2>1. \A j \in 1 .. m : s[j] \in S /\ 1 + j - 1 = j
    BY <1>0
  <2>2. m - 1 + 1 = m
    OBVIOUS
  <2>3. /\ SubSeq(s, 1, m) \in Seq(S) /\ Len(SubSeq(s, 1, m)) = IF 1 <= m THEN m - 1 + 1 ELSE 0
        /\ \A j \in 1 .. m - 1 + 1 : SubSeq(s, 1, m)[j] = s[1 + j - 1]
    BY <2>1, SubSeqProperties
  <2> QED BY <2>1, <2>2, <2>3 DEF Upto
<1>2. /\ After(s, m) \in Seq(S) /\ Len(After(s, m)) = Len(s) - m
      /\ \A j \in 1 .. Len(s) - m : After(s, m)[j] = s[m + j]
  <2>1. \A j \in m + 1 .. Len(s) : s[j] \in S
    BY <1>0
  <2>2. Len(s) - (m + 1) + 1 = Len(s) - m /\ \A j \in 1 .. Len(s) - m : (m + 1) + j - 1 = m + j
    BY <1>0
  <2>3. /\ SubSeq(s, m + 1, Len(s)) \in Seq(S)
        /\ Len(SubSeq(s, m + 1, Len(s))) = IF m + 1 <= Len(s) THEN Len(s) - (m + 1) + 1 ELSE 0
        /\ \A j \in 1 .. Len(s) - (m + 1) + 1 : SubSeq(s, m + 1, Len(s))[j] = s[(m + 1) + j - 1]
    BY <1>0, <2>1, SubSeqProperties
  <2>4. Len(SubSeq(s, m + 1, Len(s))) = Len(s) - m
    <3>1. CASE m + 1 <= Len(s)
      BY <2>2, <2>3, <3>1
    <3>2. CASE ~(m + 1 <= Len(s))
      <4>1. Len(SubSeq(s, m + 1, Len(s))) = 0
        BY <2>3, <3>2
      <4> QED BY <1>0, <3>2, <4>1
    <3> QED BY <3>1, <3>2
  <2> QED BY <2>2, <2>3, <2>4 DEF After
<1>3. s = Upto(s, m) \o After(s, m)
  <2>1. 1 \in 1 .. Len(s) + 1 /\ m \in 1 - 1 .. Len(s) /\ Len(s) \in m .. Len(s)
    BY <1>0
  <2>2. SubSeq(s, 1, m) \o SubSeq(s, m + 1, Len(s)) = SubSeq(s, 1, Len(s))
    BY <2>1, ConcatAdjacentSubSeq
  <2> QED BY <2>2, SubSeqFull DEF Upto, After
<1> QED BY <1>1, <1>2, <1>3

\* A text at its first question mark.
LEMMA SplitAtMark ==
    ASSUME NEW s \in Seq(Chars), HasMark(s)
    PROVE  /\ Mark(s) \in Nat /\ Mark(s) - 1 \in Nat /\ Mark(s) <= Len(s)
           /\ Upto(s, Mark(s) - 1) \in Seq(Chars) /\ ~HasMark(Upto(s, Mark(s) - 1))
           /\ After(s, Mark(s)) \in Seq(Chars)
           /\ Upto(s, Mark(s)) = Upto(s, Mark(s) - 1) \o <<"?">>
           /\ s = Upto(s, Mark(s) - 1) \o (<<"?">> \o After(s, Mark(s)))
<1> DEFINE m == Mark(s)
<1>1. m \in 1 .. Len(s) /\ s[m] = "?" /\ \A h \in 1 .. m - 1 : s[h] # "?"
  BY MarkFound
<1> HIDE DEF m
<1>2. m \in Nat /\ m - 1 \in Nat /\ m <= Len(s) /\ Len(s) \in Nat /\ m - 1 <= Len(s) /\ (m - 1) + 1 = m
  BY <1>1, LenProperties
<1>3. /\ Upto(s, m - 1) \in Seq(Chars) /\ Len(Upto(s, m - 1)) = m - 1
      /\ \A j \in 1 .. m - 1 : Upto(s, m - 1)[j] = s[j]
  BY <1>2, Parts, ZenonT(40)
<1>4. ~HasMark(Upto(s, m - 1))
  BY <1>1, <1>3 DEF HasMark
<1>5. /\ Upto(s, m) \in Seq(Chars) /\ After(s, m) \in Seq(Chars) /\ s = Upto(s, m) \o After(s, m)
  BY <1>2, Parts, ZenonT(40)
<1>6. Upto(s, m) = Upto(s, m - 1) \o <<"?">>
  <2>1. 1 \in 1 .. Len(s) /\ m \in 1 .. Len(s)
    BY <1>1, <1>2
  <2>3. SubSeq(s, 1, m) = SubSeq(s, 1, m - 1) \o <<s[m]>>
    BY <2>1, SubSeqRecursiveSecond
  <2> QED BY <1>1, <2>3 DEF Upto
<1>7. s = Upto(s, m - 1) \o (<<"?">> \o After(s, m))
  <2>1. <<"?">> \in Seq(Chars)
    BY MarkText
  <2>2. PICK a \in Seq(Chars), q \in Seq(Chars), b \in Seq(Chars) :
          a = Upto(s, m - 1) /\ q = <<"?">> /\ b = After(s, m)
    BY <1>3, <1>5, <2>1
  <2>3. (a \o q) \o b = a \o (q \o b)
    BY ConcatAssociative
  <2> QED BY <1>5, <1>6, <2>2, <2>3
<1> QED BY <1>2, <1>3, <1>4, <1>5, <1>6, <1>7 DEF m

\* An escape at it.
LEMMA SplitAtEscape ==
    ASSUME NEW s \in Seq(Chars), HasMark(s), Escaped(s)
    PROVE  /\ Mark(s) + 1 \in Nat /\ Mark(s) + 1 <= Len(s)
           /\ After(s, Mark(s) + 1) \in Seq(Chars)
           /\ After(s, Mark(s)) = <<"?">> \o After(s, Mark(s) + 1)
           /\ Upto(s, Mark(s) + 1) = Upto(s, Mark(s) - 1) \o (<<"?">> \o <<"?">>)
<1> DEFINE m == Mark(s)
<1>1. m \in Nat /\ m - 1 \in Nat /\ m < Len(s) /\ s[m + 1] = "?" /\ Len(s) \in Nat
  BY SplitAtMark, LenProperties DEF Escaped
<1>2. Upto(s, m) = Upto(s, m - 1) \o <<"?">> /\ Upto(s, m - 1) \in Seq(Chars)
  BY SplitAtMark
<1> HIDE DEF m
<1>3. m + 1 \in Nat /\ m + 1 <= Len(s) /\ m + 1 \in 1 .. Len(s) /\ 1 \in 1 .. Len(s)
      /\ Len(s) \in m + 1 .. Len(s) /\ (m + 1) - 1 = m
  BY <1>1
<1>4. After(s, m + 1) \in Seq(Chars)
  BY <1>3, Parts
<1>5. After(s, m) = <<"?">> \o After(s, m + 1)
  <2>1. SubSeq(s, m + 1, Len(s)) = <<s[m + 1]>> \o SubSeq(s, (m + 1) + 1, Len(s))
    BY <1>3, SubSeqRecursiveFirst
  <2> QED BY <1>1, <2>1 DEF After
<1>6. Upto(s, m + 1) = Upto(s, m) \o <<"?">>
  <2>1. m + 1 \in 1 .. Len(s) /\ m + 1 \in 1 .. m + 1
    BY <1>1, <1>3
  <2>2. SubSeq(s, 1, m + 1) = SubSeq(s, 1, (m + 1) - 1) \o <<s[m + 1]>>
    BY <1>3, <2>1, SubSeqRecursiveSecond
  <2> QED BY <1>1, <1>3, <2>2 DEF Upto
<1>7. (Upto(s, m - 1) \o <<"?">>) \o <<"?">> = Upto(s, m - 1) \o (<<"?">> \o <<"?">>)
  <2>1. <<"?">> \in Seq(Chars)
    BY MarkText
  <2>2. PICK a \in Seq(Chars), q \in Seq(Chars) : a = Upto(s, m - 1) /\ q = <<"?">>
    BY <1>2, <2>1 DEF m
  <2>3. (a \o q) \o q = a \o (q \o q)
    BY ConcatAssociative
  <2> QED BY <2>2, <2>3
<1> QED BY <1>2, <1>3, <1>4, <1>5, <1>6, <1>7 DEF m

-----------------------------------------------------------------------------
(* Reading *)

\* Induction over sizes, for what a set stands for.
LEMMA SizeInduction ==
    ASSUME NEW D, NEW size \in [D -> Nat], NEW W,
           \A s \in D : (\A t \in D : size[t] < size[s] => t \in W) => s \in W
    PROVE  D \subseteq W
<1> DEFINE G == {n \in Nat : \A s \in D : size[s] < n => s \in W}
<1>1. 0 \in G
  OBVIOUS
<1>2. ASSUME NEW n \in Nat, n \in G PROVE n + 1 \in G
  <2>1. \A s \in D : size[s] < n + 1 => \A t \in D : size[t] < size[s] => t \in W
    BY <1>2
  <2> QED BY <2>1
<1>3. Nat \subseteq G
  <2> HIDE DEF G
  <2> QED BY <1>1, <1>2, SetInduction
<1>4. ASSUME NEW s \in D PROVE s \in W
  <2>1. size[s] + 1 \in G /\ size[s] < size[s] + 1
    BY <1>3
  <2> QED BY <2>1
<1> QED BY <1>4

\* Induction over texts: each from the shorter ones.
LEMMA ShorterInduction ==
    ASSUME NEW S, NEW W, <<>> \in W,
           \A s \in Seq(S) : s # <<>> /\ (\A t \in Seq(S) : Len(t) < Len(s) => t \in W) => s \in W
    PROVE  \A s \in Seq(S) : s \in W
<1> DEFINE size == [s \in Seq(S) |-> Len(s)]
<1>1. size \in [Seq(S) -> Nat] /\ \A s \in Seq(S) : size[s] = Len(s)
  OBVIOUS
<1>2. \A s \in Seq(S) : (\A t \in Seq(S) : size[t] < size[s] => t \in W) => s \in W
  <2> TAKE s \in Seq(S)
  <2> HAVE \A t \in Seq(S) : size[t] < size[s] => t \in W
  <2>1. \A t \in Seq(S) : Len(t) < Len(s) => t \in W
    BY <1>1
  <2> QED BY <2>1
<1> DEFINE D == Seq(S)
<1> HIDE DEF size, D
<1>3. D \subseteq W
  <2>1. size \in [D -> Nat]
    BY <1>1 DEF D
  <2>2. \A s \in D : (\A t \in D : size[t] < size[s] => t \in W) => s \in W
    BY <1>2 DEF D
  <2> QED BY <2>1, <2>2, SizeInduction
<1> QED BY <1>3 DEF D

\* What is left after two characters.
LEMMA AfterTwo ==
    ASSUME NEW s \in Seq(Chars), Len(s) > 1
    PROVE  After(s, 2) \in Seq(Chars) /\ Len(After(s, 2)) < Len(s)
<1>1. 2 \in Nat /\ 2 <= Len(s) /\ Len(s) \in Nat
  BY LenProperties
<1> QED BY <1>1, Parts

\* One step of Reading.
Read(f, s) ==
    IF s = <<>> THEN <<>>
    ELSE IF Head(s) # "?" THEN <<Head(s)>> \o f[Tail(s)]
    ELSE IF Len(s) > 1 /\ s[2] = "?" THEN <<"?">> \o f[After(s, 2)]
    ELSE <<"mark">> \o f[Tail(s)]

\* It gives tokens, and depends on shorter texts only.
LEMMA ReadTokens ==
    ASSUME NEW f, NEW s \in Seq(Chars),
           \A t \in Seq(Chars) : Len(t) < Len(s) => f[t] \in Seq(Tokens)
    PROVE  Read(f, s) \in Seq(Tokens)
<1>1. CASE s = <<>>
  BY <1>1 DEF Read
<1>2. CASE s # <<>>
  <2>1. Head(s) \in Tokens /\ "?" \in Tokens /\ "mark" \in Tokens
    BY <1>2, FromHead DEF Tokens
  <2>2. f[Tail(s)] \in Seq(Tokens)
    BY <1>2, FromHead
  <2>3. Len(s) > 1 => f[After(s, 2)] \in Seq(Tokens)
    BY AfterTwo
  <2>4. <<Head(s)>> \o f[Tail(s)] \in Seq(Tokens) /\ <<"mark">> \o f[Tail(s)] \in Seq(Tokens)
    BY <2>1, <2>2, HeadOfSingle
  <2>5. Len(s) > 1 => <<"?">> \o f[After(s, 2)] \in Seq(Tokens)
    BY <2>1, <2>3, HeadOfSingle
  <2> QED BY <1>2, <2>4, <2>5 DEF Read
<1> QED BY <1>1, <1>2

LEMMA ReadDescends ==
    ASSUME NEW f, NEW g, NEW s \in Seq(Chars),
           \A t \in Seq(Chars) : Len(t) < Len(s) => f[t] = g[t]
    PROVE  Read(f, s) = Read(g, s)
<1>1. s # <<>> => f[Tail(s)] = g[Tail(s)]
  BY FromHead
<1>2. Len(s) > 1 => f[After(s, 2)] = g[After(s, 2)]
  BY AfterTwo
<1> QED BY <1>1, <1>2 DEF Read

\* Reading is the function its definition says it is.
LEMMA ReadingDef ==
    /\ Reading \in [Seq(Chars) -> Seq(Tokens)]
    /\ \A s \in Seq(Chars) : Reading[s] = Read(Reading, s)
<1> DEFINE D == Seq(Chars)
           V == Seq(Tokens)
           size == [s \in D |-> Len(s)]
           step == [p \in [D -> V] \X D |-> Read(p[1], p[2])]
<1>1. size \in [D -> Nat] /\ (\A s \in D : size[s] = Len(s)) /\ V # {}
  <2>1. <<>> \in V
    OBVIOUS
  <2>2. V # {}
    BY <2>1
  <2>3. size \in [D -> Nat] /\ \A s \in D : size[s] = Len(s)
    OBVIOUS
  <2> QED BY <2>2, <2>3
<1>2. \A f \in [D -> V], s \in D : step[<<f, s>>] = Read(f, s)
  OBVIOUS
<1>3. step \in [[D -> V] \X D -> V]
  <2>1. ASSUME NEW p \in [D -> V] \X D PROVE Read(p[1], p[2]) \in V
    <3>1. p[2] \in Seq(Chars) /\ \A t \in Seq(Chars) : p[1][t] \in Seq(Tokens)
      OBVIOUS
    <3> QED BY <3>1, ReadTokens
  <2> QED BY <2>1
<1> HIDE DEF step
<1>4. ASSUME NEW f \in [D -> V], NEW g \in [D -> V], NEW s \in D,
             \A t \in D : size[t] < size[s] => f[t] = g[t]
      PROVE  step[<<f, s>>] = step[<<g, s>>]
  <2>1. \A t \in Seq(Chars) : Len(t) < Len(s) => f[t] = g[t]
    BY <1>1, <1>4
  <2> QED BY <1>2, <2>1, ReadDescends, ZenonT(40)
<1> HIDE DEF size
<1>5. Descends(D, V, size, step)
  BY <1>1, <1>3, <1>4 DEF Descends
<1>6. PICK f : Solves(f, D, V, step)
  <2>1. V # {}
    BY <1>1
  <2> HIDE DEF D, V
  <2> QED BY <1>5, <2>1, Recursion
<1>7. f = [s \in Seq(Chars) |-> Read(f, s)]
  BY <1>2, <1>6 DEF Solves
<1>8. Reading = CHOOSE g : g = [s \in Seq(Chars) |-> Read(g, s)]
  BY DEF Reading, Read
<1>9. Reading = [s \in Seq(Chars) |-> Read(Reading, s)]
  BY <1>7, <1>8
<1>10. \A s \in Seq(Chars) : Reading[s] = Read(Reading, s)
  BY <1>9
<1>11. \A s \in Seq(Chars) : Reading[s] \in Seq(Tokens)
  <2> DEFINE W == {s \in Seq(Chars) : Reading[s] \in Seq(Tokens)}
  <2>1. \A s \in Seq(Chars) : (\A t \in Seq(Chars) : Len(t) < Len(s) => t \in W) => s \in W
    <3> TAKE s \in Seq(Chars)
    <3> HAVE \A t \in Seq(Chars) : Len(t) < Len(s) => t \in W
    <3>1. \A t \in Seq(Chars) : Len(t) < Len(s) => Reading[t] \in Seq(Tokens)
      OBVIOUS
    <3>2. Read(Reading, s) \in Seq(Tokens)
      BY <3>1, ReadTokens
    <3> QED BY <1>10, <3>2
  <2>2. <<>> \in W
    <3>1. <<>> \in Seq(Chars) /\ \A t \in Seq(Chars) : ~(Len(t) < Len(<<>>))
      OBVIOUS
    <3> QED BY <2>1, <3>1
  <2> HIDE DEF W
  <2>3. \A s \in Seq(Chars) : s \in W
    BY <2>1, <2>2, ShorterInduction
  <2> QED BY <2>3 DEF W
<1> QED BY <1>9, <1>10, <1>11

-----------------------------------------------------------------------------
(* A text after another *)

\* Three, the first a single element.
LEMMA SingleConcat ==
    ASSUME NEW S, NEW e \in S, NEW t \in Seq(S), NEW u \in Seq(S)
    PROVE  <<e>> \o (t \o u) = (<<e>> \o t) \o u
<1>1. <<e>> \in Seq(S)
  OBVIOUS
<1> DEFINE h == <<e>>
<1> HIDE DEF h
<1> QED BY <1>1, ConcatAssociative DEF h

\* How a text is read from its first character on.
LEMMA ReadingSteps ==
    ASSUME NEW s \in Seq(Chars)
    PROVE  /\ s = <<>> => Reading[s] = <<>>
           /\ s # <<>> /\ Head(s) # "?" => Reading[s] = <<Head(s)>> \o Reading[Tail(s)]
           /\ s # <<>> /\ Head(s) = "?" /\ Tail(s) # <<>> /\ Head(Tail(s)) = "?"
                => Reading[s] = <<"?">> \o Reading[Tail(Tail(s))]
           /\ s # <<>> /\ Head(s) = "?" /\ (Tail(s) = <<>> \/ Head(Tail(s)) # "?")
                => Reading[s] = <<"mark">> \o Reading[Tail(s)]
<1>1. Reading[s] = Read(Reading, s)
  BY ReadingDef
<1>2. s # <<>> /\ Tail(s) # <<>> => /\ Len(s) > 1 /\ s[2] = Head(Tail(s))
                                   /\ After(s, 2) = Tail(Tail(s))
  <2> SUFFICES ASSUME s # <<>>, Tail(s) # <<>>
               PROVE  Len(s) > 1 /\ s[2] = Head(Tail(s)) /\ After(s, 2) = Tail(Tail(s))
    OBVIOUS
  <2>1. /\ Tail(s) \in Seq(Chars) /\ Len(Tail(s)) = Len(s) - 1 /\ Len(s) \in Nat
        /\ \A j \in 1 .. Len(Tail(s)) : Tail(s)[j] = s[j + 1]
    BY HeadTailProperties, LenProperties
  <2>2. Len(Tail(s)) \in Nat \ {0} /\ Head(Tail(s)) = Tail(s)[1]
    BY <2>1, EmptySeq, FromHead
  <2>3. Len(s) > 1 /\ s[2] = Head(Tail(s))
    BY <2>1, <2>2
  <2>4. 2 \in 1 .. Len(s) /\ Len(s) \in 2 .. Len(s)
    BY <2>1, <2>3
  <2>5. Tail(s) = SubSeq(s, 2, Len(s))
    BY TailIsSubSeq
  <2>6. Tail(SubSeq(s, 2, Len(s))) = SubSeq(s, 2 + 1, Len(s))
    BY <2>4, HeadTailOfSubSeq
  <2>7. After(s, 2) = SubSeq(s, 2 + 1, Len(s))
    BY DEF After
  <2>8. After(s, 2) = Tail(Tail(s))
    BY <2>5, <2>6, <2>7, Zenon
  <2> QED BY <2>3, <2>8
<1>3. ASSUME s # <<>>, Tail(s) = <<>> PROVE ~(Len(s) > 1)
  <2> DEFINE t == Tail(s)
  <2>1. Len(t) = Len(s) - 1 /\ t = <<>>
    BY <1>3, HeadTailProperties
  <2>2. Len(<<>>) = 0
    OBVIOUS
  <2> HIDE DEF t
  <2>3. Len(t) = 0
    BY <2>1, <2>2, Zenon
  <2>4. Len(s) - 1 = 0 /\ Len(s) \in Nat
    BY <2>1, <2>3, LenProperties
  <2>5. Len(s) = 1
    BY <2>4
  <2>6. ~(1 > 1)
    OBVIOUS
  <2> QED BY <2>5, <2>6, Zenon
<1>4. CASE s = <<>>
  BY <1>1, <1>4 DEF Read
<1>5. CASE s # <<>> /\ Tail(s) = <<>>
  BY <1>1, <1>3, <1>5 DEF Read
<1>6. CASE s # <<>> /\ Tail(s) # <<>>
  BY <1>1, <1>2, <1>6 DEF Read
<1> QED BY <1>4, <1>5, <1>6

\* Two texts one after the other are read as each is, unless a mark of the
\* second could make an escape with one of the first.
LEMMA ReadTogether ==
    ASSUME NEW a \in Seq(Chars), NEW b \in Seq(Chars), b = <<>> \/ Head(b) # "?"
    PROVE  a \o b \in Seq(Chars) /\ Reading[a \o b] = Reading[a] \o Reading[b]
<1> DEFINE y == Reading[b]
           W == {s \in Seq(Chars) : Reading[s \o b] = Reading[s] \o y}
<1>0. /\ \A s \in Seq(Chars) : Reading[s] \in Seq(Tokens)
      /\ Reading[<<>>] = <<>> /\ y \in Seq(Tokens) /\ Reading[b] = y
  BY ReadingDef, ReadingSteps, EmptySeq
<1> HIDE DEF y
<1>1. <<>> \in W
  <2>1. <<>> \o b = b /\ <<>> \in Seq(Chars)
    BY ConcatEmptySeq
  <2>2. <<>> \o y = y
    BY <1>0, ConcatEmptySeq
  <2> QED BY <1>0, <2>1, <2>2
<1>2. ASSUME NEW s \in Seq(Chars), s # <<>>, \A t \in Seq(Chars) : Len(t) < Len(s) => t \in W
      PROVE  s \in W
  <2> DEFINE r == Tail(s)
             e == Head(s)
             sb == s \o b
             rb == r \o b
  <2>1. r \in Seq(Chars) /\ e \in Chars /\ Len(r) < Len(s)
    BY <1>2, FromHead
  <2>2. sb \in Seq(Chars) /\ sb # <<>> /\ Head(sb) = e /\ Tail(sb) = rb /\ rb \in Seq(Chars)
    BY <1>2, <2>1, HeadOfConcat, ConcatProperties
  <2>3. "?" \in Tokens /\ "mark" \in Tokens /\ e \in Tokens
    BY <2>1 DEF Tokens
  <2>4. \A d \in Tokens, t \in Seq(Tokens) : <<d>> \o (t \o y) = (<<d>> \o t) \o y
    BY <1>0, SingleConcat, SMTT(30)
  <2>5. Reading[rb] = Reading[r] \o y
    BY <1>2, <2>1
  <2>6. /\ Reading[r] \in Seq(Tokens) /\ (r = <<>> => Reading[r] = <<>>)
        /\ Head(s) = e /\ Tail(s) = r /\ (s \in W <=> Reading[sb] = Reading[s] \o y)
    BY <1>0, <2>1
  <2> HIDE DEF sb, e, r
  <2>7. CASE e # "?"
    <3>1. Reading[sb] = <<e>> \o Reading[rb]
      BY <2>2, <2>7, ReadingSteps
    <3>2. Reading[s] = <<e>> \o Reading[r]
      BY <1>2, <2>6, <2>7, ReadingSteps
    <3>3. <<e>> \o (Reading[r] \o y) = (<<e>> \o Reading[r]) \o y
      BY <2>3, <2>4, <2>6
    <3> QED BY <2>5, <2>6, <3>1, <3>2, <3>3
  <2>8. CASE e = "?" /\ r = <<>>
    <3>1. rb = b
      BY <2>8, ConcatEmptySeq
    <3>2. Reading[sb] = <<"mark">> \o y
      <4> HIDE DEF rb
      <4> QED BY <1>0, <2>2, <2>8, <3>1, ReadingSteps
    <3>3. Reading[s] = <<"mark">> \o Reading[r]
      BY <1>2, <2>6, <2>8, ReadingSteps
    <3>4. Reading[r] = <<>> /\ <<"mark">> \in Seq(Tokens)
      BY <2>3, <2>6, <2>8, Single
    <3>5. Reading[s] = <<"mark">>
      BY <3>3, <3>4, ConcatEmptySeq
    <3> QED BY <2>6, <3>2, <3>5
  <2>9. CASE e = "?" /\ r # <<>>
    <3> DEFINE f == Tail(r)
               fb == f \o b
    <3>1. rb # <<>> /\ Head(rb) = Head(r) /\ Tail(rb) = fb
      BY <2>1, <2>9, HeadOfConcat
    <3>2. CASE Head(r) # "?"
      <4>1. Reading[sb] = <<"mark">> \o Reading[rb]
        <5> HIDE DEF rb
        <5> QED BY <2>2, <2>9, <3>1, <3>2, ReadingSteps
      <4>2. Reading[s] = <<"mark">> \o Reading[r]
        BY <1>2, <2>6, <2>9, <3>2, ReadingSteps
      <4>3. <<"mark">> \o (Reading[r] \o y) = (<<"mark">> \o Reading[r]) \o y
        BY <2>3, <2>4, <2>6
      <4> QED BY <2>5, <2>6, <4>1, <4>2, <4>3
    <3>3. CASE Head(r) = "?"
      <4>1. f \in Seq(Chars) /\ Len(f) < Len(s)
        <5>1. f \in Seq(Chars) /\ Len(f) < Len(r) /\ Len(f) \in Nat /\ Len(r) \in Nat /\ Len(s) \in Nat
          BY <2>1, <2>9, FromHead, LenProperties
        <5> QED BY <2>1, <5>1
      <4>2. Reading[fb] = Reading[f] \o y /\ Reading[f] \in Seq(Tokens)
        BY <1>0, <1>2, <4>1
      <4>3. Reading[sb] = <<"?">> \o Reading[fb]
        <5> HIDE DEF rb, fb, f
        <5> QED BY <2>2, <2>9, <3>1, <3>3, ReadingSteps
      <4>4. Reading[s] = <<"?">> \o Reading[f]
        BY <1>2, <2>6, <2>9, <3>3, ReadingSteps
      <4>5. <<"?">> \o (Reading[f] \o y) = (<<"?">> \o Reading[f]) \o y
        BY <2>3, <2>4, <4>2
      <4> HIDE DEF f, fb
      <4> QED BY <2>6, <4>2, <4>3, <4>4, <4>5
    <3> QED BY <3>2, <3>3
  <2> QED BY <2>7, <2>8, <2>9
<1>3. \A s \in Seq(Chars) : s \in W
  <2> HIDE DEF W
  <2> QED BY <1>1, <1>2, ShorterInduction
<1>4. a \o b \in Seq(Chars)
  BY ConcatProperties
<1> QED BY <1>0, <1>3, <1>4

\* Characters that are no question mark are read as they are.
LEMMA ReadPlain ==
    ASSUME NEW c \in Seq(Chars), ~HasMark(c), NEW b \in Seq(Chars)
    PROVE  c \o b \in Seq(Chars) /\ Reading[c \o b] = c \o Reading[b] /\ Reading[c] = c
<1> DEFINE W == {s \in Seq(Chars) : ~HasMark(s) => Reading[s \o b] = s \o Reading[b] /\ Reading[s] = s}
<1>0. /\ \A s \in Seq(Chars) : Reading[s] \in Seq(Tokens)
      /\ Reading[<<>>] = <<>> /\ <<>> \in Seq(Chars)
  BY ReadingDef, ReadingSteps, EmptySeq
<1>1. <<>> \in W
  <2>1. <<>> \o b = b
    BY ConcatEmptySeq
  <2>2. <<>> \o Reading[b] = Reading[b]
    BY <1>0, ConcatEmptySeq
  <2> QED BY <1>0, <2>1, <2>2
<1>2. ASSUME NEW s \in Seq(Chars), s # <<>>, \A t \in Seq(Chars) : Len(t) < Len(s) => t \in W
      PROVE  s \in W
  <2> SUFFICES ASSUME ~HasMark(s) PROVE Reading[s \o b] = s \o Reading[b] /\ Reading[s] = s
    OBVIOUS
  <2> DEFINE r == Tail(s)
  <2>1. /\ r \in Seq(Chars) /\ Head(s) \in Chars /\ Len(r) < Len(s) /\ s = <<Head(s)>> \o r
        /\ Head(s) = s[1]
    BY <1>2, FromHead
  <2>2. Head(s) # "?" /\ ~HasMark(r)
    <3>1. Len(s) \in Nat \ {0} /\ Len(r) = Len(s) - 1 /\ \A j \in 1 .. Len(r) : r[j] = s[j + 1]
      BY <1>2, EmptySeq, HeadTailProperties
    <3>2. 1 \in 1 .. Len(s) /\ \A j \in 1 .. Len(r) : j + 1 \in 1 .. Len(s)
      BY <3>1
    <3> QED BY <2>1, <3>1, <3>2 DEF HasMark
  <2>3. Reading[r \o b] = r \o Reading[b] /\ Reading[r] = r
    BY <1>2, <2>1, <2>2
  <2>4. s \o b \in Seq(Chars) /\ s \o b # <<>> /\ Head(s \o b) = Head(s) /\ Tail(s \o b) = r \o b
    BY <1>2, HeadOfConcat
  <2>5. Reading[s \o b] = <<Head(s)>> \o (r \o Reading[b])
    <3> DEFINE sb == s \o b
               rb == r \o b
    <3>1. sb \in Seq(Chars) /\ sb # <<>> /\ Head(sb) = Head(s) /\ Tail(sb) = rb
      BY <2>4
    <3>2. Reading[rb] = r \o Reading[b]
      BY <2>3
    <3> HIDE DEF sb, rb
    <3>3. Reading[sb] = <<Head(s)>> \o Reading[rb]
      BY <2>2, <3>1, ReadingSteps
    <3> QED BY <3>2, <3>3 DEF sb
  <2>7. Reading[s] = <<Head(s)>> \o r
    BY <1>2, <2>2, <2>3, ReadingSteps
  <2>8. <<Head(s)>> \o (r \o Reading[b]) = (<<Head(s)>> \o r) \o Reading[b]
    <3>1. Head(s) \in Tokens /\ r \in Seq(Tokens) /\ Reading[b] \in Seq(Tokens)
      <4>1. Chars \subseteq Tokens
        BY DEF Tokens
      <4> QED BY <1>0, <2>1, <4>1, SeqMonotonic
    <3> QED BY <3>1, SingleConcat
  <2> QED BY <2>1, <2>5, <2>7, <2>8
<1>3. \A s \in Seq(Chars) : s \in W
  <2> HIDE DEF W
  <2> QED BY <1>1, <1>2, ShorterInduction
<1>4. c \o b \in Seq(Chars)
  BY ConcatProperties
<1> QED BY <1>3, <1>4

\* A text that is taken up to an escape.
LEMMA ReadAtEscape ==
    ASSUME NEW c \in Seq(Chars), ~HasMark(c), NEW b \in Seq(Chars)
    PROVE  LET k == c \o (<<"?">> \o <<"?">>)
           IN  /\ k \in Seq(Chars) /\ k # <<>> /\ k \o b \in Seq(Chars)
               /\ Reading[k] = c \o <<"?">>
               /\ k \o b = c \o (<<"?">> \o (<<"?">> \o b))
               /\ Reading[k \o b] = (c \o <<"?">>) \o Reading[b]
<1> DEFINE q == <<"?">>
           k == c \o (q \o q)
<1>1. q \in Seq(Chars) /\ q # <<>> /\ "?" \in Chars /\ Chars \subseteq Tokens
  BY MarkText, Single DEF Tokens
<1>2. \A t \in Seq(Chars) : /\ q \o t \in Seq(Chars) /\ q \o t # <<>>
                           /\ Head(q \o t) = "?" /\ Tail(q \o t) = t
  BY <1>1, HeadOfSingle
<1>3. ASSUME NEW t \in Seq(Chars) PROVE Reading[q \o (q \o t)] = q \o Reading[t]
  <2> DEFINE u == q \o t
             w == q \o u
  <2>1. u \in Seq(Chars) /\ u # <<>> /\ Head(u) = "?" /\ Tail(u) = t
    BY <1>2
  <2>2. w \in Seq(Chars) /\ w # <<>> /\ Head(w) = "?" /\ Tail(w) = u
    BY <1>2, <2>1
  <2> HIDE DEF u, w
  <2>3. Reading[w] = <<"?">> \o Reading[t]
    BY <2>1, <2>2, ReadingSteps
  <2> QED BY <2>3 DEF u, w
<1>4. Reading[<<>>] = <<>> /\ Reading[b] \in Seq(Tokens) /\ <<>> \in Seq(Chars)
  BY ReadingDef, ReadingSteps, EmptySeq
<1> HIDE DEF q
<1>5. q \o <<>> = q
  BY <1>1, ConcatEmptySeq
<1>6. Reading[q \o q] = q
  <2>1. Reading[q \o (q \o <<>>)] = q \o <<>>
    BY <1>3, <1>4
  <2> QED BY <1>5, <2>1
<1>7. q \o q \in Seq(Chars) /\ q \o (q \o b) \in Seq(Chars) /\ (q \o q) \o b = q \o (q \o b)
  BY <1>1, <1>2, ConcatAssociative
<1> DEFINE qq == q \o q
           qqb == q \o (q \o b)
           rb == Reading[b]
<1>8. k \in Seq(Chars) /\ Reading[k] = c \o q
  <2>1. qq \in Seq(Chars) /\ Reading[qq] = q
    BY <1>6, <1>7
  <2> HIDE DEF qq
  <2>2. c \o qq \in Seq(Chars) /\ Reading[c \o qq] = c \o q
    BY <2>1, ReadPlain
  <2> QED BY <2>2 DEF qq
<1>9. k \o b = c \o qqb
  <2>0. qq \in Seq(Chars)
    BY <1>7
  <2>1. qq \o b = qqb
    BY <1>7
  <2> HIDE DEF qq, qqb
  <2>2. (c \o qq) \o b = c \o (qq \o b)
    BY <2>0, ConcatAssociative
  <2>3. c \o (qq \o b) = c \o qqb
    BY <2>1, Zenon
  <2> QED BY <2>2, <2>3 DEF qq
<1>10. k \o b \in Seq(Chars) /\ Reading[k \o b] = c \o (q \o rb)
  <2>1. qqb \in Seq(Chars) /\ Reading[qqb] = q \o rb
    BY <1>3, <1>7
  <2> HIDE DEF qqb, rb
  <2>2. c \o qqb \in Seq(Chars) /\ Reading[c \o qqb] = c \o Reading[qqb]
    BY <2>1, ReadPlain
  <2>3. Reading[c \o qqb] = c \o (q \o rb)
    BY <2>1, <2>2, Zenon
  <2> QED BY <1>9, <2>2, <2>3
<1>11. c \o (q \o rb) = (c \o q) \o rb
  <2>1. c \in Seq(Tokens) /\ q \in Seq(Tokens) /\ rb \in Seq(Tokens)
    BY <1>1, <1>4, SeqMonotonic
  <2> HIDE DEF rb
  <2> QED BY <2>1, ConcatAssociative
<1>12. k # <<>>
  <2>1. qq \in Seq(Chars) /\ qq # <<>>
    BY <1>1, <1>2, <1>7
  <2> HIDE DEF qq
  <2>2. c \o qq # <<>>
    BY <2>1, ConcatEqualIffEmpty
  <2> QED BY <2>2 DEF qq
<1> QED BY <1>8, <1>9, <1>10, <1>11, <1>12 DEF q

\* A text that is taken up to a mark.
LEMMA ReadAtMark ==
    ASSUME NEW c \in Seq(Chars), ~HasMark(c), NEW b \in Seq(Chars), b = <<>> \/ Head(b) # "?"
    PROVE  Reading[c \o (<<"?">> \o b)] = c \o (<<"mark">> \o Reading[b])
<1> DEFINE w == <<"?">> \o b
<1>1. "?" \in Chars
  OBVIOUS
<1>2. w \in Seq(Chars) /\ w # <<>> /\ Head(w) = "?" /\ Tail(w) = b
  BY <1>1, HeadOfSingle
<1> HIDE DEF w
<1>3. Reading[w] = <<"mark">> \o Reading[b]
  BY <1>2, ReadingSteps
<1>4. Reading[c \o w] = c \o Reading[w]
  BY <1>2, ReadPlain
<1> QED BY <1>3, <1>4, Zenon DEF w

-----------------------------------------------------------------------------
(* Marks, and what takes their place *)

\* One step of Marks.
Count(f, r) == IF r = <<>> THEN 0 ELSE (IF Head(r) = "mark" THEN 1 ELSE 0) + f[Tail(r)]

\* Marks is the function its definition says it is.
LEMMA MarksDef ==
    /\ Marks \in [Seq(Tokens) -> Nat]
    /\ \A r \in Seq(Tokens) : Marks[r] = Count(Marks, r)
<1> DEFINE D == Seq(Tokens)
           size == [s \in D |-> Len(s)]
           step == [p \in [D -> Nat] \X D |-> Count(p[1], p[2])]
<1>1. size \in [D -> Nat] /\ (\A s \in D : size[s] = Len(s))
  OBVIOUS
<1>2. \A f \in [D -> Nat], s \in D : step[<<f, s>>] = Count(f, s)
  OBVIOUS
<1>3. step \in [[D -> Nat] \X D -> Nat]
  <2>1. ASSUME NEW p \in [D -> Nat] \X D PROVE Count(p[1], p[2]) \in Nat
    <3>1. p[2] \in Seq(Tokens) /\ \A t \in Seq(Tokens) : p[1][t] \in Nat
      OBVIOUS
    <3>2. p[2] # <<>> => p[1][Tail(p[2])] \in Nat
      BY <3>1, FromHead
    <3> QED BY <3>2 DEF Count
  <2> QED BY <2>1
<1> HIDE DEF step
<1>4. ASSUME NEW f \in [D -> Nat], NEW g \in [D -> Nat], NEW s \in D,
             \A t \in D : size[t] < size[s] => f[t] = g[t]
      PROVE  step[<<f, s>>] = step[<<g, s>>]
  <2>1. \A t \in Seq(Tokens) : Len(t) < Len(s) => f[t] = g[t]
    BY <1>1, <1>4
  <2>2. s # <<>> => f[Tail(s)] = g[Tail(s)]
    BY <2>1, FromHead
  <2>3. Count(f, s) = Count(g, s)
    BY <2>2 DEF Count
  <2> QED BY <1>2, <2>3
<1> HIDE DEF size
<1>5. Descends(D, Nat, size, step)
  BY <1>1, <1>3, <1>4 DEF Descends
<1>6. PICK f : Solves(f, D, Nat, step)
  <2>1. Nat # {}
    OBVIOUS
  <2> HIDE DEF D
  <2> QED BY <1>5, <2>1, Recursion
<1>7. f = [s \in Seq(Tokens) |-> Count(f, s)]
  BY <1>2, <1>6 DEF Solves
<1>8. Marks = CHOOSE g : g = [s \in Seq(Tokens) |-> Count(g, s)]
  BY DEF Marks, Count
<1>9. Marks = [s \in Seq(Tokens) |-> Count(Marks, s)]
  BY <1>7, <1>8
<1>10. \A s \in Seq(Tokens) : Marks[s] = Count(Marks, s)
  BY <1>9
<1>11. \A s \in Seq(Tokens) : Marks[s] \in Nat
  <2> DEFINE W == {s \in Seq(Tokens) : Marks[s] \in Nat}
  <2>1. <<>> \in W
    <3>1. <<>> \in Seq(Tokens)
      OBVIOUS
    <3>2. Marks[<<>>] = 0
      BY <1>10, <3>1 DEF Count
    <3> QED BY <3>1, <3>2
  <2>2. ASSUME NEW s \in Seq(Tokens), s # <<>>, \A t \in Seq(Tokens) : Len(t) < Len(s) => t \in W
        PROVE  s \in W
    <3>1. Marks[Tail(s)] \in Nat
      BY <2>2, FromHead
    <3>2. Marks[s] = (IF Head(s) = "mark" THEN 1 ELSE 0) + Marks[Tail(s)]
      BY <1>10, <2>2 DEF Count
    <3> QED BY <3>1, <3>2
  <2> HIDE DEF W
  <2>3. \A s \in Seq(Tokens) : s \in W
    BY <2>1, <2>2, ShorterInduction
  <2> QED BY <2>3 DEF W
<1> QED BY <1>9, <1>10, <1>11

\* Marks of two readings add up.
LEMMA MarksTogether ==
    ASSUME NEW a \in Seq(Tokens), NEW b \in Seq(Tokens)
    PROVE  a \o b \in Seq(Tokens) /\ Marks[a \o b] = Marks[a] + Marks[b]
<1> DEFINE W == {s \in Seq(Tokens) : Marks[s \o b] = Marks[s] + Marks[b]}
<1>0. (\A s \in Seq(Tokens) : Marks[s] \in Nat) /\ Marks[<<>>] = 0
  BY MarksDef, EmptySeq DEF Count
<1>1. <<>> \in W
  <2>1. <<>> \o b = b /\ <<>> \in Seq(Tokens)
    BY ConcatEmptySeq
  <2> QED BY <1>0, <2>1
<1>2. ASSUME NEW s \in Seq(Tokens), s # <<>>, \A t \in Seq(Tokens) : Len(t) < Len(s) => t \in W
      PROVE  s \in W
  <2> DEFINE r == Tail(s)
             sb == s \o b
             rb == r \o b
             one == IF Head(s) = "mark" THEN 1 ELSE 0
  <2>1. r \in Seq(Tokens) /\ Len(r) < Len(s) /\ one \in Nat
    BY <1>2, FromHead
  <2>2. sb \in Seq(Tokens) /\ sb # <<>> /\ Head(sb) = Head(s) /\ Tail(sb) = rb
    BY <1>2, HeadOfConcat
  <2>3. Marks[rb] = Marks[r] + Marks[b]
    BY <1>2, <2>1
  <2>4. Marks[s] = one + Marks[r]
    BY <1>2, MarksDef DEF Count
  <2>5. s \in W <=> Marks[sb] = Marks[s] + Marks[b]
    OBVIOUS
  <2> HIDE DEF sb, rb, r
  <2>6. Marks[sb] = one + Marks[rb]
    BY <2>2, MarksDef DEF Count
  <2> HIDE DEF one
  <2> QED BY <1>0, <2>1, <2>3, <2>4, <2>5, <2>6
<1>3. \A s \in Seq(Tokens) : s \in W
  <2> HIDE DEF W
  <2> QED BY <1>1, <1>2, ShorterInduction
<1>4. a \o b \in Seq(Tokens)
  BY ConcatProperties
<1> QED BY <1>3, <1>4

\* A text is a reading too, of characters that stand for themselves.
LEMMA TextTokens == ASSUME NEW c \in Seq(Chars) PROVE c \in Seq(Tokens)
<1>1. Chars \subseteq Tokens
  BY DEF Tokens
<1> QED BY <1>1, SeqMonotonic

\* A text's characters are no marks.
LEMMA NoMarks == ASSUME NEW c \in Seq(Chars) PROVE Marks[c] = 0
<1> DEFINE W == {s \in Seq(Chars) : Marks[s] = 0}
<1>1. <<>> \in W
  BY MarksDef, EmptySeq DEF Count
<1>2. ASSUME NEW s \in Seq(Chars), s # <<>>, \A t \in Seq(Chars) : Len(t) < Len(s) => t \in W
      PROVE  s \in W
  <2>1. Head(s) # "mark" /\ Marks[Tail(s)] = 0 /\ s \in Seq(Tokens)
    BY <1>2, FromHead, TextTokens
  <2>2. Marks[s] = 0 + Marks[Tail(s)]
    BY <1>2, <2>1, MarksDef DEF Count
  <2> QED BY <2>1, <2>2
<1>3. \A s \in Seq(Chars) : s \in W
  <2> HIDE DEF W
  <2> QED BY <1>1, <1>2, ShorterInduction
<1> QED BY <1>3

\* A mark counts one.
LEMMA OneMark == <<"mark">> \in Seq(Tokens) /\ Marks[<<"mark">>] = 1
<1> DEFINE t == <<"mark">>
<1>1. "mark" \in Tokens
  BY DEF Tokens
<1>2. t \in Seq(Tokens) /\ t # <<>>
  BY <1>1, Single
<1>3. Head(t) = "mark" /\ Tail(t) = <<>>
  OBVIOUS
<1>4. Marks[<<>>] = 0
  BY MarksDef, EmptySeq DEF Count
<1> HIDE DEF t
<1>5. Marks[t] = 1 + Marks[Tail(t)]
  BY <1>2, <1>3, MarksDef DEF Count
<1> QED BY <1>2, <1>3, <1>4, <1>5 DEF t

-----------------------------------------------------------------------------

\* What takes the place of marks.
Values == Seq(Seq(Pieces))

\* One step of Filled.
Fill(f, p) ==
    IF p[1] = <<>> THEN <<>>
    ELSE IF Head(p[1]) = "mark" /\ p[2] # <<>>
    THEN Head(p[2]) \o f[<<Tail(p[1]), Tail(p[2])>>]
    ELSE <<Head(p[1])>> \o f[<<Tail(p[1]), p[2]>>]

\* It depends on shorter readings, and gives pieces.
LEMMA FillArguments ==
    ASSUME NEW p \in Seq(Tokens) \X Values
    PROVE  /\ p[1] \in Seq(Tokens) /\ p[2] \in Values
           /\ p[1] # <<>> => /\ Head(p[1]) \in Pieces
                             /\ <<Tail(p[1]), p[2]>> \in Seq(Tokens) \X Values
                             /\ Len(Tail(p[1])) < Len(p[1])
           /\ p[1] # <<>> /\ p[2] # <<>> => /\ Head(p[2]) \in Seq(Pieces)
                                            /\ <<Tail(p[1]), Tail(p[2])>> \in Seq(Tokens) \X Values
<1>1. p[1] \in Seq(Tokens) /\ p[2] \in Values
  OBVIOUS
<1>2. p[1] # <<>> => Head(p[1]) \in Tokens /\ Tail(p[1]) \in Seq(Tokens) /\ Len(Tail(p[1])) < Len(p[1])
  BY <1>1, FromHead
<1>3. p[2] # <<>> => Head(p[2]) \in Seq(Pieces) /\ Tail(p[2]) \in Values
  BY <1>1, FromHead DEF Values
<1> QED BY <1>1, <1>2, <1>3 DEF Pieces

LEMMA FillPieces ==
    ASSUME NEW f, NEW p \in Seq(Tokens) \X Values,
           \A q \in Seq(Tokens) \X Values : Len(q[1]) < Len(p[1]) => f[q] \in Seq(Pieces)
    PROVE  Fill(f, p) \in Seq(Pieces)
<1>1. CASE p[1] = <<>>
  BY <1>1 DEF Fill
<1>2. CASE p[1] # <<>>
  <2> DEFINE q == <<Tail(p[1]), Tail(p[2])>>
             t == <<Tail(p[1]), p[2]>>
  <2>1. q[1] = Tail(p[1]) /\ t[1] = Tail(p[1])
    OBVIOUS
  <2>2. t \in Seq(Tokens) \X Values /\ (p[2] # <<>> => q \in Seq(Tokens) \X Values /\ Head(p[2]) \in Seq(Pieces))
        /\ Len(Tail(p[1])) < Len(p[1]) /\ Head(p[1]) \in Pieces
    BY <1>2, FillArguments
  <2> HIDE DEF q, t
  <2>3. f[t] \in Seq(Pieces) /\ (p[2] # <<>> => f[q] \in Seq(Pieces))
    BY <2>1, <2>2
  <2>4. <<Head(p[1])>> \o f[t] \in Seq(Pieces)
    BY <2>2, <2>3, HeadOfSingle
  <2>5. p[2] # <<>> => Head(p[2]) \o f[q] \in Seq(Pieces)
    BY <2>2, <2>3, ConcatProperties
  <2> QED BY <1>2, <2>4, <2>5 DEF Fill, q, t
<1> QED BY <1>1, <1>2

LEMMA FillDescends ==
    ASSUME NEW f, NEW g, NEW p \in Seq(Tokens) \X Values,
           \A q \in Seq(Tokens) \X Values : Len(q[1]) < Len(p[1]) => f[q] = g[q]
    PROVE  Fill(f, p) = Fill(g, p)
<1>1. CASE p[1] = <<>>
  BY <1>1 DEF Fill
<1>2. CASE p[1] # <<>>
  <2> DEFINE q == <<Tail(p[1]), Tail(p[2])>>
             t == <<Tail(p[1]), p[2]>>
  <2>1. q[1] = Tail(p[1]) /\ t[1] = Tail(p[1])
    OBVIOUS
  <2>2. t \in Seq(Tokens) \X Values /\ (p[2] # <<>> => q \in Seq(Tokens) \X Values)
        /\ Len(Tail(p[1])) < Len(p[1])
    BY <1>2, FillArguments
  <2> HIDE DEF q, t
  <2>3. f[t] = g[t] /\ (p[2] # <<>> => f[q] = g[q])
    BY <2>1, <2>2
  <2> QED BY <1>2, <2>3 DEF Fill, q, t
<1> QED BY <1>1, <1>2

\* Filled is the function its definition says it is ...
LEMMA FilledDef ==
    \A p \in Seq(Tokens) \X Values : Filled[p] = Fill(Filled, p) /\ Filled[p] \in Seq(Pieces)
<1> DEFINE D == Seq(Tokens) \X Values
           V == Seq(Pieces)
           size == [p \in D |-> Len(p[1])]
           step == [d \in [D -> V] \X D |-> Fill(d[1], d[2])]
<1>1. size \in [D -> Nat] /\ \A p \in D : size[p] = Len(p[1])
  <2>1. \A p \in D : Len(p[1]) \in Nat
    BY FillArguments, LenProperties
  <2> QED BY <2>1
<1>2. \A f \in [D -> V], p \in D : step[<<f, p>>] = Fill(f, p)
  <2> HIDE DEF D, V
  <2> QED OBVIOUS
<1>3. step \in [[D -> V] \X D -> V]
  <2>1. ASSUME NEW d \in [D -> V] \X D PROVE Fill(d[1], d[2]) \in V
    <3>1. d[1] \in [D -> V] /\ d[2] \in D
      <4> HIDE DEF D, V
      <4> QED OBVIOUS
    <3>2. \A q \in D : d[1][q] \in V
      <4> HIDE DEF D, V
      <4> QED BY <3>1
    <3> QED BY <3>1, <3>2, FillPieces
  <2> HIDE DEF D, V
  <2> QED BY <2>1
<1> HIDE DEF step
<1>4. ASSUME NEW f \in [D -> V], NEW g \in [D -> V], NEW p \in D,
             \A q \in D : size[q] < size[p] => f[q] = g[q]
      PROVE  step[<<f, p>>] = step[<<g, p>>]
  <2>1. \A q \in D : Len(q[1]) < Len(p[1]) => f[q] = g[q]
    <3> HIDE DEF D, V, size
    <3> QED BY <1>1, <1>4
  <2>2. Fill(f, p) = Fill(g, p)
    BY <2>1, FillDescends
  <2> HIDE DEF D, V
  <2> QED BY <1>2, <2>2
<1>5. V # {}
  <2>1. <<>> \in V
    OBVIOUS
  <2> HIDE DEF V
  <2> QED BY <2>1
<1> HIDE DEF size, D, V
<1>6. Descends(D, V, size, step)
  BY <1>1, <1>3, <1>4 DEF Descends
<1>7. PICK f : Solves(f, D, V, step)
  BY <1>5, <1>6, Recursion
<1>8. f = [p \in D |-> Fill(f, p)]
  BY <1>2, <1>7 DEF Solves
<1>9. Filled = CHOOSE g : g = [p \in D |-> Fill(g, p)]
  BY DEF Filled, Fill, D, Values
<1>10. Filled = [p \in D |-> Fill(Filled, p)]
  BY <1>8, <1>9
<1>11. \A p \in D : Filled[p] = Fill(Filled, p)
  BY <1>10
<1> DEFINE W == {p \in D : Filled[p] \in V}
<1>12. ASSUME NEW p \in D, \A q \in D : size[q] < size[p] => q \in W PROVE p \in W
  <2>1. \A q \in D : Len(q[1]) < Len(p[1]) => Filled[q] \in V
    BY <1>1, <1>12
  <2>2. Fill(Filled, p) \in V
    BY <2>1, FillPieces DEF D, V
  <2> QED BY <1>11, <2>2
<1>13. D \subseteq W
  <2> HIDE DEF W
  <2> QED BY <1>1, <1>12, SizeInduction
<1> QED BY <1>11, <1>13 DEF D, V

\* ... and so fills from the first token on.
LEMMA FilledSteps ==
    ASSUME NEW t \in Seq(Tokens), NEW u \in Values
    PROVE  /\ Filled[<<t, u>>] \in Seq(Pieces)
           /\ t = <<>> => Filled[<<t, u>>] = <<>>
           /\ t # <<>> /\ Head(t) = "mark" /\ u # <<>>
                => Filled[<<t, u>>] = Head(u) \o Filled[<<Tail(t), Tail(u)>>]
           /\ t # <<>> /\ (Head(t) # "mark" \/ u = <<>>)
                => Filled[<<t, u>>] = <<Head(t)>> \o Filled[<<Tail(t), u>>]
<1> DEFINE p == <<t, u>>
<1>1. p \in Seq(Tokens) \X Values /\ p[1] = t /\ p[2] = u
  OBVIOUS
<1> HIDE DEF p
<1>2. Filled[p] = Fill(Filled, p) /\ Filled[p] \in Seq(Pieces)
  BY <1>1, FilledDef
<1> QED BY <1>1, <1>2 DEF Fill, p

\* Tokens are pieces.
LEMMA TokenPieces == ASSUME NEW t \in Seq(Tokens) PROVE t \in Seq(Pieces)
<1>1. Tokens \subseteq Pieces
  BY DEF Pieces
<1> QED BY <1>1, SeqMonotonic

\* What has no values stays as it is.
LEMMA FilledNothing == ASSUME NEW c \in Seq(Tokens) PROVE Filled[<<c, <<>>>>] = c
<1> DEFINE none == <<>>
           W == {t \in Seq(Tokens) : Filled[<<t, none>>] = t}
<1>0. none \in Values /\ none = <<>> /\ none \in Seq(Tokens)
  BY DEF Values
<1> HIDE DEF none
<1>1. <<>> \in W
  BY <1>0, FilledSteps
<1>2. ASSUME NEW s \in Seq(Tokens), s # <<>>, \A t \in Seq(Tokens) : Len(t) < Len(s) => t \in W
      PROVE  s \in W
  <2>1. Tail(s) \in Seq(Tokens) /\ Len(Tail(s)) < Len(s) /\ s = <<Head(s)>> \o Tail(s)
    BY <1>2, FromHead
  <2>2. Filled[<<Tail(s), none>>] = Tail(s)
    BY <1>2, <2>1
  <2>3. Filled[<<s, none>>] = <<Head(s)>> \o Filled[<<Tail(s), none>>]
    BY <1>0, <1>2, FilledSteps
  <2>4. Filled[<<s, none>>] = s
    BY <2>1, <2>2, <2>3, Zenon
  <2> QED BY <2>4
<1>3. \A s \in Seq(Tokens) : s \in W
  <2> HIDE DEF W
  <2> QED BY <1>1, <1>2, ShorterInduction
<1> QED BY <1>3 DEF none

\* Two readings filled one after the other, each with as many values as marks.
LEMMA FilledTogether ==
    ASSUME NEW a \in Seq(Tokens), NEW b \in Seq(Tokens), NEW u \in Values, NEW v \in Values,
           Marks[a] = Len(u)
    PROVE  Filled[<<a \o b, u \o v>>] = Filled[<<a, u>>] \o Filled[<<b, v>>]
<1> DEFINE y == Filled[<<b, v>>]
           W == {s \in Seq(Tokens) : \A w \in Values :
                   Marks[s] = Len(w) => Filled[<<s \o b, w \o v>>] = Filled[<<s, w>>] \o y}
<1>0. y \in Seq(Pieces)
  BY FilledSteps
<1> HIDE DEF y
<1>1. <<>> \in W
  <2>1. <<>> \in Seq(Tokens)
    OBVIOUS
  <2>2. ASSUME NEW w \in Values, Marks[<<>>] = Len(w)
        PROVE  Filled[<<<<>> \o b, w \o v>>] = Filled[<<<<>>, w>>] \o y
    <3>1. Marks[<<>>] = 0
      BY <2>1, MarksDef DEF Count
    <3>2. w = <<>>
      BY <2>2, <3>1, EmptySeq DEF Values
    <3>3. <<>> \o b = b /\ w \o v = v
      BY <3>2, ConcatEmptySeq DEF Values
    <3>4. Filled[<<<<>>, w>>] = <<>>
      BY <2>1, FilledSteps
    <3>5. <<>> \o y = y
      BY <1>0, ConcatEmptySeq
    <3> QED BY <3>3, <3>4, <3>5, Zenon DEF y
  <2> QED BY <2>1, <2>2
<1>2. ASSUME NEW s \in Seq(Tokens), s # <<>>, \A t \in Seq(Tokens) : Len(t) < Len(s) => t \in W
      PROVE  s \in W
  <2> SUFFICES ASSUME NEW w \in Values, Marks[s] = Len(w)
               PROVE  Filled[<<s \o b, w \o v>>] = Filled[<<s, w>>] \o y
    OBVIOUS
  <2> DEFINE r == Tail(s)
             e == Head(s)
             sb == s \o b
             rb == r \o b
             wv == w \o v
  <2>1. r \in Seq(Tokens) /\ e \in Tokens /\ e \in Pieces /\ Len(r) < Len(s) /\ Marks[r] \in Nat
    BY <1>2, FromHead, MarksDef DEF Pieces
  <2>2. sb \in Seq(Tokens) /\ sb # <<>> /\ Head(sb) = e /\ Tail(sb) = rb /\ rb \in Seq(Tokens)
    BY <1>2, <2>1, HeadOfConcat, ConcatProperties
  <2>3. wv \in Values
    BY ConcatProperties DEF Values
  <2>4. Marks[s] = (IF e = "mark" THEN 1 ELSE 0) + Marks[r]
    BY <1>2, MarksDef DEF Count
  <2>5. ASSUME NEW x \in Values, Marks[r] = Len(x)
        PROVE  /\ Filled[<<rb, x \o v>>] = Filled[<<r, x>>] \o y
               /\ Filled[<<r, x>>] \in Seq(Pieces)
    BY <1>2, <2>1, <2>5, FilledSteps
  <2>6. Head(s) = e /\ Tail(s) = r
    OBVIOUS
  <2> HIDE DEF e, r, sb, rb
  <2>7. CASE e # "mark"
    <3> DEFINE z == Filled[<<r, w>>]
    <3>0. Marks[r] = Len(w)
      BY <2>1, <2>4, <2>7
    <3>1. Filled[<<rb, wv>>] = z \o y
      BY <2>5, <3>0
    <3>5. z \in Seq(Pieces)
      BY <2>5, <3>0
    <3>2. Filled[<<s, w>>] = <<e>> \o z
      BY <1>2, <2>6, <2>7, FilledSteps
    <3> HIDE DEF wv
    <3>3. Filled[<<sb, wv>>] = <<e>> \o Filled[<<rb, wv>>]
      BY <2>2, <2>3, <2>7, FilledSteps
    <3> HIDE DEF z
    <3>4. <<e>> \o (z \o y) = (<<e>> \o z) \o y
      BY <1>0, <2>1, <3>5, SingleConcat, SMTT(30)
    <3> QED BY <3>1, <3>2, <3>3, <3>4, Zenon DEF sb, wv
  <2>8. CASE e = "mark"
    <3> DEFINE h == Head(w)
               x == Tail(w)
               z == Filled[<<r, x>>]
               xv == x \o v
    <3>1. w # <<>>
      <4>1. Len(w) # 0
        BY <2>1, <2>4, <2>8
      <4> QED BY <4>1
    <3>2. h \in Seq(Pieces) /\ x \in Values /\ Len(x) = Len(w) - 1
      BY <3>1, FromHead, HeadTailProperties DEF Values
    <3>3. wv # <<>> /\ Head(wv) = h /\ Tail(wv) = xv
      BY <3>1, HeadOfConcat DEF Values
    <3>4. Marks[r] = Len(x)
      BY <2>1, <2>4, <2>8, <3>2
    <3>5. Filled[<<rb, xv>>] = z \o y
      BY <2>5, <3>2, <3>4
    <3>9. z \in Seq(Pieces)
      BY <2>5, <3>2, <3>4
    <3>6. Filled[<<s, w>>] = h \o z
      BY <1>2, <2>6, <2>8, <3>1, FilledSteps
    <3> HIDE DEF wv, xv, h, z
    <3>7. Filled[<<sb, wv>>] = h \o Filled[<<rb, xv>>]
      BY <2>2, <2>3, <2>8, <3>3, FilledSteps, ZenonT(40)
    <3>8. h \o (z \o y) = (h \o z) \o y
      BY <1>0, <3>2, <3>9, ConcatAssociative, SMTT(30)
    <3> QED BY <3>5, <3>6, <3>7, <3>8, Zenon DEF sb, wv
  <2> QED BY <2>7, <2>8
<1>3. \A s \in Seq(Tokens) : s \in W
  <2> HIDE DEF W
  <2> QED BY <1>1, <1>2, ShorterInduction
<1> QED BY <1>3 DEF y

-----------------------------------------------------------------------------
(* What a text stands for, moved at a question mark *)

\* Instances the provers find at once.
LEMMA TextsAssociate == \A a, b, d \in Seq(Chars) : (a \o b) \o d = a \o (b \o d)
<1> TAKE a, b, d \in Seq(Chars)
<1> QED BY ConcatAssociative

LEMMA TokensAssociate == \A a, b, d \in Seq(Tokens) : (a \o b) \o d = a \o (b \o d)
<1> TAKE a, b, d \in Seq(Tokens)
<1> QED BY ConcatAssociative

LEMMA PiecesAssociate == \A a, b, d \in Seq(Pieces) : (a \o b) \o d = a \o (b \o d)
<1> TAKE a, b, d \in Seq(Pieces)
<1> QED BY ConcatAssociative

LEMMA TextHead == \A a, b \in Seq(Chars) : a # <<>> => Head(a \o b) = Head(a)
BY HeadOfConcat

\* What a text stands for with its marks filled.
Stands(s, values) == Filled[<<Reading[s], values>>]

\* No mark at the end of a makes an escape with the start of b.
Clear(a, b) ==
    \/ b = <<>> \/ Head(b) # "?"
    \/ \A x \in Seq(Chars) : Reading[a \o x] = Reading[a] \o Reading[x]

\* A text stands for pieces.
LEMMA StandsFor ==
    ASSUME NEW s \in Seq(Chars), NEW u \in Values
    PROVE  /\ Reading[s] \in Seq(Tokens) /\ Marks[Reading[s]] \in Nat
           /\ Stands(s, u) \in Seq(Pieces)
<1>1. Reading[s] \in Seq(Tokens)
  BY ReadingDef
<1> DEFINE r == Reading[s]
<1> HIDE DEF r
<1>2. r \in Seq(Tokens)
  BY <1>1 DEF r
<1>3. Marks[r] \in Nat /\ Filled[<<r, u>>] \in Seq(Pieces)
  BY <1>2, MarksDef, FilledSteps
<1> QED BY <1>2, <1>3 DEF r, Stands

\* Tokens that are no marks stay before what is filled.
LEMMA FilledAfter ==
    ASSUME NEW c \in Seq(Tokens), Marks[c] = 0, NEW r \in Seq(Tokens), NEW u \in Values
    PROVE  Filled[<<c \o r, u>>] = c \o Filled[<<r, u>>]
<1> DEFINE none == <<>>
<1>1. none \in Values /\ Len(none) = 0 /\ none \o u = u
  BY ConcatEmptySeq DEF Values
<1>2. Filled[<<c, none>>] = c
  BY FilledNothing
<1> HIDE DEF none
<1>3. Filled[<<c \o r, none \o u>>] = Filled[<<c, none>>] \o Filled[<<r, u>>]
  <2>1. Marks[c] = Len(none)
    BY <1>1
  <2> QED BY <1>1, <2>1, FilledTogether, Zenon
<1> QED BY <1>1, <1>2, <1>3, Zenon

\* The first value takes the place of the mark.
LEMMA FilledMark ==
    ASSUME NEW r \in Seq(Tokens), NEW u \in Values, u # <<>>
    PROVE  Filled[<<<<"mark">> \o r, u>>] = Head(u) \o Filled[<<r, Tail(u)>>]
<1> DEFINE t == <<"mark">> \o r
<1>1. "mark" \in Tokens
  BY DEF Tokens
<1>2. t \in Seq(Tokens) /\ t # <<>> /\ Head(t) = "mark" /\ Tail(t) = r
  BY <1>1, HeadOfSingle
<1> HIDE DEF t
<1>3. Filled[<<t, u>>] = Head(u) \o Filled[<<r, Tail(u)>>]
  BY <1>2, FilledSteps
<1> QED BY <1>3 DEF t

\* s is k and r, k a text without marks c and an escape.
EscapeSplit(c, k, r, s) ==
    /\ c \in Seq(Chars) /\ r \in Seq(Chars) /\ ~HasMark(c)
    /\ k = c \o (<<"?">> \o <<"?">>)
    /\ s = k \o r

\* How it is read after t.
EscapeRead(t, c, k, r, s) ==
    /\ k \in Seq(Chars) /\ t \o k \in Seq(Chars) /\ s \in Seq(Chars)
    /\ Reading[t \o k] = Reading[t] \o (c \o <<"?">>)
    /\ Reading[s] = (c \o <<"?">>) \o Reading[r]
    /\ Clear(t \o k, r)

\* What Expr.ToSql takes up to an escape is read as it stands there.
LEMMA EscapeMoved ==
    ASSUME NEW t \in Seq(Chars), NEW c, NEW k, NEW r, NEW s, EscapeSplit(c, k, r, s), Clear(t, s)
    PROVE  EscapeRead(t, c, k, r, s)
<1> SUFFICES ASSUME c \in Seq(Chars), r \in Seq(Chars), ~HasMark(c),
                    k = c \o (<<"?">> \o <<"?">>), s = k \o r
    PROVE  /\ k \in Seq(Chars) /\ t \o k \in Seq(Chars) /\ s \in Seq(Chars)
           /\ Reading[t \o k] = Reading[t] \o (c \o <<"?">>)
           /\ Reading[s] = (c \o <<"?">>) \o Reading[r]
           /\ Clear(t \o k, r)
  BY Zenon DEF EscapeSplit, EscapeRead
<1>1. /\ k \in Seq(Chars) /\ k # <<>> /\ Reading[k] = c \o <<"?">>
      /\ \A x \in Seq(Chars) : k \o x \in Seq(Chars) /\ Reading[k \o x] = Reading[k] \o Reading[x]
  <2>1. k \in Seq(Chars) /\ k # <<>> /\ Reading[k] = c \o <<"?">>
    BY ReadAtEscape, Zenon
  <2>2. ASSUME NEW x \in Seq(Chars)
        PROVE  k \o x \in Seq(Chars) /\ Reading[k \o x] = (c \o <<"?">>) \o Reading[x]
    BY ReadAtEscape, Zenon
  <2> QED BY <2>1, <2>2, Zenon
<1>2. s \in Seq(Chars) /\ Reading[s] = Reading[k] \o Reading[r] /\ t \o k \in Seq(Chars)
  BY <1>1, ConcatProperties
<1> DEFINE rt == Reading[t]
           rk == Reading[k]
<1>3. rt \in Seq(Tokens) /\ rk \in Seq(Tokens) /\ \A x \in Seq(Chars) : Reading[x] \in Seq(Tokens)
  BY <1>1, ReadingDef
<1> HIDE DEF rt, rk
<1>4. /\ Reading[t \o k] = rt \o rk
      /\ \A x \in Seq(Chars) : Reading[t \o (k \o x)] = rt \o Reading[k \o x]
  <2>1. CASE \A x \in Seq(Chars) : Reading[t \o x] = Reading[t] \o Reading[x]
    BY <1>1, <2>1 DEF rt, rk
  <2>2. CASE s = <<>> \/ Head(s) # "?"
    <3>1. s # <<>> /\ Head(s) = Head(k)
      BY <1>1, HeadOfConcat
    <3>2. Head(k) # "?"
      BY <2>2, <3>1
    <3>3. \A x \in Seq(Chars) : Head(k \o x) = Head(k)
      BY <1>1, TextHead, Zenon
    <3>4. ASSUME NEW b \in Seq(Chars), Head(b) # "?" PROVE Reading[t \o b] = Reading[t] \o Reading[b]
      BY <3>4, ReadTogether
    <3> QED BY <1>1, <3>2, <3>3, <3>4 DEF rt, rk
  <2> QED BY <2>1, <2>2 DEF Clear
<1>5. ASSUME NEW x \in Seq(Chars) PROVE Reading[(t \o k) \o x] = Reading[t \o k] \o Reading[x]
  <2> DEFINE rx == Reading[x]
  <2>1. (t \o k) \o x = t \o (k \o x)
    <3>1. k \in Seq(Chars)
      BY <1>1
    <3> QED BY <3>1, TextsAssociate, ZenonT(40)
  <2>2. Reading[t \o (k \o x)] = rt \o (rk \o rx)
    BY <1>1, <1>4 DEF rk
  <2>3. rx \in Seq(Tokens)
    BY <1>3
  <2> HIDE DEF rx
  <2>4. rt \o (rk \o rx) = (rt \o rk) \o rx
    BY <1>3, <2>3, TokensAssociate, ZenonT(40)
  <2> QED BY <1>4, <2>1, <2>2, <2>4, Zenon DEF rx
<1> QED BY <1>1, <1>2, <1>4, <1>5 DEF Clear, rt, rk

\* s is a text without marks c, a mark that is not an escape, and r.
MarkSplit(c, r, s) ==
    /\ c \in Seq(Chars) /\ r \in Seq(Chars) /\ ~HasMark(c)
    /\ r = <<>> \/ Head(r) # "?"
    /\ s = c \o (<<"?">> \o r)

\* How it is read with n in the place of the mark, after t.
MarkRead(t, c, n, tcn, r, s) ==
    /\ tcn \in Seq(Chars) /\ s \in Seq(Chars)
    /\ Reading[tcn] = Reading[t] \o (c \o Reading[n])
    /\ Reading[s] = c \o (<<"mark">> \o Reading[r])

\* What it puts in the place of a mark is read as it is on its own.
LEMMA MarkMoved ==
    ASSUME NEW t \in Seq(Chars), NEW n \in Seq(Chars), NEW c, NEW r, NEW s, MarkSplit(c, r, s),
           Clear(t, s)
    PROVE  MarkRead(t, c, n, (t \o c) \o n, r, s)
<1> SUFFICES ASSUME c \in Seq(Chars), r \in Seq(Chars), ~HasMark(c),
                    r = <<>> \/ Head(r) # "?", s = c \o (<<"?">> \o r)
    PROVE  /\ (t \o c) \o n \in Seq(Chars) /\ s \in Seq(Chars)
           /\ Reading[(t \o c) \o n] = Reading[t] \o (c \o Reading[n])
           /\ Reading[s] = c \o (<<"mark">> \o Reading[r])
  BY Zenon DEF MarkSplit, MarkRead
<1>1. Reading[s] = c \o (<<"mark">> \o Reading[r])
  BY ReadAtMark
<1> DEFINE w == <<"?">> \o r
           m == c \o n
<1>2. w \in Seq(Chars) /\ Head(w) = "?" /\ s = c \o w
  BY HeadOfSingle
<1>3. m \in Seq(Chars) /\ Reading[m] = c \o Reading[n]
  BY ReadPlain
<1>4. (t \o c) \o n = t \o m
  BY TextsAssociate, Zenon
<1>5. c # <<>> => Head(m) = Head(c)
  BY HeadOfConcat
<1> HIDE DEF w, m
<1>6. s \in Seq(Chars) /\ t \o m \in Seq(Chars)
  BY <1>2, <1>3, ConcatProperties
<1>7. Reading[t \o m] = Reading[t] \o Reading[m]
  <2>1. CASE \A x \in Seq(Chars) : Reading[t \o x] = Reading[t] \o Reading[x]
    BY <1>3, <2>1
  <2>2. CASE s = <<>> \/ Head(s) # "?"
    <3>1. c # <<>>
      <4>1. c = <<>> => s = w
        BY <1>2, ConcatEmptySeq
      <4>2. w # <<>>
        <5>1. w = <<"?">> \o r /\ "?" \in Chars
          BY DEF w
        <5> QED BY <5>1, HeadOfSingle
      <4> QED BY <1>2, <2>2, <4>1, <4>2
    <3>2. s # <<>> /\ Head(s) = Head(c)
      BY <1>2, <3>1, HeadOfConcat
    <3>3. Head(m) # "?"
      BY <1>5, <2>2, <3>1, <3>2
    <3> QED BY <1>3, <3>3, ReadTogether
  <2> QED BY <2>1, <2>2 DEF Clear
<1> QED BY <1>1, <1>3, <1>4, <1>6, <1>7, Zenon

\* t and s mean together what t \o k and r do.
EscapeMeans(t, k, r, s, u, v) ==
    /\ Stands(t \o k, u) \o Stands(r, v) = Stands(t, u) \o Stands(s, v)
    /\ Marks[Reading[t \o k]] = Len(u)
    /\ Marks[Reading[s]] = Marks[Reading[r]]

\* t and s mean together what tcn and r do, w being n's values.
MarkMeans(tcn, r, t, s, u, w, v) ==
    /\ Stands(tcn, u \o w) \o Stands(r, Tail(v)) = Stands(t, u) \o Stands(s, v)
    /\ Marks[Reading[tcn]] = Len(u) + Len(w)
    /\ Marks[Reading[s]] = 1 + Marks[Reading[r]]

\* The meaning does not change with the escape taken ...
LEMMA EscapeStands ==
    ASSUME NEW t \in Seq(Chars), NEW c \in Seq(Chars), NEW r \in Seq(Chars), NEW k, NEW s,
           EscapeRead(t, c, k, r, s),
           NEW u \in Values, NEW v \in Values, Marks[Reading[t]] = Len(u)
    PROVE  EscapeMeans(t, k, r, s, u, v)
<1> SUFFICES ASSUME k \in Seq(Chars), t \o k \in Seq(Chars), s \in Seq(Chars),
                    Reading[t \o k] = Reading[t] \o (c \o <<"?">>),
                    Reading[s] = (c \o <<"?">>) \o Reading[r]
    PROVE  /\ Stands(t \o k, u) \o Stands(r, v) = Stands(t, u) \o Stands(s, v)
           /\ Marks[Reading[t \o k]] = Len(u)
           /\ Marks[Reading[s]] = Marks[Reading[r]]
  BY Zenon DEF EscapeRead, EscapeMeans
<1> DEFINE rt == Reading[t]
           rr == Reading[r]
           ck == c \o <<"?">>
           none == <<>>
           A == Stands(t, u)
           B == Stands(r, v)
<1>1. rt \in Seq(Tokens) /\ rr \in Seq(Tokens) /\ Marks[rt] \in Nat /\ Marks[rr] \in Nat
      /\ A \in Seq(Pieces) /\ B \in Seq(Pieces)
  BY StandsFor
<1>2. ck \in Seq(Tokens) /\ Marks[ck] = 0 /\ ck \in Seq(Pieces)
  <2>1. ck \in Seq(Chars)
    BY MarkText, ConcatProperties
  <2> HIDE DEF ck
  <2> QED BY <2>1, NoMarks, TextTokens, TokenPieces
<1>3. none \in Values /\ Len(none) = 0 /\ u \o none = u
  BY ConcatEmptySeq DEF Values
<1>4. Filled[<<rt, u>>] = A /\ Filled[<<rr, v>>] = B /\ Marks[rt] = Len(u)
      /\ Reading[t \o k] = rt \o ck /\ Reading[s] = ck \o rr
      /\ Filled[<<ck, none>>] = ck
  BY <1>2, FilledNothing DEF Stands
<1> HIDE DEF rt, rr, ck, none, A, B
<1>5. Filled[<<rt \o ck, u \o none>>] = A \o ck
  <2>1. Filled[<<rt \o ck, u \o none>>] = Filled[<<rt, u>>] \o Filled[<<ck, none>>]
    <3>1. Marks[ck] = Len(none)
      BY <1>2, <1>3
    <3> QED BY <1>1, <1>2, <1>3, <1>4, <3>1, FilledTogether, Zenon
  <2> QED BY <1>4, <2>1, Zenon
<1>6. Stands(t \o k, u) = A \o ck
  BY <1>3, <1>4, <1>5, Zenon DEF Stands
<1>7. Filled[<<ck \o rr, v>>] = ck \o B
  BY <1>1, <1>2, <1>4, FilledAfter
<1>8. Stands(s, v) = ck \o B
  BY <1>4, <1>7, Zenon DEF Stands
<1>9. (A \o ck) \o B = A \o (ck \o B)
  BY <1>1, <1>2, PiecesAssociate, Zenon
<1>10. Marks[rt \o ck] = Len(u)
  <2>1. Marks[rt \o ck] = Marks[rt] + Marks[ck]
    BY <1>1, <1>2, MarksTogether
  <2> QED BY <1>1, <1>2, <1>4, <2>1
<1>11. Marks[ck \o rr] = Marks[rr]
  <2>1. Marks[ck \o rr] = Marks[ck] + Marks[rr]
    BY <1>1, <1>2, MarksTogether
  <2> QED BY <1>1, <1>2, <2>1
<1> QED BY <1>4, <1>6, <1>8, <1>9, <1>10, <1>11, Zenon DEF A, B, rr

\* ... nor with what takes the place of the mark.
LEMMA MarkStands ==
    ASSUME NEW t \in Seq(Chars), NEW c \in Seq(Chars), NEW r \in Seq(Chars), NEW n \in Seq(Chars),
           NEW tcn, NEW s, MarkRead(t, c, n, tcn, r, s),
           NEW u \in Values, NEW v \in Values, NEW w \in Values, v # <<>>,
           Head(v) = Stands(n, w), Marks[Reading[t]] = Len(u), Marks[Reading[n]] = Len(w)
    PROVE  MarkMeans(tcn, r, t, s, u, w, v)
<1> SUFFICES ASSUME tcn \in Seq(Chars), s \in Seq(Chars),
                    Reading[tcn] = Reading[t] \o (c \o Reading[n]),
                    Reading[s] = c \o (<<"mark">> \o Reading[r])
    PROVE  /\ Stands(tcn, u \o w) \o Stands(r, Tail(v)) = Stands(t, u) \o Stands(s, v)
           /\ Marks[Reading[tcn]] = Len(u) + Len(w)
           /\ Marks[Reading[s]] = 1 + Marks[Reading[r]]
  BY Zenon DEF MarkRead, MarkMeans
<1> DEFINE rt == Reading[t]
           rr == Reading[r]
           rn == Reading[n]
           A == Stands(t, u)
           B == Stands(r, Tail(v))
           N == Stands(n, w)
           mark == <<"mark">>
<1>1. rt \in Seq(Tokens) /\ rr \in Seq(Tokens) /\ rn \in Seq(Tokens) /\ Marks[rt] \in Nat
      /\ Marks[rr] \in Nat /\ Marks[rn] \in Nat
      /\ Tail(v) \in Values /\ A \in Seq(Pieces) /\ B \in Seq(Pieces) /\ N \in Seq(Pieces)
  <2>1. Tail(v) \in Values
    BY FromHead DEF Values
  <2> QED BY <2>1, StandsFor
<1>2. c \in Seq(Tokens) /\ Marks[c] = 0 /\ c \in Seq(Pieces)
  BY NoMarks, TextTokens, TokenPieces
<1>3. mark \in Seq(Tokens) /\ Marks[mark] = 1
  BY OneMark
<1>4. Filled[<<rt, u>>] = A /\ Filled[<<rr, Tail(v)>>] = B /\ Filled[<<rn, w>>] = N
      /\ Reading[tcn] = rt \o (c \o rn) /\ Reading[s] = c \o (mark \o rr) /\ Head(v) = N
      /\ Marks[rt] = Len(u) /\ Marks[rn] = Len(w)
  BY DEF Stands
<1>5. Filled[<<mark \o rr, v>>] = N \o B
  <2>1. Filled[<<mark \o rr, v>>] = Head(v) \o Filled[<<rr, Tail(v)>>]
    BY <1>1, FilledMark
  <2> HIDE DEF mark, rr, A, B, N
  <2> QED BY <1>4, <2>1, Zenon
<1> HIDE DEF rt, rr, rn, A, B, N, mark
<1> DEFINE cn == c \o rn
           mr == mark \o rr
<1>6. cn \in Seq(Tokens) /\ mr \in Seq(Tokens) /\ Marks[cn] = 0 + Marks[rn] /\ Marks[mr] = 1 + Marks[rr]
  BY <1>1, <1>2, <1>3, MarksTogether
<1>7. Filled[<<cn, w>>] = c \o N
  <2>1. Filled[<<cn, w>>] = c \o Filled[<<rn, w>>]
    BY <1>1, <1>2, FilledAfter
  <2> QED BY <1>4, <2>1, Zenon
<1>8. Filled[<<mr, v>>] = N \o B
  BY <1>5
<1>9. Reading[tcn] = rt \o cn /\ Reading[s] = c \o mr
  BY <1>4
<1> HIDE DEF cn, mr
<1>10. Filled[<<rt \o cn, u \o w>>] = A \o (c \o N)
  <2>1. Filled[<<rt \o cn, u \o w>>] = Filled[<<rt, u>>] \o Filled[<<cn, w>>]
    BY <1>1, <1>4, <1>6, FilledTogether, ZenonT(40)
  <2> QED BY <1>4, <1>7, <2>1, Zenon
<1>11. Filled[<<c \o mr, v>>] = c \o (N \o B)
  <2>1. Filled[<<c \o mr, v>>] = c \o Filled[<<mr, v>>]
    BY <1>2, <1>6, FilledAfter
  <2> QED BY <1>8, <2>1, Zenon
<1>12. (A \o (c \o N)) \o B = A \o (c \o (N \o B))
  <2> DEFINE D == c \o N
  <2>1. D \in Seq(Pieces)
    BY <1>1, <1>2, ConcatProperties
  <2>2. D \o B = c \o (N \o B)
    BY <1>1, <1>2, PiecesAssociate, Zenon
  <2> HIDE DEF D
  <2>3. (A \o D) \o B = A \o (D \o B)
    BY <1>1, <2>1, PiecesAssociate, Zenon
  <2> QED BY <2>2, <2>3, Zenon DEF D
<1>13. Marks[rt \o cn] = Len(u) + Len(w)
  <2>1. Marks[rt \o cn] = Marks[rt] + Marks[cn]
    BY <1>1, <1>6, MarksTogether
  <2> QED BY <1>1, <1>4, <1>6, <2>1
<1>14. Marks[c \o mr] = 1 + Marks[rr]
  <2>1. Marks[c \o mr] = Marks[c] + Marks[mr]
    BY <1>2, <1>6, MarksTogether
  <2> QED BY <1>1, <1>2, <1>6, <2>1
<1>15. Stands(tcn, u \o w) = A \o (c \o N) /\ Stands(s, v) = c \o (N \o B)
  BY <1>9, <1>10, <1>11, Zenon DEF Stands
<1> QED BY <1>9, <1>12, <1>13, <1>14, <1>15, Zenon DEF A, B, rr

-----------------------------------------------------------------------------
(* What arguments stand for *)

\* Arguments are values of one piece ...
LEMMA Singled ==
    ASSUME NEW a \in Seq(Args)
    PROVE  /\ Singles(a) \in Values /\ Len(Singles(a)) = Len(a)
           /\ \A j \in 1 .. Len(a) : Singles(a)[j] = <<a[j]>>
<1>1. Len(a) \in Nat /\ \A j \in 1 .. Len(a) : a[j] \in Pieces
  BY LenProperties, ElementOfSeq DEF Pieces
<1>2. \A j \in 1 .. Len(a) : <<a[j]>> \in Seq(Pieces)
  BY <1>1, Single
<1> DEFINE S == Seq(Pieces)
<1> HIDE DEF S
<1>3. \A j \in 1 .. Len(a) : <<a[j]>> \in S
  BY <1>2 DEF S
<1>4. [h \in 1 .. Len(a) |-> <<a[h]>>] \in Seq(S)
  BY <1>1, <1>3
<1>5. Len([h \in 1 .. Len(a) |-> <<a[h]>>]) = Len(a)
  BY <1>1
<1> QED BY <1>4, <1>5 DEF Singles, Values, S

\* ... each on its own.
LEMMA SinglesTogether ==
    ASSUME NEW a \in Seq(Args), NEW b \in Seq(Args)
    PROVE  Singles(a \o b) = Singles(a) \o Singles(b)
<1> DEFINE ab == a \o b
           x == Singles(ab)
           y == Singles(a)
           z == Singles(b)
<1>1. ab \in Seq(Args) /\ Len(ab) = Len(a) + Len(b) /\ Len(a) \in Nat /\ Len(b) \in Nat
      /\ \A j \in 1 .. Len(a) + Len(b) : ab[j] = IF j <= Len(a) THEN a[j] ELSE b[j - Len(a)]
  BY ConcatProperties, LenProperties
<1> HIDE DEF ab
<1>2. /\ x \in Seq(Seq(Pieces)) /\ Len(x) = Len(ab) /\ \A j \in 1 .. Len(ab) : x[j] = <<ab[j]>>
      /\ y \in Seq(Seq(Pieces)) /\ Len(y) = Len(a) /\ \A j \in 1 .. Len(a) : y[j] = <<a[j]>>
      /\ z \in Seq(Seq(Pieces)) /\ Len(z) = Len(b) /\ \A j \in 1 .. Len(b) : z[j] = <<b[j]>>
  BY <1>1, Singled DEF Values
<1> HIDE DEF x, y, z
<1>3. /\ y \o z \in Seq(Seq(Pieces)) /\ Len(y \o z) = Len(y) + Len(z)
      /\ \A j \in 1 .. Len(y) + Len(z) : (y \o z)[j] = IF j <= Len(y) THEN y[j] ELSE z[j - Len(y)]
  BY <1>2, ConcatProperties, ZenonT(40)
<1>4. ASSUME NEW j \in 1 .. Len(x) PROVE x[j] = (y \o z)[j]
  <2>1. j \in 1 .. Len(a) + Len(b)
    BY <1>1, <1>2
  <2>2. CASE j <= Len(a)
    <3>1. j \in 1 .. Len(a) /\ j \in 1 .. Len(y) + Len(z) /\ j <= Len(y)
      BY <1>1, <1>2, <2>1, <2>2
    <3>2. (y \o z)[j] = y[j] /\ y[j] = <<a[j]>>
      BY <1>2, <1>3, <3>1
    <3>3. x[j] = <<ab[j]>> /\ ab[j] = a[j]
      BY <1>1, <1>2, <2>1, <2>2
    <3> QED BY <3>2, <3>3
  <2>3. CASE ~(j <= Len(a))
    <3>1. j - Len(a) \in 1 .. Len(b)
      BY <1>1, <2>1, <2>3
    <3> QED BY <1>1, <1>2, <1>3, <2>1, <2>3, <3>1
  <2> QED BY <2>2, <2>3
<1>5. Len(x) = Len(y \o z)
  BY <1>1, <1>2, <1>3
<1>6. x = y \o z
  BY <1>2, <1>3, <1>4, <1>5, SeqEqual
<1> QED BY <1>6 DEF x, y, z, ab

\* The first, and the rest, of a sequence made of another one's elements.
LEMMA MadeOf ==
    ASSUME NEW S, NEW T, NEW a \in Seq(S), a # <<>>, NEW x \in Seq(T), Len(x) = Len(a),
           NEW y \in Seq(T), Len(y) = Len(Tail(a)),
           \A j \in 1 .. Len(Tail(a)) : y[j] = x[j + 1]
    PROVE  x # <<>> /\ Head(x) = x[1] /\ Tail(x) = y
<1>1. Len(a) \in Nat \ {0} /\ Len(Tail(a)) = Len(a) - 1
  BY EmptySeq, HeadTailProperties
<1>2. x # <<>>
  BY <1>1, EmptySeq
<1>3. Tail(x) \in Seq(T) /\ Len(Tail(x)) = Len(x) - 1 /\ \A j \in 1 .. Len(Tail(x)) : Tail(x)[j] = x[j + 1]
  BY <1>2, HeadTailProperties
<1> DEFINE t == Tail(x)
           l == Len(Tail(a))
<1>4. t \in Seq(T) /\ Len(t) = l /\ Len(y) = l /\ \A j \in 1 .. l : t[j] = y[j]
  BY <1>1, <1>3
<1> HIDE DEF t, l
<1>5. t = y
  BY <1>4, SeqEqual
<1> QED BY <1>2, <1>5, FromHead DEF t

\* The first of the arguments, and the others.
LEMMA SinglesHead ==
    ASSUME NEW a \in Seq(Args), a # <<>>
    PROVE  /\ Singles(a) # <<>> /\ Head(Singles(a)) = <<a[1]>>
           /\ Tail(Singles(a)) = Singles(Tail(a))
<1> DEFINE b == Tail(a)
           x == Singles(a)
           y == Singles(b)
           T == Seq(Pieces)
<1>1. b \in Seq(Args) /\ Len(a) \in Nat \ {0} /\ Len(b) = Len(a) - 1
      /\ \A j \in 1 .. Len(b) : b[j] = a[j + 1]
  BY HeadTailProperties, EmptySeq
<1> HIDE DEF b
<1>2. /\ x \in Seq(T) /\ Len(x) = Len(a) /\ \A j \in 1 .. Len(a) : x[j] = <<a[j]>>
      /\ y \in Seq(T) /\ Len(y) = Len(b) /\ \A j \in 1 .. Len(b) : y[j] = <<b[j]>>
  BY <1>1, Singled DEF Values
<1> HIDE DEF x, y, T
<1>3. \A j \in 1 .. Len(b) : y[j] = x[j + 1]
  <2> TAKE j \in 1 .. Len(b)
  <2>1. j + 1 \in 1 .. Len(a)
    BY <1>1
  <2> QED BY <1>1, <1>2, <2>1
<1>4. x # <<>> /\ Head(x) = x[1] /\ Tail(x) = y
  BY <1>2, <1>3, MadeOf DEF b
<1>5. x[1] = <<a[1]>>
  BY <1>1, <1>2
<1> QED BY <1>4, <1>5 DEF x, y, b

\* Those given stand for texts.
LEMMA Meant ==
    ASSUME NEW g \in Seq(Given)
    PROVE  /\ Meanings(g) \in Values /\ Len(Meanings(g)) = Len(g)
           /\ \A j \in 1 .. Len(g) :
                /\ g[j].sql \in Seq(Chars) /\ g[j].args \in Seq(Args)
                /\ Meanings(g)[j] = Stands(g[j].sql, Singles(g[j].args))
<1>1. Len(g) \in Nat /\ \A j \in 1 .. Len(g) : g[j] \in Given
  BY LenProperties, ElementOfSeq
<1>2. \A j \in 1 .. Len(g) : g[j].sql \in Seq(Chars) /\ g[j].args \in Seq(Args)
  BY <1>1 DEF Given
<1> DEFINE S == Seq(Pieces)
           e(j) == Stands(g[j].sql, Singles(g[j].args))
<1>3. ASSUME NEW j \in 1 .. Len(g) PROVE e(j) \in S
  <2>1. Singles(g[j].args) \in Values
    BY <1>2, Singled
  <2> QED BY <1>2, <2>1, StandsFor
<1> HIDE DEF S, e
<1>4. [j \in 1 .. Len(g) |-> e(j)] \in Seq(S) /\ Len([j \in 1 .. Len(g) |-> e(j)]) = Len(g)
      /\ \A j \in 1 .. Len(g) : [h \in 1 .. Len(g) |-> e(h)][j] = e(j)
  BY <1>1, <1>3
<1>5. Meanings(g) = [j \in 1 .. Len(g) |-> e(j)]
  BY DEF Meanings, Stands, e
<1> QED BY <1>2, <1>4, <1>5 DEF S, Values, e

\* The first of those given, and the others.
LEMMA MeaningsHead ==
    ASSUME NEW g \in Seq(Given), g # <<>>
    PROVE  /\ g[1] \in Given /\ g[1].sql \in Seq(Chars) /\ g[1].args \in Seq(Args)
           /\ Meanings(g) # <<>> /\ Head(Meanings(g)) = Stands(g[1].sql, Singles(g[1].args))
           /\ Tail(g) \in Seq(Given) /\ Tail(Meanings(g)) = Meanings(Tail(g))
<1> DEFINE b == Tail(g)
           x == Meanings(g)
           y == Meanings(b)
           T == Seq(Pieces)
           e(p) == Stands(p.sql, Singles(p.args))
<1>1. b \in Seq(Given) /\ Len(g) \in Nat \ {0} /\ Len(b) = Len(g) - 1
      /\ \A j \in 1 .. Len(b) : b[j] = g[j + 1]
  BY HeadTailProperties, EmptySeq
<1> HIDE DEF b
<1>2. /\ x \in Seq(T) /\ Len(x) = Len(g) /\ \A j \in 1 .. Len(g) : x[j] = e(g[j])
      /\ y \in Seq(T) /\ Len(y) = Len(b) /\ \A j \in 1 .. Len(b) : y[j] = e(b[j])
      /\ \A j \in 1 .. Len(g) : g[j].sql \in Seq(Chars) /\ g[j].args \in Seq(Args)
  BY <1>1, Meant DEF Values
<1> HIDE DEF x, y, T, e
<1>3. \A j \in 1 .. Len(b) : y[j] = x[j + 1]
  <2> TAKE j \in 1 .. Len(b)
  <2>1. j + 1 \in 1 .. Len(g)
    BY <1>1
  <2> QED BY <1>1, <1>2, <2>1
<1>4. x # <<>> /\ Head(x) = x[1] /\ Tail(x) = y
  BY <1>2, <1>3, MadeOf DEF b
<1>5. x[1] = e(g[1]) /\ g[1].sql \in Seq(Chars) /\ g[1].args \in Seq(Args) /\ g[1] \in Given
  BY <1>1, <1>2, ElementOfSeq
<1> QED BY <1>1, <1>4, <1>5 DEF x, y, b, e

-----------------------------------------------------------------------------
(* Numbers, and the types *)

\* Characters are copied without numbers.
LEMMA CopiedType ==
    ASSUME NEW s \in Seq(Chars)
    PROVE  /\ Copied(s) \in Seq(Entry)
           /\ \A j \in 1 .. Len(Copied(s)) : Copied(s)[j].n = 0
  BY DEF Copied, Entry

\* Characters copied leave the numbering as it is.
LEMMA CopyKeeps ==
    ASSUME NEW b \in Seq(Entry), NEW s \in Seq(Chars), NEW k \in Nat, Numbered(b, k)
    PROVE  b \o Copied(s) \in Seq(Entry) /\ Numbered(b \o Copied(s), k)
  <1> DEFINE c == Copied(s)
             d == b \o c
  <1>1. c \in Seq(Entry) /\ \A j \in 1 .. Len(c) : c[j].n = 0
    BY CopiedType
  <1> HIDE DEF c
  <1>2. d \in Seq(Entry) /\ Len(d) = Len(b) + Len(c)
    BY <1>1, ConcatProperties
  <1>3. \A j \in 1 .. Len(b) : d[j] = b[j]
    BY <1>1, ConcatProperties
  <1>4. \A j \in 1 .. Len(d) : j > Len(b) => d[j].n = 0
    <2> TAKE j \in 1 .. Len(d)
    <2> HAVE j > Len(b)
    <2>1. j - Len(b) \in 1 .. Len(c)
      BY <1>1, <1>2
    <2>2. d[j] = c[j - Len(b)]
      BY <1>1, <1>2, ConcatProperties
    <2> QED BY <1>1, <2>1, <2>2
  <1> HIDE DEF d
  <1>5. \A j \in 1 .. Len(b) : j \in 1 .. Len(d) /\ b[j].n \in Nat
    <2> TAKE j \in 1 .. Len(b)
    <2>1. b[j] \in Entry
      BY ElementOfSeq
    <2>2. Len(b) \in Nat /\ Len(c) \in Nat
      BY <1>1, LenProperties
    <2> QED BY <1>2, <2>1, <2>2 DEF Entry
  <1>6. \A j \in 1 .. Len(d) : d[j].n <= k
    <2> TAKE j \in 1 .. Len(d)
    <2>1. CASE j \in 1 .. Len(b)
      BY <1>3, <2>1 DEF Numbered
    <2>2. CASE j > Len(b)
      BY <1>4, <2>2
    <2> QED BY <2>1, <2>2
  <1>7. \A j, h \in 1 .. Len(d) :
           j < h /\ IsNumber(d[j]) /\ IsNumber(d[h]) => d[j].n < d[h].n
    <2> SUFFICES ASSUME NEW j \in 1 .. Len(d), NEW h \in 1 .. Len(d),
                        j < h, IsNumber(d[j]), IsNumber(d[h])
                 PROVE  d[j].n < d[h].n
      OBVIOUS
    <2>1. j \in 1 .. Len(b) /\ h \in 1 .. Len(b)
      BY <1>4 DEF IsNumber
    <2> QED BY <1>3, <2>1 DEF Numbered
  <1>8. \A m \in 1 .. k : \E j \in 1 .. Len(d) : d[j].n = m
    BY <1>3, <1>5 DEF Numbered
  <1>9. Numbered(d, k)
    BY <1>6, <1>7, <1>8 DEF Numbered
  <1> QED BY <1>2, <1>9 DEF d, c

\* A placeholder takes the next number.
LEMMA NextNumber ==
    ASSUME NEW b \in Seq(Entry), NEW k \in Nat, Numbered(b, k), NEW e \in Entry, e.n = k + 1
    PROVE  b \o <<e>> \in Seq(Entry) /\ Numbered(b \o <<e>>, k + 1)
  <1> DEFINE d == b \o <<e>>
  <1>1. d \in Seq(Entry) /\ Len(d) = Len(b) + 1
    OBVIOUS
  <1>2. \A j \in 1 .. Len(b) : d[j] = b[j]
    OBVIOUS
  <1>3. d[Len(b) + 1] = e
    OBVIOUS
  <1> HIDE DEF d
  <1>4. \A j \in 1 .. Len(b) : j \in 1 .. Len(d) /\ b[j].n \in Nat /\ b[j].n <= k
    <2> TAKE j \in 1 .. Len(b)
    <2>1. b[j] \in Entry /\ b[j].n <= k
      BY ElementOfSeq DEF Numbered
    <2> QED BY <1>1, <2>1 DEF Entry
  <1>5. \A j \in 1 .. Len(d) : j \in 1 .. Len(b) \/ j = Len(b) + 1
    BY <1>1
  <1>6. \A j \in 1 .. Len(d) : d[j].n <= k + 1
    BY <1>2, <1>3, <1>4, <1>5
  <1>7. \A j, h \in 1 .. Len(d) :
           j < h /\ IsNumber(d[j]) /\ IsNumber(d[h]) => d[j].n < d[h].n
    <2> SUFFICES ASSUME NEW j \in 1 .. Len(d), NEW h \in 1 .. Len(d),
                        j < h, IsNumber(d[j]), IsNumber(d[h])
                 PROVE  d[j].n < d[h].n
      OBVIOUS
    <2>1. j \in 1 .. Len(b)
      BY <1>1
    <2>2. CASE h \in 1 .. Len(b)
      BY <1>2, <2>1, <2>2 DEF Numbered
    <2>3. CASE h = Len(b) + 1
      BY <1>2, <1>3, <1>4, <2>1, <2>3
    <2> QED BY <1>5, <2>2, <2>3
  <1>8. \A m \in 1 .. k + 1 : \E j \in 1 .. Len(d) : d[j].n = m
    <2> TAKE m \in 1 .. k + 1
    <2>1. CASE m \in 1 .. k
      BY <1>2, <1>4, <2>1 DEF Numbered
    <2>2. CASE m = k + 1
      BY <1>1, <1>3, <2>2
    <2> QED BY <2>1, <2>2
  <1>9. Numbered(d, k + 1)
    BY <1>6, <1>7, <1>8 DEF Numbered
  <1> QED BY <1>1, <1>9 DEF d

\* Types and numbers, at every step.
IInv == TypeInv /\ NumbersInOrder

-----------------------------------------------------------------------------
(* One turn of Expr.ToSql *)

\* Where Expr.ToSql cuts at an escape.
LEMMA EscapeFound ==
    ASSUME NEW s \in Seq(Chars), HasMark(s), Escaped(s)
    PROVE  EscapeSplit(Upto(s, Mark(s) - 1), Upto(s, Mark(s) + 1), After(s, Mark(s) + 1), s)
<1>1. PICK m, c, k, r : /\ m = Mark(s) /\ c = Upto(s, m - 1) /\ k = Upto(s, m + 1)
                        /\ r = After(s, m + 1)
  OBVIOUS
<1>2. c \in Seq(Chars) /\ ~HasMark(c)
  BY <1>1, SplitAtMark
<1>3. m + 1 \in Nat /\ m + 1 <= Len(s) /\ r \in Seq(Chars)
  BY <1>1, SplitAtEscape
<1>4. k = c \o (<<"?">> \o <<"?">>)
  BY <1>1, SplitAtEscape
<1>5. s = k \o r
  <2>1. s = Upto(s, m + 1) \o After(s, m + 1)
    BY <1>3, Parts
  <2> QED BY <1>1, <2>1
<1> QED BY <1>1, <1>2, <1>3, <1>4, <1>5, Zenon DEF EscapeSplit

\* One escape taken by Expr.ToSql.
LEMMA EscapeTaken ==
    ASSUME NEW t \in Seq(Chars), NEW s \in Seq(Chars), HasMark(s), Escaped(s), Clear(t, s),
           NEW u \in Values, NEW v \in Values, Marks[Reading[t]] = Len(u),
           NEW k, k = Upto(s, Mark(s) + 1), NEW r, r = After(s, Mark(s) + 1)
    PROVE  EscapeMeans(t, k, r, s, u, v) /\ Clear(t \o k, r)
<1>1. PICK c : c = Upto(s, Mark(s) - 1)
  OBVIOUS
<1>6. EscapeSplit(c, k, r, s)
  BY <1>1, EscapeFound
<1>2. c \in Seq(Chars) /\ r \in Seq(Chars)
  BY <1>6, Zenon DEF EscapeSplit
<1>7. EscapeRead(t, c, k, r, s)
  BY <1>6, EscapeMoved
<1>8. EscapeMeans(t, k, r, s, u, v)
  BY <1>2, <1>7, EscapeStands
<1>9. Clear(t \o k, r)
  BY <1>7, Zenon DEF EscapeRead
<1> QED BY <1>8, <1>9

\* After a mark that is no escape there is no question mark.
LEMMA NoEscape ==
    ASSUME NEW s \in Seq(Chars), HasMark(s), ~Escaped(s)
    PROVE  After(s, Mark(s)) = <<>> \/ Head(After(s, Mark(s))) # "?"
<1> DEFINE r == After(s, Mark(s))
<1> SUFFICES ASSUME r # <<>> PROVE Head(r) # "?"
  OBVIOUS
<1>1. PICK m \in Nat : m = Mark(s) /\ m <= Len(s)
  BY SplitAtMark
<1>2. Len(s) \in Nat
  BY LenProperties
<1>3. /\ After(s, m) \in Seq(Chars) /\ Len(After(s, m)) = Len(s) - m
      /\ \A j \in 1 .. Len(s) - m : After(s, m)[j] = s[m + j]
  BY <1>1, Parts
<1>4. Len(r) # 0 /\ Head(r) = r[1] /\ r = After(s, m)
  BY <1>1, <1>3, EmptySeq, FromHead
<1>5. r[1] = s[m + 1] /\ m < Len(s)
  BY <1>2, <1>3, <1>4
<1> QED BY <1>1, <1>4, <1>5 DEF Escaped

\* Where it cuts at a mark.
LEMMA MarkSplits ==
    ASSUME NEW s \in Seq(Chars), HasMark(s), ~Escaped(s)
    PROVE  MarkSplit(Upto(s, Mark(s) - 1), After(s, Mark(s)), s)
<1>1. PICK c, r : c = Upto(s, Mark(s) - 1) /\ r = After(s, Mark(s))
  OBVIOUS
<1>2. c \in Seq(Chars) /\ ~HasMark(c) /\ r \in Seq(Chars)
  BY <1>1, SplitAtMark
<1>3. s = c \o (<<"?">> \o r)
  BY <1>1, SplitAtMark
<1>4. r = <<>> \/ Head(r) # "?"
  BY <1>1, NoEscape, Zenon
<1> QED BY <1>1, <1>2, <1>3, <1>4, Zenon DEF MarkSplit

\* One argument put in.
LEMMA ArgTaken ==
    ASSUME NEW t \in Seq(Chars), NEW s \in Seq(Chars), HasMark(s), ~Escaped(s), Clear(t, s),
           NEW u \in Values, NEW v \in Values, v # <<>>, NEW w \in Values, NEW n \in Seq(Chars),
           Head(v) = Stands(n, w), Marks[Reading[t]] = Len(u), Marks[Reading[n]] = Len(w),
           NEW tcn, tcn = (t \o Upto(s, Mark(s) - 1)) \o n, NEW r, r = After(s, Mark(s))
    PROVE  MarkMeans(tcn, r, t, s, u, w, v) /\ Marks[Reading[r]] \in Nat /\ Clear(tcn, r)
<1>1. PICK c : c = Upto(s, Mark(s) - 1)
  OBVIOUS
<1>2. MarkSplit(c, r, s)
  BY <1>1, MarkSplits
<1>3. c \in Seq(Chars) /\ r \in Seq(Chars)
  BY <1>2, Zenon DEF MarkSplit
<1>4. r = <<>> \/ Head(r) # "?"
  BY <1>2, Zenon DEF MarkSplit
<1>5. tcn = (t \o c) \o n
  BY <1>1
<1>7. MarkRead(t, c, n, tcn, r, s)
  <2>1. MarkRead(t, c, n, (t \o c) \o n, r, s)
    BY <1>2, MarkMoved
  <2> QED BY <1>5, <2>1, Zenon
<1>8. MarkMeans(tcn, r, t, s, u, w, v)
  BY <1>3, <1>7, MarkStands
<1>9. Marks[Reading[r]] \in Nat
  <2>1. r \in Seq(Chars)
    BY <1>3
  <2> QED BY <2>1, StandsFor
<1> QED BY <1>4, <1>8, <1>9, Zenon DEF Clear

\* What is left appended.
LEMMA RestTaken ==
    ASSUME NEW t \in Seq(Chars), NEW s \in Seq(Chars), Clear(t, s),
           NEW u \in Values, Marks[Reading[t]] = Len(u), Marks[Reading[s]] = 0
    PROVE  /\ Stands(t \o s, u) = Stands(t, u) \o Stands(s, <<>>)
           /\ Marks[Reading[t \o s]] = Len(u)
<1>1. PICK rt \in Seq(Tokens), rs \in Seq(Tokens), none \in {<<>>} : rt = Reading[t] /\ rs = Reading[s] /\ none = <<>>
  BY StandsFor
<1>2. Reading[t \o s] = Reading[t] \o Reading[s]
  <2>1. CASE s = <<>> \/ Head(s) # "?"
    BY <2>1, ReadTogether, Zenon
  <2>2. CASE \A x \in Seq(Chars) : Reading[t \o x] = Reading[t] \o Reading[x]
    BY <2>2, Zenon
  <2> QED BY <2>1, <2>2, Zenon DEF Clear
<1>3. Reading[t \o s] = rt \o rs
  BY <1>1, <1>2, Zenon
<1>4. none \in Values /\ Len(none) = 0
  BY <1>1 DEF Values
<1>5. u \o none = u
  BY <1>1, ConcatEmptySeq DEF Values
<1>6. Marks[rt] = Len(u) /\ Marks[rs] = Len(none)
  BY <1>1, <1>4
<1>7. Filled[<<rt \o rs, u \o none>>] = Filled[<<rt, u>>] \o Filled[<<rs, none>>]
  BY <1>4, <1>6, FilledTogether, Zenon
<1>8. Stands(t \o s, u) = Stands(t, u) \o Stands(s, <<>>)
  BY <1>1, <1>3, <1>5, <1>7, Zenon DEF Stands
<1>9. Marks[rt \o rs] = Marks[rt] + Marks[rs] /\ Marks[rt] \in Nat /\ Marks[rs] = 0
  BY <1>1, MarksTogether, MarksDef
<1>10. Marks[rt \o rs] = Len(u)
  BY <1>6, <1>9
<1> QED BY <1>3, <1>8, <1>10, Zenon

-----------------------------------------------------------------------------
(* Expr.ToSql keeps the meaning *)

\* What is written, and what is not read yet.
MeantSoFar == Stands(text, Singles(args)) \o Stands(sp, Meanings(ap))

\* While Expr.ToSql reads, what it has written and what it has not read yet
\* mean together what the Expr does.
Sound ==
    WellFormed(input) =>
    /\ args \in Seq(Args)
    /\ Fits(text, Len(args))
    /\ Fits(sp, Len(ap))
    /\ \A j \in 1 .. Len(ap) : Fits(ap[j].sql, Len(ap[j].args))
    /\ Clear(text, sp)
    /\ MeantSoFar = Meaning(input)

\* Nothing is read as nothing, and stands for nothing.
LEMMA NothingRead == Reading[<<>>] = <<>> /\ Marks[<<>>] = 0
<1>1. <<>> \in Seq(Chars) /\ <<>> \in Seq(Tokens)
  OBVIOUS
<1> QED BY <1>1, ReadingSteps, MarksDef DEF Count

LEMMA NothingStands == Stands(<<>>, <<>>) = <<>>
<1>1. <<>> \in Seq(Tokens)
  OBVIOUS
<1>2. Filled[<<<<>>, <<>>>>] = <<>>
  BY <1>1, FilledNothing
<1> QED BY <1>2, NothingRead, Zenon DEF Stands

LEMMA ClearNothing == ASSUME NEW s \in Seq(Chars) PROVE Clear(<<>>, s)
<1>1. ASSUME NEW x \in Seq(Chars) PROVE Reading[<<>> \o x] = Reading[<<>>] \o Reading[x]
  <2> DEFINE rx == Reading[x]
  <2>1. <<>> \o x = x
    BY ConcatEmptySeq
  <2>2. rx \in Seq(Tokens)
    BY ReadingDef
  <2> HIDE DEF rx
  <2>3. <<>> \o rx = rx
    BY <2>2, ConcatEmptySeq
  <2> QED BY <2>1, <2>3, NothingRead, Zenon DEF rx
<1> QED BY <1>1, Zenon DEF Clear

\* Init, then each way Expr.ToSql goes on: it is sound.
LEMMA InitSound == Init => Sound
<1> SUFFICES ASSUME Init, WellFormed(input) PROVE
      /\ args \in Seq(Args) /\ Fits(text, Len(args)) /\ Fits(sp, Len(ap))
      /\ \A j \in 1 .. Len(ap) : Fits(ap[j].sql, Len(ap[j].args))
      /\ Clear(text, sp)
      /\ MeantSoFar = Meaning(input)
  BY DEF Sound
<1>1. /\ input \in Inputs /\ sp = input.sql /\ ap = input.given /\ text = <<>> /\ args = <<>>
      /\ sp \in Seq(Chars) /\ ap \in Seq(Given)
  BY DEF Init, Given
<1>2. Fits(sp, Len(ap)) /\ \A j \in 1 .. Len(ap) : Fits(ap[j].sql, Len(ap[j].args))
  BY <1>1 DEF WellFormed
<1>3. Fits(text, Len(args))
  <2>1. Len(<<>>) = 0
    OBVIOUS
  <2> QED BY <1>1, <2>1, NothingRead, Zenon DEF Fits
<1>4. Clear(text, sp)
  BY <1>1, ClearNothing
<1>5. MeantSoFar = Meaning(input)
  <2> DEFINE m == Stands(sp, Meanings(ap))
  <2>1. Singles(args) = <<>>
    BY <1>1 DEF Singles
  <2>2. Stands(text, Singles(args)) = <<>>
    BY <1>1, <2>1, NothingStands, Zenon
  <2>3. Meanings(ap) \in Values
    BY <1>1, Meant
  <2>4. m \in Seq(Pieces)
    BY <1>1, <2>3, StandsFor
  <2>5. m = Meaning(input)
    BY <1>1 DEF Stands, Meaning
  <2> HIDE DEF m
  <2>6. <<>> \o m = m
    BY <2>4, ConcatEmptySeq
  <2> QED BY <2>2, <2>5, <2>6, Zenon DEF MeantSoFar, m
<1> QED BY <1>1, <1>2, <1>3, <1>4, <1>5

\* Reads and texts of a state that is sound.
LEMMA SoundTypes ==
    ASSUME TypeInv, Sound, WellFormed(input)
    PROVE  /\ sp \in Seq(Chars) /\ text \in Seq(Chars) /\ ap \in Seq(Given) /\ args \in Seq(Args)
           /\ Singles(args) \in Values /\ Len(Singles(args)) = Len(args) /\ Len(args) \in Nat
           /\ Meanings(ap) \in Values /\ Len(ap) \in Nat
           /\ Marks[Reading[text]] = Len(Singles(args)) /\ Marks[Reading[sp]] = Len(ap)
           /\ Clear(text, sp) /\ MeantSoFar = Meaning(input)
           /\ \A j \in 1 .. Len(ap) : Fits(ap[j].sql, Len(ap[j].args))
<1>1. /\ sp \in Seq(Chars) /\ text \in Seq(Chars) /\ ap \in Seq(Given) /\ args \in Seq(Args)
      /\ Marks[Reading[text]] = Len(args) /\ Marks[Reading[sp]] = Len(ap)
      /\ Clear(text, sp) /\ MeantSoFar = Meaning(input)
      /\ \A j \in 1 .. Len(ap) : Fits(ap[j].sql, Len(ap[j].args))
  BY DEF TypeInv, Sound, Fits
<1>2. Singles(args) \in Values /\ Len(Singles(args)) = Len(args) /\ Meanings(ap) \in Values
  BY <1>1, Singled, Meant
<1>3. Len(args) \in Nat /\ Len(ap) \in Nat
  BY <1>1, LenProperties
<1> QED BY <1>1, <1>2, <1>3

LEMMA EscapeSound == ASSUME TypeInv, Sound, ExpandEscaped PROVE Sound'
<1> SUFFICES ASSUME WellFormed(input)' PROVE
      /\ args' \in Seq(Args) /\ Fits(text', Len(args')) /\ Fits(sp', Len(ap'))
      /\ \A j \in 1 .. Len(ap') : Fits(ap'[j].sql, Len(ap'[j].args))
      /\ Clear(text', sp')
      /\ Stands(text', Singles(args')) \o Stands(sp', Meanings(ap')) = Meaning(input')
  BY DEF Sound, MeantSoFar
<1>0. input' = input /\ ap' = ap /\ args' = args /\ HasMark(sp) /\ Escaped(sp)
  BY DEF ExpandEscaped, Expanding
<1>1. WellFormed(input)
  BY <1>0 DEF WellFormed
<1>2. PICK t \in Seq(Chars), s \in Seq(Chars), u \in Values, v \in Values :
        t = text /\ s = sp /\ u = Singles(args) /\ v = Meanings(ap)
  BY <1>1, SoundTypes
<1>3. PICK k, r : k = Upto(s, Mark(s) + 1) /\ r = After(s, Mark(s) + 1)
  OBVIOUS
<1>4. HasMark(s) /\ Escaped(s) /\ Clear(t, s) /\ Marks[Reading[t]] = Len(u) /\ Len(u) = Len(args)
      /\ Marks[Reading[s]] = Len(ap)
  BY <1>0, <1>1, <1>2, SoundTypes
<1>5. EscapeMeans(t, k, r, s, u, v) /\ Clear(t \o k, r)
  BY <1>3, <1>4, EscapeTaken
<1>6. text' = t \o k /\ sp' = r /\ Singles(args') = u /\ Meanings(ap') = v
  BY <1>0, <1>2, <1>3 DEF ExpandEscaped
<1>7. Stands(t, u) \o Stands(s, v) = Meaning(input')
  BY <1>0, <1>1, <1>2, SoundTypes DEF MeantSoFar
<1>8. Stands(text', Singles(args')) \o Stands(sp', Meanings(ap')) = Meaning(input')
  BY <1>5, <1>6, <1>7, Zenon DEF EscapeMeans
<1>9. Fits(text', Len(args')) /\ Fits(sp', Len(ap'))
  BY <1>0, <1>4, <1>5, <1>6, Zenon DEF Fits, EscapeMeans
<1>10. Clear(text', sp')
  BY <1>5, <1>6, Zenon
<1>11. args' \in Seq(Args) /\ \A j \in 1 .. Len(ap') : Fits(ap'[j].sql, Len(ap'[j].args))
  BY <1>0, <1>1, SoundTypes
<1> QED BY <1>8, <1>9, <1>10, <1>11

LEMMA ArgSound == ASSUME TypeInv, Sound, ExpandArg PROVE Sound'
<1> SUFFICES ASSUME WellFormed(input)' PROVE
      /\ args' \in Seq(Args) /\ Fits(text', Len(args')) /\ Fits(sp', Len(ap'))
      /\ \A j \in 1 .. Len(ap') : Fits(ap'[j].sql, Len(ap'[j].args))
      /\ Clear(text', sp')
      /\ Stands(text', Singles(args')) \o Stands(sp', Meanings(ap')) = Meaning(input')
  BY DEF Sound, MeantSoFar
<1>0. input' = input /\ HasMark(sp) /\ ~Escaped(sp) /\ ap # <<>>
  BY DEF ExpandArg, Expanding
<1>1. WellFormed(input)
  BY <1>0 DEF WellFormed
<1>2. PICK t \in Seq(Chars), s \in Seq(Chars), u \in Values, v \in Values,
           g \in Seq(Given), a \in Seq(Args) :
        t = text /\ s = sp /\ u = Singles(a) /\ v = Meanings(g) /\ g = ap /\ a = args
  BY <1>1, SoundTypes
<1>3. g # <<>> /\ g[1].sql \in Seq(Chars) /\ g[1].args \in Seq(Args) /\ v # <<>>
      /\ Head(v) = Stands(g[1].sql, Singles(g[1].args))
      /\ Tail(g) \in Seq(Given) /\ Tail(v) = Meanings(Tail(g))
  BY <1>0, <1>2, MeaningsHead
<1>4. PICK n \in Seq(Chars), b \in Seq(Args), w \in Values :
        n = g[1].sql /\ b = g[1].args /\ w = Singles(b) /\ Len(w) = Len(b)
  BY <1>3, Singled
<1>5. PICK tcn, r : tcn = (t \o Upto(s, Mark(s) - 1)) \o n /\ r = After(s, Mark(s))
  OBVIOUS
<1>6. HasMark(s) /\ ~Escaped(s) /\ Clear(t, s) /\ Marks[Reading[t]] = Len(u) /\ Len(u) = Len(a)
      /\ Marks[Reading[s]] = Len(g) /\ Len(g) \in Nat
      /\ \A j \in 1 .. Len(g) : Fits(g[j].sql, Len(g[j].args))
  BY <1>0, <1>1, <1>2, SoundTypes
<1>7. Len(g) \in Nat \ {0} /\ Len(Tail(g)) = Len(g) - 1 /\ \A j \in 1 .. Len(Tail(g)) : Tail(g)[j] = g[j + 1]
  BY <1>3, EmptySeq, HeadTailProperties
<1>8. Marks[Reading[n]] = Len(w)
  <2>1. 1 \in 1 .. Len(g)
    BY <1>7
  <2>2. Fits(g[1].sql, Len(g[1].args))
    BY <1>6, <2>1
  <2> QED BY <1>4, <2>2 DEF Fits
<1>9. Head(v) = Stands(n, w)
  BY <1>3, <1>4, Zenon
<1>10. MarkMeans(tcn, r, t, s, u, w, v) /\ Marks[Reading[r]] \in Nat /\ Clear(tcn, r)
  BY <1>3, <1>5, <1>6, <1>8, <1>9, ArgTaken
<1>11. text' = tcn
  BY <1>2, <1>4, <1>5, Zenon DEF ExpandArg
<1>12. sp' = r /\ ap' = Tail(g)
  BY <1>2, <1>5, Zenon DEF ExpandArg
<1>13. args' = a \o b
  BY <1>2, <1>4, Zenon DEF ExpandArg
<1>14. Singles(a \o b) = u \o w /\ a \o b \in Seq(Args) /\ Len(a \o b) = Len(u) + Len(w)
  <2>1. Singles(a \o b) = Singles(a) \o Singles(b)
    BY SinglesTogether
  <2>2. a \o b \in Seq(Args) /\ Len(a \o b) = Len(a) + Len(b)
    BY ConcatProperties
  <2>3. Len(a \o b) = Len(u) + Len(w)
    BY <1>4, <1>6, <2>2
  <2> QED BY <1>2, <1>4, <2>1, <2>2, <2>3, Zenon
<1>15. Stands(t, u) \o Stands(s, v) = Meaning(input')
  BY <1>0, <1>1, <1>2, SoundTypes DEF MeantSoFar
<1>16. Stands(text', Singles(args')) \o Stands(sp', Meanings(ap')) = Meaning(input')
  BY <1>3, <1>10, <1>11, <1>12, <1>13, <1>14, <1>15, Zenon DEF MarkMeans
<1>17. Fits(text', Len(args'))
  BY <1>10, <1>11, <1>13, <1>14, Zenon DEF Fits, MarkMeans
<1>18. Fits(sp', Len(ap'))
  <2>1. Marks[Reading[s]] = 1 + Marks[Reading[r]] /\ Marks[Reading[r]] \in Nat
    BY <1>10, Zenon DEF MarkMeans
  <2>2. Marks[Reading[r]] = Len(Tail(g))
    BY <1>6, <1>7, <2>1
  <2> QED BY <1>12, <2>2, Zenon DEF Fits
<1>19. \A j \in 1 .. Len(ap') : Fits(ap'[j].sql, Len(ap'[j].args))
  <2> TAKE j \in 1 .. Len(ap')
  <2>1. j + 1 \in 1 .. Len(g) /\ ap'[j] = g[j + 1]
    BY <1>7, <1>12
  <2> QED BY <1>6, <2>1
<1>20. Clear(text', sp')
  BY <1>10, <1>11, <1>12, Zenon
<1>21. args' \in Seq(Args)
  BY <1>13, <1>14, Zenon
<1> QED BY <1>16, <1>17, <1>18, <1>19, <1>20, <1>21

LEMMA EndsSound == ASSUME TypeInv, Sound, ExpandEnds PROVE Sound'
<1> SUFFICES ASSUME WellFormed(input)' PROVE
      /\ args' \in Seq(Args) /\ Fits(text', Len(args')) /\ Fits(sp', Len(ap'))
      /\ \A j \in 1 .. Len(ap') : Fits(ap'[j].sql, Len(ap'[j].args))
      /\ Clear(text', sp')
      /\ Stands(text', Singles(args')) \o Stands(sp', Meanings(ap')) = Meaning(input')
  BY DEF Sound, MeantSoFar
<1>0. input' = input /\ ap' = <<>> /\ sp' = <<>> /\ (ap = <<>> \/ sp = <<>> \/ ~HasMark(sp))
  BY DEF ExpandEnds, Expanding
<1>1. WellFormed(input)
  BY <1>0 DEF WellFormed
<1>2. PICK t \in Seq(Chars), s \in Seq(Chars), u \in Values,
           g \in Seq(Given), a \in Seq(Args) :
        t = text /\ s = sp /\ u = Singles(a) /\ g = ap /\ a = args
  BY <1>1, SoundTypes
<1>3. Clear(t, s) /\ Marks[Reading[t]] = Len(u) /\ Marks[Reading[s]] = Len(g) /\ Len(g) \in Nat
      /\ Len(u) = Len(a)
  BY <1>1, <1>2, SoundTypes
<1>4. g = <<>> /\ Marks[Reading[s]] = 0
  <2>1. CASE s = <<>>
    <3>1. Marks[Reading[s]] = 0
      BY <2>1, NothingRead
    <3> QED BY <1>3, <3>1, EmptySeq
  <2>2. CASE ~HasMark(s)
    <3>1. Reading[s] = s
      BY <2>2, ReadPlain
    <3>2. Marks[s] = 0
      BY NoMarks
    <3>3. Marks[Reading[s]] = 0
      BY <3>1, <3>2
    <3> QED BY <1>3, <3>3, EmptySeq
  <2>3. CASE g = <<>>
    <3>1. Len(g) = 0
      BY <2>3
    <3> QED BY <1>3, <2>3, <3>1
  <2> QED BY <1>0, <1>2, <2>1, <2>2, <2>3
<1>5. args' = a
  <2>1. [j \in 1 .. Len(ap) |-> AsValue(ap[j])] = <<>>
    <3>1. Len(ap) = 0
      BY <1>2, <1>4
    <3> QED BY <3>1
  <2>2. a \o <<>> = a
    BY ConcatEmptySeq
  <2>3. args' = args \o [j \in 1 .. Len(ap) |-> AsValue(ap[j])]
    BY DEF ExpandEnds
  <2> QED BY <1>2, <2>1, <2>2, <2>3, Zenon
<1>6. text' = t \o s
  BY <1>2, Zenon DEF ExpandEnds
<1>7. Meanings(<<>>) = <<>>
  BY DEF Meanings
<1>8. Stands(t \o s, u) = Stands(t, u) \o Stands(s, <<>>) /\ Marks[Reading[t \o s]] = Len(u)
  BY <1>3, <1>4, RestTaken
<1>9. Stands(t, u) \o Stands(s, <<>>) = Meaning(input')
  <2>1. Stands(text, Singles(args)) \o Stands(sp, Meanings(ap)) = Meaning(input)
    BY <1>1, SoundTypes DEF MeantSoFar
  <2>2. Meanings(ap) = <<>>
    BY <1>2, <1>4, <1>7, Zenon
  <2> QED BY <1>0, <1>2, <2>1, <2>2, Zenon
<1>10. Stands(t \o s, u) = Meaning(input')
  BY <1>8, <1>9, Zenon
<1>11. Stands(t \o s, u) \o <<>> = Stands(t \o s, u)
  <2>1. t \o s \in Seq(Chars)
    BY ConcatProperties
  <2>2. Stands(t \o s, u) \in Seq(Pieces)
    BY <2>1, StandsFor
  <2> HIDE DEF Stands
  <2>3. \A p \in Seq(Pieces) : p \o <<>> = p
    BY ConcatEmptySeq
  <2> QED BY <2>2, <2>3, Zenon
<1>12. Singles(args') = u /\ Stands(sp', Meanings(ap')) = <<>>
  BY <1>0, <1>2, <1>5, <1>7, NothingStands, Zenon
<1>13. Stands(text', Singles(args')) \o Stands(sp', Meanings(ap')) = Meaning(input')
  BY <1>6, <1>10, <1>11, <1>12, Zenon
<1>14. Fits(text', Len(args'))
  BY <1>3, <1>5, <1>6, <1>8, Zenon DEF Fits
<1>15. Fits(sp', Len(ap'))
  <2>1. Len(<<>>) = 0
    OBVIOUS
  <2> QED BY <1>0, <2>1, NothingRead, Zenon DEF Fits
<1>16. \A j \in 1 .. Len(ap') : Fits(ap'[j].sql, Len(ap'[j].args))
  <2>1. ~(\E j \in 1 .. 0 : TRUE) /\ Len(<<>>) = 0
    OBVIOUS
  <2> QED BY <1>0, <2>1
<1>17. Clear(text', sp')
  BY <1>0 DEF Clear
<1> QED BY <1>5, <1>13, <1>14, <1>15, <1>16, <1>17

\* Nothing after it changes the texts.
LEMMA NextSound == ASSUME TypeInv, Sound, [Next]_vars PROVE Sound'
<1>1. CASE ExpandEscaped \/ ExpandArg \/ ExpandEnds
  BY <1>1, EscapeSound, ArgSound, EndsSound
<1>2. CASE UNCHANGED <<input, exprVars>>
  BY <1>2 DEF Sound, MeantSoFar, exprVars
<1> QED BY <1>1, <1>2 DEF Next, Send, ReplaceEscaped, ReplaceMark, ReplaceEnds, Sent, vars, exprVars

-----------------------------------------------------------------------------
(* What the database makes of a numbered text *)

\* What the database makes of what is written, the arguments being a.
BoundOf(b, a) == [j \in 1 .. Len(b) |-> IF IsNumber(b[j]) THEN a[b[j].n] ELSE b[j].c]

\* Of two numbered texts, one after the other.
LEMMA BoundOfParts ==
    ASSUME NEW b \in Seq(Entry), NEW d \in Seq(Entry), NEW a, NEW W,
           \A j \in 1 .. Len(b) : BoundOf(b, a)[j] \in W,
           \A j \in 1 .. Len(d) : BoundOf(d, a)[j] \in W
    PROVE  /\ BoundOf(b, a) \in Seq(W) /\ BoundOf(d, a) \in Seq(W)
           /\ BoundOf(b \o d, a) = BoundOf(b, a) \o BoundOf(d, a)
<1> DEFINE e(x) == IF IsNumber(x) THEN a[x.n] ELSE x.c
           bd == b \o d
           x == BoundOf(b, a)
           y == BoundOf(d, a)
           z == BoundOf(bd, a)
<1>0. Len(b) \in Nat /\ Len(d) \in Nat
  BY LenProperties
<1>1. /\ bd \in Seq(Entry) /\ Len(bd) = Len(b) + Len(d)
      /\ \A j \in 1 .. Len(b) + Len(d) : bd[j] = IF j <= Len(b) THEN b[j] ELSE d[j - Len(b)]
  BY ConcatProperties
<1> HIDE DEF bd
<1>2. x = [j \in 1 .. Len(b) |-> e(b[j])] /\ y = [j \in 1 .. Len(d) |-> e(d[j])]
      /\ z = [j \in 1 .. Len(bd) |-> e(bd[j])]
  BY DEF BoundOf
<1>3. /\ x \in Seq(W) /\ Len(x) = Len(b) /\ \A j \in 1 .. Len(b) : x[j] = e(b[j])
      /\ y \in Seq(W) /\ Len(y) = Len(d) /\ \A j \in 1 .. Len(d) : y[j] = e(d[j])
  <2> HIDE DEF x, y, e
  <2>1. \A j \in 1 .. Len(b) : x[j] = e(b[j])
    BY <1>2
  <2>2. \A j \in 1 .. Len(d) : y[j] = e(d[j])
    BY <1>2
  <2>3. (\A j \in 1 .. Len(b) : x[j] \in W) /\ (\A j \in 1 .. Len(d) : y[j] \in W)
    BY DEF x, y
  <2>4. x \in Seq(W) /\ Len(x) = Len(b)
    BY <1>0, <1>2, <2>1, <2>3
  <2>5. y \in Seq(W) /\ Len(y) = Len(d)
    BY <1>0, <1>2, <2>2, <2>3
  <2> QED BY <2>1, <2>2, <2>4, <2>5
<1> HIDE DEF x, y, z, e
<1>4. \A j \in 1 .. Len(bd) : z[j] = e(bd[j])
  BY <1>2
<1>5. /\ x \o y \in Seq(W) /\ Len(x \o y) = Len(b) + Len(d)
      /\ \A j \in 1 .. Len(b) + Len(d) : (x \o y)[j] = IF j <= Len(b) THEN x[j] ELSE y[j - Len(b)]
  <2>1. x \in Seq(W) /\ y \in Seq(W)
    BY <1>3
  <2>2. /\ x \o y \in Seq(W) /\ Len(x \o y) = Len(x) + Len(y)
        /\ \A j \in 1 .. Len(x) + Len(y) : (x \o y)[j] = IF j <= Len(x) THEN x[j] ELSE y[j - Len(x)]
    BY <2>1, ConcatProperties
  <2>3. Len(x) = Len(b) /\ Len(y) = Len(d)
    BY <1>3
  <2> QED BY <2>2, <2>3
<1>6. ASSUME NEW j \in 1 .. Len(bd) PROVE z[j] = (x \o y)[j]
  <2>1. CASE j <= Len(b)
    <3>1. j \in 1 .. Len(b) /\ j \in 1 .. Len(b) + Len(d)
      BY <1>0, <1>1, <2>1
    <3>2. bd[j] = b[j] /\ (x \o y)[j] = x[j]
      BY <1>1, <1>5, <2>1, <3>1
    <3> QED BY <1>3, <1>4, <3>1, <3>2
  <2>2. CASE ~(j <= Len(b))
    <3>1. j - Len(b) \in 1 .. Len(d) /\ j \in 1 .. Len(b) + Len(d)
      BY <1>0, <1>1, <2>2
    <3>2. bd[j] = d[j - Len(b)] /\ (x \o y)[j] = y[j - Len(b)]
      BY <1>1, <1>5, <2>2, <3>1
    <3> QED BY <1>3, <1>4, <3>1, <3>2
  <2> QED BY <2>1, <2>2
<1>7. z \in Seq(W) /\ Len(z) = Len(b) + Len(d)
  <2>1. \A j \in 1 .. Len(bd) : z[j] \in W
    <3> TAKE j \in 1 .. Len(bd)
    <3>1. (x \o y)[j] \in W
      BY <1>1, <1>5, ElementOfSeq
    <3> QED BY <1>6, <3>1
  <2>2. Len(bd) \in Nat
    BY <1>0, <1>1
  <2> QED BY <1>1, <1>2, <1>4, <2>1, <2>2
<1>8. z = x \o y
  BY <1>1, <1>5, <1>6, <1>7, SeqEqual
<1> QED BY <1>3, <1>8, Zenon DEF x, y, z, bd

\* Characters copied stay what they are.
LEMMA BoundOfCopied ==
    ASSUME NEW s \in Seq(Chars), NEW a
    PROVE  BoundOf(Copied(s), a) = s /\ Copied(s) \in Seq(Entry) /\ Len(Copied(s)) = Len(s)
<1>1. Len(s) \in Nat /\ \A j \in 1 .. Len(s) : s[j] \in Chars
  BY LenProperties, ElementOfSeq
<1>2. Copied(s) = [j \in 1 .. Len(s) |-> [c |-> s[j], n |-> 0]]
  BY DEF Copied
<1>3. \A j \in 1 .. Len(s) : Copied(s)[j] = [c |-> s[j], n |-> 0] /\ Copied(s)[j] \in Entry
  BY <1>1, <1>2 DEF Entry
<1>4. Copied(s) \in Seq(Entry) /\ Len(Copied(s)) = Len(s)
  BY <1>1, <1>2, <1>3
<1> DEFINE x == BoundOf(Copied(s), a)
<1>5. \A j \in 1 .. Len(s) : x[j] = s[j]
  <2> TAKE j \in 1 .. Len(s)
  <2>0. Copied(s)[j] = [c |-> s[j], n |-> 0]
    BY <1>3
  <2>1. Copied(s)[j].n = 0 /\ Copied(s)[j].c = s[j]
    BY <2>0
  <2> QED BY <1>4, <2>1 DEF BoundOf, IsNumber
<1>6. x \in Seq(Chars) /\ Len(x) = Len(s)
  <2>1. x = [j \in 1 .. Len(s) |-> IF IsNumber(Copied(s)[j]) THEN a[Copied(s)[j].n] ELSE Copied(s)[j].c]
    BY <1>4 DEF BoundOf
  <2> HIDE DEF x
  <2>2. \A j \in 1 .. Len(s) : x[j] \in Chars
    BY <1>1, <1>5
  <2> QED BY <1>1, <2>1, <2>2
<1> HIDE DEF x
<1>7. x = s
  BY <1>5, <1>6, SeqEqual
<1> QED BY <1>4, <1>7 DEF x

\* A number is the argument it stands for.
LEMMA BoundOfNumber ==
    ASSUME NEW k \in Nat \ {0}, NEW a, NEW e, e = [c |-> "$", n |-> k]
    PROVE  BoundOf(<<e>>, a) = <<a[k]>> /\ <<e>> \in Seq(Entry) /\ Len(<<e>>) = 1
<1>1. e \in Entry /\ e.n = k
  BY DEF Entry
<1>2. <<e>> \in Seq(Entry) /\ Len(<<e>>) = 1 /\ <<e>>[1] = e
  BY <1>1
<1>3. IsNumber(e)
  BY <1>1 DEF IsNumber
<1>4. BoundOf(<<e>>, a) = [j \in 1 .. 1 |-> a[k]]
  BY <1>1, <1>2, <1>3 DEF BoundOf
<1>5. [j \in 1 .. 1 |-> a[k]] = <<a[k]>>
  OBVIOUS
<1> QED BY <1>2, <1>4, <1>5

\* Every entry of a numbered text has a value, when there are as many.
LEMMA NumbersBound ==
    ASSUME NEW b \in Seq(Entry), NEW k \in Nat, Numbered(b, k), NEW A, NEW a \in Seq(A), k <= Len(a)
    PROVE  \A j \in 1 .. Len(b) : BoundOf(b, a)[j] \in Chars \cup {"$"} \cup A
<1> TAKE j \in 1 .. Len(b)
<1>1. b[j] \in Entry /\ b[j].n <= k
  BY ElementOfSeq DEF Numbered
<1>2. b[j].c \in Chars \cup {"$"} /\ b[j].n \in Nat
  BY <1>1 DEF Entry
<1>3. IsNumber(b[j]) => a[b[j].n] \in A
  <2> SUFFICES ASSUME IsNumber(b[j]) PROVE a[b[j].n] \in A
    OBVIOUS
  <2>1. b[j].n \in 1 .. Len(a)
    BY <1>1, <1>2, LenProperties DEF IsNumber
  <2> QED BY <2>1, ElementOfSeq
<1>4. BoundOf(b, a)[j] = IF IsNumber(b[j]) THEN a[b[j].n] ELSE b[j].c
  BY DEF BoundOf
<1> QED BY <1>2, <1>3, <1>4

-----------------------------------------------------------------------------
(* One turn of the numbering *)

\* A text stands for what is before its escape, a question mark, and the rest.
LEMMA EscapeStandsAs ==
    ASSUME NEW s \in Seq(Chars), HasMark(s), Escaped(s), NEW v \in Values
    PROVE  /\ Upto(s, Mark(s)) \in Seq(Chars) /\ After(s, Mark(s) + 1) \in Seq(Chars)
           /\ Stands(s, v) = Upto(s, Mark(s)) \o Stands(After(s, Mark(s) + 1), v)
           /\ Marks[Reading[s]] = Marks[Reading[After(s, Mark(s) + 1)]]
<1>0. PICK q, r : q = Upto(s, Mark(s)) /\ r = After(s, Mark(s) + 1)
  OBVIOUS
<1>1. PICK c, k : c = Upto(s, Mark(s) - 1) /\ k = Upto(s, Mark(s) + 1)
  OBVIOUS
<1>2. EscapeSplit(c, k, r, s)
  BY <1>0, <1>1, EscapeFound
<1>3. EscapeRead(<<>>, c, k, r, s)
  <2>1. <<>> \in Seq(Chars)
    OBVIOUS
  <2>2. Clear(<<>>, s)
    BY ClearNothing
  <2> QED BY <1>2, <2>1, <2>2, EscapeMoved
<1>4. c \in Seq(Chars) /\ r \in Seq(Chars)
  BY <1>2, Zenon DEF EscapeSplit
<1>5. q = c \o <<"?">>
  BY <1>0, <1>1, SplitAtMark
<1>6. q \in Seq(Chars)
  BY <1>4, <1>5, MarkText, ConcatProperties
<1>7. Reading[s] = q \o Reading[r]
  BY <1>3, <1>5, Zenon DEF EscapeRead
<1>8. PICK rr \in Seq(Tokens) : rr = Reading[r] /\ Marks[rr] \in Nat
  BY <1>4, StandsFor
<1>9. q \in Seq(Tokens) /\ Marks[q] = 0
  BY <1>6, TextTokens, NoMarks
<1>10. Filled[<<q \o rr, v>>] = q \o Filled[<<rr, v>>]
  BY <1>9, FilledAfter
<1>11. Stands(s, v) = q \o Stands(r, v)
  BY <1>7, <1>8, <1>10, Zenon DEF Stands
<1>12. Marks[q \o rr] = Marks[rr]
  <2>1. Marks[q \o rr] = Marks[q] + Marks[rr]
    BY <1>9, MarksTogether
  <2> QED BY <1>8, <1>9, <2>1
<1>13. Marks[Reading[s]] = Marks[Reading[r]]
  BY <1>7, <1>8, <1>12, Zenon
<1> QED BY <1>0, <1>4, <1>6, <1>11, <1>13, Zenon

\* A text is what stands before its mark, the mark and the rest.
LEMMA ReadingAtMark ==
    ASSUME NEW s \in Seq(Chars), HasMark(s), ~Escaped(s)
    PROVE  /\ Upto(s, Mark(s) - 1) \in Seq(Chars) /\ After(s, Mark(s)) \in Seq(Chars)
           /\ Reading[s] = Upto(s, Mark(s) - 1) \o (<<"mark">> \o Reading[After(s, Mark(s))])
<1>1. PICK c, r : c = Upto(s, Mark(s) - 1) /\ r = After(s, Mark(s))
  OBVIOUS
<1>2. MarkSplit(c, r, s)
  BY <1>1, MarkSplits
<1>3. PICK none \in Seq(Chars) : none = <<>>
  <2>1. <<>> \in Seq(Chars)
    OBVIOUS
  <2> QED BY <2>1, Zenon
<1>4. MarkRead(none, c, none, (none \o c) \o none, r, s)
  <2>1. Clear(none, s)
    BY <1>3, ClearNothing
  <2> QED BY <1>2, <2>1, MarkMoved
<1> QED BY <1>1, <1>2, <1>4, Zenon DEF MarkSplit, MarkRead

\* The mark, and those after it.
MarkCounts(s) ==
    /\ Upto(s, Mark(s) - 1) \in Seq(Chars) /\ After(s, Mark(s)) \in Seq(Chars)
    /\ Marks[Reading[After(s, Mark(s))]] \in Nat
    /\ Marks[Reading[s]] = 1 + Marks[Reading[After(s, Mark(s))]]

\* A mark counts one ...
LEMMA MarkCounted ==
    ASSUME NEW s \in Seq(Chars), HasMark(s), ~Escaped(s)
    PROVE  MarkCounts(s)
<1>1. PICK c \in Seq(Chars), r \in Seq(Chars) : c = Upto(s, Mark(s) - 1) /\ r = After(s, Mark(s))
  BY ReadingAtMark
<1>2. PICK mark \in Seq(Tokens), rr \in Seq(Tokens) :
        mark = <<"mark">> /\ rr = Reading[r] /\ Marks[mark] = 1 /\ Marks[rr] \in Nat
  BY OneMark, ReadingDef, MarksDef
<1>3. c \in Seq(Tokens) /\ Marks[c] = 0
  BY TextTokens, NoMarks
<1>4. PICK mr \in Seq(Tokens) : mr = mark \o rr /\ Marks[mr] = 1 + Marks[rr]
  <2>1. mark \o rr \in Seq(Tokens) /\ Marks[mark \o rr] = Marks[mark] + Marks[rr]
    BY MarksTogether
  <2>2. Marks[mark \o rr] = 1 + Marks[rr]
    BY <1>2, <2>1
  <2> QED BY <2>1, <2>2, Zenon
<1>5. Marks[c \o mr] = 1 + Marks[rr]
  <2>1. Marks[c \o mr] = Marks[c] + Marks[mr]
    BY <1>3, MarksTogether
  <2> QED BY <1>2, <1>3, <1>4, <2>1
<1>6. Reading[s] = c \o mr
  BY <1>1, <1>2, <1>4, ReadingAtMark, Zenon
<1> QED BY <1>1, <1>2, <1>5, <1>6, Zenon DEF MarkCounts

\* ... and the first value takes its place.
LEMMA MarkStandsAs ==
    ASSUME NEW s \in Seq(Chars), HasMark(s), ~Escaped(s), NEW v \in Values, v # <<>>
    PROVE  Stands(s, v) = Upto(s, Mark(s) - 1) \o (Head(v) \o Stands(After(s, Mark(s)), Tail(v)))
<1>1. PICK c \in Seq(Chars), r \in Seq(Chars) : c = Upto(s, Mark(s) - 1) /\ r = After(s, Mark(s))
  BY ReadingAtMark
<1>2. PICK mark \in Seq(Tokens), rr \in Seq(Tokens) : mark = <<"mark">> /\ rr = Reading[r]
  BY OneMark, ReadingDef
<1>3. PICK mr \in Seq(Tokens) : mr = mark \o rr
  BY MarksTogether
<1>4. Reading[s] = c \o mr
  BY <1>1, <1>2, <1>3, ReadingAtMark, Zenon
<1>5. Filled[<<c \o mr, v>>] = c \o Filled[<<mr, v>>]
  <2>1. c \in Seq(Tokens) /\ Marks[c] = 0
    BY TextTokens, NoMarks
  <2> QED BY <2>1, FilledAfter
<1>6. Filled[<<<<"mark">> \o rr, v>>] = Head(v) \o Filled[<<rr, Tail(v)>>]
  BY FilledMark
<1> QED BY <1>1, <1>2, <1>3, <1>4, <1>5, <1>6, Zenon DEF Stands

\* A text without marks stands for itself.
LEMMA RestStandsAs ==
    ASSUME NEW s \in Seq(Chars), ~HasMark(s)
    PROVE  Stands(s, <<>>) = s /\ Marks[Reading[s]] = 0
<1>1. Reading[s] = s
  BY ReadPlain
<1>2. s \in Seq(Tokens) /\ Marks[s] = 0
  BY TextTokens, NoMarks
<1>3. Filled[<<s, <<>>>>] = s
  BY <1>2, FilledNothing
<1> QED BY <1>1, <1>2, <1>3, Zenon DEF Stands

\* A sequence over a larger set.
LEMMA Wider == ASSUME NEW S, NEW T, S \subseteq T, NEW s \in Seq(S) PROVE s \in Seq(T)
<1>1. Len(s) \in Nat /\ \A j \in 1 .. Len(s) : s[j] \in T
  BY LenProperties, ElementOfSeq
<1> QED BY <1>1

\* A numbered text has its values.
LEMMA BoundIn ==
    ASSUME NEW b \in Seq(Entry), NEW k \in Nat, Numbered(b, k), NEW A, NEW a \in Seq(A), k <= Len(a),
           NEW W, Chars \cup {"$"} \cup A \subseteq W
    PROVE  BoundOf(b, a) \in Seq(W)
<1> DEFINE x == BoundOf(b, a)
<1>1. \A j \in 1 .. Len(b) : x[j] \in W
  <2> TAKE j \in 1 .. Len(b)
  <2>1. BoundOf(b, a)[j] \in Chars \cup {"$"} \cup A
    BY NumbersBound
  <2> QED BY <2>1
<1>2. x = [j \in 1 .. Len(b) |-> x[j]] /\ Len(b) \in Nat
  BY LenProperties DEF BoundOf
<1> HIDE DEF x
<1>3. x \in Seq(W)
  BY <1>1, <1>2
<1> QED BY <1>3 DEF x

\* What is written after characters copied ...
LEMMA CopyBound ==
    ASSUME NEW b \in Seq(Entry), NEW k \in Nat, Numbered(b, k), NEW A, NEW a \in Seq(A), k <= Len(a),
           NEW q \in Seq(Chars)
    PROVE  BoundOf(b \o Copied(q), a) = BoundOf(b, a) \o q
<1> DEFINE W == Chars \cup {"$"} \cup A
<1>1. \A j \in 1 .. Len(b) : BoundOf(b, a)[j] \in W
  <2> TAKE j \in 1 .. Len(b)
  <2> QED BY NumbersBound
<1>2. BoundOf(Copied(q), a) = q /\ Copied(q) \in Seq(Entry) /\ Len(Copied(q)) = Len(q)
  BY BoundOfCopied
<1>3. \A j \in 1 .. Len(Copied(q)) : BoundOf(Copied(q), a)[j] \in W
  <2>1. \A j \in 1 .. Len(q) : q[j] \in W
    BY ElementOfSeq
  <2> QED BY <1>2, <2>1
<1>4. /\ BoundOf(b, a) \in Seq(W) /\ BoundOf(Copied(q), a) \in Seq(W)
      /\ BoundOf(b \o Copied(q), a) = BoundOf(b, a) \o BoundOf(Copied(q), a)
  BY <1>1, <1>2, <1>3, BoundOfParts
<1> QED BY <1>2, <1>4, Zenon

\* ... and after a number.
LEMMA NumberBound ==
    ASSUME NEW b \in Seq(Entry), NEW k \in Nat, Numbered(b, k), NEW A, NEW a \in Seq(A), k + 1 <= Len(a),
           NEW e, e = [c |-> "$", n |-> k + 1]
    PROVE  BoundOf(b \o <<e>>, a) = BoundOf(b, a) \o <<a[k + 1]>>
<1> DEFINE W == Chars \cup {"$"} \cup A
<1>0. Len(a) \in Nat /\ k <= Len(a) /\ k + 1 \in Nat \ {0} /\ k + 1 \in 1 .. Len(a)
  BY LenProperties
<1>1. \A j \in 1 .. Len(b) : BoundOf(b, a)[j] \in W
  <2> TAKE j \in 1 .. Len(b)
  <2> QED BY <1>0, NumbersBound
<1>2. BoundOf(<<e>>, a) = <<a[k + 1]>> /\ <<e>> \in Seq(Entry) /\ Len(<<e>>) = 1
  BY <1>0, BoundOfNumber
<1>3. a[k + 1] \in W
  BY <1>0, ElementOfSeq
<1> DEFINE d == <<e>>
           x == <<a[k + 1]>>
<1>4. x \in Seq(W) /\ x[1] \in W
  BY <1>3
<1>5. \A j \in 1 .. Len(d) : BoundOf(d, a)[j] \in W
  <2>1. Len(d) = 1 /\ BoundOf(d, a) = x
    BY <1>2
  <2> HIDE DEF d, x
  <2> QED BY <1>4, <2>1
<1>6. BoundOf(d, a) = x /\ d \in Seq(Entry)
  BY <1>2
<1> HIDE DEF d, x
<1>7. BoundOf(b \o d, a) = BoundOf(b, a) \o BoundOf(d, a)
  BY <1>1, <1>5, <1>6, BoundOfParts, ZenonT(40)
<1> QED BY <1>4, <1>6, <1>7, Zenon DEF d, x

-----------------------------------------------------------------------------
(* Arguments left *)

\* The arguments from k on.
LEMMA ArgsLeft ==
    ASSUME NEW A, NEW a \in Seq(A), NEW k \in Nat, k <= Len(a)
    PROVE  /\ After(a, k) \in Seq(A) /\ Len(After(a, k)) = Len(a) - k
           /\ After(a, 0) = a
           /\ After(a, k) = <<>> <=> k = Len(a)
           /\ k < Len(a) => /\ After(a, k) # <<>> /\ After(a, k)[1] = a[k + 1]
                            /\ Head(After(a, k)) = a[k + 1]
                            /\ Tail(After(a, k)) = After(a, k + 1)
<1>0. Len(a) \in Nat
  BY LenProperties
<1>1. /\ After(a, k) \in Seq(A) /\ Len(After(a, k)) = Len(a) - k
      /\ \A j \in 1 .. Len(a) - k : After(a, k)[j] = a[k + j]
  BY Parts
<1>2. After(a, 0) = a
  BY SubSeqFull DEF After
<1>3. After(a, k) = <<>> <=> k = Len(a)
  <2>1. After(a, k) = <<>> <=> Len(After(a, k)) = 0
    BY <1>1, EmptySeq
  <2> QED BY <1>0, <1>1, <2>1
<1>4. ASSUME k < Len(a)
      PROVE  /\ After(a, k) # <<>> /\ After(a, k)[1] = a[k + 1]
             /\ Head(After(a, k)) = a[k + 1]
             /\ Tail(After(a, k)) = After(a, k + 1)
  <2>1. After(a, k) # <<>>
    BY <1>0, <1>3, <1>4
  <2>2. After(a, k)[1] = a[k + 1]
    <3>1. 1 \in 1 .. Len(a) - k
      BY <1>0, <1>4
    <3> QED BY <1>1, <3>1
  <2>3. Head(After(a, k)) = a[k + 1]
    <3>1. Head(After(a, k)) = After(a, k)[1]
      BY <1>1, <2>1, FromHead
    <3> QED BY <2>2, <3>1
  <2>4. PICK x \in Seq(A), y \in Seq(A) : x = Tail(After(a, k)) /\ y = After(a, k + 1)
    <3>1. Tail(After(a, k)) \in Seq(A)
      BY <1>1, <2>1, FromHead
    <3>2. After(a, k + 1) \in Seq(A)
      BY <1>0, <1>4, Parts
    <3> QED BY <3>1, <3>2
  <2>5. Len(y) = Len(a) - (k + 1) /\ \A j \in 1 .. Len(a) - (k + 1) : y[j] = a[(k + 1) + j]
    <3>1. k + 1 \in Nat /\ k + 1 <= Len(a)
      BY <1>0, <1>4
    <3> QED BY <2>4, <3>1, Parts, ZenonT(40)
  <2>6. Len(x) = Len(After(a, k)) - 1 /\ \A j \in 1 .. Len(x) : x[j] = After(a, k)[j + 1]
    BY <1>1, <2>1, <2>4, HeadTailProperties
  <2>7. Len(x) = Len(y)
    BY <1>0, <1>1, <2>5, <2>6
  <2>8. \A j \in 1 .. Len(x) : x[j] = y[j]
    <3> TAKE j \in 1 .. Len(x)
    <3>1. j \in 1 .. Len(a) - (k + 1) /\ j + 1 \in 1 .. Len(a) - k /\ k + (j + 1) = (k + 1) + j
      BY <1>0, <2>5, <2>7
    <3>2. x[j] = a[k + (j + 1)]
      BY <1>1, <2>6, <3>1
    <3> QED BY <2>5, <3>1, <3>2
  <2>9. x = y
    BY <2>7, <2>8, SeqEqual
  <2> QED BY <2>1, <2>2, <2>3, <2>4, <2>9
<1> QED BY <1>1, <1>2, <1>3, <1>4

-----------------------------------------------------------------------------
(* The numbering keeps the meaning *)

\* What Expr.ToSql has not read when it returns.
Emptied == pc # "expand" => sp = <<>> /\ ap = <<>>

\* While the marks are numbered, what is written and what is not read yet mean
\* together what the text does.
Agrees ==
    Positional /\ args # <<>> /\ WellFormed(input) =>
        /\ pc = "replace" =>
              /\ i <= Len(args)
              /\ Marks[Reading[sql]] = Len(args) - i
              /\ Stands(text, Singles(args)) = BoundOf(buf, args) \o Stands(sql, Singles(After(args, i)))
        /\ pc = "sent" => BoundOf(buf, args) = Stands(text, Singles(args))

\* What is sent: pieces, and the dialect's prefix.
Wide == Pieces \cup {"$"}

LEMMA Widens ==
    /\ Chars \cup {"$"} \cup Args \subseteq Wide
    /\ \A p \in Seq(Pieces) : p \in Seq(Wide)
    /\ \A p \in Seq(Chars) : p \in Seq(Wide)
<1>1. Chars \cup {"$"} \cup Args \subseteq Wide /\ Pieces \subseteq Wide /\ Chars \subseteq Wide
  BY DEF Wide, Pieces, Tokens
<1> QED BY <1>1, Wider

LEMMA WideAssociate == \A x, y, z \in Seq(Wide) : (x \o y) \o z = x \o (y \o z)
<1> TAKE x, y, z \in Seq(Wide)
<1> QED BY ConcatAssociative

LEMMA BoundWide ==
    ASSUME NEW b \in Seq(Entry), NEW k \in Nat, Numbered(b, k), NEW a \in Seq(Args), k <= Len(a)
    PROVE  BoundOf(b, a) \in Seq(Wide)
<1>1. Chars \cup {"$"} \cup Args \subseteq Wide
  BY Widens
<1> QED BY <1>1, BoundIn

\* An escape copied single, a mark numbered and the rest copied: what is
\* written and what is not read yet still mean the same.
LEMMA EscapeAgrees ==
    ASSUME NEW b \in Seq(Entry), NEW k \in Nat, Numbered(b, k), NEW a \in Seq(Args), k <= Len(a),
           NEW s \in Seq(Chars), HasMark(s), Escaped(s), NEW v \in Values
    PROVE  /\ Marks[Reading[After(s, Mark(s) + 1)]] = Marks[Reading[s]]
           /\ BoundOf(b \o Copied(Upto(s, Mark(s))), a) \o Stands(After(s, Mark(s) + 1), v)
                = BoundOf(b, a) \o Stands(s, v)
<1>1. PICK q \in Seq(Chars), r \in Seq(Chars) :
        /\ q = Upto(s, Mark(s)) /\ r = After(s, Mark(s) + 1)
  BY EscapeStandsAs
<1>2. Stands(s, v) = q \o Stands(r, v)
  BY <1>1, EscapeStandsAs, Zenon
<1>3. Marks[Reading[s]] = Marks[Reading[r]]
  BY <1>1, EscapeStandsAs, Zenon
<1>4. PICK x \in Seq(Wide) : x = BoundOf(b, a)
  BY BoundWide
<1>5. q \in Seq(Wide)
  BY Widens
<1>6. BoundOf(b \o Copied(q), a) = BoundOf(b, a) \o q
  BY CopyBound, Zenon
<1>7. PICK z \in Seq(Wide) : z = Stands(r, v)
  BY StandsFor, Widens
<1>8. (x \o q) \o z = x \o (q \o z)
  BY <1>5, WideAssociate, Zenon
<1> QED BY <1>1, <1>2, <1>3, <1>4, <1>6, <1>7, <1>8, Zenon

LEMMA MarkAgrees ==
    ASSUME NEW b \in Seq(Entry), NEW k \in Nat, Numbered(b, k), NEW a \in Seq(Args), k <= Len(a),
           NEW s \in Seq(Chars), HasMark(s), ~Escaped(s), Marks[Reading[s]] = Len(a) - k
    PROVE  LET c == Upto(s, Mark(s) - 1)
               r == After(s, Mark(s))
               d == (b \o Copied(c)) \o <<[c |-> "$", n |-> k + 1]>>
           IN  /\ k + 1 <= Len(a) /\ Marks[Reading[r]] = Len(a) - (k + 1)
               /\ BoundOf(d, a) \o Stands(r, Singles(After(a, k + 1)))
                    = BoundOf(b, a) \o Stands(s, Singles(After(a, k)))
<1>1. PICK c \in Seq(Chars), r \in Seq(Chars) :
        /\ c = Upto(s, Mark(s) - 1) /\ r = After(s, Mark(s))
        /\ Marks[Reading[s]] = 1 + Marks[Reading[r]] /\ Marks[Reading[r]] \in Nat
  BY MarkCounted, Zenon DEF MarkCounts
<1>2. Len(a) \in Nat /\ k < Len(a) /\ k + 1 \in Nat /\ k + 1 <= Len(a)
      /\ Marks[Reading[r]] = Len(a) - (k + 1)
  <2>1. PICK m \in Nat, l \in Nat : m = Marks[Reading[r]] /\ l = Len(a)
    BY <1>1, LenProperties
  <2>2. l - k = 1 + m
    BY <1>1, <2>1
  <2>3. k < l /\ k + 1 \in Nat /\ k + 1 <= l /\ m = l - (k + 1)
    BY <2>2
  <2> QED BY <2>1, <2>3
<1>3. PICK l \in Seq(Args) : /\ l = After(a, k) /\ l # <<>> /\ l[1] = a[k + 1]
                             /\ Tail(l) = After(a, k + 1) /\ Tail(l) \in Seq(Args)
  BY <1>2, ArgsLeft, FromHead
<1>4. PICK v \in Values : v = Singles(l)
  BY Singled
<1>5. v # <<>> /\ Head(v) = <<l[1]>> /\ Tail(v) = Singles(Tail(l))
  BY <1>3, <1>4, SinglesHead
<1>6. Stands(s, v) = c \o (Head(v) \o Stands(r, Tail(v)))
  BY <1>1, <1>5, MarkStandsAs, Zenon
<1>7. PICK w \in Values : w = Tail(v) /\ w = Singles(After(a, k + 1))
  BY <1>3, <1>5, Singled
<1>8. PICK z \in Seq(Wide) : z = Stands(r, w)
  BY StandsFor, Widens
<1>9. PICK x \in Seq(Wide) : x = BoundOf(b, a)
  BY BoundWide
<1>10. c \in Seq(Wide)
  BY Widens
<1>11. PICK e : e = [c |-> "$", n |-> k + 1]
  OBVIOUS
<1>12. PICK bc \in Seq(Entry) : bc = b \o Copied(c) /\ Numbered(bc, k)
  BY CopyKeeps
<1>13. BoundOf(bc, a) = x \o c
  <2>1. BoundOf(b \o Copied(c), a) = BoundOf(b, a) \o c
    BY CopyBound, ZenonT(40)
  <2> QED BY <1>9, <1>12, <2>1, Zenon
<1>14. PICK y \in Seq(Wide) : y = <<a[k + 1]>>
  <2>1. k + 1 \in 1 .. Len(a)
    BY <1>2
  <2>2. a[k + 1] \in Wide
    BY <2>1, ElementOfSeq, Widens
  <2> QED BY <2>2, Single
<1>15. BoundOf(bc \o <<e>>, a) = BoundOf(bc, a) \o <<a[k + 1]>>
  BY <1>2, <1>11, <1>12, NumberBound, Zenon
<1>16. BoundOf(bc \o <<e>>, a) = (x \o c) \o y
  BY <1>13, <1>14, <1>15, Zenon
<1>17. Stands(s, v) = c \o (y \o z)
  BY <1>3, <1>5, <1>6, <1>7, <1>8, <1>14, Zenon
<1>18. ((x \o c) \o y) \o z = x \o (c \o (y \o z))
  <2>1. PICK yz \in Seq(Wide), xc \in Seq(Wide) : yz = y \o z /\ xc = x \o c
    BY <1>10, ConcatProperties
  <2>2. (xc \o y) \o z = xc \o (y \o z)
    BY WideAssociate, Zenon
  <2>3. (x \o c) \o yz = x \o (c \o yz)
    BY <1>10, WideAssociate, ZenonT(40)
  <2> QED BY <2>1, <2>2, <2>3, Zenon
<1>19. BoundOf(bc \o <<e>>, a) \o Stands(r, w) = BoundOf(b, a) \o Stands(s, v)
  BY <1>8, <1>9, <1>16, <1>17, <1>18, Zenon
<1> QED BY <1>1, <1>2, <1>3, <1>4, <1>7, <1>11, <1>12, <1>19, Zenon

LEMMA RestAgrees ==
    ASSUME NEW b \in Seq(Entry), NEW k \in Nat, Numbered(b, k), NEW a \in Seq(Args), k <= Len(a),
           NEW s \in Seq(Chars), ~HasMark(s), Marks[Reading[s]] = Len(a) - k
    PROVE  BoundOf(b \o Copied(s), a) = BoundOf(b, a) \o Stands(s, Singles(After(a, k)))
<1>1. Stands(s, <<>>) = s /\ Marks[Reading[s]] = 0
  BY RestStandsAs
<1>2. k = Len(a)
  BY <1>1, LenProperties
<1>3. After(a, k) = <<>>
  BY <1>2, ArgsLeft
<1>4. Singles(<<>>) = <<>>
  BY DEF Singles
<1>5. BoundOf(b \o Copied(s), a) = BoundOf(b, a) \o s
  BY CopyBound, Zenon
<1> QED BY <1>1, <1>3, <1>4, <1>5, Zenon

\* Init, and each step.
LEMMA InitMeant == Init => Emptied /\ Agrees
BY DEF Init, Emptied, Agrees

LEMMA ExpandAgrees ==
    ASSUME Emptied, Agrees, ExpandEscaped \/ ExpandArg \/ ExpandEnds
    PROVE  Emptied' /\ Agrees'
<1>1. pc' = "expand" \/ (pc' = "send" /\ sp' = <<>> /\ ap' = <<>>)
  BY DEF ExpandEscaped, ExpandArg, ExpandEnds, Expanding
<1> QED BY <1>1 DEF Emptied, Agrees

LEMMA SendAgrees ==
    ASSUME TypeInv, Sound, Emptied, Send
    PROVE  Emptied' /\ Agrees'
<1>1. Emptied'
  BY DEF Send, Emptied, exprVars
<1>2. Agrees'
  <2> SUFFICES ASSUME Positional, args # <<>>, WellFormed(input)
               PROVE  /\ pc' = "replace" /\ i' <= Len(args')
                      /\ Marks[Reading[sql']] = Len(args') - i'
                      /\ Stands(text', Singles(args'))
                           = BoundOf(buf', args') \o Stands(sql', Singles(After(args', i')))
    BY DEF Agrees, Send, exprVars
  <2>1. pc' = "replace" /\ sql' = text /\ buf' = <<>> /\ i' = 0 /\ text' = text /\ args' = args
    BY DEF Send, exprVars, TypeInv
  <2>2. args \in Seq(Args) /\ text \in Seq(Chars) /\ Marks[Reading[text]] = Len(args) /\ Len(args) \in Nat
        /\ Singles(args) \in Values
    BY SoundTypes
  <2>3. After(args, 0) = args
    BY <2>2, ArgsLeft
  <2>4. BoundOf(<<>>, args) = <<>>
    BY DEF BoundOf
  <2>5. Stands(text, Singles(args)) = <<>> \o Stands(text, Singles(args))
    <3>1. PICK x \in Seq(Pieces) : x = Stands(text, Singles(args))
      BY <2>2, StandsFor
    <3>2. <<>> \o x = x
      BY ConcatEmptySeq
    <3> QED BY <3>1, <3>2, Zenon
  <2>6. Stands(text', Singles(args')) = BoundOf(buf', args') \o Stands(sql', Singles(After(args', i')))
    BY <2>1, <2>3, <2>4, <2>5, Zenon
  <2>7. i' <= Len(args') /\ Marks[Reading[sql']] = Len(args') - i'
    BY <2>1, <2>2
  <2> QED BY <2>1, <2>6, <2>7
<1> QED BY <1>1, <1>2

LEMMA ReplaceAgrees ==
    ASSUME TypeInv, NumbersInOrder, Sound, Emptied, Agrees, ReplaceEscaped \/ ReplaceMark \/ ReplaceEnds
    PROVE  Emptied' /\ Agrees'
<1>0. pc = "replace" /\ pc' \in {"replace", "sent"} /\ input' = input /\ sp' = sp /\ ap' = ap
      /\ text' = text /\ args' = args
  BY DEF ReplaceEscaped, ReplaceMark, ReplaceEnds, exprVars
<1>1. Emptied'
  BY <1>0 DEF Emptied
<1>2. Agrees'
  <2> SUFFICES ASSUME Positional, args # <<>>, WellFormed(input) PROVE Agrees'
    BY <1>0 DEF Agrees
  <2>1. args \in Seq(Args) /\ Len(args) \in Nat
    BY SoundTypes
  <2>2. PICK a \in Seq(Args), s \in Seq(Chars), b \in Seq(Entry), k \in Nat :
          a = args /\ s = sql /\ b = buf /\ k = i
    BY <2>1 DEF TypeInv
  <2>3. Numbered(b, k)
    BY <2>2 DEF NumbersInOrder
  <2>4. k <= Len(a) /\ Marks[Reading[s]] = Len(a) - k
    BY <1>0, <2>2 DEF Agrees
  <2>5. PICK v \in Values : v = Singles(After(a, k))
    BY <2>4, ArgsLeft, Singled
  <2>6. Stands(text, Singles(args)) = BoundOf(b, a) \o Stands(s, v)
    BY <1>0, <2>2, <2>5, Zenon DEF Agrees
  <2>7. CASE ReplaceEscaped
    <3>1. HasMark(s) /\ Escaped(s) /\ pc' = "replace" /\ i' = k
      BY <1>0, <2>2, <2>7 DEF ReplaceEscaped
    <3>2. buf' = b \o Copied(Upto(s, Mark(s))) /\ sql' = After(s, Mark(s) + 1)
      BY <2>2, <2>7, Zenon DEF ReplaceEscaped
    <3>3. Marks[Reading[After(s, Mark(s) + 1)]] = Marks[Reading[s]]
      BY <2>3, <2>4, <3>1, EscapeAgrees, Zenon
    <3>4. BoundOf(b \o Copied(Upto(s, Mark(s))), a) \o Stands(After(s, Mark(s) + 1), v)
            = BoundOf(b, a) \o Stands(s, v)
      BY <2>3, <2>4, <3>1, EscapeAgrees, Zenon
    <3>5. Stands(text', Singles(args')) = BoundOf(buf', args') \o Stands(sql', Singles(After(args', i')))
      BY <1>0, <2>2, <2>5, <2>6, <3>1, <3>2, <3>4, Zenon
    <3>6. i' <= Len(args') /\ Marks[Reading[sql']] = Len(args') - i'
      BY <1>0, <2>2, <2>4, <3>1, <3>2, <3>3, Zenon
    <3>7. pc' # "sent"
      BY <3>1
    <3> QED BY <3>5, <3>6, <3>7, Zenon DEF Agrees
  <2>8. CASE ReplaceMark
    <3>1. HasMark(s) /\ ~Escaped(s) /\ pc' = "replace" /\ i' = k + 1
      BY <1>0, <2>2, <2>8 DEF ReplaceMark
    <3>2. /\ buf' = (b \o Copied(Upto(s, Mark(s) - 1))) \o <<[c |-> "$", n |-> k + 1]>>
          /\ sql' = After(s, Mark(s))
      BY <2>2, <2>8, Zenon DEF ReplaceMark
    <3>3. /\ k + 1 <= Len(a) /\ Marks[Reading[After(s, Mark(s))]] = Len(a) - (k + 1)
          /\ BoundOf((b \o Copied(Upto(s, Mark(s) - 1))) \o <<[c |-> "$", n |-> k + 1]>>, a)
               \o Stands(After(s, Mark(s)), Singles(After(a, k + 1)))
             = BoundOf(b, a) \o Stands(s, Singles(After(a, k)))
      BY <2>3, <2>4, <3>1, MarkAgrees, Zenon
    <3>5. Stands(text', Singles(args')) = BoundOf(buf', args') \o Stands(sql', Singles(After(args', i')))
      BY <1>0, <2>2, <2>5, <2>6, <3>1, <3>2, <3>3, Zenon
    <3>6. i' <= Len(args') /\ Marks[Reading[sql']] = Len(args') - i'
      BY <1>0, <2>2, <3>1, <3>2, <3>3, Zenon
    <3>7. pc' # "sent"
      BY <3>1
    <3> QED BY <3>5, <3>6, <3>7, Zenon DEF Agrees
  <2>9. CASE ReplaceEnds
    <3>1. ~HasMark(s) /\ pc' = "sent" /\ i' = k
      BY <1>0, <2>2, <2>9 DEF ReplaceEnds
    <3>2. buf' = b \o Copied(s)
      BY <2>2, <2>9, Zenon DEF ReplaceEnds
    <3>3. BoundOf(b \o Copied(s), a) = BoundOf(b, a) \o Stands(s, Singles(After(a, k)))
      BY <2>3, <2>4, <3>1, RestAgrees, Zenon
    <3>4. BoundOf(buf', args') = Stands(text', Singles(args'))
      BY <1>0, <2>2, <2>5, <2>6, <3>2, <3>3, Zenon
    <3>7. pc' # "replace"
      BY <3>1
    <3> QED BY <3>4, <3>7, Zenon DEF Agrees
  <2> QED BY <2>7, <2>8, <2>9
<1> QED BY <1>1, <1>2

LEMMA NextAgrees ==
    ASSUME TypeInv, NumbersInOrder, Sound, Emptied, Agrees, [Next]_vars
    PROVE  Emptied' /\ Agrees'
<1>1. CASE UNCHANGED vars
  BY <1>1 DEF vars, Emptied, Agrees
<1> QED BY <1>1, ExpandAgrees, SendAgrees, ReplaceAgrees DEF Next, Sent

\* At the end nothing is left to read: what was sent is what was meant.
LEMMA MeaningReached ==
    ASSUME TypeInv, Sound, Emptied, Agrees
    PROVE  DriverSeesMeaning
<1> SUFFICES ASSUME pc = "sent", Positional, args # <<>>, WellFormed(input)
             PROVE  Bound = Meaning(input)
  BY DEF DriverSeesMeaning
<1>1. sp = <<>> /\ ap = <<>>
  BY DEF Emptied
<1>2. BoundOf(buf, args) = Stands(text, Singles(args))
  BY DEF Agrees
<1>3. Stands(text, Singles(args)) \o Stands(sp, Meanings(ap)) = Meaning(input)
  BY SoundTypes DEF MeantSoFar
<1>4. Meanings(<<>>) = <<>>
  BY DEF Meanings
<1>5. PICK x \in Seq(Pieces) : x = Stands(text, Singles(args))
  BY SoundTypes, StandsFor
<1>6. x \o <<>> = x
  BY ConcatEmptySeq
<1>7. x = Meaning(input)
  BY <1>1, <1>3, <1>4, <1>5, <1>6, NothingStands, Zenon
<1>8. Bound = BoundOf(buf, args)
  BY DEF Bound, BoundOf
<1> QED BY <1>2, <1>5, <1>7, <1>8

-----------------------------------------------------------------------------
(* DebugSqlizer, turn by turn *)

\* What a turn leaves is shorter.
Shorter(s, r) == r \in Seq(Chars) /\ Len(r) < Len(s)

LEMMA RestShorter ==
    ASSUME NEW s \in Seq(Chars), HasMark(s)
    PROVE  /\ Shorter(s, After(s, Mark(s)))
           /\ Escaped(s) => Shorter(s, After(s, Mark(s) + 1))
<1>1. Mark(s) \in Nat /\ Mark(s) - 1 \in Nat /\ Mark(s) <= Len(s) /\ Len(s) \in Nat
  BY SplitAtMark, LenProperties
<1>2. Shorter(s, After(s, Mark(s)))
  BY <1>1, Parts DEF Shorter
<1>3. ASSUME Escaped(s) PROVE Shorter(s, After(s, Mark(s) + 1))
  <2>1. Mark(s) + 1 \in Nat /\ Mark(s) + 1 <= Len(s)
    BY <1>3, SplitAtEscape
  <2>2. PICK m \in Nat : m = Mark(s) + 1 /\ m <= Len(s) /\ m > 0
    BY <1>1, <2>1
  <2>3. After(s, m) \in Seq(Chars) /\ Len(After(s, m)) = Len(s) - m
    BY <2>2, Parts
  <2>4. Len(After(s, m)) < Len(s)
    BY <1>1, <2>2, <2>3
  <2> QED BY <2>2, <2>3, <2>4, Zenon DEF Shorter
<1> QED BY <1>2, <1>3

\* The places of a text DebugSqlizer can be at, and what it can show.
Turns(l) == Seq(Chars) \X (0 .. l)
Shows(W) == {Showing(t) : t \in Seq(W)} \cup {DebugError}

\* One turn of DebugSqlizer.
DebugTurn(f, p, a) ==
    IF HasMark(p[1]) THEN DebugFill(p[1], p[2], a, f)
    ELSE IF p[2] < Len(a) THEN DebugError ELSE Showing(p[1])

\* What is shown before a text, and before an error.
LEMMA BeforeEach ==
    /\ \A x, t : Before(x, Showing(t)) = Showing(x \o t)
    /\ \A x : Before(x, DebugError) = DebugError
<1>1. \A t : Showing(t).shown = TRUE /\ Showing(t).text = t
  BY DEF Showing
<1>2. DebugError.shown = FALSE
  BY DEF DebugError
<1> QED BY <1>1, <1>2, Zenon DEF Before

LEMMA BeforeShows ==
    ASSUME NEW W, NEW x \in Seq(W), NEW rest \in Shows(W)
    PROVE  Before(x, rest) \in Shows(W)
<1>1. CASE rest = DebugError
  BY <1>1, BeforeEach, Zenon DEF Shows
<1>2. CASE rest # DebugError
  <2>1. PICK t \in Seq(W) : rest = Showing(t)
    BY <1>2, Zenon DEF Shows
  <2>2. PICK y \in Seq(W) : y = x \o t
    BY ConcatProperties
  <2>3. Before(x, rest) = Showing(y)
    BY <2>1, <2>2, BeforeEach, Zenon
  <2> QED BY <2>3, Zenon DEF Shows
<1> QED BY <1>1, <1>2

\* What is shown before nothing, and before what is shown before a rest.
LEMMA BeforeNothing == ASSUME NEW W, NEW rest \in Shows(W) PROVE Before(<<>>, rest) = rest
<1>1. CASE rest = DebugError
  BY <1>1, BeforeEach, Zenon
<1>2. CASE rest # DebugError
  <2>1. PICK t \in Seq(W) : rest = Showing(t)
    BY <1>2, Zenon DEF Shows
  <2>2. <<>> \o t = t
    BY ConcatEmptySeq
  <2> QED BY <2>1, <2>2, BeforeEach, Zenon
<1> QED BY <1>1, <1>2

LEMMA BeforeTwice ==
    ASSUME NEW W, NEW x \in Seq(W), NEW y \in Seq(W), NEW rest \in Shows(W)
    PROVE  Before(x, Before(y, rest)) = Before(x \o y, rest)
<1>1. CASE rest = DebugError
  BY <1>1, BeforeEach, Zenon
<1>2. CASE rest # DebugError
  <2>1. PICK t \in Seq(W) : rest = Showing(t)
    BY <1>2, Zenon DEF Shows
  <2>2. x \o (y \o t) = (x \o y) \o t
    BY ConcatAssociative, SMTT(30)
  <2>3. Before(y, rest) = Showing(y \o t)
    BY <2>1, BeforeEach, Zenon
  <2>4. Before(x, Before(y, rest)) = Showing(x \o (y \o t))
    BY <2>3, BeforeEach, Zenon
  <2>5. Before(x \o y, rest) = Showing((x \o y) \o t)
    BY <2>1, BeforeEach, Zenon
  <2> QED BY <2>2, <2>4, <2>5, Zenon
<1> QED BY <1>1, <1>2

\* What a turn needs of a rest, and what it makes of it.
LEMMA TurnSteps ==
    ASSUME NEW A, NEW a \in Seq(A), NEW W, Chars \cup A \subseteq W, NEW f, NEW s \in Seq(Chars),
           NEW n \in 0 .. Len(a)
    PROVE  /\ HasMark(s) /\ Escaped(s) =>
                /\ <<After(s, Mark(s) + 1), n>> \in Turns(Len(a)) /\ Len(After(s, Mark(s) + 1)) < Len(s)
                /\ Upto(s, Mark(s)) \in Seq(W)
           /\ HasMark(s) /\ ~Escaped(s) /\ ~(n + 1 > Len(a)) =>
                /\ <<After(s, Mark(s)), n + 1>> \in Turns(Len(a)) /\ Len(After(s, Mark(s))) < Len(s)
                /\ Upto(s, Mark(s) - 1) \o <<a[n + 1]>> \in Seq(W)
           /\ s \in Seq(W) /\ n \in Nat
<1>0. Chars \subseteq W /\ Len(a) \in Nat /\ n \in Nat
  BY LenProperties
<1>1. ASSUME HasMark(s), Escaped(s)
      PROVE  /\ <<After(s, Mark(s) + 1), n>> \in Turns(Len(a)) /\ Len(After(s, Mark(s) + 1)) < Len(s)
             /\ Upto(s, Mark(s)) \in Seq(W)
  <2>1. Shorter(s, After(s, Mark(s) + 1))
    BY <1>1, RestShorter
  <2>2. Upto(s, Mark(s)) \in Seq(Chars)
    BY <1>1, SplitAtMark, Parts
  <2> QED BY <1>0, <2>1, <2>2, Wider DEF Turns, Shorter
<1>2. ASSUME HasMark(s), ~Escaped(s), ~(n + 1 > Len(a))
      PROVE  /\ <<After(s, Mark(s)), n + 1>> \in Turns(Len(a)) /\ Len(After(s, Mark(s))) < Len(s)
             /\ Upto(s, Mark(s) - 1) \o <<a[n + 1]>> \in Seq(W)
  <2>1. Shorter(s, After(s, Mark(s)))
    BY <1>2, RestShorter
  <2>2. PICK c \in Seq(Chars) : c = Upto(s, Mark(s) - 1)
    BY <1>2, SplitAtMark
  <2>3. n + 1 \in 0 .. Len(a) /\ n + 1 \in 1 .. Len(a)
    BY <1>0, <1>2
  <2>4. a[n + 1] \in W
    <3>1. a[n + 1] \in A
      BY <2>3, ElementOfSeq
    <3> QED BY <3>1
  <2>5. PICK y \in Seq(W) : y = <<a[n + 1]>>
    BY <2>4, Single
  <2>6. c \in Seq(W)
    BY <1>0, Wider
  <2>7. c \o y \in Seq(W)
    BY <2>6, ConcatProperties
  <2>8. Upto(s, Mark(s) - 1) \o <<a[n + 1]>> \in Seq(W)
    BY <2>2, <2>5, <2>7, Zenon
  <2> QED BY <2>1, <2>3, <2>8 DEF Turns, Shorter
<1>3. s \in Seq(W)
  BY <1>0, Wider
<1> QED BY <1>0, <1>1, <1>2, <1>3

\* A turn shows something, and depends on shorter texts only.
LEMMA TurnShows ==
    ASSUME NEW A, NEW a \in Seq(A), NEW W, Chars \cup A \subseteq W, NEW f, NEW p \in Turns(Len(a)),
           \A q \in Turns(Len(a)) : Len(q[1]) < Len(p[1]) => f[q] \in Shows(W)
    PROVE  DebugTurn(f, p, a) \in Shows(W)
<1>1. PICK s \in Seq(Chars), n \in 0 .. Len(a) : s = p[1] /\ n = p[2]
  BY DEF Turns
<1>2. \A r, m : <<r, m>> \in Turns(Len(a)) /\ Len(r) < Len(s) => f[<<r, m>>] \in Shows(W)
  BY <1>1
<1>3. DebugError \in Shows(W)
  BY Zenon DEF Shows
<1>4. CASE HasMark(s) /\ Escaped(s)
  <2>1. f[<<After(s, Mark(s) + 1), n>>] \in Shows(W) /\ Upto(s, Mark(s)) \in Seq(W)
    BY <1>2, <1>4, TurnSteps, ZenonT(40)
  <2>2. Before(Upto(s, Mark(s)), f[<<After(s, Mark(s) + 1), n>>]) \in Shows(W)
    BY <2>1, BeforeShows
  <2> QED BY <1>1, <1>4, <2>2, Zenon DEF DebugTurn, DebugFill
<1>5. CASE HasMark(s) /\ ~Escaped(s) /\ ~(n + 1 > Len(a))
  <2>1. f[<<After(s, Mark(s)), n + 1>>] \in Shows(W)
    BY <1>2, <1>5, TurnSteps
  <2>2. Upto(s, Mark(s) - 1) \o <<a[n + 1]>> \in Seq(W)
    BY <1>5, TurnSteps
  <2>3. Before(Upto(s, Mark(s) - 1) \o <<a[n + 1]>>, f[<<After(s, Mark(s)), n + 1>>]) \in Shows(W)
    BY <2>1, <2>2, BeforeShows, Zenon
  <2> QED BY <1>1, <1>5, <2>3, Zenon DEF DebugTurn, DebugFill
<1>6. CASE HasMark(s) /\ ~Escaped(s) /\ n + 1 > Len(a)
  BY <1>1, <1>3, <1>6, Zenon DEF DebugTurn, DebugFill
<1>7. CASE ~HasMark(s)
  <2>1. Showing(s) \in Shows(W)
    <3>1. s \in Seq(W)
      BY TurnSteps
    <3> QED BY <3>1, Zenon DEF Shows
  <2> QED BY <1>1, <1>3, <1>7, <2>1, Zenon DEF DebugTurn
<1> QED BY <1>4, <1>5, <1>6, <1>7

LEMMA TurnDescends ==
    ASSUME NEW A, NEW a \in Seq(A), NEW f, NEW g, NEW p \in Turns(Len(a)),
           \A q \in Turns(Len(a)) : Len(q[1]) < Len(p[1]) => f[q] = g[q]
    PROVE  DebugTurn(f, p, a) = DebugTurn(g, p, a)
<1> DEFINE W == Chars \cup A
<1>1. PICK s \in Seq(Chars), n \in 0 .. Len(a) : s = p[1] /\ n = p[2]
  BY DEF Turns
<1>2. \A r, m : <<r, m>> \in Turns(Len(a)) /\ Len(r) < Len(s) => f[<<r, m>>] = g[<<r, m>>]
  BY <1>1
<1>4. CASE HasMark(s) /\ Escaped(s)
  <2>1. f[<<After(s, Mark(s) + 1), n>>] = g[<<After(s, Mark(s) + 1), n>>]
    BY <1>2, <1>4, TurnSteps
  <2> QED BY <1>1, <1>4, <2>1, Zenon DEF DebugTurn, DebugFill
<1>5. CASE HasMark(s) /\ ~Escaped(s) /\ ~(n + 1 > Len(a))
  <2>1. f[<<After(s, Mark(s)), n + 1>>] = g[<<After(s, Mark(s)), n + 1>>]
    BY <1>2, <1>5, TurnSteps
  <2> QED BY <1>1, <1>5, <2>1, Zenon DEF DebugTurn, DebugFill
<1>6. CASE (HasMark(s) /\ ~Escaped(s) /\ n + 1 > Len(a)) \/ ~HasMark(s)
  BY <1>1, <1>6, Zenon DEF DebugTurn, DebugFill
<1> QED BY <1>4, <1>5, <1>6

\* f shows what DebugSqlizer does from every place of a text on.
ShowsAll(f, a, W) ==
    /\ \A p \in Turns(Len(a)) : f[p] = DebugTurn(f, p, a) /\ f[p] \in Shows(W)
    /\ \A t \in Seq(Chars) : DebugSqlizer(t, a) = f[<<t, 0>>]

\* DebugSqlizer is the function its definition says it is.
LEMMA DebugDef ==
    ASSUME NEW A, NEW a \in Seq(A), NEW W, Chars \cup A \subseteq W
    PROVE  \E f : ShowsAll(f, a, W)
<1> DEFINE D == Turns(Len(a))
           V == Shows(W)
           size == [p \in D |-> Len(p[1])]
           step == [d \in [D -> V] \X D |-> DebugTurn(d[1], d[2], a)]
<1>1. size \in [D -> Nat] /\ (\A p \in D : size[p] = Len(p[1]))
  <2>1. \A p \in D : Len(p[1]) \in Nat
    BY LenProperties DEF Turns
  <2> HIDE DEF D
  <2> QED BY <2>1
<1>2. V # {}
  <2>1. DebugError \in V
    BY Zenon DEF Shows
  <2> QED BY <2>1
<1>3. \A f \in [D -> V], p \in D : step[<<f, p>>] = DebugTurn(f, p, a)
  <2> HIDE DEF D, V
  <2> QED OBVIOUS
<1>4. step \in [[D -> V] \X D -> V]
  <2>1. ASSUME NEW d \in [D -> V] \X D PROVE DebugTurn(d[1], d[2], a) \in V
    <3>1. d[2] \in D /\ \A q \in D : d[1][q] \in V
      <4> HIDE DEF D, V
      <4> QED OBVIOUS
    <3> QED BY <3>1, TurnShows
  <2> HIDE DEF D, V
  <2> QED BY <2>1
<1> HIDE DEF step
<1>5. ASSUME NEW f \in [D -> V], NEW g \in [D -> V], NEW p \in D,
             \A q \in D : size[q] < size[p] => f[q] = g[q]
      PROVE  step[<<f, p>>] = step[<<g, p>>]
  <2>1. \A q \in D : Len(q[1]) < Len(p[1]) => f[q] = g[q]
    <3> HIDE DEF D, V, size
    <3> QED BY <1>1, <1>5
  <2>2. DebugTurn(f, p, a) = DebugTurn(g, p, a)
    BY <2>1, TurnDescends
  <2> HIDE DEF D, V
  <2> QED BY <1>3, <2>2
<1> HIDE DEF size
<1>6. Descends(D, V, size, step)
  <2> HIDE DEF D, V
  <2> QED BY <1>1, <1>4, <1>5 DEF Descends
<1>7. PICK f : Solves(f, D, V, step)
  <2> HIDE DEF D, V
  <2> QED BY <1>2, <1>6, Recursion
<1>8. f = [p \in D |-> DebugTurn(f, p, a)]
  <2> HIDE DEF D, V
  <2> QED BY <1>3, <1>7 DEF Solves
<1> DEFINE S == CHOOSE g : g = [p \in D |-> DebugTurn(g, p, a)]
<1>9. S = [p \in D |-> DebugTurn(S, p, a)]
  <2> HIDE DEF D
  <2> QED BY <1>8
<1>10. \A t \in Seq(Chars) : DebugSqlizer(t, a) = S[<<t, 0>>]
  BY DEF DebugSqlizer, DebugTurn, Turns
<1> HIDE DEF S
<1>11. \A p \in D : S[p] = DebugTurn(S, p, a)
  <2> HIDE DEF D
  <2> QED BY <1>9
<1>12. \A p \in D : S[p] \in V
  <2> DEFINE G == {p \in D : S[p] \in V}
  <2>1. ASSUME NEW p \in D, \A q \in D : size[q] < size[p] => q \in G PROVE p \in G
    <3>1. \A q \in D : Len(q[1]) < Len(p[1]) => S[q] \in V
      <4> HIDE DEF D, V
      <4> QED BY <1>1, <2>1
    <3>2. DebugTurn(S, p, a) \in V
      BY <3>1, TurnShows
    <3> HIDE DEF D, V
    <3> QED BY <1>11, <3>2
  <2>2. D \subseteq G
    <3> HIDE DEF D, G
    <3> QED BY <1>1, <2>1, SizeInduction
  <2> HIDE DEF D, V
  <2> QED BY <2>2
<1>13. ShowsAll(S, a, W)
  BY <1>10, <1>11, <1>12 DEF ShowsAll
<1> QED BY <1>13

-----------------------------------------------------------------------------
(* Arguments, values or texts of Sqlizers *)

\* What arguments are, values or texts of Sqlizers.
ElementsOf(a) == {a[j] : j \in 1 .. Len(a)}
Listed == args \in Seq(ElementsOf(args))

\* A sequence is one over its own elements, and so are two together.
LEMMA Elements == ASSUME NEW S, NEW a \in Seq(S) PROVE a \in Seq(ElementsOf(a))
<1>1. Len(a) \in Nat /\ \A j \in 1 .. Len(a) : a[j] \in ElementsOf(a)
  BY LenProperties DEF ElementsOf
<1> QED BY <1>1

LEMMA Listing ==
    ASSUME NEW S, NEW a \in Seq(S), NEW T, NEW b \in Seq(T)
    PROVE  a \o b \in Seq(ElementsOf(a \o b))
<1> DEFINE W == S \cup T
<1>1. S \subseteq W /\ T \subseteq W
  OBVIOUS
<1> HIDE DEF W
<1>2. a \in Seq(W) /\ b \in Seq(W)
  BY <1>1, Wider
<1> DEFINE c == a \o b
<1>3. c \in Seq(W)
  BY <1>2, ConcatProperties
<1> HIDE DEF c
<1>4. c \in Seq(ElementsOf(c))
  BY <1>3, Elements
<1> QED BY <1>4 DEF c

\* Arguments are a sequence at every step.
LEMMA InitListed == Init => Listed
<1>1. <<>> \in Seq(ElementsOf(<<>>))
  OBVIOUS
<1> QED BY <1>1 DEF Init, Listed

LEMMA NextListed == ASSUME TypeInv, Listed, [Next]_vars PROVE Listed'
<1>1. CASE ExpandArg
  <2>1. PICK a, b : a = args /\ b = ap[1].args /\ b \in Seq(Args)
    <3>1. ap # <<>> /\ ap \in Seq(Given)
      BY <1>1 DEF ExpandArg, Expanding, TypeInv
    <3>2. ap[1].args \in Seq(Args)
      BY <3>1, MeaningsHead
    <3> QED BY <3>1, <3>2
  <2>2. a \in Seq(ElementsOf(a))
    BY <2>1 DEF Listed
  <2>3. a \o b \in Seq(ElementsOf(a \o b))
    BY <2>1, <2>2, Listing
  <2>4. args' = a \o b
    BY <1>1, <2>1, Zenon DEF ExpandArg
  <2> QED BY <2>3, <2>4, Zenon DEF Listed
<1>2. CASE ExpandEnds
  <2>1. PICK a, b : a = args /\ b = [j \in 1 .. Len(ap) |-> AsValue(ap[j])]
    OBVIOUS
  <2>2. a \in Seq(ElementsOf(a))
    BY <2>1 DEF Listed
  <2>3. b \in Seq({AsValue(ap[j]) : j \in 1 .. Len(ap)})
    <3>1. Len(ap) \in Nat
      BY LenProperties DEF TypeInv
    <3>2. \A j \in 1 .. Len(ap) : AsValue(ap[j]) \in {AsValue(ap[h]) : h \in 1 .. Len(ap)}
      OBVIOUS
    <3> DEFINE S == {AsValue(ap[h]) : h \in 1 .. Len(ap)}
               e(j) == AsValue(ap[j])
    <3>3. \A j \in 1 .. Len(ap) : e(j) \in S
      BY <3>2
    <3> HIDE DEF S, e
    <3>4. [j \in 1 .. Len(ap) |-> e(j)] \in Seq(S)
      BY <3>1, <3>3
    <3> QED BY <2>1, <3>4 DEF S, e
  <2>4. a \o b \in Seq(ElementsOf(a \o b))
    BY <2>2, <2>3, Listing
  <2>5. args' = a \o b
    BY <1>2, <2>1, Zenon DEF ExpandEnds
  <2> QED BY <2>4, <2>5, Zenon DEF Listed
<1>3. CASE UNCHANGED args
  BY <1>3 DEF Listed
<1> QED BY <1>1, <1>2, <1>3
     DEF Next, ExpandEscaped, Send, ReplaceEscaped, ReplaceMark, ReplaceEnds, Sent, vars, exprVars

-----------------------------------------------------------------------------
(* One mark for DebugSqlizer and for the numbering *)

\* Both, for a set of pieces.
Associative(W) == \A u, v, w \in Seq(W) : (u \o v) \o w = u \o (v \o w)

LEMMA Associates == ASSUME NEW W PROVE Associative(W)
BY ConcatAssociative DEF Associative

LEMMA BeforeTwices ==
    ASSUME NEW W
    PROVE  \A x, y \in Seq(W), rest \in Shows(W) : Before(x, Before(y, rest)) = Before(x \o y, rest)
<1> TAKE x, y \in Seq(W), rest \in Shows(W)
<1> QED BY BeforeTwice

\* Whatever may be shown of a statement with arguments a.
ShownSet(a) == Chars \cup {"$"} \cup ElementsOf(a)

\* A turn ...
LEMMA TurnAt ==
    ASSUME NEW a, NEW W, NEW f, ShowsAll(f, a, W), NEW s \in Seq(Chars), NEW n \in 0 .. Len(a)
    PROVE  /\ f[<<s, n>>] \in Shows(W)
           /\ f[<<s, n>>] = IF HasMark(s) THEN DebugFill(s, n, a, f)
                            ELSE IF n < Len(a) THEN DebugError ELSE Showing(s)
<1> DEFINE p == <<s, n>>
<1>1. p \in Turns(Len(a)) /\ p[1] = s /\ p[2] = n
  BY DEF Turns
<1> HIDE DEF p
<1>2. f[p] = DebugTurn(f, p, a) /\ f[p] \in Shows(W)
  BY <1>1, Zenon DEF ShowsAll
<1> QED BY <1>1, <1>2, Zenon DEF DebugTurn, p

\* ... that meets an escape ...
LEMMA TurnAtEscape ==
    ASSUME NEW a, NEW W, NEW f, ShowsAll(f, a, W), NEW s \in Seq(Chars), NEW n \in 0 .. Len(a),
           HasMark(s), Escaped(s)
    PROVE  f[<<s, n>>] = Before(Upto(s, Mark(s)), f[<<After(s, Mark(s) + 1), n>>])
BY TurnAt, Zenon DEF DebugFill

\* ... or a mark, when a value is left ...
LEMMA TurnAtMark ==
    ASSUME NEW a, NEW W, NEW f, ShowsAll(f, a, W), NEW s \in Seq(Chars), NEW n \in 0 .. Len(a),
           HasMark(s), ~Escaped(s), ~(n + 1 > Len(a))
    PROVE  f[<<s, n>>] = Before(Upto(s, Mark(s) - 1) \o <<a[n + 1]>>, f[<<After(s, Mark(s)), n + 1>>])
BY TurnAt, Zenon DEF DebugFill

\* ... and when none is.
LEMMA TurnTooMany ==
    ASSUME NEW a, NEW W, NEW f, ShowsAll(f, a, W), NEW s \in Seq(Chars), NEW n \in 0 .. Len(a),
           HasMark(s), ~Escaped(s), n + 1 > Len(a)
    PROVE  f[<<s, n>>] = DebugError
BY TurnAt, Zenon DEF DebugFill

\* What f shows of t is what b is for the database, then what f shows of s, k
\* arguments being used.
ShownSoFar(f, t, b, a, s, k) == f[<<t, 0>>] = Before(BoundOf(b, a), f[<<s, k>>])

\* It stays so with an escape copied, a mark numbered, and the rest copied.
LEMMA EscapeShown ==
    ASSUME NEW b \in Seq(Entry), NEW k \in Nat, Numbered(b, k), NEW S, NEW a \in Seq(S),
           NEW W, Chars \cup {"$"} \cup S \subseteq W,
           k <= Len(a), NEW s \in Seq(Chars), HasMark(s), Escaped(s),
           NEW f, ShowsAll(f, a, W), NEW t, ShownSoFar(f, t, b, a, s, k)
    PROVE  ShownSoFar(f, t, b \o Copied(Upto(s, Mark(s))), a, After(s, Mark(s) + 1), k)
<1>0. Chars \subseteq W
  OBVIOUS
<1>1. PICK q \in Seq(Chars), r \in Seq(Chars) : q = Upto(s, Mark(s)) /\ r = After(s, Mark(s) + 1)
  BY SplitAtMark, SplitAtEscape, Parts
<1>2. k \in 0 .. Len(a)
  BY LenProperties
<1>3. f[<<s, k>>] = Before(q, f[<<r, k>>])
  <2>1. f[<<s, k>>] = Before(Upto(s, Mark(s)), f[<<After(s, Mark(s) + 1), k>>])
    BY <1>2, TurnAtEscape, SMTT(30)
  <2> QED BY <1>1, <2>1, Zenon
<1>4. f[<<r, k>>] \in Shows(W)
  BY <1>2, TurnAt
<1>5. PICK x \in Seq(W) : x = BoundOf(b, a)
  BY <1>0, BoundIn
<1>6. q \in Seq(W)
  BY <1>0, Wider
<1>7. BoundOf(b \o Copied(q), a) = x \o q
  BY <1>5, CopyBound, Zenon
<1>8. Before(x, Before(q, f[<<r, k>>])) = Before(x \o q, f[<<r, k>>])
  <2>1. \A u, v \in Seq(W), z \in Shows(W) : Before(u, Before(v, z)) = Before(u \o v, z)
    BY BeforeTwices
  <2>2. x \in Seq(W) /\ q \in Seq(W) /\ f[<<r, k>>] \in Shows(W)
    BY <1>4, <1>6
  <2> QED BY <2>1, <2>2, Zenon
<1> QED BY <1>1, <1>3, <1>5, <1>7, <1>8, Zenon DEF ShownSoFar

LEMMA MarkShown ==
    ASSUME NEW b \in Seq(Entry), NEW k \in Nat, Numbered(b, k), NEW S, NEW a \in Seq(S),
           NEW W, Chars \cup {"$"} \cup S \subseteq W,
           k + 1 <= Len(a), NEW s \in Seq(Chars), HasMark(s), ~Escaped(s),
           NEW f, ShowsAll(f, a, W), NEW t, ShownSoFar(f, t, b, a, s, k)
    PROVE  ShownSoFar(f, t, (b \o Copied(Upto(s, Mark(s) - 1))) \o <<[c |-> "$", n |-> k + 1]>>, a,
                      After(s, Mark(s)), k + 1)
<1>0. Chars \subseteq W /\ S \subseteq W
  OBVIOUS
<1>1. PICK c \in Seq(Chars), r \in Seq(Chars) : c = Upto(s, Mark(s) - 1) /\ r = After(s, Mark(s))
  BY SplitAtMark
<1>2. k \in 0 .. Len(a) /\ k + 1 \in 0 .. Len(a) /\ ~(k + 1 > Len(a)) /\ k <= Len(a) /\ k + 1 \in 1 .. Len(a)
  BY LenProperties
<1>3. PICK y \in Seq(W) : y = <<a[k + 1]>>
  <2>1. a[k + 1] \in W
    BY <1>0, <1>2, ElementOfSeq
  <2> QED BY <2>1, Single
<1>4. f[<<s, k>>] = Before(c \o y, f[<<r, k + 1>>])
  <2>1. f[<<s, k>>] = Before(Upto(s, Mark(s) - 1) \o <<a[k + 1]>>, f[<<After(s, Mark(s)), k + 1>>])
    BY <1>2, TurnAtMark
  <2> QED BY <1>1, <1>3, <2>1, Zenon
<1>5. f[<<r, k + 1>>] \in Shows(W)
  BY <1>2, TurnAt
<1>6. PICK x \in Seq(W) : x = BoundOf(b, a)
  BY <1>0, <1>2, BoundIn
<1>7. c \in Seq(W)
  BY <1>0, Wider
<1>8. PICK cy \in Seq(W) : cy = c \o y
  BY <1>7, ConcatProperties
<1>9. PICK e : e = [c |-> "$", n |-> k + 1]
  OBVIOUS
<1>10. PICK bc \in Seq(Entry) : bc = b \o Copied(c) /\ Numbered(bc, k)
  BY CopyKeeps
<1>11. BoundOf(b \o Copied(c), a) = BoundOf(b, a) \o c
  BY <1>2, CopyBound, ZenonT(40)
<1>12. BoundOf(bc \o <<e>>, a) = BoundOf(bc, a) \o <<a[k + 1]>>
  BY <1>9, <1>10, NumberBound, Zenon
<1>13. (x \o c) \o y = x \o (c \o y)
  <2>1. Associative(W)
    BY Associates
  <2>2. x \in Seq(W) /\ c \in Seq(W) /\ y \in Seq(W)
    BY <1>7
  <2> QED BY <2>1, <2>2, Zenon DEF Associative
<1>14. BoundOf(bc \o <<e>>, a) = x \o cy
  BY <1>3, <1>6, <1>8, <1>10, <1>11, <1>12, <1>13, Zenon
<1>15. Before(x, Before(cy, f[<<r, k + 1>>])) = Before(x \o cy, f[<<r, k + 1>>])
  <2>1. \A u, v \in Seq(W), z \in Shows(W) : Before(u, Before(v, z)) = Before(u \o v, z)
    BY BeforeTwices
  <2>2. x \in Seq(W) /\ cy \in Seq(W) /\ f[<<r, k + 1>>] \in Shows(W)
    BY <1>5
  <2> QED BY <2>1, <2>2, Zenon
<1>16. f[<<t, 0>>] = Before(BoundOf(bc \o <<e>>, a), f[<<r, k + 1>>])
  BY <1>4, <1>6, <1>8, <1>14, <1>15, Zenon DEF ShownSoFar
<1> QED BY <1>1, <1>9, <1>10, <1>16, Zenon DEF ShownSoFar

LEMMA EndShown ==
    ASSUME NEW b \in Seq(Entry), NEW k \in Nat, Numbered(b, k), NEW S, NEW a \in Seq(S),
           NEW W, Chars \cup {"$"} \cup S \subseteq W,
           k <= Len(a), NEW s \in Seq(Chars), ~HasMark(s),
           NEW f, ShowsAll(f, a, W), NEW t, ShownSoFar(f, t, b, a, s, k)
    PROVE  f[<<t, 0>>] = IF k = Len(a) THEN Showing(BoundOf(b \o Copied(s), a)) ELSE DebugError
<1>1. k \in 0 .. Len(a) /\ (k < Len(a) <=> k # Len(a))
  BY LenProperties
<1>2. f[<<s, k>>] = IF k = Len(a) THEN Showing(s) ELSE DebugError
  <2>1. f[<<s, k>>] = IF k < Len(a) THEN DebugError ELSE Showing(s)
    BY <1>1, TurnAt, Zenon
  <2> QED BY <1>1, <2>1, Zenon
<1>3. BoundOf(b \o Copied(s), a) = BoundOf(b, a) \o s
  BY CopyBound, Zenon
<1> QED BY <1>2, <1>3, BeforeEach, Zenon DEF ShownSoFar

-----------------------------------------------------------------------------
(* DebugSqlizer and the numbering *)

\* While the numbers are written, DebugSqlizer shows what the database will
\* make of what is written, and then what it shows of what is not read yet;
\* or it has failed, when more numbers are written than there are arguments.
DebugAgrees ==
    Positional /\ args # <<>> =>
        /\ pc = "replace" =>
              IF i <= Len(args)
              THEN \A f : ShowsAll(f, args, ShownSet(args)) => ShownSoFar(f, text, buf, args, sql, i)
              ELSE DebugSqlizer(text, args) = DebugError
        /\ pc = "sent" =>
              DebugSqlizer(text, args) = IF i = Len(args) THEN Showing(BoundOf(buf, args)) ELSE DebugError

\* Init, and each step.
LEMMA InitDebug == Init => DebugAgrees
BY DEF Init, DebugAgrees

\* Arguments, as what DebugDef asks for.
LEMMA ListedShown ==
    ASSUME Listed
    PROVE  /\ args \in Seq(ElementsOf(args)) /\ Len(args) \in Nat
           /\ Chars \cup {"$"} \cup ElementsOf(args) \subseteq ShownSet(args)
           /\ Chars \cup ElementsOf(args) \subseteq ShownSet(args)
BY LenProperties DEF Listed, ShownSet

LEMMA SendDebug ==
    ASSUME TypeInv, Listed, Send
    PROVE  DebugAgrees'
<1> SUFFICES ASSUME Positional, args # <<>>
             PROVE  /\ pc' = "replace" /\ i' <= Len(args')
                    /\ \A f : ShowsAll(f, args', ShownSet(args'))
                                => ShownSoFar(f, text', buf', args', sql', i')
  BY DEF DebugAgrees, Send, exprVars
<1>1. pc' = "replace" /\ sql' = text /\ buf' = <<>> /\ i' = 0 /\ text' = text /\ args' = args
  BY DEF Send, exprVars, TypeInv
<1>2. Len(args) \in Nat
  BY ListedShown
<1>3. ASSUME NEW f, ShowsAll(f, args, ShownSet(args))
      PROVE  ShownSoFar(f, text, <<>>, args, text, 0)
  <2>1. text \in Seq(Chars) /\ 0 \in 0 .. Len(args)
    BY <1>2 DEF TypeInv
  <2>2. f[<<text, 0>>] \in Shows(ShownSet(args))
    BY <1>3, <2>1, TurnAt, Zenon
  <2>3. Before(<<>>, f[<<text, 0>>]) = f[<<text, 0>>]
    BY <2>2, BeforeNothing, Zenon
  <2>4. BoundOf(<<>>, args) = <<>>
    BY DEF BoundOf
  <2> QED BY <2>3, <2>4, Zenon DEF ShownSoFar
<1>4. i' <= Len(args')
  BY <1>1, <1>2
<1> QED BY <1>1, <1>3, <1>4, Zenon

LEMMA ReplaceDebug ==
    ASSUME TypeInv, NumbersInOrder, Listed, DebugAgrees, ReplaceEscaped \/ ReplaceMark \/ ReplaceEnds
    PROVE  DebugAgrees'
<1>0. pc = "replace" /\ text' = text /\ args' = args
  BY DEF ReplaceEscaped, ReplaceMark, ReplaceEnds, exprVars
<1> SUFFICES ASSUME Positional, args # <<>> PROVE DebugAgrees'
  BY <1>0 DEF DebugAgrees
<1>10. PICK W, S :
        /\ W = ShownSet(args) /\ args \in Seq(S)
        /\ Chars \cup {"$"} \cup S \subseteq W /\ Chars \cup S \subseteq W
  BY ListedShown
<1>11. PICK a \in Seq(S), t \in Seq(Chars), s \in Seq(Chars), b \in Seq(Entry), k \in Nat :
        a = args /\ t = text /\ s = sql /\ b = buf /\ k = i
  BY <1>10 DEF TypeInv
<1>1. /\ W = ShownSet(args) /\ a = args /\ t = text /\ s = sql /\ b = buf /\ k = i
      /\ Chars \cup {"$"} \cup S \subseteq W /\ Chars \cup S \subseteq W
  BY <1>10, <1>11
<1>2. Numbered(b, k) /\ Len(a) \in Nat
  BY <1>1, LenProperties DEF NumbersInOrder
<1>3. /\ k <= Len(a) => \A f : ShowsAll(f, a, W) => ShownSoFar(f, t, b, a, s, k)
      /\ ~(k <= Len(a)) => DebugSqlizer(t, a) = DebugError
  BY <1>0, <1>1, Zenon DEF DebugAgrees
<1>4. PICK g : ShowsAll(g, a, W)
  BY <1>1, DebugDef
<1>5. DebugSqlizer(t, a) = g[<<t, 0>>]
  BY <1>4, Zenon DEF ShowsAll
<1>6. ASSUME NEW b1, NEW s1, NEW k1, pc' = "replace", buf' = b1, sql' = s1, i' = k1,
             k1 <= Len(a) => \A f : ShowsAll(f, a, W) => ShownSoFar(f, t, b1, a, s1, k1),
             ~(k1 <= Len(a)) => DebugSqlizer(t, a) = DebugError
      PROVE  DebugAgrees'
  <2>1. pc' # "sent" /\ ShownSet(args') = W
    BY <1>0, <1>1, <1>6
  <2> QED BY <1>0, <1>1, <1>6, <2>1, Zenon DEF DebugAgrees
<1>7. CASE ReplaceEscaped
  <2>1. HasMark(s) /\ Escaped(s) /\ pc' = "replace" /\ i' = k
    BY <1>1, <1>7 DEF ReplaceEscaped
  <2>2. buf' = b \o Copied(Upto(s, Mark(s))) /\ sql' = After(s, Mark(s) + 1)
    BY <1>1, <1>7, Zenon DEF ReplaceEscaped
  <2>3. ASSUME k <= Len(a), NEW f, ShowsAll(f, a, W)
        PROVE  ShownSoFar(f, t, b \o Copied(Upto(s, Mark(s))), a, After(s, Mark(s) + 1), k)
    BY <1>1, <1>2, <1>3, <2>1, <2>3, EscapeShown, Zenon
  <2> QED BY <1>3, <1>6, <2>1, <2>2, <2>3, Zenon
<1>8. CASE ReplaceMark
  <2>1. HasMark(s) /\ ~Escaped(s) /\ pc' = "replace" /\ i' = k + 1
    BY <1>1, <1>8 DEF ReplaceMark
  <2>2. /\ buf' = (b \o Copied(Upto(s, Mark(s) - 1))) \o <<[c |-> "$", n |-> k + 1]>>
        /\ sql' = After(s, Mark(s))
    BY <1>1, <1>8, Zenon DEF ReplaceMark
  <2>3. ASSUME k + 1 <= Len(a), NEW f, ShowsAll(f, a, W)
        PROVE  ShownSoFar(f, t, (b \o Copied(Upto(s, Mark(s) - 1))) \o <<[c |-> "$", n |-> k + 1]>>, a,
                          After(s, Mark(s)), k + 1)
    <3>1. k <= Len(a)
      BY <1>2, <2>3
    <3> QED BY <1>1, <1>2, <1>3, <2>1, <2>3, <3>1, MarkShown, Zenon
  <2>4. ASSUME ~(k + 1 <= Len(a)) PROVE DebugSqlizer(t, a) = DebugError
    <3>1. CASE ~(k <= Len(a))
      BY <1>3, <3>1
    <3>2. CASE k <= Len(a)
      <4>1. k \in 0 .. Len(a) /\ k + 1 > Len(a)
        BY <1>2, <2>4, <3>2
      <4>2. g[<<s, k>>] = DebugError
        BY <1>4, <2>1, <4>1, TurnTooMany, Zenon
      <4>3. ShownSoFar(g, t, b, a, s, k)
        BY <1>3, <1>4, <3>2, Zenon
      <4> QED BY <1>5, <4>2, <4>3, BeforeEach, Zenon DEF ShownSoFar
    <3> QED BY <3>1, <3>2
  <2> QED BY <1>6, <2>1, <2>2, <2>3, <2>4, Zenon
<1>9. CASE ReplaceEnds
  <2>1. ~HasMark(s) /\ pc' = "sent" /\ i' = k
    BY <1>1, <1>9 DEF ReplaceEnds
  <2>2. buf' = b \o Copied(s)
    BY <1>1, <1>9, Zenon DEF ReplaceEnds
  <2>3. DebugSqlizer(t, a) = IF k = Len(a) THEN Showing(BoundOf(b \o Copied(s), a)) ELSE DebugError
    <3>1. CASE ~(k <= Len(a))
      <4>1. k # Len(a)
        BY <1>2, <3>1
      <4> QED BY <1>3, <3>1, <4>1, Zenon
    <3>2. CASE k <= Len(a)
      <4>1. ShownSoFar(g, t, b, a, s, k)
        BY <1>3, <1>4, <3>2, Zenon
      <4>2. g[<<t, 0>>] = IF k = Len(a) THEN Showing(BoundOf(b \o Copied(s), a)) ELSE DebugError
        <5>1. Chars \cup {"$"} \cup S \subseteq W /\ Numbered(b, k) /\ ~HasMark(s)
          BY <1>1, <1>2, <2>1
        <5> QED BY <1>4, <3>2, <4>1, <5>1, EndShown
      <4> QED BY <1>5, <4>2, Zenon
    <3> QED BY <3>1, <3>2
  <2>4. pc' # "replace"
    BY <2>1
  <2> QED BY <1>0, <1>1, <2>1, <2>2, <2>3, <2>4, Zenon DEF DebugAgrees
<1> QED BY <1>7, <1>8, <1>9

LEMMA NextDebug ==
    ASSUME TypeInv, NumbersInOrder, Listed, DebugAgrees, [Next]_vars
    PROVE  DebugAgrees'
<1>1. CASE UNCHANGED vars
  <2>1. /\ pc' = pc /\ text' = text /\ args' = args /\ sql' = sql /\ buf' = buf /\ i' = i
    BY <1>1 DEF vars
  <2> QED BY <2>1, Zenon DEF DebugAgrees
<1>2. CASE ExpandEscaped \/ ExpandArg \/ ExpandEnds
  <2>1. pc' # "replace" /\ pc' # "sent"
    BY <1>2 DEF ExpandEscaped, ExpandArg, ExpandEnds, Expanding
  <2> QED BY <2>1, Zenon DEF DebugAgrees
<1> QED BY <1>1, <1>2, SendDebug, ReplaceDebug DEF Next, Sent

\* At the end both have read the whole text.
LEMMA ShownIsSent == DebugAgrees => DebugShowsWhatIsSent
<1>1. Bound = BoundOf(buf, args)
  BY DEF Bound, BoundOf
<1> QED BY <1>1, Zenon DEF DebugAgrees, DebugShowsWhatIsSent

-----------------------------------------------------------------------------
(* The inductive invariants *)

LEMMA NoneNumbered == Numbered(<<>>, 0)
  BY DEF Numbered

LEMMA Initially == Init => IInv
  <1> SUFFICES ASSUME Init PROVE IInv
    OBVIOUS
  <1>1. sp \in Seq(Chars) /\ ap \in Seq(Given)
    BY DEF Init, Given
  <1>2. TypeInv
    BY <1>1 DEF Init, TypeInv
  <1> QED BY <1>2, NoneNumbered DEF Init, IInv, NumbersInOrder

\* What Expr.ToSql writes stays a text.
LEMMA ExpandSteps ==
    ASSUME IInv, ExpandEscaped \/ ExpandArg \/ ExpandEnds
    PROVE  IInv'
  <1> USE DEF IInv, TypeInv
  <1>1. pc = "expand" /\ pc' \in {"expand", "send"} /\ UNCHANGED <<sql, buf, i>>
    BY DEF ExpandEscaped, ExpandArg, ExpandEnds, Expanding
  <1>2. NumbersInOrder'
    BY <1>1 DEF NumbersInOrder
  <1>3. sp' \in Seq(Chars) /\ text' \in Seq(Chars) /\ ap' \in Seq(Given)
    <2>1. CASE ExpandEscaped
      <3>1. Mark(sp) + 1 \in Nat /\ Mark(sp) + 1 <= Len(sp)
        BY <2>1, MarkFound DEF ExpandEscaped, Expanding, Escaped
      <3>2. Upto(sp, Mark(sp) + 1) \in Seq(Chars) /\ After(sp, Mark(sp) + 1) \in Seq(Chars)
        BY <3>1, Parts
      <3> QED BY <2>1, <3>2 DEF ExpandEscaped
    <2>2. CASE ExpandArg
      <3>1. Mark(sp) \in Nat /\ Mark(sp) - 1 \in Nat /\ Mark(sp) <= Len(sp)
        BY <2>2, MarkFound DEF ExpandArg, Expanding
      <3>2. Upto(sp, Mark(sp) - 1) \in Seq(Chars) /\ After(sp, Mark(sp)) \in Seq(Chars)
        BY <3>1, Parts
      <3>3. ap[1] \in Given /\ Tail(ap) \in Seq(Given)
        BY <2>2, HeadTailProperties, ElementOfSeq DEF ExpandArg, Expanding
      <3>4. ap[1].sql \in Seq(Chars)
        BY <3>3 DEF Given
      <3> QED BY <2>2, <3>2, <3>3, <3>4 DEF ExpandArg
    <2>3. CASE ExpandEnds
      BY <2>3 DEF ExpandEnds
    <2> QED BY <2>1, <2>2, <2>3
  <1> QED BY <1>1, <1>2, <1>3

LEMMA SendStep == ASSUME IInv, Send PROVE IInv'
  <1> USE DEF IInv, TypeInv
  <1>1. buf = <<>> /\ i = 0 /\ i' = 0
    BY DEF Send
  <1>2. CASE args = <<>> \/ ~Positional
    <2>1. buf' = buf \o Copied(text)
      BY <1>1, <1>2, CopiedType, ConcatEmptySeq DEF Send
    <2>2. buf' \in Seq(Entry) /\ Numbered(buf', i)
      BY <2>1, CopyKeeps DEF NumbersInOrder
    <2> QED BY <1>1, <1>2, <2>2 DEF Send, exprVars, NumbersInOrder
  <1>3. CASE ~(args = <<>> \/ ~Positional)
    BY <1>1, <1>3 DEF Send, exprVars, NumbersInOrder
  <1> QED BY <1>2, <1>3

LEMMA ReplaceSteps ==
    ASSUME IInv, ReplaceEscaped \/ ReplaceMark \/ ReplaceEnds
    PROVE  IInv'
  <1> USE DEF IInv, TypeInv
  <1>1. pc = "replace" /\ pc' \in {"replace", "sent"} /\ UNCHANGED exprVars
    BY DEF ReplaceEscaped, ReplaceMark, ReplaceEnds
  <1>2. sql' \in Seq(Chars) /\ buf' \in Seq(Entry) /\ i' \in Nat /\ NumbersInOrder'
    <2>1. CASE ReplaceEscaped
      <3>1. Mark(sql) \in Nat /\ Mark(sql) + 1 \in Nat /\ Mark(sql) + 1 <= Len(sql)
        BY <2>1, MarkFound DEF ReplaceEscaped, Escaped
      <3>2. Upto(sql, Mark(sql)) \in Seq(Chars) /\ After(sql, Mark(sql) + 1) \in Seq(Chars)
        BY <3>1, Parts
      <3> QED BY <2>1, <3>2, CopyKeeps DEF ReplaceEscaped, NumbersInOrder
    <2>2. CASE ReplaceMark
      <3> DEFINE b == buf \o Copied(Upto(sql, Mark(sql) - 1))
                 e == [c |-> "$", n |-> i + 1]
      <3>1. Mark(sql) \in Nat /\ Mark(sql) - 1 \in Nat /\ Mark(sql) <= Len(sql)
        BY <2>2, MarkFound DEF ReplaceMark
      <3>2. Upto(sql, Mark(sql) - 1) \in Seq(Chars) /\ After(sql, Mark(sql)) \in Seq(Chars)
        BY <3>1, Parts
      <3>3. b \in Seq(Entry) /\ Numbered(b, i)
        BY <3>2, CopyKeeps DEF NumbersInOrder
      <3>4. e \in Entry /\ e.n = i + 1
        BY DEF Entry
      <3>5. buf' = b \o <<e>> /\ i' = i + 1 /\ sql' = After(sql, Mark(sql))
        BY <2>2 DEF ReplaceMark
      <3> HIDE DEF b, e
      <3>6. buf' \in Seq(Entry) /\ Numbered(buf', i')
        BY <3>3, <3>4, <3>5, NextNumber
      <3> QED BY <3>2, <3>5, <3>6 DEF NumbersInOrder
    <2>3. CASE ReplaceEnds
      BY <2>3, CopyKeeps DEF ReplaceEnds, NumbersInOrder
    <2> QED BY <2>1, <2>2, <2>3
  <1> QED BY <1>1, <1>2 DEF exprVars

LEMMA Inductive == IInv /\ [Next]_vars => IInv'
  <1> SUFFICES ASSUME IInv, [Next]_vars PROVE IInv'
    OBVIOUS
  <1>1. CASE UNCHANGED vars
    BY <1>1 DEF vars, IInv, TypeInv, NumbersInOrder
  <1>2. CASE Next
    BY <1>1, <1>2, ExpandSteps, SendStep, ReplaceSteps DEF Next, Sent
  <1> QED BY <1>1, <1>2

\* Types, and numbering, at every step of every statement.
THEOREM PlaceholdersInvariance == Spec => []IInv
  BY Initially, Inductive, PTL DEF Spec

\* Placeholders are numbered 1, 2, ... in order, for every text and dialect.
THEOREM PlaceholdersNumbered == Spec => []NumbersInOrder
  BY PlaceholdersInvariance, PTL DEF IInv


\* What Expr.ToSql has written and what it has not read yet mean together what
\* the Expr does; what is numbered and what is not yet, what the text does.
MeantInv == IInv /\ Sound /\ Emptied /\ Agrees

\* What DebugSqlizer shows is what is numbered, and what it shows of the rest.
ShownInv == IInv /\ Listed /\ DebugAgrees

LEMMA MeantInductive == MeantInv /\ [Next]_vars => MeantInv'
<1> SUFFICES ASSUME MeantInv, [Next]_vars PROVE MeantInv'
  OBVIOUS
<1>1. TypeInv /\ NumbersInOrder /\ IInv /\ Sound /\ Emptied /\ Agrees
  BY DEF MeantInv, IInv
<1>2. IInv'
  BY <1>1, Inductive
<1>3. Sound'
  BY <1>1, NextSound
<1>4. Emptied' /\ Agrees'
  BY <1>1, NextAgrees
<1> QED BY <1>2, <1>3, <1>4 DEF MeantInv

LEMMA ShownInductive == ShownInv /\ [Next]_vars => ShownInv'
<1> SUFFICES ASSUME ShownInv, [Next]_vars PROVE ShownInv'
  OBVIOUS
<1>1. TypeInv /\ NumbersInOrder /\ IInv /\ Listed /\ DebugAgrees
  BY DEF ShownInv, IInv
<1>2. IInv'
  BY <1>1, Inductive
<1>3. Listed'
  BY <1>1, NextListed
<1>4. DebugAgrees'
  BY <1>1, NextDebug
<1> QED BY <1>2, <1>3, <1>4 DEF ShownInv

\* The database gets the text the writer of the Expr meant, each argument at
\* the mark it was given for, whatever the texts, the Sqlizers and the
\* arguments: no escape and no mark is lost or made between Expr.ToSql and
\* replacePositionalPlaceholders.
THEOREM DriverGetsMeaning == Spec => []DriverSeesMeaning
<1>1. Init => MeantInv
  BY Initially, InitSound, InitMeant DEF MeantInv
<1>2. MeantInv => DriverSeesMeaning
  BY MeaningReached DEF MeantInv, IInv
<1> QED BY <1>1, <1>2, MeantInductive, PTL DEF Spec

\* DebugSqlizer shows what the database makes of the statement, and an error
\* exactly if arguments and numbers differ, for every text and arguments.
THEOREM DebugAgreesWithSent == Spec => []DebugShowsWhatIsSent
<1>1. Init => ShownInv
  BY Initially, InitListed, InitDebug DEF ShownInv
<1>2. ShownInv => DebugShowsWhatIsSent
  BY ShownIsSent DEF ShownInv
<1> QED BY <1>1, <1>2, ShownInductive, PTL DEF Spec
=============================================================================
