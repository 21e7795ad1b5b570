---------------------------- MODULE PagingProof ----------------------------
(* Proofs about Paging, for any ids, groups, queries, pages and sizes. *)
EXTENDS Paging, FiniteSetTheorems, SequenceTheorems, TLAPS

-----------------------------------------------------------------------------
(* Ranks: in a finite set of numbers they are 1 to its size, in order. *)

LEMMA RankType ==
    ASSUME NEW S \in SUBSET Nat, IsFiniteSet(S)
    PROVE  /\ Cardinality(S) \in Nat
           /\ \A x \in S : Rank(x, S) \in 1 .. Cardinality(S)
<1>1. Cardinality(S) \in Nat
  BY FS_CardinalityType
<1>2. ASSUME NEW x \in S PROVE Rank(x, S) \in 1 .. Cardinality(S)
  <2> DEFINE D == {y \in S : y <= x}
  <2>1. IsFiniteSet(D) /\ Cardinality(D) <= Cardinality(S)
    BY FS_Subset
  <2>2. x \in D
    OBVIOUS
  <2>3. Cardinality(D) \in Nat /\ Cardinality(D) # 0
    BY <2>1, <2>2, FS_CardinalityType, FS_EmptySet
  <2> QED BY <1>1, <2>1, <2>3 DEF Rank
<1> QED BY <1>1, <1>2

LEMMA RankOrder ==
    ASSUME NEW S \in SUBSET Nat, IsFiniteSet(S), NEW x \in S, NEW y \in S
    PROVE  x < y <=> Rank(x, S) < Rank(y, S)
<1>1. ASSUME NEW a \in S, NEW b \in S, a < b
      PROVE  Rank(a, S) < Rank(b, S)
  <2> DEFINE A == {z \in S : z <= a}
             B == {z \in S : z <= b}
  <2>0. a \in Nat /\ b \in Nat /\ \A z \in S : z \in Nat
    OBVIOUS
  <2>1. A \subseteq B /\ b \in B /\ b \notin A
    <3>1. (\A z \in S : z <= a => z <= b) /\ b <= b /\ ~(b <= a)
      BY <1>1, <2>0
    <3> QED BY <3>1
  <2>2. IsFiniteSet(A) /\ IsFiniteSet(B)
    BY FS_Subset
  <2>3. Cardinality(A) <= Cardinality(B) /\ Cardinality(A) # Cardinality(B)
    <3> HIDE DEF A, B
    <3> QED BY <2>1, <2>2, FS_Subset
  <2>4. Cardinality(A) \in Nat /\ Cardinality(B) \in Nat
    BY <2>2, FS_CardinalityType
  <2> QED BY <2>3, <2>4 DEF Rank
<1>2. Rank(x, S) \in Nat /\ Rank(y, S) \in Nat
  BY RankType
<1>3. CASE x < y
  BY <1>1, <1>3
<1>4. CASE y < x
  BY <1>1, <1>2, <1>4
<1>5. CASE x = y
  BY <1>2, <1>5
<1> QED BY <1>3, <1>4, <1>5

LEMMA RankOnto ==
    ASSUME NEW S \in SUBSET Nat, IsFiniteSet(S), NEW k \in 1 .. Cardinality(S)
    PROVE  \E x \in S : Rank(x, S) = k
<1> DEFINE N == 1 .. Cardinality(S)
           r == [x \in S |-> Rank(x, S)]
<1>1. Cardinality(S) \in Nat /\ r \in [S -> N]
  BY RankType
<1>2. IsFiniteSet(N) /\ Cardinality(N) = Cardinality(S)
  BY <1>1, FS_Interval
<1>3. ASSUME NEW a \in S, NEW b \in S, r[a] = r[b]
      PROVE  a = b
  <2>1. Rank(a, S) = Rank(b, S) /\ Rank(a, S) \in Nat
    BY <1>3, RankType
  <2>2. ~(a < b) /\ ~(b < a)
    BY <2>1, RankOrder
  <2> QED BY <2>2
<1>4. r \in Injection(S, N)
  BY <1>1, <1>3 DEF Injection, IsInjective
<1>5. r \in Surjection(S, N)
  <2> HIDE DEF N, r
  <2> QED BY <1>2, <1>4, FS_Injection
<1> QED BY <1>5 DEF Surjection

\* As many have a rank of at most k as there are ranks up to k.
LEMMA RankCount ==
    ASSUME NEW S \in SUBSET Nat, IsFiniteSet(S), NEW k \in 0 .. Cardinality(S)
    PROVE  Cardinality({y \in S : Rank(y, S) <= k}) = k
<1>1. Cardinality(S) \in Nat /\ \A y \in S : Rank(y, S) \in 1 .. Cardinality(S)
  BY RankType
<1>2. CASE k = 0
  <2>1. \A y \in S : ~(Rank(y, S) <= k)
    BY <1>1, <1>2
  <2>2. {y \in S : Rank(y, S) <= k} = {}
    BY <2>1
  <2> QED BY <1>2, <2>2, FS_EmptySet
<1>3. CASE k # 0
  <2>1. PICK x \in S : Rank(x, S) = k
    BY <1>1, <1>3, RankOnto
  <2>2. ASSUME NEW y \in S
        PROVE  Rank(y, S) <= k <=> y <= x
    <3>1. x < y <=> Rank(x, S) < Rank(y, S)
      BY RankOrder
    <3> QED BY <1>1, <2>1, <3>1
  <2>3. {y \in S : Rank(y, S) <= k} = {y \in S : y <= x}
    BY <2>2
  <2> QED BY <2>1, <2>3 DEF Rank
<1> QED BY <1>2, <1>3

-----------------------------------------------------------------------------
(* Ordered(S): S as an increasing sequence. *)

LEMMA OrderedSeq ==
    ASSUME NEW S \in SUBSET Nat, IsFiniteSet(S)
    PROVE  /\ Ordered(S) \in Seq(S)
           /\ Len(Ordered(S)) = Cardinality(S)
           /\ \A k \in 1 .. Cardinality(S) :
                Ordered(S)[k] \in S /\ Rank(Ordered(S)[k], S) = k
           /\ \A x \in S : Ordered(S)[Rank(x, S)] = x
<1> DEFINE o == Ordered(S)
<1>1. Cardinality(S) \in Nat
  BY RankType
<1>2. \A k \in 1 .. Cardinality(S) : o[k] \in S /\ Rank(o[k], S) = k
  <2> TAKE k \in 1 .. Cardinality(S)
  <2>1. \E x \in S : Rank(x, S) = k
    BY RankOnto
  <2>2. o[k] = CHOOSE x \in S : Rank(x, S) = k
    BY DEF Ordered
  <2> QED BY <2>1, <2>2
<1>3. o \in Seq(S) /\ Len(o) = Cardinality(S)
  <2>1. o \in [1 .. Cardinality(S) -> S]
    BY <1>2 DEF Ordered
  <2> HIDE DEF o
  <2> QED BY <1>1, <2>1
<1>4. ASSUME NEW x \in S PROVE o[Rank(x, S)] = x
  <2>1. Rank(x, S) \in 1 .. Cardinality(S)
    BY RankType
  <2>2. o[Rank(x, S)] \in S /\ Rank(o[Rank(x, S)], S) = Rank(x, S)
    BY <1>2, <2>1
  <2>3. ~(o[Rank(x, S)] < x) /\ ~(x < o[Rank(x, S)])
    <3> HIDE DEF o
    <3>1. /\ o[Rank(x, S)] < x <=> Rank(o[Rank(x, S)], S) < Rank(x, S)
          /\ x < o[Rank(x, S)] <=> Rank(x, S) < Rank(o[Rank(x, S)], S)
      BY <2>2, RankOrder
    <3> QED BY <2>1, <2>2, <3>1
  <2>4. o[Rank(x, S)] \in Nat /\ x \in Nat
    BY <2>2
  <2> QED BY <2>3, <2>4
<1> QED BY <1>2, <1>3, <1>4

LEMMA OrderedNat ==
    ASSUME NEW S \in SUBSET Nat, IsFiniteSet(S)
    PROVE  Ordered(S) \in Seq(Nat)
<1> DEFINE o == Ordered(S)
<1>1. Cardinality(S) \in Nat /\ \A k \in 1 .. Cardinality(S) : o[k] \in Nat
  BY RankType, OrderedSeq
<1>2. o \in [1 .. Cardinality(S) -> Nat]
  BY <1>1 DEF Ordered
<1> HIDE DEF o
<1>3. o \in Seq(Nat)
  BY <1>1, <1>2
<1> QED BY <1>3 DEF o

LEMMA OrderedIncreases ==
    ASSUME NEW S \in SUBSET Nat, IsFiniteSet(S),
           NEW j \in 1 .. Cardinality(S), NEW k \in 1 .. Cardinality(S), j < k
    PROVE  Ordered(S)[j] < Ordered(S)[k]
<1>1. Cardinality(S) \in Nat
  BY RankType
<1>2. /\ Ordered(S)[j] \in S /\ Rank(Ordered(S)[j], S) = j
      /\ Ordered(S)[k] \in S /\ Rank(Ordered(S)[k], S) = k
  BY OrderedSeq
<1>3. Ordered(S)[j] < Ordered(S)[k] <=> Rank(Ordered(S)[j], S) < Rank(Ordered(S)[k], S)
  BY <1>2, RankOrder
<1> QED BY <1>2, <1>3

\* Some consecutive ranks of S are a set of their own, ranked from 1.
LEMMA WindowRanks ==
    ASSUME NEW S \in SUBSET Nat, IsFiniteSet(S),
           NEW a \in 0 .. Cardinality(S), NEW b \in a .. Cardinality(S)
    PROVE  LET T == {x \in S : a < Rank(x, S) /\ Rank(x, S) <= b} IN
           /\ T \in SUBSET Nat /\ IsFiniteSet(T)
           /\ Cardinality(T) = b - a
           /\ \A x \in T : Rank(x, T) = Rank(x, S) - a
<1> DEFINE T == {x \in S : a < Rank(x, S) /\ Rank(x, S) <= b}
           A == {x \in S : Rank(x, S) <= a}
<1>1. Cardinality(S) \in Nat /\ \A x \in S : Rank(x, S) \in 1 .. Cardinality(S)
  BY RankType
<1>2. IsFiniteSet(A) /\ Cardinality(A) = a
  BY <1>1, RankCount, FS_Subset
\* Up to rank k: those up to rank a, and the rest.
<1>3. ASSUME NEW k \in a .. Cardinality(S)
      PROVE  LET C == {x \in S : a < Rank(x, S) /\ Rank(x, S) <= k}
             IN  IsFiniteSet(C) /\ Cardinality(C) = k - a
  <2> DEFINE C == {x \in S : a < Rank(x, S) /\ Rank(x, S) <= k}
             B == {x \in S : Rank(x, S) <= k}
  <2>1. IsFiniteSet(C) /\ IsFiniteSet(B)
    BY FS_Subset
  <2>2. Cardinality(B) = k
    BY <1>1, RankCount
  <2>3. B = A \cup C /\ A \cap C = {}
    <3>1. \A x \in S : /\ Rank(x, S) <= k
                         <=> Rank(x, S) <= a \/ (a < Rank(x, S) /\ Rank(x, S) <= k)
                      /\ ~(Rank(x, S) <= a /\ a < Rank(x, S))
      BY <1>1
    <3> QED BY <3>1
  <2>4. Cardinality(C) \in Nat
    BY <2>1, FS_CardinalityType
  <2>5. Cardinality(B) = a + Cardinality(C) - Cardinality({})
    <3> HIDE DEF A, B, C
    <3> QED BY <1>2, <2>1, <2>3, FS_Union
  <2>6. Cardinality({}) = 0
    BY FS_EmptySet
  <2> QED BY <1>1, <2>1, <2>2, <2>4, <2>5, <2>6
<1>4. T \in SUBSET Nat /\ IsFiniteSet(T) /\ Cardinality(T) = b - a
  BY <1>1, <1>3
<1>5. ASSUME NEW x \in T PROVE Rank(x, T) = Rank(x, S) - a
  <2>1. ASSUME NEW y \in S PROVE y <= x <=> Rank(y, S) <= Rank(x, S)
    <3>1. x < y <=> Rank(x, S) < Rank(y, S)
      BY RankOrder
    <3> QED BY <1>1, <3>1
  <2>2. {y \in T : y <= x} = {y \in S : a < Rank(y, S) /\ Rank(y, S) <= Rank(x, S)}
    <3>1. \A y \in S : Rank(y, S) <= Rank(x, S) => Rank(y, S) <= b
      BY <1>1
    <3> QED BY <2>1, <3>1
  <2>3. Rank(x, S) \in a .. Cardinality(S)
    BY <1>1
  <2> QED BY <1>3, <2>2, <2>3 DEF Rank
<1> QED BY <1>4, <1>5

\* The rows ranked a+1 to b, in order, are that part of all rows in order.
LEMMA Window ==
    ASSUME NEW S \in SUBSET Nat, IsFiniteSet(S), NEW a \in Nat, NEW b \in Nat, a <= b
    PROVE  Ordered({x \in S : a < Rank(x, S) /\ Rank(x, S) <= b})
             = SubSeq(Ordered(S), a + 1, IF b > Cardinality(S) THEN Cardinality(S) ELSE b)
<1> DEFINE n == Cardinality(S)
           m == IF b > n THEN n ELSE b
           T == {x \in S : a < Rank(x, S) /\ Rank(x, S) <= b}
           u == SubSeq(Ordered(S), a + 1, m)
<1>1. n \in Nat /\ \A x \in S : Rank(x, S) \in 1 .. n
  BY RankType
<1>2. CASE a >= n
  <2>1. T = {}
    <3>1. \A x \in S : ~(a < Rank(x, S))
      BY <1>1, <1>2
    <3> QED BY <3>1
  <2>2. Cardinality(T) = 0
    BY <2>1, FS_EmptySet
  <2>3. Ordered(T) = << >>
    <3> HIDE DEF T
    <3> QED BY <2>2 DEF Ordered
  <2>4. u = << >>
    BY <1>1, <1>2, SubSeqEmpty
  <2> QED BY <2>3, <2>4
<1>3. CASE a < n
  <2>1. m \in a .. n /\ a \in 0 .. n
    BY <1>1, <1>3
  <2>2. T = {x \in S : a < Rank(x, S) /\ Rank(x, S) <= m}
    <3>1. \A x \in S : Rank(x, S) <= b <=> Rank(x, S) <= m
      BY <1>1
    <3> HIDE DEF m
    <3> QED BY <3>1
  <2>3. /\ T \in SUBSET Nat /\ IsFiniteSet(T)
        /\ Cardinality(T) = m - a
        /\ \A x \in T : Rank(x, T) = Rank(x, S) - a
    <3> DEFINE U == {x \in S : a < Rank(x, S) /\ Rank(x, S) <= m}
    <3>1. /\ U \in SUBSET Nat /\ IsFiniteSet(U)
          /\ Cardinality(U) = m - a
          /\ \A x \in U : Rank(x, U) = Rank(x, S) - a
      <4> HIDE DEF m
      <4> QED BY <2>1, WindowRanks
    <3> HIDE DEF T, U
    <3> QED BY <2>2, <3>1 DEF U
  <2>4. /\ Ordered(T) \in Seq(T) /\ Len(Ordered(T)) = m - a
        /\ \A x \in T : Ordered(T)[Rank(x, T)] = x
    BY <2>3, OrderedSeq
  <2>5. /\ \A k \in 1 .. n : Ordered(S)[k] \in S /\ Rank(Ordered(S)[k], S) = k
    BY OrderedSeq
  <2>6. u \in Seq(S) /\ Len(u) = m - a /\ \A k \in 1 .. m - a : u[k] = Ordered(S)[a + k]
    <3>1. \A k \in a + 1 .. m : Ordered(S)[k] \in S
      BY <1>1, <2>1, <2>5
    <3>2. /\ u \in Seq(S)
          /\ Len(u) = IF a + 1 <= m THEN m - (a + 1) + 1 ELSE 0
          /\ \A k \in 1 .. m - (a + 1) + 1 : u[k] = Ordered(S)[a + 1 + k - 1]
      <4> HIDE DEF m
      <4> QED BY <1>1, <2>1, <3>1, SubSeqProperties
    <3> HIDE DEF m, u
    <3> QED BY <1>1, <2>1, <3>2
  <2>7. ASSUME NEW k \in 1 .. m - a
        PROVE  Ordered(T)[k] = u[k]
    <3> DEFINE x == Ordered(S)[a + k]
    <3>1. x \in S /\ Rank(x, S) = a + k
      BY <1>1, <2>1, <2>5
    <3>2. x \in T /\ Rank(x, T) = k
      <4> HIDE DEF m
      <4> QED BY <1>1, <2>1, <2>2, <2>3, <3>1
    <3> HIDE DEF T, u
    <3> QED BY <2>4, <2>6, <3>2
  <2>8. m - a \in Nat
    BY <1>1, <2>1
  <2>9. Ordered(T) \in Seq(S)
    BY <2>4
  <2> HIDE DEF T, u, m
  <2>10. Ordered(T) = u
    BY <2>4, <2>6, <2>7, <2>8, <2>9
  <2> QED BY <2>10 DEF T, u, m
<1> QED BY <1>1, <1>2, <1>3

-----------------------------------------------------------------------------
(* What a query finds *)

Queries == [distinct : BOOLEAN, groupBys : 0 .. 2, having : BOOLEAN, limit : Nat, offset : Nat]

LEMMA RowsType ==
    ASSUME NEW rows \in SUBSET Ids
    PROVE  /\ rows \in SUBSET Nat /\ IsFiniteSet(rows)
           /\ Cardinality(rows) \in Nat /\ Cardinality(rows) <= Cardinality(Ids)
<1>1. rows \in SUBSET Nat /\ Ids \in SUBSET Nat /\ IsFiniteSet(Ids)
  BY PagingAssumption
<1> QED BY <1>1, FS_Subset, FS_CardinalityType

LEMMA SelectedType ==
    ASSUME NEW rows \in SUBSET Ids, NEW q \in Queries
    PROVE  /\ Selected(q, rows) \in SUBSET Nat /\ IsFiniteSet(Selected(q, rows))
           /\ Cardinality(Selected(q, rows)) <= Cardinality(rows)
<1> DEFINE groups == {GroupOf[i] : i \in rows}
           f == [i \in rows |-> GroupOf[i]]
<1>1. rows \in SUBSET Nat /\ IsFiniteSet(rows)
  BY RowsType
<1>2. groups \in SUBSET Nat
  BY PagingAssumption
<1>3. f \in Surjection(rows, groups)
  BY DEF Surjection
<1>4. IsFiniteSet(groups) /\ Cardinality(groups) <= Cardinality(rows)
  <2> HIDE DEF f, groups
  <2> QED BY <1>1, <1>3, FS_Surjection
<1> DEFINE large == {g \in groups : Cardinality(Members(g, rows)) > 1}
           having == {i \in rows : q.having => GroupOf[i] # 0}
<1>5. large \in SUBSET groups /\ having \in SUBSET rows
  OBVIOUS
<1>6. Selected(q, rows) \in {groups, large, having}
  BY DEF Selected
<1> HIDE DEF f, groups, large, having
<1>7. /\ IsFiniteSet(large) /\ Cardinality(large) <= Cardinality(groups)
      /\ IsFiniteSet(having) /\ Cardinality(having) <= Cardinality(rows)
  BY <1>1, <1>4, <1>5, FS_Subset
<1>8. /\ Cardinality(rows) \in Nat /\ Cardinality(groups) \in Nat
      /\ Cardinality(large) \in Nat /\ Cardinality(having) \in Nat
  BY <1>1, <1>4, <1>7, FS_CardinalityType
<1>9. Cardinality(large) <= Cardinality(rows)
  BY <1>4, <1>7, <1>8
<1> QED BY <1>1, <1>2, <1>4, <1>5, <1>6, <1>7, <1>9

\* LIMIT and OFFSET are not what Selected is about.
LEMMA SelectedBare ==
    ASSUME NEW q \in Queries, NEW rows
    PROVE  /\ [q EXCEPT !.limit = None, !.offset = 0] \in Queries
           /\ Selected([q EXCEPT !.limit = None, !.offset = 0], rows) = Selected(q, rows)
BY DEF Queries, Selected, None

\* Without LIMIT and OFFSET a query finds all it selects.
LEMMA FoundAll ==
    ASSUME NEW rows \in SUBSET Ids, NEW q \in Queries, q.limit = None, q.offset = 0
    PROVE  /\ Found(q, rows) = Ordered(Selected(q, rows))
           /\ Len(Found(q, rows)) = Cardinality(Selected(q, rows))
<1> DEFINE all == Ordered(Selected(q, rows))
<1>1. all \in Seq(Selected(q, rows)) /\ Len(all) = Cardinality(Selected(q, rows))
  BY SelectedType, OrderedSeq
<1>2. SubSeq(all, 1, Len(all)) = all
  <2> HIDE DEF all
  <2> QED BY <1>1, SubSeqFull
<1>3. Found(q, rows) = SubSeq(all, 1, Len(all))
  BY DEF Found
<1> QED BY <1>1, <1>2, <1>3

\* With them it finds a window of it.
LEMMA FoundWindow ==
    ASSUME NEW rows \in SUBSET Ids, NEW q \in Queries, q.limit # None
    PROVE  Found(q, rows) =
             Ordered({x \in Selected(q, rows) : /\ q.offset < Rank(x, Selected(q, rows))
                                                /\ Rank(x, Selected(q, rows)) <= q.offset + q.limit})
<1> DEFINE S == Selected(q, rows)
           a == q.offset
           b == q.offset + q.limit
<1>1. S \in SUBSET Nat /\ IsFiniteSet(S)
  BY SelectedType
<1>2. a \in Nat /\ b \in Nat /\ a <= b
  BY DEF Queries
<1>3. Len(Ordered(S)) = Cardinality(S)
  BY <1>1, OrderedSeq
<1>4. Found(q, rows) = SubSeq(Ordered(S), a + 1, IF b > Cardinality(S) THEN Cardinality(S) ELSE b)
  BY <1>3 DEF Found
<1>5. Ordered({x \in S : a < Rank(x, S) /\ Rank(x, S) <= b})
        = SubSeq(Ordered(S), a + 1, IF b > Cardinality(S) THEN Cardinality(S) ELSE b)
  <2> HIDE DEF S, a, b
  <2> QED BY <1>1, <1>2, Window
<1> QED BY <1>4, <1>5

\* The page arithmetic, as long as it fits.
LEMMA PageBounds ==
    ASSUME NEW p \in Nat \ {0}, NEW s \in Nat
    PROVE  /\ (p - 1) * s \in Nat /\ p * s \in Nat /\ (p - 1) * s + s = p * s
           /\ OffsetOf(p, s) \in Nat
           /\ (p - 1) * s < W => OffsetOf(p, s) = (p - 1) * s
<1>1. W \in Nat \ {0}
  BY PagingAssumption
<1>2. (p - 1) * s \in Nat /\ p * s \in Nat /\ (p - 1) * s + s = p * s
  OBVIOUS
<1>3. \A k \in Nat : k % W \in Nat /\ (k < W => k % W = k)
  BY <1>1
<1> QED BY <1>2, <1>3 DEF OffsetOf

\* Wrapping makes an offset smaller.
LEMMA OffsetBound ==
    ASSUME NEW p \in Nat \ {0}, NEW s \in Nat
    PROVE  OffsetOf(p, s) <= (p - 1) * s
<1>1. W \in Nat \ {0} /\ (p - 1) * s \in Nat
  BY PagingAssumption, PageBounds
<1>2. \A k \in Nat : k % W <= k
  BY <1>1
<1> QED BY <1>1, <1>2 DEF OffsetOf

LEMMA FoundOfPage ==
    ASSUME NEW rows \in SUBSET Ids, NEW q \in Queries,
           NEW p \in Nat \ {0}, NEW s \in Nat \ {0},
           q.limit = s, q.offset = OffsetOf(p, s), (p - 1) * s < W
    PROVE  Found(q, rows) = OfPage(p, s, Selected(q, rows))
<1>1. q.offset = (p - 1) * s /\ q.offset + q.limit = p * s
  BY PageBounds
<1>2. q.limit # None
  BY DEF None
<1> QED BY <1>1, <1>2, FoundWindow DEF OfPage

-----------------------------------------------------------------------------
(* The invariant of the pages *)

Answers == [list : Seq(Nat), total : Nat, err : BOOLEAN]
Walks == [next : Nat, size : Nat, rows : Seq(Nat), from : SUBSET Ids, over : BOOLEAN]

TypeInv ==
    /\ pc \in {"idle", "count", "find"}
    /\ query \in Queries
    /\ table \in SUBSET Ids /\ counted \in SUBSET Ids
    /\ lastId \in Nat /\ page \in Nat /\ size \in Nat /\ offset \in Nat /\ count \in Nat
    /\ answer \in Answers
    /\ walk \in Walks
    /\ removed \in SUBSET {"limit", "offset"}

\* The statement keeps the page asked for last, less what was removed since.
RequestInv ==
    /\ pc \in {"count", "find"} => removed = {}
    /\ removed = {} => /\ page \in (Pages \ {0}) \cup {1} /\ size \in Sizes \ {0}
                       /\ offset = OffsetOf(page, size)
                       /\ query.limit = size /\ query.offset = offset
    /\ "limit" \in removed => query.limit = None
    /\ "offset" \in removed => query.offset = 0

PageInv ==
    /\ TypeInv
    /\ RequestInv
    /\ pc = "find" => offset < count
    /\ TotalIsLength

LEMMA WalkType ==
    /\ NoWalk \in Walks
    /\ \A s \in Nat : table \in SUBSET Ids => NewWalk(s) \in Walks
    /\ walk \in Walks =>
         /\ [walk EXCEPT !.over = TRUE] \in Walks
         /\ [walk EXCEPT !.from = {}] \in Walks
         /\ \A more \in Seq(Nat) : [walk EXCEPT !.next = @ + 1, !.rows = @ \o more] \in Walks
<1>1. << >> \in Seq(Nat)
  OBVIOUS
<1>2. NoWalk \in Walks
  BY <1>1 DEF NoWalk, Walks
<1>3. ASSUME NEW s \in Nat, table \in SUBSET Ids PROVE NewWalk(s) \in Walks
  BY <1>1, <1>3 DEF NewWalk, Walks
<1>4. ASSUME walk \in Walks
      PROVE  [walk EXCEPT !.over = TRUE] \in Walks /\ [walk EXCEPT !.from = {}] \in Walks
  BY <1>4 DEF Walks
<1>5. ASSUME walk \in Walks, NEW more \in Seq(Nat)
      PROVE  [walk EXCEPT !.next = @ + 1, !.rows = @ \o more] \in Walks
  <2>1. walk.rows \o more \in Seq(Nat) /\ walk.next + 1 \in Nat
    BY <1>5 DEF Walks
  <2> QED BY <1>5, <2>1 DEF Walks
<1> QED BY <1>2, <1>3, <1>4, <1>5

LEMMA AnswerType ==
    /\ << >> \in Seq(Nat)
    /\ \A list \in Seq(Nat), total \in Nat, err \in BOOLEAN :
         [list |-> list, total |-> total, err |-> err] \in Answers
BY DEF Answers

LEMMA ArgumentsType ==
    ASSUME NEW p \in (Pages \ {0}) \cup {1}, NEW s \in Sizes \ {0}
    PROVE  p \in Nat \ {0} /\ s \in Nat \ {0}
BY PagingAssumption

LEMMA FoundType ==
    ASSUME NEW rows \in SUBSET Ids, NEW q \in Queries
    PROVE  Found(q, rows) \in Seq(Nat)
<1> DEFINE all == Ordered(Selected(q, rows))
           last == IF q.limit = None \/ q.offset + q.limit > Len(all)
                   THEN Len(all) ELSE q.offset + q.limit
<1>1. all \in Seq(Nat)
  BY SelectedType, OrderedNat
<1>2. q.offset + 1 \in Int /\ last \in Int /\ last <= Len(all) /\ q.offset + 1 >= 1
  <2> HIDE DEF all
  <2> QED BY <1>1 DEF Queries
<1>3. SubSeq(all, q.offset + 1, last) \in Seq(Nat)
  <2> HIDE DEF all, last
  <2>1. \A i \in q.offset + 1 .. last : all[i] \in Nat
    BY <1>1, <1>2
  <2> QED BY <1>2, <2>1, SubSeqProperties
<1> QED BY <1>3 DEF Found

\* A count is a number, and the length of the whole list with the exceptions there are.
LEMMA CountedType ==
    ASSUME NEW rows \in SUBSET Ids, NEW q \in Queries
    PROVE  \E n \in Nat : Counted(ToCountBuilder(q), rows) = <<n>> /\ Totals(q, rows, n)
<1> DEFINE bare == [q EXCEPT !.limit = None, !.offset = 0]
           c == Counted(ToCountBuilder(q), rows)
           groups == {GroupOf[i] : i \in rows}
           all == Cardinality(Selected(q, rows))
<1>1. bare \in Queries /\ Selected(bare, rows) = Selected(q, rows)
  BY SelectedBare
<1>2. Cardinality(rows) \in Nat /\ IsFiniteSet(rows) /\ all \in Nat /\ all <= Cardinality(rows)
  BY RowsType, SelectedType, FS_CardinalityType
<1>3. CASE q.groupBys = 0
  <2>1. c = <<Cardinality(rows)>>
    BY <1>3 DEF ToCountBuilder, Counted
  <2>2. ~LeavesNullOut(q, rows)
    BY <1>3 DEF LeavesNullOut
  <2>3. ~CountsAllRows(q) => Selected(q, rows) = rows
    <3> SUFFICES ASSUME ~CountsAllRows(q) PROVE Selected(q, rows) = rows
      OBVIOUS
    <3>1. ~q.distinct /\ ~q.having
      BY <1>3 DEF CountsAllRows
    <3> QED BY <1>3, <3>1 DEF Selected
  <2>4. Cardinality(rows) >= all
    BY <1>2
  <2>5. Totals(q, rows, Cardinality(rows))
    BY <2>2, <2>3, <2>4 DEF Totals
  <2> QED BY <1>2, <2>1, <2>5, Zenon
<1>4. CASE q.groupBys = 1 /\ ~q.having
  <2>1. c = <<Cardinality(groups \ {0})>>
    BY <1>4 DEF ToCountBuilder, Counted
  <2>2. Selected(q, rows) = groups
    BY <1>4 DEF Selected
  <2>3. IsFiniteSet(groups) /\ groups \ {0} \in SUBSET groups
    BY <2>2, SelectedType
  <2>4. Cardinality(groups \ {0}) \in Nat
    BY <2>3, FS_Subset, FS_CardinalityType
  <2>5. ~CountsAllRows(q) /\ (LeavesNullOut(q, rows) <=> 0 \in groups)
    BY <1>4 DEF CountsAllRows, LeavesNullOut
  <2> HIDE DEF groups
  <2>6. Cardinality(groups \ {0}) = IF 0 \in groups THEN all - 1 ELSE all
    BY <2>2, <2>3, FS_RemoveElement
  <2>7. Totals(q, rows, Cardinality(groups \ {0}))
    BY <2>5, <2>6 DEF Totals
  <2> QED BY <2>1, <2>4, <2>7, Zenon
<1>5. CASE q.groupBys # 0 /\ ~(q.groupBys = 1 /\ ~q.having)
  <2>1. c = <<Len(Found(bare, rows))>>
    BY <1>5 DEF ToCountBuilder, Counted
  <2>2. Len(Found(bare, rows)) = Cardinality(Selected(bare, rows))
    BY <1>1, FoundAll DEF Queries
  <2>3. ~CountsAllRows(q) /\ ~LeavesNullOut(q, rows)
    BY <1>5 DEF CountsAllRows, LeavesNullOut
  <2>4. Len(Found(bare, rows)) = all
    BY <1>1, <2>2
  <2>5. Totals(q, rows, Len(Found(bare, rows)))
    BY <2>3, <2>4 DEF Totals
  <2>6. Len(Found(bare, rows)) \in Nat
    BY <1>2, <2>4
  <2> QED BY <2>1, <2>5, <2>6, Zenon
<1> QED BY <1>3, <1>4, <1>5

\* The last id of the rows there are at first.
LEMMA FirstLastId ==
    ASSUME NEW rows \in SUBSET Ids
    PROVE  LET last == IF rows = {} THEN 0 ELSE CHOOSE i \in rows : \A j \in rows : j <= i
           IN  last \in Nat /\ \A i \in rows : i <= last
<1>1. rows \in SUBSET Nat /\ IsFiniteSet(rows) /\ Cardinality(rows) \in Nat
  BY RowsType
<1>2. CASE rows = {}
  BY <1>2
<1>3. CASE rows # {}
  <2>1. Cardinality(rows) # 0
    BY <1>1, <1>3, FS_EmptySet
  <2>2. Cardinality(rows) \in 1 .. Cardinality(rows)
    BY <1>1, <2>1
  <2>3. PICK i \in rows : Rank(i, rows) = Cardinality(rows)
    BY <1>1, <2>2, RankOnto
  <2>4. \A j \in rows : ~(i < j)
    BY <1>1, <2>3, RankOrder, RankType
  <2>5. \A j \in rows : j <= i
    BY <1>1, <2>4
  <2> QED BY <1>1, <1>3, <2>5
<1> QED BY <1>2, <1>3

LEMMA InitPageInv == Init => PageInv
<1> SUFFICES ASSUME Init PROVE PageInv
  OBVIOUS
<1>1. query \in Queries /\ query.limit = None /\ query.offset = 0
  BY PagingAssumption DEF Init, Query, Queries, None
<1>2. lastId \in Nat
  BY FirstLastId DEF Init
<1>3. answer \in Answers /\ walk \in Walks
  BY AnswerType, WalkType DEF Init, Idle
<1> QED BY <1>1, <1>2, <1>3 DEF Init, PageInv, TypeInv, RequestInv, TotalIsLength

LEMMA NextPageInv == PageInv /\ [Next]_vars => PageInv'
<1> SUFFICES ASSUME PageInv, [Next]_vars PROVE PageInv'
  OBVIOUS
<1> USE DEF PageInv, TypeInv
<1>1. CASE PageOfNothing
  <2>1. answer' \in Answers /\ walk' \in Walks
    BY <1>1, WalkType, AnswerType DEF PageOfNothing, Return
  <2> QED BY <1>1, <2>1 DEF PageOfNothing, Return, RequestInv, TotalIsLength
<1>2. CASE Page
  <2>1. PICK p \in Pages, s \in Sizes \ {0} :
            /\ page' = IF p = 0 THEN 1 ELSE p
            /\ size' = s
            /\ offset' = OffsetOf(page', s)
            /\ query' = [query EXCEPT !.limit = s, !.offset = offset']
            /\ walk' = IF page' = 1 THEN NewWalk(s)
                       ELSE IF walk.next = page' /\ walk.size = s THEN walk
                       ELSE NoWalk
    BY <1>2 DEF Page
  <2>2. page' \in (Pages \ {0}) \cup {1}
    BY <2>1
  <2>3. page' \in Nat \ {0} /\ s \in Nat \ {0}
    BY <2>2, ArgumentsType
  <2>4. offset' \in Nat
    BY <2>1, <2>3, PageBounds
  <2>5. query' \in Queries /\ query'.limit = s /\ query'.offset = offset'
    BY <2>1, <2>3, <2>4 DEF Queries
  <2>6. walk' \in Walks
    BY <2>1, <2>3, WalkType
  <2> QED BY <1>2, <2>1, <2>2, <2>3, <2>4, <2>5, <2>6 DEF Page, RequestInv, TotalIsLength
<1>3. CASE Count
  <2> DEFINE c == Counted(ToCountBuilder(query), table)
  <2>1. c # << >> /\ c[1] \in Nat /\ Totals(query, table, c[1])
    <3>1. PICK n \in Nat : c = <<n>> /\ Totals(query, table, n)
      BY CountedType
    <3>2. c[1] = n /\ c # << >>
      BY <3>1
    <3> QED BY <3>1, <3>2
  <2>2. /\ pc = "count" /\ count' = c[1] /\ counted' = table
        /\ \/ pc' = "idle" /\ (answer' = [list |-> << >>, total |-> 0, err |-> FALSE]
                               \/ answer' = [list |-> << >>, total |-> count', err |-> FALSE])
           \/ pc' = "find" /\ ~(offset >= count') /\ answer' = answer
        /\ walk' = IF pc' = "idle" /\ walk.next # 0 THEN [walk EXCEPT !.over = TRUE] ELSE walk
        /\ UNCHANGED <<query, table, lastId, page, size, offset, removed, calls, changes>>
    <3> HIDE DEF c
    <3> QED BY <1>3, <2>1 DEF Count, Return, c
  <2> HIDE DEF c
  <2>3. answer' \in Answers /\ walk' \in Walks
    <3>1. answer' \in Answers
      BY <2>1, <2>2, AnswerType
    <3>2. walk' \in Walks
      BY <2>2, WalkType
    <3> QED BY <3>1, <3>2
  <2>4. RequestInv' /\ (pc' = "find" => offset' < count')
    BY <2>1, <2>2 DEF RequestInv
  <2>5. TotalIsLength'
    <3>1. query' = query /\ counted' = table /\ count' = c[1]
      BY <2>2
    <3>2. Totals(query', counted', count')
      BY <2>1, <3>1
    <3> QED BY <3>2 DEF TotalIsLength
  <2> QED BY <2>1, <2>2, <2>3, <2>4, <2>5
<1>4. CASE CountFails \/ PageFindFails
  <2>1. answer' \in Answers /\ walk' \in Walks
    BY <1>4, WalkType, AnswerType DEF CountFails, PageFindFails, Return
  <2> QED BY <1>4, <2>1 DEF CountFails, PageFindFails, Return, RequestInv, TotalIsLength
<1>5. CASE PageFind
  <2>1. Found(query, table) \in Seq(Nat)
    BY FoundType
  <2>2. answer' \in Answers
    BY <1>5, <2>1, AnswerType DEF PageFind, Return
  <2>3. walk' \in Walks
    BY <1>5, <2>1, WalkType DEF PageFind
  <2> QED BY <1>5, <2>2, <2>3 DEF PageFind, Return, RequestInv, TotalIsLength
<1>6. CASE Find
  <2>1. Found(query, table) \in Seq(Nat)
    BY FoundType
  <2>2. answer' \in Answers /\ walk' \in Walks
    BY <1>6, <2>1, WalkType, AnswerType DEF Find, Return
  <2> QED BY <1>6, <2>2 DEF Find, Return, RequestInv, TotalIsLength
<1>7. CASE RemoveLimit
  <2>1. query' \in Queries /\ query'.limit = None /\ query'.offset = query.offset /\ walk' \in Walks
    BY <1>7, WalkType DEF RemoveLimit, Queries, None
  <2> QED BY <1>7, <2>1 DEF RemoveLimit, RequestInv, TotalIsLength
<1>8. CASE RemoveOffset
  <2>1. query' \in Queries /\ query'.offset = 0 /\ query'.limit = query.limit /\ walk' \in Walks
    BY <1>8, WalkType DEF RemoveOffset, RemovedOffset, Queries
  <2> QED BY <1>8, <2>1 DEF RemoveOffset, RequestInv, TotalIsLength
<1>9. CASE InsertRow
  BY <1>9 DEF InsertRow, RequestInv, TotalIsLength
<1>10. CASE DeleteRow
  <2>1. walk' \in Walks /\ table' \in SUBSET Ids
    BY <1>10 DEF DeleteRow, Walks
  <2> QED BY <1>10, <2>1 DEF DeleteRow, RequestInv, TotalIsLength
<1>11. CASE UNCHANGED vars
  BY <1>11 DEF vars, RequestInv, TotalIsLength
<1> QED BY <1>1, <1>2, <1>3, <1>4, <1>5, <1>6, <1>7, <1>8, <1>9, <1>10, <1>11 DEF Next

THEOREM PageInvHolds == Spec => []PageInv
<1> QED BY InitPageInv, NextPageInv, PTL DEF Spec

\* The total of a page is the number of rows the statement selects without its
\* page at the moment of the count (ToCountBuilder), except that for DISTINCT and
\* for HAVING without GROUP BY it may be larger (never smaller), and that a group
\* NULL of a single grouping column is missing from it.
THEOREM TotalsAreLengths == Spec => []TotalIsLength
<1>1. PageInv => TotalIsLength
  BY DEF PageInv
<1> QED BY <1>1, PageInvHolds, PTL

\* What a page shows is its window of what the statement selects
\* (QueryModelStmt.Page), after any earlier calls and among any other clients.
THEOREM PagesAreWindows == Spec => PageIsWindow
<1> DEFINE Shows ==
      pc = "find" /\ pc' = "idle" /\ ~answer'.err /\ (page - 1) * size < W
        => answer'.list = OfPage(page, size, Selected(query, table))
<1>1. ASSUME PageInv, Next, pc = "find", pc' = "idle", ~answer'.err, (page - 1) * size < W
      PROVE  answer'.list = OfPage(page, size, Selected(query, table))
  <2> USE DEF PageInv, TypeInv
  <2>1. PageFind
    BY <1>1 DEF Next, PageOfNothing, Page, Count, CountFails, PageFindFails, Return,
                Find, RemoveLimit, RemoveOffset, InsertRow, DeleteRow
  <2>2. answer'.list = Found(query, table)
    BY <2>1 DEF PageFind, Return
  <2>3. /\ page \in (Pages \ {0}) \cup {1} /\ size \in Sizes \ {0}
        /\ query.limit = size /\ query.offset = OffsetOf(page, size)
    BY <1>1 DEF RequestInv
  <2>4. page \in Nat \ {0} /\ size \in Nat \ {0}
    BY <2>3, ArgumentsType
  <2> QED BY <1>1, <2>2, <2>3, <2>4, FoundOfPage
<1>2. PageInv /\ [Next]_vars => [Shows]_vars
  BY <1>1
<1> HIDE DEF Shows
<1>3. Spec => [][Shows]_vars
  BY <1>2, PageInvHolds, PTL DEF Spec
<1> QED BY <1>3 DEF PageIsWindow, Shows

\* A Find of a statement that was paged shows the page asked for last, and
\* everything once LIMIT and OFFSET were both removed (QueryModelStmt.Find,
\* RemoveLimit, RemoveOffset).
THEOREM FindsAreLastPages == Spec => FindIsLastPage
<1> DEFINE Shows ==
      Find /\ ~answer'.err
        => /\ removed = {"limit", "offset"} => answer'.list = Ordered(Selected(query, table))
           /\ removed = {} /\ (page - 1) * size < W
                => answer'.list = OfPage(page, size, Selected(query, table))
<1>1. ASSUME PageInv, Find, ~answer'.err
      PROVE  /\ removed = {"limit", "offset"} => answer'.list = Ordered(Selected(query, table))
             /\ removed = {} /\ (page - 1) * size < W
                  => answer'.list = OfPage(page, size, Selected(query, table))
  <2> USE DEF PageInv, TypeInv
  <2>1. answer'.list = Found(query, table)
    BY <1>1 DEF Find, Return
  <2>2. ASSUME removed = {"limit", "offset"}
        PROVE  answer'.list = Ordered(Selected(query, table))
    <3>1. query.limit = None /\ query.offset = 0
      BY <1>1, <2>2 DEF RequestInv
    <3> QED BY <1>1, <2>1, <3>1, FoundAll
  <2>3. ASSUME removed = {}, (page - 1) * size < W
        PROVE  answer'.list = OfPage(page, size, Selected(query, table))
    <3>1. /\ page \in (Pages \ {0}) \cup {1} /\ size \in Sizes \ {0}
          /\ query.limit = size /\ query.offset = OffsetOf(page, size)
      BY <1>1, <2>3 DEF RequestInv
    <3>2. page \in Nat \ {0} /\ size \in Nat \ {0}
      BY <3>1, ArgumentsType
    <3> QED BY <1>1, <2>1, <2>3, <3>1, <3>2, FoundOfPage
  <2> QED BY <2>2, <2>3
<1>2. PageInv /\ [Next]_vars => [Shows]_vars
  BY <1>1
<1> HIDE DEF Shows
<1>3. Spec => [][Shows]_vars
  BY <1>2, PageInvHolds, PTL DEF Spec
<1> QED BY <1>3 DEF FindIsLastPage, Shows

-----------------------------------------------------------------------------
(* The walk over the pages of a plain query *)

\* (page - 1) * size fits a uint64 on every page after one that had rows.
NoWrap == \A p \in Pages \ {0, 1}, s \in Sizes :
            (p - 2) * s < Cardinality(Ids) => (p - 1) * s < W

\* So it is if the table has at most 2^63 rows.
LEMMA HalfIsEnough ==
    ASSUME 2 * Cardinality(Ids) <= W
    PROVE  NoWrap
<1> SUFFICES ASSUME NEW p \in Pages \ {0, 1}, NEW s \in Sizes, (p - 2) * s < Cardinality(Ids)
             PROVE  (p - 1) * s < W
  BY DEF NoWrap
<1>1. p \in Nat /\ p >= 2 /\ s \in Nat /\ s < W /\ W \in Nat
  BY PagingAssumption
<1>2. Cardinality(Ids) \in Nat
  BY RowsType
<1>3. CASE p = 2
  BY <1>1, <1>3
<1>4. CASE p > 2
  <2>1. PICK k \in Nat : p = k + 3
    BY <1>1, <1>4
  <2>2. (p - 2) * s = k * s + s /\ (p - 1) * s = k * s + s + s /\ k * s \in Nat
    BY <1>1, <2>1
  <2>3. (p - 1) * s <= 2 * ((p - 2) * s)
    <3> DEFINE m == k * s
    <3>1. m \in Nat /\ (p - 2) * s = m + s /\ (p - 1) * s = m + s + s
      BY <2>2
    <3> HIDE DEF m
    <3> QED BY <1>1, <3>1
  <2>4. (p - 2) * s \in Nat /\ (p - 1) * s \in Nat
    BY <1>1
  <2> QED BY <1>1, <1>2, <2>3, <2>4
<1> QED BY <1>1, <1>3, <1>4

LEMMA RankMonotone ==
    ASSUME NEW S \in SUBSET Nat, IsFiniteSet(S), NEW x \in Nat, NEW y \in Nat, x <= y
    PROVE  Rank(x, S) \in Nat /\ Rank(y, S) \in Nat /\ Rank(x, S) <= Rank(y, S)
<1> DEFINE A == {z \in S : z <= x}
           B == {z \in S : z <= y}
<1>1. A \in SUBSET B
  <2>1. \A z \in S : z <= x => z <= y
    OBVIOUS
  <2> QED BY <2>1
<1>2. IsFiniteSet(A) /\ IsFiniteSet(B)
  BY FS_Subset
<1>3. Cardinality(A) <= Cardinality(B) /\ Cardinality(A) \in Nat /\ Cardinality(B) \in Nat
  <2> HIDE DEF A, B
  <2> QED BY <1>1, <1>2, FS_Subset, FS_CardinalityType
<1> QED BY <1>3 DEF Rank

\* A row that goes away lowers ranks, one that comes last leaves them.
LEMMA RankChanges ==
    ASSUME NEW S \in SUBSET Nat, IsFiniteSet(S), NEW x \in Nat, NEW i \in Nat
    PROVE  /\ Rank(x, S \ {i}) \in Nat /\ Rank(x, S) \in Nat
           /\ Rank(x, S \ {i}) <= Rank(x, S)
           /\ x < i => Rank(x, S \cup {i}) = Rank(x, S)
<1> DEFINE A == {z \in S \ {i} : z <= x}
           B == {z \in S : z <= x}
<1>1. A \in SUBSET B
  OBVIOUS
<1>2. IsFiniteSet(A) /\ IsFiniteSet(B)
  BY FS_Subset
<1>3. Cardinality(A) <= Cardinality(B) /\ Cardinality(A) \in Nat /\ Cardinality(B) \in Nat
  <2> HIDE DEF A, B
  <2> QED BY <1>1, <1>2, FS_Subset, FS_CardinalityType
<1>4. ASSUME x < i PROVE {z \in S \cup {i} : z <= x} = B
  <2>1. ~(i <= x)
    BY <1>4
  <2> QED BY <2>1
<1> QED BY <1>3, <1>4 DEF Rank

Increasing(s) == \A i, j \in DOMAIN s : i < j => s[i] < s[j]

\* A sequence goes on with numbers that are greater than its own.
LEMMA OrderedAppended ==
    ASSUME NEW rows \in Seq(Nat), Increasing(rows), NEW T \in SUBSET Nat, IsFiniteSet(T),
           \A x \in ToSet(rows), y \in T : x < y
    PROVE  Increasing(rows \o Ordered(T)) /\ ToSet(rows \o Ordered(T)) = ToSet(rows) \cup T
<1> DEFINE more == Ordered(T)
           all == rows \o more
<1>1. /\ more \in Seq(T) /\ Len(more) = Cardinality(T) /\ Cardinality(T) \in Nat
      /\ \A k \in 1 .. Cardinality(T) : more[k] \in T
      /\ \A x \in T : more[Rank(x, T)] = x /\ Rank(x, T) \in 1 .. Cardinality(T)
      /\ \A i, j \in 1 .. Cardinality(T) : i < j => more[i] < more[j]
  BY OrderedSeq, OrderedIncreases, RankType
<1>2. more \in Seq(Nat)
  BY OrderedNat
<1>3. /\ all \in Seq(Nat) /\ DOMAIN all = 1 .. Len(rows) + Len(more)
      /\ \A i \in DOMAIN all : all[i] = IF i <= Len(rows) THEN rows[i] ELSE more[i - Len(rows)]
  <2> HIDE DEF more
  <2> QED BY <1>2
<1>4. /\ Len(rows) \in Nat /\ DOMAIN rows = 1 .. Len(rows)
      /\ \A i \in DOMAIN all : /\ i \in Nat
                               /\ i <= Len(rows) => i \in DOMAIN rows /\ all[i] = rows[i]
                               /\ i > Len(rows) => /\ i - Len(rows) \in 1 .. Cardinality(T)
                                                   /\ all[i] = more[i - Len(rows)]
  <2> HIDE DEF all, more
  <2> QED BY <1>1, <1>3
<1>5. Increasing(all)
  <2> SUFFICES ASSUME NEW i \in DOMAIN all, NEW j \in DOMAIN all, i < j
               PROVE  all[i] < all[j]
    BY DEF Increasing
  <2> HIDE DEF all, more
  <2>1. CASE j <= Len(rows)
    BY <1>4, <2>1 DEF Increasing
  <2>2. CASE i <= Len(rows) /\ j > Len(rows)
    <3>1. rows[i] \in ToSet(rows)
      BY <1>4, <2>2 DEF ToSet
    <3>2. more[j - Len(rows)] \in T
      BY <1>1, <1>4, <2>2
    <3> QED BY <1>4, <2>2, <3>1, <3>2
  <2>3. CASE i > Len(rows)
    <3>1. i - Len(rows) \in 1 .. Cardinality(T) /\ j - Len(rows) \in 1 .. Cardinality(T)
      BY <1>4, <2>3
    <3> QED BY <1>1, <1>4, <2>3, <3>1
  <2> QED BY <1>4, <2>1, <2>2, <2>3
<1>6. ToSet(all) = ToSet(rows) \cup T
  <2> HIDE DEF all, more
  <2>1. ASSUME NEW x \in ToSet(all) PROVE x \in ToSet(rows) \cup T
    <3>1. PICK i \in DOMAIN all : x = all[i]
      BY DEF ToSet
    <3>2. CASE i <= Len(rows)
      BY <1>4, <3>1, <3>2 DEF ToSet
    <3>3. CASE i > Len(rows)
      BY <1>1, <1>4, <3>1, <3>3
    <3> QED BY <1>4, <3>2, <3>3
  <2>2. ASSUME NEW x \in ToSet(rows) PROVE x \in ToSet(all)
    <3>1. PICK i \in DOMAIN rows : x = rows[i]
      BY DEF ToSet
    <3>2. i \in DOMAIN all /\ i <= Len(rows)
      BY <1>1, <1>3
    <3> QED BY <1>3, <3>1, <3>2 DEF ToSet
  <2>3. ASSUME NEW x \in T PROVE x \in ToSet(all)
    <3>1. Rank(x, T) \in 1 .. Len(more) /\ more[Rank(x, T)] = x
      BY <1>1
    <3>2. ASSUME NEW k \in 1 .. Len(more)
          PROVE  Len(rows) + k \in DOMAIN all /\ all[Len(rows) + k] = more[k]
      <4> DEFINE i == Len(rows) + k
      <4>1. i \in 1 .. Len(rows) + Len(more) /\ i > Len(rows) /\ i - Len(rows) = k
        BY <1>1, <1>4
      <4> HIDE DEF i
      <4>2. i \in DOMAIN all /\ all[i] = more[k]
        BY <1>3, <1>4, <4>1
      <4> QED BY <4>2 DEF i
    <3> QED BY <3>1, <3>2 DEF ToSet
  <2> QED BY <2>1, <2>2, <2>3
<1> QED BY <1>5, <1>6

\* Rows up to rank a of S were met, now come those ranked up to b.
LEMMA WalkGoesOn ==
    ASSUME NEW S \in SUBSET Nat, IsFiniteSet(S), NEW rows \in Seq(Nat), Increasing(rows),
           NEW a \in Nat, NEW b \in Nat, a <= b,
           \A x \in ToSet(rows) : Rank(x, S) <= a,
           NEW T, T = {x \in S : a < Rank(x, S) /\ Rank(x, S) <= b}
    PROVE  Increasing(rows \o Ordered(T)) /\ ToSet(rows \o Ordered(T)) = ToSet(rows) \cup T
<1>1. T \in SUBSET Nat /\ IsFiniteSet(T)
  BY FS_Subset
<1>2. ASSUME NEW x \in ToSet(rows), NEW y \in T
      PROVE  x < y
  <2>1. x \in Nat /\ y \in Nat
    BY <1>1 DEF ToSet
  <2>2. Rank(x, S) <= a /\ a < Rank(y, S)
    OBVIOUS
  <2>3. y <= x => Rank(y, S) <= Rank(x, S)
    BY <2>1, RankMonotone
  <2>4. Rank(x, S) \in Nat /\ Rank(y, S) \in Nat
    BY <2>1, RankMonotone
  <2> QED BY <2>1, <2>2, <2>3, <2>4
<1> QED BY <1>1, <1>2, OrderedAppended

Plain == query.groupBys = 0 /\ ~query.distinct /\ ~query.having

\* The ranks the walk has passed.
Done == (walk.next - 1) * walk.size

\* Rows come with higher and higher ids.
LastInv ==
    /\ \A i \in table : i <= lastId
    /\ \A x \in ToSet(walk.rows) : x <= lastId

\* The page of a call is the next of the walk, if there is one.
NextInv ==
    /\ pc \in {"count", "find"} /\ walk.next # 0 => walk.next = page /\ walk.size = size
    /\ walk.next > 1 => (walk.next - 2) * walk.size < Cardinality(Ids)

\* The rows of the walk have the ranks it passed; of the rows it began with
\* all with such a rank were met.
SeenInv ==
    walk.next # 0 =>
        /\ walk.from \subseteq table
        /\ \A x \in ToSet(walk.rows) : Rank(x, table) <= Done
        /\ \A x \in walk.from : Rank(x, table) <= Done => x \in ToSet(walk.rows)

WalkInv ==
    Plain => /\ LastInv /\ NextInv /\ SeenInv
             /\ Increasing(walk.rows)
             /\ walk.over => walk.from \subseteq ToSet(walk.rows)

LEMMA InitWalkInv == Init => WalkInv
<1> SUFFICES ASSUME Init PROVE WalkInv
  OBVIOUS
<1>1. \A i \in table : i <= lastId
  BY FirstLastId DEF Init
<1>2. walk = NoWalk /\ walk.rows = << >> /\ walk.next = 0 /\ ~walk.over
  BY DEF Init, NoWalk
<1>3. ToSet(walk.rows) = {} /\ Increasing(walk.rows)
  BY <1>2 DEF ToSet, Increasing
<1> QED BY <1>1, <1>2, <1>3 DEF WalkInv, LastInv, NextInv, SeenInv, Done

\* A walk that ends or starts anew.
LEMMA WalkStops ==
    ASSUME PageInv, WalkInv, walk' = NoWalk, UNCHANGED <<table, lastId>>,
           query'.groupBys = query.groupBys, query'.distinct = query.distinct, query'.having = query.having
    PROVE  WalkInv'
<1>1. walk'.rows = << >> /\ walk'.next = 0 /\ ~walk'.over /\ walk'.from = {}
  BY DEF NoWalk
<1>2. ToSet(walk'.rows) = {} /\ Increasing(walk'.rows)
  BY <1>1 DEF ToSet, Increasing
<1> QED BY <1>1, <1>2 DEF WalkInv, LastInv, NextInv, SeenInv, Plain

LEMMA NextWalkInv ==
    ASSUME NoWrap, PageInv, PageInv', WalkInv, [Next]_vars
    PROVE  WalkInv'
<1> USE DEF PageInv, TypeInv
<1>1. CASE PageOfNothing \/ CountFails \/ PageFindFails \/ Find
  BY <1>1, WalkStops DEF PageOfNothing, CountFails, PageFindFails, Find
<1>2. CASE RemoveLimit \/ RemoveOffset
  <2>1. query'.groupBys = query.groupBys /\ query'.distinct = query.distinct /\ query'.having = query.having
    BY <1>2 DEF RemoveLimit, RemoveOffset, RemovedOffset, Queries
  <2> QED BY <1>2, <2>1, WalkStops DEF RemoveLimit, RemoveOffset
<1>3. CASE Page
  <2>1. PICK p \in Pages, s \in Sizes \ {0} :
            /\ page' = IF p = 0 THEN 1 ELSE p
            /\ size' = s
            /\ query' = [query EXCEPT !.limit = s, !.offset = offset']
            /\ walk' = IF page' = 1 THEN NewWalk(s)
                       ELSE IF walk.next = page' /\ walk.size = s THEN walk
                       ELSE NoWalk
    BY <1>3 DEF Page
  <2>2. query'.groupBys = query.groupBys /\ query'.distinct = query.distinct /\ query'.having = query.having
    BY <2>1 DEF Queries
  <2>3. UNCHANGED <<table, lastId>>
    BY <1>3 DEF Page
  <2>4. CASE walk' = NoWalk
    BY <2>2, <2>3, <2>4, WalkStops
  <2>5. CASE page' = 1
    <3>1. walk' = NewWalk(s)
      BY <2>1, <2>5
    <3>2. /\ walk'.rows = << >> /\ walk'.next = 1 /\ ~walk'.over
          /\ walk'.from = table /\ walk'.size = s
      BY <3>1 DEF NewWalk
    <3>3. ToSet(walk'.rows) = {} /\ Increasing(walk'.rows)
      BY <3>2 DEF ToSet, Increasing
    <3>4. Done' = 0
      <4>1. s \in Nat
        BY ArgumentsType
      <4> QED BY <3>2, <4>1 DEF Done
    <3>5. \A x \in table : ~(Rank(x, table) <= 0)
      <4>1. \A x \in table : Rank(x, table) \in 1 .. Cardinality(table)
        BY RowsType, RankType
      <4>2. Cardinality(table) \in Nat
        BY RowsType
      <4> QED BY <4>1, <4>2
    <3> QED BY <2>1, <2>2, <2>3, <2>5, <3>2, <3>3, <3>4, <3>5 DEF WalkInv, LastInv, NextInv, SeenInv, Plain
  <2>6. CASE page' # 1 /\ walk' = walk /\ walk.next = page' /\ walk.size = s
    <3>1. Done' = Done /\ Increasing(walk'.rows) = Increasing(walk.rows)
      BY <2>6 DEF Done
    <3> QED BY <2>1, <2>2, <2>3, <2>6, <3>1 DEF WalkInv, LastInv, NextInv, SeenInv, Plain
  <2> QED BY <2>1, <2>4, <2>5, <2>6
<1>4. CASE Count
  <2>1. /\ pc = "count" /\ UNCHANGED <<query, table, lastId, page, size, offset>>
        /\ walk' = IF pc' = "idle" /\ walk.next # 0 THEN [walk EXCEPT !.over = TRUE] ELSE walk
    BY <1>4 DEF Count
  <2>2. CASE walk' = walk
    <3>1. Done' = Done /\ Increasing(walk'.rows) = Increasing(walk.rows)
      BY <2>2 DEF Done
    <3> QED BY <2>1, <2>2, <3>1 DEF WalkInv, LastInv, NextInv, SeenInv, Plain
  <2>3. CASE pc' = "idle" /\ walk.next # 0 /\ walk' = [walk EXCEPT !.over = TRUE]
    <3>1. /\ walk'.next = walk.next /\ walk'.size = walk.size /\ walk'.rows = walk.rows
          /\ walk'.from = walk.from
      BY <2>3 DEF Walks
    <3>2. Done' = Done /\ Increasing(walk'.rows) = Increasing(walk.rows)
      BY <3>1 DEF Done
    \* No row has a rank above the offset of the page there was no Find for.
    <3>3. Plain => \A x \in table : Rank(x, table) <= Done
      <4> SUFFICES ASSUME Plain, NEW x \in table PROVE Rank(x, table) <= Done
        OBVIOUS
      <4>1. walk.next = page /\ walk.size = size
        BY <2>1, <2>3 DEF WalkInv, NextInv
      <4>2. /\ page \in (Pages \ {0}) \cup {1} /\ size \in Sizes \ {0} /\ offset = OffsetOf(page, size)
        BY <2>1 DEF RequestInv
      <4>3. page \in Nat \ {0} /\ size \in Nat \ {0}
        BY <4>2, ArgumentsType
      <4>4. (page - 1) * size \in Nat /\ offset <= (page - 1) * size
        BY <4>2, <4>3, PageBounds, OffsetBound
      <4>5. Counted(ToCountBuilder(query), table) = <<Cardinality(table)>>
        BY DEF Plain, ToCountBuilder, Counted
      <4>6. count' = Cardinality(table) /\ (count' = 0 \/ offset >= count')
        BY <1>4, <2>3, <4>5 DEF Count, Return
      <4>7. Cardinality(table) \in Nat /\ Rank(x, table) \in 1 .. Cardinality(table)
        BY RowsType, RankType
      <4>8. Done = (page - 1) * size
        BY <4>1 DEF Done
      <4> QED BY <4>4, <4>6, <4>7, <4>8
    <3> QED BY <2>1, <2>3, <3>1, <3>2, <3>3 DEF WalkInv, LastInv, NextInv, SeenInv, Plain
  <2> QED BY <2>1, <2>2, <2>3
<1>5. CASE PageFind
  <2>1. /\ pc = "find" /\ pc' = "idle"
        /\ UNCHANGED <<query, table, lastId, page, size, offset>>
        /\ walk' = IF walk.next = 0 THEN walk
                   ELSE [walk EXCEPT !.next = @ + 1, !.rows = @ \o Found(query, table)]
    BY <1>5 DEF PageFind, Return
  <2>2. CASE walk.next = 0
    <3>1. walk' = walk
      BY <2>1, <2>2
    <3>2. Increasing(walk'.rows) = Increasing(walk.rows)
      BY <3>1
    <3> QED BY <2>1, <2>2, <3>1, <3>2 DEF WalkInv, LastInv, NextInv, SeenInv, Plain
  <2>3. CASE walk.next # 0
    <3> SUFFICES ASSUME Plain PROVE WalkInv'
      BY <2>1 DEF WalkInv, Plain
    <3> DEFINE b == page * size
               more == {x \in table : Done < Rank(x, table) /\ Rank(x, table) <= b}
    <3>1. /\ walk'.next = walk.next + 1 /\ walk'.size = walk.size
          /\ walk'.rows = walk.rows \o Found(query, table)
          /\ walk'.from = walk.from /\ walk'.over = walk.over
      BY <2>1, <2>3 DEF Walks
    <3>2. walk.next = page /\ walk.size = size
      BY <2>1, <2>3 DEF WalkInv, NextInv
    <3>3. /\ page \in (Pages \ {0}) \cup {1} /\ size \in Sizes \ {0}
          /\ query.limit = size /\ query.offset = offset /\ offset = OffsetOf(page, size)
      BY <2>1 DEF RequestInv
    <3>4. page \in Nat \ {0} /\ size \in Nat \ {0}
      BY <3>3, ArgumentsType
    <3>5. /\ Done = (page - 1) * size /\ Done \in Nat /\ b \in Nat /\ Done <= b
          /\ Done' = b
      <4>1. walk'.next - 1 = page
        BY <3>1, <3>2, <3>4
      <4>2. Done' = page * size
        BY <3>1, <3>2, <4>1 DEF Done
      <4>3. Done = (page - 1) * size
        BY <3>2 DEF Done
      <4>4. (page - 1) * size \in Nat /\ page * size \in Nat /\ (page - 1) * size + size = page * size
        BY <3>4, PageBounds
      <4> QED BY <3>4, <4>2, <4>3, <4>4
    <3>6. (page - 1) * size < W
      <4>1. CASE page = 1
        <5>1. (page - 1) * size = 0
          BY <3>4, <4>1
        <5> QED BY <5>1, PagingAssumption
      <4>2. CASE page # 1
        <5>1. (page - 2) * size < Cardinality(Ids)
          BY <3>2, <3>4, <4>2 DEF WalkInv, NextInv
        <5> QED BY <3>3, <4>2, <5>1 DEF NoWrap
      <4> QED BY <4>1, <4>2
    <3>7. Selected(query, table) = table
      BY DEF Plain, Selected
    <3>8. Found(query, table) = Ordered(more)
      <4>1. Found(query, table) = OfPage(page, size, table)
        BY <3>3, <3>4, <3>6, <3>7, FoundOfPage
      <4>2. OfPage(page, size, table) = Ordered(more)
        BY <3>5 DEF OfPage
      <4> QED BY <4>1, <4>2
    <3>9. table \in SUBSET Nat /\ IsFiniteSet(table)
      BY RowsType
    <3>10. walk.rows \in Seq(Nat)
      BY DEF Walks
    <3>11. /\ Increasing(walk'.rows)
           /\ ToSet(walk'.rows) = ToSet(walk.rows) \cup more
      <4>1. /\ Increasing(walk.rows) /\ \A x \in ToSet(walk.rows) : Rank(x, table) <= Done
        BY <2>3 DEF WalkInv, SeenInv
      <4>2. more = {x \in table : Done < Rank(x, table) /\ Rank(x, table) <= b}
        OBVIOUS
      <4> HIDE DEF Done, b, more, PageInv, TypeInv
      <4>3. /\ Increasing(walk.rows \o Ordered(more))
            /\ ToSet(walk.rows \o Ordered(more)) = ToSet(walk.rows) \cup more
        BY <3>5, <3>9, <3>10, <4>1, <4>2, WalkGoesOn
      <4> QED BY <3>1, <3>8, <4>3
    <3>12. LastInv'
      BY <2>1, <3>11 DEF WalkInv, LastInv
    <3>13. \A x \in ToSet(walk.rows) \cup table : Rank(x, table) \in Nat
      <4>1. \A x \in ToSet(walk.rows) : x \in Nat
        BY <3>10 DEF ToSet
      <4>2. \A x \in Nat : x <= x
        OBVIOUS
      <4> QED BY <3>9, <4>1, <4>2, RankMonotone
    <3>14. NextInv'
      <4>1. (walk'.next - 2) * walk'.size < Cardinality(Ids)
        <5>1. offset = Done
          BY <3>3, <3>4, <3>5, <3>6, PageBounds
        <5>2. count = Cardinality(counted)
          <6>1. ~CountsAllRows(query) /\ ~LeavesNullOut(query, counted) /\ Selected(query, counted) = counted
            BY DEF Plain, CountsAllRows, LeavesNullOut, Selected
          <6> QED BY <2>1, <6>1 DEF TotalIsLength, Totals
        <5>3. Cardinality(counted) <= Cardinality(Ids) /\ Cardinality(counted) \in Nat
          BY RowsType
        <5>4. Cardinality(Ids) \in Nat
          BY RowsType
        <5>5. Done < Cardinality(Ids)
          BY <2>1, <3>5, <5>1, <5>2, <5>3, <5>4
        <5>6. walk'.next - 2 = page - 1 /\ walk'.size = size
          BY <3>1, <3>2, <3>4
        <5> QED BY <3>5, <5>5, <5>6
      <4> QED BY <2>1, <3>1, <3>2, <3>4, <4>1 DEF NextInv
    <3>15. SeenInv'
      <4>1. walk.from \subseteq table /\ \A x \in ToSet(walk.rows) : Rank(x, table) <= Done
        BY <2>3 DEF WalkInv, SeenInv
      <4>2. \A x \in walk.from : Rank(x, table) <= Done => x \in ToSet(walk.rows)
        BY <2>3 DEF WalkInv, SeenInv
      <4>3. \A x \in ToSet(walk'.rows) : Rank(x, table) <= b
        <5> HIDE DEF Done, b
        <5> QED BY <3>5, <3>11, <3>13, <4>1
      <4>4. \A x \in walk.from : Rank(x, table) <= b => x \in ToSet(walk'.rows)
        <5> SUFFICES ASSUME NEW x \in walk.from, Rank(x, table) <= b
                     PROVE  x \in ToSet(walk'.rows)
          OBVIOUS
        <5>1. x \in table /\ Rank(x, table) \in Nat
          BY <3>13, <4>1
        <5>2. CASE Rank(x, table) <= Done
          BY <3>11, <4>2, <5>2
        <5>3. CASE Done < Rank(x, table)
          BY <3>11, <5>1, <5>3
        <5> HIDE DEF Done
        <5> QED BY <3>5, <5>1, <5>2, <5>3
      <4> QED BY <2>1, <3>1, <3>5, <4>1, <4>3, <4>4 DEF SeenInv
    <3>16. walk'.over => walk'.from \subseteq ToSet(walk'.rows)
      BY <3>1, <3>11 DEF WalkInv
    <3> QED BY <3>11, <3>12, <3>14, <3>15, <3>16 DEF WalkInv
  <2> QED BY <2>2, <2>3
<1>6. CASE InsertRow
  <2>1. /\ lastId' = lastId + 1 /\ lastId' \in Ids /\ table' = table \cup {lastId'}
        /\ UNCHANGED <<pc, query, page, size, walk>>
    BY <1>6 DEF InsertRow
  <2> SUFFICES ASSUME Plain PROVE WalkInv'
    BY <2>1 DEF WalkInv, Plain
  <2>2. Done' = Done /\ Increasing(walk'.rows) = Increasing(walk.rows) /\ ToSet(walk'.rows) = ToSet(walk.rows)
    BY <2>1 DEF Done
  <2>3. \A i \in table \cup ToSet(walk.rows) : i \in Nat /\ i <= lastId
    <3>1. \A i \in table : i \in Nat
      BY RowsType
    <3>2. walk.rows \in Seq(Nat)
      BY DEF Walks
    <3>3. \A i \in ToSet(walk.rows) : i \in Nat
      BY <3>2 DEF ToSet
    <3> QED BY <3>1, <3>3 DEF WalkInv, LastInv
  <2>4. \A i \in table \cup ToSet(walk.rows) : Rank(i, table') = Rank(i, table)
    <3>1. \A i \in table \cup ToSet(walk.rows) : i < lastId'
      BY <2>1, <2>3
    <3>2. lastId' \in Nat /\ table \in SUBSET Nat /\ IsFiniteSet(table)
      BY <2>1, RowsType
    <3> QED BY <2>1, <2>3, <3>1, <3>2, RankChanges
  <2>5. LastInv'
    <3>1. \A i \in table \cup ToSet(walk.rows) : i <= lastId + 1
      BY <2>3
    <3>2. lastId + 1 <= lastId + 1
      OBVIOUS
    <3> QED BY <2>1, <2>2, <3>1, <3>2 DEF LastInv
  <2>6. NextInv'
    BY <2>1 DEF WalkInv, NextInv
  <2>7. SeenInv'
    <3>1. walk.next # 0 =>
            /\ walk.from \subseteq table
            /\ \A x \in ToSet(walk.rows) : Rank(x, table) <= Done
            /\ \A x \in walk.from : Rank(x, table) <= Done => x \in ToSet(walk.rows)
      BY DEF WalkInv, SeenInv
    <3> QED BY <2>1, <2>2, <2>4, <3>1 DEF SeenInv
  <2> QED BY <2>1, <2>2, <2>5, <2>6, <2>7 DEF WalkInv
<1>7. CASE DeleteRow
  <2>1. PICK i \in table : /\ table' = table \ {i}
                           /\ walk' = [walk EXCEPT !.from = {}]
    BY <1>7 DEF DeleteRow
  <2>2. UNCHANGED <<pc, query, page, size, lastId>>
    BY <1>7 DEF DeleteRow
  <2> SUFFICES ASSUME Plain PROVE WalkInv'
    BY <2>2 DEF WalkInv, Plain
  <2>3. /\ walk'.next = walk.next /\ walk'.size = walk.size /\ walk'.rows = walk.rows
        /\ walk'.over = walk.over /\ walk'.from = {}
    BY <2>1 DEF Walks
  <2>4. Done' = Done /\ Increasing(walk'.rows) = Increasing(walk.rows) /\ ToSet(walk'.rows) = ToSet(walk.rows)
    BY <2>3 DEF Done
  <2>5. \A x \in ToSet(walk.rows) : Rank(x, table') <= Rank(x, table) /\ Rank(x, table) \in Nat /\ Rank(x, table') \in Nat
    <3>1. \A x \in ToSet(walk.rows) : x \in Nat
      BY DEF Walks, ToSet
    <3>2. i \in Nat /\ table \in SUBSET Nat /\ IsFiniteSet(table)
      BY RowsType
    <3> QED BY <2>1, <3>1, <3>2, RankChanges
  <2>6. LastInv'
    BY <2>1, <2>2, <2>4 DEF WalkInv, LastInv
  <2>7. NextInv'
    BY <2>2, <2>3 DEF WalkInv, NextInv
  <2>8. SeenInv'
    <3>1. walk.next # 0 => \A x \in ToSet(walk.rows) : Rank(x, table) <= Done
      BY DEF WalkInv, SeenInv
    <3>2. walk.next # 0 => Done \in Int
      BY DEF Done, Walks
    <3> HIDE DEF Done
    <3>3. walk.next # 0 => \A x \in ToSet(walk.rows) : Rank(x, table') <= Done
      BY <2>5, <3>1, <3>2
    <3> QED BY <2>3, <2>4, <3>3 DEF SeenInv
  <2> QED BY <2>3, <2>4, <2>6, <2>7, <2>8 DEF WalkInv
<1>8. CASE UNCHANGED vars
  <2>1. Done' = Done /\ Increasing(walk'.rows) = Increasing(walk.rows)
    BY <1>8 DEF vars, Done
  <2> QED BY <1>8, <2>1 DEF vars, WalkInv, LastInv, NextInv, SeenInv, Plain
<1> QED BY <1>1, <1>2, <1>3, <1>4, <1>5, <1>6, <1>7, <1>8 DEF Next

\* A walk over the pages of a plain query (QueryModelStmt.Page called again and
\* again) meets no row twice and, once it came to an end while rows were only
\* added, met every row there was when it began, as long as the pages' offsets
\* do not wrap around.
THEOREM WalksMeetAll ==
    ASSUME NoWrap
    PROVE  Spec => []WalkMeetsAll
<1>1. Init => WalkInv
  BY InitWalkInv
<1>2. PageInv /\ PageInv' /\ WalkInv /\ [Next]_vars => WalkInv'
  BY NextWalkInv
<1>3. WalkInv => WalkMeetsAll
  BY DEF WalkInv, WalkMeetsAll, Plain, Increasing
<1> QED BY <1>1, <1>2, <1>3, PageInvHolds, PTL DEF Spec

\* So it is for a table of at most 2^63 rows.
COROLLARY WalksOfTables ==
    ASSUME 2 * Cardinality(Ids) <= W
    PROVE  Spec => []WalkMeetsAll
BY HalfIsEnough, WalksMeetAll
=============================================================================
