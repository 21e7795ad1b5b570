------------------------------- MODULE Paging -------------------------------
(***************************************************************************)
(* QueryModelStmt.Page (select.go): a count and a Find, two statements on  *)
(* one builder with no transaction around them, while other clients insert *)
(* and delete rows.  A caller reuses its statement: it asks for any pages, *)
(* walks them from the first one, or calls Find, which knows nothing of    *)
(* pages.                                                                  *)
(*                                                                         *)
(* A query is the part of a SelectBuilder that decides which rows come     *)
(* back; it is ordered by what it selects.  uint64 has the values below W. *)
(***************************************************************************)
EXTENDS Naturals, Sequences, FiniteSets, SequencesExt

CONSTANTS
    Ids,        \* primary keys, given out in increasing order
    GroupOf,    \* the grouping column of a row; 0 is NULL
    Shapes,     \* the queries in use
    W,          \* stands for 2^64
    Pages, Sizes,
    Changes,    \* what other clients do: "insert", "delete"
    MaxCalls, MaxChanges    \* bounds

ASSUME PagingAssumption ==
    /\ Ids \subseteq Nat /\ IsFiniteSet(Ids)
    /\ GroupOf \in [Ids -> Nat]
    /\ Shapes \subseteq {"plain", "distinct", "grouped", "having", "havingRows", "twoColumns"}
    /\ W \in Nat \ {0}
    /\ Pages \subseteq 0 .. W - 1 /\ Sizes \subseteq 0 .. W - 1
    /\ Changes \subseteq {"insert", "delete"}
    /\ MaxCalls \in Nat /\ MaxChanges \in Nat

VARIABLES
    pc,
    query,      \* the statement's builder
    table,      \* the ids of the rows there are
    lastId,     \* the last id given out
    page, size, \* the arguments of the call, page 0 already taken as 1
    offset,
    count,
    answer,     \* [list, total, err]
    counted,    \* history: the table when it was counted
    walk,       \* history: the rows of pages 1, 2, ... asked for one after the other
    removed,    \* history: of "limit" and "offset", what was removed since the last Page
    calls, changes

request == <<page, size, offset>>
bounds == <<calls, changes>>
vars == <<pc, query, table, lastId, page, size, offset, count, answer, counted, walk, removed, calls, changes>>

None == 0      \* no LIMIT: Page never sets 0

-----------------------------------------------------------------------------
(* Queries *)

Query(shape) ==
    [distinct |-> shape = "distinct",
     groupBys |-> CASE shape \in {"plain", "distinct", "havingRows"} -> 0
                    [] shape \in {"grouped", "having"} -> 1
                    [] shape = "twoColumns" -> 2,
     having |-> shape \in {"having", "havingRows"},
     limit |-> None, offset |-> 0]

Members(g, rows) == {i \in rows : GroupOf[i] = g}

\* What the query selects without LIMIT and OFFSET.  HAVING without GROUP BY (also
\* what OrderByClause of a statement adds) is a condition on the rows, as MySQL
\* takes it: here, that the row has a group.
Selected(q, rows) ==
    LET groups == {GroupOf[i] : i \in rows} IN
    IF q.groupBys = 0 /\ ~q.distinct THEN {i \in rows : q.having => GroupOf[i] # 0}
    ELSE IF q.having THEN {g \in groups : Cardinality(Members(g, rows)) > 1}
    ELSE groups

\* ORDER BY: the place of x among S, and S by places.
Rank(x, S) == Cardinality({y \in S : y <= x})
Ordered(S) == [i \in 1 .. Cardinality(S) |-> CHOOSE x \in S : Rank(x, S) = i]

Found(q, rows) ==
    LET all == Ordered(Selected(q, rows))
        last == IF q.limit = None \/ q.offset + q.limit > Len(all)
                THEN Len(all) ELSE q.offset + q.limit
    IN SubSeq(all, q.offset + 1, last)

\* Variant: LIMIT and OFFSET stay.
ToCountBuilderKeepingOffset(q) ==
    IF q.groupBys = 0 THEN [of |-> "rows", sub |-> q, offset |-> q.offset]
    ELSE IF q.groupBys = 1 /\ ~q.having THEN [of |-> "groups", sub |-> q, offset |-> q.offset]
    ELSE [of |-> "sub", sub |-> q, offset |-> q.offset]

\* Variant: the condition on groups is forgotten.
ToCountBuilderNoHaving(q) ==
    LET bare == [q EXCEPT !.limit = None, !.offset = 0] IN
    IF q.groupBys = 0 THEN [of |-> "rows", sub |-> bare, offset |-> 0]
    ELSE [of |-> "groups", sub |-> bare, offset |-> 0]

\* COUNT(1), COUNT(DISTINCT column), or COUNT(1) of the query as a sub-select.
\* The first keeps DISTINCT, which then is asked of the count, and leaves HAVING out.
ToCountBuilder(q) ==
    LET bare == [q EXCEPT !.limit = None, !.offset = 0] IN
    IF q.groupBys = 0 THEN [of |-> "rows", sub |-> bare, offset |-> 0]
    ELSE IF q.groupBys = 1 /\ ~q.having THEN [of |-> "groups", sub |-> bare, offset |-> 0]
    ELSE [of |-> "sub", sub |-> bare, offset |-> 0]

\* What the database answers to it: COUNT over no group is one row, DISTINCT of
\* one row is that row, and COUNT(DISTINCT column) leaves NULL out.
Counted(c, rows) ==
    IF c.offset > 0 THEN <<>>
    ELSE CASE c.of = "rows"   -> <<Cardinality(rows)>>
           [] c.of = "groups" -> <<Cardinality({GroupOf[i] : i \in rows} \ {0})>>
           [] c.of = "sub"    -> <<Len(Found(c.sub, rows))>>

-----------------------------------------------------------------------------
Idle == [list |-> <<>>, total |-> 0, err |-> FALSE]
NoWalk == [next |-> 0, size |-> 0, rows |-> <<>>, from |-> {}, over |-> FALSE]
NewWalk(s) == [next |-> 1, size |-> s, rows |-> <<>>, from |-> table, over |-> FALSE]

Init ==
    /\ \E shape \in Shapes : query = Query(shape)
    /\ table \in SUBSET Ids
    /\ lastId = IF table = {} THEN 0 ELSE CHOOSE i \in table : \A j \in table : j <= i
    /\ pc = "idle"
    /\ page = 0 /\ size = 0 /\ offset = 0 /\ count = 0
    /\ answer = Idle
    /\ counted = {}
    /\ walk = NoWalk
    /\ removed = {"limit", "offset"}
    /\ calls = 0 /\ changes = 0

Return(list, total, err) ==
    /\ pc' = "idle"
    /\ answer' = [list |-> list, total |-> total, err |-> err]

\* Page with size 0 is refused.
PageOfNothing ==
    /\ pc = "idle" /\ calls < MaxCalls
    /\ 0 \in Sizes
    /\ Return(<<>>, 0, TRUE)
    /\ walk' = NoWalk
    /\ calls' = calls + 1
    /\ UNCHANGED <<query, table, lastId, page, size, offset, count, counted, removed, changes>>

\* Variant: pages counted from 0.
OffsetFromZero(p, s) == (p * s) % W

\* (page - 1) * size in uint64.
OffsetOf(p, s) == ((p - 1) * s) % W

\* Page starts: it sets the builder's LIMIT and OFFSET, for good.
Page ==
    /\ pc = "idle" /\ calls < MaxCalls
    /\ \E p \in Pages, s \in Sizes \ {0} :
        /\ page' = IF p = 0 THEN 1 ELSE p
        /\ size' = s
        /\ offset' = OffsetOf(page', s)
        /\ query' = [query EXCEPT !.limit = s, !.offset = offset']
        /\ walk' = IF page' = 1 THEN NewWalk(s)
                   ELSE IF walk.next = page' /\ walk.size = s THEN walk
                   ELSE NoWalk
    /\ pc' = "count"
    /\ removed' = {}
    /\ calls' = calls + 1
    /\ UNCHANGED <<table, lastId, count, answer, counted, changes>>

\* The count query answers; without rows on this page there is no Find.
Count ==
    /\ pc = "count"
    /\ LET c == Counted(ToCountBuilder(query), table) IN
        /\ count' = IF c = <<>> THEN 0 ELSE c[1]
        /\ IF count' = 0 THEN Return(<<>>, 0, FALSE)
           ELSE IF offset >= count' THEN Return(<<>>, count', FALSE)
           ELSE pc' = "find" /\ UNCHANGED answer
    /\ counted' = table
    /\ walk' = IF pc' = "idle" /\ walk.next # 0 THEN [walk EXCEPT !.over = TRUE] ELSE walk
    /\ UNCHANGED <<query, table, lastId, page, size, offset, removed, calls, changes>>

CountFails ==
    /\ pc = "count"
    /\ Return(<<>>, 0, TRUE)
    /\ walk' = NoWalk
    /\ UNCHANGED <<query, table, lastId, page, size, offset, count, counted, removed, calls, changes>>

\* The second statement: Find with the builder as Page left it.
PageFind ==
    /\ pc = "find"
    /\ Return(Found(query, table), count, FALSE)
    /\ walk' = IF walk.next = 0 THEN walk
               ELSE [walk EXCEPT !.next = @ + 1, !.rows = @ \o Found(query, table)]
    /\ UNCHANGED <<query, table, lastId, page, size, offset, count, counted, removed, calls, changes>>

PageFindFails ==
    /\ pc = "find"
    /\ Return(<<>>, count, TRUE)
    /\ walk' = NoWalk
    /\ UNCHANGED <<query, table, lastId, page, size, offset, count, counted, removed, calls, changes>>

\* The caller's own Find, with whatever LIMIT and OFFSET there are (OFFSET alone
\* is an error for some databases).
Find ==
    /\ pc = "idle" /\ calls < MaxCalls
    /\ Return(Found(query, table), 0, FALSE) \/ Return(<<>>, 0, TRUE)
    /\ walk' = NoWalk
    /\ calls' = calls + 1
    /\ UNCHANGED <<query, table, lastId, page, size, offset, count, counted, removed, changes>>

RemoveLimit ==
    /\ pc = "idle" /\ "limit" \notin removed
    /\ query' = [query EXCEPT !.limit = None]
    /\ removed' = removed \cup {"limit"}
    /\ walk' = NoWalk
    /\ UNCHANGED <<pc, table, lastId, page, size, offset, count, answer, counted, calls, changes>>

\* Variant: an offset that was set stays.
RemovedOffsetStays(q) == q

RemovedOffset(q) == [q EXCEPT !.offset = 0]

RemoveOffset ==
    /\ pc = "idle" /\ "offset" \notin removed
    /\ query' = RemovedOffset(query)
    /\ removed' = removed \cup {"offset"}
    /\ walk' = NoWalk
    /\ UNCHANGED <<pc, table, lastId, page, size, offset, count, answer, counted, calls, changes>>

\* Other clients.  After a deletion rows may move to pages already seen.
InsertRow ==
    /\ "insert" \in Changes /\ changes < MaxChanges
    /\ lastId + 1 \in Ids
    /\ lastId' = lastId + 1
    /\ table' = table \cup {lastId'}
    /\ changes' = changes + 1
    /\ UNCHANGED <<pc, query, page, size, offset, count, answer, counted, walk, removed, calls>>

DeleteRow ==
    /\ "delete" \in Changes /\ changes < MaxChanges
    /\ \E i \in table :
        /\ table' = table \ {i}
        /\ walk' = [walk EXCEPT !.from = {}]
    /\ changes' = changes + 1
    /\ UNCHANGED <<pc, query, lastId, page, size, offset, count, answer, counted, removed, calls>>

Next ==
    \/ PageOfNothing \/ Page \/ Count \/ CountFails \/ PageFind \/ PageFindFails
    \/ Find \/ RemoveLimit \/ RemoveOffset \/ InsertRow \/ DeleteRow

Spec == Init /\ [][Next]_vars

-----------------------------------------------------------------------------
(* Properties *)

\* The rows of a page, by their rank among all rows, in unbounded arithmetic.
OfPage(p, s, S) == Ordered({x \in S : (p - 1) * s < Rank(x, S) /\ Rank(x, S) <= p * s})

\* Page p of size s has the rows ranked (p-1)s+1 to ps of what the statement
\* selects at the moment of the Find, whatever was asked of the statement
\* before, as long as (p-1)s fits a uint64 (QueryModelStmt.Page).
PageIsWindow ==
    [][pc = "find" /\ pc' = "idle" /\ ~answer'.err /\ (page - 1) * size < W
          => answer'.list = OfPage(page, size, Selected(query, table))]_vars

\* What was asked of a statement stays with it: a Find shows the page that was
\* asked for last, even if that call failed, and everything once both LIMIT and
\* OFFSET were removed since (QueryModelStmt.Page, Find, RemoveLimit and
\* RemoveOffset).
FindIsLastPage ==
    [][Find /\ ~answer'.err
          => /\ removed = {"limit", "offset"} => answer'.list = Ordered(Selected(query, table))
             /\ removed = {} /\ (page - 1) * size < W
                  => answer'.list = OfPage(page, size, Selected(query, table))]_vars

\* DISTINCT, and HAVING without GROUP BY: the count is one of all rows.
CountsAllRows(q) == q.groupBys = 0 /\ (q.distinct \/ q.having)
\* COUNT(DISTINCT column) does not count the group NULL.
LeavesNullOut(q, rows) == q.groupBys = 1 /\ ~q.having /\ \E i \in rows : GroupOf[i] = 0

\* What the total is to the number of rows there are to page over.
Totals(q, rows, total) ==
    LET all == Cardinality(Selected(q, rows)) IN
    CASE CountsAllRows(q) -> total >= all
      [] LeavesNullOut(q, rows) -> total = all - 1
      [] OTHER -> total = all

\* The total is the number of rows the statement selects without its page, at
\* the moment of the count (QueryModelStmt.Page, SelectBuilder.ToCountBuilder),
\* with these exceptions: for DISTINCT, and for HAVING without GROUP BY, it may be
\* larger, as rows are counted that are not selected, but never smaller, so that
\* no page is cut off; a group NULL of a single grouping column is left out of it.
TotalIsLength == pc = "find" => Totals(query, counted, count)

\* A walk over the pages of a plain query meets no row twice and, once it came
\* to an end while rows were only added, met every row there was when it began.
WalkMeetsAll ==
    query.groupBys = 0 /\ ~query.distinct /\ ~query.having =>
        /\ \A i, j \in DOMAIN walk.rows : i < j => walk.rows[i] < walk.rows[j]
        /\ walk.over => walk.from \subseteq ToSet(walk.rows)
=============================================================================
