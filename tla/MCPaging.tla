------------------------------ MODULE MCPaging ------------------------------
(* An instance of Paging for TLC. *)
EXTENDS Paging

FiveIds == 1 .. 5
\* Two rows of one group, one of another, two without.
Grouping == [i \in FiveIds |-> CASE i <= 2 -> 1 [] i = 3 -> 2 [] i >= 4 -> 0]
=============================================================================
