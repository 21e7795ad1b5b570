---------------------------- MODULE MCTxSession ----------------------------
(* TxSession on small instances. *)
EXTENDS TxSession, TLC

CONSTANTS p1, p2, e1, e2, s1, s2, k1, k2

\* Every call on e1; and s2 a call on a second engine.
OneEngine  == [s \in Sessions |-> e1]
TwoEngines == [s \in Sessions |-> IF s = s2 THEN e2 ELSE e1]

Symmetric == Permutations(Procs) \cup Permutations(Sessions)
GoroutineSymmetry == Permutations(Procs)
=============================================================================
