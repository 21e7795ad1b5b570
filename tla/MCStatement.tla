---------------------------- MODULE MCStatement ----------------------------
(* Instances of Statement for TLC. *)
EXTENDS Statement, TLC

Symmetric == Permutations(Procs)
=============================================================================
