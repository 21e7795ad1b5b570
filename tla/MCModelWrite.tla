--------------------------- MODULE MCModelWrite ---------------------------
(* Instances of ModelWrite for TLC: one client with two models, one with one. *)
EXTENDS ModelWrite, TLC

CONSTANTS c1, c2, m1, m2, m3
Owners == (m1 :> c1) @@ (m2 :> c1) @@ (m3 :> c2)
ChosenIds == (m1 :> 1) @@ (m2 :> 2) @@ (m3 :> 2)

\* Every descriptor on MySQL, the generated key on the other databases as well.
AllCases == {<<"auto", "mysql">>, <<"auto", "postgres">>, <<"auto", "sqlite">>,
             <<"manual", "mysql">>, <<"composite", "mysql">>, <<"none", "mysql">>}
=============================================================================
