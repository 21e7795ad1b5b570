----------------------------- MODULE MCLormGen -----------------------------
(* Instances of LormGen for TLC: two files of one directory, one of another. *)
EXTENDS LormGen

Dirs == <<1, 1, 2>>
Declare(names, col, flags) == [sort |-> "names", names |-> names, col |-> col, flags |-> flags]
Embed(sort, prefix) == [sort |-> sort, prefix |-> prefix]
Source(decls) == [imports |-> TRUE, code |-> "fine", needs |-> {}, decls |-> decls]

Locals == <<Declare(<<"a", "b">>, "x", {"json"}), Declare(<<"d">>, "", {})>>
Aggregated ==
    Source(<<Declare(<<"id">>, "", {"primary_key", "auto_increment"}),
             Declare(<<"a", "b">>, "x", {"json"})>>)
Embedding == Source(<<Declare(<<"a">>, "", {}), Embed("local", "p_"), Embed("pointer", "q_")>>)
Foreign(f) == [Source(<<Embed("foreign", "")>>) EXCEPT !.needs = {f}]
Using(f) == [Aggregated EXCEPT !.needs = {f}]
NoModel == Source(<<>>)
Plain == [NoModel EXCEPT !.imports = FALSE]
UsesGenerated == [Aggregated EXCEPT !.code = "uses"]
Broken == [Aggregated EXCEPT !.code = "broken"]

TextsTried == <<{Aggregated, Embedding, Foreign(2), Plain, Broken},
           {Aggregated, NoModel, Foreign(1), Using(1), Plain, UsesGenerated},
           {Embedding, Plain}>>
=============================================================================
