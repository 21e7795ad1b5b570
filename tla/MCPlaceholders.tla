--------------------------- MODULE MCPlaceholders ---------------------------
(* Every text of up to MaxLen characters with up to two arguments. *)
EXTENDS Placeholders

CONSTANTS MaxLen

Texts == UNION {[1 .. n -> Chars] : n \in 0 .. MaxLen}

Givens ==
    {Plain("a"), Plain("b"),
     Nested(<<>>, <<>>), Nested(<<"?">>, <<"c">>), Nested(<<"x", "?">>, <<"c">>),
     Nested(<<"?", "?", "x">>, <<>>), Nested(<<"?", "x", "?">>, <<"c", "d">>)}

AllInputs == [sql : Texts, given : UNION {[1 .. n -> Givens] : n \in 0 .. 2}]
=============================================================================
