-------------------------- MODULE MCStreamCapture --------------------------
(* StreamCapture on short outputs, for TLC.                                *)
EXTENDS StreamCapture

Writing(out, err) == [s \in Streams |-> IF s = "stdout" THEN out ELSE err]

\* Output that fits, that is cut inside a character by what is kept in memory, that
\* exceeds the limit, that is malformed, and that ends inside a character.
MCOutputs ==
    { Writing(out, err) :
        out \in { <<"a">>, <<"a", "n">>, <<"a", "L", "C">>, <<"L", "C", "L", "C", "a">>,
                  <<"L", "a">>, <<"C">>, <<"a", "a", "L">> },
        err \in { <<>>, <<"a", "n", "a">>, <<"L", "C", "L", "C">> } }
=============================================================================
