------------------------------ MODULE MCScanner ------------------------------
(* Instances for TLC: sources, pairs of short strings, and long messages.  *)
EXTENDS Scanner

Given(sources, firsts, seconds) == [source : sources, first : firsts, second : seconds]
Sources == BoundedSeq({"a", "/", "*", "\n"}, 5) \cup BoundedSeq({"a", "1", "=", ";", " ", "$"}, 3)
           \cup {<<"/", "*", "\n">> \o s : s \in BoundedSeq({"a", "/", "*", "\n"}, 4)}
Strings == {NULL} \cup BoundedSeq({"a", "b"}, 4) \cup {<<"A">>, <<"a", "B">>, <<"A", "b", "B">>}
Seconds == {NULL} \cup BoundedSeq({"a", "b"}, 2) \cup {<<"A", "b">>}
MCReported == BoundedSeq({"x", " ", "\n"}, 6) \cup BoundedSeq({"x", "\t", "@", "\n"}, 4)
MCInputs == Given(Sources, {NULL}, {NULL}) \cup Given({<<>>}, Strings, Seconds)
            \cup Given({<<>>}, MCReported, {<<"x", "x">>})
MCHeader == [state |-> 0, note |-> 1, warn |-> 3, error |-> 2]
=============================================================================
