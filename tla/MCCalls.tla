------------------------------ MODULE MCCalls ------------------------------
(* Instance for TLC: no parameters, or an array and a scalar. *)
EXTENDS Calls
CONSTANTS foo, bar
MCShapes == {<<>>, <<1, 0>>}
=============================================================================
