----------------------------- MODULE MCAddresses -----------------------------
(***************************************************************************)
(* Three kinds of program for TLC: any use of two names, loop variables    *)
(* with names of their own, and arrays of two dimensions.                  *)
(***************************************************************************)
EXTENDS Addresses
CONSTANTS a, b, c
AnyNames == [names |-> {a, b}, dimIds |-> {<<b>>}, dims |-> {0}, fresh |-> FALSE,
             maxTables |-> 3, maxEntries |-> 3, maxLoops |-> 2, maxUses |-> 1]
FreshNames == [AnyNames EXCEPT !.fresh = TRUE]
Arrays == [names |-> {a, b, c}, dimIds |-> {<<b, c>>}, dims |-> {0, 2}, fresh |-> FALSE,
           maxTables |-> 2, maxEntries |-> 4, maxLoops |-> 1, maxUses |-> 1]
AnyPrograms == {AnyNames}
MCPrograms == {AnyNames, FreshNames, Arrays}
=============================================================================
