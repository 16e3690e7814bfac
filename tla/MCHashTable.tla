----------------------------- MODULE MCHashTable -----------------------------
(* Small hash tables for TLC. *)
EXTENDS HashTable, TLC

CONSTANTS k1, k2, k3, v1, v2

\* Two keys of the last bucket and one of the bucket before.
MCKeys == {k1, k2, k3}
MCHash == k1 :> 5 @@ k2 :> 8 @@ k3 :> 7
MCValues == {NULL, v1, v2}
MCFunctions == {[v \in MCValues |-> IF v = v1 THEN v2 ELSE v1]}
=============================================================================
