----------------------------- MODULE KeyValueMap -----------------------------
(***************************************************************************)
(* What a hash table of palm promises its users (palm/hash_table.h): a     *)
(* map from keys to values.  call is the last call made, with the key and  *)
(* the value it was made with, and answer what the last call that returns  *)
(* something returned.                                                     *)
(***************************************************************************)
EXTENDS Naturals

CONSTANTS Keys, Values, NULL

VARIABLES map, answer, call

ValueOf(k) == IF k \in DOMAIN map THEN map[k] ELSE NULL

Init ==
  /\ map = [k \in {} |-> NULL] /\ answer = NULL
  /\ call = [turn |-> 0, op |-> "new", key |-> NULL, value |-> NULL]

\* Two calls in a row differ in their turn, so a call is never a stutter.
Called(op, k, v) == call' = [turn |-> 1 - call.turn, op |-> op, key |-> k, value |-> v]

Put(k, v) ==
  /\ Called("put", k, v)
  /\ map' = [x \in DOMAIN map \cup {k} |-> IF x = k THEN v ELSE map[x]]
  /\ answer' = TRUE

Get(k) == Called("get", k, NULL) /\ answer' = ValueOf(k) /\ UNCHANGED map

Drop(k) ==
  /\ Called("drop", k, NULL)
  /\ map' = [x \in DOMAIN map \ {k} |-> map[x]]
  /\ answer' = ValueOf(k)

DropAll ==
  /\ Called("drop all", NULL, NULL)
  /\ map' = [k \in {} |-> NULL] /\ UNCHANGED answer

\* A function of the user is applied to every value.
Replace(f) ==
  /\ Called("replace", NULL, f)
  /\ map' = [k \in DOMAIN map |-> f[map[k]]] /\ UNCHANGED answer

\* The value of one entry is replaced in place.
Set(k, v) ==
  /\ k \in DOMAIN map /\ Called("set", k, v)
  /\ map' = [map EXCEPT ![k] = v] /\ UNCHANGED answer

Next ==
  \/ \E k \in Keys, v \in Values : Put(k, v) \/ Set(k, v)
  \/ \E k \in Keys : Get(k) \/ Drop(k)
  \/ DropAll
  \/ \E f \in [Values -> Values] : Replace(f)

Spec == Init /\ [][Next]_<<map, answer, call>>
=============================================================================
