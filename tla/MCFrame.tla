------------------------------- MODULE MCFrame -------------------------------
(* Instances for TLC: tables of up to four entries over four names. *)
EXTENDS Frame, TLC
CONSTANTS a, b, c, d
Symmetry == Permutations(Names)
=============================================================================
