---------------------------- MODULE MCConstTable ----------------------------
(* Instance for TLC: see MCConstTable.cfg. *)
EXTENDS ConstTable
=============================================================================
