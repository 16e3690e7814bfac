----------------------------- MODULE ConstTable -----------------------------
(***************************************************************************)
(* The constant table of the code generator (util/consttable.c) and its    *)
(* two clients: the traversal CST (assemblycode/constants.c), which enters *)
(* every literal of the program and stores the index on the literal's node *)
(* (NUM_G / FLOAT_G), and the traversal CGN (assemblycode/codegen.c),      *)
(* which enters the constants its own instruction sequences need while it  *)
(* emits loads by index.  The .const list is written last, so an index     *)
(* emitted early has to mean the same constant at the end.                 *)
(*                                                                         *)
(* A float is its bit pattern, since consttable_insert compares floats     *)
(* with memcmp; the pattern of 0.0f is 0, so an int and a float constant   *)
(* may have the same value and only their types tell them apart.           *)
(***************************************************************************)
EXTENDS Integers, Sequences

CONSTANTS Ints,     \* values of int literals and of array sizes and indices
          Floats    \* bit patterns of float literals

ASSUME ConstAssumption == /\ Ints \subseteq Int
                          /\ Floats \subseteq Nat
                          /\ {0, 1} \subseteq Ints
                          /\ 0 \in Floats

VARIABLES phase,      \* "cst", then "cgn", then "done"
          constants,  \* the table; index i is position i + 1
          noted,      \* indices kept for later: on literal nodes by CST, in
                      \* cint_0_idx and cflt_0_idx by CGNprogram
          loads,      \* emitted iloadc / floadc: index and constant meant
          listing     \* the .const pseudo instructions

vars == <<phase, constants, noted, loads, listing>>

Constant == [type : {"int"}, val : Ints] \cup [type : {"float"}, val : Floats]
ConstI(v) == [type |-> "int", val |-> v]
ConstF(v) == [type |-> "float", val |-> v]
Load == [con : Constant, idx : Nat]

(* Mutation: the types are not compared; 0 and 0.0f have the same bits.    *)
MatchMixed(table, con) ==
  {i \in 0 .. Len(table) - 1 : table[i + 1].val = con.val}

(* consttable_insert looks for an equal entry from index 0 on ...          *)
Match(table, con) == {i \in 0 .. Len(table) - 1 : /\ table[i + 1].type = con.type
                                                  /\ table[i + 1].val = con.val}
(* ... returns its index, or the index of the entry it appends.            *)
InsertIdx(table, con) ==
  IF Match(table, con) = {} THEN Len(table)
  ELSE CHOOSE i \in Match(table, con) : \A j \in Match(table, con) : i <= j
(* Mutation: an insertion that does not look for an equal entry first.     *)
InsertAlways(table, con) == Append(table, con)
Insert(table, con) ==
  IF Match(table, con) = {} THEN Append(table, con) ELSE table
At(table, con) == [con |-> con, idx |-> InsertIdx(table, con)]

Init == /\ phase = "cst"
        /\ constants = <<>>
        /\ noted = {}
        /\ loads = {}
        /\ listing = <<>>

(* CSTnum and CSTfloat on one literal node.                                *)
CSTliteral(con) ==
  /\ phase = "cst"
  /\ constants' = Insert(constants, con)
  /\ noted' = noted \cup {At(constants, con)}
  /\ UNCHANGED <<phase, loads, listing>>

CSTnum == \E v \in Ints : CSTliteral(ConstI(v))
CSTfloat == \E f \in Floats : CSTliteral(ConstF(f))

(* CGNprogram enters 0 and 0.0 for the casts to bool before any code.      *)
CGNprogram ==
  /\ phase = "cst"
  /\ phase' = "cgn"
  /\ LET with0 == Insert(constants, ConstI(0))
     IN  /\ constants' = Insert(with0, ConstF(0))
         /\ noted' = noted \cup {At(constants, ConstI(0)), At(with0, ConstF(0))}
  /\ UNCHANGED <<loads, listing>>

(* CGNnum, CGNfloat and the loads of CGNtypecast use an index kept before. *)
CGNloadNoted(n) ==
  /\ phase = "cgn"
  /\ loads' = loads \cup {n}
  /\ UNCHANGED <<phase, constants, noted, listing>>

(* CGNassign, CGNtypecast and CGNarrexpr enter the int they need (0, 1, an *)
(* element index, an array size) and load it at once.                      *)
CGNloadFresh(v) ==
  /\ phase = "cgn"
  /\ constants' = Insert(constants, ConstI(v))
  /\ loads' = loads \cup {At(constants, ConstI(v))}
  /\ UNCHANGED <<phase, noted, listing>>

(* The last lines of CGNprogram write the table in index order.            *)
CGNconstList ==
  /\ phase = "cgn"
  /\ phase' = "done"
  /\ listing' = constants
  /\ UNCHANGED <<constants, noted, loads>>

Next == \/ CSTnum
        \/ CSTfloat
        \/ CGNprogram
        \/ \E n \in noted : CGNloadNoted(n)
        \/ \E v \in {w \in Ints : w >= 0} : CGNloadFresh(v)
        \/ CGNconstList

Spec == Init /\ [][Next]_vars
-----------------------------------------------------------------------------
(* Every variable has its type (consttable.h, struct data_cgn).            *)
TypeOK == /\ phase \in {"cst", "cgn", "done"}
          /\ constants \in Seq(Constant)
          /\ noted \subseteq Load
          /\ loads \subseteq Load
          /\ listing \in Seq(Constant)

Means(table, load) == load.idx < Len(table) /\ table[load.idx + 1] = load.con

(* Every load emitted by CGN, at whatever moment, finds in the .const list *)
(* that is written after all code exactly the constant it was emitted for: *)
(* the index consttable_insert returned never comes to mean anything else. *)
LoadsMeanTheirConstant ==
  phase = "done" => \A load \in loads : Means(listing, load)

(* consttable_insert keeps the table free of duplicates over both          *)
(* traversals, so the loop in it has at most one entry to find.            *)
NoDuplicates ==
  \A i, j \in DOMAIN constants : constants[i] = constants[j] => i = j

(* An entry, once in the table, is never overwritten or moved: CGN inserts *)
(* while indices stored on nodes by CST are still to be emitted.           *)
KeepsEntries == \A i \in DOMAIN constants : /\ i \in DOMAIN constants'
                                             /\ constants'[i] = constants[i]
EntriesStay == [][KeepsEntries]_vars
=============================================================================
