------------------------------ MODULE Addresses ------------------------------
(***************************************************************************)
(* The numbers CGN (assemblycode/codegen.c) puts into the instructions     *)
(* that load and store variables, for the references Adjust leaves in the  *)
(* tree: a slot of the frame n functions out, or an index into the .global *)
(* or .importvar list of the program.  Frame models how the slots come     *)
(* about; here a slot is the number of names that came before.             *)
(***************************************************************************)
EXTENDS Adjust

(* CGNfundef: the slot of an entry is that of the first entry of its name, *)
(* and new names count up (module Frame).                                  *)
First(table, l) == Least(Named(table, table.vars[l + 1].name))
SlotIndex(table, l) ==
  Cardinality({table.vars[i].name : i \in 1 .. First(table, l)})

(* CGNprogram numbers the externs of the program table and its other       *)
(* entries separately.                                                     *)
AssemblyIndex(l) ==
  LET Alike(i) == tables[1].vars[i].isextern = tables[1].vars[l + 1].isextern
  IN  Cardinality({i \in 1 .. l : Alike(i)})

(* resolve_idx: slot_index for a variable of the function itself, the      *)
(* table index for everything else.                                        *)
(* Mutation: the table index for everything.                               *)
ResolveIdxTable(t, ref) == ref.l
ResolveIdx(t, ref) ==
  IF ref.reftype = "local" /\ ref.n = 0 THEN SlotIndex(tables[t], ref.l) ELSE ref.l

Local(ref) == ref.reftype = "local"
Home(d) == tables[d[1]]
-----------------------------------------------------------------------------
(* A load or store of a local variable, of the function itself or n        *)
(* functions out, names the slot the variable has in its frame: so for the *)
(* references RSO made, whatever names are used.                           *)
OriginalAddressesAreSlots ==
  \A k \in DOMAIN uses :
    Local(uses[k].ref) =>
      LET d == Target(uses[k])
      IN  ResolveIdx(uses[k].table, uses[k].ref) = SlotIndex(Home(d), d[2])

(* The same for the references of the copies ForToWhile and WhileToDoWhile *)
(* made and for the loop variables, in programs without name reuse.        *)
CopiedAddressesAreSlots ==
  /\ \A k \in DOMAIN refs : \A ref \in refs[k] :
       Local(ref) => LET d == Denotes(tables, uses[k].table, ref)
                     IN  ResolveIdx(uses[k].table, ref) = SlotIndex(Home(d), d[2])
  /\ \A j \in DOMAIN control :
       control[j] # None =>
         ResolveIdx(loops[j].table, control[j]) = SlotIndex(tables[loops[j].table], loops[j].idx)

(* The dimensions of a local array lie in the slots behind it, in order:   *)
(* CGNvardef, CGNvar and CGNassign address them as idx + 1 + i.            *)
DimensionSlotsFollow ==
  \A t \in DOMAIN tables \ {1} : \A i \in DOMAIN tables[t].vars :
    \A d \in 1 .. tables[t].vars[i].dim :
      SlotIndex(tables[t], i - 1 + d) = SlotIndex(tables[t], i - 1) + d

(* Every address CGN puts into an instruction for a local variable is the  *)
(* slot it has in its frame; for the copies of ForToWhile and              *)
(* WhileToDoWhile, if the loop variables have fresh names.                 *)
AddressesAreSlots == /\ OriginalAddressesAreSlots
                     /\ program.fresh => CopiedAddressesAreSlots
                     /\ DimensionSlotsFollow
=============================================================================
