-------------------------------- MODULE Frame --------------------------------
(***************************************************************************)
(* The stack frame CGN (assemblycode/codegen.c) lays out for one function: *)
(* CGNfundef gives every entry of the variable table a slot, one slot per  *)
(* name, and reserves some more; CGNarrexpr takes a reserved slot for each *)
(* array literal while its elements are stored, and CGNassign three for    *)
(* each statement that fills an array with one scalar.  CGNfunbody enters  *)
(* the subroutine with as many slots as were counted (esr).                *)
(***************************************************************************)
EXTENDS Integers, Sequences

CONSTANTS Names,       \* names of table entries
          MaxEntries,  \* bound: entries of the variable table
          MaxFills,    \* bound: fill statements in the function
          MaxNesting   \* bound: array literals around each other (an element
                       \* may be a call with an array literal as argument)

ASSUME FrameAssumption == {MaxEntries, MaxFills, MaxNesting} \subseteq Nat

Reserve == 20

VARIABLES pc,       \* "slots" (the loop of CGNfundef), then "body"
          names,    \* the names of data->variables, in order
          slot,     \* slot_index of the entries done so far
          current,  \* current_slot
          total,    \* data->total_slots
          offset,   \* data->arrexpr_slot_offset
          literals, \* temp_slot of the array literals being built
          fill,     \* the three temporaries of the latest fill statement
          fills     \* number of fill statements (counted for the bound)

vars == <<pc, names, slot, current, total, offset, literals, fill, fills>>

Init == /\ pc = "slots"
        /\ names \in UNION {[1 .. n -> Names] : n \in 0 .. MaxEntries}
        /\ slot = <<>>
        /\ current = 0
        /\ total = 0
        /\ offset = 0
        /\ literals = <<>>
        /\ fill = {}
        /\ fills = 0

(* One round of the loop: the slot of the first earlier entry of the same  *)
(* name, or a new one.                                                     *)
Earlier(i) == {j \in 1 .. i - 1 : names[j] = names[i]}
AssignSlot ==
  /\ pc = "slots" /\ Len(slot) < Len(names)
  /\ LET i == Len(slot) + 1
     IN  \/ /\ Earlier(i) = {}
            /\ slot' = Append(slot, current)
            /\ current' = current + 1
         \/ /\ Earlier(i) # {}
            /\ \E j \in Earlier(i) : /\ \A k \in Earlier(i) : j <= k
                                     /\ slot' = Append(slot, slot[j])
            /\ UNCHANGED current
  /\ UNCHANGED <<pc, names, total, offset, literals, fill, fills>>

SlotsDone ==
  /\ pc = "slots" /\ Len(slot) = Len(names)
  /\ pc' = "body"
  /\ total' = current + Reserve
  /\ UNCHANGED <<names, slot, current, offset, literals, fill, fills>>

(* The temporary slot number k from the current offset on.                 *)
(* Mutation: behind the reserved slots.                                    *)
TempBehind(k) == total + offset + k
Temp(k) == total - Reserve + offset + k

(* CGNarrexpr before and after its elements.                               *)
(* Mutation: a literal in a literal gets the same slot.                    *)
ArrExprEnterSame ==
  /\ pc = "body" /\ Len(literals) < MaxNesting
  /\ literals' = Append(literals, Temp(0))
  /\ UNCHANGED <<pc, names, slot, current, total, offset, fill, fills>>
ArrExprEnter ==
  /\ pc = "body" /\ Len(literals) < MaxNesting
  /\ literals' = Append(literals, Temp(0))
  /\ offset' = offset + 1
  /\ UNCHANGED <<pc, names, slot, current, total, fill, fills>>

ArrExprExit ==
  /\ literals # <<>>
  /\ literals' = SubSeq(literals, 1, Len(literals) - 1)
  /\ offset' = offset - 1
  /\ UNCHANGED <<pc, names, slot, current, total, fill, fills>>

(* CGNassign of a scalar to an array: value, index and size.  A statement  *)
(* stands in no literal, and the offset is not taken back.  TYCassign lets *)
(* no such statement pass, but DeclarationSplitting makes it of an         *)
(* initialiser: of an array of this function, which has two entries or     *)
(* more, or of a global one in __init, whose table is empty.               *)
CGNassignFill ==
  /\ pc = "body" /\ literals = <<>> /\ fills < MaxFills
  /\ current = 0 \/ 2 * (fills + 1) <= current
  /\ fill' = {Temp(0), Temp(1), Temp(2)}
  /\ offset' = offset + 3
  /\ fills' = fills + 1
  /\ UNCHANGED <<pc, names, slot, current, total, literals>>

Next == AssignSlot \/ SlotsDone \/ ArrExprEnter \/ ArrExprExit \/ CGNassignFill

Spec == Init /\ [][Next]_vars
-----------------------------------------------------------------------------
(* Every variable has its type (struct data_cgn in main.ccn).              *)
TypeOK == /\ pc \in {"slots", "body"}
          /\ names \in Seq(Names)
          /\ slot \in Seq(Nat)
          /\ Len(slot) <= Len(names)
          /\ current \in Nat /\ total \in Nat /\ offset \in Nat /\ fills \in Nat
          /\ literals \in Seq(Nat)
          /\ fill \in SUBSET Nat

(* Two entries share a slot iff they share a name, and every slot lies     *)
(* below the count: two variables of different names never overlap.        *)
SlotsFollowNames ==
  \A i, j \in DOMAIN slot : /\ slot[i] = slot[j] <=> names[i] = names[j]
                            /\ slot[i] < current

(* As long as no name repeats, an entry's slot is its table index.  Code   *)
(* for a nested function addresses the variables of the functions around   *)
(* it by table index (resolve_idx) and relies on this.                     *)
DistinctPrefix(i) == \A j, k \in 1 .. i : names[j] = names[k] => j = k
SlotIsIndexInPrefix ==
  \A i \in DOMAIN slot : DistinctPrefix(i) => slot[i] = i - 1

(* A temporary never lies on a variable nor on the temporary of a literal  *)
(* that is still being built.                                              *)
TempsApart ==
  /\ pc = "body" => /\ \A i \in DOMAIN slot, k \in DOMAIN literals : slot[i] < literals[k]
                    /\ \A i \in DOMAIN slot, t \in fill : slot[i] < t
  /\ \A k, m \in DOMAIN literals : literals[k] = literals[m] => k = m
  /\ \A k \in DOMAIN literals : literals[k] \notin fill

(* All temporaries lie in the frame esr makes, as long as a function has   *)
(* few fill statements: each one uses up three of the reserved slots.      *)
InFrame == /\ \A k \in DOMAIN literals : literals[k] < total
           /\ \A t \in fill : t < total
FewFillsFit == 3 * fills + Len(literals) <= Reserve => InFrame
=============================================================================
