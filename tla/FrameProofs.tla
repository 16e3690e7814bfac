----------------------------- MODULE FrameProofs -----------------------------
(***************************************************************************)
(* Proofs about Frame, for every list of names and every bound.  FrameInv  *)
(* adds to the properties what they rest on: how far the count of slots    *)
(* has come, and where exactly the temporaries lie.                        *)
(***************************************************************************)
EXTENDS Frame, SequenceTheorems, TLAPS

(* The slots: equal slots are equal names, and the count has only fallen   *)
(* behind the table if a name was repeated.                                *)
SlotInv ==
  /\ SlotsFollowNames
  /\ SlotIsIndexInPrefix
  /\ DistinctPrefix(Len(slot)) => current = Len(slot)

(* The temporaries: the literals being built take consecutive slots behind *)
(* those that all fill statements so far have used up.                     *)
TempInv ==
  /\ pc = "slots" => fills = 0 /\ literals = <<>>
  /\ pc = "body" => total = current + Reserve
  /\ offset = 3 * fills + Len(literals)
  /\ \A k \in DOMAIN literals : literals[k] = current + 3 * fills + k - 1
  /\ \A t \in fill : current <= t /\ t < current + 3 * fills

FrameInv == TypeOK /\ SlotInv /\ TempInv

(* An action that leaves the slots alone keeps SlotInv.                    *)
LEMMA SlotsKept ==
  ASSUME SlotInv, UNCHANGED <<names, slot, current>>
  PROVE  SlotInv'
BY DEF SlotInv, SlotsFollowNames, SlotIsIndexInPrefix, DistinctPrefix

LEMMA InitFrame == Init => FrameInv
<1> SUFFICES ASSUME Init PROVE FrameInv
  OBVIOUS
<1>1. TypeOK
  BY FrameAssumption DEF Init, TypeOK
<1>2. SlotInv
  BY DEF Init, SlotInv, SlotsFollowNames, SlotIsIndexInPrefix, DistinctPrefix
<1>3. TempInv
  BY DEF Init, TempInv
<1> QED BY <1>1, <1>2, <1>3 DEF FrameInv

(* A name that occurred before gets the slot of its first occurrence.      *)
LEMMA RepeatedName ==
  ASSUME FrameInv, NEW j \in 1 .. Len(slot),
         Len(slot) < Len(names), names[j] = names[Len(slot) + 1],
         slot' = Append(slot, slot[j]), UNCHANGED <<names, current>>
  PROVE  SlotInv'
<1> DEFINE n == Len(slot)
<1>1. /\ n \in Nat /\ slot \in Seq(Nat) /\ current \in Nat
      /\ \A i \in 1 .. n : slot'[i] = slot[i]
      /\ slot'[n + 1] = slot[j]
      /\ DOMAIN slot' = 1 .. n + 1 /\ Len(slot') = n + 1
      /\ DOMAIN slot = 1 .. n
  BY DEF FrameInv, TypeOK
<1>2. SlotsFollowNames'
  <2> SUFFICES ASSUME NEW i \in 1 .. n + 1, NEW k \in 1 .. n + 1
               PROVE  /\ slot'[i] = slot'[k] <=> names[i] = names[k]
                      /\ slot'[i] < current
    BY <1>1 DEF SlotsFollowNames
  <2>1. \A p, q \in 1 .. n : /\ slot[p] = slot[q] <=> names[p] = names[q]
                             /\ slot[p] < current
    BY <1>1 DEF FrameInv, SlotInv, SlotsFollowNames
  <2>2. CASE i \in 1 .. n /\ k \in 1 .. n
    BY <2>1, <2>2, <1>1
  <2>3. CASE i \in 1 .. n /\ k = n + 1
    BY <2>1, <2>3, <1>1
  <2>4. CASE i = n + 1 /\ k \in 1 .. n
    BY <2>1, <2>4, <1>1
  <2>5. CASE i = n + 1 /\ k = n + 1
    BY <2>1, <2>5, <1>1
  <2> QED BY <2>2, <2>3, <2>4, <2>5, <1>1
<1>3. ~DistinctPrefix(n + 1)
  BY <1>1 DEF DistinctPrefix
<1>4. SlotIsIndexInPrefix'
  <2> SUFFICES ASSUME NEW i \in 1 .. n + 1, DistinctPrefix(i) PROVE slot'[i] = i - 1
    BY <1>1 DEF SlotIsIndexInPrefix, DistinctPrefix
  <2>1. i \in 1 .. n
    BY <1>3, <1>1
  <2> QED BY <2>1, <1>1 DEF FrameInv, SlotInv, SlotIsIndexInPrefix
<1>5. (DistinctPrefix(Len(slot)) => current = Len(slot))'
  BY <1>1, <1>3 DEF DistinctPrefix
<1> QED BY <1>2, <1>4, <1>5 DEF SlotInv

(* A name that is new gets the next slot.                                  *)
LEMMA NewName ==
  ASSUME FrameInv, Len(slot) < Len(names),
         \A j \in 1 .. Len(slot) : names[j] # names[Len(slot) + 1],
         slot' = Append(slot, current), current' = current + 1, names' = names
  PROVE  SlotInv'
<1> DEFINE n == Len(slot)
<1>1. /\ n \in Nat /\ slot \in Seq(Nat) /\ current \in Nat
      /\ \A i \in 1 .. n : slot'[i] = slot[i]
      /\ slot'[n + 1] = current
      /\ DOMAIN slot' = 1 .. n + 1 /\ Len(slot') = n + 1
      /\ DOMAIN slot = 1 .. n
  BY DEF FrameInv, TypeOK
<1> \A p \in 1 .. n : slot[p] \in Nat
  BY <1>1, ElementOfSeq
<1>2. SlotsFollowNames'
  <2> SUFFICES ASSUME NEW i \in 1 .. n + 1, NEW k \in 1 .. n + 1
               PROVE  /\ slot'[i] = slot'[k] <=> names[i] = names[k]
                      /\ slot'[i] < current + 1
    BY <1>1 DEF SlotsFollowNames
  <2>1. \A p, q \in 1 .. n : /\ slot[p] = slot[q] <=> names[p] = names[q]
                             /\ slot[p] < current
    BY <1>1 DEF FrameInv, SlotInv, SlotsFollowNames
  <2>2. CASE i \in 1 .. n /\ k \in 1 .. n
    BY <2>1, <2>2, <1>1
  <2>3. CASE i \in 1 .. n /\ k = n + 1
    BY <2>1, <2>3, <1>1
  <2>4. CASE i = n + 1 /\ k \in 1 .. n
    BY <2>1, <2>4, <1>1
  <2>5. CASE i = n + 1 /\ k = n + 1
    BY <2>5, <1>1
  <2> QED BY <2>2, <2>3, <2>4, <2>5, <1>1
<1>3. DistinctPrefix(n + 1) => DistinctPrefix(n)
  BY <1>1 DEF DistinctPrefix
<1>4. DistinctPrefix(n + 1) => current = n
  BY <1>3 DEF FrameInv, SlotInv
<1>5. SlotIsIndexInPrefix'
  <2> SUFFICES ASSUME NEW i \in 1 .. n + 1, DistinctPrefix(i) PROVE slot'[i] = i - 1
    BY <1>1 DEF SlotIsIndexInPrefix, DistinctPrefix
  <2>1. CASE i = n + 1
    BY <2>1, <1>4, <1>1
  <2>2. CASE i \in 1 .. n
    BY <2>2, <1>1 DEF FrameInv, SlotInv, SlotIsIndexInPrefix
  <2> QED BY <2>1, <2>2, <1>1
<1>6. (DistinctPrefix(Len(slot)) => current = Len(slot))'
  BY <1>1, <1>4 DEF DistinctPrefix
<1> QED BY <1>2, <1>5, <1>6 DEF SlotInv

LEMMA AssignSlotKeeps == FrameInv /\ AssignSlot => FrameInv'
<1> SUFFICES ASSUME FrameInv, AssignSlot PROVE FrameInv'
  OBVIOUS
<1> DEFINE n == Len(slot)
<1>1. /\ n \in Nat /\ slot \in Seq(Nat) /\ current \in Nat /\ n < Len(names)
      /\ pc = "slots" /\ names' = names
      /\ UNCHANGED <<pc, total, offset, literals, fill, fills>>
  BY DEF FrameInv, TypeOK, AssignSlot
<1>2. CASE /\ Earlier(n + 1) = {}
           /\ slot' = Append(slot, current) /\ current' = current + 1
  <2>1. \A j \in 1 .. n : names[j] # names[n + 1]
    BY <1>2, <1>1 DEF Earlier
  <2>2. SlotInv'
    BY <2>1, <1>2, <1>1, NewName
  <2>3. TypeOK'
    BY <1>2, <1>1 DEF FrameInv, TypeOK
  <2>4. TempInv'
    BY <1>2, <1>1 DEF FrameInv, TypeOK, TempInv
  <2> QED BY <2>2, <2>3, <2>4 DEF FrameInv
<1>3. CASE /\ Earlier(n + 1) # {}
           /\ \E j \in Earlier(n + 1) : slot' = Append(slot, slot[j])
           /\ current' = current
  <2>1. PICK j \in 1 .. n : names[j] = names[n + 1] /\ slot' = Append(slot, slot[j])
    BY <1>3, <1>1 DEF Earlier
  <2>2. SlotInv'
    BY <2>1, <1>3, <1>1, RepeatedName
  <2>3. slot' \in Seq(Nat) /\ Len(slot') = n + 1
    BY <2>1, <1>1, ElementOfSeq
  <2>4. TypeOK'
    BY <2>3, <1>3, <1>1 DEF FrameInv, TypeOK
  <2>5. TempInv'
    BY <1>3, <1>1 DEF FrameInv, TypeOK, TempInv
  <2> QED BY <2>2, <2>4, <2>5 DEF FrameInv
<1> QED BY <1>2, <1>3 DEF AssignSlot

LEMMA NextFrame == FrameInv /\ [Next]_vars => FrameInv'
<1> SUFFICES ASSUME FrameInv, [Next]_vars PROVE FrameInv'
  OBVIOUS
<1> USE DEF FrameInv, Reserve
<1>1. CASE AssignSlot
  BY <1>1, AssignSlotKeeps
<1>2. CASE SlotsDone
  <2>1. TypeOK' /\ TempInv'
    BY <1>2 DEF SlotsDone, TypeOK, TempInv
  <2> QED BY <2>1, <1>2, SlotsKept DEF SlotsDone
<1>3. CASE ArrExprEnter
  <2>1. TypeOK'
    BY <1>3 DEF ArrExprEnter, TypeOK, TempInv, Temp
  <2>2. TempInv'
    <3>1. /\ literals \in Seq(Nat) /\ current \in Nat /\ fills \in Nat
          /\ pc = "body" /\ total = current + 20 /\ offset = 3 * fills + Len(literals)
          /\ \A k \in 1 .. Len(literals) : literals[k] = current + 3 * fills + k - 1
      BY <1>3 DEF ArrExprEnter, TypeOK, TempInv
    <3>2. literals' = Append(literals, current + 3 * fills + Len(literals))
      BY <1>3, <3>1 DEF ArrExprEnter, Temp
    <3>3. \A k \in DOMAIN literals' : literals'[k] = current + 3 * fills + k - 1
      BY <3>1, <3>2
    <3> QED BY <3>1, <3>2, <3>3, <1>3 DEF ArrExprEnter, TempInv
  <2> QED BY <2>1, <2>2, <1>3, SlotsKept DEF ArrExprEnter
<1>4. CASE ArrExprExit
  <2>1. /\ Len(literals) \in Nat \ {0} /\ literals' \in Seq(Nat)
        /\ Len(literals') = Len(literals) - 1
        /\ \A k \in 1 .. Len(literals) - 1 : literals'[k] = literals[k]
    <3>1. literals \in Seq(Nat) /\ Len(literals) \in Nat \ {0}
      BY <1>4, EmptySeq DEF ArrExprExit, TypeOK
    <3> DEFINE m == Len(literals) - 1
               t == SubSeq(literals, 1, m)
    <3>2. m \in Nat /\ \A i \in 1 .. m : literals[i] \in Nat
      BY <3>1, ElementOfSeq
    <3>3. t \in Seq(Nat) /\ Len(t) = m /\ \A i \in 1 .. m : t[i] = literals[i]
      <4> HIDE DEF m
      <4> QED BY <3>2, SubSeqProperties
    <3>4. literals' = t
      BY <1>4 DEF ArrExprExit
    <3> HIDE DEF t
    <3> QED BY <3>1, <3>3, <3>4
  <2>2. TypeOK'
    BY <2>1, <1>4 DEF ArrExprExit, TypeOK, TempInv
  <2>3. TempInv'
    BY <2>1, <1>4 DEF ArrExprExit, TypeOK, TempInv
  <2> QED BY <2>2, <2>3, <1>4, SlotsKept DEF ArrExprExit
<1>5. CASE CGNassignFill
  <2>1. TypeOK'
    BY <1>5 DEF CGNassignFill, TypeOK, TempInv, Temp
  <2>2. TempInv'
    BY <1>5 DEF CGNassignFill, TypeOK, TempInv, Temp
  <2> QED BY <2>1, <2>2, <1>5, SlotsKept DEF CGNassignFill
<1>6. CASE UNCHANGED vars
  BY <1>6, SlotsKept DEF vars, TypeOK, TempInv
<1> QED BY <1>1, <1>2, <1>3, <1>4, <1>5, <1>6 DEF Next

THEOREM FrameInvariant == Spec => []FrameInv
BY InitFrame, NextFrame, PTL DEF Spec

(* The variables of the layout keep their types; above all, the offset of  *)
(* the temporaries never falls below 0, and each temporary is a slot.      *)
THEOREM FrameTypeCorrect == Spec => []TypeOK
<1>1. FrameInv => TypeOK
  BY DEF FrameInv
<1> QED BY <1>1, FrameInvariant, PTL

(* CGNfundef gives two entries of any function's table the same slot       *)
(* exactly if they have the same name.                                     *)
THEOREM FrameSlotsFollowNames == Spec => []SlotsFollowNames
<1>1. FrameInv => SlotsFollowNames
  BY DEF FrameInv, SlotInv
<1> QED BY <1>1, FrameInvariant, PTL

(* Up to the first repeated name, slots are table indices: what resolve_idx *)
(* relies on for the variables of enclosing functions.                      *)
THEOREM FrameSlotIsIndex == Spec => []SlotIsIndexInPrefix
<1>1. FrameInv => SlotIsIndexInPrefix
  BY DEF FrameInv, SlotInv
<1> QED BY <1>1, FrameInvariant, PTL

(* However literals are nested and however many fill statements there are, *)
(* no temporary lies on a variable or on one still in use.                 *)
THEOREM FrameTempsApart == Spec => []TempsApart
<1>1. FrameInv => TempsApart
  <2> SUFFICES ASSUME FrameInv PROVE TempsApart
    OBVIOUS
  <2>1. /\ slot \in Seq(Nat) /\ literals \in Seq(Nat)
        /\ current \in Nat /\ fills \in Nat /\ fill \subseteq Nat
    BY DEF FrameInv, TypeOK
  <2>2. \A i \in DOMAIN slot : slot[i] \in Nat /\ slot[i] < current
    BY <2>1 DEF FrameInv, SlotInv, SlotsFollowNames
  <2>3. /\ \A k \in DOMAIN literals : literals[k] = current + 3 * fills + k - 1 /\ k \in Nat /\ k >= 1
        /\ \A t \in fill : current <= t /\ t < current + 3 * fills /\ t \in Nat
    BY <2>1 DEF FrameInv, TempInv
  <2> QED BY <2>1, <2>2, <2>3 DEF TempsApart
<1> QED BY <1>1, FrameInvariant, PTL

(* Six fill statements and two literals in each other still fit into the   *)
(* frame; in general 3 * fills + literals up to the 20 slots reserved.     *)
THEOREM FrameFewFillsFit == Spec => []FewFillsFit
<1>1. FrameInv => FewFillsFit
  <2> SUFFICES ASSUME FrameInv, 3 * fills + Len(literals) <= Reserve PROVE InFrame
    BY DEF FewFillsFit
  <2>1. literals \in Seq(Nat) /\ current \in Nat /\ fills \in Nat /\ fill \subseteq Nat
        /\ pc \in {"slots", "body"} /\ total \in Nat
    BY DEF FrameInv, TypeOK
  <2>2. CASE pc = "slots"
    BY <2>1, <2>2 DEF FrameInv, TempInv, InFrame
  <2>3. CASE pc = "body"
    BY <2>1, <2>3 DEF FrameInv, TempInv, InFrame, Reserve
  <2> QED BY <2>1, <2>2, <2>3
<1> QED BY <1>1, FrameInvariant, PTL
=============================================================================
