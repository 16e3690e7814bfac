-------------------------- MODULE ConstTableProofs --------------------------
(***************************************************************************)
(* For every set of literals: the indices the code generator keeps on      *)
(* nodes and puts into instructions mean, in the final .const list, the    *)
(* constants they were obtained for.                                       *)
(***************************************************************************)
EXTENDS ConstTable, LeastNatural, TLAPS

(* The strengthening: every index handed out so far means its constant in  *)
(* the table as it is now, and the list, once written, is the table.       *)
Handed == \A load \in noted \cup loads : Means(constants, load)
Listed == phase = "done" => listing = constants
IInv == TypeOK /\ NoDuplicates /\ Handed /\ Listed

(* What consttable_insert does to a table without duplicates: the result   *)
(* extends the table, has no duplicates, and holds con at the index        *)
(* returned.                                                               *)
LEMMA InsertLemma ==
  ASSUME NEW table \in Seq(Constant), NEW con \in Constant,
         \A i, j \in DOMAIN table : table[i] = table[j] => i = j
  PROVE  /\ Insert(table, con) \in Seq(Constant)
         /\ Len(table) <= Len(Insert(table, con))
         /\ \A i \in DOMAIN table : Insert(table, con)[i] = table[i]
         /\ \A i, j \in DOMAIN Insert(table, con) :
              Insert(table, con)[i] = Insert(table, con)[j] => i = j
         /\ At(table, con) \in Load
         /\ At(table, con).con = con
         /\ Means(Insert(table, con), At(table, con))
<1>1. \A i \in DOMAIN table :
        /\ table[i] \in Constant
        /\ (table[i].type = con.type /\ table[i].val = con.val) => table[i] = con
  <2>1. \A c, d \in Constant : (c.type = d.type /\ c.val = d.val) => c = d
    BY SMT DEF Constant
  <2>2. \A i \in DOMAIN table : table[i] \in Constant
    OBVIOUS
  <2> QED BY <2>1, <2>2
<1>2. CASE Match(table, con) = {}
  <2>1. Insert(table, con) = Append(table, con) /\ InsertIdx(table, con) = Len(table)
    BY <1>2 DEF Insert, InsertIdx
  <2>2. \A i \in DOMAIN table : table[i] # con
    <3> SUFFICES ASSUME NEW i \in DOMAIN table, table[i] = con PROVE FALSE
      OBVIOUS
    <3>1. i - 1 \in 0 .. Len(table) - 1 /\ (i - 1) + 1 = i
      OBVIOUS
    <3>2. i - 1 \in Match(table, con)
      BY <3>1 DEF Match
    <3> QED BY <1>2, <3>2
  <2>3. At(table, con) = [con |-> con, idx |-> Len(table)]
    BY <2>1 DEF At
  <2> QED BY <2>1, <2>2, <2>3 DEF Load, Means
<1>3. CASE Match(table, con) # {}
  <2>1. Insert(table, con) = table
    BY <1>3 DEF Insert
  <2>2. PICK m \in Match(table, con) : \A j \in Match(table, con) : m <= j
    <3>1. Match(table, con) \in SUBSET Nat
      BY DEF Match
    <3> QED BY <1>3, <3>1, LeastNat
  <2>3. /\ InsertIdx(table, con) \in Match(table, con)
    BY <1>3, <2>2 DEF InsertIdx
  <2>4. /\ InsertIdx(table, con) \in Nat
        /\ InsertIdx(table, con) < Len(table)
        /\ table[InsertIdx(table, con) + 1] = con
    <3>1. InsertIdx(table, con) + 1 \in DOMAIN table
      BY <2>3 DEF Match
    <3> QED BY <1>1, <2>3, <3>1 DEF Match
  <2>5. At(table, con) = [con |-> con, idx |-> InsertIdx(table, con)]
    BY DEF At
  <2> QED BY <2>1, <2>4, <2>5 DEF Load, Means
<1> QED BY <1>2, <1>3

(* The table grows by Insert only: what held of an index still holds.      *)
LEMMA HandedStays ==
  ASSUME NEW table, NEW more, NEW load \in Load,
         Len(table) \in Nat, Len(more) \in Nat, DOMAIN table = 1 .. Len(table),
         Len(table) <= Len(more), \A i \in DOMAIN table : more[i] = table[i],
         Means(table, load)
  PROVE  Means(more, load)
<1>1. load.idx \in Nat
  BY DEF Load
<1> QED BY <1>1 DEF Means

LEMMA InitInv == Init => IInv
BY DEF Init, IInv, TypeOK, NoDuplicates, Handed, Listed, Constant, Load

(* Inserting one constant and noting its index, in any of the traversals.  *)
LEMMA InsertKeepsInv ==
  ASSUME IInv, ConstAssumption, NEW con \in Constant, constants' = Insert(constants, con)
  PROVE  /\ constants' \in Seq(Constant)
         /\ NoDuplicates'
         /\ \A i \in DOMAIN constants : i \in DOMAIN constants' /\ constants'[i] = constants[i]
         /\ At(constants, con) \in Load
         /\ \A load \in noted \cup loads \cup {At(constants, con)} : Means(constants', load)
<1>1. constants \in Seq(Constant) /\ noted \cup loads \subseteq Load
  BY DEF IInv, TypeOK
<1>2. \A i, j \in DOMAIN constants : constants[i] = constants[j] => i = j
  BY DEF IInv, NoDuplicates
<1>3. /\ constants' \in Seq(Constant)
      /\ Len(constants) <= Len(constants')
      /\ \A i \in DOMAIN constants : constants'[i] = constants[i]
      /\ \A i, j \in DOMAIN constants' : constants'[i] = constants'[j] => i = j
      /\ At(constants, con) \in Load
      /\ Means(constants', At(constants, con))
  <2> DEFINE t == Insert(constants, con)
  <2>1. /\ t \in Seq(Constant)
        /\ Len(constants) <= Len(t)
        /\ \A i \in DOMAIN constants : t[i] = constants[i]
        /\ \A i, j \in DOMAIN t : t[i] = t[j] => i = j
        /\ At(constants, con) \in Load
        /\ Means(t, At(constants, con))
    BY <1>1, <1>2, InsertLemma
  <2>2. constants' = t
    OBVIOUS
  <2> QED BY ONLY <2>1, <2>2
<1>4. \A load \in noted \cup loads : Means(constants', load)
  BY <1>1, <1>3, HandedStays DEF IInv, Handed
<1>5. \A i \in DOMAIN constants : i \in DOMAIN constants'
  BY <1>1, <1>3
<1> QED BY <1>3, <1>4, <1>5 DEF NoDuplicates

LEMMA NextInv ==
  ASSUME IInv, ConstAssumption, [Next]_vars
  PROVE  /\ IInv'
         /\ \A i \in DOMAIN constants : i \in DOMAIN constants' /\ constants'[i] = constants[i]
<1> USE DEF IInv, TypeOK
<1>1. ASSUME NEW con \in Constant, CSTliteral(con)
      PROVE  /\ IInv'
             /\ \A i \in DOMAIN constants : i \in DOMAIN constants' /\ constants'[i] = constants[i]
  BY <1>1, InsertKeepsInv DEF CSTliteral, Handed, Listed
<1>2. CASE CSTnum
  BY <1>1, <1>2 DEF CSTnum, ConstI, Constant
<1>3. CASE CSTfloat
  BY <1>1, <1>3 DEF CSTfloat, ConstF, Constant
<1>4. CASE CGNprogram
  <2> DEFINE with0 == Insert(constants, ConstI(0))
             n1 == At(constants, ConstI(0))
             n2 == At(with0, ConstF(0))
  <2>1. ConstI(0) \in Constant /\ ConstF(0) \in Constant
    BY DEF ConstAssumption, ConstI, ConstF, Constant
  <2>2. /\ phase' = "cgn"
        /\ constants' = Insert(with0, ConstF(0))
        /\ noted' = noted \cup {n1, n2}
        /\ loads' = loads /\ listing' = listing
    BY <1>4 DEF CGNprogram
  <2>3. /\ with0 \in Seq(Constant)
        /\ \A i \in DOMAIN constants : with0[i] = constants[i]
        /\ Len(constants) <= Len(with0)
        /\ \A i, j \in DOMAIN with0 : with0[i] = with0[j] => i = j
        /\ n1 \in Load /\ Means(with0, n1)
    BY <2>1, InsertLemma DEF NoDuplicates
  <2> HIDE DEF with0, n1
  <2>4. /\ constants' \in Seq(Constant)
        /\ \A i \in DOMAIN with0 : constants'[i] = with0[i]
        /\ Len(with0) <= Len(constants')
        /\ \A i, j \in DOMAIN constants' : constants'[i] = constants'[j] => i = j
        /\ n2 \in Load /\ Means(constants', n2)
    <3> DEFINE t == Insert(with0, ConstF(0))
    <3>1. /\ t \in Seq(Constant)
          /\ \A i \in DOMAIN with0 : t[i] = with0[i]
          /\ Len(with0) <= Len(t)
          /\ \A i, j \in DOMAIN t : t[i] = t[j] => i = j
          /\ n2 \in Load /\ Means(t, n2)
      BY <2>1, <2>3, InsertLemma
    <3>2. constants' = t
      BY <2>2
    <3> QED BY ONLY <3>1, <3>2
  <2> HIDE DEF n2
  <2>5. Means(constants', n1)
    BY <2>3, <2>4, HandedStays
  <2>6. \A i \in DOMAIN constants : i \in DOMAIN constants' /\ constants'[i] = constants[i]
    BY <2>3, <2>4
  <2>7. \A load \in noted \cup loads : Means(constants', load)
    <3>1. Len(constants) <= Len(constants')
      BY <2>3, <2>4
    <3> QED BY <2>4, <2>6, <3>1, HandedStays DEF Handed
  <2> QED BY <2>2, <2>3, <2>4, <2>5, <2>6, <2>7 DEF Handed, Listed, NoDuplicates
<1>5. ASSUME NEW n \in noted, CGNloadNoted(n) PROVE IInv' /\ constants' = constants
  BY <1>5 DEF CGNloadNoted, Handed, Listed, NoDuplicates
<1>6. ASSUME NEW v \in Ints, CGNloadFresh(v)
      PROVE  /\ IInv'
             /\ \A i \in DOMAIN constants : i \in DOMAIN constants' /\ constants'[i] = constants[i]
  <2>1. ConstI(v) \in Constant
    BY DEF ConstI, Constant
  <2> QED BY <1>6, <2>1, InsertKeepsInv DEF CGNloadFresh, Handed, Listed
<1>7. CASE CGNconstList
  BY <1>7 DEF CGNconstList, Handed, Listed, NoDuplicates
<1>8. CASE UNCHANGED vars
  BY <1>8 DEF vars, Handed, Listed, NoDuplicates, Means
<1> QED BY <1>2, <1>3, <1>4, <1>5, <1>6, <1>7, <1>8 DEF Next

(* The inductive invariant.                                                *)
THEOREM ConstInvariant == Spec => []IInv
<1>1. IInv /\ [Next]_vars => IInv'
  BY ConstAssumption, NextInv
<1> QED BY InitInv, <1>1, PTL DEF Spec

(* Every variable has its type in every state, for any sets of literals.   *)
THEOREM ConstTypeCorrect == Spec => []TypeOK
<1>1. IInv => TypeOK
  BY DEF IInv
<1> QED BY <1>1, ConstInvariant, PTL

(* consttable_insert never leaves two equal entries in the table.          *)
THEOREM ConstNoDuplicates == Spec => []NoDuplicates
<1>1. IInv => NoDuplicates
  BY DEF IInv
<1> QED BY <1>1, ConstInvariant, PTL

(* Every load CGN emits finds its constant in the .const list.             *)
THEOREM ConstLoadsCorrect == Spec => []LoadsMeanTheirConstant
<1>1. IInv => LoadsMeanTheirConstant
  BY DEF IInv, Handed, Listed, LoadsMeanTheirConstant
<1> QED BY <1>1, ConstInvariant, PTL

(* No step of CST or CGN overwrites or moves an entry of the table.        *)
THEOREM ConstEntriesStay == Spec => EntriesStay
<1>1. IInv /\ [Next]_vars => [KeepsEntries]_vars
  BY ConstAssumption, NextInv DEF KeepsEntries
<1> QED BY <1>1, ConstInvariant, PTL DEF Spec, EntriesStay
=============================================================================
