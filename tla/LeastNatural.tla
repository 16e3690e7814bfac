---------------------------- MODULE LeastNatural ----------------------------
(***************************************************************************)
(* Every non-empty set of naturals has a least element.  The tables of the *)
(* compiler are searched from index 0 on, and scope chains from the        *)
(* innermost table on; what such a search returns is a least element.      *)
(***************************************************************************)
EXTENDS Integers, FiniteSetTheorems, TLAPS

(* The sets of the elements up to each element are finite, and strict      *)
(* inclusion is well founded on finite sets.                               *)
LEMMA LeastNat ==
  ASSUME NEW S \in SUBSET Nat, S # {}
  PROVE  \E m \in S : \A k \in S : m <= k
<1> DEFINE UpTo(k) == {j \in S : j <= k}
           T == {UpTo(k) : k \in S}
<1>1. IsWellFoundedOn(StrictSubsetOrdering(S), FiniteSubsetsOf(S))
  BY FS_StrictSubsetOrderingWellFounded
<1>2. \A k \in S : UpTo(k) \in SUBSET S /\ IsFiniteSet(UpTo(k))
  <2> TAKE k \in S
  <2>1. k \in Nat
    OBVIOUS
  <2>2. UpTo(k) \in SUBSET Nat /\ \A j \in UpTo(k) : j <= k
    OBVIOUS
  <2>3. IsFiniteSet(UpTo(k))
    BY <2>1, <2>2, FS_BoundedSetOfNaturals
  <2> QED BY <2>3
<1>3. T \subseteq FiniteSubsetsOf(S) /\ T # {}
  BY <1>2 DEF FiniteSubsetsOf
<1> HIDE DEF T
<1>4. \E X \in T : \A Y \in T : <<Y, X>> \notin StrictSubsetOrdering(S)
  BY <1>1, <1>3, WFMin
<1>5. PICK m \in S : \A Y \in T : <<Y, UpTo(m)>> \notin StrictSubsetOrdering(S)
  BY <1>4 DEF T
<1>6. SUFFICES ASSUME NEW k \in S, k < m PROVE FALSE
  OBVIOUS
<1>7. k \in Nat /\ m \in Nat
  OBVIOUS
<1>8. m \in UpTo(m) /\ m \notin UpTo(k) /\ \A j \in S : j <= k => j <= m
  BY <1>6, <1>7
<1>9. <<UpTo(k), UpTo(m)>> \in StrictSubsetOrdering(S)
  BY <1>8 DEF StrictSubsetOrdering
<1>10. UpTo(k) \in T
  BY DEF T
<1> QED BY <1>5, <1>9, <1>10

(* A loop over n rounds, from a on: g is what there is after each round,   *)
(* F[i] what the i-th one does.                                            *)
Loop(n, S, a, F, g) ==
  /\ g \in [0..n -> S]
  /\ g[0] = a
  /\ \A i \in 1..n : g[i] = F[i][g[i - 1]]

LEMMA LoopExists ==
  ASSUME NEW n \in Nat, NEW S, NEW a \in S, NEW F \in [1..n -> [S -> S]]
  PROVE  \E g : Loop(n, S, a, F, g)
<1> DEFINE Bad == {m \in 0..n : ~\E g : Loop(m, S, a, F, g)}
<1>1. SUFFICES ASSUME Bad # {} PROVE FALSE
  <2>1. n \in 0..n /\ (n \notin Bad => \E g : Loop(n, S, a, F, g))
    OBVIOUS
  <2> QED BY <2>1
<1>2. PICK m \in Bad : \A k \in Bad : m <= k
  <2>1. Bad \in SUBSET Nat
    OBVIOUS
  <2> QED BY <1>1, <2>1, LeastNat
<1>3. m \in 0..n /\ ~\E g : Loop(m, S, a, F, g)
  OBVIOUS
<1>4. CASE m = 0
  <2> DEFINE g == [i \in 0..0 |-> a]
  <2>1. g \in [0..0 -> S] /\ g[0] = a /\ 1..0 = {}
    OBVIOUS
  <2> HIDE DEF g
  <2>2. Loop(0, S, a, F, g)
    BY <2>1 DEF Loop
  <2> QED BY <1>3, <1>4, <2>2
<1>5. CASE m # 0
  <2>1. m - 1 \in 0..n /\ m - 1 \notin Bad /\ m \in 1..n
    BY <1>2, <1>3, <1>5
  <2>2. PICK h : Loop(m - 1, S, a, F, h)
    BY <2>1
  <2> DEFINE g == [i \in 0..m |-> IF i = m THEN F[m][h[m - 1]] ELSE h[i]]
  <2>3. h[m - 1] \in S
    BY <2>1, <2>2 DEF Loop
  <2>4. F[m][h[m - 1]] \in S
    BY <2>1, <2>3
  <2>5. g \in [0..m -> S]
    BY <2>1, <2>2, <2>4 DEF Loop
  <2>6. g[0] = a
    BY <1>3, <1>5, <2>2 DEF Loop
  <2>7. \A i \in 1..m : g[i] = F[i][g[i - 1]]
    <3> SUFFICES ASSUME NEW i \in 1..m PROVE g[i] = F[i][g[i - 1]]
      OBVIOUS
    <3>1. i \in 0..m /\ i - 1 \in 0..m /\ i - 1 # m
      BY <2>1
    <3>2. g[i - 1] = h[i - 1]
      BY <3>1
    <3>3. CASE i = m
      BY <3>1, <3>2, <3>3
    <3>4. CASE i # m
      BY <2>1, <2>2, <3>1, <3>2, <3>4 DEF Loop
    <3> QED BY <3>3, <3>4
  <2> HIDE DEF g
  <2>8. Loop(m, S, a, F, g)
    BY <2>5, <2>6, <2>7 DEF Loop
  <2> QED BY <1>3, <2>8
<1> QED BY <1>4, <1>5
=============================================================================
