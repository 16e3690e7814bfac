--------------------------- MODULE HashTableProofs ---------------------------
(***************************************************************************)
(* The hash table implements a map, for every set of keys and values,      *)
(* every hash function and every number of buckets, and an iteration       *)
(* misses no key.                                                          *)
(***************************************************************************)
EXTENDS HashTable, LeastNatural, SequenceTheorems, TLAPS

Tables == [Buckets -> Seq(Entry)]

\* A chain in which every key has one place at most, in its own bucket.
ChainOK(c, b) ==
  \A i \in DOMAIN c :
    /\ Index(c[i].key) = b
    /\ \A j \in DOMAIN c : c[i].key = c[j].key => i = j

Unique(t) == \A b \in Buckets : ChainOK(t[b], b)

HashInv ==
  /\ entries \in Tables
  /\ Unique(entries)
  /\ iter \in {NoIter} \cup [bucket : Buckets, key : Keys]
  /\ IteratorIsInTable

\* The value of a key in a table, as a relation.
InChain(c, k, v) == \E i \in DOMAIN c : c[i] = [key |-> k, value |-> v]
Holds(t, k, v) == InChain(t[Index(k)], k, v)

ContentsOf(t) == [k \in KeysIn(t) |-> t[Index(k)][At(t[Index(k)], k)].value]

LEMMA IndexIsBucket == ASSUME NEW k \in Keys PROVE Index(k) \in Buckets
<1>1. Hash[k] \in Nat
  BY HashAssumption
<1>2. \A h \in Nat : h % Size \in 0..(Size - 1)
  BY SizeAssumption
<1> QED BY <1>1, <1>2 DEF Index, Buckets

\* In a table with unique keys the contents are what the relation says.
LEMMA ContentsHold ==
  ASSUME NEW t \in Tables, Unique(t)
  PROVE  /\ \A k \in Keys, v \in Values :
              Holds(t, k, v) <=> k \in KeysIn(t) /\ ContentsOf(t)[k] = v
         /\ \A k \in KeysIn(t) : k \in Keys /\ ContentsOf(t)[k] \in Values
<1>1. ASSUME NEW k \in KeysIn(t)
      PROVE  LET c == t[Index(k)]
             IN  /\ k \in Keys /\ c \in Seq(Entry) /\ At(c, k) \in DOMAIN c
                 /\ c[At(c, k)] = [key |-> k, value |-> ContentsOf(t)[k]]
                 /\ ContentsOf(t)[k] \in Values
  <2>1. PICK b \in Buckets : HasKey(t[b], k)
    BY DEF KeysIn
  <2>2. PICK i \in DOMAIN t[b] : t[b][i].key = k
    BY <2>1 DEF HasKey
  <2>3. k \in Keys /\ b = Index(k)
    BY <2>2 DEF Unique, ChainOK, KeysIn
  <2> DEFINE c == t[Index(k)]
  <2>4. c \in Seq(Entry) /\ \E j \in DOMAIN c : c[j].key = k
    BY <2>2, <2>3 DEF Tables
  <2>5. At(c, k) \in DOMAIN c /\ c[At(c, k)].key = k
    BY <2>4 DEF At
  <2>6. c[At(c, k)] \in Entry
    BY <2>4, <2>5, LenProperties, ElementOfSeq
  <2>7. ContentsOf(t)[k] = c[At(c, k)].value
    BY DEF ContentsOf
  <2> QED BY <2>3, <2>4, <2>5, <2>6, <2>7 DEF Entry
<1>2. ASSUME NEW k \in Keys, NEW v \in Values, Holds(t, k, v)
      PROVE  k \in KeysIn(t) /\ ContentsOf(t)[k] = v
  <2> DEFINE c == t[Index(k)]
  <2>1. PICK i \in DOMAIN c : c[i] = [key |-> k, value |-> v]
    BY <1>2 DEF Holds, InChain
  <2>2. c[i].key = k /\ c[i].value = v
    BY <2>1
  <2>3. k \in KeysIn(t)
    BY <2>2, IndexIsBucket DEF KeysIn, HasKey
  <2>4. At(c, k) \in DOMAIN c /\ c[At(c, k)] = [key |-> k, value |-> ContentsOf(t)[k]]
    BY <1>1, <2>3
  <2>5. c[At(c, k)].key = k /\ c[At(c, k)].value = ContentsOf(t)[k]
    BY <2>4
  <2>6. i = At(c, k)
    BY <2>2, <2>4, <2>5, IndexIsBucket DEF Unique, ChainOK
  <2> QED BY <2>2, <2>3, <2>5, <2>6
<1>3. ASSUME NEW k \in Keys, NEW v \in Values, k \in KeysIn(t), ContentsOf(t)[k] = v
      PROVE  Holds(t, k, v)
  BY <1>1, <1>3 DEF Holds, InChain
<1> QED BY <1>1, <1>2, <1>3

\* A table is known by what it holds.
LEMMA ContentsKnown ==
  ASSUME NEW t \in Tables, Unique(t), NEW S \in SUBSET Keys, NEW f \in [S -> Values],
         \A k \in Keys, v \in Values : Holds(t, k, v) <=> k \in S /\ f[k] = v
  PROVE  ContentsOf(t) = f
<1>1. ASSUME NEW k \in Keys
      PROVE  k \in KeysIn(t) <=> k \in S
  BY ContentsHold
<1>2. KeysIn(t) = S
  BY <1>1 DEF KeysIn
<1>3. ASSUME NEW k \in S
      PROVE  ContentsOf(t)[k] = f[k]
  BY <1>2, ContentsHold
<1>4. ContentsOf(t) = [k \in S |-> ContentsOf(t)[k]]
  BY <1>2 DEF ContentsOf
<1> QED BY <1>3, <1>4

Updated(c, k, v) == [c EXCEPT ![At(c, k)].value = v]

\* Setting the value of an entry.
LEMMA ChainUpdate ==
  ASSUME NEW b, NEW c \in Seq(Entry), ChainOK(c, b), NEW k \in Keys, HasKey(c, k),
         NEW v \in Values
  PROVE  LET d == Updated(c, k, v)
         IN  /\ d \in Seq(Entry) /\ ChainOK(d, b)
             /\ \A x \in Keys : HasKey(c, x) => HasKey(d, x)
             /\ \A x \in Keys, w \in Values :
                  InChain(d, x, w) <=> IF x = k THEN w = v ELSE InChain(c, x, w)
<1> DEFINE a == At(c, k)
           e == [c[a] EXCEPT !.value = v]
           d == Updated(c, k, v)
<1>1. a \in DOMAIN c /\ c[a].key = k
  BY DEF At, HasKey
<1>2. DOMAIN c = 1..Len(c) /\ Len(c) \in Nat /\ \A i \in DOMAIN c : c[i] \in Entry
  BY LenProperties, ElementOfSeq
<1>3. e \in Entry /\ e = [key |-> k, value |-> v]
  BY <1>1, <1>2 DEF Entry
<1>4. d = [c EXCEPT ![a] = e]
  BY DEF Updated
<1> HIDE DEF a, e, d
<1>5. /\ d \in Seq(Entry) /\ Len(d) = Len(c)
      /\ \A i \in 1..Len(c) : d[i] = IF i = a THEN e ELSE c[i]
  BY <1>1, <1>2, <1>3, <1>4, ExceptSeq
<1>6. DOMAIN d = DOMAIN c
  BY <1>2, <1>5, LenProperties
<1>7. \A i \in DOMAIN c : d[i].key = c[i].key
  BY <1>1, <1>2, <1>3, <1>5
<1>8. ChainOK(d, b)
  BY <1>6, <1>7 DEF ChainOK
<1>9. \A x \in Keys : HasKey(c, x) => HasKey(d, x)
  BY <1>6, <1>7 DEF HasKey
<1>10. ASSUME NEW x \in Keys, NEW w \in Values
       PROVE  InChain(d, x, w) <=> IF x = k THEN w = v ELSE InChain(c, x, w)
  <2>1. CASE x = k
    <3>1. ASSUME InChain(d, x, w) PROVE w = v
      <4>1. PICK i \in DOMAIN d : d[i] = [key |-> x, value |-> w]
        BY <3>1 DEF InChain
      <4>2. c[i].key = k /\ i \in DOMAIN c
        BY <2>1, <4>1, <1>6, <1>7
      <4>3. i = a
        BY <1>1, <4>2 DEF ChainOK
      <4> QED BY <1>2, <1>3, <1>5, <4>1, <4>2, <4>3
    <3>2. ASSUME w = v PROVE InChain(d, x, w)
      BY <1>1, <1>2, <1>3, <1>5, <1>6, <2>1, <3>2 DEF InChain
    <3> QED BY <2>1, <3>1, <3>2
  <2>2. CASE x # k
    <3>1. ASSUME NEW i \in DOMAIN c
          PROVE  d[i] = [key |-> x, value |-> w] <=> c[i] = [key |-> x, value |-> w]
      BY <1>1, <1>2, <1>3, <1>5, <2>2
    <3> QED BY <1>6, <2>2, <3>1 DEF InChain
  <2> QED BY <2>1, <2>2
<1> QED BY <1>5, <1>8, <1>9, <1>10 DEF d

\* An entry at the end of a chain.
LEMMA ChainAppend ==
  ASSUME NEW b, NEW c \in Seq(Entry), ChainOK(c, b), NEW k \in Keys, ~HasKey(c, k),
         Index(k) = b, NEW v \in Values
  PROVE  LET d == Append(c, [key |-> k, value |-> v])
         IN  /\ d \in Seq(Entry) /\ ChainOK(d, b)
             /\ \A x \in Keys : HasKey(c, x) => HasKey(d, x)
             /\ \A x \in Keys, w \in Values :
                  InChain(d, x, w) <=> IF x = k THEN w = v ELSE InChain(c, x, w)
<1> DEFINE e == [key |-> k, value |-> v]
           d == Append(c, e)
           n == Len(c)
<1>1. DOMAIN c = 1..n /\ n \in Nat /\ \A i \in 1..n : c[i] \in Entry
  BY LenProperties, ElementOfSeq
<1>2. e \in Entry /\ e.key = k /\ e.value = v
  BY DEF Entry
<1> HIDE DEF e
<1>3. /\ d \in Seq(Entry) /\ Len(d) = n + 1 /\ d[n + 1] = e
      /\ \A i \in 1..n : d[i] = c[i]
  BY <1>2, AppendProperties
<1>4. DOMAIN d = 1..(n + 1)
  BY <1>3, LenProperties
<1> HIDE DEF d, n
<1>5. \A i \in 1..n : c[i].key # k
  BY <1>1 DEF HasKey
<1>6. ChainOK(d, b)
  <2> SUFFICES ASSUME NEW i \in 1..(n + 1), NEW j \in 1..(n + 1)
               PROVE  Index(d[i].key) = b /\ (d[i].key = d[j].key => i = j)
    BY <1>4 DEF ChainOK
  <2>1. (i \in 1..n \/ i = n + 1) /\ (j \in 1..n \/ j = n + 1)
    BY <1>1
  <2> QED BY <1>1, <1>2, <1>3, <1>5, <2>1 DEF ChainOK
<1>7. \A x \in Keys : HasKey(c, x) => HasKey(d, x)
  BY <1>1, <1>3, <1>4 DEF HasKey
<1>8. ASSUME NEW x \in Keys, NEW w \in Values
      PROVE  InChain(d, x, w) <=> IF x = k THEN w = v ELSE InChain(c, x, w)
  <2>1. InChain(d, x, w) <=> (e = [key |-> x, value |-> w] \/ InChain(c, x, w))
    <3>1. \A i : i \in 1..(n + 1) <=> i \in 1..n \/ i = n + 1
      BY <1>1
    <3> QED BY <1>1, <1>3, <1>4, <3>1 DEF InChain
  <2>2. e = [key |-> x, value |-> w] <=> x = k /\ w = v
    BY DEF e
  <2>3. x = k => ~InChain(c, x, w)
    BY <1>1, <1>5 DEF InChain
  <2> QED BY <2>1, <2>2, <2>3
<1> QED BY <1>3, <1>6, <1>7, <1>8 DEF d, e

\* A chain from which the entry of a key was taken.
LEMMA ChainWithout ==
  ASSUME NEW b, NEW c \in Seq(Entry), ChainOK(c, b), NEW k \in Keys
  PROVE  LET d == Without(c, k)
         IN  /\ d \in Seq(Entry) /\ ChainOK(d, b)
             /\ \A x \in Keys \ {k} : HasKey(c, x) => HasKey(d, x)
             /\ \A x \in Keys, w \in Values :
                  InChain(d, x, w) <=> x # k /\ InChain(c, x, w)
<1> DEFINE n == Len(c)
<1>1. DOMAIN c = 1..n /\ n \in Nat /\ \A i \in 1..n : c[i] \in Entry
  BY LenProperties, ElementOfSeq
<1>2. CASE ~HasKey(c, k)
  <2>1. Without(c, k) = c
    BY <1>2 DEF Without
  <2>2. \A w : ~InChain(c, k, w)
    BY <1>2 DEF InChain, HasKey
  <2> QED BY <2>1, <2>2
<1>3. CASE HasKey(c, k)
  <2> DEFINE a == At(c, k)
             d == [j \in 1..(n - 1) |-> IF j < a THEN c[j] ELSE c[j + 1]]
             from(j) == IF j < a THEN j ELSE j + 1
  <2>1. a \in 1..n /\ c[a].key = k
    BY <1>1, <1>3 DEF At, HasKey
  <2>2. Without(c, k) = d
    BY <1>3 DEF Without
  <2> HIDE DEF a, n
  <2>3. \A j \in 1..(n - 1) : from(j) \in 1..n /\ from(j) # a /\ d[j] = c[from(j)]
    BY <1>1, <2>1
  <2>4. \A i \in 1..n : i # a => \E j \in 1..(n - 1) : from(j) = i
    <3> SUFFICES ASSUME NEW i \in 1..n, i # a PROVE \E j \in 1..(n - 1) : from(j) = i
      OBVIOUS
    <3>1. CASE i < a
      BY <1>1, <2>1, <3>1
    <3>2. CASE i > a
      <4>1. i - 1 \in 1..(n - 1) /\ from(i - 1) = i
        BY <1>1, <2>1, <3>2
      <4> QED BY <4>1
    <3> QED BY <1>1, <2>1, <3>1, <3>2
  <2>5. \A i, j \in 1..(n - 1) : from(i) = from(j) => i = j
    BY <1>1, <2>1
  <2> HIDE DEF from
  <2>6. d \in Seq(Entry) /\ DOMAIN d = 1..(n - 1)
    <3>1. n - 1 \in Nat /\ d \in [1..(n - 1) -> Entry]
      BY <1>1, <2>1, <2>3
    <3> HIDE DEF d
    <3> QED BY <3>1
  <2> HIDE DEF d
  <2>7. ChainOK(d, b)
    BY <1>1, <2>3, <2>5, <2>6 DEF ChainOK
  <2>8. \A i \in 1..n : i # a => c[i].key # k
    BY <1>1, <2>1 DEF ChainOK
  <2>9. \A x \in Keys \ {k} : HasKey(c, x) => HasKey(d, x)
    <3> SUFFICES ASSUME NEW x \in Keys \ {k}, NEW i \in 1..n, c[i].key = x
                 PROVE  \E j \in DOMAIN d : d[j].key = x
      BY <1>1 DEF HasKey
    <3>1. i # a
      BY <2>1
    <3>2. PICK j \in 1..(n - 1) : from(j) = i
      BY <2>4, <3>1
    <3> QED BY <2>3, <2>6, <3>2
  <2>10. ASSUME NEW x \in Keys, NEW w \in Values
         PROVE  InChain(d, x, w) <=> x # k /\ InChain(c, x, w)
    <3>1. ASSUME InChain(d, x, w) PROVE x # k /\ InChain(c, x, w)
      <4>1. PICK j \in 1..(n - 1) : d[j] = [key |-> x, value |-> w]
        BY <2>6, <3>1 DEF InChain
      <4>2. c[from(j)] = [key |-> x, value |-> w] /\ from(j) \in 1..n /\ from(j) # a
        BY <2>3, <4>1
      <4>3. c[from(j)].key = x
        BY <4>2
      <4> QED BY <1>1, <2>8, <4>2, <4>3 DEF InChain
    <3>2. ASSUME x # k, InChain(c, x, w) PROVE InChain(d, x, w)
      <4>1. PICK i \in 1..n : c[i] = [key |-> x, value |-> w]
        BY <1>1, <3>2 DEF InChain
      <4>2. c[i].key = x
        BY <4>1
      <4>3. i # a
        BY <2>1, <3>2, <4>2
      <4> QED BY <2>3, <2>4, <2>6, <4>1, <4>3 DEF InChain
    <3> QED BY <3>1, <3>2
  <2> QED BY <2>2, <2>6, <2>7, <2>9, <2>10
<1> QED BY <1>2, <1>3

\* A step that changes one chain, k's, in one of these ways.
LEMMA TableStep ==
  ASSUME NEW t \in Tables, Unique(t), NEW k \in Keys, NEW d \in Seq(Entry),
         ChainOK(d, Index(k))
  PROVE  LET u == [t EXCEPT ![Index(k)] = d]
         IN  /\ u \in Tables /\ Unique(u)
             /\ \A x \in Keys, w \in Values :
                  Holds(u, x, w) <=> InChain(IF Index(x) = Index(k) THEN d ELSE t[Index(x)], x, w)
<1>1. Index(k) \in Buckets
  BY IndexIsBucket
<1> DEFINE u == [t EXCEPT ![Index(k)] = d]
<1>2. u \in Tables /\ \A b \in Buckets : u[b] = IF b = Index(k) THEN d ELSE t[b]
  BY <1>1 DEF Tables
<1> HIDE DEF u
<1>3. Unique(u)
  BY <1>2 DEF Unique
<1>4. \A x \in Keys, w \in Values :
        Holds(u, x, w) <=> InChain(IF Index(x) = Index(k) THEN d ELSE t[Index(x)], x, w)
  BY <1>2, IndexIsBucket DEF Holds
<1> QED BY <1>2, <1>3, <1>4 DEF u

\* A key is only in its own bucket.
LEMMA TableChain ==
  ASSUME NEW t \in Tables, Unique(t), NEW k \in Keys
  PROVE  /\ t[Index(k)] \in Seq(Entry) /\ ChainOK(t[Index(k)], Index(k))
         /\ k \in KeysIn(t) <=> HasKey(t[Index(k)], k)
<1>1. Index(k) \in Buckets
  BY IndexIsBucket
<1>2. t[Index(k)] \in Seq(Entry) /\ ChainOK(t[Index(k)], Index(k))
  BY <1>1 DEF Tables, Unique
<1>3. k \in KeysIn(t) => HasKey(t[Index(k)], k)
  BY DEF KeysIn, HasKey, Unique, ChainOK
<1> QED BY <1>1, <1>2, <1>3 DEF KeysIn

LEMMA InsertTable ==
  ASSUME NEW t \in Tables, Unique(t), NEW k \in Keys, NEW v \in Values
  PROVE  LET u == Insert(t, k, v)
         IN  /\ u \in Tables /\ Unique(u)
             /\ \A b \in Buckets, x \in Keys : HasKey(t[b], x) => HasKey(u[b], x)
             /\ ContentsOf(u) = [x \in KeysIn(t) \cup {k} |->
                                  IF x = k THEN v ELSE ContentsOf(t)[x]]
<1> DEFINE b == Index(k)
           c == t[b]
           d == IF HasKey(c, k) THEN Updated(c, k, v) ELSE Append(c, [key |-> k, value |-> v])
           u == Insert(t, k, v)
           S == KeysIn(t) \cup {k}
           f == [x \in S |-> IF x = k THEN v ELSE ContentsOf(t)[x]]
<1>1. b \in Buckets /\ c \in Seq(Entry) /\ ChainOK(c, b)
  BY IndexIsBucket, TableChain
<1>2. /\ d \in Seq(Entry) /\ ChainOK(d, b)
      /\ \A x \in Keys : HasKey(c, x) => HasKey(d, x)
      /\ \A x \in Keys, w \in Values :
           InChain(d, x, w) <=> IF x = k THEN w = v ELSE InChain(c, x, w)
  <2>1. CASE HasKey(c, k)
    BY <1>1, <2>1, ChainUpdate
  <2>2. CASE ~HasKey(c, k)
    BY <1>1, <2>2, ChainAppend
  <2> QED BY <2>1, <2>2
<1>3. u = [t EXCEPT ![b] = d]
  BY DEF Insert, Updated
<1> HIDE DEF d, u
<1>4. /\ u \in Tables /\ Unique(u)
      /\ \A x \in Keys, w \in Values :
           Holds(u, x, w) <=> InChain(IF Index(x) = b THEN d ELSE t[Index(x)], x, w)
  BY <1>2, <1>3, TableStep
<1>5. \A x \in Keys, w \in Values : Holds(u, x, w) <=> IF x = k THEN w = v ELSE Holds(t, x, w)
  BY <1>2, <1>4 DEF Holds
<1>6. S \in SUBSET Keys /\ f \in [S -> Values]
  BY ContentsHold DEF KeysIn
<1>7. ASSUME NEW x \in Keys, NEW w \in Values
      PROVE  Holds(u, x, w) <=> x \in S /\ f[x] = w
  <2>1. CASE x = k
    BY <1>5, <2>1
  <2>2. CASE x # k
    <3>1. Holds(t, x, w) <=> x \in KeysIn(t) /\ ContentsOf(t)[x] = w
      BY ContentsHold
    <3> QED BY <1>5, <2>2, <3>1
  <2> QED BY <2>1, <2>2
<1>8. ContentsOf(u) = f
  <2> HIDE DEF S, f
  <2> QED BY <1>4, <1>6, <1>7, ContentsKnown
<1>9. \A a \in Buckets, x \in Keys : HasKey(t[a], x) => HasKey(u[a], x)
  BY <1>1, <1>2, <1>3 DEF Tables
<1> QED BY <1>4, <1>8, <1>9 DEF u

LEMMA InsertHolds ==
  ASSUME NEW t \in Tables, Unique(t), NEW k \in Keys, NEW v \in Values,
         NEW x \in Keys, NEW w \in Values
  PROVE  Holds(Insert(t, k, v), x, w) <=> IF x = k THEN w = v ELSE Holds(t, x, w)
<1> DEFINE f == [y \in KeysIn(t) \cup {k} |-> IF y = k THEN v ELSE ContentsOf(t)[y]]
<1>1. PICK u : u = Insert(t, k, v)
  OBVIOUS
<1>2. u \in Tables /\ Unique(u) /\ ContentsOf(u) = f
  BY <1>1, InsertTable
<1>3. Holds(u, x, w) <=> x \in KeysIn(u) /\ ContentsOf(u)[x] = w
  BY <1>2, ContentsHold
<1>4. Holds(t, x, w) <=> x \in KeysIn(t) /\ ContentsOf(t)[x] = w
  BY ContentsHold
<1>5. KeysIn(u) = KeysIn(t) \cup {k}
  <2>1. DOMAIN ContentsOf(u) = KeysIn(u)
    BY DEF ContentsOf
  <2> QED BY <1>2, <2>1
<1> QED BY <1>1, <1>2, <1>3, <1>4, <1>5

LEMMA RemoveTable ==
  ASSUME NEW t \in Tables, Unique(t), NEW k \in Keys
  PROVE  LET u == [t EXCEPT ![Index(k)] = Without(@, k)]
         IN  /\ u \in Tables /\ Unique(u)
             /\ \A b \in Buckets, x \in Keys \ {k} : HasKey(t[b], x) => HasKey(u[b], x)
             /\ ContentsOf(u) = [x \in KeysIn(t) \ {k} |-> ContentsOf(t)[x]]
<1> DEFINE b == Index(k)
           c == t[b]
           d == Without(c, k)
           u == [t EXCEPT ![b] = d]
           S == KeysIn(t) \ {k}
           f == [x \in S |-> ContentsOf(t)[x]]
<1>1. b \in Buckets /\ c \in Seq(Entry) /\ ChainOK(c, b)
  BY IndexIsBucket, TableChain
<1>2. /\ d \in Seq(Entry) /\ ChainOK(d, b)
      /\ \A x \in Keys \ {k} : HasKey(c, x) => HasKey(d, x)
      /\ \A x \in Keys, w \in Values : InChain(d, x, w) <=> x # k /\ InChain(c, x, w)
  BY <1>1, ChainWithout
<1> HIDE DEF d
<1>3. /\ u \in Tables /\ Unique(u)
      /\ \A x \in Keys, w \in Values :
           Holds(u, x, w) <=> InChain(IF Index(x) = b THEN d ELSE t[Index(x)], x, w)
  BY <1>2, TableStep
<1>4. \A a \in Buckets, x \in Keys \ {k} : HasKey(t[a], x) => HasKey(u[a], x)
  BY <1>1, <1>2 DEF Tables
<1> HIDE DEF u
<1>5. \A x \in Keys, w \in Values : Holds(u, x, w) <=> x # k /\ Holds(t, x, w)
  BY <1>2, <1>3 DEF Holds
<1>6. S \in SUBSET Keys /\ f \in [S -> Values]
  BY ContentsHold DEF KeysIn
<1>7. ASSUME NEW x \in Keys, NEW w \in Values
      PROVE  Holds(u, x, w) <=> x \in S /\ f[x] = w
  <2>1. Holds(t, x, w) <=> x \in KeysIn(t) /\ ContentsOf(t)[x] = w
    BY ContentsHold
  <2> QED BY <1>5, <2>1
<1>8. ContentsOf(u) = f
  <2> HIDE DEF S, f
  <2> QED BY <1>3, <1>6, <1>7, ContentsKnown
<1> QED BY <1>3, <1>8, <1>4 DEF u, d

\* HTmap: every value is replaced.
LEMMA MapTable ==
  ASSUME NEW t \in Tables, Unique(t), NEW f \in [Values -> Values]
  PROVE  LET u == Mapped(t, f)
         IN  /\ u \in Tables /\ Unique(u)
             /\ \A b \in Buckets, x \in Keys : HasKey(u[b], x) <=> HasKey(t[b], x)
             /\ ContentsOf(u) = [x \in KeysIn(t) |-> f[ContentsOf(t)[x]]]
<1> DEFINE g(e) == [e EXCEPT !.value = f[@]]
           u == [b \in Buckets |-> [i \in DOMAIN t[b] |-> g(t[b][i])]]
<1>1. Mapped(t, f) = u
  BY DEF Mapped
<1>2. \A e \in Entry : g(e) \in Entry /\ g(e).key = e.key /\ g(e).value = f[e.value]
  BY DEF Entry
<1> HIDE DEF g
<1>3. ASSUME NEW b \in Buckets
      PROVE  /\ u[b] \in Seq(Entry) /\ DOMAIN u[b] = DOMAIN t[b]
             /\ \A i \in DOMAIN t[b] : t[b][i] \in Entry /\ u[b][i] = g(t[b][i])
  <2>1. t[b] \in Seq(Entry)
    BY DEF Tables
  <2>2. DOMAIN t[b] = 1..Len(t[b]) /\ Len(t[b]) \in Nat /\ \A i \in DOMAIN t[b] : t[b][i] \in Entry
    BY <2>1, LenProperties, ElementOfSeq
  <2>3. u[b] = [i \in DOMAIN t[b] |-> g(t[b][i])]
    OBVIOUS
  <2> HIDE DEF u
  <2>4. u[b] \in [1..Len(t[b]) -> Entry]
    BY <1>2, <2>2, <2>3
  <2>5. u[b] \in Seq(Entry)
    BY <2>2, <2>4
  <2> QED BY <2>2, <2>3, <2>5
<1>4. u \in Tables
  BY <1>3 DEF Tables
<1> HIDE DEF u
<1>5. Unique(u)
  BY <1>2, <1>3 DEF Unique, ChainOK
<1>6. \A b \in Buckets, x \in Keys : HasKey(u[b], x) <=> HasKey(t[b], x)
  BY <1>2, <1>3 DEF HasKey
<1>7. KeysIn(u) = KeysIn(t)
  BY <1>6 DEF KeysIn
<1>8. ASSUME NEW x \in KeysIn(t)
      PROVE  ContentsOf(u)[x] = f[ContentsOf(t)[x]]
  <2> DEFINE b == Index(x)
             w == ContentsOf(t)[x]
  <2>1. x \in Keys /\ w \in Values /\ b \in Buckets
    BY ContentsHold, IndexIsBucket
  <2>2. Holds(t, x, w)
    BY <2>1, ContentsHold
  <2>3. PICK i \in DOMAIN t[b] : t[b][i] = [key |-> x, value |-> w]
    BY <2>2 DEF Holds, InChain
  <2>4. u[b][i] \in Entry /\ u[b][i].key = x /\ u[b][i].value = f[w] /\ i \in DOMAIN u[b]
    BY <1>2, <1>3, <2>1, <2>3
  <2>5. u[b][i] = [key |-> x, value |-> f[w]]
    BY <2>4 DEF Entry
  <2>6. Holds(u, x, f[w]) /\ f[w] \in Values
    BY <2>1, <2>4, <2>5 DEF Holds, InChain
  <2> QED BY <1>4, <1>5, <2>1, <2>6, ContentsHold
<1>9. ContentsOf(u) = [x \in KeysIn(t) |-> f[ContentsOf(t)[x]]]
  BY <1>7, <1>8 DEF ContentsOf
<1> QED BY <1>1, <1>4, <1>5, <1>6, <1>9

\* What a lookup finds.
LEMMA LookupTable ==
  ASSUME NEW t \in Tables, Unique(t), NEW k \in Keys
  PROVE  LET c == t[Index(k)]
         IN  /\ HasKey(c, k) <=> k \in KeysIn(t)
             /\ HasKey(c, k) => c[At(c, k)].value = ContentsOf(t)[k]
BY TableChain DEF ContentsOf

LEMMA EmptyTable ==
  LET t == [b \in Buckets |-> << >>]
  IN  t \in Tables /\ Unique(t) /\ KeysIn(t) = {} /\ ContentsOf(t) = [k \in {} |-> NULL]
<1> DEFINE t == [b \in Buckets |-> << >>]
<1>1. t \in Tables /\ \A b \in Buckets : t[b] = << >>
  BY DEF Tables
<1> HIDE DEF t
<1>2. Unique(t)
  BY <1>1 DEF Unique, ChainOK
<1>3. KeysIn(t) = {}
  BY <1>1 DEF KeysIn, HasKey
<1>4. ContentsOf(t) = [k \in {} |-> NULL]
  BY <1>3 DEF ContentsOf
<1> QED BY <1>1, <1>2, <1>3, <1>4 DEF t

\* The loop of HTcpy over one chain: its keys get the values they have there.
LEMMA ChainCopied ==
  ASSUME NEW t \in Tables, Unique(t), NEW b, NEW c \in Seq(Entry), ChainOK(c, b)
  PROVE  LET u == WithChain(t, c)
         IN  /\ u \in Tables /\ Unique(u)
             /\ \A k \in Keys, v \in Values :
                  Holds(u, k, v) <=> IF HasKey(c, k) THEN InChain(c, k, v) ELSE Holds(t, k, v)
<1> DEFINE n == Len(c)
           S == {u \in Tables : Unique(u)}
           F == [i \in 1..n |-> [u \in S |-> Insert(u, c[i].key, c[i].value)]]
           Eq(g) == g = [i \in 0..n |-> IF i = 0 THEN t
                                       ELSE Insert(g[i - 1], c[i].key, c[i].value)]
           h == CHOOSE g : Eq(g)
<1>1. n \in Nat /\ DOMAIN c = 1..n
  BY LenProperties
<1>2. \A i \in 1..n : c[i] \in Entry /\ c[i].key \in Keys /\ c[i].value \in Values
  <2>1. \A i \in 1..n : c[i] \in Entry
    BY ElementOfSeq
  <2> QED BY <2>1 DEF Entry
<1>3. WithChain(t, c) = h[n]
  BY DEF WithChain
<1> HIDE DEF n, h
<1>4. F \in [1..n -> [S -> S]]
  BY <1>2, InsertTable
<1>5. PICK g \in [0..n -> S] : g[0] = t /\ \A i \in 1..n : g[i] = F[i][g[i - 1]]
  <2> HIDE DEF F
  <2>1. t \in S
    OBVIOUS
  <2> HIDE DEF S
  <2>2. PICK a, T, G, m : a = t /\ T = S /\ G = F /\ m = n
    OBVIOUS
  <2>3. \E g : Loop(m, T, a, G, g)
    <3>1. m \in Nat /\ a \in T /\ G \in [1..m -> [T -> T]]
      BY <1>1, <1>4, <2>1, <2>2
    <3> QED BY <3>1, LoopExists
  <2> QED BY <2>2, <2>3 DEF Loop
<1>6. \A i \in 1..n : i - 1 \in 0..n /\ g[i] = Insert(g[i - 1], c[i].key, c[i].value)
  <2> TAKE i \in 1..n
  <2>1. i - 1 \in 0..n
    BY <1>1
  <2>2. g[i - 1] \in S
    BY <2>1
  <2> QED BY <1>5, <2>1, <2>2
<1>7. Eq(g)
  BY <1>1, <1>5, <1>6
<1>8. Eq(h)
  BY <1>7 DEF h
<1> HIDE DEF F, S
<1>9. \A i \in 0..n : h[i] = g[i]
  <2> DEFINE Bad == {i \in 0..n : h[i] # g[i]}
  <2>1. SUFFICES ASSUME Bad # {} PROVE FALSE
    OBVIOUS
  <2>2. PICK m \in Bad : \A i \in Bad : m <= i
    <3>1. Bad \in SUBSET Nat
      OBVIOUS
    <3> QED BY <2>1, <3>1, LeastNat
  <2>3. m \in 0..n /\ h[m] # g[m] /\ h[0] = t
    BY <1>1, <1>8
  <2>4. m # 0
    BY <1>5, <2>3
  <2>5. m \in 1..n /\ m - 1 \in 0..n /\ m - 1 \notin Bad
    BY <1>1, <2>2, <2>3, <2>4
  <2>6. h[m - 1] = g[m - 1]
    BY <2>5
  <2>7. h[m] = Insert(h[m - 1], c[m].key, c[m].value)
    BY <1>8, <2>3, <2>4
  <2> QED BY <1>6, <2>3, <2>5, <2>6, <2>7
<1> HIDE DEF Eq
<1> DEFINE Has(i, k) == \E j \in 1..i : c[j].key = k
           In(i, k, v) == \E j \in 1..i : c[j] = [key |-> k, value |-> v]
           P(i) == \A k \in Keys, v \in Values :
                     Holds(g[i], k, v) <=> IF Has(i, k) THEN In(i, k, v) ELSE Holds(t, k, v)
<1>10. \A i \in 0..n : P(i)
  <2> DEFINE Bad == {i \in 0..n : ~P(i)}
  <2>1. SUFFICES ASSUME Bad # {} PROVE FALSE
    OBVIOUS
  <2>2. PICK m \in Bad : \A i \in Bad : m <= i
    <3>1. Bad \in SUBSET Nat
      OBVIOUS
    <3> QED BY <2>1, <3>1, LeastNat
  <2>3. m # 0
    BY <1>5, <2>2
  <2>4. m \in 1..n /\ m - 1 \in 0..n /\ P(m - 1)
    BY <1>1, <2>2, <2>3
  <2>5. SUFFICES ASSUME NEW k \in Keys, NEW v \in Values
                 PROVE  Holds(g[m], k, v) <=> IF Has(m, k) THEN In(m, k, v) ELSE Holds(t, k, v)
    BY <2>2
  <2> DEFINE e == c[m]
  <2>6. e \in Entry /\ e.key \in Keys /\ e.value \in Values
    BY <1>2, <2>4
  <2>7. Holds(g[m], k, v) <=> IF k = e.key THEN v = e.value ELSE Holds(g[m - 1], k, v)
    <3>1. PICK u, d : u = g[m - 1] /\ d = e
      OBVIOUS
    <3>2. u \in Tables /\ Unique(u) /\ g[m] = Insert(u, d.key, d.value)
      BY <1>6, <2>4, <3>1 DEF S
    <3>3. d.key \in Keys /\ d.value \in Values
      BY <2>6, <3>1
    <3> HIDE DEF e
    <3>4. Holds(g[m], k, v) <=> IF k = d.key THEN v = d.value ELSE Holds(u, k, v)
      BY <3>2, <3>3, InsertHolds
    <3> QED BY <3>1, <3>4
  <2>8. \A j : j \in 1..m <=> j \in 1..(m - 1) \/ j = m
    BY <1>1, <2>4
  <2>9. Has(m, k) <=> Has(m - 1, k) \/ e.key = k
    BY <2>8
  <2>10. In(m, k, v) <=> In(m - 1, k, v) \/ e = [key |-> k, value |-> v]
    BY <2>8
  <2>11. e = [key |-> k, value |-> v] <=> e.key = k /\ e.value = v
    BY <2>6 DEF Entry
  <2>12. e.key = k => ~Has(m - 1, k) /\ ~In(m - 1, k, v)
    <3>1. \A j \in 1..(m - 1) : j \in 1..n /\ j # m
      BY <1>1, <2>4
    <3>2. \A j \in 1..(m - 1) : c[j].key = e.key => FALSE
      BY <1>1, <2>4, <3>1 DEF ChainOK
    <3>3. [key |-> k, value |-> v].key = k
      OBVIOUS
    <3> QED BY <3>2, <3>3
  <2>13. Holds(g[m - 1], k, v) <=> IF Has(m - 1, k) THEN In(m - 1, k, v) ELSE Holds(t, k, v)
    BY <2>4
  <2> HIDE DEF Has, In, e
  <2> QED BY <2>7, <2>9, <2>10, <2>11, <2>12, <2>13
<1>11. g[n] \in S /\ h[n] = g[n]
  BY <1>1, <1>9
<1>12. \A k \in Keys, v \in Values :
         Holds(g[n], k, v) <=> IF HasKey(c, k) THEN InChain(c, k, v) ELSE Holds(t, k, v)
  BY <1>1, <1>10 DEF HasKey, InChain
<1> QED BY <1>3, <1>11, <1>12 DEF S

\* HTcpy: the copy holds what the table holds.
LEMMA CopyTable ==
  ASSUME NEW t \in Tables, Unique(t)
  PROVE  Copied(t) \in Tables /\ Unique(Copied(t)) /\ ContentsOf(Copied(t)) = ContentsOf(t)
<1> DEFINE S == {u \in Tables : Unique(u)}
           F == [b \in 1..Size |-> [u \in S |-> WithChain(u, t[b - 1])]]
           new == [c \in Buckets |-> << >>]
           Eq(g) == g = [b \in 0..Size |-> IF b = 0 THEN new ELSE WithChain(g[b - 1], t[b - 1])]
           h == CHOOSE g : Eq(g)
<1>1. Size \in Nat /\ \A b \in 1..Size : b - 1 \in Buckets
  BY SizeAssumption DEF Buckets
<1>2. \A b \in 1..Size : t[b - 1] \in Seq(Entry) /\ ChainOK(t[b - 1], b - 1)
  BY <1>1 DEF Tables, Unique
<1>3. Copied(t) = h[Size]
  BY DEF Copied
<1> HIDE DEF h
<1>4. F \in [1..Size -> [S -> S]]
  BY <1>2, ChainCopied
<1>5. new \in S /\ \A k \in Keys, v \in Values : ~Holds(new, k, v)
  BY EmptyTable, ContentsHold
<1> HIDE DEF new
<1>6. PICK g \in [0..Size -> S] : g[0] = new /\ \A b \in 1..Size : g[b] = F[b][g[b - 1]]
  <2> HIDE DEF F, S
  <2>1. PICK a, T, G : a = new /\ T = S /\ G = F
    OBVIOUS
  <2>2. \E g : Loop(Size, T, a, G, g)
    <3>1. a \in T /\ G \in [1..Size -> [T -> T]]
      BY <1>4, <1>5, <2>1
    <3> QED BY <1>1, <3>1, LoopExists
  <2> QED BY <2>1, <2>2 DEF Loop
<1>7. \A b \in 1..Size : b - 1 \in 0..Size /\ g[b] = WithChain(g[b - 1], t[b - 1])
  <2> TAKE b \in 1..Size
  <2>1. b - 1 \in 0..Size
    BY <1>1
  <2>2. g[b - 1] \in S
    BY <2>1
  <2> QED BY <1>6, <2>1, <2>2
<1>8. Eq(g)
  BY <1>1, <1>6, <1>7
<1>9. Eq(h)
  BY <1>8 DEF h
<1> HIDE DEF F, S
<1>10. \A b \in 0..Size : h[b] = g[b]
  <2> DEFINE Bad == {b \in 0..Size : h[b] # g[b]}
  <2>1. SUFFICES ASSUME Bad # {} PROVE FALSE
    OBVIOUS
  <2>2. PICK m \in Bad : \A b \in Bad : m <= b
    <3>1. Bad \in SUBSET Nat
      OBVIOUS
    <3> QED BY <2>1, <3>1, LeastNat
  <2>3. m \in 0..Size /\ h[m] # g[m] /\ h[0] = new
    BY <1>1, <1>9
  <2>4. m # 0
    BY <1>6, <2>3
  <2>5. m \in 1..Size /\ m - 1 \in 0..Size /\ m - 1 \notin Bad
    BY <1>1, <2>2, <2>3, <2>4
  <2>6. h[m - 1] = g[m - 1]
    BY <2>5
  <2>7. h[m] = WithChain(h[m - 1], t[m - 1])
    BY <1>9, <2>3, <2>4
  <2> QED BY <1>7, <2>3, <2>5, <2>6, <2>7
<1> HIDE DEF Eq
<1> DEFINE P(b) == \A k \in Keys, v \in Values :
                     Holds(g[b], k, v) <=> Index(k) < b /\ Holds(t, k, v)
<1>11. \A b \in 0..Size : P(b)
  <2> DEFINE Bad == {b \in 0..Size : ~P(b)}
  <2>1. SUFFICES ASSUME Bad # {} PROVE FALSE
    OBVIOUS
  <2>2. PICK m \in Bad : \A b \in Bad : m <= b
    <3>1. Bad \in SUBSET Nat
      OBVIOUS
    <3> QED BY <2>1, <3>1, LeastNat
  <2>3. m # 0
    <3>1. \A k \in Keys : ~(Index(k) < 0)
      BY <1>1, IndexIsBucket DEF Buckets
    <3> QED BY <1>5, <1>6, <2>2, <3>1
  <2>4. m \in 1..Size /\ m - 1 \in 0..Size /\ P(m - 1)
    BY <1>1, <2>2, <2>3
  <2>5. SUFFICES ASSUME NEW k \in Keys, NEW v \in Values
                 PROVE  Holds(g[m], k, v) <=> Index(k) < m /\ Holds(t, k, v)
    BY <2>2
  <2> DEFINE c == t[m - 1]
  <2>6. Holds(g[m], k, v) <=> IF HasKey(c, k) THEN InChain(c, k, v) ELSE Holds(g[m - 1], k, v)
    <3>1. g[m - 1] \in Tables /\ Unique(g[m - 1])
      BY <2>4 DEF S
    <3> QED BY <1>2, <1>7, <2>4, <3>1, ChainCopied
  <2>7. HasKey(c, k) => Index(k) = m - 1
    BY <1>2, <2>4 DEF HasKey, ChainOK
  <2>8. Index(k) = m - 1 => (Holds(t, k, v) <=> InChain(c, k, v))
    BY DEF Holds
  <2>9. InChain(c, k, v) => HasKey(c, k)
    <3>1. [key |-> k, value |-> v].key = k
      OBVIOUS
    <3> QED BY <3>1 DEF InChain, HasKey
  <2>10. Index(k) \in Int /\ m \in Int
    BY <1>1, <2>4, IndexIsBucket DEF Buckets
  <2>11. Index(k) < m <=> Index(k) < m - 1 \/ Index(k) = m - 1
    BY <2>10
  <2>12. Index(k) = m - 1 => ~(Index(k) < m - 1)
    BY <2>10
  <2>13. Holds(g[m - 1], k, v) <=> Index(k) < m - 1 /\ Holds(t, k, v)
    BY <2>4
  <2> HIDE DEF c
  <2> QED BY <2>6, <2>7, <2>8, <2>9, <2>11, <2>12, <2>13
<1>12. Copied(t) \in Tables /\ Unique(Copied(t))
  BY <1>1, <1>3, <1>10 DEF S
<1>13. \A k \in Keys, v \in Values : Holds(Copied(t), k, v) <=> Holds(t, k, v)
  <2>1. \A k \in Keys : Index(k) < Size
    BY <1>1, IndexIsBucket DEF Buckets
  <2> QED BY <1>1, <1>3, <1>10, <1>11, <2>1
<1>14. ContentsOf(t) \in [KeysIn(t) -> Values] /\ KeysIn(t) \in SUBSET Keys
  <2>1. \A k \in KeysIn(t) : ContentsOf(t)[k] \in Values
    BY ContentsHold
  <2>2. ContentsOf(t) = [k \in KeysIn(t) |-> ContentsOf(t)[k]]
    BY DEF ContentsOf
  <2> HIDE DEF S, P
  <2>3. PICK f : f = ContentsOf(t)
    OBVIOUS
  <2> QED BY <2>1, <2>2, <2>3 DEF KeysIn
<1>15. \A k \in Keys, v \in Values :
         Holds(Copied(t), k, v) <=> k \in KeysIn(t) /\ ContentsOf(t)[k] = v
  BY <1>13, ContentsHold
<1>16. PICK f, u : f = ContentsOf(t) /\ u = Copied(t)
  OBVIOUS
<1> QED BY <1>12, <1>14, <1>15, <1>16, ContentsKnown

-----------------------------------------------------------------------------
LEMMA ContentsDef == Contents = ContentsOf(entries) /\ Contents' = ContentsOf(entries')
BY DEF Contents, ContentsOf

LEMMA InitHash == Init => HashInv /\ Map!Init
<1> SUFFICES ASSUME Init PROVE HashInv /\ Map!Init
  OBVIOUS
<1>1. /\ entries = [b \in Buckets |-> << >>] /\ iter = NoIter /\ answer = NULL
      /\ call = [turn |-> 0, op |-> "new", key |-> NULL, value |-> NULL]
  BY DEF Init
<1>2. entries \in Tables /\ Unique(entries) /\ ContentsOf(entries) = [k \in {} |-> NULL]
  BY <1>1, EmptyTable
<1> QED BY <1>1, <1>2, ContentsDef DEF HashInv, IteratorIsInTable, Map!Init

\* The entry an iterator starts with, or goes on with in another bucket.
LEMMA FirstInTable ==
  ASSUME HashInv, NEW b \in Buckets, entries[b] # << >>
  PROVE  FirstEntry(b) \in [bucket : Buckets, key : Keys] /\ HasKey(entries[b], FirstEntry(b).key)
         /\ FirstEntry(b).bucket = b
<1>1. entries[b] \in Seq(Entry) /\ 1 \in DOMAIN entries[b]
  BY DEF HashInv, Tables
<1>2. entries[b][1] \in Entry
  BY <1>1, LenProperties, ElementOfSeq
<1> QED BY <1>1, <1>2 DEF FirstEntry, HasKey, Entry

LEMMA LeastBucket ==
  ASSUME NEW S \in SUBSET Buckets, S # {}
  PROVE  \E b \in S : \A c \in S : b <= c
<1>1. S \in SUBSET Nat
  BY SizeAssumption DEF Buckets
<1> QED BY <1>1, S # {}, LeastNat

LEMMA IterateHash ==
  ASSUME HashInv, HTiterate \/ HTiterateNext \/ HTiterateCancel
  PROVE  HashInv' /\ UNCHANGED <<entries, answer, call>>
<1>1. UNCHANGED <<entries, answer, call>>
  BY DEF HTiterate, HTiterateNext, HTiterateCancel, lastCall
<1>2. iter' = iter \/ iter' = NoIter
      \/ (/\ iter' \in [bucket : Buckets, key : Keys]
          /\ HasKey(entries[iter'.bucket], iter'.key))
  <2>1. CASE HTiterate
    <3> DEFINE used == {b \in Buckets : entries[b] # << >>}
               b == CHOOSE b \in used : \A c \in used : b <= c
    <3>1. CASE used = {}
      BY <2>1, <3>1 DEF HTiterate, iteration
    <3>2. CASE used # {}
      <4>1. iter' = FirstEntry(b)
        BY <2>1, <3>2 DEF HTiterate
      <4>2. b \in used
        <5>1. PICK c \in used : \A d \in used : c <= d
          BY <3>2, LeastBucket
        <5> QED BY <5>1
      <4> HIDE DEF b
      <4> QED BY <4>1, <4>2, FirstInTable
    <3> QED BY <3>1, <3>2
  <2>2. CASE HTiterateNext
    <3> DEFINE chain == entries[iter.bucket]
               at == At(chain, iter.key)
               used == Behind(iter.bucket)
               b == CHOOSE b \in used : \A c \in used : b <= c
    <3>1. iter \in [bucket : Buckets, key : Keys] /\ HasKey(chain, iter.key)
      BY <2>2 DEF HTiterateNext, HashInv, IteratorIsInTable
    <3>2. chain \in Seq(Entry) /\ at \in 1..Len(chain)
      <4>1. chain \in Seq(Entry)
        BY <3>1 DEF HashInv, Tables
      <4>2. at \in DOMAIN chain
        BY <3>1 DEF At, HasKey
      <4> QED BY <4>1, <4>2, LenProperties
    <3>3. CASE at < Len(chain)
      <4>1. iter' = [iter EXCEPT !.key = chain[at + 1].key]
        BY <2>2, <3>3 DEF HTiterateNext
      <4>2. at + 1 \in 1..Len(chain) /\ chain[at + 1] \in Entry
        BY <3>2, <3>3, ElementOfSeq, LenProperties
      <4>3. chain[at + 1].key \in Keys /\ at + 1 \in DOMAIN chain
        BY <3>2, <4>2, LenProperties DEF Entry
      <4> HIDE DEF at
      <4> QED BY <3>1, <4>1, <4>3 DEF HasKey
    <3>4. CASE at = Len(chain) /\ used # {}
      <4>1. iter' = FirstEntry(b)
        BY <2>2, <3>2, <3>4 DEF HTiterateNext
      <4>2. b \in used
        <5>1. PICK c \in used : \A d \in used : c <= d
          BY <3>4, LeastBucket DEF Behind
        <5> QED BY <5>1
      <4>3. b \in Buckets /\ entries[b] # << >>
        BY <4>2 DEF Behind
      <4> HIDE DEF b
      <4> QED BY <4>1, <4>3, FirstInTable
    <3>5. CASE ~(at < Len(chain)) /\ ~(at = Len(chain) /\ used # {})
      BY <2>2, <3>5 DEF HTiterateNext
    <3> QED BY <3>3, <3>4, <3>5
  <2>3. CASE HTiterateCancel
    BY <2>3 DEF HTiterateCancel
  <2> QED BY <2>1, <2>2, <2>3
<1> QED BY <1>1, <1>2 DEF HashInv, IteratorIsInTable

\* A step that leaves the iterator alone and keeps the keys in their buckets.
LEMMA IteratorStays ==
  ASSUME HashInv, UNCHANGED iter,
         \A b \in Buckets, x \in Keys : HasKey(entries[b], x) /\ x = iter.key => HasKey(entries'[b], x)
  PROVE  IteratorIsInTable' /\ (iter \in {NoIter} \cup [bucket : Buckets, key : Keys])'
BY DEF HashInv, IteratorIsInTable

\* Every step keeps the invariant and does to the map what the abstract call
\* of that meaning does, or nothing.
LEMMA StepHash ==
  ASSUME HashInv, Next
  PROVE  HashInv' /\ (Map!Next \/ UNCHANGED <<Contents, answer, call>>)
<1> DEFINE m == ContentsOf(entries)
<1>1. entries \in Tables /\ Unique(entries) /\ Contents = m /\ DOMAIN m = KeysIn(entries)
  BY ContentsDef DEF HashInv, ContentsOf
<1>2. ASSUME NEW k \in Keys, NEW v \in Values, HTinsert(k, v)
      PROVE  HashInv' /\ Map!Next
  <2>1. /\ entries' = Insert(entries, k, v) /\ answer' = TRUE /\ iter' = iter
        /\ Map!Called("put", k, v)
    BY <1>2 DEF HTinsert, iteration, Called, Map!Called
  <2>2. /\ entries' \in Tables /\ Unique(entries')
        /\ \A b \in Buckets, x \in Keys : HasKey(entries[b], x) => HasKey(entries'[b], x)
        /\ ContentsOf(entries') = [x \in KeysIn(entries) \cup {k} |-> IF x = k THEN v ELSE m[x]]
    BY <1>1, <2>1, InsertTable
  <2> HIDE DEF m
  <2>3. Map!Put(k, v)
    BY <1>1, <2>1, <2>2, ContentsDef DEF Map!Put
  <2> QED BY <2>1, <2>2, <2>3, IteratorStays DEF HashInv, Map!Next
<1>3. ASSUME NEW k \in Keys, HTlookup(k)
      PROVE  HashInv' /\ Map!Next
  <2>1. UNCHANGED <<entries, iter>> /\ Map!Called("get", k, NULL)
    BY <1>3 DEF HTlookup, iteration, Called, Map!Called
  <2>2. answer' = IF k \in KeysIn(entries) THEN m[k] ELSE NULL
    BY <1>1, <1>3, LookupTable DEF HTlookup
  <2> HIDE DEF m
  <2>3. Map!Get(k)
    BY <1>1, <2>1, <2>2, ContentsDef DEF Map!Get, Map!ValueOf, Contents
  <2> QED BY <2>1, <2>3 DEF HashInv, IteratorIsInTable, Map!Next
<1>4. ASSUME NEW k \in Keys, HTremove(k)
      PROVE  HashInv' /\ (Map!Next \/ UNCHANGED <<Contents, answer, call>>)
  <2>1. CASE entries[Index(k)] = << >>
    BY <1>4, <2>1 DEF HTremove, iteration, lastCall, HashInv, IteratorIsInTable, Contents
  <2>2. CASE entries[Index(k)] # << >>
    <3>1. /\ entries' = [entries EXCEPT ![Index(k)] = Without(@, k)]
          /\ iter' = iter /\ iter.key # k /\ Map!Called("drop", k, NULL)
      BY <1>4, <2>2 DEF HTremove, Called, Map!Called
    <3>2. answer' = IF k \in KeysIn(entries) THEN m[k] ELSE NULL
      BY <1>1, <1>4, <2>2, LookupTable DEF HTremove
    <3>3. /\ entries' \in Tables /\ Unique(entries')
          /\ \A b \in Buckets, x \in Keys \ {k} : HasKey(entries[b], x) => HasKey(entries'[b], x)
          /\ ContentsOf(entries') = [x \in KeysIn(entries) \ {k} |-> m[x]]
      BY <1>1, <3>1, RemoveTable
    <3> HIDE DEF m
    <3>4. Map!Drop(k)
      BY <1>1, <3>1, <3>2, <3>3, ContentsDef DEF Map!Drop, Map!ValueOf
    <3> QED BY <3>1, <3>3, <3>4, IteratorStays DEF HashInv, Map!Next
  <2> QED BY <2>1, <2>2
<1>5. ASSUME HTclear
      PROVE  HashInv' /\ Map!Next
  <2>1. /\ entries' = [b \in Buckets |-> << >>] /\ iter' = NoIter /\ answer' = answer
        /\ Map!Called("drop all", NULL, NULL)
    BY <1>5 DEF HTclear, iteration, Called, Map!Called
  <2>2. entries' \in Tables /\ Unique(entries') /\ ContentsOf(entries') = [k \in {} |-> NULL]
    BY <2>1, EmptyTable
  <2> QED BY <2>1, <2>2, ContentsDef DEF HashInv, IteratorIsInTable, Map!Next, Map!DropAll
<1>6. ASSUME NEW f \in UserFunctions, HTmap(f)
      PROVE  HashInv' /\ Map!Next
  <2>1. /\ f \in [Values -> Values] /\ iter' = iter /\ answer' = answer
        /\ entries' = Mapped(entries, f) /\ Map!Called("replace", NULL, f)
    BY <1>6, ValuesAssumption DEF HTmap, iteration, Called, Map!Called
  <2>2. /\ entries' \in Tables /\ Unique(entries')
        /\ \A b \in Buckets, x \in Keys : HasKey(entries'[b], x) <=> HasKey(entries[b], x)
        /\ ContentsOf(entries') = [x \in KeysIn(entries) |-> f[m[x]]]
    BY <1>1, <2>1, MapTable
  <2> HIDE DEF m
  <2>3. Map!Replace(f)
    BY <1>1, <2>1, <2>2, ContentsDef DEF Map!Replace
  <2> QED BY <2>1, <2>2, <2>3, IteratorStays DEF HashInv, Map!Next
<1>7. ASSUME HTiterate \/ HTiterateNext \/ HTiterateCancel
      PROVE  HashInv' /\ UNCHANGED <<Contents, answer, call>>
  BY <1>7, IterateHash DEF Contents
<1>8. ASSUME NEW v \in Values, HTiterSetValue(v)
      PROVE  HashInv' /\ Map!Next
  <2> DEFINE k == iter.key
             b == iter.bucket
  <2>1. iter \in [bucket : Buckets, key : Keys] /\ HasKey(entries[b], k)
    BY <1>8 DEF HTiterSetValue, HashInv, IteratorIsInTable
  <2>2. k \in Keys /\ k \in KeysIn(entries) /\ b = Index(k)
    <3>1. k \in Keys /\ b \in Buckets
      BY <2>1
    <3> QED BY <1>1, <2>1, <3>1 DEF KeysIn, HasKey, Unique, ChainOK
  <2>3. iter' = iter /\ answer' = answer
        /\ entries' = [entries EXCEPT ![b][At(entries[b], k)].value = v]
        /\ Map!Called("set", k, v)
    BY <1>8 DEF HTiterSetValue, iteration, Called, Map!Called
  <2>4. entries' = Insert(entries, k, v)
    BY <2>1, <2>2, <2>3 DEF Insert
  <2> HIDE DEF k, b
  <2>5. /\ entries' \in Tables /\ Unique(entries')
        /\ \A c \in Buckets, x \in Keys : HasKey(entries[c], x) => HasKey(entries'[c], x)
        /\ ContentsOf(entries') = [x \in KeysIn(entries) \cup {k} |-> IF x = k THEN v ELSE m[x]]
    BY <1>1, <2>2, <2>4, InsertTable
  <2>6. ContentsOf(entries') = [m EXCEPT ![k] = v]
    <3>1. KeysIn(entries) \cup {k} = KeysIn(entries)
      BY <2>2
    <3>2. m = [x \in KeysIn(entries) |-> m[x]]
      BY DEF ContentsOf
    <3> HIDE DEF m
    <3> QED BY <1>1, <2>2, <2>5, <3>1, <3>2
  <2> HIDE DEF m
  <2>7. Map!Set(k, v)
    BY <1>1, <2>2, <2>3, <2>6, ContentsDef DEF Map!Set
  <2> QED BY <2>2, <2>3, <2>5, <2>7, IteratorStays DEF HashInv, Map!Next
<1>9. ASSUME HTcpy
      PROVE  HashInv' /\ UNCHANGED <<Contents, answer, call>>
  <2>1. iter = NoIter /\ UNCHANGED <<iter, answer, call>>
    BY <1>9 DEF HTcpy, iteration, lastCall
  <2>2. entries' = entries \/ entries' = Copied(entries)
    BY <1>9 DEF HTcpy
  <2>3. entries' \in Tables /\ Unique(entries') /\ ContentsOf(entries') = m
    BY <1>1, <2>2, CopyTable
  <2> QED BY <1>1, <2>1, <2>3, ContentsDef DEF HashInv, IteratorIsInTable
<1> QED BY <1>2, <1>3, <1>4, <1>5, <1>6, <1>7, <1>8, <1>9 DEF Next

LEMMA StepOrStutter ==
  HashInv /\ [Next]_vars => HashInv' /\ [Map!Next]_<<Contents, answer, call>>
<1>1. ASSUME HashInv, UNCHANGED vars
      PROVE  HashInv' /\ UNCHANGED <<Contents, answer, call>>
  BY <1>1 DEF vars, HashInv, IteratorIsInTable, Contents
<1> QED BY <1>1, StepHash

\* Whatever is called in whatever order, a key is only in its own bucket and
\* only once there, and the iterator's entry is in the table.
THEOREM HashTableKeepsItsKeys == Spec => []KeysAreUnique
<1>1. HashInv => KeysAreUnique
  BY DEF HashInv, KeysAreUnique, Unique, ChainOK
<1> QED BY <1>1, InitHash, StepOrStutter, PTL DEF Spec

\* The entry of an unfinished iterator is an entry of the table.
THEOREM IteratorStaysInTable == Spec => []IteratorIsInTable
<1>1. HashInv => IteratorIsInTable
  BY DEF HashInv
<1> QED BY <1>1, InitHash, StepOrStutter, PTL DEF Spec

\* The hash table implements the map of keys to values.
THEOREM HashTableIsAMap == Spec => ImplementsMap
<1>1. HashInv /\ [Next]_vars => [Map!Next]_<<Contents, answer, call>>
  BY StepOrStutter
<1>2. Init => Map!Init
  BY InitHash
<1>3. Spec => []HashInv
  BY InitHash, StepOrStutter, PTL DEF Spec
<1> QED BY <1>1, <1>2, <1>3, PTL DEF Spec, ImplementsMap, Map!Spec

-----------------------------------------------------------------------------
\* Iterations.  The iterator visits buckets in order and chains from their
\* first entry; what it has passed stays behind it, as a chain only grows at
\* its end and entries keep their order.

\* The iterator has reached a key of its own chain, or any key.
InOrder(c, x, y) == \E i, j \in DOMAIN c : i <= j /\ c[i].key = x /\ c[j].key = y
Reached(t, it, k) ==
  \/ Index(k) < it.bucket
  \/ Index(k) = it.bucket /\ InOrder(t[it.bucket], k, it.key)

\* Keys that were in the table all the time still are; those the iterator
\* has reached have been visited.
SeenInv ==
  /\ kept \subseteq KeysIn(entries)
  /\ iter = NoIter => kept = {}
  /\ iter # NoIter => \A k \in kept : Reached(entries, iter, k) => k \in seen

\* Insertions do not put a key before another, and do not move any.
LEMMA InsertOrder ==
  ASSUME NEW t \in Tables, Unique(t), NEW k \in Keys, NEW v \in Values,
         NEW b \in Buckets, NEW x, NEW y \in Keys, HasKey(t[b], y), InOrder(Insert(t, k, v)[b], x, y)
  PROVE  InOrder(t[b], x, y)
<1> DEFINE c == t[b]
           e == [key |-> k, value |-> v]
           d == Insert(t, k, v)[b]
<1>1. c \in Seq(Entry) /\ DOMAIN c = 1..Len(c) /\ Len(c) \in Nat
      /\ \A i \in 1..Len(c) : c[i] \in Entry
  <2>1. c \in Seq(Entry)
    BY DEF Tables
  <2> QED BY <2>1, LenProperties, ElementOfSeq
<1>2. d = IF b = Index(k) THEN IF HasKey(c, k) THEN Updated(c, k, v) ELSE Append(c, e) ELSE c
  BY DEF Insert, Tables, Updated
<1>3. PICK i, j \in DOMAIN d : i <= j /\ d[i].key = x /\ d[j].key = y
  BY DEF InOrder
<1>4. PICK q \in 1..Len(c) : c[q].key = y
  BY <1>1 DEF HasKey
<1> HIDE DEF c, d
<1>5. CASE d = c
  BY <1>3, <1>5 DEF InOrder, c
<1>6. CASE HasKey(c, k) /\ d = Updated(c, k, v)
  <2> DEFINE a == At(c, k)
             f == [c[a] EXCEPT !.value = v]
  <2>1. a \in 1..Len(c) /\ c[a].key = k
    BY <1>1, <1>6 DEF At, HasKey
  <2>2. f \in Entry /\ f.key = c[a].key
    BY <1>1, <2>1 DEF Entry
  <2>3. d = [c EXCEPT ![a] = f]
    BY <1>6 DEF Updated
  <2> HIDE DEF a, f
  <2>4. d \in Seq(Entry) /\ Len(d) = Len(c) /\ \A p \in 1..Len(c) : d[p] = IF p = a THEN f ELSE c[p]
    BY <1>1, <2>1, <2>2, <2>3, ExceptSeq
  <2>5. DOMAIN d = 1..Len(c) /\ \A p \in 1..Len(c) : d[p].key = c[p].key
    BY <2>2, <2>4, LenProperties
  <2> QED BY <1>1, <1>3, <2>5 DEF InOrder, c
<1>7. CASE ~HasKey(c, k) /\ d = Append(c, e)
  <2>1. e \in Entry /\ e.key = k
    BY DEF Entry
  <2> HIDE DEF e
  <2>2. /\ d \in Seq(Entry) /\ Len(d) = Len(c) + 1 /\ d[Len(c) + 1] = e
        /\ \A p \in 1..Len(c) : d[p] = c[p]
    BY <1>1, <1>7, <2>1, AppendProperties
  <2>3. DOMAIN d = 1..(Len(c) + 1)
    BY <2>2, LenProperties
  <2>4. k # y
    BY <1>1, <1>4, <1>7 DEF HasKey
  <2>5. i \in 1..Len(c) /\ j \in 1..Len(c)
    BY <1>1, <1>3, <2>1, <2>2, <2>3, <2>4
  <2> QED BY <1>1, <1>3, <2>2, <2>5 DEF InOrder, c
<1> QED BY <1>2, <1>5, <1>6, <1>7

\* The entries a removal leaves stay in their order.
LEMMA WithoutOrder ==
  ASSUME NEW c \in Seq(Entry), NEW k, NEW x, NEW y, InOrder(Without(c, k), x, y)
  PROVE  InOrder(c, x, y)
<1> DEFINE n == Len(c)
           a == At(c, k)
           d == [j \in 1..(n - 1) |-> IF j < a THEN c[j] ELSE c[j + 1]]
           from(j) == IF j < a THEN j ELSE j + 1
<1>1. DOMAIN c = 1..n /\ n \in Nat
  BY LenProperties
<1>2. CASE ~HasKey(c, k)
  BY <1>2 DEF Without
<1>3. CASE HasKey(c, k)
  <2>1. a \in 1..n
    BY <1>1, <1>3 DEF At, HasKey
  <2>2. Without(c, k) = d
    BY <1>3 DEF Without
  <2>3. PICK i, j \in DOMAIN d : i <= j /\ d[i].key = x /\ d[j].key = y
    BY <2>2 DEF InOrder
  <2> HIDE DEF a, n
  <2>4. i \in 1..(n - 1) /\ j \in 1..(n - 1) /\ d[i] = c[from(i)] /\ d[j] = c[from(j)]
    BY <2>3
  <2>5. from(i) \in 1..n /\ from(j) \in 1..n /\ from(i) <= from(j)
    BY <1>1, <2>1, <2>3, <2>4
  <2> HIDE DEF from, d
  <2> QED BY <1>1, <2>3, <2>4, <2>5 DEF InOrder
<1> QED BY <1>2, <1>3

LEMMA MapOrder ==
  ASSUME NEW t \in Tables, NEW f, NEW b \in Buckets, NEW x, NEW y, InOrder(Mapped(t, f)[b], x, y)
  PROVE  InOrder(t[b], x, y)
<1> DEFINE d == [i \in DOMAIN t[b] |-> [t[b][i] EXCEPT !.value = f[@]]]
<1>1. Mapped(t, f)[b] = d
  BY DEF Mapped
<1>2. t[b] \in Seq(Entry)
  BY DEF Tables
<1>3. DOMAIN d = DOMAIN t[b] /\ \A i \in DOMAIN t[b] : d[i].key = t[b][i].key
  <2>1. \A i \in DOMAIN t[b] : t[b][i] \in Entry
    BY <1>2, LenProperties, ElementOfSeq
  <2>2. \A e \in Entry : [e EXCEPT !.value = f[@]].key = e.key
    BY DEF Entry
  <2> QED BY <2>1, <2>2
<1> HIDE DEF d
<1> QED BY <1>1, <1>3 DEF InOrder

\* A step that leaves the iterator alone.
LEMMA SeenStays ==
  ASSUME HashInv, SeenInv, UNCHANGED <<iter, seen>>, kept' \subseteq kept,
         \A k \in kept' : k \in KeysIn(entries'),
         \A x : iter # NoIter /\ InOrder(entries'[iter.bucket], x, iter.key)
                  => InOrder(entries[iter.bucket], x, iter.key)
  PROVE  SeenInv'
<1>1. kept' \subseteq KeysIn(entries')
  OBVIOUS
<1>2. iter' = NoIter => kept' = {}
  BY DEF SeenInv
<1>3. ASSUME iter' # NoIter, NEW k \in kept', Reached(entries', iter', k)
      PROVE  k \in seen'
  <2>1. Reached(entries, iter, k)
    BY <1>3 DEF Reached
  <2> QED BY <1>3, <2>1 DEF SeenInv
<1> QED BY <1>1, <1>2, <1>3 DEF SeenInv

LEMMA SeenInsert ==
  ASSUME HashInv, SeenInv, NEW k \in Keys, NEW v \in Values,
         entries' = Insert(entries, k, v), UNCHANGED <<iter, seen, kept>>
  PROVE  SeenInv'
<1>1. /\ entries \in Tables /\ Unique(entries) /\ entries' \in Tables
      /\ \A b \in Buckets, x \in Keys : HasKey(entries[b], x) => HasKey(entries'[b], x)
  BY InsertTable DEF HashInv
<1>2. \A x \in kept' : x \in KeysIn(entries')
  BY <1>1 DEF SeenInv, KeysIn
<1>3. ASSUME NEW x, iter # NoIter, InOrder(entries'[iter.bucket], x, iter.key)
      PROVE  InOrder(entries[iter.bucket], x, iter.key)
  <2>1. iter.bucket \in Buckets /\ iter.key \in Keys /\ HasKey(entries[iter.bucket], iter.key)
    BY <1>3 DEF HashInv, IteratorIsInTable
  <2> QED BY <1>1, <1>3, <2>1, InsertOrder
<1> QED BY <1>2, <1>3, SeenStays

LEMMA SeenRemove ==
  ASSUME HashInv, SeenInv, NEW k \in Keys, HTremove(k)
  PROVE  SeenInv'
<1>1. CASE entries[Index(k)] = << >>
  BY <1>1 DEF HTremove, iteration, SeenInv
<1>2. CASE entries[Index(k)] # << >>
  <2>1. /\ entries' = [entries EXCEPT ![Index(k)] = Without(@, k)]
        /\ kept' = kept \ {k} /\ UNCHANGED <<iter, seen>>
    BY <1>2 DEF HTremove
  <2>2. \A b \in Buckets, x \in Keys \ {k} : HasKey(entries[b], x) => HasKey(entries'[b], x)
    BY <2>1, RemoveTable DEF HashInv
  <2>3. \A x \in kept' : x \in KeysIn(entries')
    BY <2>1, <2>2 DEF SeenInv, KeysIn
  <2>4. ASSUME NEW x, iter # NoIter, InOrder(entries'[iter.bucket], x, iter.key)
        PROVE  InOrder(entries[iter.bucket], x, iter.key)
    <3>1. iter.bucket \in Buckets
      BY <2>4 DEF HashInv
    <3>2. PICK c : c = entries[iter.bucket]
      OBVIOUS
    <3>3. c \in Seq(Entry) /\ entries'[iter.bucket] = (IF iter.bucket = Index(k) THEN Without(c, k) ELSE c)
      BY <2>1, <3>1, <3>2 DEF HashInv, Tables
    <3>4. PICK y : y = iter.key
      OBVIOUS
    <3>5. CASE iter.bucket = Index(k)
      BY <2>4, <3>2, <3>3, <3>4, <3>5, WithoutOrder
    <3>6. CASE iter.bucket # Index(k)
      BY <2>4, <3>2, <3>3, <3>6
    <3> QED BY <3>5, <3>6
  <2> QED BY <2>1, <2>3, <2>4, SeenStays
<1> QED BY <1>1, <1>2

LEMMA SeenMap ==
  ASSUME HashInv, SeenInv, NEW f \in UserFunctions, HTmap(f)
  PROVE  SeenInv'
<1>1. /\ f \in [Values -> Values] /\ UNCHANGED <<iter, seen, kept>>
      /\ entries' = Mapped(entries, f)
  BY ValuesAssumption DEF HTmap, iteration
<1>2. \A b \in Buckets, x \in Keys : HasKey(entries'[b], x) <=> HasKey(entries[b], x)
  BY <1>1, MapTable DEF HashInv
<1>3. \A x \in kept' : x \in KeysIn(entries')
  BY <1>1, <1>2 DEF SeenInv, KeysIn
<1>4. ASSUME NEW x, iter # NoIter, InOrder(entries'[iter.bucket], x, iter.key)
      PROVE  InOrder(entries[iter.bucket], x, iter.key)
  <2>1. PICK b, y : b = iter.bucket /\ y = iter.key
    OBVIOUS
  <2>2. b \in Buckets /\ entries \in Tables
    BY <1>4, <2>1 DEF HashInv
  <2>3. InOrder(Mapped(entries, f)[b], x, y)
    BY <1>1, <1>4, <2>1
  <2>4. InOrder(entries[b], x, y)
    BY <2>2, <2>3, MapOrder
  <2> QED BY <2>1, <2>4
<1> QED BY <1>1, <1>3, <1>4, SeenStays

\* The first entry of a chain is the first one reached in it.
LEMMA FirstReached ==
  ASSUME HashInv, NEW b \in Buckets, entries[b] # << >>, NEW k,
         InOrder(entries[b], k, FirstEntry(b).key)
  PROVE  k = FirstEntry(b).key
<1> DEFINE c == entries[b]
<1>1. c \in Seq(Entry) /\ 1 \in DOMAIN c /\ DOMAIN c = 1..Len(c) /\ Len(c) \in Nat
  BY LenProperties DEF HashInv, Tables
<1>2. ChainOK(c, b)
  BY DEF HashInv, Unique
<1>3. FirstEntry(b).key = c[1].key
  BY DEF FirstEntry
<1> HIDE DEF c
<1>4. PICK i, j \in DOMAIN c : i <= j /\ c[i].key = k /\ c[j].key = c[1].key
  BY <1>3 DEF InOrder, c
<1>5. j = 1
  BY <1>1, <1>2, <1>4 DEF ChainOK
<1>6. i = 1
  BY <1>1, <1>4, <1>5
<1> QED BY <1>3, <1>4, <1>6

\* At the end of a chain everything in it and before it has been visited.
LEMMA SeenUpTo ==
  ASSUME HashInv, SeenInv, iter # NoIter,
         At(entries[iter.bucket], iter.key) = Len(entries[iter.bucket]),
         NEW k \in kept, Index(k) <= iter.bucket
  PROVE  k \in seen
<1> DEFINE c == entries[iter.bucket]
<1>1. iter.bucket \in Buckets /\ HasKey(c, iter.key) /\ k \in Keys /\ k \in KeysIn(entries)
  BY DEF HashInv, IteratorIsInTable, SeenInv, KeysIn
<1>2. c \in Seq(Entry)
  BY <1>1 DEF HashInv, Tables
<1>3. DOMAIN c = 1..Len(c) /\ Len(c) \in Nat
  BY <1>2, LenProperties
<1>4. At(c, iter.key) \in DOMAIN c /\ c[At(c, iter.key)].key = iter.key
  BY <1>1 DEF At, HasKey
<1>5. HasKey(entries[Index(k)], k) /\ Index(k) \in Buckets
  BY <1>1, TableChain, IndexIsBucket DEF HashInv
<1>6. CASE Index(k) = iter.bucket
  <2>1. PICK i \in DOMAIN c : c[i].key = k
    BY <1>5, <1>6 DEF HasKey
  <2>2. InOrder(c, k, iter.key)
    <3>1. Len(c) \in DOMAIN c /\ c[Len(c)].key = iter.key
      BY <1>4
    <3>2. i <= Len(c)
      BY <1>3
    <3> HIDE DEF c
    <3> QED BY <2>1, <3>1, <3>2 DEF InOrder
  <2> QED BY <1>6, <2>2 DEF SeenInv, Reached
<1>7. CASE Index(k) # iter.bucket
  <2>1. Index(k) < iter.bucket
    BY <1>1, <1>5, <1>7, SizeAssumption DEF Buckets
  <2> QED BY <2>1 DEF SeenInv, Reached
<1> QED BY <1>6, <1>7

\* A key of the table lies in the chains in use.
LEMMA KeyInUse ==
  ASSUME HashInv, NEW k \in KeysIn(entries)
  PROVE  k \in Keys /\ Index(k) \in Buckets /\ entries[Index(k)] # << >>
<1>1. k \in Keys
  BY DEF KeysIn
<1>2. HasKey(entries[Index(k)], k)
  BY <1>1, TableChain DEF HashInv
<1> QED BY <1>1, <1>2, IndexIsBucket DEF HasKey

LEMMA SeenIterate ==
  ASSUME HashInv, SeenInv, HTiterate
  PROVE  SeenInv'
<1> DEFINE used == {b \in Buckets : entries[b] # << >>}
           b == CHOOSE b \in used : \A c \in used : b <= c
<1>1. CASE used = {}
  <2>1. UNCHANGED <<entries, iter, kept, seen>>
    BY <1>1 DEF HTiterate, iteration
  <2> QED BY <2>1 DEF SeenInv
<1>2. CASE used # {}
  <2>1. /\ iter' = FirstEntry(b) /\ kept' = KeysIn(entries) /\ seen' = {iter'.key}
        /\ entries' = entries
    BY <1>2 DEF HTiterate
  <2>2. b \in used /\ \A c \in used : b <= c
    <3>1. PICK c \in used : \A d \in used : c <= d
      BY <1>2, LeastBucket
    <3> QED BY <3>1
  <2> HIDE DEF b
  <2>3. iter'.bucket = b /\ b \in Buckets /\ entries[b] # << >>
    BY <2>1, <2>2, FirstInTable
  <2>4. iter' # NoIter
    BY <2>3, SizeAssumption DEF NoIter, Buckets
  <2>5. ASSUME NEW k \in kept', Reached(entries', iter', k)
        PROVE  k \in seen'
    <3>1. k \in Keys /\ Index(k) \in used
      BY <2>1, KeyInUse
    <3>2. ~(Index(k) < b)
      BY <2>2, <2>3, <3>1, SizeAssumption DEF Buckets
    <3>3. InOrder(entries[b], k, FirstEntry(b).key)
      BY <2>1, <2>3, <2>5, <3>2 DEF Reached
    <3> QED BY <2>1, <2>3, <3>3, FirstReached
  <2> QED BY <2>1, <2>4, <2>5 DEF SeenInv
<1> QED BY <1>1, <1>2

LEMMA SeenNext ==
  ASSUME HashInv, SeenInv, HTiterateNext
  PROVE  SeenInv' /\ (iter' = NoIter => kept \subseteq seen)
<1> DEFINE chain == entries[iter.bucket]
           at == At(chain, iter.key)
           used == Behind(iter.bucket)
           b == CHOOSE b \in used : \A c \in used : b <= c
<1>1. iter # NoIter /\ iter \in [bucket : Buckets, key : Keys] /\ HasKey(chain, iter.key)
  BY DEF HTiterateNext, HashInv, IteratorIsInTable
<1>2. chain \in Seq(Entry)
  BY <1>1 DEF HashInv, Tables
<1>3. DOMAIN chain = 1..Len(chain) /\ Len(chain) \in Nat /\ \A i \in DOMAIN chain : chain[i] \in Entry
  BY <1>2, LenProperties, ElementOfSeq
<1>4. at \in 1..Len(chain) /\ chain[at].key = iter.key
  BY <1>1, <1>3 DEF At, HasKey
<1>5. entries' = entries
      /\ IF iter' = NoIter THEN kept' = {} /\ seen' = {}
                           ELSE seen' = seen \cup {iter'.key} /\ kept' = kept
  BY DEF HTiterateNext
<1>6. SUFFICES ASSUME TRUE
               PROVE  /\ iter' # NoIter => \A k \in kept : Reached(entries, iter', k) => k \in seen'
                      /\ iter' = NoIter => kept \subseteq seen
  BY <1>5 DEF SeenInv
<1>7. CASE at < Len(chain)
  <2>1. iter' = [iter EXCEPT !.key = chain[at + 1].key]
    BY <1>7 DEF HTiterateNext
  <2>2. at + 1 \in DOMAIN chain
    BY <1>3, <1>4, <1>7
  <2>3. iter'.bucket = iter.bucket /\ iter'.key = chain[at + 1].key /\ iter' # NoIter
    BY <1>1, <2>1, SizeAssumption DEF NoIter, Buckets
  <2>4. ChainOK(chain, iter.bucket)
    BY <1>1 DEF HashInv, Unique
  <2> HIDE DEF at
  <2>5. ASSUME NEW k \in kept, Reached(entries, iter', k)
        PROVE  k \in seen'
    <3>1. CASE Index(k) < iter.bucket
      BY <1>1, <1>5, <2>3, <3>1 DEF SeenInv, Reached
    <3>2. CASE Index(k) = iter.bucket /\ InOrder(chain, k, chain[at + 1].key)
      <4>1. PICK i, j \in DOMAIN chain :
              i <= j /\ chain[i].key = k /\ chain[j].key = chain[at + 1].key
        BY <3>2 DEF InOrder
      <4> HIDE DEF chain
      <4>2. j = at + 1
        BY <2>2, <2>4, <4>1 DEF ChainOK
      <4>3. CASE i = at + 1
        BY <1>5, <2>3, <4>1, <4>3
      <4>4. CASE i # at + 1
        <5>1. i <= at /\ at \in DOMAIN chain
          BY <1>3, <1>4, <4>1, <4>2, <4>4
        <5>2. InOrder(chain, k, iter.key)
          BY <1>4, <4>1, <5>1 DEF InOrder
        <5> QED BY <1>1, <1>5, <2>3, <3>2, <5>2 DEF SeenInv, Reached, chain
      <4> QED BY <4>3, <4>4
    <3> QED BY <2>3, <2>5, <3>1, <3>2 DEF Reached
  <2> QED BY <2>3, <2>5
<1>8. CASE at = Len(chain) /\ used # {}
  <2>1. iter' = FirstEntry(b)
    BY <1>3, <1>8 DEF HTiterateNext
  <2>2. b \in used /\ \A c \in used : b <= c
    <3>1. PICK c \in used : \A d \in used : c <= d
      BY <1>8, LeastBucket DEF Behind
    <3> QED BY <3>1
  <2>3. b \in Buckets /\ entries[b] # << >>
    BY <2>2 DEF Behind
  <2> HIDE DEF b
  <2>4. iter'.bucket = b /\ iter' # NoIter
    BY <2>1, <2>3, FirstInTable, SizeAssumption DEF NoIter, Buckets
  <2>5. ASSUME NEW k \in kept, Reached(entries, iter', k)
        PROVE  k \in seen'
    <3>1. k \in Keys /\ Index(k) \in Buckets /\ entries[Index(k)] # << >>
      BY KeyInUse DEF SeenInv
    <3>2. CASE Index(k) < b
      <4>1. Index(k) \notin used
        BY <2>2, <2>3, <3>1, <3>2, SizeAssumption DEF Buckets
      <4>2. Index(k) <= iter.bucket
        BY <1>1, <3>1, <4>1, SizeAssumption DEF Behind, Buckets
      <4>3. k \in seen
        BY <1>1, <1>8, <4>2, SeenUpTo
      <4> QED BY <1>5, <2>4, <4>3
    <3>3. CASE InOrder(entries[b], k, FirstEntry(b).key)
      BY <1>5, <2>1, <2>3, <2>4, <3>3, FirstReached
    <3> QED BY <2>1, <2>4, <2>5, <3>2, <3>3 DEF Reached
  <2> QED BY <2>4, <2>5
<1>9. CASE at = Len(chain) /\ used = {}
  <2>1. iter' = NoIter
    BY <1>9, <1>3 DEF HTiterateNext
  <2>2. ASSUME NEW k \in kept
        PROVE  k \in seen
    <3>1. k \in Keys /\ Index(k) \in Buckets /\ entries[Index(k)] # << >>
      BY KeyInUse DEF SeenInv
    <3>2. Index(k) <= iter.bucket
      BY <1>1, <1>9, <3>1, SizeAssumption DEF Behind, Buckets
    <3> QED BY <1>1, <1>9, <3>2, SeenUpTo
  <2> QED BY <2>1, <2>2
<1> HIDE DEF at
<1> QED BY <1>3, <1>4, <1>7, <1>8, <1>9

LEMMA InitSeen == Init => SeenInv
BY DEF Init, SeenInv

LEMMA SeenKept == HashInv /\ SeenInv /\ [Next]_vars => SeenInv'
<1> SUFFICES ASSUME HashInv, SeenInv, [Next]_vars PROVE SeenInv'
  OBVIOUS
<1>1. ASSUME NEW k \in Keys, NEW v \in Values, HTinsert(k, v) PROVE SeenInv'
  BY <1>1, SeenInsert DEF HTinsert, iteration
<1>2. ASSUME NEW k \in Keys, HTlookup(k) PROVE SeenInv'
  BY <1>2 DEF HTlookup, iteration, SeenInv
<1>3. ASSUME NEW k \in Keys, HTremove(k) PROVE SeenInv'
  BY <1>3, SeenRemove
<1>4. ASSUME HTclear PROVE SeenInv'
  BY <1>4 DEF HTclear, iteration, SeenInv
<1>5. ASSUME NEW f \in UserFunctions, HTmap(f) PROVE SeenInv'
  BY <1>5, SeenMap
<1>6. ASSUME HTiterate PROVE SeenInv'
  BY <1>6, SeenIterate
<1>7. ASSUME HTiterateNext PROVE SeenInv'
  BY <1>7, SeenNext
<1>8. ASSUME HTiterateCancel PROVE SeenInv'
  BY <1>8 DEF HTiterateCancel, SeenInv
<1>9. ASSUME NEW v \in Values, HTiterSetValue(v) PROVE SeenInv'
  <2>1. PICK k, b : k = iter.key /\ b = iter.bucket
    OBVIOUS
  <2>2. k \in Keys /\ b \in Buckets /\ HasKey(entries[b], k)
    BY <1>9, <2>1 DEF HTiterSetValue, HashInv, IteratorIsInTable
  <2>3. b = Index(k)
    BY <2>2 DEF HashInv, HasKey, Unique, ChainOK
  <2>4. /\ UNCHANGED <<iter, seen, kept>>
        /\ entries' = [entries EXCEPT ![b][At(entries[b], k)].value = v]
    BY <1>9, <2>1 DEF HTiterSetValue, iteration
  <2>5. entries' = Insert(entries, k, v)
    BY <2>2, <2>3, <2>4 DEF Insert
  <2> QED BY <2>2, <2>4, <2>5, SeenInsert
<1>10. ASSUME UNCHANGED vars PROVE SeenInv'
  BY <1>10 DEF vars, SeenInv
<1>11. ASSUME HTcpy PROVE SeenInv'
  <2>1. iter = NoIter /\ UNCHANGED <<iter, kept, seen>>
    BY <1>11 DEF HTcpy, iteration
  <2> QED BY <2>1 DEF SeenInv
<1> QED BY <1>1, <1>2, <1>3, <1>4, <1>5, <1>6, <1>7, <1>8, <1>9, <1>10, <1>11 DEF Next

\* An iteration that comes to its end has visited every key that was in the
\* table from its beginning, whatever was inserted, set and removed meanwhile.
THEOREM IterationsAreComplete == Spec => IterationIsComplete
<1>1. HashInv /\ SeenInv /\ [Next]_vars
        => [iter # NoIter /\ HTiterateNext /\ iter' = NoIter => kept \subseteq seen]_vars
  BY SeenNext
<1> QED BY <1>1, InitHash, StepOrStutter, InitSeen, SeenKept, PTL
      DEF Spec, IterationIsComplete
=============================================================================
