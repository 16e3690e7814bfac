----------------------------- MODULE AdjustProofs -----------------------------
(***************************************************************************)
(* The names of a program through the passes that resolve and copy them,   *)
(* for programs of any size.                                               *)
(*                                                                         *)
(* The first part is about variable tables alone: what an insertion and a  *)
(* change of flags keep, what the lookups find and what they pass over.    *)
(*                                                                         *)
(* The second part is about one walk of RSO, for every program it may walk *)
(* and with any number of tables, entries, loops and uses: it leaves       *)
(* tables of a shape every lookup can rely on, references that denote an   *)
(* entry of the name looked up, and loops with an entry of their own.  The *)
(* invariant is Walk.  What keeps loop variables local is the grammar: the *)
(* tables around the current one belong to functions that still stand      *)
(* before their statements, so they have no loop variables yet.            *)
(*                                                                         *)
(* The third part is about the passes behind it, which look the name up    *)
(* once more: they may only err towards a variable of a loop, and do not   *)
(* err at all if loop variables have names of their own.  Until TYC the    *)
(* invariant is Walk; from then on the uses, loops and entries stay, and   *)
(* only flags of entries change.  A second invariant, Arrays, is about the *)
(* dimensions of arrays, and carries what ArrayFlatten finds by name.      *)
(***************************************************************************)
EXTENDS Addresses, LeastNatural, SequenceTheorems

Entry(N) == [name : N, kind : Kinds, dim : Nat, isextern : BOOLEAN,
             valid : BOOLEAN, readonly : BOOLEAN]
Table(N) == [vars : Seq(Entry(N)), chain : Seq(Nat)]

AreTables(ts) == ts # <<>> /\ \E N : ts \in Seq(Table(N))

(* The chains of parents: down to the program's table, and a parent's is   *)
(* the rest of one's own.                                                  *)
ChainOk(ts, t, c) ==
  /\ c # <<>> /\ c[1] = t /\ c[Len(c)] = 1
  /\ \A m \in DOMAIN c :
       /\ c[m] \in DOMAIN ts
       /\ \A p \in DOMAIN c : m < p => c[p] < c[m]
       /\ Len(ts[c[m]].chain) = Len(c) - m + 1
       /\ \A p \in DOMAIN ts[c[m]].chain : ts[c[m]].chain[p] = c[m + p - 1]
Chains(ts) == \A t \in DOMAIN ts : ChainOk(ts, t, ts[t].chain)

(* An entry that is no loop variable has no entry of its name and no loop  *)
(* variable before it.                                                     *)
DeclaredOnce(ts) ==
  \A t \in DOMAIN ts : \A i, j \in DOMAIN ts[t].vars :
    i < j /\ ts[t].vars[j].kind # "loop" =>
      ts[t].vars[i].name # ts[t].vars[j].name /\ ts[t].vars[i].kind # "loop"

(* The dimensions of an array stand behind it.                             *)
DimsFollow(ts) ==
  \A t \in DOMAIN ts : \A i \in DOMAIN ts[t].vars : \A d \in 1 .. ts[t].vars[i].dim :
    i + d \in DOMAIN ts[t].vars /\ ts[t].vars[i].kind # "loop" /\ ts[t].vars[i + d].kind # "loop"

Shape(ts) == AreTables(ts) /\ Chains(ts) /\ DeclaredOnce(ts) /\ DimsFollow(ts)

(* Tables us are tables ts with entries added behind, and some made valid, *)
(* invalid or writable.                                                    *)
Keeps(ts, us) ==
  /\ DOMAIN ts \subseteq DOMAIN us
  /\ \A t \in DOMAIN ts :
       /\ us[t].chain = ts[t].chain
       /\ DOMAIN ts[t].vars \subseteq DOMAIN us[t].vars
       /\ \A i \in DOMAIN ts[t].vars : /\ us[t].vars[i].name = ts[t].vars[i].name
                                       /\ us[t].vars[i].kind = ts[t].vars[i].kind
                                       /\ us[t].vars[i].dim = ts[t].vars[i].dim
                                       /\ us[t].vars[i].isextern = ts[t].vars[i].isextern

(* The reference u.ref, made for the name u.name in table u.table, denotes *)
(* an entry of that name; from a nested function, one ahead of all loops.  *)
HomeOf(ts, u) == ts[u.table].chain[u.ref.n + 1]
Refers(ts, u) ==
  /\ u.table \in DOMAIN ts
  /\ u.ref.n \in Nat /\ u.ref.l \in Nat
  /\ u.ref.n + 1 \in DOMAIN ts[u.table].chain
  /\ u.ref.l + 1 \in DOMAIN ts[HomeOf(ts, u)].vars
  /\ ts[HomeOf(ts, u)].vars[u.ref.l + 1].name = u.name
  /\ ts[HomeOf(ts, u)].vars[u.ref.l + 1].kind = "loop" <=> u.ref.readonly = TRUE
  /\ u.ref.n > 0 => ts[HomeOf(ts, u)].vars[u.ref.l + 1].kind # "loop"

(* What a lookup meets before it: variables of ended loops, which only     *)
(* programs have that use a name for a loop and for something else.        *)
LoopsAhead(ts, u, fresh) ==
  \A m \in DOMAIN ts[u.table].chain : \A i \in DOMAIN ts[ts[u.table].chain[m]].vars :
    /\ m < u.ref.n + 1 \/ (m = u.ref.n + 1 /\ i < u.ref.l + 1)
    /\ ts[ts[u.table].chain[m]].vars[i].name = u.name
    => ts[ts[u.table].chain[m]].vars[i].kind = "loop" /\ ~fresh

LEMMA FunctionIsSeq ==
  ASSUME NEW S, NEW n \in Nat, NEW f, f = [k \in 1 .. n |-> f[k]], \A k \in 1 .. n : f[k] \in S
  PROVE  f \in Seq(S) /\ Len(f) = n
<1>1. f \in [1 .. n -> S]
  OBVIOUS
<1>2. f \in Seq(S)
  BY <1>1
<1> QED BY <1>1, <1>2

LEMMA OneTable ==
  ASSUME NEW N, NEW ts \in Seq(Table(N)), NEW t \in DOMAIN ts
  PROVE  /\ DOMAIN ts = 1 .. Len(ts) /\ t \in 1 .. Len(ts) /\ ts[t] \in Table(N)
         /\ ts[t].vars \in Seq(Entry(N)) /\ ts[t].chain \in Seq(Nat)
<1>1. DOMAIN ts = 1 .. Len(ts) /\ ts[t] \in Table(N)
  BY LenProperties, ElementOfSeq
<1> QED BY <1>1 DEF Table

LEMMA TablesTyped ==
  ASSUME NEW ts, AreTables(ts)
  PROVE  /\ Len(ts) \in Nat /\ DOMAIN ts = 1 .. Len(ts) /\ 1 \in DOMAIN ts
         /\ \A t \in DOMAIN ts :
              /\ Len(ts[t].vars) \in Nat /\ DOMAIN ts[t].vars = 1 .. Len(ts[t].vars)
              /\ Len(ts[t].chain) \in Nat /\ DOMAIN ts[t].chain = 1 .. Len(ts[t].chain)
              /\ \A m \in DOMAIN ts[t].chain : ts[t].chain[m] \in Nat
              /\ \A i \in DOMAIN ts[t].vars :
                   /\ ts[t].vars[i].kind \in Kinds /\ ts[t].vars[i].dim \in Nat
                   /\ ts[t].vars[i].valid \in BOOLEAN /\ ts[t].vars[i].readonly \in BOOLEAN
                   /\ ts[t].vars[i].isextern \in BOOLEAN
<1>1. PICK N : ts \in Seq(Table(N))
  BY DEF AreTables
<1>2. Len(ts) \in Nat /\ DOMAIN ts = 1 .. Len(ts) /\ ts # <<>>
  BY <1>1 DEF AreTables
<1>3. 1 \in DOMAIN ts
  BY <1>1, <1>2, EmptySeq
<1>4. \A t \in DOMAIN ts : ts[t] \in Table(N)
  BY <1>1, <1>2, ElementOfSeq
<1>5. ASSUME NEW t \in DOMAIN ts
      PROVE  /\ Len(ts[t].vars) \in Nat /\ DOMAIN ts[t].vars = 1 .. Len(ts[t].vars)
             /\ Len(ts[t].chain) \in Nat /\ DOMAIN ts[t].chain = 1 .. Len(ts[t].chain)
             /\ \A m \in DOMAIN ts[t].chain : ts[t].chain[m] \in Nat
             /\ \A i \in DOMAIN ts[t].vars : ts[t].vars[i] \in Entry(N)
  <2>1. ts[t].vars \in Seq(Entry(N)) /\ ts[t].chain \in Seq(Nat)
    BY <1>4 DEF Table
  <2> QED BY <2>1, ElementOfSeq
<1> QED BY <1>2, <1>3, <1>5 DEF Entry

LEMMA KeptAlong ==
  ASSUME NEW ts, NEW us, NEW vs, Keeps(ts, us), Keeps(us, vs)
  PROVE  Keeps(ts, vs)
BY DEF Keeps

LEMMA RefersKept ==
  ASSUME NEW ts, NEW us, Keeps(ts, us), Shape(ts), NEW u, Refers(ts, u)
  PROVE  Refers(us, u) /\ HomeOf(us, u) = HomeOf(ts, u) /\ HomeOf(ts, u) \in DOMAIN ts
<1>1. HomeOf(us, u) = HomeOf(ts, u)
  BY DEF Refers, Keeps, HomeOf
<1>2. HomeOf(ts, u) \in DOMAIN ts
  BY DEF Refers, HomeOf, Shape, Chains, ChainOk
<1> QED BY <1>1, <1>2 DEF Refers, Keeps

(* A use of a variable that is no initialiser passes over variables of     *)
(* loops only, and stays that way; a for loop has an entry of its own,     *)
(* the first of its name if the name is fresh.                             *)
UseOk(ts, u, fresh) ==
  /\ Refers(ts, u)
  /\ u.init = FALSE => LoopsAhead(ts, u, fresh)
  /\ u.init # FALSE => u.place = <<>>
LoopOk(ts, loop, fresh) ==
  /\ loop.table \in DOMAIN ts /\ loop.table # 1
  /\ loop.idx \in Nat /\ loop.idx + 1 \in DOMAIN ts[loop.table].vars
  /\ ts[loop.table].vars[loop.idx + 1].name = loop.name
  /\ ts[loop.table].vars[loop.idx + 1].kind = "loop"
  /\ ts[loop.table].vars[loop.idx + 1].isextern = FALSE
  /\ fresh => \A i \in 1 .. loop.idx : ts[loop.table].vars[i].name # loop.name

-----------------------------------------------------------------------------
(* Changes of the tables.                                                  *)
LEMMA ChainFacts ==
  ASSUME NEW ts, AreTables(ts), Chains(ts), NEW t \in DOMAIN ts
  PROVE  LET c == ts[t].chain
         IN  /\ Len(c) \in Nat /\ Len(c) >= 1 /\ DOMAIN c = 1 .. Len(c) /\ 1 \in DOMAIN c
             /\ c[1] = t
             /\ \A m \in DOMAIN c : /\ c[m] \in DOMAIN ts /\ c[m] \in Nat
                                    /\ c[m] = 1 <=> m = Len(c)
                                    /\ c[m] = t <=> m = 1
             /\ \A m, p \in DOMAIN c : c[m] = c[p] => m = p
             /\ t # 1 => Len(c) >= 2
<1> DEFINE c == ts[t].chain
<1>1. PICK N : ts \in Seq(Table(N))
  BY DEF AreTables
<1>2. c \in Seq(Nat)
  BY <1>1, OneTable
<1>3. c # <<>> /\ c[1] = t /\ c[Len(c)] = 1
      /\ \A m \in DOMAIN c : c[m] \in DOMAIN ts /\ \A p \in DOMAIN c : m < p => c[p] < c[m]
  BY DEF Chains, ChainOk
<1>4. Len(c) \in Nat /\ Len(c) >= 1 /\ DOMAIN c = 1 .. Len(c) /\ \A m \in DOMAIN c : c[m] \in Nat
  BY <1>2, <1>3, EmptySeq, ElementOfSeq
<1> HIDE DEF c
<1>5. \A m \in DOMAIN c : c[m] = 1 <=> m = Len(c)
  BY <1>3, <1>4
<1>6. \A m, p \in DOMAIN c : c[m] = c[p] => m = p
  BY <1>3, <1>4
<1>7. \A m \in DOMAIN c : c[m] = t <=> m = 1
  BY <1>3, <1>4, <1>6
<1>8. t # 1 => Len(c) >= 2
  BY <1>3, <1>4
<1>9. \A m \in DOMAIN c : /\ c[m] \in DOMAIN ts /\ c[m] \in Nat
                          /\ c[m] = 1 <=> m = Len(c)
                          /\ c[m] = t <=> m = 1
  <2> TAKE m \in DOMAIN c
  <2>1. c[m] \in DOMAIN ts
    BY <1>3
  <2>2. c[m] \in Nat
    BY <1>4
  <2> QED BY <2>1, <2>2, <1>5, <1>7
<1>10. 1 \in DOMAIN c /\ c[1] = t
  BY <1>3, <1>4
<1> QED BY <1>4, <1>6, <1>8, <1>9, <1>10 DEF c

LEMMA ChainsKept ==
  ASSUME NEW ts, NEW us, Chains(ts), DOMAIN us = DOMAIN ts,
         \A t \in DOMAIN ts : us[t].chain = ts[t].chain
  PROVE  Chains(us)
<1> SUFFICES ASSUME NEW t \in DOMAIN ts, NEW c, ChainOk(ts, t, c) PROVE ChainOk(us, t, c)
  BY DEF Chains
<1> QED BY DEF ChainOk

(* Entries are added to table t.                                           *)
Grown(ts, t, s) == [ts EXCEPT ![t].vars = @ \o s]
Added(ts, us, t, s) ==
  /\ AreTables(us) /\ Keeps(ts, us) /\ DOMAIN us = DOMAIN ts
  /\ \A k \in DOMAIN ts : us[k].chain = ts[k].chain /\ (k # t => us[k] = ts[k])
  /\ Len(ts[t].vars) \in Nat /\ Len(us[t].vars) = Len(ts[t].vars) + Len(s)
  /\ DOMAIN us[t].vars = 1 .. Len(ts[t].vars) + Len(s)
  /\ \A i \in 1 .. Len(ts[t].vars) : us[t].vars[i] = ts[t].vars[i]
  /\ \A i \in 1 .. Len(s) : us[t].vars[Len(ts[t].vars) + i] = s[i]

LEMMA EntriesAdded ==
  ASSUME NEW ts, AreTables(ts), NEW t \in DOMAIN ts, NEW N, NEW s \in Seq(Entry(N))
  PROVE  Added(ts, Grown(ts, t, s), t, s)
<1> DEFINE us == [ts EXCEPT ![t].vars = @ \o s]
           n == Len(ts[t].vars)
<1>1. PICK M : ts \in Seq(Table(M))
  BY DEF AreTables
<1> DEFINE P == Entry(M) \cup Entry(N)
<1>2. Entry(M) \subseteq Entry(M \cup N) /\ Entry(N) \subseteq Entry(M \cup N)
  BY DEF Entry
<1>3. ts[t] \in Table(M) /\ ts[t].vars \in Seq(Entry(M))
  BY <1>1, OneTable
<1>4. ts[t].vars \in Seq(Entry(M \cup N)) /\ s \in Seq(Entry(M \cup N))
  BY <1>2, <1>3, SeqMonotonic
<1>5. /\ ts[t].vars \o s \in Seq(Entry(M \cup N))
      /\ Len(ts[t].vars \o s) = n + Len(s)
      /\ \A i \in 1 .. n + Len(s) : (ts[t].vars \o s)[i] = IF i <= n THEN ts[t].vars[i] ELSE s[i - n]
  BY <1>4, ConcatProperties
<1>6. n \in Nat /\ Len(s) \in Nat
  BY <1>4
<1>7. Table(M) \subseteq Table(M \cup N)
  <2> SUFFICES ASSUME NEW x \in Table(M) PROVE x \in Table(M \cup N)
    OBVIOUS
  <2>1. x.vars \in Seq(Entry(M \cup N))
    BY <1>2, SeqMonotonic DEF Table
  <2> QED BY <2>1 DEF Table
<1>8. ts \in Seq(Table(M \cup N))
  BY <1>1, <1>7, SeqMonotonic
<1>9. t \in 1 .. Len(ts) /\ DOMAIN ts = 1 .. Len(ts)
  BY <1>1
<1>10. [ts[t] EXCEPT !.vars = @ \o s] \in Table(M \cup N)
  BY <1>3, <1>5 DEF Table
<1>11. us = [ts EXCEPT ![t] = [ts[t] EXCEPT !.vars = @ \o s]]
  BY <1>9
<1>12. us \in Seq(Table(M \cup N)) /\ Len(us) = Len(ts)
  BY <1>8, <1>9, <1>10, <1>11, ExceptSeq
<1>13. /\ DOMAIN us = DOMAIN ts
       /\ \A k \in DOMAIN ts : us[k].chain = ts[k].chain /\ (k # t => us[k] = ts[k])
       /\ us[t].vars = ts[t].vars \o s
  BY <1>3, <1>9 DEF Table
<1>14. AreTables(us)
  <2>1. us # <<>>
    BY <1>12, <1>9
  <2> QED BY <1>12, <2>1 DEF AreTables
<1> HIDE DEF us
<1>15. /\ Len(us[t].vars) = n + Len(s)
       /\ DOMAIN us[t].vars = 1 .. n + Len(s)
       /\ \A i \in 1 .. n : us[t].vars[i] = ts[t].vars[i]
       /\ \A i \in 1 .. Len(s) : us[t].vars[n + i] = s[i]
  BY <1>5, <1>6, <1>13
<1>16. DOMAIN ts[t].vars = 1 .. n
  BY <1>3
<1>17. Keeps(ts, us)
  <2> SUFFICES ASSUME NEW k \in DOMAIN ts
               PROVE  /\ DOMAIN ts[k].vars \subseteq DOMAIN us[k].vars
                      /\ \A i \in DOMAIN ts[k].vars : us[k].vars[i] = ts[k].vars[i]
    BY <1>13 DEF Keeps
  <2>1. CASE k = t
    BY <2>1, <1>15, <1>16, <1>6
  <2>2. CASE k # t
    BY <2>2, <1>13
  <2> QED BY <2>1, <2>2
<1> QED BY <1>6, <1>13, <1>14, <1>15, <1>17 DEF us, Added, Grown

(* Flags of one entry of table t change.                                   *)
Flagged(ts, us, t) ==
  /\ DOMAIN us = DOMAIN ts /\ us = [k \in DOMAIN ts |-> us[k]]
  /\ \A k \in DOMAIN ts : k # t => us[k] = ts[k]
  /\ t \in DOMAIN ts => /\ us[t].chain = ts[t].chain
                        /\ us[t] = [ts[t] EXCEPT !.vars = us[t].vars]
                        /\ \E N : us[t].vars \in Seq(Entry(N))
                        /\ DOMAIN us[t].vars = DOMAIN ts[t].vars
                        /\ \A i \in DOMAIN ts[t].vars :
                             /\ us[t].vars[i].name = ts[t].vars[i].name
                             /\ us[t].vars[i].kind = ts[t].vars[i].kind
                             /\ us[t].vars[i].dim = ts[t].vars[i].dim
                             /\ us[t].vars[i].isextern = ts[t].vars[i].isextern

LEMMA FlagChanged ==
  ASSUME NEW ts, AreTables(ts), NEW t, NEW us, Flagged(ts, us, t)
  PROVE  AreTables(us) /\ Keeps(ts, us)
<1> USE DEF Flagged
<1>1. PICK M : ts \in Seq(Table(M))
  BY DEF AreTables
<1>2. Keeps(ts, us)
  <2> SUFFICES ASSUME NEW k \in DOMAIN ts
               PROVE  /\ us[k].chain = ts[k].chain
                      /\ DOMAIN ts[k].vars \subseteq DOMAIN us[k].vars
                      /\ \A i \in DOMAIN ts[k].vars : /\ us[k].vars[i].name = ts[k].vars[i].name
                                                      /\ us[k].vars[i].kind = ts[k].vars[i].kind
                                                      /\ us[k].vars[i].dim = ts[k].vars[i].dim
                                                      /\ us[k].vars[i].isextern = ts[k].vars[i].isextern
    BY DEF Keeps
  <2>1. CASE k = t
    BY <2>1
  <2>2. CASE k # t
    BY <2>2
  <2> QED BY <2>1, <2>2
<1>3. DOMAIN ts = 1 .. Len(ts) /\ Len(ts) \in Nat /\ ts # <<>>
  BY <1>1 DEF AreTables
<1>4. CASE t \in DOMAIN ts
  <2>1. PICK N : us[t].vars \in Seq(Entry(N))
    BY <1>4
  <2>2. Entry(M) \subseteq Entry(M \cup N) /\ Entry(N) \subseteq Entry(M \cup N)
    BY DEF Entry
  <2>3. \A k \in DOMAIN ts : us[k] \in Table(M \cup N)
    <3> TAKE k \in DOMAIN ts
    <3>1. ts[k] \in Table(M) /\ ts[k].vars \in Seq(Entry(M)) /\ ts[k].chain \in Seq(Nat)
      BY <1>1, OneTable
    <3>2. ts[k].vars \in Seq(Entry(M \cup N)) /\ us[t].vars \in Seq(Entry(M \cup N))
      BY <3>1, <2>1, <2>2, SeqMonotonic
    <3>3. CASE k = t
      BY <3>1, <3>2, <3>3 DEF Table
    <3>4. CASE k # t
      BY <3>1, <3>2, <3>4 DEF Table
    <3> QED BY <3>3, <3>4
  <2>4. us \in Seq(Table(M \cup N)) /\ Len(us) = Len(ts)
    <3>1. us = [k \in 1 .. Len(ts) |-> us[k]] /\ \A k \in 1 .. Len(ts) : us[k] \in Table(M \cup N)
      BY <1>3, <2>3
    <3> HIDE DEF Table
    <3> QED BY <1>3, <3>1, FunctionIsSeq
  <2> QED BY <1>2, <1>3, <2>4 DEF AreTables
<1>5. CASE t \notin DOMAIN ts
  <2>1. us \in Seq(Table(M)) /\ Len(us) = Len(ts)
    <3>1. \A k \in 1 .. Len(ts) : us[k] \in Table(M)
      BY <1>1, <1>3, <1>5, ElementOfSeq
    <3> QED BY <1>3, <3>1, FunctionIsSeq
  <2> QED BY <1>2, <1>3, <2>1 DEF AreTables
<1> QED BY <1>4, <1>5

(* A function opens a table.                                               *)
LEMMA TableOpened ==
  ASSUME NEW ts, AreTables(ts), Chains(ts), NEW t \in DOMAIN ts
  PROVE  LET us == Append(ts, NewTable(Len(ts) + 1, ts[t].chain))
             n == Len(ts) + 1
         IN  /\ AreTables(us) /\ Keeps(ts, us) /\ Chains(us)
             /\ n \in Nat /\ DOMAIN us = 1 .. n /\ Len(us) = n /\ DOMAIN ts = 1 .. n - 1
             /\ \A k \in DOMAIN ts : us[k] = ts[k]
             /\ us[n].vars = <<>>
             /\ DOMAIN us[n].chain = 1 .. Len(ts[t].chain) + 1
             /\ us[n].chain[1] = n
             /\ \A m \in DOMAIN ts[t].chain : us[n].chain[m + 1] = ts[t].chain[m]
<1> DEFINE n == Len(ts) + 1
           c == ts[t].chain
           d == <<n>> \o c
           us == Append(ts, NewTable(n, c))
<1>1. PICK M : ts \in Seq(Table(M))
  BY DEF AreTables
<1>2. /\ c \in Seq(Nat) /\ Len(c) \in Nat /\ DOMAIN c = 1 .. Len(c) /\ Len(c) >= 1
      /\ n \in Nat /\ n > 1 /\ DOMAIN ts = 1 .. n - 1 /\ ts # <<>>
  <2>1. c \in Seq(Nat)
    BY <1>1, OneTable
  <2>2. Len(c) >= 1
    BY ChainFacts
  <2>3. Len(ts) \in Nat /\ Len(ts) >= 1 /\ DOMAIN ts = 1 .. Len(ts)
    BY <1>1, EmptySeq DEF AreTables
  <2> QED BY <2>1, <2>2, <2>3 DEF AreTables
<1>3. /\ d \in Seq(Nat) /\ Len(d) = Len(c) + 1 /\ DOMAIN d = 1 .. Len(c) + 1
      /\ d[1] = n /\ \A m \in DOMAIN c : d[m + 1] = c[m]
  BY <1>2
<1>4. us[n] = [vars |-> <<>>, chain |-> d] /\ \A k \in DOMAIN ts : us[k] = ts[k]
  BY <1>1, <1>2 DEF NewTable
<1>5. us \in Seq(Table(M)) /\ Len(us) = n /\ DOMAIN us = 1 .. n
  <2>1. <<>> \in Seq(Entry(M))
    OBVIOUS
  <2>2. NewTable(n, c) \in Table(M)
    BY <1>3, <2>1 DEF NewTable, Table
  <2> QED BY <1>1, <1>2, <2>2
<1>6. AreTables(us)
  <2>1. us # <<>>
    BY <1>5, <1>2
  <2> QED BY <1>5, <2>1 DEF AreTables
<1>7. Keeps(ts, us)
  BY <1>2, <1>4, <1>5 DEF Keeps
<1>8. DOMAIN c = 1 .. Len(c) /\ ChainOk(ts, t, c)
  BY <1>2 DEF Chains
<1> HIDE DEF us, c, d
<1>9. \A m \in DOMAIN d : d[m] \in DOMAIN us /\ (m > 1 => d[m] = c[m - 1] /\ d[m] \in DOMAIN ts)
  <2> SUFFICES ASSUME NEW m \in DOMAIN d
               PROVE  d[m] \in DOMAIN us /\ (m > 1 => d[m] = c[m - 1] /\ d[m] \in DOMAIN ts)
    OBVIOUS
  <2>1. \A p \in DOMAIN c : c[p] \in DOMAIN ts
    BY <1>8 DEF ChainOk
  <2>2. CASE m = 1
    BY <2>2, <1>2, <1>3, <1>5
  <2>3. CASE m > 1
    <3>1. m - 1 \in DOMAIN c /\ m = (m - 1) + 1
      BY <2>3, <1>2, <1>3
    <3>2. d[m] = c[m - 1]
      BY <3>1, <1>3
    <3> QED BY <3>1, <3>2, <2>1, <1>2, <1>5
  <2> QED BY <2>2, <2>3, <1>3, <1>2
<1>10. Chains(us)
  <2> SUFFICES ASSUME NEW k \in DOMAIN us PROVE ChainOk(us, k, us[k].chain)
    BY DEF Chains
  <2>1. CASE k \in DOMAIN ts
    <3>1. us[k].chain = ts[k].chain /\ ChainOk(ts, k, ts[k].chain)
      BY <2>1, <1>4 DEF Chains
    <3>2. SUFFICES ASSUME NEW e, ChainOk(ts, k, e) PROVE ChainOk(us, k, e)
      BY <3>1
    <3>3. \A m \in DOMAIN e : us[e[m]] = ts[e[m]] /\ e[m] \in DOMAIN us
      BY <3>2, <1>2, <1>4, <1>5 DEF ChainOk
    <3> QED BY <3>2, <3>3 DEF ChainOk
  <2>2. CASE k = n
    <3>1. us[k].chain = d
      BY <2>2, <1>4
    <3>2. d # <<>> /\ d[1] = k /\ d[Len(d)] = 1
      <4>1. c[Len(c)] = 1 /\ Len(c) \in DOMAIN c
        BY <1>2, <1>8 DEF ChainOk
      <4>2. d[Len(c) + 1] = 1
        BY <4>1, <1>3
      <4> QED BY <4>2, <1>2, <1>3, <2>2
    <3>3. SUFFICES ASSUME NEW m \in DOMAIN d
                   PROVE  /\ \A p \in DOMAIN d : m < p => d[p] < d[m]
                          /\ Len(us[d[m]].chain) = Len(d) - m + 1
                          /\ \A p \in DOMAIN us[d[m]].chain : us[d[m]].chain[p] = d[m + p - 1]
      BY <3>1, <3>2, <1>9 DEF ChainOk
    <3>4. CASE m = 1
      <4>1. us[d[m]].chain = d
        BY <3>4, <1>3, <1>4
      <4>2. \A p \in DOMAIN d : m < p => d[p] < d[m]
        BY <3>4, <1>2, <1>3, <1>9
      <4> QED BY <4>1, <4>2, <3>4, <1>2, <1>3
    <3>5. CASE m > 1
      <4>1. m - 1 \in DOMAIN c /\ d[m] = c[m - 1] /\ d[m] \in DOMAIN ts
        BY <3>5, <1>2, <1>3, <1>9
      <4>2. us[d[m]] = ts[c[m - 1]]
        BY <4>1, <1>4
      <4>3. /\ \A p \in DOMAIN c : m - 1 < p => c[p] < c[m - 1]
            /\ Len(ts[c[m - 1]].chain) = Len(c) - (m - 1) + 1
            /\ \A p \in DOMAIN ts[c[m - 1]].chain : ts[c[m - 1]].chain[p] = c[(m - 1) + p - 1]
        BY <4>1, <1>8 DEF ChainOk
      <4>4. \A p \in DOMAIN d : m < p => d[p] < d[m]
        <5> SUFFICES ASSUME NEW p \in DOMAIN d, m < p PROVE d[p] < d[m]
          OBVIOUS
        <5>1. p - 1 \in DOMAIN c /\ d[p] = c[p - 1] /\ m - 1 < p - 1
          <6>1. p \in 1 .. Len(c) + 1 /\ m \in 1 .. Len(c) + 1 /\ Len(c) \in Nat
            BY <1>2, <1>3
          <6>2. p > 1 /\ p - 1 \in 1 .. Len(c) /\ m - 1 < p - 1
            BY <3>5, <6>1
          <6> QED BY <6>2, <1>2, <1>9
        <5> QED BY <5>1, <4>1, <4>3
      <4>5. Len(us[d[m]].chain) = Len(d) - m + 1
        BY <4>2, <4>3, <1>2, <1>3
      <4>6. \A p \in DOMAIN us[d[m]].chain : us[d[m]].chain[p] = d[m + p - 1]
        <5> SUFFICES ASSUME NEW p \in DOMAIN ts[c[m - 1]].chain
                     PROVE  ts[c[m - 1]].chain[p] = d[m + p - 1]
          BY <4>2
        <5>1. DOMAIN ts[c[m - 1]].chain = 1 .. Len(ts[c[m - 1]].chain)
          BY <4>1, <1>1, OneTable
        <5>2. (m - 1) + p - 1 \in DOMAIN c /\ ((m - 1) + p - 1) + 1 = m + p - 1
          <6>1. p \in 1 .. (Len(c) - (m - 1) + 1)
            BY <5>1, <4>3
          <6>2. m - 1 \in 1 .. Len(c) /\ Len(c) \in Nat /\ m \in Nat
            BY <4>1, <1>2, <1>3
          <6> QED BY <6>1, <6>2, <1>8
        <5> QED BY <5>2, <4>3, <1>3
      <4> QED BY <4>4, <4>5, <4>6
    <3> QED BY <3>4, <3>5, <1>3, <1>2
  <2> QED BY <2>1, <2>2, <1>2, <1>5
<1>11. /\ us[n].vars = <<>>
       /\ DOMAIN us[n].chain = 1 .. Len(c) + 1 /\ us[n].chain[1] = n
       /\ \A m \in DOMAIN c : us[n].chain[m + 1] = c[m]
  BY <1>3, <1>4
<1>12. n \in Nat /\ DOMAIN ts = 1 .. n - 1 /\ \A k \in DOMAIN ts : us[k] = ts[k]
  BY <1>2, <1>4
<1> QED BY <1>5, <1>6, <1>7, <1>10, <1>11, <1>12 DEF us, c

-----------------------------------------------------------------------------
(* Lookups.                                                                *)
LEMMA LeastIsLeast ==
  ASSUME NEW S \in SUBSET Nat, S # {}
  PROVE  Least(S) \in S /\ Least(S) \in Nat /\ \A k \in S : Least(S) <= k
BY LeastNat DEF Least

LEMMA NamedIndices ==
  ASSUME NEW ts, AreTables(ts), NEW t \in DOMAIN ts, NEW name
  PROVE  /\ Named(ts[t], name) \in SUBSET Nat /\ ValidNamed(ts[t], name) \in SUBSET Nat
         /\ \A l : l \in Named(ts[t], name)
                     <=> l \in Nat /\ l + 1 \in DOMAIN ts[t].vars /\ ts[t].vars[l + 1].name = name
         /\ \A l : l \in ValidNamed(ts[t], name)
                     <=> l \in Named(ts[t], name) /\ ts[t].vars[l + 1].valid
<1>1. Len(ts[t].vars) \in Nat /\ DOMAIN ts[t].vars = 1 .. Len(ts[t].vars)
  BY TablesTyped
<1> QED BY <1>1 DEF Named, ValidNamed

(* return_varref: what it finds, and what it passes over.                  *)
LEMMA FoundValid ==
  ASSUME NEW ts, AreTables(ts), Chains(ts), NEW t \in DOMAIN ts, NEW name,
         ReturnVarref(ts, t, name) # None
  PROVE  LET r == ReturnVarref(ts, t, name)
             c == ts[t].chain
         IN  /\ r.n \in Nat /\ r.l \in Nat /\ r.n + 1 \in DOMAIN c
             /\ r.l + 1 \in DOMAIN ts[c[r.n + 1]].vars
             /\ ts[c[r.n + 1]].vars[r.l + 1].name = name
             /\ r.readonly = ts[c[r.n + 1]].vars[r.l + 1].readonly
             /\ r.dim = ts[c[r.n + 1]].vars[r.l + 1].dim
             /\ ts[c[r.n + 1]].vars[r.l + 1].valid
             /\ \A m \in DOMAIN c : \A i \in DOMAIN ts[c[m]].vars :
                  /\ m < r.n + 1 \/ (m = r.n + 1 /\ i < r.l + 1)
                  /\ ts[c[m]].vars[i].name = name
                  => ~ts[c[m]].vars[i].valid
<1> DEFINE c == ts[t].chain
           H == Hits(ts, c, name)
           n == Least(H)
           V == ValidNamed(ts[c[n + 1]], name)
           l == Least(V)
           r == ReturnVarref(ts, t, name)
<1>1. Len(c) \in Nat /\ DOMAIN c = 1 .. Len(c) /\ \A m \in DOMAIN c : c[m] \in DOMAIN ts
  BY ChainFacts
<1>2. H # {} /\ r = RefTo(ts, c, n, l)
  BY DEF ReturnVarref
<1>3. \A k : k \in H <=> k \in 0 .. Len(c) - 1 /\ ValidNamed(ts[c[k + 1]], name) # {}
  BY DEF Hits
<1> HIDE DEF c, r, H, n, V
<1>4. H \in SUBSET Nat
  BY <1>1, <1>3
<1>5. n \in H /\ n \in Nat /\ \A k \in H : n <= k
  BY <1>2, <1>4, LeastIsLeast DEF n
<1>6. n + 1 \in DOMAIN c /\ V # {}
  BY <1>1, <1>5, <1>3 DEF V
<1>7. c[n + 1] \in DOMAIN ts
  BY <1>1, <1>6
<1>8. V \in SUBSET Nat
  BY <1>7, NamedIndices DEF V
<1>9. l \in V /\ l \in Nat /\ \A k \in V : l <= k
  BY <1>6, <1>8, LeastIsLeast
<1> HIDE DEF l
<1>10. l + 1 \in DOMAIN ts[c[n + 1]].vars /\ ts[c[n + 1]].vars[l + 1].name = name
       /\ ts[c[n + 1]].vars[l + 1].valid
  BY <1>7, <1>9, NamedIndices DEF V
<1>11. /\ r.n = n /\ r.l = l /\ r.readonly = ts[c[n + 1]].vars[l + 1].readonly
       /\ r.dim = ts[c[n + 1]].vars[l + 1].dim
  BY <1>2 DEF RefTo
<1>12. ASSUME NEW m \in DOMAIN c, NEW i \in DOMAIN ts[c[m]].vars,
              m < n + 1 \/ (m = n + 1 /\ i < l + 1),
              ts[c[m]].vars[i].name = name, ts[c[m]].vars[i].valid
       PROVE  FALSE
  <2>1. c[m] \in DOMAIN ts /\ Len(ts[c[m]].vars) \in Nat
        /\ DOMAIN ts[c[m]].vars = 1 .. Len(ts[c[m]].vars)
    BY <1>1, TablesTyped
  <2>2. i - 1 \in Nat /\ (i - 1) + 1 = i
    BY <2>1
  <2>3. i - 1 \in ValidNamed(ts[c[m]], name)
    BY <1>12, <2>1, <2>2, NamedIndices
  <2>4. CASE m < n + 1
    <3>1. m - 1 \in Nat /\ (m - 1) + 1 = m /\ m - 1 \in 0 .. Len(c) - 1
      BY <1>1
    <3>2. m - 1 \in H
      BY <3>1, <2>3, <1>3
    <3> QED BY <3>1, <3>2, <1>5, <2>4
  <2>5. CASE m = n + 1 /\ i < l + 1
    <3>1. i - 1 \in V
      BY <2>3, <2>5 DEF V
    <3> QED BY <3>1, <2>2, <1>9, <2>5
  <2> QED BY <2>4, <2>5, <1>12
<1> QED BY <1>5, <1>6, <1>9, <1>10, <1>11, <1>12 DEF c, r

(* r is the first entry of a name along a chain, n tables up at index l.   *)
IsFirst(ts, c, name, r) ==
  /\ r.n \in Nat /\ r.l \in Nat /\ r.n + 1 \in DOMAIN c
  /\ r.l + 1 \in DOMAIN ts[c[r.n + 1]].vars
  /\ ts[c[r.n + 1]].vars[r.l + 1].name = name
  /\ \A m \in DOMAIN c : \A i \in DOMAIN ts[c[m]].vars :
       ts[c[m]].vars[i].name = name => r.n + 1 < m \/ (m = r.n + 1 /\ r.l + 1 <= i)

(* return_varref_ignore_valid: the first entry of the name, if there is    *)
(* any along the chain.                                                    *)
LEMMA FirstFound ==
  ASSUME NEW ts, AreTables(ts), Chains(ts), NEW t \in DOMAIN ts, NEW name,
         NEW m0 \in DOMAIN ts[t].chain, NEW i0 \in DOMAIN ts[ts[t].chain[m0]].vars,
         ts[ts[t].chain[m0]].vars[i0].name = name
  PROVE  /\ ReturnVarrefIgnoreValid(ts, t, name) # None
         /\ IsFirst(ts, ts[t].chain, name, ReturnVarrefIgnoreValid(ts, t, name))
         /\ LET r == ReturnVarrefIgnoreValid(ts, t, name)
            IN  r = RefTo(ts, ts[t].chain, r.n, r.l)
<1> DEFINE c == ts[t].chain
           H == HitsAll(ts, c, name)
           n == Least(H)
           V == Named(ts[c[n + 1]], name)
           l == Least(V)
           r == ReturnVarrefIgnoreValid(ts, t, name)
<1>1. Len(c) \in Nat /\ DOMAIN c = 1 .. Len(c) /\ \A m \in DOMAIN c : c[m] \in DOMAIN ts
  BY ChainFacts
<1>2. m0 \in DOMAIN c /\ i0 \in DOMAIN ts[c[m0]].vars /\ ts[c[m0]].vars[i0].name = name
  OBVIOUS
<1>3. r = IF H = {} THEN None ELSE RefTo(ts, c, n, l)
  BY DEF ReturnVarrefIgnoreValid
<1>4. \A k : k \in H <=> k \in 0 .. Len(c) - 1 /\ Named(ts[c[k + 1]], name) # {}
  BY DEF HitsAll
<1> HIDE DEF c, r, H, n, V
<1>5. \A m \in DOMAIN c : \A i \in DOMAIN ts[c[m]].vars :
        ts[c[m]].vars[i].name = name =>
          m - 1 \in H /\ i - 1 \in Named(ts[c[m]], name) /\ m \in Nat /\ i \in Nat
  <2> SUFFICES ASSUME NEW m \in DOMAIN c, NEW i \in DOMAIN ts[c[m]].vars, ts[c[m]].vars[i].name = name
               PROVE  m - 1 \in H /\ i - 1 \in Named(ts[c[m]], name) /\ m \in Nat /\ i \in Nat
    OBVIOUS
  <2>1. c[m] \in DOMAIN ts /\ Len(ts[c[m]].vars) \in Nat
        /\ DOMAIN ts[c[m]].vars = 1 .. Len(ts[c[m]].vars)
    BY <1>1, TablesTyped
  <2>2. i - 1 \in Nat /\ (i - 1) + 1 = i
    BY <2>1
  <2>3. i - 1 \in Named(ts[c[m]], name)
    BY <2>1, <2>2, NamedIndices
  <2>4. m - 1 \in Nat /\ (m - 1) + 1 = m /\ m - 1 \in 0 .. Len(c) - 1
    BY <1>1
  <2>5. m - 1 \in H
    BY <2>4, <2>3, <1>4
  <2> QED BY <2>2, <2>3, <2>4, <2>5
<1>6. H \in SUBSET Nat /\ H # {}
  BY <1>1, <1>5, <1>2, <1>4
<1>7. n \in H /\ n \in Nat /\ \A k \in H : n <= k
  BY <1>6, LeastIsLeast DEF n
<1>8. n + 1 \in DOMAIN c /\ V # {}
  BY <1>1, <1>7, <1>4 DEF V
<1>9. c[n + 1] \in DOMAIN ts
  BY <1>1, <1>8
<1>10. V \in SUBSET Nat
  BY <1>9, NamedIndices DEF V
<1>11. l \in V /\ l \in Nat /\ \A k \in V : l <= k
  BY <1>8, <1>10, LeastIsLeast
<1> HIDE DEF l
<1>12. l + 1 \in DOMAIN ts[c[n + 1]].vars /\ ts[c[n + 1]].vars[l + 1].name = name
  BY <1>9, <1>11, NamedIndices DEF V
<1>13. r = RefTo(ts, c, n, l)
  BY <1>3, <1>6
<1>14. r.n = n /\ r.l = l /\ r # None
  <2>1. r.n = n /\ r.l = l
    BY <1>13 DEF RefTo
  <2>2. None.n = -1
    BY DEF None
  <2> QED BY <2>1, <2>2, <1>7, <1>13
<1>15. ASSUME NEW m \in DOMAIN c, NEW i \in DOMAIN ts[c[m]].vars, ts[c[m]].vars[i].name = name
       PROVE  n + 1 < m \/ (m = n + 1 /\ l + 1 <= i)
  <2>1. m - 1 \in H /\ i - 1 \in Named(ts[c[m]], name) /\ m \in Nat /\ i \in Nat
    BY <1>5, <1>15
  <2>2. n <= m - 1
    BY <2>1, <1>7
  <2>3. CASE m = n + 1
    <3>1. i - 1 \in V
      BY <2>1, <2>3 DEF V
    <3> QED BY <3>1, <1>11, <2>1, <2>3
  <2> QED BY <2>1, <2>2, <2>3, <1>7
<1>16. IsFirst(ts, c, name, r)
  BY <1>7, <1>8, <1>11, <1>12, <1>14, <1>15 DEF IsFirst
<1>17. r = RefTo(ts, c, r.n, r.l)
  BY <1>14, <1>13
<1> QED BY <1>14, <1>16, <1>17 DEF c, r

(* No entry along the chain has the name a fresh lookup does not find.     *)
LEMMA NothingFound ==
  ASSUME NEW ts, AreTables(ts), Chains(ts), NEW t \in DOMAIN ts, NEW name,
         ReturnVarrefIgnoreValid(ts, t, name) = None
  PROVE  \A m \in DOMAIN ts[t].chain : \A i \in DOMAIN ts[ts[t].chain[m]].vars :
           ts[ts[t].chain[m]].vars[i].name # name
BY FirstFound

-----------------------------------------------------------------------------
(* What is known of uses and loops stays when tables grow.  An entry added *)
(* in front of what a use denotes has to be that of a loop.                *)
LEMMA UseKept ==
  ASSUME NEW ts, NEW us, Keeps(ts, us), Shape(ts), NEW fresh, NEW u, UseOk(ts, u, fresh),
         AreTables(us),
         u.init = FALSE =>
           \A m \in DOMAIN ts[u.table].chain : \A i \in DOMAIN us[ts[u.table].chain[m]].vars :
             /\ m < u.ref.n + 1
             /\ i \notin DOMAIN ts[ts[u.table].chain[m]].vars
             /\ us[ts[u.table].chain[m]].vars[i].name = u.name
             => us[ts[u.table].chain[m]].vars[i].kind = "loop" /\ ~fresh
  PROVE  UseOk(us, u, fresh)
<1> DEFINE c == ts[u.table].chain
           n == u.ref.n
           l == u.ref.l
<1>1. /\ Refers(us, u) /\ u.table \in DOMAIN ts /\ n \in Nat /\ l \in Nat
      /\ n + 1 \in DOMAIN c /\ l + 1 \in DOMAIN ts[c[n + 1]].vars
  <2>1. Refers(ts, u)
    BY DEF UseOk
  <2>2. Refers(us, u)
    BY <2>1, RefersKept
  <2> QED BY <2>1, <2>2 DEF Refers, HomeOf
<1>2. us[u.table].chain = c
  BY <1>1 DEF Keeps
<1>3. ASSUME u.init = FALSE
      PROVE  LoopsAhead(us, u, fresh)
  <2>1. \A m \in DOMAIN c : \A i \in DOMAIN ts[c[m]].vars :
          /\ m < n + 1 \/ (m = n + 1 /\ i < l + 1)
          /\ ts[c[m]].vars[i].name = u.name
          => ts[c[m]].vars[i].kind = "loop" /\ ~fresh
    BY <1>3 DEF UseOk, LoopsAhead
  <2>2. \A m \in DOMAIN c : c[m] \in DOMAIN ts
    BY <1>1, ChainFacts DEF Shape
  <2>3. SUFFICES ASSUME NEW m \in DOMAIN c, NEW i \in DOMAIN us[c[m]].vars,
                        m < n + 1 \/ (m = n + 1 /\ i < l + 1),
                        us[c[m]].vars[i].name = u.name
                 PROVE  us[c[m]].vars[i].kind = "loop" /\ ~fresh
    BY <1>2 DEF LoopsAhead
  <2>4. CASE i \in DOMAIN ts[c[m]].vars
    <3>1. us[c[m]].vars[i].name = ts[c[m]].vars[i].name /\ us[c[m]].vars[i].kind = ts[c[m]].vars[i].kind
      BY <2>2, <2>4 DEF Keeps
    <3> QED BY <2>1, <2>3, <2>4, <3>1
  <2>5. CASE i \notin DOMAIN ts[c[m]].vars
    <3>1. CASE m < n + 1
      BY <1>3, <2>3, <2>5, <3>1
    <3>2. CASE m = n + 1 /\ i < l + 1
      <4>1. c[m] \in DOMAIN us /\ c[m] \in DOMAIN ts
        BY <2>2 DEF Keeps
      <4>2. /\ DOMAIN us[c[m]].vars = 1 .. Len(us[c[m]].vars) /\ Len(us[c[m]].vars) \in Nat
            /\ DOMAIN ts[c[m]].vars = 1 .. Len(ts[c[m]].vars) /\ Len(ts[c[m]].vars) \in Nat
        BY <4>1, TablesTyped DEF Shape
      <4>3. l + 1 \in DOMAIN ts[c[m]].vars
        BY <1>1, <3>2
      <4> HIDE DEF c, n, l
      <4> QED BY <1>1, <2>5, <3>2, <4>2, <4>3
    <3> QED BY <2>3, <3>1, <3>2
  <2> QED BY <2>4, <2>5
<1> QED BY <1>1, <1>3 DEF UseOk

LEMMA LoopKept ==
  ASSUME NEW ts, NEW us, Keeps(ts, us), AreTables(ts), NEW fresh, NEW loop, LoopOk(ts, loop, fresh)
  PROVE  LoopOk(us, loop, fresh)
<1> DEFINE t == loop.table
<1>1. /\ t \in DOMAIN ts /\ t # 1 /\ loop.idx \in Nat /\ loop.idx + 1 \in DOMAIN ts[t].vars
      /\ DOMAIN ts[t].vars = 1 .. Len(ts[t].vars) /\ Len(ts[t].vars) \in Nat
  BY TablesTyped DEF LoopOk
<1>2. /\ t \in DOMAIN us /\ DOMAIN ts[t].vars \subseteq DOMAIN us[t].vars
      /\ \A i \in DOMAIN ts[t].vars : /\ us[t].vars[i].name = ts[t].vars[i].name
                                      /\ us[t].vars[i].kind = ts[t].vars[i].kind
                                      /\ us[t].vars[i].isextern = ts[t].vars[i].isextern
  BY <1>1 DEF Keeps
<1>3. \A i \in 1 .. loop.idx : i \in DOMAIN ts[t].vars
  <2> HIDE DEF t
  <2> QED BY <1>1
<1> QED BY <1>1, <1>2, <1>3 DEF LoopOk

(* What return_varref finds in a statement: a loop variable only in the    *)
(* table of the function itself, and nothing ahead of it but variables of  *)
(* ended loops; with fresh names nothing at all.                           *)
LoopsAreLocal(ts, t, fresh) ==
  \A m \in DOMAIN ts[t].chain : \A i \in DOMAIN ts[ts[t].chain[m]].vars :
    LET var == ts[ts[t].chain[m]].vars[i]
    IN  /\ var.kind # "loop" => var.valid
        /\ var.readonly <=> var.kind = "loop"
        /\ m > 1 => var.kind # "loop"
        /\ fresh => \A j \in DOMAIN ts[t].vars :
                      ts[t].vars[j].kind = "loop" /\ ts[t].vars[j].name = var.name
                      => m = 1 /\ i = j

LEMMA StatementResolved ==
  ASSUME NEW ts, AreTables(ts), Chains(ts), NEW u, u.table \in DOMAIN ts, NEW fresh,
         u.ref = ReturnVarref(ts, u.table, u.name), u.ref # None,
         LoopsAreLocal(ts, u.table, fresh)
  PROVE  Refers(ts, u) /\ LoopsAhead(ts, u, fresh)
<1> DEFINE t == u.table
           c == ts[u.table].chain
           r == u.ref
           x == ReturnVarref(ts, u.table, u.name)
<1>1. /\ r.n \in Nat /\ r.l \in Nat /\ r.n + 1 \in DOMAIN c
      /\ r.l + 1 \in DOMAIN ts[c[r.n + 1]].vars
      /\ ts[c[r.n + 1]].vars[r.l + 1].name = u.name
      /\ r.readonly = ts[c[r.n + 1]].vars[r.l + 1].readonly
      /\ ts[c[r.n + 1]].vars[r.l + 1].valid
      /\ \A m \in DOMAIN c : \A i \in DOMAIN ts[c[m]].vars :
           /\ m < r.n + 1 \/ (m = r.n + 1 /\ i < r.l + 1)
           /\ ts[c[m]].vars[i].name = u.name
           => ~ts[c[m]].vars[i].valid
  <2>1. x = r /\ x # None
    OBVIOUS
  <2>2. /\ x.n \in Nat /\ x.l \in Nat /\ x.n + 1 \in DOMAIN c
        /\ x.l + 1 \in DOMAIN ts[c[x.n + 1]].vars
        /\ ts[c[x.n + 1]].vars[x.l + 1].name = u.name
        /\ x.readonly = ts[c[x.n + 1]].vars[x.l + 1].readonly
        /\ x.dim = ts[c[x.n + 1]].vars[x.l + 1].dim
        /\ ts[c[x.n + 1]].vars[x.l + 1].valid
        /\ \A m \in DOMAIN c : \A i \in DOMAIN ts[c[m]].vars :
             /\ m < x.n + 1 \/ (m = x.n + 1 /\ i < x.l + 1)
             /\ ts[c[m]].vars[i].name = u.name
             => ~ts[c[m]].vars[i].valid
    BY <2>1, FoundValid, Zenon
  <2> HIDE DEF x, r, c
  <2> QED BY <2>1, <2>2
<1>2. /\ DOMAIN c = 1 .. Len(c) /\ Len(c) \in Nat /\ c[1] = t
      /\ \A m \in DOMAIN c : c[m] \in DOMAIN ts
  BY ChainFacts
<1>3. \A m \in DOMAIN c : /\ DOMAIN ts[c[m]].vars = 1 .. Len(ts[c[m]].vars)
                          /\ Len(ts[c[m]].vars) \in Nat
                          /\ \A i \in DOMAIN ts[c[m]].vars : ts[c[m]].vars[i].readonly \in BOOLEAN
  BY <1>2, TablesTyped
<1>4. \A m \in DOMAIN c : \A i \in DOMAIN ts[c[m]].vars :
        /\ ts[c[m]].vars[i].kind # "loop" => ts[c[m]].vars[i].valid
        /\ ts[c[m]].vars[i].readonly <=> ts[c[m]].vars[i].kind = "loop"
        /\ m > 1 => ts[c[m]].vars[i].kind # "loop"
        /\ fresh => \A j \in DOMAIN ts[t].vars :
                      ts[t].vars[j].kind = "loop" /\ ts[t].vars[j].name = ts[c[m]].vars[i].name
                      => m = 1 /\ i = j
  BY DEF LoopsAreLocal
<1> HIDE DEF c, r, t, x
<1>5. /\ ts[c[r.n + 1]].vars[r.l + 1].kind = "loop" <=> r.readonly = TRUE
      /\ r.n > 0 => ts[c[r.n + 1]].vars[r.l + 1].kind # "loop"
  <2> DEFINE var == ts[c[r.n + 1]].vars[r.l + 1]
  <2>1. /\ var.readonly <=> var.kind = "loop"
        /\ r.n + 1 > 1 => var.kind # "loop"
    BY <1>1, <1>4
  <2>2. var.readonly \in BOOLEAN /\ r.readonly = var.readonly
    BY <1>1, <1>3
  <2> HIDE DEF var
  <2>3. var.kind = "loop" <=> r.readonly = TRUE
    BY <2>1, <2>2
  <2>4. r.n > 0 => var.kind # "loop"
    BY <1>1, <2>1
  <2> QED BY <2>3, <2>4 DEF var
<1>6. ASSUME NEW m \in DOMAIN c, NEW i \in DOMAIN ts[c[m]].vars,
             m < r.n + 1 \/ (m = r.n + 1 /\ i < r.l + 1), ts[c[m]].vars[i].name = u.name
      PROVE  ts[c[m]].vars[i].kind = "loop" /\ ~fresh
  <2>1. ts[c[m]].vars[i].kind = "loop"
    BY <1>1, <1>6, <1>4
  <2>2. ~(m > 1)
    BY <1>4, <2>1
  <2>3. m = 1
    BY <1>2, <2>2
  <2>4. i \in DOMAIN ts[t].vars /\ ts[t].vars[i].kind = "loop" /\ ts[t].vars[i].name = u.name
    BY <1>2, <1>6, <2>1, <2>3
  <2>5. ASSUME fresh PROVE FALSE
    <3>1. r.n + 1 = 1 /\ r.l + 1 = i
      BY <1>1, <1>4, <2>4, <2>5
    <3> QED BY <1>1, <1>3, <1>6, <2>3, <3>1
  <2> QED BY <2>1, <2>5
<1>7. Refers(ts, u)
  BY <1>1, <1>5, Zenon DEF Refers, HomeOf, c, r
<1>8. LoopsAhead(ts, u, fresh)
  BY <1>6, Zenon DEF LoopsAhead, c, r
<1> QED BY <1>7, <1>8

(* A name looked up once more, whether valid or not: it denotes what it    *)
(* denoted, or the variable of a loop.                                     *)
LEMMA FixedErrs ==
  ASSUME NEW ts, AreTables(ts), Chains(ts), NEW u, NEW fresh, Refers(ts, u), LoopsAhead(ts, u, fresh)
  PROVE  LET d == Denotes(ts, u.table, ReturnVarrefIgnoreValid(ts, u.table, u.name))
         IN  d # Denotes(ts, u.table, u.ref) => ts[d[1]].vars[d[2] + 1].kind = "loop" /\ ~fresh
<1> DEFINE c == ts[u.table].chain
           n == u.ref.n
           l == u.ref.l
           r == ReturnVarrefIgnoreValid(ts, u.table, u.name)
<1>1. /\ u.table \in DOMAIN ts /\ n \in Nat /\ l \in Nat
      /\ n + 1 \in DOMAIN c /\ l + 1 \in DOMAIN ts[c[n + 1]].vars
      /\ ts[c[n + 1]].vars[l + 1].name = u.name
  BY DEF Refers, HomeOf
<1>2. /\ r.n \in Nat /\ r.l \in Nat /\ r.n + 1 \in DOMAIN c
      /\ r.l + 1 \in DOMAIN ts[c[r.n + 1]].vars
      /\ ts[c[r.n + 1]].vars[r.l + 1].name = u.name
      /\ \A m \in DOMAIN c : \A i \in DOMAIN ts[c[m]].vars :
           ts[c[m]].vars[i].name = u.name => r.n + 1 < m \/ (m = r.n + 1 /\ r.l + 1 <= i)
  <2>1. IsFirst(ts, c, u.name, r)
    BY <1>1, FirstFound
  <2> QED BY <2>1 DEF IsFirst
<1>3. \A m \in DOMAIN c : \A i \in DOMAIN ts[c[m]].vars :
        /\ m < n + 1 \/ (m = n + 1 /\ i < l + 1)
        /\ ts[c[m]].vars[i].name = u.name
        => ts[c[m]].vars[i].kind = "loop" /\ ~fresh
  BY DEF LoopsAhead
<1>4. \/ r.n + 1 < n + 1 \/ (r.n + 1 = n + 1 /\ r.l + 1 < l + 1)
      \/ r.n = n /\ r.l = l
  <2> HIDE DEF r, n, l, c
  <2>1. r.n + 1 < n + 1 \/ (n + 1 = r.n + 1 /\ r.l + 1 <= l + 1)
    BY <1>1, <1>2
  <2> QED BY <1>1, <1>2, <2>1
<1>5. \/ ts[c[r.n + 1]].vars[r.l + 1].kind = "loop" /\ ~fresh
      \/ r.n = n /\ r.l = l
  <2> HIDE DEF r, n, l, c
  <2> QED BY <1>2, <1>3, <1>4
<1>6. /\ Denotes(ts, u.table, r)[1] = c[r.n + 1] /\ Denotes(ts, u.table, r)[2] = r.l
      /\ r.n = n /\ r.l = l => Denotes(ts, u.table, r) = Denotes(ts, u.table, u.ref)
  BY DEF Denotes
<1> HIDE DEF r, n, l, c
<1> QED BY <1>5, <1>6 DEF r

(* The variable of a for loop, looked up when the loop is transformed.     *)
LEMMA OwnLoopFound ==
  ASSUME NEW ts, AreTables(ts), Chains(ts), NEW loop, LoopOk(ts, loop, TRUE)
  PROVE  LET r == ReturnVarrefIgnoreValid(ts, loop.table, loop.name)
         IN  /\ Denotes(ts, loop.table, r) = <<loop.table, loop.idx>>
             /\ r.n = 0 /\ r.l = loop.idx /\ r.reftype = "local"
<1> DEFINE t == loop.table
           c == ts[loop.table].chain
           l == loop.idx
           r == ReturnVarrefIgnoreValid(ts, loop.table, loop.name)
<1>1. /\ t \in DOMAIN ts /\ l \in Nat /\ l + 1 \in DOMAIN ts[t].vars
      /\ ts[t].vars[l + 1].name = loop.name
      /\ \A i \in 1 .. l : ts[t].vars[i].name # loop.name
  BY DEF LoopOk
<1>2. 1 \in DOMAIN c /\ c[1] = t /\ DOMAIN c = 1 .. Len(c) /\ Len(c) \in Nat
  BY <1>1, ChainFacts
<1>3. ts[c[1]].vars[l + 1].name = loop.name /\ l + 1 \in DOMAIN ts[c[1]].vars
  BY <1>1, <1>2
<1>4. /\ r.n \in Nat /\ r.l \in Nat /\ r.n + 1 \in DOMAIN c
      /\ r.l + 1 \in DOMAIN ts[c[r.n + 1]].vars
      /\ ts[c[r.n + 1]].vars[r.l + 1].name = loop.name
      /\ \A m \in DOMAIN c : \A i \in DOMAIN ts[c[m]].vars :
           ts[c[m]].vars[i].name = loop.name => r.n + 1 < m \/ (m = r.n + 1 /\ r.l + 1 <= i)
  <2>1. IsFirst(ts, c, loop.name, r)
    BY <1>1, <1>2, <1>3, FirstFound
  <2> QED BY <2>1 DEF IsFirst
<1>5. r.n + 1 < 1 \/ (1 = r.n + 1 /\ r.l + 1 <= l + 1)
  <2> HIDE DEF r, c, t, l
  <2> QED BY <1>2, <1>3, <1>4
<1>6. r.n = 0 /\ c[r.n + 1] = t
  <2>1. r.n = 0
    <3> HIDE DEF r, c, t, l
    <3> QED BY <1>4, <1>5
  <2>2. r.n + 1 = 1
    BY <2>1
  <2> QED BY <1>2, <2>1, <2>2
<1>7. r.l = l
  <2>1. ts[t].vars[r.l + 1].name = loop.name
    BY <1>4, <1>6
  <2>2. r.l + 1 \notin 1 .. l
    BY <1>1, <2>1
  <2> HIDE DEF r, c, t, l
  <2> QED BY <1>1, <1>4, <1>5, <2>2
<1>8. ts[c[r.n + 1]].vars[r.l + 1].isextern = FALSE /\ r.n + 1 # Len(c)
  <2>1. ts[t].vars[l + 1].isextern = FALSE /\ t # 1
    BY DEF LoopOk
  <2>2. Len(c) >= 2
    BY <1>1, <2>1, ChainFacts
  <2>3. r.n + 1 # Len(c)
    <3> HIDE DEF r, c
    <3> QED BY <1>6, <2>2
  <2> QED BY <2>1, <2>3, <1>6, <1>7
<1>9. r.reftype = "local"
  <2>1. r = RefTo(ts, c, r.n, r.l)
    BY <1>1, <1>2, <1>3, FirstFound
  <2> HIDE DEF r, c
  <2> QED BY <2>1, <1>8 DEF RefTo
<1> QED BY <1>6, <1>7, <1>9 DEF Denotes

(* A definition, looked up when its initialiser is moved.                  *)
LEMMA DefinitionFound ==
  ASSUME NEW ts, Shape(ts), NEW t \in DOMAIN ts, NEW i \in DOMAIN ts[t].vars,
         ts[t].vars[i].kind # "loop"
  PROVE  Denotes(ts, t, ReturnVarrefIgnoreValid(ts, t, ts[t].vars[i].name)) = <<t, i - 1>>
<1> DEFINE c == ts[t].chain
           r == ReturnVarrefIgnoreValid(ts, t, ts[t].vars[i].name)
<1>1. AreTables(ts) /\ Chains(ts)
  BY DEF Shape
<1>2. 1 \in DOMAIN c /\ c[1] = t /\ DOMAIN c = 1 .. Len(c) /\ Len(c) \in Nat
  BY <1>1, ChainFacts
<1>3. DOMAIN ts[t].vars = 1 .. Len(ts[t].vars) /\ Len(ts[t].vars) \in Nat
  BY <1>1, TablesTyped
<1>4. i \in DOMAIN ts[c[1]].vars /\ ts[c[1]].vars[i].name = ts[t].vars[i].name
  BY <1>2
<1>5. /\ r.n \in Nat /\ r.l \in Nat /\ r.n + 1 \in DOMAIN c
      /\ r.l + 1 \in DOMAIN ts[c[r.n + 1]].vars
      /\ ts[c[r.n + 1]].vars[r.l + 1].name = ts[t].vars[i].name
      /\ \A m \in DOMAIN c : \A k \in DOMAIN ts[c[m]].vars :
           ts[c[m]].vars[k].name = ts[t].vars[i].name =>
             r.n + 1 < m \/ (m = r.n + 1 /\ r.l + 1 <= k)
  <2>1. IsFirst(ts, c, ts[t].vars[i].name, r)
    BY <1>1, <1>2, <1>4, FirstFound
  <2> QED BY <2>1 DEF IsFirst
<1>6. r.n + 1 < 1 \/ (1 = r.n + 1 /\ r.l + 1 <= i)
  <2> HIDE DEF r, c
  <2> QED BY <1>2, <1>4, <1>5
<1>7. r.n = 0 /\ c[r.n + 1] = t
  <2>1. r.n = 0
    <3> HIDE DEF r, c
    <3> QED BY <1>5, <1>6
  <2>2. r.n + 1 = 1
    BY <2>1
  <2> QED BY <1>2, <2>1, <2>2
<1>8. r.l + 1 \in DOMAIN ts[t].vars /\ ts[t].vars[r.l + 1].name = ts[t].vars[i].name
  BY <1>5, <1>7
<1>9. ~(r.l + 1 < i)
  BY <1>8 DEF Shape, DeclaredOnce
<1>10. r.l = i - 1
  <2> HIDE DEF r, c
  <2> QED BY <1>3, <1>5, <1>9, <1>6
<1> QED BY <1>7, <1>10 DEF Denotes

(* Up to a variable that is no loop's there are no loops and no name twice. *)
LEMMA NamesBefore ==
  ASSUME NEW ts, Shape(ts), NEW t \in DOMAIN ts, NEW l \in DOMAIN ts[t].vars,
         ts[t].vars[l].kind # "loop", NEW i \in 1 .. l, NEW j \in 1 .. l
  PROVE  /\ ts[t].vars[i].kind # "loop"
         /\ ts[t].vars[i].name = ts[t].vars[j].name => i = j
<1>1. DOMAIN ts[t].vars = 1 .. Len(ts[t].vars) /\ Len(ts[t].vars) \in Nat
  BY TablesTyped DEF Shape
<1>2. \A k \in 1 .. l : k \in DOMAIN ts[t].vars /\ k \in Nat /\ (k < l \/ k = l)
  BY <1>1
<1>3. \A k \in 1 .. l : ts[t].vars[k].kind # "loop"
  BY <1>2 DEF Shape, DeclaredOnce
<1>4. \A k, m \in 1 .. l : k < m => ts[t].vars[k].name # ts[t].vars[m].name
  BY <1>2, <1>3 DEF Shape, DeclaredOnce
<1>5. i < j \/ j < i \/ i = j
  BY <1>2
<1> QED BY <1>3, <1>4, <1>5

-----------------------------------------------------------------------------
(* The walk of RSO.                                                        *)
Stages == {"program", "params", "decls", "funs", "stmts", "closed"}
Early == {"program", "params", "decls"}
LoopFree == {"program", "params", "decls", "funs"}

IsSeq(s) == \E S : s \in Seq(S)

(* st tells how far the walk is in each table, c is the current one.       *)
Staged(ts, st, c) ==
  /\ st \in Seq(Stages) /\ Len(st) = Len(ts)
  /\ c \in DOMAIN ts
  /\ \A t \in DOMAIN ts : st[t] = "program" <=> t = 1
  /\ \A m \in DOMAIN ts[c].chain : m > 1 => st[ts[c].chain[m]] \in {"program", "funs"}

(* Loop variables come with the statements; they alone are read only and   *)
(* they alone ever lose their validity.                                    *)
EntriesOk(ts, st) ==
  \A t \in DOMAIN ts : \A i \in DOMAIN ts[t].vars :
    LET var == ts[t].vars[i]
    IN  /\ var.kind # "loop" => var.valid
        /\ var.readonly <=> var.kind = "loop"
        /\ st[t] \in LoopFree => var.kind # "loop"

(* With fresh names no other entry in sight has the name of a loop.        *)
Alone(ts, c, fresh) ==
  fresh => \A j \in DOMAIN ts[c].vars :
             ts[c].vars[j].kind = "loop" =>
               \A m \in DOMAIN ts[c].chain : \A i \in DOMAIN ts[ts[c].chain[m]].vars :
                 ts[c].vars[j].name = ts[ts[c].chain[m]].vars[i].name => m = 1 /\ i = j

LoopsOk(ts, ls, fresh) ==
  IsSeq(ls) /\ \A k \in DOMAIN ls : ls[k].kind = "for" => LoopOk(ts, ls[k], fresh)

OpenOk(ls, op, c) ==
  /\ \E P : op \in Seq([loop : Nat, part : P])
  /\ \A i \in DOMAIN op : /\ op[i].loop \in DOMAIN ls
                          /\ ls[op[i].loop].kind = "for" => ls[op[i].loop].table = c

(* Around a use in a statement no declarations are added any more.         *)
Settled(ts, st, u) ==
  \A m \in DOMAIN ts[u.table].chain :
    ts[u.table].chain[m] = 1 \/ st[ts[u.table].chain[m]] \in Stages \ Early
UsesOk(ts, st, us, fresh) ==
  /\ IsSeq(us)
  /\ \A k \in DOMAIN us : UseOk(ts, us[k], fresh) /\ (us[k].init = FALSE => Settled(ts, st, us[k]))

Walk ==
  /\ program \in Programs
  /\ Shape(tables)
  /\ Staged(tables, stage, cur)
  /\ EntriesOk(tables, stage)
  /\ Alone(tables, cur, program.fresh)
  /\ LoopsOk(tables, loops, program.fresh)
  /\ OpenOk(loops, open, cur)
  /\ UsesOk(tables, stage, uses, program.fresh)

-----------------------------------------------------------------------------
LEMMA SeqGrows ==
  ASSUME NEW s, IsSeq(s), NEW x
  PROVE  /\ IsSeq(Append(s, x)) /\ Len(s) \in Nat /\ DOMAIN s = 1 .. Len(s)
         /\ Len(Append(s, x)) = Len(s) + 1 /\ DOMAIN Append(s, x) = 1 .. Len(s) + 1
         /\ Append(s, x)[Len(s) + 1] = x
         /\ \A i \in DOMAIN s : Append(s, x)[i] = s[i]
<1>1. PICK S : s \in Seq(S)
  BY DEF IsSeq
<1>2. s \in Seq(S \cup {x})
  BY <1>1, SeqMonotonic
<1>3. Append(s, x) \in Seq(S \cup {x})
  BY <1>2, AppendProperties
<1> QED BY <1>2, <1>3, AppendProperties DEF IsSeq

LEMMA AheadFacts ==
  ASSUME NEW x \in Stages, NEW s \in Ahead[x]
  PROVE  /\ s \in {"params", "decls", "funs", "stmts"}
         /\ s \in LoopFree => x \in LoopFree
         /\ s \in Early => x \in Early
         /\ x # "closed"
<1>1. CASE x = "program"
  <2>1. Ahead[x] = {"decls", "funs"}
    BY <1>1 DEF Ahead
  <2> QED BY <2>1, <1>1 DEF LoopFree, Early
<1>2. CASE x = "params"
  <2>1. Ahead[x] = {"params", "decls", "funs", "stmts"}
    BY <1>2 DEF Ahead
  <2> QED BY <2>1, <1>2 DEF LoopFree, Early
<1>3. CASE x = "decls"
  <2>1. Ahead[x] = {"decls", "funs", "stmts"}
    BY <1>3 DEF Ahead
  <2> QED BY <2>1, <1>3 DEF LoopFree, Early
<1>4. CASE x = "funs"
  <2>1. Ahead[x] = {"funs", "stmts"}
    BY <1>4 DEF Ahead
  <2> QED BY <2>1, <1>4 DEF LoopFree, Early
<1>5. CASE x = "stmts"
  <2>1. Ahead[x] = {"stmts"}
    BY <1>5 DEF Ahead
  <2> QED BY <2>1, <1>5 DEF LoopFree, Early
<1>6. CASE x = "closed"
  <2>1. Ahead[x] = {}
    BY <1>6 DEF Ahead
  <2> QED BY <2>1
<1> QED BY <1>1, <1>2, <1>3, <1>4, <1>5, <1>6 DEF Stages

(* The next stage of the current table.                                    *)
LEMMA Advanced ==
  ASSUME NEW ts, Shape(ts), NEW st, NEW c, Staged(ts, st, c), NEW s \in Ahead[st[c]],
         EntriesOk(ts, st), NEW us, NEW fresh, UsesOk(ts, st, us, fresh)
  PROVE  LET nx == IF st[c] = "program" THEN st ELSE [st EXCEPT ![c] = s]
         IN  Staged(ts, nx, c) /\ EntriesOk(ts, nx) /\ UsesOk(ts, nx, us, fresh)
<1> DEFINE nx == [st EXCEPT ![c] = s]
<1>1. /\ st \in Seq(Stages) /\ Len(st) = Len(ts) /\ c \in DOMAIN ts
      /\ \A t \in DOMAIN ts : st[t] = "program" <=> t = 1
      /\ \A m \in DOMAIN ts[c].chain : m > 1 => st[ts[c].chain[m]] \in {"program", "funs"}
  BY DEF Staged
<1>2. DOMAIN ts = 1 .. Len(ts) /\ DOMAIN st = 1 .. Len(st)
  BY <1>1, TablesTyped DEF Shape
<1>3. st[c] \in Stages
  BY <1>1, <1>2, ElementOfSeq
<1>4. /\ s \in {"params", "decls", "funs", "stmts"}
      /\ s \in LoopFree => st[c] \in LoopFree
      /\ s \in Early => st[c] \in Early
  BY <1>3, AheadFacts
<1>5. SUFFICES ASSUME st[c] # "program"
               PROVE  Staged(ts, nx, c) /\ EntriesOk(ts, nx) /\ UsesOk(ts, nx, us, fresh)
  OBVIOUS
<1>6. /\ nx \in Seq(Stages) /\ Len(nx) = Len(ts)
      /\ nx[c] = s /\ \A t \in DOMAIN ts : t # c => nx[t] = st[t]
  <2>1. s \in Stages
    BY <1>4 DEF Stages
  <2> QED BY <1>1, <1>2, <2>1, ExceptSeq
<1> HIDE DEF nx
<1>7. \A m \in DOMAIN ts[c].chain : ts[c].chain[m] \in DOMAIN ts /\ (m > 1 => ts[c].chain[m] # c)
  BY <1>1, ChainFacts DEF Shape
<1>8. Staged(ts, nx, c)
  <2>1. \A t \in DOMAIN ts : nx[t] = "program" <=> t = 1
    BY <1>1, <1>4, <1>5, <1>6
  <2>2. \A m \in DOMAIN ts[c].chain : m > 1 => nx[ts[c].chain[m]] \in {"program", "funs"}
    BY <1>1, <1>6, <1>7
  <2> QED BY <1>1, <1>6, <2>1, <2>2 DEF Staged
<1>9. EntriesOk(ts, nx)
  <2>1. \A t \in DOMAIN ts : nx[t] \in LoopFree => st[t] \in LoopFree
    BY <1>4, <1>6
  <2> QED BY <2>1 DEF EntriesOk
<1>10. UsesOk(ts, nx, us, fresh)
  <2> SUFFICES ASSUME NEW k \in DOMAIN us, us[k].init = FALSE, NEW m \in DOMAIN ts[us[k].table].chain
               PROVE  ts[us[k].table].chain[m] = 1 \/ nx[ts[us[k].table].chain[m]] \in Stages \ Early
    BY DEF UsesOk, Settled
  <2>1. UseOk(ts, us[k], fresh) /\ Settled(ts, st, us[k])
    BY DEF UsesOk
  <2>2. us[k].table \in DOMAIN ts
    BY <2>1 DEF UseOk, Refers
  <2> DEFINE t == ts[us[k].table].chain[m]
  <2>3. t \in DOMAIN ts
    BY <2>2, ChainFacts DEF Shape
  <2>4. t = 1 \/ st[t] \in Stages \ Early
    BY <2>1 DEF Settled
  <2> HIDE DEF t
  <2>5. t = 1 \/ nx[t] \in Stages \ Early
    <3>1. CASE t = c
      BY <3>1, <2>4, <1>4, <1>6, <1>1 DEF Stages
    <3>2. CASE t # c
      BY <3>2, <2>3, <2>4, <1>6
    <3> QED BY <3>1, <3>2
  <2> QED BY <2>5 DEF t
<1> QED BY <1>8, <1>9, <1>10

(* What a name in a statement, or in an initialiser, can denote.           *)
LEMMA LocalLoops ==
  ASSUME NEW ts, Shape(ts), NEW st, NEW c, Staged(ts, st, c), EntriesOk(ts, st),
         NEW fresh, Alone(ts, c, fresh)
  PROVE  LoopsAreLocal(ts, c, fresh)
<1>1. /\ c \in DOMAIN ts
      /\ \A m \in DOMAIN ts[c].chain : m > 1 => st[ts[c].chain[m]] \in LoopFree
  BY DEF Staged, LoopFree
<1>2. \A m \in DOMAIN ts[c].chain : ts[c].chain[m] \in DOMAIN ts
  BY <1>1, ChainFacts DEF Shape
<1> SUFFICES ASSUME NEW m \in DOMAIN ts[c].chain, NEW i \in DOMAIN ts[ts[c].chain[m]].vars
             PROVE  LET var == ts[ts[c].chain[m]].vars[i]
                    IN  /\ var.kind # "loop" => var.valid
                        /\ var.readonly <=> var.kind = "loop"
                        /\ m > 1 => var.kind # "loop"
                        /\ fresh => \A j \in DOMAIN ts[c].vars :
                                      ts[c].vars[j].kind = "loop" /\ ts[c].vars[j].name = var.name
                                      => m = 1 /\ i = j
  BY DEF LoopsAreLocal
<1>3. LET var == ts[ts[c].chain[m]].vars[i]
      IN  /\ var.kind # "loop" => var.valid
          /\ var.readonly <=> var.kind = "loop"
          /\ m > 1 => var.kind # "loop"
  BY <1>1, <1>2 DEF EntriesOk
<1>4. fresh => \A j \in DOMAIN ts[c].vars :
         ts[c].vars[j].kind = "loop" /\ ts[c].vars[j].name = ts[ts[c].chain[m]].vars[i].name
         => m = 1 /\ i = j
  BY DEF Alone
<1> QED BY <1>3, <1>4

-----------------------------------------------------------------------------
(* Declarations: new entries, none of a loop, at the end of table c.       *)
Declares(s) ==
  /\ \E N : s \in Seq(Entry(N))
  /\ \A i \in DOMAIN s : s[i].kind # "loop" /\ s[i].valid /\ ~s[i].readonly
  /\ \A i \in DOMAIN s : \A d \in 1 .. s[i].dim : i + d \in DOMAIN s

LEMMA DeclaredShape ==
  ASSUME NEW ts, Shape(ts), NEW st, NEW c, Staged(ts, st, c), EntriesOk(ts, st), st[c] \in LoopFree,
         NEW s, Declares(s), ~Clash(ts[c], s)
  PROVE  LET us == Grown(ts, c, s)
         IN  Shape(us) /\ EntriesOk(us, st) /\ Keeps(ts, us) /\ Staged(us, st, c)
<1> DEFINE us == Grown(ts, c, s)
           n == Len(ts[c].vars)
<1>1. PICK N : s \in Seq(Entry(N))
  BY DEF Declares
<1>2. c \in DOMAIN ts /\ AreTables(ts) /\ Chains(ts) /\ DeclaredOnce(ts) /\ DimsFollow(ts)
  BY DEF Staged, Shape
<1>3. /\ AreTables(us) /\ Keeps(ts, us) /\ DOMAIN us = DOMAIN ts
      /\ \A k \in DOMAIN ts : /\ us[k].chain = ts[k].chain
                              /\ k # c => us[k] = ts[k]
      /\ n \in Nat /\ Len(us[c].vars) = n + Len(s)
      /\ DOMAIN us[c].vars = 1 .. n + Len(s)
      /\ \A i \in 1 .. n : us[c].vars[i] = ts[c].vars[i]
      /\ \A i \in 1 .. Len(s) : us[c].vars[n + i] = s[i]
  <2>1. Added(ts, us, c, s)
    BY <1>1, <1>2, EntriesAdded
  <2> QED BY <2>1 DEF Added
<1>4. DOMAIN ts[c].vars = 1 .. n /\ Len(s) \in Nat /\ DOMAIN s = 1 .. Len(s)
  BY <1>1, <1>2, TablesTyped
<1> HIDE DEF us
<1>5. Chains(us)
  BY <1>2, <1>3, ChainsKept
<1>6. \A i \in 1 .. n : /\ ts[c].vars[i].kind # "loop" /\ ts[c].vars[i].valid
                        /\ ~ts[c].vars[i].readonly
  BY <1>2, <1>4 DEF EntriesOk
<1>7. \A i \in 1 .. Len(s) : s[i].kind # "loop" /\ s[i].valid /\ ~s[i].readonly
  BY <1>4 DEF Declares
<1>8. \A i \in 1 .. n + Len(s) : i \in 1 .. n \/ (i - n \in 1 .. Len(s) /\ n + (i - n) = i)
  BY <1>3, <1>4
<1>9. \A i \in 1 .. n + Len(s) : /\ us[c].vars[i].kind # "loop" /\ us[c].vars[i].valid
                                 /\ ~us[c].vars[i].readonly
  <2> TAKE i \in 1 .. n + Len(s)
  <2>1. CASE i \in 1 .. n
    BY <2>1, <1>3, <1>6
  <2>2. CASE i - n \in 1 .. Len(s) /\ n + (i - n) = i
    <3>1. PICK j : j = i - n
      OBVIOUS
    <3>2. j \in 1 .. Len(s) /\ us[c].vars[i] = s[j]
      BY <1>3, <2>2, <3>1
    <3> QED BY <1>7, <3>2
  <2> QED BY <2>1, <2>2, <1>8
<1>10. EntriesOk(us, st)
  <2> SUFFICES ASSUME NEW k \in DOMAIN ts, NEW i \in DOMAIN us[k].vars
               PROVE  LET var == us[k].vars[i]
                      IN  /\ var.kind # "loop" => var.valid
                          /\ var.readonly <=> var.kind = "loop"
                          /\ st[k] \in LoopFree => var.kind # "loop"
    BY <1>3 DEF EntriesOk
  <2>1. CASE k = c
    BY <2>1, <1>3, <1>9
  <2>2. CASE k # c
    BY <2>2, <1>3 DEF EntriesOk
  <2> QED BY <2>1, <2>2
<1>11. \A l \in 1 .. n : \A j \in 1 .. Len(s) : ts[c].vars[l].name # s[j].name
  <2> SUFFICES ASSUME NEW l \in 1 .. n, NEW j \in 1 .. Len(s), ts[c].vars[l].name = s[j].name
               PROVE  FALSE
    OBVIOUS
  <2>1. l - 1 \in Nat /\ (l - 1) + 1 = l /\ l \in DOMAIN ts[c].vars
    BY <1>3, <1>4
  <2>2. ts[c].vars[l].valid /\ ts[c].vars[l].name = s[j].name
    BY <1>6
  <2>3. AreTables(ts) /\ c \in DOMAIN ts
    BY <1>2
  <2>4. l - 1 \in ValidNamed(ts[c], s[j].name)
    BY <2>1, <2>2, <2>3, NamedIndices
  <2> QED BY <2>4, <1>4 DEF Clash, Redeclares
<1>12. \A j \in 1 .. Len(s) : \A i \in 1 .. j - 1 : s[i].name # s[j].name
  BY <1>4 DEF Clash
<1>13. DeclaredOnce(us)
  <2> SUFFICES ASSUME NEW k \in DOMAIN ts, NEW i \in DOMAIN us[k].vars, NEW j \in DOMAIN us[k].vars,
                      i < j, us[k].vars[j].kind # "loop"
               PROVE  us[k].vars[i].name # us[k].vars[j].name /\ us[k].vars[i].kind # "loop"
    BY <1>3 DEF DeclaredOnce
  <2>1. CASE k # c
    BY <2>1, <1>2, <1>3 DEF DeclaredOnce
  <2>2. CASE k = c
    <3>1. i \in 1 .. n + Len(s) /\ j \in 1 .. n + Len(s) /\ us[k].vars[i].kind # "loop"
      BY <2>2, <1>3, <1>9
    <3>2. CASE j \in 1 .. n
      <4>1. i \in 1 .. n
        BY <3>1, <3>2, <1>3
      <4> QED BY <4>1, <3>1, <3>2, <2>2, <1>2, <1>3, <1>4 DEF DeclaredOnce
    <3>3. CASE j - n \in 1 .. Len(s) /\ n + (j - n) = j /\ i \in 1 .. n
      <4>1. us[c].vars[i] = ts[c].vars[i] /\ us[c].vars[j] = s[j - n]
        BY <3>3, <1>3
      <4> QED BY <4>1, <3>1, <3>3, <2>2, <1>11
    <3>4. CASE /\ j - n \in 1 .. Len(s) /\ n + (j - n) = j
               /\ i - n \in 1 .. Len(s) /\ n + (i - n) = i
      <4>1. i - n \in 1 .. (j - n) - 1
        BY <3>1, <3>4, <1>3, <1>4
      <4>2. us[c].vars[i] = s[i - n] /\ us[c].vars[j] = s[j - n]
        BY <3>4, <1>3
      <4> QED BY <4>1, <4>2, <3>1, <3>4, <2>2, <1>12
    <3> QED BY <3>1, <3>2, <3>3, <3>4, <1>8
  <2> QED BY <2>1, <2>2
<1>14. Staged(us, st, c)
  <2>1. Len(us) = Len(ts)
    BY <1>2, <1>3, TablesTyped
  <2> QED BY <2>1, <1>3 DEF Staged
<1>15. DimsFollow(us)
  <2> SUFFICES ASSUME NEW k \in DOMAIN ts, NEW i \in DOMAIN us[k].vars, NEW d \in 1 .. us[k].vars[i].dim
               PROVE  /\ i + d \in DOMAIN us[k].vars
                      /\ us[k].vars[i].kind # "loop" /\ us[k].vars[i + d].kind # "loop"
    BY <1>3 DEF DimsFollow
  <2>1. CASE k # c
    BY <2>1, <1>2, <1>3 DEF DimsFollow
  <2>2. CASE k = c /\ i \in 1 .. n
    <3>1. i + d \in 1 .. n
      BY <2>2, <1>2, <1>3, <1>4 DEF DimsFollow
    <3>2. i + d \in 1 .. n + Len(s)
      BY <3>1, <1>3, <1>4
    <3> QED BY <2>2, <3>2, <1>3, <1>9
  <2>3. CASE k = c /\ i - n \in 1 .. Len(s) /\ n + (i - n) = i
    <3>1. us[k].vars[i] = s[i - n]
      BY <2>3, <1>3
    <3>2. (i - n) + d \in 1 .. Len(s)
      <4>1. i - n \in DOMAIN s /\ d \in 1 .. s[i - n].dim
        BY <2>3, <3>1, <1>4
      <4>2. \A j \in DOMAIN s : \A e \in 1 .. s[j].dim : j + e \in DOMAIN s
        BY DEF Declares
      <4>3. (i - n) + d \in DOMAIN s
        BY <4>1, <4>2
      <4> QED BY <4>3, <1>4
    <3>3. s[i - n].dim \in Nat
      <4>1. s[i - n] \in Entry(N)
        BY <2>3, <1>1, ElementOfSeq
      <4> QED BY <4>1 DEF Entry
    <3>4. d \in Nat /\ i \in Nat
      BY <2>3, <3>1, <3>3, <1>3, <1>4
    <3>5. i + d \in 1 .. n + Len(s)
      BY <2>3, <3>2, <3>4, <1>3, <1>4
    <3> QED BY <2>3, <3>5, <1>3, <1>9
  <2> QED BY <2>1, <2>2, <2>3, <1>3, <1>8
<1> QED BY <1>3, <1>5, <1>10, <1>13, <1>14, <1>15 DEF Shape, us

LEMMA DeclaredKeeps ==
  ASSUME NEW ts, Shape(ts), NEW st, NEW c, Staged(ts, st, c), EntriesOk(ts, st), st[c] \in Early,
         NEW s, Declares(s), ~Clash(ts[c], s), NEW fresh,
         NEW vs, UsesOk(ts, st, vs, fresh), NEW ls, LoopsOk(ts, ls, fresh)
  PROVE  LET us == Grown(ts, c, s)
         IN  UsesOk(us, st, vs, fresh) /\ LoopsOk(us, ls, fresh) /\ Alone(us, c, fresh)
<1> DEFINE us == Grown(ts, c, s)
<1>1. Shape(us) /\ EntriesOk(us, st) /\ Keeps(ts, us) /\ Staged(us, st, c)
  BY DeclaredShape DEF Early, LoopFree
<1>2. /\ AreTables(ts) /\ AreTables(us) /\ DOMAIN us = DOMAIN ts
      /\ \A k \in DOMAIN ts : k # c => us[k] = ts[k]
  <2>1. c \in DOMAIN ts /\ \E N : s \in Seq(Entry(N))
    BY DEF Staged, Declares
  <2>2. Added(ts, us, c, s)
    BY <2>1, EntriesAdded DEF Shape
  <2> QED BY <2>2 DEF Added, Shape
<1>3. /\ \A k \in DOMAIN us : \A i \in DOMAIN us[k].vars : st[k] \in LoopFree => us[k].vars[i].kind # "loop"
      /\ c \in DOMAIN us
  BY <1>1 DEF EntriesOk, Staged
<1> HIDE DEF us
<1>4. LoopsOk(us, ls, fresh)
  BY <1>1, <1>2, LoopKept DEF LoopsOk
<1>5. Alone(us, c, fresh)
  BY <1>3 DEF Alone, Early, LoopFree
<1>6. UsesOk(us, st, vs, fresh)
  <2> SUFFICES ASSUME NEW k \in DOMAIN vs
               PROVE  /\ UseOk(us, vs[k], fresh)
                      /\ vs[k].init = FALSE => Settled(us, st, vs[k])
    BY DEF UsesOk
  <2> DEFINE u == vs[k]
             d == ts[vs[k].table].chain
  <2>1. UseOk(ts, u, fresh) /\ (u.init = FALSE => Settled(ts, st, u))
    BY DEF UsesOk
  <2>2. u.table \in DOMAIN ts /\ u.ref.n \in Nat /\ u.ref.n + 1 \in DOMAIN d
    BY <2>1 DEF UseOk, Refers
  <2>3. /\ DOMAIN d = 1 .. Len(d) /\ Len(d) \in Nat
        /\ \A m \in DOMAIN d : d[m] \in DOMAIN ts /\ (d[m] = 1 <=> m = Len(d))
    BY <2>2, <1>2, ChainFacts DEF Shape
  <2>4. us[u.table].chain = d
    BY <2>2, <1>1 DEF Keeps
  <2>5. u.init = FALSE => Settled(us, st, u)
    BY <2>1, <2>4 DEF Settled
  <2>6. ASSUME u.init = FALSE, NEW m \in DOMAIN d, NEW i \in DOMAIN us[d[m]].vars,
               m < u.ref.n + 1, i \notin DOMAIN ts[d[m]].vars
        PROVE  FALSE
    <3>1. d[m] # 1
      BY <2>2, <2>3, <2>6
    <3>2. st[d[m]] \in Stages \ Early
      BY <2>1, <2>6, <3>1 DEF Settled
    <3>3. d[m] # c
      BY <3>2
    <3> QED BY <3>3, <2>3, <2>6, <1>2
  <2> HIDE DEF u, d
  <2>7. u.init = FALSE =>
          \A m \in DOMAIN d : \A i \in DOMAIN us[d[m]].vars :
            m < u.ref.n + 1 /\ i \notin DOMAIN ts[d[m]].vars => FALSE
    BY <2>6
  <2>8. UseOk(us, u, fresh)
    BY <1>1, <1>2, <2>1, <2>7, UseKept DEF d, u
  <2> QED BY <2>5, <2>8 DEF u
<1> QED BY <1>4, <1>5, <1>6 DEF us

LEMMA NewEntry ==
  ASSUME NEW N, NEW name \in N, NEW kind \in Kinds, kind # "loop", NEW dim \in Nat
  PROVE  LET var == NewVar(name, kind, dim)
         IN  var \in Entry(N) /\ var.kind # "loop" /\ var.valid /\ ~var.readonly /\ var.dim = dim
BY DEF NewVar, Entry

LEMMA RowDeclares ==
  ASSUME NEW N, NEW var \in Entry(N), var.kind # "loop", var.valid, ~var.readonly,
         NEW d \in Nat, var.dim = d, NEW row, row = [i \in 1 .. d |-> row[i]],
         \A i \in 1 .. d : row[i] \in Entry(N) /\ row[i].kind # "loop" /\ row[i].valid
                           /\ ~row[i].readonly /\ row[i].dim = 0
  PROVE  Declares(<<var>> \o row)
<1>1. row \in Seq(Entry(N)) /\ Len(row) = d
  <2> HIDE DEF Entry
  <2> QED BY FunctionIsSeq
<1>2. <<var>> \in Seq(Entry(N)) /\ Len(<<var>>) = 1 /\ <<var>>[1] = var
  OBVIOUS
<1>3. /\ <<var>> \o row \in Seq(Entry(N)) /\ Len(<<var>> \o row) = 1 + d
      /\ \A i \in 1 .. 1 + d : (<<var>> \o row)[i] = IF i <= 1 THEN <<var>>[i] ELSE row[i - 1]
  BY <1>1, <1>2, ConcatProperties
<1> DEFINE s == <<var>> \o row
<1> HIDE DEF s
<1>4. \A i \in 1 .. 1 + d : s[i] = IF i <= 1 THEN var ELSE row[i - 1]
  BY <1>2, <1>3 DEF s
<1>5. \A i \in 1 .. 1 + d : s[i].kind # "loop" /\ s[i].valid /\ ~s[i].readonly
  <2> TAKE i \in 1 .. 1 + d
  <2>1. CASE i = 1
    <3>1. s[i] = var
      BY <2>1, <1>4
    <3> QED BY <3>1
  <2>2. CASE i # 1
    <3>1. i - 1 \in 1 .. d /\ ~(i <= 1)
      BY <2>2
    <3>2. s[i] = row[i - 1]
      BY <3>1, <1>4
    <3> QED BY <3>1, <3>2
  <2> QED BY <2>1, <2>2
<1>6. DOMAIN s = 1 .. 1 + d /\ s \in Seq(Entry(N))
  BY <1>3 DEF s
<1>7. \A i \in 1 .. 1 + d : \A k \in 1 .. s[i].dim : i + k \in 1 .. 1 + d
  <2> TAKE i \in 1 .. 1 + d
  <2>1. CASE i = 1
    <3>1. s[i].dim = d
      BY <2>1, <1>4
    <3> QED BY <2>1, <3>1
  <2>2. CASE i # 1
    <3>1. i - 1 \in 1 .. d /\ ~(i <= 1)
      BY <2>2
    <3>2. s[i].dim = 0
      BY <3>1, <1>4
    <3> QED BY <3>2
  <2> QED BY <2>1, <2>2
<1>8. Declares(s)
  BY <1>5, <1>6, <1>7 DEF Declares
<1> QED BY <1>8 DEF s

LEMMA IdsDeclare ==
  ASSUME program \in Programs, NEW name, NEW kind \in {"param", "extern"},
         NEW ids \in program.dimIds \cup {<<>>}
  PROVE  Declares(WithIds(name, kind, ids))
<1>1. ids \in Seq(program.names)
  <2>1. program.dimIds \subseteq Seq(program.names)
    BY ResolveAssumption
  <2>2. <<>> \in Seq(program.names)
    OBVIOUS
  <2> QED BY <2>1, <2>2
<1>2. Len(ids) \in Nat /\ DOMAIN ids = 1 .. Len(ids) /\ \A i \in DOMAIN ids : ids[i] \in program.names
  BY <1>1, ElementOfSeq
<1> DEFINE N == program.names \cup {name}
           var == NewVar(name, kind, Len(ids))
           sub == IF kind = "param" THEN "dim" ELSE kind
           row == [i \in DOMAIN ids |-> NewVar(ids[i], sub, 0)]
<1>3. var \in Entry(N) /\ var.kind # "loop" /\ var.valid /\ ~var.readonly /\ var.dim = Len(ids)
  <2>1. kind \in Kinds /\ kind # "loop" /\ name \in N /\ Len(ids) \in Nat
    BY <1>2 DEF Kinds
  <2> HIDE DEF N
  <2> QED BY <2>1, NewEntry
<1>4. sub \in Kinds /\ sub # "loop" /\ 0 \in Nat
  BY DEF Kinds
<1> HIDE DEF var, sub
<1>5. \A i \in 1 .. Len(ids) : row[i] \in Entry(N) /\ row[i].kind # "loop" /\ row[i].valid
                              /\ ~row[i].readonly /\ row[i].dim = 0
  <2> TAKE i \in 1 .. Len(ids)
  <2>1. ids[i] \in N /\ row[i] = NewVar(ids[i], sub, 0)
    BY <1>2
  <2>2. PICK x : x = ids[i]
    OBVIOUS
  <2>3. x \in N /\ row[i] = NewVar(x, sub, 0)
    BY <2>1, <2>2
  <2> HIDE DEF N, row
  <2>4. /\ NewVar(x, sub, 0) \in Entry(N) /\ NewVar(x, sub, 0).kind # "loop"
        /\ NewVar(x, sub, 0).valid /\ ~NewVar(x, sub, 0).readonly
        /\ NewVar(x, sub, 0).dim = 0
    BY <2>3, <1>4, NewEntry
  <2> QED BY <2>3, <2>4
<1>6. row = [i \in 1 .. Len(ids) |-> row[i]]
  BY <1>2
<1> HIDE DEF row, N
<1>7. Declares(<<var>> \o row)
  BY <1>2, <1>3, <1>5, <1>6, RowDeclares
<1> QED BY <1>7 DEF WithIds, var, row, sub

LEMMA DimsDeclare ==
  ASSUME NEW name, NEW d \in Nat
  PROVE  Declares(WithDims(name, d))
<1> DEFINE N == {name} \cup {<<name, i>> : i \in Int}
           var == NewVar(name, "var", d)
           row == [i \in 1 .. d |-> NewVar(<<name, i - 1>>, "dim", 0)]
<1>1. var \in Entry(N) /\ var.kind # "loop" /\ var.valid /\ ~var.readonly /\ var.dim = d
  BY NewEntry DEF Kinds
<1>2. \A i \in 1 .. d : row[i] \in Entry(N) /\ row[i].kind # "loop" /\ row[i].valid
                        /\ ~row[i].readonly /\ row[i].dim = 0
  <2> TAKE i \in 1 .. d
  <2>1. <<name, i - 1>> \in N /\ "dim" \in Kinds
    BY DEF Kinds
  <2>2. row[i] = NewVar(<<name, i - 1>>, "dim", 0)
    OBVIOUS
  <2> HIDE DEF N, row
  <2> QED BY <2>1, <2>2, NewEntry
<1>3. row = [i \in 1 .. d |-> row[i]]
  OBVIOUS
<1> HIDE DEF row, N, var
<1>4. Declares(<<var>> \o row)
  BY <1>1, <1>2, <1>3, RowDeclares
<1> QED BY <1>4 DEF WithDims, var, row

-----------------------------------------------------------------------------
(* A Var node resolved in table c.                                         *)
LEMMA UseAdded ==
  ASSUME NEW ts, Shape(ts), NEW st, NEW c, Staged(ts, st, c), EntriesOk(ts, st), NEW fresh,
         Alone(ts, c, fresh), NEW us, UsesOk(ts, st, us, fresh),
         NEW u, u.table = c, u.ref = ReturnVarref(ts, c, u.name), u.ref # None,
         \/ u.init = FALSE /\ (c = 1 \/ st[c] \in Stages \ Early)
         \/ u.init = TRUE /\ u.place = <<>>
  PROVE  UsesOk(ts, st, Append(us, u), fresh)
<1>1. IsSeq(us) /\ AreTables(ts) /\ Chains(ts)
  BY DEF UsesOk, Shape
<1>2. LoopsAreLocal(ts, c, fresh) /\ c \in DOMAIN ts
  BY LocalLoops DEF Staged
<1>3. Refers(ts, u) /\ LoopsAhead(ts, u, fresh)
  BY <1>1, <1>2, StatementResolved
<1>4. UseOk(ts, u, fresh)
  BY <1>3 DEF UseOk
<1>5. u.init = FALSE => Settled(ts, st, u)
  <2> SUFFICES ASSUME c = 1 \/ st[c] \in Stages \ Early, NEW m \in DOMAIN ts[c].chain
               PROVE  ts[c].chain[m] = 1 \/ st[ts[c].chain[m]] \in Stages \ Early
    BY DEF Settled
  <2>1. /\ ts[c].chain[m] \in DOMAIN ts /\ (ts[c].chain[m] = c <=> m = 1)
        /\ DOMAIN ts[c].chain = 1 .. Len(ts[c].chain)
    BY <1>1, <1>2, ChainFacts
  <2>2. CASE m = 1
    BY <2>1, <2>2
  <2>3. CASE m > 1
    <3>1. st[ts[c].chain[m]] \in {"program", "funs"}
      BY <2>3 DEF Staged
    <3>2. st[ts[c].chain[m]] = "program" => ts[c].chain[m] = 1
      BY <2>1 DEF Staged
    <3> QED BY <3>1, <3>2 DEF Stages, Early
  <2> QED BY <2>1, <2>2, <2>3
<1>6. /\ IsSeq(Append(us, u)) /\ DOMAIN us = 1 .. Len(us) /\ Len(us) \in Nat
      /\ DOMAIN Append(us, u) = 1 .. Len(us) + 1
      /\ Append(us, u)[Len(us) + 1] = u
      /\ \A i \in DOMAIN us : Append(us, u)[i] = us[i]
  BY <1>1, SeqGrows
<1>7. \A k \in 1 .. Len(us) + 1 : k \in DOMAIN us \/ k = Len(us) + 1
  BY <1>6
<1> DEFINE vs == Append(us, u)
<1> HIDE DEF vs
<1>8. ASSUME NEW k \in DOMAIN vs
      PROVE  UseOk(ts, vs[k], fresh) /\ (vs[k].init = FALSE => Settled(ts, st, vs[k]))
  <2>1. CASE k \in DOMAIN us
    <3>1. vs[k] = us[k]
      BY <2>1, <1>6 DEF vs
    <3> QED BY <3>1, <2>1 DEF UsesOk
  <2>2. CASE k = Len(us) + 1
    <3>1. vs[k] = u
      BY <2>2, <1>6 DEF vs
    <3> QED BY <3>1, <1>4, <1>5
  <2> QED BY <2>1, <2>2, <1>6, <1>7 DEF vs
<1> QED BY <1>6, <1>8 DEF UsesOk, vs

-----------------------------------------------------------------------------
(* The steps of the traversal.                                             *)
LEMMA DeclareStep ==
  ASSUME Walk, stage[cur] \in Early, NEW s, Declares(s), DeclareAll(s),
         NEW vs, UsesOk(tables, stage, vs, program.fresh)
  PROVE  /\ Shape(tables') /\ Staged(tables', stage, cur) /\ EntriesOk(tables', stage)
         /\ Alone(tables', cur, program.fresh) /\ LoopsOk(tables', loops, program.fresh)
         /\ UsesOk(tables', stage, vs, program.fresh)
<1>1. CASE Clash(tables[cur], s)
  <2>1. tables' = tables
    BY <1>1 DEF DeclareAll
  <2> QED BY <2>1 DEF Walk
<1>2. CASE ~Clash(tables[cur], s)
  <2>1. tables' = Grown(tables, cur, s)
    BY <1>2 DEF DeclareAll, Grown
  <2>2. /\ Shape(tables) /\ Staged(tables, stage, cur) /\ EntriesOk(tables, stage)
        /\ LoopsOk(tables, loops, program.fresh) /\ stage[cur] \in LoopFree
    BY DEF Walk, Early, LoopFree
  <2>3. Shape(tables') /\ EntriesOk(tables', stage) /\ Staged(tables', stage, cur)
    BY <1>2, <2>1, <2>2, DeclaredShape
  <2>4. /\ UsesOk(tables', stage, vs, program.fresh) /\ LoopsOk(tables', loops, program.fresh)
        /\ Alone(tables', cur, program.fresh)
    BY <1>2, <2>1, <2>2, DeclaredKeeps
  <2> QED BY <2>3, <2>4
<1> QED BY <1>1, <1>2

LEMMA AdvanceStep ==
  ASSUME Walk, NEW s, MayBe(s)
  PROVE  /\ Staged(tables, Advance(s), cur) /\ EntriesOk(tables, Advance(s))
         /\ UsesOk(tables, Advance(s), uses, program.fresh)
         /\ cur # 1 => Advance(s)[cur] = s
         /\ Advance(s)[cur] = s \/ Advance(s)[cur] = "program"
<1>1. s \in Ahead[stage[cur]]
  BY DEF MayBe
<1>2. /\ Staged(tables, Advance(s), cur) /\ EntriesOk(tables, Advance(s))
      /\ UsesOk(tables, Advance(s), uses, program.fresh)
  BY <1>1, Advanced DEF Walk, Advance
<1>3. /\ cur \in DOMAIN tables /\ stage \in Seq(Stages) /\ Len(stage) = Len(tables)
      /\ stage[cur] = "program" <=> cur = 1
  BY DEF Walk, Staged
<1>4. cur \in DOMAIN stage
  BY <1>3, TablesTyped DEF Walk, Shape
<1> QED BY <1>2, <1>3, <1>4 DEF Advance

LEMMA StageNow ==
  ASSUME Walk
  PROVE  /\ stage[cur] \in Stages /\ (stage[cur] = "program" <=> cur = 1)
         /\ cur \in DOMAIN tables /\ cur \in DOMAIN stage
         /\ \A s : MayBe(s) => /\ s \in Early => stage[cur] \in Early
                               /\ s \in LoopFree => stage[cur] \in LoopFree
<1>1. /\ cur \in DOMAIN tables /\ stage \in Seq(Stages) /\ Len(stage) = Len(tables)
      /\ stage[cur] = "program" <=> cur = 1
  BY DEF Walk, Staged
<1>2. cur \in DOMAIN stage /\ stage[cur] \in Stages
  BY <1>1, TablesTyped, ElementOfSeq DEF Walk, Shape
<1> QED BY <1>1, <1>2, AheadFacts DEF MayBe

LEMMA ParamStep ==
  ASSUME Walk, program' = program, RSOparam
  PROVE  Walk'
<1>1. stage[cur] \in Early /\ UNCHANGED <<cur, stage, loops, open, uses>>
  BY DEF RSOparam, Early
<1>2. PICK name \in program.names, ids \in program.dimIds \cup {<<>>} :
        DeclareAll(WithIds(name, "param", ids))
  BY DEF RSOparam
<1>3. Declares(WithIds(name, "param", ids))
  BY IdsDeclare DEF Walk
<1>4. UsesOk(tables, stage, uses, program.fresh)
  BY DEF Walk
<1> QED BY <1>1, <1>2, <1>3, <1>4, DeclareStep DEF Walk

LEMMA GlobaldecStep ==
  ASSUME Walk, program' = program, RSOglobaldec
  PROVE  Walk'
<1>1. stage[cur] \in Early /\ UNCHANGED <<cur, stage, loops, open, uses>>
  BY StageNow DEF RSOglobaldec, Early
<1>2. PICK name \in program.names, ids \in program.dimIds \cup {<<>>} :
        DeclareAll(WithIds(name, "extern", ids))
  BY DEF RSOglobaldec
<1>3. Declares(WithIds(name, "extern", ids))
  BY IdsDeclare DEF Walk
<1>4. UsesOk(tables, stage, uses, program.fresh)
  BY DEF Walk
<1> QED BY <1>1, <1>2, <1>3, <1>4, DeclareStep DEF Walk

LEMMA InitReadAdded ==
  ASSUME Walk, NEW u, u.table = cur, u.ref = ReturnVarref(tables, cur, u.name), u.ref # None,
         u.init = TRUE, u.place = <<>>
  PROVE  UsesOk(tables, stage, Append(uses, u), program.fresh)
BY UseAdded DEF Walk

(* The initialiser of a definition reads one variable at most.             *)
LEMMA ReadOrNot ==
  ASSUME Walk, NEW read \in InitReads, ~\E i \in DOMAIN read : read[i].ref = None
  PROVE  \/ uses \o read = uses
         \/ \E u : /\ u.table = cur /\ u.ref = ReturnVarref(tables, cur, u.name)
                   /\ u.ref # None /\ u.init = TRUE /\ u.place = <<>>
                   /\ uses \o read = Append(uses, u)
<1>1. IsSeq(uses)
  BY DEF Walk, UsesOk
<1>2. CASE read = <<>>
  <2>1. uses \o <<>> = uses
    BY <1>1, ConcatEmptySeq DEF IsSeq
  <2> QED BY <1>2, <2>1
<1>3. CASE read # <<>>
  <2>1. PICK x \in program.names, k \in {0} \cup program.dims :
          read = <<Use(x, TRUE, <<>>, FALSE, k)>>
    BY <1>3 DEF InitReads, Use
  <2>2. PICK u : u = Use(x, TRUE, <<>>, FALSE, k)
    OBVIOUS
  <2>3. /\ u.table = cur /\ u.ref = ReturnVarref(tables, cur, u.name)
        /\ u.init = TRUE /\ u.place = <<>>
    BY <2>2 DEF Use
  <2>4. read = <<u>>
    BY <2>1, <2>2
  <2>5. u.ref # None
    <3>1. 1 \in DOMAIN read /\ read[1] = u
      BY <2>4
    <3> QED BY <3>1
  <2>6. uses \o <<u>> = Append(uses, u)
    <3>1. PICK S : uses \in Seq(S)
      BY <1>1 DEF IsSeq
    <3>2. uses \in Seq(S \cup {u}) /\ u \in S \cup {u}
      BY <3>1, SeqMonotonic
    <3> QED BY <3>2, AppendIsConcat
  <2>7. uses \o read = Append(uses, u)
    BY <2>4, <2>6
  <2> QED BY <2>3, <2>5, <2>7
<1> QED BY <1>2, <1>3

LEMMA VardefStep ==
  ASSUME Walk, program' = program, RSOvardef
  PROVE  Walk'
<1>1. stage[cur] \in Early /\ MayBe("decls") /\ UNCHANGED <<cur, loops, open>>
      /\ stage' = Advance("decls")
  BY StageNow DEF RSOvardef, Early
<1>2. PICK name \in program.names, d \in program.dims, read \in InitReads :
        IF \E i \in DOMAIN read : read[i].ref = None
        THEN phase' = "aborted" /\ UNCHANGED <<tables, uses>>
        ELSE DeclareAll(WithDims(name, d)) /\ uses' = uses \o read
  BY DEF RSOvardef
<1>3. CASE \E i \in DOMAIN read : read[i].ref = None
  <2>1. UNCHANGED <<tables, uses>>
    BY <1>2, <1>3
  <2> QED BY <1>1, <2>1, AdvanceStep DEF Walk
<1>4. CASE ~\E i \in DOMAIN read : read[i].ref = None
  <2>1. DeclareAll(WithDims(name, d)) /\ uses' = uses \o read
    BY <1>2, <1>4
  <2>2. UsesOk(tables, stage, uses', program.fresh)
    <3>1. UsesOk(tables, stage, uses, program.fresh)
      BY DEF Walk
    <3>2. ASSUME NEW u, u.table = cur, u.ref = ReturnVarref(tables, cur, u.name),
                 u.ref # None, u.init = TRUE, u.place = <<>>, uses' = Append(uses, u)
          PROVE  UsesOk(tables, stage, uses', program.fresh)
      <4>1. UsesOk(tables, stage, Append(uses, u), program.fresh)
        BY <3>2, InitReadAdded
      <4> QED BY <3>2, <4>1
    <3> QED BY <1>4, <2>1, <3>1, <3>2, ReadOrNot
  <2>3. Declares(WithDims(name, d))
    <3>1. program.dims \subseteq Nat
      BY ResolveAssumption DEF Walk
    <3> QED BY <3>1, DimsDeclare
  <2>4. /\ Shape(tables') /\ Staged(tables', stage, cur) /\ EntriesOk(tables', stage)
        /\ Alone(tables', cur, program.fresh) /\ LoopsOk(tables', loops, program.fresh)
        /\ UsesOk(tables', stage, uses', program.fresh)
    BY <1>1, <2>1, <2>2, <2>3, DeclareStep
  <2>5. /\ Staged(tables', stage', cur) /\ EntriesOk(tables', stage')
        /\ UsesOk(tables', stage', uses', program.fresh)
    BY <1>1, <2>4, Advanced DEF Advance, MayBe
  <2> QED BY <1>1, <2>4, <2>5 DEF Walk
<1> QED BY <1>3, <1>4

(* Tables that keep their entries, up to flags, and perhaps get company.   *)
LEMMA UsesStay ==
  ASSUME NEW ts, Shape(ts), NEW us, AreTables(us), Keeps(ts, us),
         \A t \in DOMAIN ts : DOMAIN us[t].vars = DOMAIN ts[t].vars,
         NEW st, NEW nx, \A t \in DOMAIN ts : nx[t] = st[t],
         NEW fresh, NEW vs, UsesOk(ts, st, vs, fresh)
  PROVE  UsesOk(us, nx, vs, fresh)
<1> SUFFICES ASSUME NEW k \in DOMAIN vs
             PROVE  /\ UseOk(us, vs[k], fresh)
                    /\ vs[k].init = FALSE => Settled(us, nx, vs[k])
  BY DEF UsesOk
<1> DEFINE u == vs[k]
<1>1. UseOk(ts, u, fresh) /\ (u.init = FALSE => Settled(ts, st, u))
  BY DEF UsesOk
<1>2. u.table \in DOMAIN ts
  BY <1>1 DEF UseOk, Refers
<1>3. us[u.table].chain = ts[u.table].chain
      /\ \A m \in DOMAIN ts[u.table].chain : ts[u.table].chain[m] \in DOMAIN ts
  BY <1>2, ChainFacts DEF Shape, Keeps
<1>4. u.init = FALSE => Settled(us, nx, u)
  BY <1>1, <1>3 DEF Settled
<1> HIDE DEF u
<1>5. \A m \in DOMAIN ts[u.table].chain : \A i \in DOMAIN us[ts[u.table].chain[m]].vars :
        i \notin DOMAIN ts[ts[u.table].chain[m]].vars => FALSE
  BY <1>3
<1>6. UseOk(us, u, fresh)
  BY <1>1, <1>5, UseKept
<1> QED BY <1>4, <1>6 DEF u

LEMMA LoopsStay ==
  ASSUME NEW ts, Shape(ts), NEW us, Keeps(ts, us), NEW fresh, NEW ls, LoopsOk(ts, ls, fresh)
  PROVE  LoopsOk(us, ls, fresh)
BY LoopKept DEF LoopsOk, Shape

LEMMA FlagsShape ==
  ASSUME NEW ts, Shape(ts), NEW us, AreTables(us), Keeps(ts, us), DOMAIN us = DOMAIN ts,
         \A t \in DOMAIN ts : DOMAIN us[t].vars = DOMAIN ts[t].vars
  PROVE  Shape(us)
<1>1. Chains(us)
  BY ChainsKept DEF Shape, Keeps
<1>2. DeclaredOnce(us)
  BY DEF Shape, Keeps, DeclaredOnce
<1>3. DimsFollow(us)
  BY DEF Shape, Keeps, DimsFollow
<1> QED BY <1>1, <1>2, <1>3 DEF Shape

LEMMA FundefEnterStep ==
  ASSUME Walk, program' = program, RSOfundefEnter
  PROVE  Walk'
<1> DEFINE n == Len(tables) + 1
           c == tables[cur].chain
           st == Advance("funs")
<1>1. /\ MayBe("funs") /\ open = <<>> /\ UNCHANGED <<loops, open, uses>>
      /\ tables' = Append(tables, NewTable(Len(tables) + 1, tables[cur].chain))
      /\ stage' = Append(st, "params") /\ cur' = n
  BY DEF RSOfundefEnter
<1>2. /\ Staged(tables, st, cur) /\ EntriesOk(tables, st)
      /\ UsesOk(tables, st, uses, program.fresh)
      /\ st[cur] = "funs" \/ st[cur] = "program"
  BY <1>1, AdvanceStep
<1>3. Shape(tables) /\ cur \in DOMAIN tables
  BY StageNow DEF Walk
<1>4. /\ AreTables(tables') /\ Keeps(tables, tables') /\ Chains(tables')
      /\ n \in Nat /\ DOMAIN tables' = 1 .. n /\ Len(tables') = n /\ DOMAIN tables = 1 .. n - 1
      /\ \A k \in DOMAIN tables : tables'[k] = tables[k]
      /\ tables'[n].vars = <<>>
      /\ DOMAIN tables'[n].chain = 1 .. Len(c) + 1
      /\ \A m \in DOMAIN c : tables'[n].chain[m + 1] = c[m]
  BY <1>1, <1>3, TableOpened DEF Shape
<1>5. /\ Len(c) \in Nat /\ DOMAIN c = 1 .. Len(c) /\ c[1] = cur /\ 1 \in DOMAIN tables
      /\ \A m \in DOMAIN c : c[m] \in DOMAIN tables
  BY <1>3, ChainFacts, TablesTyped DEF Shape
<1>6. /\ st \in Seq(Stages) /\ Len(st) = n - 1
      /\ \A t \in DOMAIN tables : st[t] = "program" <=> t = 1
      /\ \A m \in DOMAIN c : m > 1 => st[c[m]] \in {"program", "funs"}
  <2>1. Len(st) = Len(tables)
    BY <1>2 DEF Staged
  <2> QED BY <1>2, <1>4, <2>1, TablesTyped DEF Staged
<1> HIDE DEF st, n, c
<1>7. /\ stage' \in Seq(Stages) /\ Len(stage') = n /\ stage'[n] = "params"
      /\ \A t \in DOMAIN tables : stage'[t] = st[t]
  <2>1. "params" \in Stages
    BY DEF Stages
  <2> QED BY <1>1, <1>4, <1>6, <2>1, AppendProperties
<1>8. \A t \in DOMAIN tables' : t \in DOMAIN tables \/ (t = n /\ t # 1)
  BY <1>4, <1>5
<1>9. Staged(tables', stage', cur')
  <2>1. \A t \in DOMAIN tables' : stage'[t] = "program" <=> t = 1
    BY <1>6, <1>7, <1>8
  <2>2. ASSUME NEW m \in DOMAIN tables'[n].chain, m > 1
        PROVE  stage'[tables'[n].chain[m]] \in {"program", "funs"}
    <3>1. m - 1 \in DOMAIN c /\ (m - 1) + 1 = m
      BY <2>2, <1>4, <1>5
    <3>2. tables'[n].chain[m] = c[m - 1] /\ c[m - 1] \in DOMAIN tables
      BY <3>1, <1>4, <1>5
    <3>3. st[c[m - 1]] \in {"program", "funs"}
      <4>1. CASE m - 1 = 1
        BY <4>1, <1>2, <1>5
      <4>2. CASE m - 1 > 1
        BY <4>2, <3>1, <1>6
      <4> QED BY <4>1, <4>2, <3>1, <1>5
    <3> QED BY <3>2, <3>3, <1>7
  <2>3. n \in DOMAIN tables'
    BY <1>4, <1>5
  <2> QED BY <2>1, <2>2, <2>3, <1>1, <1>4, <1>7 DEF Staged
<1>10. EntriesOk(tables', stage')
  <2> SUFFICES ASSUME NEW t \in DOMAIN tables', NEW i \in DOMAIN tables'[t].vars
               PROVE  LET var == tables'[t].vars[i]
                      IN  /\ var.kind # "loop" => var.valid
                          /\ var.readonly <=> var.kind = "loop"
                          /\ stage'[t] \in LoopFree => var.kind # "loop"
    BY DEF EntriesOk
  <2>1. t \in DOMAIN tables
    BY <1>4, <1>8
  <2> QED BY <2>1, <1>2, <1>4, <1>7 DEF EntriesOk
<1>11. DeclaredOnce(tables')
  BY <1>3, <1>4, <1>8 DEF DeclaredOnce, Shape
<1>12. DimsFollow(tables')
  BY <1>3, <1>4, <1>8 DEF DimsFollow, Shape
<1>13. Alone(tables', cur', program.fresh)
  <2>1. cur' = n /\ tables'[n].vars = <<>>
    BY <1>1, <1>4
  <2>2. \A j \in DOMAIN tables'[cur'].vars : FALSE
    BY <2>1
  <2> QED BY <2>2 DEF Alone
<1>14. LoopsOk(tables', loops, program.fresh)
  BY <1>3, <1>4, LoopsStay DEF Walk
<1>15. UsesOk(tables', stage', uses, program.fresh)
  BY <1>2, <1>3, <1>4, <1>7, UsesStay
<1>16. OpenOk(loops, open, cur')
  BY <1>1 DEF OpenOk, Walk
<1> QED BY <1>1, <1>4, <1>9, <1>10, <1>11, <1>13, <1>14, <1>15, <1>16, <1>12 DEF Walk, Shape

LEMMA FundefExitStep ==
  ASSUME Walk, program' = program, RSOfundefExit
  PROVE  Walk'
<1> DEFINE c == tables[cur].chain
<1>1. /\ cur # 1 /\ open = <<>> /\ UNCHANGED <<tables, loops, open, uses>>
      /\ stage' = [stage EXCEPT ![cur] = "closed"] /\ cur' = c[2]
  BY DEF RSOfundefExit
<1>2. Shape(tables) /\ cur \in DOMAIN tables /\ DOMAIN tables = 1 .. Len(tables)
  BY StageNow, TablesTyped DEF Walk, Shape
<1>3. /\ Len(c) \in Nat /\ DOMAIN c = 1 .. Len(c) /\ Len(c) >= 2
      /\ \A m \in DOMAIN c : c[m] \in DOMAIN tables /\ (c[m] = cur <=> m = 1)
  BY <1>1, <1>2, ChainFacts DEF Shape
<1>4. /\ stage \in Seq(Stages) /\ Len(stage) = Len(tables)
      /\ \A t \in DOMAIN tables : stage[t] = "program" <=> t = 1
      /\ \A m \in DOMAIN c : m > 1 => stage[c[m]] \in {"program", "funs"}
  BY DEF Walk, Staged
<1>5. /\ stage' \in Seq(Stages) /\ Len(stage') = Len(stage) /\ stage'[cur] = "closed"
      /\ \A t \in DOMAIN tables : t # cur => stage'[t] = stage[t]
  <2>1. "closed" \in Stages
    BY DEF Stages
  <2> QED BY <1>1, <1>2, <1>4, <2>1, ExceptSeq
<1> DEFINE d == tables[c[2]].chain
<1>6. /\ 2 \in DOMAIN c /\ Len(d) = Len(c) - 1 /\ DOMAIN d = 1 .. Len(d) /\ c[2] # cur
      /\ \A p \in DOMAIN d : d[p] = c[p + 1] /\ p + 1 \in DOMAIN c
  <2>1. 2 \in DOMAIN c
    BY <1>3
  <2>2. Len(d) = Len(c) - 2 + 1 /\ \A p \in DOMAIN d : d[p] = c[2 + p - 1]
    BY <1>2, <2>1 DEF Shape, Chains, ChainOk
  <2>3. DOMAIN d = 1 .. Len(d)
    BY <1>2, <1>3, <2>1, TablesTyped DEF Shape
  <2> HIDE DEF c, d
  <2> QED BY <1>3, <2>1, <2>2, <2>3
<1>7. c[2] \in DOMAIN tables /\ stage[c[2]] \in {"program", "funs"}
  BY <1>3, <1>4, <1>6
<1> HIDE DEF c, d
<1>8. Staged(tables, stage', c[2])
  <2>1. \A t \in DOMAIN tables : stage'[t] = "program" <=> t = 1
    BY <1>1, <1>4, <1>5
  <2>2. ASSUME NEW m \in DOMAIN d PROVE stage'[d[m]] \in {"program", "funs"}
    <3>1. PICK k : k = m + 1 /\ k \in DOMAIN c /\ d[m] = c[k] /\ k > 1
      BY <1>6
    <3>2. c[k] \in DOMAIN tables /\ c[k] # cur
      BY <1>3, <3>1
    <3>3. stage[c[k]] \in {"program", "funs"} /\ stage'[c[k]] = stage[c[k]]
      BY <1>4, <1>5, <3>1, <3>2
    <3> QED BY <3>1, <3>3
  <2> QED BY <2>1, <2>2, <1>4, <1>5, <1>7 DEF Staged, d
<1>9. EntriesOk(tables, stage')
  <2>1. \A t \in DOMAIN tables : stage'[t] \in LoopFree => stage[t] \in LoopFree
    BY <1>5 DEF LoopFree
  <2> QED BY <2>1 DEF EntriesOk, Walk
<1>10. Alone(tables, c[2], program.fresh)
  <2>1. \A j \in DOMAIN tables[c[2]].vars : tables[c[2]].vars[j].kind # "loop"
    BY <1>7 DEF Walk, EntriesOk, LoopFree
  <2> QED BY <2>1 DEF Alone
<1>11. UsesOk(tables, stage', uses, program.fresh)
  <2> SUFFICES ASSUME NEW k \in DOMAIN uses, uses[k].init = FALSE
               PROVE  Settled(tables, stage', uses[k])
    BY DEF UsesOk, Walk
  <2>1. Settled(tables, stage, uses[k]) /\ uses[k].table \in DOMAIN tables
    BY DEF UsesOk, Walk, UseOk, Refers
  <2>2. \A m \in DOMAIN tables[uses[k].table].chain : tables[uses[k].table].chain[m] \in DOMAIN tables
    BY <1>2, <2>1, ChainFacts DEF Shape
  <2>3. \A t \in DOMAIN tables : stage[t] \in Stages \ Early => stage'[t] \in Stages \ Early
    BY <1>5 DEF Stages, Early
  <2> QED BY <2>1, <2>2, <2>3 DEF Settled
<1>12. OpenOk(loops, open, c[2])
  BY <1>1 DEF OpenOk, Walk
<1> QED BY <1>1, <1>8, <1>9, <1>10, <1>11, <1>12 DEF Walk, c

LEMMA ReadAdded ==
  ASSUME Walk, NEW st, Staged(tables, st, cur), EntriesOk(tables, st), st[cur] = "stmts",
         UsesOk(tables, st, uses, program.fresh),
         NEW u, u.table = cur, u.ref = ReturnVarref(tables, cur, u.name), u.ref # None,
         u.init = FALSE
  PROVE  UsesOk(tables, st, Append(uses, u), program.fresh)
<1>1. Shape(tables) /\ Alone(tables, cur, program.fresh) /\ st[cur] \in Stages \ Early
  BY DEF Walk, Stages, Early
<1> QED BY <1>1, UseAdded

LEMMA VarStep ==
  ASSUME Walk, program' = program, RSOvar
  PROVE  Walk'
<1>1. /\ cur # 1 /\ MayBe("stmts") /\ stage' = Advance("stmts")
      /\ UNCHANGED <<tables, cur, loops, open>>
  BY DEF RSOvar
<1>2. /\ Staged(tables, stage', cur) /\ EntriesOk(tables, stage')
      /\ UsesOk(tables, stage', uses, program.fresh) /\ stage'[cur] = "stmts"
  BY <1>1, AdvanceStep
<1>3. PICK use : /\ use.table = cur /\ use.ref = ReturnVarref(tables, cur, use.name)
                 /\ use.init = FALSE
                 /\ IF use.ref = None THEN uses' = uses ELSE uses' = Append(uses, use)
  <2>1. PICK name, indices, write :
          LET use == Use(name, FALSE, open, write, indices)
          IN  IF use.ref = None THEN uses' = uses ELSE uses' = Append(uses, use)
    BY DEF RSOvar, Use
  <2>2. PICK use : use = Use(name, FALSE, open, write, indices)
    OBVIOUS
  <2>3. /\ use.table = cur /\ use.ref = ReturnVarref(tables, cur, use.name)
        /\ use.init = FALSE
    BY <2>2 DEF Use
  <2> QED BY <2>1, <2>2, <2>3
<1>4. UsesOk(tables, stage', uses', program.fresh)
  <2>1. CASE use.ref = None
    BY <2>1, <1>2, <1>3
  <2>2. CASE use.ref # None
    <3>1. UsesOk(tables, stage', Append(uses, use), program.fresh)
      BY <2>2, <1>2, <1>3, ReadAdded
    <3> QED BY <2>2, <3>1, <1>3
  <2> QED BY <2>1, <2>2
<1> QED BY <1>1, <1>2, <1>4 DEF Walk

(* The entry of a for loop.                                                *)
LoopVar(name) == [NewVar(name, "loop", 0) EXCEPT !.readonly = TRUE]

LEMMA LoopShape ==
  ASSUME NEW ts, Shape(ts), NEW st, NEW c, Staged(ts, st, c), EntriesOk(ts, st), st[c] = "stmts",
         NEW name, NEW var, var = LoopVar(name),
         NEW us, us = Grown(ts, c, <<var>>)
  PROVE  /\ var.isextern = FALSE
         /\ Added(ts, us, c, <<var>>) /\ Shape(us) /\ EntriesOk(us, st) /\ Staged(us, st, c)
         /\ Len(ts[c].vars) \in Nat /\ DOMAIN ts[c].vars = 1 .. Len(ts[c].vars)
         /\ us[c].vars[Len(ts[c].vars) + 1] = var
         /\ DOMAIN us[c].vars = 1 .. Len(ts[c].vars) + 1
<1> DEFINE n == Len(ts[c].vars)
<1>1. c \in DOMAIN ts /\ AreTables(ts) /\ Chains(ts) /\ DeclaredOnce(ts) /\ DimsFollow(ts)
  BY DEF Staged, Shape
<1>2. var.dim = 0 /\ var.isextern = FALSE
  <2>1. PICK x : x = NewVar(name, "loop", 0)
    OBVIOUS
  <2>2. x.dim = 0 /\ x.isextern = FALSE
    BY <2>1 DEF NewVar
  <2>3. x = [name |-> x.name, kind |-> x.kind, dim |-> x.dim, isextern |-> x.isextern,
             valid |-> x.valid, readonly |-> x.readonly]
    BY <2>1 DEF NewVar
  <2>4. var = [x EXCEPT !.readonly = TRUE]
    BY <2>1 DEF LoopVar
  <2> QED BY <2>2, <2>3, <2>4
<1>3. /\ var \in Entry({name}) /\ var.kind = "loop" /\ var.readonly /\ var.name = name
      /\ <<var>> \in Seq(Entry({name})) /\ Len(<<var>>) = 1 /\ <<var>>[1] = var
  <2>1. PICK x : x = NewVar(name, "loop", 0)
    OBVIOUS
  <2>2. x \in Entry({name}) /\ x.kind = "loop" /\ x.name = name
    <3>1. "loop" \in Kinds
      BY DEF Kinds
    <3> QED BY <2>1, <3>1 DEF NewVar, Entry
  <2>3. var = [x EXCEPT !.readonly = TRUE]
    BY <2>1 DEF LoopVar
  <2>4. var \in Entry({name})
    BY <2>2, <2>3 DEF Entry
  <2>5. var.kind = "loop" /\ var.readonly /\ var.name = name
    BY <2>2, <2>3 DEF Entry
  <2> HIDE DEF Entry
  <2> QED BY <2>4, <2>5
<1>4. Added(ts, us, c, <<var>>)
  BY <1>1, <1>3, EntriesAdded
<1>5. /\ AreTables(us) /\ Keeps(ts, us) /\ DOMAIN us = DOMAIN ts
      /\ \A k \in DOMAIN ts : us[k].chain = ts[k].chain /\ (k # c => us[k] = ts[k])
      /\ n \in Nat /\ DOMAIN us[c].vars = 1 .. n + 1
      /\ \A i \in 1 .. n : us[c].vars[i] = ts[c].vars[i]
      /\ us[c].vars[n + 1] = var
  <2>1. PICK s : s = <<var>> /\ Len(s) = 1 /\ s[1] = var
    BY <1>3
  <2> HIDE DEF n
  <2>2. Added(ts, us, c, s)
    BY <1>4, <2>1
  <2>3. /\ AreTables(us) /\ Keeps(ts, us) /\ DOMAIN us = DOMAIN ts
        /\ \A k \in DOMAIN ts : us[k].chain = ts[k].chain /\ (k # c => us[k] = ts[k])
        /\ n \in Nat /\ DOMAIN us[c].vars = 1 .. n + Len(s)
        /\ \A i \in 1 .. n : us[c].vars[i] = ts[c].vars[i]
        /\ \A i \in 1 .. Len(s) : us[c].vars[n + i] = s[i]
    BY <2>2 DEF Added, n
  <2>4. us[c].vars[n + 1] = var
    <3>1. 1 \in 1 .. Len(s)
      BY <2>1
    <3> QED BY <2>1, <2>3, <3>1
  <2>5. DOMAIN us[c].vars = 1 .. n + 1
    BY <2>1, <2>3
  <2> QED BY <2>3, <2>4, <2>5
<1>6. DOMAIN ts[c].vars = 1 .. n
  BY <1>1, TablesTyped
<1> HIDE DEF n
<1>7. \A k \in DOMAIN ts : \A i \in DOMAIN us[k].vars :
        \/ i \in DOMAIN ts[k].vars /\ us[k].vars[i] = ts[k].vars[i]
        \/ k = c /\ i = n + 1 /\ us[k].vars[i] = var
  <2> TAKE k \in DOMAIN ts
  <2>1. CASE k # c
    BY <2>1, <1>5
  <2>2. CASE k = c
    <3> TAKE i \in DOMAIN us[k].vars
    <3>1. i \in 1 .. n \/ i = n + 1
      BY <2>2, <1>5
    <3> QED BY <3>1, <2>2, <1>5, <1>6
  <2> QED BY <2>1, <2>2
<1>8. EntriesOk(us, st)
  <2>1. st[c] \notin LoopFree
    BY DEF LoopFree
  <2> SUFFICES ASSUME NEW k \in DOMAIN ts, NEW i \in DOMAIN us[k].vars
               PROVE  LET x == us[k].vars[i]
                      IN  /\ x.kind # "loop" => x.valid
                          /\ x.readonly <=> x.kind = "loop"
                          /\ st[k] \in LoopFree => x.kind # "loop"
    BY <1>5 DEF EntriesOk
  <2>2. CASE i \in DOMAIN ts[k].vars /\ us[k].vars[i] = ts[k].vars[i]
    BY <2>2 DEF EntriesOk
  <2>3. CASE k = c /\ i = n + 1 /\ us[k].vars[i] = var
    BY <2>1, <2>3, <1>3
  <2> QED BY <2>2, <2>3, <1>7
<1>9. DeclaredOnce(us)
  <2> SUFFICES ASSUME NEW k \in DOMAIN ts, NEW i \in DOMAIN us[k].vars, NEW j \in DOMAIN us[k].vars,
                      i < j, us[k].vars[j].kind # "loop"
               PROVE  us[k].vars[i].name # us[k].vars[j].name /\ us[k].vars[i].kind # "loop"
    BY <1>5 DEF DeclaredOnce
  <2>1. j \in DOMAIN ts[k].vars /\ us[k].vars[j] = ts[k].vars[j]
    BY <1>3, <1>7
  <2>2. i \in DOMAIN ts[k].vars /\ us[k].vars[i] = ts[k].vars[i]
    <3>1. ASSUME k = c, i = n + 1 PROVE FALSE
      BY <3>1, <2>1, <1>5, <1>6
    <3> QED BY <3>1, <1>7
  <2> QED BY <2>1, <2>2, <1>1 DEF DeclaredOnce
<1>10. Staged(us, st, c)
  <2>1. Len(us) = Len(ts)
    BY <1>1, <1>5, TablesTyped
  <2> QED BY <2>1, <1>5 DEF Staged
<1>11. Chains(us)
  BY <1>1, <1>5, ChainsKept
<1>12. DimsFollow(us)
  <2> SUFFICES ASSUME NEW k \in DOMAIN ts, NEW i \in DOMAIN us[k].vars, NEW d \in 1 .. us[k].vars[i].dim
               PROVE  /\ i + d \in DOMAIN us[k].vars
                      /\ us[k].vars[i].kind # "loop" /\ us[k].vars[i + d].kind # "loop"
    BY <1>5 DEF DimsFollow
  <2>1. CASE i \in DOMAIN ts[k].vars /\ us[k].vars[i] = ts[k].vars[i]
    <3>1. i + d \in DOMAIN ts[k].vars /\ ts[k].vars[i].kind # "loop" /\ ts[k].vars[i + d].kind # "loop"
      BY <2>1, <1>1 DEF DimsFollow
    <3> QED BY <2>1, <3>1, <1>5 DEF Keeps
  <2>2. CASE us[k].vars[i] = var
    <3>1. us[k].vars[i].dim = 0
      BY <2>2, <1>2
    <3> QED BY <3>1
  <2> QED BY <2>1, <2>2, <1>7
<1> QED BY <1>4, <1>5, <1>6, <1>8, <1>9, <1>10, <1>11, <1>2, <1>12 DEF Shape, n

(* If its name is fresh, nothing a use denotes has that name.              *)
LEMMA LoopKeepsUses ==
  ASSUME NEW ts, Shape(ts), NEW st, NEW c, Staged(ts, st, c), NEW fresh,
         NEW vs, UsesOk(ts, st, vs, fresh), NEW var, var.kind = "loop",
         fresh => ReturnVarrefIgnoreValid(ts, c, var.name) = None,
         NEW us, Added(ts, us, c, <<var>>)
  PROVE  UsesOk(us, st, vs, fresh)
<1>1. /\ AreTables(us) /\ Keeps(ts, us) /\ DOMAIN us = DOMAIN ts
      /\ \A k \in DOMAIN ts : us[k].chain = ts[k].chain /\ (k # c => us[k] = ts[k])
      /\ Len(ts[c].vars) \in Nat /\ DOMAIN us[c].vars = 1 .. Len(ts[c].vars) + 1
      /\ us[c].vars[Len(ts[c].vars) + 1] = var
  BY DEF Added
<1>2. c \in DOMAIN ts /\ AreTables(ts) /\ Chains(ts) /\ DOMAIN ts[c].vars = 1 .. Len(ts[c].vars)
  BY TablesTyped DEF Staged, Shape
<1> SUFFICES ASSUME NEW k \in DOMAIN vs
             PROVE  /\ UseOk(us, vs[k], fresh)
                    /\ vs[k].init = FALSE => Settled(us, st, vs[k])
  BY DEF UsesOk
<1> DEFINE u == vs[k]
           d == ts[u.table].chain
<1>3. UseOk(ts, u, fresh) /\ (u.init = FALSE => Settled(ts, st, u))
  BY DEF UsesOk
<1>4. /\ u.table \in DOMAIN ts /\ u.ref.n \in Nat /\ u.ref.n + 1 \in DOMAIN d
      /\ u.ref.l + 1 \in DOMAIN ts[d[u.ref.n + 1]].vars
      /\ ts[d[u.ref.n + 1]].vars[u.ref.l + 1].name = u.name
  BY <1>3 DEF UseOk, Refers, HomeOf
<1>5. us[u.table].chain = d
  BY <1>1, <1>4
<1>6. u.init = FALSE => Settled(us, st, u)
  BY <1>3, <1>5 DEF Settled
<1>7. /\ DOMAIN d = 1 .. Len(d) /\ Len(d) \in Nat
      /\ \A m \in DOMAIN d : d[m] \in DOMAIN ts
  <2>1. PICK t \in DOMAIN ts : t = u.table
    BY <1>4
  <2>2. LET e == ts[t].chain
        IN  DOMAIN e = 1 .. Len(e) /\ Len(e) \in Nat /\ \A m \in DOMAIN e : e[m] \in DOMAIN ts
    BY <1>2, ChainFacts
  <2> QED BY <2>1, <2>2
<1> HIDE DEF u, d
<1>8. ASSUME NEW m \in DOMAIN d, NEW i \in DOMAIN us[d[m]].vars,
             m < u.ref.n + 1, i \notin DOMAIN ts[d[m]].vars, us[d[m]].vars[i].name = u.name
      PROVE  us[d[m]].vars[i].kind = "loop" /\ ~fresh
  <2>1. d[m] = c /\ us[d[m]].vars[i] = var
    <3>1. d[m] = c
      BY <1>1, <1>7, <1>8
    <3>2. i = Len(ts[c].vars) + 1
      BY <3>1, <1>1, <1>2, <1>8
    <3> QED BY <3>1, <3>2, <1>1
  <2>2. ASSUME fresh PROVE FALSE
    <3> DEFINE e == ts[c].chain
               p == u.ref.n + 1 - m + 1
    <3>1. /\ Len(e) = Len(d) - m + 1 /\ \A q \in DOMAIN e : e[q] = d[m + q - 1]
          /\ DOMAIN e = 1 .. Len(e)
      <4>1. ChainOk(ts, u.table, d)
        BY <1>2, <1>4 DEF Chains, d
      <4>2. /\ Len(ts[d[m]].chain) = Len(d) - m + 1
            /\ \A q \in DOMAIN ts[d[m]].chain : ts[d[m]].chain[q] = d[m + q - 1]
        BY <4>1 DEF ChainOk
      <4>3. DOMAIN e = 1 .. Len(e)
        BY <1>2, TablesTyped
      <4> QED BY <4>2, <4>3, <2>1
    <3> HIDE DEF e
    <3>2. p \in DOMAIN e /\ e[p] = d[u.ref.n + 1]
      <4>1. p \in 1 .. Len(d) - m + 1 /\ m + p - 1 = u.ref.n + 1
        BY <1>4, <1>7, <1>8, SMTT(20)
      <4> QED BY <4>1, <3>1
    <3> HIDE DEF p
    <3>3. /\ u.ref.l + 1 \in DOMAIN ts[e[p]].vars
          /\ ts[e[p]].vars[u.ref.l + 1].name = var.name
      BY <3>2, <1>4, <1>8, <2>1
    <3>4. ReturnVarrefIgnoreValid(ts, c, var.name) = None
      BY <2>2
    <3> QED BY <3>2, <3>3, <3>4, <1>2, NothingFound DEF e
  <2> QED BY <2>1, <2>2
<1>9. UseOk(us, u, fresh)
  BY <1>1, <1>3, <1>8, UseKept DEF d
<1> QED BY <1>6, <1>9 DEF u

(* A loop is entered, or the innermost one goes on or ends.                *)
LEMMA OpenGrows ==
  ASSUME NEW ls, NEW op, NEW c, OpenOk(ls, op, c), Len(ls) \in Nat, DOMAIN ls = 1 .. Len(ls),
         NEW ms, DOMAIN ms = 1 .. Len(ls) + 1, ms[Len(ls) + 1].table = c,
         \A i \in DOMAIN ls : ms[i] = ls[i],
         NEW part, NEW oq, oq = Append(op, [loop |-> Len(ls) + 1, part |-> part])
  PROVE  OpenOk(ms, oq, c)
<1>1. PICK Q : op \in Seq([loop : Nat, part : Q])
  BY DEF OpenOk
<1> DEFINE P == Q \cup {part}
<1>2. PICK x \in [loop : Nat, part : P] : x = [loop |-> Len(ls) + 1, part |-> part]
  OBVIOUS
<1>3. x.loop = Len(ls) + 1
  BY <1>2
<1>4. op \in Seq([loop : Nat, part : P])
      /\ \A i \in DOMAIN op : op[i].loop \in DOMAIN ls /\ (ls[op[i].loop].kind = "for" => ls[op[i].loop].table = c)
  <2>1. [loop : Nat, part : Q] \subseteq [loop : Nat, part : P]
    OBVIOUS
  <2>2. op \in Seq([loop : Nat, part : P])
    BY <1>1, <2>1, SeqMonotonic
  <2> QED BY <2>2 DEF OpenOk
<1>5. /\ oq \in Seq([loop : Nat, part : P]) /\ DOMAIN op = 1 .. Len(op) /\ Len(op) \in Nat
      /\ DOMAIN oq = 1 .. Len(op) + 1 /\ oq[Len(op) + 1] = x
      /\ \A i \in 1 .. Len(op) : oq[i] = op[i]
  BY <1>2, <1>4, AppendProperties
<1>6. ASSUME NEW i \in DOMAIN oq
      PROVE  oq[i].loop \in DOMAIN ms /\ (ms[oq[i].loop].kind = "for" => ms[oq[i].loop].table = c)
  <2>1. CASE i \in 1 .. Len(op)
    <3>1. oq[i] = op[i] /\ op[i].loop \in DOMAIN ls
      BY <2>1, <1>4, <1>5
    <3> QED BY <3>1, <2>1, <1>4, <1>5
  <2>2. CASE i = Len(op) + 1
    BY <2>2, <1>3, <1>5
  <2> QED BY <2>1, <2>2, <1>5
<1> QED BY <1>5, <1>6 DEF OpenOk

LEMMA ForEnterStep ==
  ASSUME Walk, program' = program, RSOforEnter
  PROVE  /\ Walk'
         /\ \E name \in program.names : tables' = Grown(tables, cur, <<LoopVar(name)>>)
<1> DEFINE n == Len(tables[cur].vars)
           fresh == program.fresh
<1>1. /\ MayBe("stmts") /\ cur # 1 /\ stage' = Advance("stmts")
      /\ open' = Append(open, [loop |-> Len(loops) + 1, part |-> "init"])
      /\ UNCHANGED <<cur, uses>>
  BY DEF RSOforEnter, AtStatement
<1>2. PICK name \in program.names, step \in {"const", "expr"} :
        LET var == [NewVar(name, "loop", 0) EXCEPT !.readonly = TRUE]
        IN  /\ program.fresh => ReturnVarrefIgnoreValid(tables, cur, name) = None
            /\ tables' = [tables EXCEPT ![cur] = InsertVar(@, var)]
            /\ loops' = Append(loops, [kind |-> "for", table |-> cur, name |-> name,
                                      idx |-> Len(tables[cur].vars), step |-> step])
  BY DEF RSOforEnter
<1>3. PICK var : var = LoopVar(name)
  OBVIOUS
<1>4. PICK loop : loop = [kind |-> "for", table |-> cur, name |-> name,
                          idx |-> Len(tables[cur].vars), step |-> step]
  OBVIOUS
<1>5. var.kind = "loop" /\ var.name = name
  BY <1>3 DEF NewVar, LoopVar
<1>6. /\ Shape(tables) /\ Staged(tables, stage', cur) /\ EntriesOk(tables, stage')
      /\ UsesOk(tables, stage', uses, fresh) /\ stage'[cur] = "stmts" /\ cur \in DOMAIN tables
  BY <1>1, AdvanceStep, StageNow DEF Walk
<1>7. tables' = Grown(tables, cur, <<var>>)
  <2>1. tables' = [tables EXCEPT ![cur] = InsertVar(@, var)]
    BY <1>2, <1>3 DEF LoopVar
  <2>2. PICK N : tables \in Seq(Table(N))
    BY <1>6 DEF Shape, AreTables
  <2>3. tables[cur].vars \in Seq(Entry(N))
    BY <1>6, <2>2, OneTable
  <2>4. Append(tables[cur].vars, var) = tables[cur].vars \o <<var>>
    <3>1. tables[cur].vars \in Seq(Entry(N) \cup {var}) /\ var \in Entry(N) \cup {var}
      BY <2>3, SeqMonotonic
    <3> QED BY <3>1, AppendIsConcat
  <2> QED BY <2>1, <2>4 DEF Grown, InsertVar
<1> HIDE DEF n, fresh
<1>8. /\ var.isextern = FALSE
      /\ Added(tables, tables', cur, <<var>>) /\ Shape(tables') /\ EntriesOk(tables', stage')
      /\ Staged(tables', stage', cur)
      /\ n \in Nat /\ DOMAIN tables[cur].vars = 1 .. n
      /\ tables'[cur].vars[n + 1] = var /\ DOMAIN tables'[cur].vars = 1 .. n + 1
  <2>1. Added(tables, tables', cur, <<var>>) /\ Shape(tables') /\ EntriesOk(tables', stage')
        /\ Staged(tables', stage', cur) /\ var.isextern = FALSE
    BY <1>3, <1>6, <1>7, LoopShape
  <2>2. n \in Nat /\ DOMAIN tables[cur].vars = 1 .. n
    BY <1>6, TablesTyped DEF Shape, n
  <2>3. PICK s : s = <<var>>
    OBVIOUS
  <2>4. Len(s) = 1 /\ s[1] = var
    BY <2>3
  <2>5. /\ DOMAIN tables'[cur].vars = 1 .. n + Len(s)
        /\ \A i \in 1 .. Len(s) : tables'[cur].vars[n + i] = s[i]
    BY <2>1, <2>3 DEF Added, n
  <2>6. tables'[cur].vars[n + 1] = var /\ DOMAIN tables'[cur].vars = 1 .. n + 1
    BY <2>4, <2>5
  <2> QED BY <2>1, <2>2, <2>6
<1>9. fresh => ReturnVarrefIgnoreValid(tables, cur, var.name) = None
  BY <1>2, <1>5 DEF fresh
<1>10. UsesOk(tables', stage', uses, fresh)
  BY <1>5, <1>6, <1>8, <1>9, LoopKeepsUses
<1>11. /\ Keeps(tables, tables') /\ DOMAIN tables' = DOMAIN tables
       /\ \A k \in DOMAIN tables : tables'[k].chain = tables[k].chain
       /\ \A k \in DOMAIN tables : k # cur => tables'[k] = tables[k]
       /\ \A i \in 1 .. n : tables'[cur].vars[i] = tables[cur].vars[i]
  BY <1>8 DEF Added
<1>12. /\ DOMAIN tables[cur].chain = 1 .. Len(tables[cur].chain) /\ 1 \in DOMAIN tables[cur].chain
       /\ Len(tables[cur].chain) \in Nat
       /\ \A m \in DOMAIN tables[cur].chain : /\ tables[cur].chain[m] \in DOMAIN tables
                                              /\ tables[cur].chain[m] = cur <=> m = 1
  BY <1>6, ChainFacts DEF Shape
<1>13. fresh => \A m \in DOMAIN tables[cur].chain : \A i \in DOMAIN tables[tables[cur].chain[m]].vars :
                  tables[tables[cur].chain[m]].vars[i].name # name
  BY <1>5, <1>6, <1>9, NothingFound DEF Shape
<1>14. Alone(tables', cur, fresh)
  <2> DEFINE c == tables[cur].chain
  <2>1. SUFFICES ASSUME fresh, NEW j \in DOMAIN tables'[cur].vars, tables'[cur].vars[j].kind = "loop",
                        NEW m \in DOMAIN c, NEW i \in DOMAIN tables'[c[m]].vars,
                        tables'[cur].vars[j].name = tables'[c[m]].vars[i].name
                 PROVE  m = 1 /\ i = j
    BY <1>6, <1>11 DEF Alone
  <2>2. c[1] = cur
    BY <1>12
  <2>3. \A k \in DOMAIN tables[cur].vars : tables[cur].vars[k].name # name
    BY <2>1, <2>2, <1>12, <1>13
  <2>4. \/ i \in DOMAIN tables[c[m]].vars /\ tables'[c[m]].vars[i] = tables[c[m]].vars[i]
        \/ m = 1 /\ i = n + 1 /\ tables'[c[m]].vars[i] = var
    <3>1. CASE m = 1
      BY <3>1, <2>1, <2>2, <1>8, <1>11
    <3>2. CASE m # 1
      BY <3>2, <1>11, <1>12
    <3> QED BY <3>1, <3>2
  <2>5. \/ j \in DOMAIN tables[cur].vars /\ tables'[cur].vars[j] = tables[cur].vars[j]
        \/ j = n + 1 /\ tables'[cur].vars[j] = var
    BY <1>8, <1>11
  <2>6. CASE j \in DOMAIN tables[cur].vars /\ tables'[cur].vars[j] = tables[cur].vars[j]
    <3>1. tables[cur].vars[j].name # var.name
      BY <2>3, <2>6, <1>5
    <3>2. i \in DOMAIN tables[c[m]].vars /\ tables'[c[m]].vars[i] = tables[c[m]].vars[i]
      BY <3>1, <2>1, <2>4, <2>6
    <3>3. tables[cur].vars[j].kind = "loop" /\ tables[cur].vars[j].name = tables[c[m]].vars[i].name
      BY <3>2, <2>1, <2>6
    <3>4. Alone(tables, cur, fresh)
      BY DEF Walk, fresh
    <3> QED BY <3>2, <3>3, <3>4, <2>1, <2>6 DEF Alone
  <2>7. CASE j = n + 1 /\ tables'[cur].vars[j] = var
    <3>1. tables'[c[m]].vars[i].name = name
      BY <2>1, <2>7, <1>5
    <3>2. m = 1 /\ i = n + 1
      BY <3>1, <2>1, <2>4, <1>13
    <3> QED BY <3>2, <2>7
  <2> QED BY <2>5, <2>6, <2>7
<1>15. LoopOk(tables', loop, fresh)
  <2>1. loop.table = cur /\ loop.idx = n /\ loop.name = name
    BY <1>4 DEF n
  <2>2. cur # 1 /\ cur \in DOMAIN tables' /\ n \in Nat
    BY <1>1, <1>6, <1>8, <1>11
  <2>3. tables'[cur].vars[n + 1] = var /\ var.isextern = FALSE
    BY <1>8
  <2>4. fresh => \A i \in 1 .. n : tables'[cur].vars[i].name # name
    <3>1. tables[cur].chain[1] = cur
      BY <1>12
    <3> QED BY <3>1, <1>8, <1>11, <1>12, <1>13
  <2>5. n + 1 \in DOMAIN tables'[cur].vars
    BY <1>8
  <2> QED BY <2>1, <2>4, <2>5, <2>2, <2>3, <1>5 DEF LoopOk
<1>16. /\ LoopsOk(tables', loops, fresh) /\ IsSeq(loops) /\ loops' = Append(loops, loop)
  <2>1. LoopsOk(tables', loops, fresh)
    BY <1>6, <1>11, LoopsStay DEF Walk, fresh
  <2> QED BY <2>1, <1>2, <1>4 DEF LoopsOk
<1>17. /\ IsSeq(loops') /\ Len(loops) \in Nat /\ DOMAIN loops = 1 .. Len(loops)
       /\ DOMAIN loops' = 1 .. Len(loops) + 1 /\ loops'[Len(loops) + 1] = loop
       /\ \A i \in DOMAIN loops : loops'[i] = loops[i]
  BY <1>16, SeqGrows
<1>18. \A k \in DOMAIN loops' : \/ k \in DOMAIN loops /\ loops'[k] = loops[k]
                                \/ k = Len(loops) + 1 /\ loops'[k] = loop
  BY <1>17
<1>19. LoopsOk(tables', loops', fresh)
  BY <1>15, <1>16, <1>17, <1>18 DEF LoopsOk
<1>20. OpenOk(loops', open', cur)
  <2>1. loop.table = cur
    BY <1>4
  <2>2. loops'[Len(loops) + 1].table = cur
    BY <2>1, <1>17
  <2>3. OpenOk(loops, open, cur)
    BY DEF Walk
  <2> QED BY <2>2, <2>3, <1>1, <1>17, OpenGrows
<1>21. Walk'
  BY <1>1, <1>8, <1>10, <1>14, <1>19, <1>20 DEF Walk, fresh
<1> QED BY <1>3, <1>7, <1>21

LEMMA OpenShrinks ==
  ASSUME NEW ls, NEW op, op # <<>>, NEW c, OpenOk(ls, op, c)
  PROVE  /\ OpenOk(ls, SubSeq(op, 1, Len(op) - 1), c)
         /\ Len(op) \in DOMAIN op /\ op[Len(op)].loop \in DOMAIN ls
         /\ \A part : OpenOk(ls, [op EXCEPT ![Len(op)].part = part], c)
<1>1. PICK P : op \in Seq([loop : Nat, part : P])
  BY DEF OpenOk
<1> DEFINE n == Len(op)
           R == [loop : Nat, part : P]
<1>2. op \in Seq(R)
      /\ \A i \in DOMAIN op : op[i].loop \in DOMAIN ls /\ (ls[op[i].loop].kind = "for" => ls[op[i].loop].table = c)
  BY <1>1 DEF OpenOk
<1> HIDE DEF R
<1>3. n \in Nat /\ n >= 1 /\ DOMAIN op = 1 .. n /\ \A i \in DOMAIN op : op[i] \in R
  BY <1>2, EmptySeq, ElementOfSeq
<1>4. n \in DOMAIN op /\ op[n] \in R
  BY <1>3
<1>5. n = Len(op)
  OBVIOUS
<1> HIDE DEF n
<1>6. OpenOk(ls, SubSeq(op, 1, n - 1), c)
  <2> DEFINE oq == SubSeq(op, 1, n - 1)
  <2>1. /\ oq \in Seq(R) /\ DOMAIN oq = 1 .. n - 1
        /\ \A i \in 1 .. n - 1 : oq[i] = op[i]
    <3>1. \A i \in 1 .. n - 1 : op[i] \in R
      BY <1>3
    <3>2. oq = [i \in 1 .. n - 1 |-> op[i]]
      BY <1>2, <1>3 DEF n
    <3>3. n - 1 \in Nat /\ oq = [i \in 1 .. n - 1 |-> oq[i]] /\ \A i \in 1 .. n - 1 : oq[i] \in R
      BY <1>3, <3>1, <3>2
    <3> HIDE DEF oq
    <3> QED BY <3>2, <3>3, FunctionIsSeq
  <2> HIDE DEF oq
  <2>2. \A i \in DOMAIN oq : i \in DOMAIN op /\ oq[i] = op[i]
    BY <1>3, <2>1
  <2> QED BY <2>1, <2>2, <1>2 DEF OpenOk, oq, R
<1>7. ASSUME NEW part
      PROVE  OpenOk(ls, [op EXCEPT ![n].part = part], c)
  <2> DEFINE S == [loop : Nat, part : P \cup {part}]
             x == [op[n] EXCEPT !.part = part]
             oq == [op EXCEPT ![n] = x]
  <2>1. x \in S /\ x.loop = op[n].loop
    BY <1>4 DEF R
  <2>2. op \in Seq(S)
    <3>1. R \subseteq S
      BY DEF R
    <3> QED BY <1>2, <3>1, SeqMonotonic
  <2>3. oq = [op EXCEPT ![n].part = part]
    OBVIOUS
  <2> HIDE DEF x, S
  <2>4. oq \in Seq(S) /\ Len(oq) = n /\ DOMAIN oq = 1 .. n
        /\ oq[n] = x /\ \A i \in 1 .. n : i # n => oq[i] = op[i]
    <3>1. oq \in Seq(S) /\ Len(oq) = Len(op) /\ \A i \in 1 .. Len(op) : oq[i] = IF i = n THEN x ELSE op[i]
      BY <2>2, <1>3, <1>5, <2>1, ExceptSeq
    <3> HIDE DEF oq
    <3>2. DOMAIN oq = 1 .. n /\ Len(oq) = n
      BY <3>1, <1>5
    <3>3. oq[n] = x /\ \A i \in 1 .. n : i # n => oq[i] = op[i]
      BY <3>1, <1>3, <1>5
    <3> QED BY <3>1, <3>2, <3>3
  <2> HIDE DEF oq
  <2>5. \A i \in DOMAIN oq : i \in DOMAIN op /\ oq[i].loop = op[i].loop
    BY <1>3, <2>1, <2>4
  <2> QED BY <2>3, <2>4, <2>5, <1>2 DEF OpenOk, S
<1> QED BY <1>2, <1>4, <1>6, <1>7, <1>5 DEF R

LEMMA NextChildStep ==
  ASSUME Walk, program' = program, NextChild
  PROVE  Walk'
<1>1. /\ open # <<>>
      /\ open' = [open EXCEPT ![Len(open)].part = NextPart(InnerLoop, @)]
      /\ UNCHANGED <<tables, cur, stage, loops, uses>>
  BY DEF NextChild
<1>2. OpenOk(loops, open, cur)
  BY DEF Walk
<1>3. OpenOk(loops, open', cur)
  BY <1>1, <1>2, OpenShrinks
<1> QED BY <1>1, <1>3 DEF Walk

LEMMA WhileExitStep ==
  ASSUME Walk, program' = program, WhileExit
  PROVE  Walk'
<1>1. /\ open # <<>> /\ open' = SubSeq(open, 1, Len(open) - 1)
      /\ UNCHANGED <<tables, cur, stage, loops, uses>>
  BY DEF WhileExit
<1>2. OpenOk(loops, open, cur)
  BY DEF Walk
<1>3. OpenOk(loops, open', cur)
  BY <1>1, <1>2, OpenShrinks
<1> QED BY <1>1, <1>3 DEF Walk

LEMMA WhileEnterStep ==
  ASSUME Walk, program' = program, WhileEnter
  PROVE  Walk'
<1>1. /\ MayBe("stmts") /\ stage' = Advance("stmts")
      /\ loops' = Append(loops, [kind |-> "while", table |-> cur, name |-> <<>>,
                                idx |-> 0, step |-> "const"])
      /\ open' = Append(open, [loop |-> Len(loops) + 1, part |-> "body"])
      /\ UNCHANGED <<tables, cur, uses>>
  BY DEF WhileEnter, AtStatement
<1>2. /\ Staged(tables, stage', cur) /\ EntriesOk(tables, stage')
      /\ UsesOk(tables, stage', uses, program.fresh)
  BY <1>1, AdvanceStep
<1>3. PICK loop : loop = [kind |-> "while", table |-> cur, name |-> <<>>, idx |-> 0, step |-> "const"]
  OBVIOUS
<1>4. loop.table = cur /\ loop.kind # "for"
  BY <1>3
<1>5. IsSeq(loops) /\ OpenOk(loops, open, cur) /\ LoopsOk(tables, loops, program.fresh)
  BY DEF Walk, LoopsOk
<1>6. /\ IsSeq(loops') /\ Len(loops) \in Nat /\ DOMAIN loops = 1 .. Len(loops)
      /\ DOMAIN loops' = 1 .. Len(loops) + 1 /\ loops'[Len(loops) + 1] = loop
      /\ \A i \in DOMAIN loops : loops'[i] = loops[i]
  BY <1>1, <1>3, <1>5, SeqGrows
<1>7. LoopsOk(tables, loops', program.fresh)
  BY <1>4, <1>5, <1>6 DEF LoopsOk
<1>8. OpenOk(loops', open', cur)
  <2>1. loops'[Len(loops) + 1].table = cur
    BY <1>4, <1>6
  <2> QED BY <2>1, <1>1, <1>5, <1>6, OpenGrows
<1> QED BY <1>1, <1>2, <1>7, <1>8 DEF Walk

LEMMA ForExitStep ==
  ASSUME Walk, program' = program, RSOforExit
  PROVE  /\ Walk' /\ Keeps(tables, tables') /\ DOMAIN tables' = DOMAIN tables
         /\ \A t \in DOMAIN tables : DOMAIN tables'[t].vars = DOMAIN tables[t].vars
<1> DEFINE loop == loops[open[Len(open)].loop]
           i == loop.idx + 1
<1>1. /\ open # <<>> /\ loop.kind = "for"
      /\ tables' = [tables EXCEPT ![cur].vars[i].valid = FALSE]
      /\ open' = SubSeq(open, 1, Len(open) - 1)
      /\ UNCHANGED <<cur, stage, loops, uses>>
  BY DEF RSOforExit, InnerLoop, Inner
<1>2. OpenOk(loops, open, cur) /\ Shape(tables) /\ cur \in DOMAIN tables
  BY StageNow DEF Walk
<1>3. OpenOk(loops, open', cur) /\ Len(open) \in DOMAIN open /\ open[Len(open)].loop \in DOMAIN loops
  BY <1>1, <1>2, OpenShrinks
<1>4. loop.table = cur
  BY <1>1, <1>2, <1>3 DEF OpenOk
<1>5. i \in DOMAIN tables[cur].vars /\ tables[cur].vars[i].kind = "loop"
  BY <1>1, <1>3, <1>4 DEF Walk, LoopsOk, LoopOk
<1> HIDE DEF loop, i
<1>6. PICK N : tables \in Seq(Table(N))
  BY <1>2 DEF Shape, AreTables
<1>7. tables[cur] \in Table(N) /\ tables[cur].vars \in Seq(Entry(N)) /\ tables[cur].vars[i] \in Entry(N)
  BY <1>2, <1>5, <1>6, OneTable, ElementOfSeq
<1> DEFINE vs == [tables[cur].vars EXCEPT ![i].valid = FALSE]
<1>8. /\ vs \in Seq(Entry(N)) /\ DOMAIN vs = DOMAIN tables[cur].vars
      /\ \A j \in DOMAIN tables[cur].vars : j # i => vs[j] = tables[cur].vars[j]
      /\ vs[i] = [tables[cur].vars[i] EXCEPT !.valid = FALSE]
  <2> DEFINE x == [tables[cur].vars[i] EXCEPT !.valid = FALSE]
  <2>1. x \in Entry(N)
    BY <1>7 DEF Entry
  <2>2. vs = [tables[cur].vars EXCEPT ![i] = x]
    OBVIOUS
  <2> HIDE DEF x
  <2>3. i \in 1 .. Len(tables[cur].vars)
    BY <1>5, <1>7
  <2>4. vs \in Seq(Entry(N))
    BY <2>1, <2>2, <2>3, <1>7, ExceptSeq
  <2> QED BY <2>2, <2>4, <1>5 DEF x
<1>9. tables' = [tables EXCEPT ![cur].vars = vs]
  BY <1>1
<1> HIDE DEF vs
<1>10. /\ DOMAIN tables' = DOMAIN tables
       /\ \A k \in DOMAIN tables : k # cur => tables'[k] = tables[k]
       /\ tables'[cur] = [tables[cur] EXCEPT !.vars = vs]
       /\ tables' = [k \in DOMAIN tables |-> tables'[k]]
  BY <1>2, <1>6, <1>9
<1>11. tables'[cur].chain = tables[cur].chain /\ tables'[cur].vars = vs
  BY <1>7, <1>10 DEF Table
<1>12. /\ vs[i].name = tables[cur].vars[i].name /\ vs[i].kind = tables[cur].vars[i].kind
       /\ vs[i].readonly = tables[cur].vars[i].readonly
       /\ vs[i].dim = tables[cur].vars[i].dim /\ vs[i].isextern = tables[cur].vars[i].isextern
  BY <1>7, <1>8 DEF Entry
<1>13. \A j \in DOMAIN tables[cur].vars : /\ vs[j].name = tables[cur].vars[j].name
                                          /\ vs[j].kind = tables[cur].vars[j].kind
                                          /\ vs[j].readonly = tables[cur].vars[j].readonly
                                          /\ vs[j].dim = tables[cur].vars[j].dim
                                          /\ vs[j].isextern = tables[cur].vars[j].isextern
                                          /\ j # i => vs[j].valid = tables[cur].vars[j].valid
  BY <1>8, <1>12
<1>14. AreTables(tables') /\ Keeps(tables, tables')
  <2>1. /\ tables'[cur] = [tables[cur] EXCEPT !.vars = tables'[cur].vars]
        /\ \E M : tables'[cur].vars \in Seq(Entry(M))
        /\ DOMAIN tables'[cur].vars = DOMAIN tables[cur].vars
        /\ \A j \in DOMAIN tables[cur].vars :
             /\ tables'[cur].vars[j].name = tables[cur].vars[j].name
             /\ tables'[cur].vars[j].kind = tables[cur].vars[j].kind
             /\ tables'[cur].vars[j].dim = tables[cur].vars[j].dim
             /\ tables'[cur].vars[j].isextern = tables[cur].vars[j].isextern
    BY <1>8, <1>10, <1>11, <1>13
  <2>2. AreTables(tables) /\ tables'[cur].chain = tables[cur].chain
    BY <1>2, <1>11 DEF Shape
  <2>3. /\ DOMAIN tables' = DOMAIN tables
        /\ \A k \in DOMAIN tables : k # cur => tables'[k] = tables[k]
        /\ tables' = [k \in DOMAIN tables |-> tables'[k]]
    BY <1>10
  <2>4. Flagged(tables, tables', cur)
    BY <2>1, <2>2, <2>3 DEF Flagged
  <2> QED BY <2>2, <2>4, FlagChanged
<1>15. \A t \in DOMAIN tables : DOMAIN tables'[t].vars = DOMAIN tables[t].vars
  BY <1>8, <1>10, <1>11
<1>16. Shape(tables')
  BY <1>2, <1>10, <1>14, <1>15, FlagsShape
<1>17. EntriesOk(tables', stage)
  <2> SUFFICES ASSUME NEW t \in DOMAIN tables, NEW j \in DOMAIN tables[t].vars
               PROVE  LET x == tables'[t].vars[j]
                      IN  /\ x.kind # "loop" => x.valid
                          /\ x.readonly <=> x.kind = "loop"
                          /\ stage[t] \in LoopFree => x.kind # "loop"
    BY <1>10, <1>15 DEF EntriesOk
  <2>1. LET x == tables[t].vars[j]
        IN  /\ x.kind # "loop" => x.valid
            /\ x.readonly <=> x.kind = "loop"
            /\ stage[t] \in LoopFree => x.kind # "loop"
    BY DEF Walk, EntriesOk
  <2>2. CASE t # cur
    BY <2>1, <2>2, <1>10
  <2>3. CASE t = cur /\ j # i
    BY <2>1, <2>3, <1>8, <1>11
  <2>4. CASE t = cur /\ j = i
    BY <2>1, <2>4, <1>5, <1>11, <1>12
  <2> QED BY <2>2, <2>3, <2>4
<1>18. Staged(tables', stage, cur)
  <2>1. Len(tables') = Len(tables)
    BY <1>2, <1>10, <1>16, TablesTyped DEF Shape
  <2>2. tables'[cur].chain = tables[cur].chain
    BY <1>11
  <2> QED BY <2>1, <2>2, <1>10 DEF Walk, Staged
<1>19. Alone(tables', cur, program.fresh)
  <2>1. \A m \in DOMAIN tables[cur].chain : tables[cur].chain[m] \in DOMAIN tables
    BY <1>2, ChainFacts DEF Shape
  <2> QED BY <2>1, <1>2, <1>11, <1>14, <1>15 DEF Walk, Alone, Keeps
<1>20. LoopsOk(tables', loops, program.fresh)
  BY <1>2, <1>14, LoopsStay DEF Walk
<1>21. UsesOk(tables', stage, uses, program.fresh)
  BY <1>2, <1>14, <1>15, UsesStay DEF Walk
<1>22. Walk'
  BY <1>1, <1>3, <1>16, <1>17, <1>18, <1>19, <1>20, <1>21 DEF Walk
<1> QED BY <1>10, <1>14, <1>15, <1>22

LEMMA WalkInit == Init => Walk
<1> SUFFICES ASSUME Init PROVE Walk
  OBVIOUS
<1>1. /\ program \in Programs /\ tables = <<NewTable(1, <<>>)>> /\ cur = 1
      /\ stage = <<"program">> /\ loops = <<>> /\ open = <<>> /\ uses = <<>>
  BY DEF Init
<1>2. NewTable(1, <<>>).vars = <<>> /\ NewTable(1, <<>>).chain = <<1>>
      /\ NewTable(1, <<>>) = [vars |-> <<>>, chain |-> <<1>>]
  BY DEF NewTable
<1>3. PICK x : x = NewTable(1, <<>>)
  OBVIOUS
<1>4. x.vars = <<>> /\ x.chain = <<1>> /\ x \in Table({})
  <2>1. <<>> \in Seq(Entry({})) /\ <<1>> \in Seq(Nat)
    OBVIOUS
  <2> QED BY <2>1, <1>2, <1>3 DEF Table
<1>5. /\ tables = <<x>> /\ tables \in Seq(Table({})) /\ tables # <<>> /\ DOMAIN tables = {1}
      /\ Len(tables) = 1 /\ tables[1] = x
  BY <1>1, <1>3, <1>4
<1>6. AreTables(tables)
  BY <1>5 DEF AreTables
<1>7. Chains(tables)
  <2>1. DOMAIN <<1>> = {1} /\ Len(<<1>>) = 1 /\ <<1>>[1] = 1 /\ <<1>> # <<>>
    OBVIOUS
  <2> QED BY <2>1, <1>4, <1>5 DEF Chains, ChainOk
<1>8. DOMAIN tables[1].vars = {}
  BY <1>4, <1>5
<1>9. Shape(tables)
  BY <1>5, <1>6, <1>7, <1>8 DEF Shape, DeclaredOnce, DimsFollow
<1>10. Staged(tables, stage, cur)
  <2>1. stage \in Seq(Stages) /\ Len(stage) = 1 /\ stage[1] = "program"
    BY <1>1 DEF Stages
  <2>2. DOMAIN tables[1].chain = {1}
    BY <1>4, <1>5
  <2> QED BY <2>1, <2>2, <1>1, <1>5 DEF Staged
<1>11. EntriesOk(tables, stage) /\ Alone(tables, cur, program.fresh)
  BY <1>1, <1>5, <1>8 DEF EntriesOk, Alone
<1>12. <<>> \in Seq({}) /\ DOMAIN <<>> = {} /\ \A P : <<>> \in Seq([loop : Nat, part : P])
  OBVIOUS
<1>13. LoopsOk(tables, loops, program.fresh) /\ OpenOk(loops, open, cur)
       /\ UsesOk(tables, stage, uses, program.fresh)
  BY <1>1, <1>12 DEF LoopsOk, OpenOk, UsesOk, IsSeq
<1> QED BY <1>1, <1>9, <1>10, <1>11, <1>13 DEF Walk

(* Every step of the traversal keeps Walk.                                 *)
LEMMA WalkStep == Walk /\ RSONext => Walk'
<1> SUFFICES ASSUME Walk, RSONext PROVE Walk'
  OBVIOUS
<1>1. program' = program
  BY DEF RSONext
<1>2. CASE RSOfundefEnter
  BY <1>1, <1>2, FundefEnterStep
<1>3. CASE RSOfundefExit
  BY <1>1, <1>3, FundefExitStep
<1>4. CASE RSOfundec
  BY <1>1, <1>4 DEF RSOfundec, Walk
<1>5. CASE RSOparam
  BY <1>1, <1>5, ParamStep
<1>6. CASE RSOvardef
  BY <1>1, <1>6, VardefStep
<1>7. CASE RSOglobaldec
  BY <1>1, <1>7, GlobaldecStep
<1>8. CASE RSOforEnter
  BY <1>1, <1>8, ForEnterStep
<1>9. CASE NextChild
  BY <1>1, <1>9, NextChildStep
<1>10. CASE RSOforExit
  BY <1>1, <1>10, ForExitStep
<1>11. CASE WhileEnter
  BY <1>1, <1>11, WhileEnterStep
<1>12. CASE WhileExit
  BY <1>1, <1>12, WhileExitStep
<1>13. CASE RSOvar
  BY <1>1, <1>13, VarStep
<1>14. CASE RSOprogram
  BY <1>1, <1>14 DEF RSOprogram, Walk
<1> QED BY <1>2, <1>3, <1>4, <1>5, <1>6, <1>7, <1>8, <1>9, <1>10, <1>11, <1>12, <1>13, <1>14
        DEF RSONext

(* What the passes behind the traversal count on.                          *)
Resolved ==
  /\ program \in Programs
  /\ Shape(tables)
  /\ IsSeq(loops) /\ IsSeq(uses)
  /\ \A k \in DOMAIN loops : loops[k].kind = "for" => LoopOk(tables, loops[k], program.fresh)
  /\ \A k \in DOMAIN uses : UseOk(tables, uses[k], program.fresh)

LEMMA WalkResolves == Walk => Resolved
BY DEF Walk, Resolved, LoopsOk, UsesOk

(* A reference from a nested function denotes an entry ahead of all loops  *)
(* of its table, in which no name is there twice up to it.                 *)
LEMMA OuterRefsFollow == Resolved => OuterRefsPrecedeLoops
<1> SUFFICES ASSUME Resolved, NEW k \in DOMAIN uses, uses[k].ref.n > 0,
                    NEW i \in 1 .. (uses[k].ref.l + 1), NEW j \in 1 .. (uses[k].ref.l + 1)
             PROVE  /\ tables[Target(uses[k])[1]].vars[i].kind # "loop"
                    /\ tables[Target(uses[k])[1]].vars[i].name = tables[Target(uses[k])[1]].vars[j].name
                         => i = j
  BY DEF OuterRefsPrecedeLoops
<1> DEFINE u == uses[k]
           t == HomeOf(tables, uses[k])
<1>1. Target(u)[1] = t
  BY DEF Target, Denotes, HomeOf
<1>2. Refers(tables, u) /\ Shape(tables)
  BY DEF Resolved, UseOk
<1>3. u.ref.l + 1 \in DOMAIN tables[t].vars /\ tables[t].vars[u.ref.l + 1].kind # "loop"
  BY <1>2 DEF Refers
<1>4. t \in DOMAIN tables
  <2>1. u.table \in DOMAIN tables /\ u.ref.n + 1 \in DOMAIN tables[u.table].chain
    BY <1>2 DEF Refers
  <2> QED BY <2>1, <1>2, ChainFacts DEF HomeOf, Shape
<1> HIDE DEF t
<1> QED BY <1>1, <1>2, <1>3, <1>4, NamesBefore
-----------------------------------------------------------------------------
(* The passes behind RSO.                                                  *)

(* A reference of use u or of a copy of it: to an entry of a table along   *)
(* the chain, and the one u denotes, or a loop's.                          *)
CopyOk(ts, u, ref, fresh) ==
  LET d == Denotes(ts, u.table, ref)
  IN  /\ ref.n \in Nat /\ ref.n + 1 \in DOMAIN ts[u.table].chain
      /\ d # Denotes(ts, u.table, u.ref) =>
           /\ d[1] \in DOMAIN ts /\ d[2] + 1 \in DOMAIN ts[d[1]].vars
           /\ ts[d[1]].vars[d[2] + 1].kind = "loop"
           /\ ~fresh

(* The reference of the variable a for loop counts.                        *)
ControlOk(ts, loop, ref, fresh) ==
  ref # None => /\ loop.kind = "for"
                /\ fresh => /\ Denotes(ts, loop.table, ref) = <<loop.table, loop.idx>>
                            /\ ref.n = 0 /\ ref.l = loop.idx /\ ref.reftype = "local"

Adjusted ==
  /\ Resolved
  /\ DOMAIN refs = DOMAIN uses
  /\ \A k \in DOMAIN uses : \A ref \in refs[k] : CopyOk(tables, uses[k], ref, program.fresh)
  /\ DOMAIN control = DOMAIN loops
  /\ \A k \in DOMAIN loops : ControlOk(tables, loops[k], control[k], program.fresh)
  /\ \/ \A k \in DOMAIN uses : Accepted(uses[k])
     \/ pass = "tyc" /\ \A k \in DOMAIN loops : control[k] = None
  /\ InitialisersKeepTheirVariable
  /\ pass = "ftw" => inits = {}

Names == IF pass = "rso" THEN Walk /\ refs = <<>> /\ control = <<>> /\ inits = {}
                         ELSE Adjusted

-----------------------------------------------------------------------------
(* A change of flags keeps all that is known.                              *)
LEMMA CopyKept ==
  ASSUME NEW ts, NEW us, Keeps(ts, us), NEW fresh, NEW u, u.table \in DOMAIN ts,
         NEW ref, CopyOk(ts, u, ref, fresh)
  PROVE  CopyOk(us, u, ref, fresh)
<1>1. us[u.table].chain = ts[u.table].chain
  BY DEF Keeps
<1>2. /\ Denotes(us, u.table, ref) = Denotes(ts, u.table, ref)
      /\ Denotes(us, u.table, u.ref) = Denotes(ts, u.table, u.ref)
  BY <1>1 DEF Denotes
<1> DEFINE d == Denotes(ts, u.table, ref)
<1>3. SUFFICES ASSUME d # Denotes(ts, u.table, u.ref)
               PROVE  /\ d[1] \in DOMAIN us /\ d[2] + 1 \in DOMAIN us[d[1]].vars
                      /\ us[d[1]].vars[d[2] + 1].kind = "loop"
                      /\ ~fresh
  BY <1>1, <1>2 DEF CopyOk
<1>4. /\ d[1] \in DOMAIN ts /\ d[2] + 1 \in DOMAIN ts[d[1]].vars
      /\ ts[d[1]].vars[d[2] + 1].kind = "loop"
      /\ ~fresh
  BY <1>3 DEF CopyOk
<1> HIDE DEF d
<1> QED BY <1>4 DEF Keeps

LEMMA ControlKept ==
  ASSUME NEW ts, NEW us, Keeps(ts, us), NEW fresh, NEW loop,
         loop.kind = "for" => loop.table \in DOMAIN ts, NEW ref, ControlOk(ts, loop, ref, fresh)
  PROVE  ControlOk(us, loop, ref, fresh)
BY DEF ControlOk, Denotes, Keeps

LEMMA ResolvedStays ==
  ASSUME Resolved, program' = program, loops' = loops, uses' = uses,
         AreTables(tables'), Keeps(tables, tables'), DOMAIN tables' = DOMAIN tables,
         \A t \in DOMAIN tables : DOMAIN tables'[t].vars = DOMAIN tables[t].vars
  PROVE  Resolved'
<1>1. Shape(tables) /\ Shape(tables')
  BY FlagsShape DEF Resolved
<1>2. \A k \in DOMAIN loops : loops[k].kind = "for" => LoopOk(tables', loops[k], program.fresh)
  BY <1>1, LoopKept DEF Resolved, Shape
<1>3. ASSUME NEW k \in DOMAIN uses
      PROVE  UseOk(tables', uses[k], program.fresh)
  <2> DEFINE u == uses[k]
  <2>1. UseOk(tables, u, program.fresh)
    BY DEF Resolved
  <2>2. \A m \in DOMAIN tables[u.table].chain : tables[u.table].chain[m] \in DOMAIN tables
    BY <1>1, <2>1, ChainFacts DEF Shape, UseOk, Refers
  <2> HIDE DEF u
  <2>3. \A m \in DOMAIN tables[u.table].chain :
          \A i \in DOMAIN tables'[tables[u.table].chain[m]].vars :
            i \notin DOMAIN tables[tables[u.table].chain[m]].vars => FALSE
    BY <2>2
  <2>4. UseOk(tables', u, program.fresh)
    BY <1>1, <2>1, <2>3, UseKept
  <2> QED BY <2>4 DEF u
<1> QED BY <1>1, <1>2, <1>3 DEF Resolved

(* A copied name denotes what the name denoted, or a variable of a loop.   *)
LEMMA FixedCopy ==
  ASSUME Resolved, NEW k \in DOMAIN uses, NEW j, NEW parts, In(uses[k], j, parts)
  PROVE  CopyOk(tables, uses[k], Fixed(uses[k]), program.fresh)
<1> DEFINE u == uses[k]
           c == tables[u.table].chain
           r == ReturnVarrefIgnoreValid(tables, u.table, u.name)
<1>1. UseOk(tables, u, program.fresh) /\ AreTables(tables) /\ Chains(tables)
  BY DEF Resolved, Shape
<1>2. u.place # <<>>
  BY DEF In
<1>3. Refers(tables, u) /\ LoopsAhead(tables, u, program.fresh)
  BY <1>1, <1>2 DEF UseOk
<1>4. Fixed(u) = r
  BY DEF Fixed
<1> HIDE DEF u
<1>5. LET d == Denotes(tables, u.table, r)
      IN  d # Denotes(tables, u.table, u.ref) =>
            tables[d[1]].vars[d[2] + 1].kind = "loop" /\ ~program.fresh
  BY <1>1, <1>3, FixedErrs
<1>6. /\ u.table \in DOMAIN tables /\ u.ref.n + 1 \in DOMAIN c
      /\ u.ref.l + 1 \in DOMAIN tables[c[u.ref.n + 1]].vars
      /\ tables[c[u.ref.n + 1]].vars[u.ref.l + 1].name = u.name
  BY <1>3 DEF Refers, HomeOf
<1>7. IsFirst(tables, c, u.name, r)
  BY <1>1, <1>6, FirstFound
<1>8. c[r.n + 1] \in DOMAIN tables /\ r.l + 1 \in DOMAIN tables[c[r.n + 1]].vars
  <2>1. r.n + 1 \in DOMAIN c
    BY <1>7 DEF IsFirst
  <2>2. \A m \in DOMAIN c : c[m] \in DOMAIN tables
    BY <1>1, <1>6, ChainFacts
  <2> HIDE DEF c, r
  <2> QED BY <2>1, <2>2, <1>7 DEF IsFirst
<1> DEFINE d == Denotes(tables, u.table, r)
<1>9. d[1] = c[r.n + 1] /\ d[2] = r.l
  BY DEF Denotes
<1>10. r.n \in Nat /\ r.n + 1 \in DOMAIN c
  BY <1>7 DEF IsFirst
<1>11. CopyOk(tables, u, r, program.fresh)
  BY <1>5, <1>8, <1>9, <1>10 DEF CopyOk
<1> QED BY <1>4, <1>11 DEF u

(* ensure_vardef changes flags at most, of the entry of the loop's name.   *)
LEMMA EnsureKeeps ==
  ASSUME Resolved, NEW k \in DOMAIN loops, loops[k].kind = "for",
         EnsureVardef(loops[k].table, loops[k].name)
  PROVE  /\ AreTables(tables') /\ Keeps(tables, tables') /\ DOMAIN tables' = DOMAIN tables
         /\ \A t \in DOMAIN tables : DOMAIN tables'[t].vars = DOMAIN tables[t].vars
<1> DEFINE t == loops[k].table
           name == loops[k].name
           i == Least(Named(tables[t], name)) + 1
<1>1. AreTables(tables) /\ LoopOk(tables, loops[k], program.fresh)
  BY DEF Resolved, Shape
<1>2. /\ t \in DOMAIN tables /\ loops[k].idx \in Nat
      /\ loops[k].idx + 1 \in DOMAIN tables[t].vars
      /\ tables[t].vars[loops[k].idx + 1].name = name
  BY <1>1 DEF LoopOk
<1>3. \/ tables' = tables
      \/ tables' = [tables EXCEPT ![t].vars[i].valid = TRUE, ![t].vars[i].readonly = FALSE]
  BY DEF EnsureVardef
<1> HIDE DEF t, name
<1>4. i \in DOMAIN tables[t].vars
  <2>1. loops[k].idx \in Named(tables[t], name)
    BY <1>1, <1>2, NamedIndices
  <2>2. Named(tables[t], name) \in SUBSET Nat /\ Named(tables[t], name) # {}
    BY <2>1, <1>1, <1>2, NamedIndices
  <2>3. Least(Named(tables[t], name)) \in Named(tables[t], name)
    BY <2>2, LeastIsLeast
  <2> QED BY <2>3, <1>1, <1>2, NamedIndices
<1> HIDE DEF i
<1>5. CASE tables' = tables
  BY <1>5, <1>1 DEF Keeps
<1>6. CASE tables' = [tables EXCEPT ![t].vars[i].valid = TRUE, ![t].vars[i].readonly = FALSE]
  <2>1. PICK N : tables \in Seq(Table(N))
    BY <1>1 DEF AreTables
  <2>2. tables[t] \in Table(N) /\ tables[t].vars \in Seq(Entry(N)) /\ tables[t].vars[i] \in Entry(N)
    BY <2>1, <1>2, <1>4, OneTable, ElementOfSeq
  <2> DEFINE x == [tables[t].vars[i] EXCEPT !.valid = TRUE, !.readonly = FALSE]
  <2>3. /\ x \in Entry(N) /\ x.name = tables[t].vars[i].name
        /\ x.kind = tables[t].vars[i].kind /\ x.dim = tables[t].vars[i].dim
        /\ x.isextern = tables[t].vars[i].isextern
    BY <2>2 DEF Entry
  <2>4. tables' = [tables EXCEPT ![t].vars[i] = x]
    <3>1. DOMAIN tables = 1 .. Len(tables) /\ tables = [m \in DOMAIN tables |-> tables[m]]
      BY <2>1
    <3>2. tables[t] = [vars |-> tables[t].vars, chain |-> tables[t].chain]
      BY <2>2 DEF Table
    <3> QED BY <1>6, <1>2, <1>4, <2>2, <3>1, <3>2
  <2> HIDE DEF x
  <2> DEFINE vs == [tables[t].vars EXCEPT ![i] = x]
  <2>5. /\ vs \in Seq(Entry(N)) /\ DOMAIN vs = DOMAIN tables[t].vars
        /\ \A j \in DOMAIN tables[t].vars : /\ vs[j].name = tables[t].vars[j].name
                                            /\ vs[j].kind = tables[t].vars[j].kind
                                            /\ vs[j].dim = tables[t].vars[j].dim
                                            /\ vs[j].isextern = tables[t].vars[j].isextern
    <3>1. i \in 1 .. Len(tables[t].vars)
      BY <2>2, <1>4
    <3>2. vs \in Seq(Entry(N))
      BY <2>2, <2>3, <3>1, ExceptSeq
    <3> QED BY <2>3, <3>2
  <2>6. tables' = [tables EXCEPT ![t].vars = vs]
    BY <2>4
  <2> HIDE DEF vs
  <2>7. /\ DOMAIN tables' = DOMAIN tables
        /\ \A m \in DOMAIN tables : m # t => tables'[m] = tables[m]
        /\ tables'[t] = [tables[t] EXCEPT !.vars = vs]
        /\ tables' = [m \in DOMAIN tables |-> tables'[m]]
    BY <1>2, <2>1, <2>6
  <2>8. tables'[t].chain = tables[t].chain /\ tables'[t].vars = vs
    BY <2>2, <2>7 DEF Table
  <2>9. /\ tables'[t] = [tables[t] EXCEPT !.vars = tables'[t].vars]
        /\ \E M : tables'[t].vars \in Seq(Entry(M))
        /\ DOMAIN tables'[t].vars = DOMAIN tables[t].vars
        /\ \A j \in DOMAIN tables[t].vars :
             /\ tables'[t].vars[j].name = tables[t].vars[j].name
             /\ tables'[t].vars[j].kind = tables[t].vars[j].kind
             /\ tables'[t].vars[j].dim = tables[t].vars[j].dim
             /\ tables'[t].vars[j].isextern = tables[t].vars[j].isextern
    <3>1. tables'[t].vars = vs
      BY <2>8
    <3>2. tables'[t] = [tables[t] EXCEPT !.vars = tables'[t].vars]
      BY <2>7, <3>1
    <3>3. \E M : tables'[t].vars \in Seq(Entry(M))
      <4> HIDE DEF Entry
      <4> QED BY <2>5, <3>1
    <3> QED BY <2>5, <3>1, <3>2, <3>3
  <2>10. AreTables(tables') /\ Keeps(tables, tables')
    <3>1. AreTables(tables) /\ tables'[t].chain = tables[t].chain
      BY <1>1, <2>8
    <3>2. /\ DOMAIN tables' = DOMAIN tables
          /\ \A m \in DOMAIN tables : m # t => tables'[m] = tables[m]
          /\ tables' = [m \in DOMAIN tables |-> tables'[m]]
      BY <2>7
    <3>3. t \in DOMAIN tables => /\ tables'[t].chain = tables[t].chain
                                 /\ tables'[t] = [tables[t] EXCEPT !.vars = tables'[t].vars]
                                 /\ \E M : tables'[t].vars \in Seq(Entry(M))
      BY <2>9, <3>1
    <3>4. Flagged(tables, tables', t)
      BY <2>9, <3>2, <3>3 DEF Flagged
    <3> QED BY <3>1, <3>4, FlagChanged
  <2> QED BY <2>5, <2>7, <2>8, <2>10
<1> QED BY <1>3, <1>5, <1>6

-----------------------------------------------------------------------------
(* TYC starts from the references RSO made.                                *)
LEMMA TYCStep ==
  ASSUME Walk, inits = {}, TYC
  PROVE  Adjusted' /\ pass' # "rso"
<1>1. /\ \/ pass' = "ftw" /\ \A k \in DOMAIN uses : Accepted(uses[k])
         \/ pass' = "tyc"
      /\ refs' = [k \in DOMAIN uses |-> {uses[k].ref}]
      /\ control' = [k \in DOMAIN loops |-> None]
      /\ UNCHANGED <<program, tables, loops, uses, inits>>
  BY DEF TYC
<1>2. Resolved'
  <2>1. Resolved
    BY WalkResolves
  <2> QED BY <2>1, <1>1 DEF Resolved
<1>3. ASSUME NEW k \in DOMAIN uses, NEW ref \in refs'[k]
      PROVE  CopyOk(tables, uses[k], ref, program.fresh)
  <2>1. ref = uses[k].ref
    BY <1>1
  <2>2. Refers(tables, uses[k])
    BY WalkResolves DEF Resolved, UseOk
  <2> QED BY <2>1, <2>2 DEF CopyOk, Refers
<1>4. \A k \in DOMAIN loops : /\ control'[k] = None
                              /\ ControlOk(tables, loops[k], control'[k], program.fresh)
  BY <1>1 DEF ControlOk
<1>5. InitialisersKeepTheirVariable'
  BY <1>1 DEF InitialisersKeepTheirVariable
<1>6. DOMAIN refs' = DOMAIN uses' /\ DOMAIN control' = DOMAIN loops' /\ inits' = {}
  BY <1>1
<1>7. Adjusted'
  BY <1>1, <1>2, <1>3, <1>4, <1>5, <1>6 DEF Adjusted
<1> QED BY <1>1, <1>7

(* ForToWhile copies names only inside the parts of loops, and looks the   *)
(* counter up while all entries are in place.                              *)
LEMMA FTWforStep ==
  ASSUME Adjusted, FTWfor
  PROVE  Adjusted' /\ pass' # "rso"
<1> DEFINE loop == loops[todo]
<1>1. /\ pass = "ftw" /\ todo \in DOMAIN loops /\ loop.kind = "for"
      /\ control' = [control EXCEPT ![todo] = ReturnVarrefIgnoreValid(tables, loop.table, loop.name)]
      /\ EnsureVardef(loop.table, loop.name)
      /\ UNCHANGED <<program, loops, uses, pass, inits>>
  BY DEF FTWfor
<1>2. /\ DOMAIN refs' = DOMAIN uses
      /\ \A k \in DOMAIN uses : \A ref \in refs'[k] :
           \/ ref \in refs[k]
           \/ ref = Fixed(uses[k]) /\ \E parts : In(uses[k], todo, parts)
  <2> DEFINE A(k) == In(uses[k], todo, {"until", "step"})
             B(k) == loop.step = "expr" /\ In(uses[k], todo, {"body"})
  <2>1. refs' = [k \in DOMAIN uses |-> IF A(k) THEN {Fixed(uses[k])}
                                       ELSE IF B(k) THEN refs[k] \cup {Fixed(uses[k])}
                                       ELSE refs[k]]
    BY DEF FTWfor
  <2>2. \A k \in DOMAIN uses : A(k) \/ B(k) => \E parts : In(uses[k], todo, parts)
    OBVIOUS
  <2> HIDE DEF A, B
  <2> QED BY <2>1, <2>2
<1>3. /\ AreTables(tables') /\ Keeps(tables, tables') /\ DOMAIN tables' = DOMAIN tables
      /\ \A t \in DOMAIN tables : DOMAIN tables'[t].vars = DOMAIN tables[t].vars
  BY <1>1, EnsureKeeps DEF Adjusted
<1>4. Resolved'
  BY <1>1, <1>3, ResolvedStays DEF Adjusted
<1>5. ASSUME NEW k \in DOMAIN uses, NEW ref \in refs'[k]
      PROVE  CopyOk(tables', uses[k], ref, program.fresh)
  <2>1. CopyOk(tables, uses[k], ref, program.fresh)
    <3>1. CASE ref \in refs[k]
      BY <3>1 DEF Adjusted
    <3>2. CASE ref = Fixed(uses[k]) /\ \E parts : In(uses[k], todo, parts)
      BY <3>2, FixedCopy DEF Adjusted
    <3> QED BY <1>2, <3>1, <3>2
  <2>2. uses[k].table \in DOMAIN tables
    BY DEF Adjusted, Resolved, UseOk, Refers
  <2> QED BY <1>3, <2>1, <2>2, CopyKept
<1>6. DOMAIN control' = DOMAIN loops
  BY <1>1 DEF Adjusted
<1>7. ASSUME NEW k \in DOMAIN loops
      PROVE  ControlOk(tables', loops[k], control'[k], program.fresh)
  <2>1. loops[k].kind = "for" => loops[k].table \in DOMAIN tables
    BY DEF Adjusted, Resolved, LoopOk
  <2>2. CASE k # todo
    <3>1. control'[k] = control[k]
      BY <1>1, <2>2 DEF Adjusted
    <3>2. ControlOk(tables, loops[k], control[k], program.fresh)
      BY DEF Adjusted
    <3> QED BY <1>3, <2>1, <3>1, <3>2, ControlKept
  <2>3. CASE k = todo
    <3>1. control'[k] = ReturnVarrefIgnoreValid(tables, loops[k].table, loops[k].name)
      BY <1>1, <2>3 DEF Adjusted
    <3>2. LoopOk(tables, loops[k], program.fresh) /\ AreTables(tables) /\ Chains(tables)
      BY <1>1, <2>3 DEF Adjusted, Resolved, Shape
    <3>3. program.fresh => LoopOk(tables, loops[k], TRUE)
      BY <3>2 DEF LoopOk
    <3>4. program.fresh =>
            LET r == ReturnVarrefIgnoreValid(tables, loops[k].table, loops[k].name)
            IN  /\ Denotes(tables, loops[k].table, r) = <<loops[k].table, loops[k].idx>>
                /\ r.n = 0 /\ r.l = loops[k].idx /\ r.reftype = "local"
      BY <3>2, <3>3, OwnLoopFound
    <3>5. program.fresh =>
            /\ Denotes(tables, loops[k].table, control'[k]) = <<loops[k].table, loops[k].idx>>
            /\ control'[k].n = 0 /\ control'[k].l = loops[k].idx
            /\ control'[k].reftype = "local"
      BY <3>1, <3>4
    <3>6. ControlOk(tables, loops[k], control'[k], program.fresh)
      BY <1>1, <2>3, <3>5 DEF ControlOk
    <3> QED BY <1>3, <2>1, <3>6, ControlKept
  <2> QED BY <2>2, <2>3
<1>8. inits' = {} /\ InitialisersKeepTheirVariable'
  BY <1>1 DEF Adjusted, InitialisersKeepTheirVariable
<1>9. \A k \in DOMAIN uses : Accepted(uses[k])
  BY <1>1 DEF Adjusted
<1> QED BY <1>1, <1>2, <1>4, <1>5, <1>6, <1>7, <1>8, <1>9 DEF Adjusted

(* WhileToDoWhile copies the names of a condition.                         *)
LEMMA WDWwhileStep ==
  ASSUME Adjusted, WDWwhile
  PROVE  Adjusted' /\ pass' # "rso"
<1>1. /\ pass = "wdw"
      /\ refs' = [k \in DOMAIN uses |-> IF In(uses[k], todo, {"cond"})
                                        THEN refs[k] \cup {Fixed(uses[k])} ELSE refs[k]]
      /\ UNCHANGED <<program, tables, loops, uses, pass, control, inits>>
  BY DEF WDWwhile, rsoVars
<1>2. ASSUME NEW k \in DOMAIN uses, NEW ref \in refs'[k]
      PROVE  CopyOk(tables, uses[k], ref, program.fresh)
  <2>1. CASE ref \in refs[k]
    BY <2>1 DEF Adjusted
  <2>2. CASE ref = Fixed(uses[k]) /\ In(uses[k], todo, {"cond"})
    BY <2>2, FixedCopy DEF Adjusted
  <2> QED BY <1>1, <1>2, <2>1, <2>2
<1>3. Resolved' /\ InitialisersKeepTheirVariable'
  BY <1>1 DEF Adjusted, Resolved, InitialisersKeepTheirVariable
<1>4. DOMAIN refs' = DOMAIN uses
  BY <1>1
<1> QED BY <1>1, <1>2, <1>3, <1>4 DEF Adjusted

(* No entry of the same name stands before that of a definition.           *)
LEMMA DSStep ==
  ASSUME Adjusted, DS
  PROVE  Adjusted' /\ pass' # "rso"
<1>1. /\ pass = "ds" /\ pass' = "afl"
      /\ inits' = {[entry |-> d, ref |-> ReturnVarrefIgnoreValid(tables, d[1], EntryAt(d).name)] :
                     d \in Definitions}
      /\ UNCHANGED <<program, tables, loops, uses, refs, control>>
  BY DEF DS, rsoVars
<1>2. ASSUME NEW d \in Definitions
      PROVE  Denotes(tables, d[1], ReturnVarrefIgnoreValid(tables, d[1], EntryAt(d).name)) = d
  <2>1. PICK t \in DOMAIN tables :
          d \in {<<t, i - 1>> : i \in {j \in DOMAIN tables[t].vars : tables[t].vars[j].kind = "var"}}
    BY DEF Definitions
  <2>2. PICK i \in DOMAIN tables[t].vars : d = <<t, i - 1>> /\ tables[t].vars[i].kind = "var"
    BY <2>1
  <2>3. Shape(tables) /\ Len(tables[t].vars) \in Nat
        /\ DOMAIN tables[t].vars = 1 .. Len(tables[t].vars)
    BY TablesTyped DEF Adjusted, Resolved, Shape
  <2>4. d[1] = t /\ d[2] + 1 = i /\ EntryAt(d).name = tables[t].vars[i].name
    BY <2>2, <2>3 DEF EntryAt
  <2>5. Denotes(tables, t, ReturnVarrefIgnoreValid(tables, t, tables[t].vars[i].name)) = <<t, i - 1>>
    BY <2>2, <2>3, DefinitionFound
  <2> QED BY <2>2, <2>4, <2>5
<1>3. InitialisersKeepTheirVariable'
  <2> SUFFICES ASSUME NEW init \in inits'
               PROVE  Denotes(tables, init.entry[1], init.ref) = init.entry
    BY <1>1 DEF InitialisersKeepTheirVariable
  <2>1. PICK d \in Definitions :
          init = [entry |-> d, ref |-> ReturnVarrefIgnoreValid(tables, d[1], EntryAt(d).name)]
    BY <1>1
  <2>2. init.entry = d /\ init.ref = ReturnVarrefIgnoreValid(tables, d[1], EntryAt(d).name)
    BY <2>1
  <2> QED BY <2>2, <1>2
<1>4. Resolved'
  BY <1>1 DEF Adjusted, Resolved
<1> QED BY <1>1, <1>3, <1>4 DEF Adjusted

(* The inductive invariant, from the start and through every step.         *)
LEMMA NamesInit == AdjInit => Names
<1> SUFFICES ASSUME AdjInit PROVE Names
  OBVIOUS
<1>1. Init /\ pass = "rso" /\ refs = <<>> /\ control = <<>> /\ inits = {}
  BY DEF AdjInit
<1> QED BY <1>1, WalkInit DEF Names

LEMMA NamesStep == Names /\ [AdjNext]_vars => Names'
<1> SUFFICES ASSUME Names, [AdjNext]_vars PROVE Names'
  OBVIOUS
<1>1. CASE RSO
  <2>1. pass = "rso" /\ RSONext /\ UNCHANGED <<pass, refs, control, inits>>
    BY <1>1 DEF RSO, adjVars
  <2>2. Walk /\ refs = <<>> /\ control = <<>> /\ inits = {}
    BY <2>1 DEF Names
  <2>3. Walk'
    BY <2>1, <2>2, WalkStep
  <2> QED BY <2>1, <2>2, <2>3 DEF Names
<1>2. CASE TYC
  <2>1. Walk /\ inits = {}
    BY <1>2 DEF Names, TYC
  <2> QED BY <2>1, <1>2, TYCStep DEF Names
<1>3. ASSUME pass # "rso"
      PROVE  Adjusted
  BY <1>3 DEF Names
<1>4. CASE FTWfor
  <2>1. Adjusted
    BY <1>3, <1>4 DEF FTWfor
  <2> QED BY <2>1, <1>4, FTWforStep DEF Names
<1>5. CASE WDWwhile
  <2>1. Adjusted
    BY <1>3, <1>5 DEF WDWwhile
  <2> QED BY <2>1, <1>5, WDWwhileStep DEF Names
<1>6. CASE OtherLoop \/ LoopsDone \/ AFL
  <2>1. /\ pass \notin {"rso", "tyc"}
        /\ pass' \notin {"rso", "ftw"} \/ pass' = pass
        /\ UNCHANGED <<program, tables, loops, uses, refs, control, inits>>
    BY <1>6 DEF OtherLoop, LoopsDone, AFL, rsoVars
  <2>2. Adjusted /\ pass # "rso"
    BY <2>1, <1>3
  <2>3. Resolved' /\ InitialisersKeepTheirVariable'
    BY <2>1, <2>2 DEF Adjusted, Resolved, InitialisersKeepTheirVariable
  <2>4. Adjusted'
    BY <2>1, <2>2, <2>3 DEF Adjusted
  <2> QED BY <2>1, <2>4 DEF Names
<1>7. CASE DS
  <2>1. Adjusted
    BY <1>3, <1>7 DEF DS
  <2> QED BY <2>1, <1>7, DSStep DEF Names
<1>8. CASE UNCHANGED vars
  <2>1. UNCHANGED <<program, tables, cur, stage, loops, open, uses, pass, refs, control, inits>>
    BY <1>8 DEF vars, rsoVars, adjVars
  <2>2. pass = "rso" => Walk'
    BY <2>1 DEF Names, Walk
  <2>3. pass # "rso" => Adjusted'
    <3>1. ASSUME pass # "rso" PROVE Adjusted'
      <4>1. Adjusted
        BY <3>1, <1>3
      <4>2. Resolved' /\ InitialisersKeepTheirVariable'
        BY <2>1, <4>1 DEF Adjusted, Resolved, InitialisersKeepTheirVariable
      <4> QED BY <2>1, <4>1, <4>2 DEF Adjusted
    <3> QED BY <3>1
  <2> QED BY <2>1, <2>2, <2>3 DEF Names
<1> QED BY <1>1, <1>2, <1>4, <1>5, <1>6, <1>7, <1>8 DEF AdjNext

LEMMA NamesAlways == Spec => []Names
<1>1. AdjInit => Names
  BY NamesInit
<1>2. Names /\ [AdjNext]_vars => Names'
  BY NamesStep
<1> QED BY <1>1, <1>2, PTL DEF Spec

-----------------------------------------------------------------------------
(* What the invariant says of the copies, and of fresh names.              *)
LEMMA CopiesFollow == Names => CopiesErrTowardsLoops
<1> SUFFICES ASSUME Names PROVE CopiesErrTowardsLoops
  OBVIOUS
<1>1. CASE pass = "rso"
  BY <1>1 DEF Names, CopiesErrTowardsLoops, InitialisersKeepTheirVariable
<1>2. CASE pass # "rso"
  <2>1. Adjusted
    BY <1>2 DEF Names
  <2>2. ASSUME NEW k \in DOMAIN refs, NEW ref \in refs[k],
               Denotes(tables, uses[k].table, ref) # Target(uses[k])
        PROVE  EntryAt(Denotes(tables, uses[k].table, ref)).kind = "loop"
    <3>1. CopyOk(tables, uses[k], ref, program.fresh)
      BY <2>1 DEF Adjusted
    <3> QED BY <2>2, <3>1 DEF CopyOk, Target, EntryAt
  <2> QED BY <2>1, <2>2 DEF Adjusted, CopiesErrTowardsLoops
<1> QED BY <1>1, <1>2

(* A written name denotes no loop variable, since TYC has seen that it is  *)
(* not read only; the counter denotes one.                                 *)
LEMMA CounterUntouched ==
  ASSUME Adjusted, program.fresh, NEW k \in DOMAIN uses, NEW j \in DOMAIN control,
         uses[k].write, control[j] # None, NEW ref \in refs[k]
  PROVE  Denotes(tables, uses[k].table, ref) # Denotes(tables, loops[j].table, control[j])
<1> DEFINE u == uses[k]
           loop == loops[j]
<1>1. j \in DOMAIN loops /\ ControlOk(tables, loop, control[j], program.fresh)
  BY DEF Adjusted
<1>2. loop.kind = "for" /\ Denotes(tables, loop.table, control[j]) = <<loop.table, loop.idx>>
  BY <1>1 DEF ControlOk
<1>3. tables[loop.table].vars[loop.idx + 1].kind = "loop"
  BY <1>1, <1>2 DEF Adjusted, Resolved, LoopOk
<1>4. CopyOk(tables, u, ref, program.fresh) /\ Refers(tables, u)
  BY DEF Adjusted, Resolved, UseOk
<1>5. Denotes(tables, u.table, ref) = <<HomeOf(tables, u), u.ref.l>>
  BY <1>4 DEF CopyOk, Denotes, HomeOf
<1>6. Accepted(u)
  BY <1>1 DEF Adjusted
<1>7. tables[HomeOf(tables, u)].vars[u.ref.l + 1].kind # "loop"
  BY <1>4, <1>6 DEF Accepted, Refers
<1> HIDE DEF u, loop
<1>8. HomeOf(tables, u) # loop.table \/ u.ref.l # loop.idx
  BY <1>3, <1>7
<1>9. <<HomeOf(tables, u), u.ref.l>> # <<loop.table, loop.idx>>
  BY <1>8
<1> QED BY <1>2, <1>5, <1>9 DEF u, loop

LEMMA FreshFollows == Names => FreshNamesKeepTheirMeaning
<1> SUFFICES ASSUME Names, program.fresh
             PROVE  CopiesDenoteTheSame /\ LoopVariablesAreTheirOwn /\ CountersAreNotAssigned
  BY DEF FreshNamesKeepTheirMeaning
<1>1. CASE pass = "rso"
  BY <1>1 DEF Names, CopiesDenoteTheSame, LoopVariablesAreTheirOwn, CountersAreNotAssigned
<1>2. CASE pass # "rso"
  <2>1. Adjusted
    BY <1>2 DEF Names
  <2>2. CopiesDenoteTheSame
    <3> SUFFICES ASSUME NEW k \in DOMAIN refs, NEW ref \in refs[k]
                 PROVE  Denotes(tables, uses[k].table, ref) = Target(uses[k])
      BY DEF CopiesDenoteTheSame
    <3>1. CopyOk(tables, uses[k], ref, program.fresh)
      BY <2>1 DEF Adjusted
    <3> QED BY <3>1 DEF CopyOk, Target
  <2>3. LoopVariablesAreTheirOwn
    BY <2>1 DEF Adjusted, ControlOk, LoopVariablesAreTheirOwn
  <2>4. CountersAreNotAssigned
    BY <2>1, CounterUntouched DEF CountersAreNotAssigned
  <2> QED BY <2>2, <2>3, <2>4
<1> QED BY <1>1, <1>2

-----------------------------------------------------------------------------
(* A parameter, a dimension or a definition has the slot of its index:     *)
(* all names before it are different, and none is its own.                 *)
LEMMA SlotIsIndex ==
  ASSUME Shape(tables), NEW t \in DOMAIN tables, NEW l \in Nat,
         l + 1 \in DOMAIN tables[t].vars, tables[t].vars[l + 1].kind # "loop"
  PROVE  SlotIndex(tables[t], l) = l
<1> DEFINE vs == tables[t].vars
           name == vs[l + 1].name
           S == {vs[i].name : i \in 1 .. l}
<1>1. AreTables(tables) /\ DOMAIN vs = 1 .. Len(vs) /\ Len(vs) \in Nat
  BY TablesTyped DEF Shape
<1>2. \A i, j \in 1 .. l + 1 : vs[i].name = vs[j].name => i = j
  BY NamesBefore
<1> HIDE DEF vs, name
<1>3. First(tables[t], l) = l
  <2>1. /\ Named(tables[t], name) \in SUBSET Nat /\ l \in Named(tables[t], name)
        /\ \A k \in Named(tables[t], name) : k + 1 \in DOMAIN vs /\ vs[k + 1].name = name
    BY <1>1, NamedIndices DEF vs, name
  <2>2. /\ Least(Named(tables[t], name)) \in Named(tables[t], name)
        /\ Least(Named(tables[t], name)) <= l
    BY <2>1, LeastIsLeast
  <2>3. ASSUME NEW k \in Named(tables[t], name), k <= l
        PROVE  k = l
    <3>1. k \in Nat /\ vs[k + 1].name = vs[l + 1].name
      BY <2>1 DEF name
    <3>2. k + 1 \in 1 .. l + 1 /\ l + 1 \in 1 .. l + 1
      BY <2>3, <3>1
    <3>3. k + 1 = l + 1
      BY <1>2, <3>1, <3>2
    <3> QED BY <3>1, <3>3
  <2>4. Least(Named(tables[t], name)) = l
    BY <2>2, <2>3
  <2> QED BY <2>4 DEF First, name, vs
<1>4. Cardinality(S) = l
  <2> DEFINE f == [i \in 1 .. l |-> vs[i].name]
  <2>1. f \in [1 .. l -> S] /\ \A i \in 1 .. l : f[i] = vs[i].name
    OBVIOUS
  <2>2. \A i, j \in 1 .. l : f[i] = f[j] => i = j
    BY <1>2
  <2>3. \A s \in S : \E i \in 1 .. l : f[i] = s
    OBVIOUS
  <2> HIDE DEF f, S
  <2>4. f \in Bijection(1 .. l, S)
    BY <2>1, <2>2, <2>3 DEF Bijection, Injection, Surjection, IsInjective
  <2> QED BY <2>4, FS_CountingElements DEF ExistsBijection
<1> QED BY <1>3, <1>4 DEF SlotIndex, vs

(* A reference to a variable of the function itself is turned into its     *)
(* slot; one to a variable further out is left as it is.                   *)
LEMMA OwnSlot ==
  ASSUME Shape(tables), NEW t \in DOMAIN tables, NEW ref, Local(ref), ref.n \in Nat,
         LET d == Denotes(tables, t, ref)
         IN  ref.n > 0 => /\ d[1] \in DOMAIN tables /\ d[2] \in Nat
                          /\ d[2] + 1 \in DOMAIN Home(d).vars
                          /\ Home(d).vars[d[2] + 1].kind # "loop"
  PROVE  LET d == Denotes(tables, t, ref)
         IN  ResolveIdx(t, ref) = SlotIndex(Home(d), d[2])
<1> DEFINE d == Denotes(tables, t, ref)
<1>1. d[1] = tables[t].chain[ref.n + 1] /\ d[2] = ref.l
  BY DEF Denotes
<1>2. CASE ref.n = 0
  <2>1. tables[t].chain[1] = t
    BY ChainFacts DEF Shape
  <2>2. tables[t].chain[ref.n + 1] = t
    BY <1>2, <2>1
  <2>3. Home(d) = tables[t]
    BY <1>1, <2>2 DEF Home
  <2> HIDE DEF d
  <2> QED BY <1>1, <1>2, <2>3 DEF ResolveIdx, Local, d
<1>3. CASE ref.n > 0
  <2>1. ResolveIdx(t, ref) = ref.l
    BY <1>3 DEF ResolveIdx
  <2>2. /\ d[1] \in DOMAIN tables /\ d[2] \in Nat /\ d[2] + 1 \in DOMAIN tables[d[1]].vars
        /\ tables[d[1]].vars[d[2] + 1].kind # "loop"
    BY <1>3 DEF Home
  <2> HIDE DEF d
  <2>3. SlotIndex(tables[d[1]], d[2]) = d[2]
    BY <2>2, SlotIsIndex
  <2> QED BY <1>1, <2>1, <2>3 DEF Home, d
<1> QED BY <1>2, <1>3

LEMMA OriginalSlots == Resolved => OriginalAddressesAreSlots
<1> SUFFICES ASSUME Resolved, NEW k \in DOMAIN uses, Local(uses[k].ref)
             PROVE  LET d == Target(uses[k])
                    IN  ResolveIdx(uses[k].table, uses[k].ref) = SlotIndex(Home(d), d[2])
  BY DEF OriginalAddressesAreSlots
<1> DEFINE u == uses[k]
<1>1. Shape(tables) /\ Refers(tables, u)
  BY DEF Resolved, UseOk
<1>2. Chains(tables) /\ u.table \in DOMAIN tables
  BY <1>1 DEF Shape, Refers
<1>3. HomeOf(tables, u) \in DOMAIN tables
  BY <1>1, <1>2, ChainFacts DEF Shape, Refers, HomeOf
<1>4. Target(u) = <<HomeOf(tables, u), u.ref.l>>
  BY DEF Target, Denotes, HomeOf
<1> HIDE DEF u
<1>5. LET d == Denotes(tables, u.table, u.ref)
      IN  u.ref.n > 0 => /\ d[1] \in DOMAIN tables /\ d[2] \in Nat
                         /\ d[2] + 1 \in DOMAIN Home(d).vars
                         /\ Home(d).vars[d[2] + 1].kind # "loop"
  BY <1>1, <1>3, <1>4 DEF Refers, Home, Target
<1>6. u.ref.n \in Nat /\ Local(u.ref)
  BY <1>1 DEF Refers, u
<1> QED BY <1>1, <1>2, <1>5, <1>6, OwnSlot DEF Target, u

LEMMA CopiedSlots == Adjusted /\ program.fresh => CopiedAddressesAreSlots
<1> SUFFICES ASSUME Adjusted, program.fresh PROVE CopiedAddressesAreSlots
  OBVIOUS
<1>1. ASSUME NEW k \in DOMAIN refs, NEW ref \in refs[k], Local(ref)
      PROVE  LET d == Denotes(tables, uses[k].table, ref)
             IN  ResolveIdx(uses[k].table, ref) = SlotIndex(Home(d), d[2])
  <2> DEFINE u == uses[k]
             d == Denotes(tables, u.table, ref)
  <2>1. /\ Shape(tables) /\ Refers(tables, u) /\ u.table \in DOMAIN tables
        /\ CopyOk(tables, u, ref, program.fresh)
    BY <1>1 DEF Adjusted, Resolved, UseOk, Refers
  <2>2. d = <<HomeOf(tables, u), u.ref.l>> /\ ref.n \in Nat
        /\ ref.n + 1 \in DOMAIN tables[u.table].chain
    BY <2>1 DEF CopyOk, Denotes, HomeOf
  <2>3. /\ HomeOf(tables, u) = tables[u.table].chain[ref.n + 1]
        /\ HomeOf(tables, u) \in DOMAIN tables
        /\ HomeOf(tables, u) = u.table <=> ref.n = 0
    <3>1. HomeOf(tables, u) = tables[u.table].chain[ref.n + 1]
      BY <2>2 DEF Denotes
    <3>2. \A m \in DOMAIN tables[u.table].chain :
            /\ tables[u.table].chain[m] \in DOMAIN tables
            /\ tables[u.table].chain[m] = u.table <=> m = 1
      BY <2>1, ChainFacts DEF Shape
    <3>3. /\ tables[u.table].chain[ref.n + 1] \in DOMAIN tables
          /\ tables[u.table].chain[ref.n + 1] = u.table <=> ref.n + 1 = 1
      BY <2>2, <3>2
    <3> QED BY <2>2, <3>1, <3>3
  <2>4. ref.n > 0 => u.ref.n > 0
    <3>1. ASSUME u.ref.n = 0 PROVE ref.n = 0
      <4>1. tables[u.table].chain[1] = u.table
        BY <2>1, ChainFacts DEF Shape
      <4>2. HomeOf(tables, u) = tables[u.table].chain[1]
        BY <3>1 DEF HomeOf
      <4> QED BY <2>3, <4>1, <4>2
    <3>2. u.ref.n \in Nat
      BY <2>1 DEF Refers
    <3> QED BY <2>2, <3>1, <3>2
  <2>5. ref.n > 0 => /\ d[1] \in DOMAIN tables /\ d[2] \in Nat
                     /\ d[2] + 1 \in DOMAIN Home(d).vars
                     /\ Home(d).vars[d[2] + 1].kind # "loop"
    <3> HIDE DEF u, d
    <3> QED BY <2>1, <2>2, <2>3, <2>4 DEF Refers, Home
  <2> HIDE DEF u
  <2> QED BY <1>1, <2>1, <2>2, <2>5, OwnSlot DEF u
<1>2. ASSUME NEW j \in DOMAIN control, control[j] # None
      PROVE  ResolveIdx(loops[j].table, control[j]) = SlotIndex(tables[loops[j].table], loops[j].idx)
  <2>1. ControlOk(tables, loops[j], control[j], program.fresh)
    BY DEF Adjusted
  <2>2. control[j].n = 0 /\ control[j].l = loops[j].idx /\ control[j].reftype = "local"
    BY <1>2, <2>1 DEF ControlOk
  <2> QED BY <2>2 DEF ResolveIdx
<1> QED BY <1>1, <1>2 DEF CopiedAddressesAreSlots

LEMMA DimensionSlots == Resolved => DimensionSlotsFollow
<1> SUFFICES ASSUME Resolved, NEW t \in DOMAIN tables, NEW i \in DOMAIN tables[t].vars,
                    NEW d \in 1 .. tables[t].vars[i].dim
             PROVE  SlotIndex(tables[t], i - 1 + d) = SlotIndex(tables[t], i - 1) + d
  BY DEF DimensionSlotsFollow
<1>1. Shape(tables) /\ DimsFollow(tables)
  BY DEF Resolved, Shape
<1>2. /\ i + d \in DOMAIN tables[t].vars
      /\ tables[t].vars[i].kind # "loop" /\ tables[t].vars[i + d].kind # "loop"
  BY <1>1 DEF DimsFollow
<1>3. i \in Nat /\ i > 0 /\ tables[t].vars[i].dim \in Nat
  BY <1>1, TablesTyped DEF Shape
<1>4. /\ i - 1 \in Nat /\ (i - 1) + 1 = i /\ d \in Nat
      /\ i - 1 + d \in Nat /\ (i - 1 + d) + 1 = i + d
  BY <1>3
<1>5. SlotIndex(tables[t], i - 1) = i - 1
  BY <1>1, <1>2, <1>4, SlotIsIndex
<1>6. SlotIndex(tables[t], i - 1 + d) = i - 1 + d
  BY <1>1, <1>2, <1>4, SlotIsIndex
<1> QED BY <1>4, <1>5, <1>6

LEMMA AddressesFollow == Names => AddressesAreSlots
<1> SUFFICES ASSUME Names PROVE AddressesAreSlots
  OBVIOUS
<1>1. Resolved
  BY WalkResolves DEF Names, Adjusted
<1>2. program.fresh => CopiedAddressesAreSlots
  <2>1. CASE pass = "rso"
    BY <2>1 DEF Names, CopiedAddressesAreSlots
  <2>2. CASE pass # "rso"
    BY <2>2, CopiedSlots DEF Names
  <2> QED BY <2>1, <2>2
<1> QED BY <1>1, <1>2, OriginalSlots, DimensionSlots DEF AddressesAreSlots

-----------------------------------------------------------------------------
(* Arrays.  Loop variables and dimensions are scalars, and an entry whose  *)
(* name is none of the program's is a dimension of the definition before   *)
(* it, with the name RSO generates for it.                                 *)
EntryOk(vs, names, i) ==
  /\ vs[i].kind = "loop" => vs[i].dim = 0
  /\ \A d \in 1 .. vs[i].dim : vs[i + d].dim = 0
  /\ \/ vs[i].name \in names
     \/ \E j \in DOMAIN vs : \E d \in 1 .. vs[j].dim :
          i = j + d /\ vs[i].name = <<vs[j].name, d - 1>>
DimsNamed(vs, names) == \A i \in DOMAIN vs : EntryOk(vs, names, i)
ArraysOk(ts, names) == \A t \in DOMAIN ts : DimsNamed(ts[t].vars, names)

(* A reference carries the number of dimensions of what it denotes.        *)
DimKnown(ts, u) == /\ u.init \in BOOLEAN
                   /\ u.ref.dim = ts[HomeOf(ts, u)].vars[u.ref.l + 1].dim

Arrays ==
  /\ ArraysOk(tables, program.names)
  /\ \A k \in DOMAIN uses : DimKnown(tables, uses[k])
  /\ flat = IF pass = "done"
            THEN {AFLvar(uses[k]) : k \in {j \in DOMAIN uses : uses[j].indices > 1}} ELSE {}

(* Flags may change, and empty tables be added.                            *)
LEMMA ArraysKept ==
  ASSUME NEW ts, Shape(ts), NEW us, Keeps(ts, us), NEW names, ArraysOk(ts, names),
         \A t \in DOMAIN us : IF t \in DOMAIN ts THEN DOMAIN us[t].vars = DOMAIN ts[t].vars
                              ELSE DOMAIN us[t].vars = {}
  PROVE  ArraysOk(us, names)
<1> SUFFICES ASSUME NEW t \in DOMAIN ts, DOMAIN us[t].vars = DOMAIN ts[t].vars
             PROVE  DimsNamed(us[t].vars, names)
  BY DEF ArraysOk, DimsNamed
<1>1. PICK vs, ws : vs = ts[t].vars /\ ws = us[t].vars
  OBVIOUS
<1>2. /\ DOMAIN ws = DOMAIN vs /\ DimsNamed(vs, names)
      /\ \A i \in DOMAIN vs : /\ ws[i].name = vs[i].name /\ ws[i].kind = vs[i].kind
                              /\ ws[i].dim = vs[i].dim
                              /\ \A d \in 1 .. vs[i].dim : i + d \in DOMAIN vs
  BY <1>1 DEF ArraysOk, Keeps, Shape, DimsFollow
<1>3. DimsNamed(ws, names)
  BY <1>2 DEF DimsNamed, EntryOk
<1> QED BY <1>1, <1>3

(* A block of entries is added behind.                                     *)
LEMMA BlockAdded ==
  ASSUME NEW names, NEW vs, NEW s, NEW ws, NEW n \in Nat, NEW m \in Nat,
         DOMAIN vs = 1 .. n, DOMAIN s = 1 .. m, DOMAIN ws = 1 .. n + m,
         \A i \in 1 .. n : ws[i] = vs[i], \A i \in 1 .. m : ws[n + i] = s[i],
         \A i \in 1 .. n : vs[i].dim \in Nat /\ \A d \in 1 .. vs[i].dim : i + d \in 1 .. n,
         \A i \in 1 .. m : s[i].dim \in Nat /\ \A d \in 1 .. s[i].dim : i + d \in 1 .. m,
         DimsNamed(vs, names), DimsNamed(s, names)
  PROVE  DimsNamed(ws, names)
<1> SUFFICES ASSUME NEW i \in 1 .. n + m PROVE EntryOk(ws, names, i)
  BY DEF DimsNamed
<1>1. CASE i \in 1 .. n
  <2>1. EntryOk(vs, names, i) /\ ws[i] = vs[i]
    BY <1>1 DEF DimsNamed
  <2>2. \A d \in 1 .. vs[i].dim : ws[i + d].dim = 0
    BY <1>1, <2>1 DEF EntryOk
  <2>3. ASSUME NEW j \in 1 .. n, NEW d \in 1 .. vs[j].dim,
               i = j + d, vs[i].name = <<vs[j].name, d - 1>>
        PROVE  \E h \in DOMAIN ws : \E e \in 1 .. ws[h].dim :
                 i = h + e /\ ws[i].name = <<ws[h].name, e - 1>>
    <3>1. j \in DOMAIN ws /\ ws[j] = vs[j]
      OBVIOUS
    <3> QED BY <2>1, <2>3, <3>1
  <2> QED BY <2>1, <2>2, <2>3 DEF EntryOk
<1>2. CASE i \notin 1 .. n
  <2>1. PICK k \in 1 .. m : i = n + k
    <3>1. i - n \in 1 .. m /\ i = n + (i - n)
      BY <1>2
    <3> QED BY <3>1
  <2>2. EntryOk(s, names, k) /\ ws[i] = s[k]
    BY <2>1 DEF DimsNamed
  <2>3. \A d \in 1 .. s[k].dim : ws[i + d].dim = 0
    <3> TAKE d \in 1 .. s[k].dim
    <3>1. k + d \in 1 .. m /\ i + d = n + (k + d)
      BY <2>1
    <3>2. s[k + d].dim = 0
      BY <2>2 DEF EntryOk
    <3>3. ws[n + (k + d)] = s[k + d]
      BY <3>1
    <3> QED BY <3>1, <3>2, <3>3
  <2>4. ASSUME NEW j \in 1 .. m, NEW d \in 1 .. s[j].dim,
               k = j + d, s[k].name = <<s[j].name, d - 1>>
        PROVE  \E h \in DOMAIN ws : \E e \in 1 .. ws[h].dim :
                 i = h + e /\ ws[i].name = <<ws[h].name, e - 1>>
    <3>1. n + j \in DOMAIN ws /\ ws[n + j] = s[j]
      OBVIOUS
    <3>2. i = (n + j) + d
      BY <2>1, <2>4
    <3> QED BY <2>2, <2>4, <3>1, <3>2
  <2> QED BY <2>2, <2>3, <2>4 DEF EntryOk
<1> QED BY <1>1, <1>2

LEMMA RowNamed ==
  ASSUME NEW names, NEW var, NEW d \in Nat, var.dim = d, var.kind # "loop", var.name \in names,
         NEW row, row = [i \in 1 .. d |-> row[i]],
         \A i \in 1 .. d : /\ row[i].dim = 0
                           /\ row[i].name \in names \/ row[i].name = <<var.name, i - 1>>
  PROVE  DimsNamed(<<var>> \o row, names)
<1> DEFINE S == {var} \cup {row[i] : i \in 1 .. d}
           s == <<var>> \o row
<1>1. \A i \in 1 .. d : row[i] \in S
  OBVIOUS
<1>2. var \in S
  OBVIOUS
<1> HIDE DEF S
<1>3. row \in Seq(S) /\ Len(row) = d
  BY <1>1, FunctionIsSeq
<1>4. <<var>> \in Seq(S) /\ Len(<<var>>) = 1 /\ <<var>>[1] = var
  BY <1>2
<1>5. /\ s \in Seq(S) /\ Len(s) = 1 + d
      /\ \A i \in 1 .. 1 + d : s[i] = IF i <= 1 THEN <<var>>[i] ELSE row[i - 1]
  BY <1>3, <1>4, ConcatProperties
<1> HIDE DEF s
<1>6. DOMAIN s = 1 .. 1 + d /\ s[1] = var
  <2>1. DOMAIN s = 1 .. Len(s)
    BY <1>5
  <2>2. s[1] = <<var>>[1]
    <3>1. 1 \in 1 .. 1 + d /\ 1 <= 1
      OBVIOUS
    <3>2. s[1] = IF 1 <= 1 THEN <<var>>[1] ELSE row[1 - 1]
      BY <3>1, <1>5
    <3> QED BY <3>1, <3>2
  <2> QED BY <1>4, <1>5, <2>1, <2>2
<1>7. \A i \in 1 .. d : s[1 + i] = row[i]
  <2> SUFFICES ASSUME NEW i \in 1 .. d PROVE s[1 + i] = row[i]
    OBVIOUS
  <2>1. 1 + i \in 1 .. 1 + d /\ ~(1 + i <= 1) /\ (1 + i) - 1 = i
    OBVIOUS
  <2> QED BY <2>1, <1>5
<1>8. EntryOk(s, names, 1)
  <2>1. \A k \in 1 .. d : s[1 + k].dim = 0
    BY <1>7
  <2> QED BY <2>1, <1>6 DEF EntryOk
<1>9. ASSUME NEW i \in 1 .. d PROVE EntryOk(s, names, 1 + i)
  <2>1. PICK x : x = s[1 + i] /\ x = row[i]
    BY <1>7
  <2>2. x.dim = 0
    BY <2>1
  <2>3. x.name \in names \/ \E j \in DOMAIN s : \E e \in 1 .. s[j].dim :
          1 + i = j + e /\ x.name = <<s[j].name, e - 1>>
    <3>1. x.name \in names \/ x.name = <<var.name, i - 1>>
      BY <2>1
    <3>2. 1 \in DOMAIN s /\ i \in 1 .. s[1].dim
      BY <1>6
    <3> QED BY <3>1, <3>2, <1>6
  <2> QED BY <2>1, <2>2, <2>3 DEF EntryOk
<1>10. \A i \in DOMAIN s : i = 1 \/ \E k \in 1 .. d : i = 1 + k
  <2> SUFFICES ASSUME NEW i \in DOMAIN s, i # 1 PROVE \E k \in 1 .. d : i = 1 + k
    OBVIOUS
  <2>1. i - 1 \in 1 .. d /\ i = 1 + (i - 1)
    BY <1>6
  <2> QED BY <2>1
<1>11. DimsNamed(s, names)
  BY <1>8, <1>9, <1>10 DEF DimsNamed
<1> QED BY <1>11 DEF s

LEMMA IdsNamed ==
  ASSUME program \in Programs, NEW name \in program.names, NEW kind \in {"param", "extern"},
         NEW ids \in program.dimIds \cup {<<>>}
  PROVE  DimsNamed(WithIds(name, kind, ids), program.names)
<1>1. ids \in Seq(program.names)
  <2>1. program.dimIds \subseteq Seq(program.names)
    BY ResolveAssumption
  <2>2. <<>> \in Seq(program.names)
    OBVIOUS
  <2> QED BY <2>1, <2>2
<1>2. Len(ids) \in Nat /\ DOMAIN ids = 1 .. Len(ids) /\ \A i \in DOMAIN ids : ids[i] \in program.names
  BY <1>1, ElementOfSeq
<1> DEFINE var == NewVar(name, kind, Len(ids))
           sub == IF kind = "param" THEN "dim" ELSE kind
           row == [i \in DOMAIN ids |-> NewVar(ids[i], sub, 0)]
<1>3. var.dim = Len(ids) /\ var.kind # "loop" /\ var.name \in program.names
  BY DEF NewVar
<1>4. row = [i \in 1 .. Len(ids) |-> row[i]]
  BY <1>2
<1>5. \A i \in 1 .. Len(ids) : row[i].dim = 0 /\ row[i].name \in program.names
  <2> TAKE i \in 1 .. Len(ids)
  <2>1. row[i] = NewVar(ids[i], sub, 0)
    BY <1>2
  <2> HIDE DEF row, sub
  <2> QED BY <2>1, <1>2 DEF NewVar
<1> HIDE DEF var, row
<1>6. DimsNamed(<<var>> \o row, program.names)
  BY <1>2, <1>3, <1>4, <1>5, RowNamed
<1> QED BY <1>6 DEF WithIds, var, row, sub

LEMMA GeneratedNamed ==
  ASSUME NEW names, NEW name \in names, NEW d \in Nat
  PROVE  DimsNamed(WithDims(name, d), names)
<1> DEFINE var == NewVar(name, "var", d)
           row == [i \in 1 .. d |-> NewVar(<<name, i - 1>>, "dim", 0)]
<1>1. var.dim = d /\ var.kind # "loop" /\ var.name = name
  BY DEF NewVar
<1>2. row = [i \in 1 .. d |-> row[i]]
  OBVIOUS
<1>3. \A i \in 1 .. d : row[i].dim = 0 /\ row[i].name = <<name, i - 1>>
  <2> TAKE i \in 1 .. d
  <2>1. row[i] = NewVar(<<name, i - 1>>, "dim", 0)
    OBVIOUS
  <2> HIDE DEF row
  <2> QED BY <2>1 DEF NewVar
<1> HIDE DEF var, row
<1>4. DimsNamed(<<var>> \o row, names)
  BY <1>1, <1>2, <1>3, RowNamed
<1> QED BY <1>4 DEF WithDims, var, row


LEMMA AddedArrays ==
  ASSUME NEW ts, Shape(ts), NEW us, NEW t \in DOMAIN ts, NEW s, Added(ts, us, t, s),
         NEW names, ArraysOk(ts, names), DimsNamed(s, names),
         Len(s) \in Nat, DOMAIN s = 1 .. Len(s),
         \A i \in DOMAIN s : s[i].dim \in Nat /\ \A d \in 1 .. s[i].dim : i + d \in DOMAIN s
  PROVE  ArraysOk(us, names)
<1> SUFFICES ASSUME NEW k \in DOMAIN ts PROVE DimsNamed(us[k].vars, names)
  BY DEF ArraysOk, Added
<1>1. CASE k # t
  BY <1>1 DEF ArraysOk, Added
<1>2. CASE k = t
  <2>1. PICK vs, ws, n, m : vs = ts[t].vars /\ ws = us[t].vars /\ n = Len(ts[t].vars) /\ m = Len(s)
    OBVIOUS
  <2>2. /\ n \in Nat /\ m \in Nat /\ DOMAIN ws = 1 .. n + m /\ DOMAIN s = 1 .. m
        /\ \A i \in 1 .. n : ws[i] = vs[i]
        /\ \A i \in 1 .. m : ws[n + i] = s[i]
    BY <2>1 DEF Added
  <2>3. /\ DOMAIN vs = 1 .. n
        /\ \A i \in 1 .. n : vs[i].dim \in Nat
    BY <2>1, TablesTyped DEF Shape
  <2>4. \A i \in 1 .. n : \A d \in 1 .. vs[i].dim : i + d \in 1 .. n
    BY <2>1, <2>3 DEF Shape, DimsFollow
  <2>5. DimsNamed(vs, names)
    BY <2>1 DEF ArraysOk
  <2>6. DimsNamed(ws, names)
    BY <2>2, <2>3, <2>4, <2>5, BlockAdded
  <2> QED BY <1>2, <2>1, <2>6
<1> QED BY <1>1, <1>2

LEMMA DeclaredArrays ==
  ASSUME Walk, ArraysOk(tables, program.names), NEW s, Declares(s), DimsNamed(s, program.names),
         DeclareAll(s)
  PROVE  ArraysOk(tables', program.names) /\ Keeps(tables, tables')
<1>1. Shape(tables) /\ AreTables(tables) /\ cur \in DOMAIN tables
  BY StageNow DEF Walk, Shape
<1>2. CASE tables' = tables
  BY <1>2 DEF Keeps
<1>3. CASE tables' = Grown(tables, cur, s)
  <2>1. PICK N : s \in Seq(Entry(N))
    BY DEF Declares
  <2>2. Added(tables, tables', cur, s)
    BY <1>1, <1>3, <2>1, EntriesAdded
  <2>3. /\ Len(s) \in Nat /\ DOMAIN s = 1 .. Len(s)
        /\ \A i \in DOMAIN s : s[i] \in Entry(N)
    BY <2>1, ElementOfSeq
  <2>4. \A i \in DOMAIN s : s[i].dim \in Nat /\ \A d \in 1 .. s[i].dim : i + d \in DOMAIN s
    BY <2>3 DEF Declares, Entry
  <2>5. ArraysOk(tables', program.names)
    BY <1>1, <2>2, <2>3, <2>4, AddedArrays
  <2> QED BY <2>2, <2>5 DEF Added
<1> QED BY <1>2, <1>3 DEF DeclareAll, Grown

(* The dimensions of a use are those of the entry found, for good.         *)
UsesDims(ts, us) == \A k \in DOMAIN us : DimKnown(ts, us[k])

LEMMA UsesDimsStay ==
  ASSUME NEW ts, Shape(ts), NEW us, Keeps(ts, us),
         NEW vs, \A k \in DOMAIN vs : Refers(ts, vs[k]), UsesDims(ts, vs)
  PROVE  UsesDims(us, vs)
<1> SUFFICES ASSUME NEW k \in DOMAIN vs PROVE DimKnown(us, vs[k])
  BY DEF UsesDims
<1>1. PICK u : u = vs[k]
  OBVIOUS
<1>2. Refers(ts, u) /\ DimKnown(ts, u)
  BY <1>1 DEF UsesDims
<1>3. HomeOf(us, u) = HomeOf(ts, u) /\ HomeOf(ts, u) \in DOMAIN ts
  BY <1>2, RefersKept
<1>4. us[HomeOf(ts, u)].vars[u.ref.l + 1].dim = ts[HomeOf(ts, u)].vars[u.ref.l + 1].dim
  BY <1>2, <1>3 DEF Keeps, Refers
<1> QED BY <1>1, <1>2, <1>3, <1>4 DEF DimKnown

LEMMA UsesDimsGrow ==
  ASSUME NEW ts, NEW vs, IsSeq(vs), UsesDims(ts, vs), NEW u, DimKnown(ts, u)
  PROVE  UsesDims(ts, Append(vs, u))
<1>1. PICK ws : ws = Append(vs, u)
  OBVIOUS
<1>2. /\ DOMAIN vs = 1 .. Len(vs) /\ Len(vs) \in Nat /\ DOMAIN ws = 1 .. Len(vs) + 1
      /\ ws[Len(vs) + 1] = u /\ \A i \in DOMAIN vs : ws[i] = vs[i]
  BY <1>1, SeqGrows
<1>3. \A k \in DOMAIN ws : k \in DOMAIN vs \/ k = Len(vs) + 1
  BY <1>2
<1>4. UsesDims(ts, ws)
  BY <1>2, <1>3 DEF UsesDims
<1> QED BY <1>1, <1>4

LEMMA DimFound ==
  ASSUME Walk, NEW u, u.table = cur, u.ref = ReturnVarref(tables, cur, u.name), u.ref # None,
         u.init \in BOOLEAN
  PROVE  DimKnown(tables, u)
<1>1. AreTables(tables) /\ Chains(tables) /\ cur \in DOMAIN tables
  BY StageNow DEF Walk, Shape
<1>2. PICK name, x : name = u.name /\ x = ReturnVarref(tables, cur, name)
  OBVIOUS
<1>3. x = u.ref /\ x # None
  BY <1>2
<1>4. x.dim = tables[tables[cur].chain[x.n + 1]].vars[x.l + 1].dim
  <2>1. PICK ts, t : ts = tables /\ t = cur
    OBVIOUS
  <2>2. AreTables(ts) /\ Chains(ts) /\ t \in DOMAIN ts /\ x = ReturnVarref(ts, t, name)
    BY <1>1, <1>2, <2>1
  <2>3. x.dim = ts[ts[t].chain[x.n + 1]].vars[x.l + 1].dim
    BY <1>3, <2>2, FoundValid
  <2> QED BY <2>1, <2>3
<1> QED BY <1>3, <1>4 DEF DimKnown, HomeOf


LEMMA LoopVarNamed ==
  ASSUME NEW names, NEW name \in names
  PROVE  /\ <<LoopVar(name)>> \in Seq(Entry({name})) /\ LoopVar(name).dim = 0
         /\ DimsNamed(<<LoopVar(name)>>, names)
<1>1. PICK x : x = NewVar(name, "loop", 0)
  OBVIOUS
<1>2. x \in Entry({name}) /\ x.name = name /\ x.dim = 0
  <2>1. "loop" \in Kinds
    BY DEF Kinds
  <2> QED BY <1>1, <2>1 DEF NewVar, Entry
<1>3. PICK var : var = LoopVar(name)
  OBVIOUS
<1>4. var = [x EXCEPT !.readonly = TRUE]
  BY <1>1, <1>3 DEF LoopVar
<1>5. var.name = name /\ var.dim = 0 /\ var \in Entry({name})
  BY <1>2, <1>4 DEF Entry
<1>6. <<var>> \in Seq(Entry({name})) /\ DOMAIN <<var>> = {1} /\ <<var>>[1] = var
  <2> HIDE DEF Entry
  <2> QED BY <1>5
<1>7. EntryOk(<<var>>, names, 1)
  BY <1>5, <1>6 DEF EntryOk
<1> QED BY <1>3, <1>5, <1>6, <1>7 DEF DimsNamed

LEMMA LoopArrays ==
  ASSUME Walk, program' = program, RSOforEnter, ArraysOk(tables, program.names)
  PROVE  ArraysOk(tables', program.names) /\ Keeps(tables, tables')
<1>1. PICK name \in program.names : tables' = Grown(tables, cur, <<LoopVar(name)>>)
  BY ForEnterStep
<1>2. PICK s, var : s = <<var>> /\ var = LoopVar(name)
  OBVIOUS
<1>3. Shape(tables) /\ AreTables(tables) /\ cur \in DOMAIN tables
  BY StageNow DEF Walk, Shape
<1>4. s \in Seq(Entry({name})) /\ var.dim = 0 /\ DimsNamed(s, program.names)
  BY <1>2, LoopVarNamed
<1>5. Added(tables, tables', cur, s)
  BY <1>1, <1>2, <1>3, <1>4, EntriesAdded
<1>6. Len(s) = 1 /\ DOMAIN s = 1 .. 1 /\ s[1] = var
  BY <1>2
<1>7. \A i \in DOMAIN s : s[i].dim \in Nat /\ \A d \in 1 .. s[i].dim : i + d \in DOMAIN s
  <2>1. \A i \in DOMAIN s : s[i].dim = 0
    BY <1>4, <1>6
  <2> QED BY <2>1
<1>8. Len(s) \in Nat /\ DOMAIN s = 1 .. Len(s)
  BY <1>6
<1>9. ArraysOk(tables', program.names)
  BY <1>3, <1>4, <1>5, <1>7, <1>8, AddedArrays
<1> QED BY <1>5, <1>9 DEF Added

(* The steps of the traversal.                                             *)
LEMMA VardefArrays ==
  ASSUME Walk, RSOvardef, ArraysOk(tables, program.names), UsesDims(tables, uses)
  PROVE  ArraysOk(tables', program.names) /\ UsesDims(tables', uses')
<1>1. PICK name \in program.names, d \in program.dims, read \in InitReads :
        IF \E i \in DOMAIN read : read[i].ref = None
        THEN phase' = "aborted" /\ UNCHANGED <<tables, uses>>
        ELSE DeclareAll(WithDims(name, d)) /\ uses' = uses \o read
  BY DEF RSOvardef
<1>2. CASE \E i \in DOMAIN read : read[i].ref = None
  BY <1>1, <1>2
<1>3. CASE ~\E i \in DOMAIN read : read[i].ref = None
  <2>1. DeclareAll(WithDims(name, d)) /\ uses' = uses \o read
    BY <1>1, <1>3
  <2>2. d \in Nat
    BY ResolveAssumption DEF Walk
  <2>3. ArraysOk(tables', program.names) /\ Keeps(tables, tables')
    BY <2>1, <2>2, DimsDeclare, GeneratedNamed, DeclaredArrays
  <2>4. /\ UsesOk(tables, stage, uses, program.fresh) /\ IsSeq(uses) /\ Shape(tables)
        /\ \A k \in DOMAIN uses : Refers(tables, uses[k])
    BY DEF Walk, UsesOk, UseOk
  <2>5. /\ UsesDims(tables, uses')
        /\ \A k \in DOMAIN uses' : Refers(tables, uses'[k])
    <3>1. CASE uses' = uses
      BY <3>1, <2>4
    <3>2. ASSUME NEW u, u.table = cur, u.ref = ReturnVarref(tables, cur, u.name),
                 u.ref # None, u.init = TRUE, u.place = <<>>, uses' = Append(uses, u)
          PROVE  /\ UsesDims(tables, uses')
                 /\ \A k \in DOMAIN uses' : Refers(tables, uses'[k])
      <4>1. UsesDims(tables, Append(uses, u))
        BY <3>2, <2>4, DimFound, UsesDimsGrow
      <4>2. UsesOk(tables, stage, Append(uses, u), program.fresh)
        BY <3>2, InitReadAdded
      <4>3. UsesOk(tables, stage, uses', program.fresh)
        BY <3>2, <4>2
      <4> QED BY <3>2, <4>1, <4>3 DEF UsesOk, UseOk
    <3> QED BY <1>3, <2>1, <3>1, <3>2, ReadOrNot
  <2> QED BY <2>3, <2>4, <2>5, UsesDimsStay
<1> QED BY <1>2, <1>3


LEMMA RSOArrays ==
  ASSUME Walk, RSONext, ArraysOk(tables, program.names), UsesDims(tables, uses)
  PROVE  ArraysOk(tables', program.names) /\ UsesDims(tables', uses')
<1>1. /\ program' = program /\ Shape(tables) /\ IsSeq(uses) /\ cur \in DOMAIN tables
      /\ \A k \in DOMAIN uses : Refers(tables, uses[k])
  BY StageNow DEF Walk, RSONext, UsesOk, UseOk
<1>2. CASE UNCHANGED <<tables, uses>>
  BY <1>2
<1>3. ASSUME UNCHANGED uses, Keeps(tables, tables'), ArraysOk(tables', program.names)
      PROVE  ArraysOk(tables', program.names) /\ UsesDims(tables', uses')
  BY <1>1, <1>3, UsesDimsStay
<1>4. CASE RSOfundefEnter
  <2>1. UNCHANGED uses /\ tables' = Append(tables, NewTable(Len(tables) + 1, tables[cur].chain))
    BY <1>4 DEF RSOfundefEnter
  <2>2. PICK n : n = Len(tables) + 1
    OBVIOUS
  <2>3. /\ Keeps(tables, tables') /\ DOMAIN tables' = 1 .. n /\ DOMAIN tables = 1 .. n - 1
        /\ n \in Nat /\ \A k \in DOMAIN tables : tables'[k] = tables[k]
        /\ tables'[n].vars = <<>>
    BY <1>1, <2>1, <2>2, TableOpened DEF Shape
  <2>4. \A t \in DOMAIN tables' : IF t \in DOMAIN tables
                                  THEN DOMAIN tables'[t].vars = DOMAIN tables[t].vars
                                  ELSE DOMAIN tables'[t].vars = {}
    <3>1. DOMAIN <<>> = {}
      OBVIOUS
    <3>2. \A t \in DOMAIN tables' : t \in DOMAIN tables \/ t = n
      BY <2>3
    <3> QED BY <2>3, <3>1, <3>2
  <2>5. ArraysOk(tables', program.names)
    BY <1>1, <2>3, <2>4, ArraysKept
  <2> QED BY <1>3, <2>1, <2>3, <2>5
<1>5. CASE RSOparam
  <2>1. PICK name \in program.names, ids \in program.dimIds \cup {<<>>} :
          DeclareAll(WithIds(name, "param", ids))
    BY <1>5 DEF RSOparam
  <2>2. /\ Declares(WithIds(name, "param", ids))
        /\ DimsNamed(WithIds(name, "param", ids), program.names)
    BY IdsDeclare, IdsNamed DEF Walk
  <2>3. UNCHANGED uses
    BY <1>5 DEF RSOparam
  <2> QED BY <1>3, <2>1, <2>2, <2>3, DeclaredArrays
<1>6. CASE RSOglobaldec
  <2>1. PICK name \in program.names, ids \in program.dimIds \cup {<<>>} :
          DeclareAll(WithIds(name, "extern", ids))
    BY <1>6 DEF RSOglobaldec
  <2>2. /\ Declares(WithIds(name, "extern", ids))
        /\ DimsNamed(WithIds(name, "extern", ids), program.names)
    BY IdsDeclare, IdsNamed DEF Walk
  <2>3. UNCHANGED uses
    BY <1>6 DEF RSOglobaldec
  <2> QED BY <1>3, <2>1, <2>2, <2>3, DeclaredArrays
<1>7. CASE RSOvardef
  BY <1>7, VardefArrays
<1>8. CASE RSOforEnter
  <2>1. UNCHANGED uses
    BY <1>8 DEF RSOforEnter
  <2> QED BY <1>1, <1>3, <1>8, <2>1, LoopArrays
<1>9. CASE RSOforExit
  <2>1. UNCHANGED uses
    BY <1>9 DEF RSOforExit
  <2>2. /\ Keeps(tables, tables') /\ DOMAIN tables' = DOMAIN tables
        /\ \A t \in DOMAIN tables : DOMAIN tables'[t].vars = DOMAIN tables[t].vars
    BY <1>1, <1>9, ForExitStep
  <2>3. ArraysOk(tables', program.names)
    BY <1>1, <2>2, ArraysKept
  <2> QED BY <1>3, <2>1, <2>2, <2>3
<1>10. CASE RSOvar
  <2>1. PICK name, indices, write :
          LET use == Use(name, FALSE, open, write, indices)
          IN  IF use.ref = None THEN uses' = uses ELSE uses' = Append(uses, use)
    BY <1>10 DEF RSOvar, Use
  <2>2. UNCHANGED tables
    BY <1>10 DEF RSOvar
  <2>3. PICK u : u = Use(name, FALSE, open, write, indices)
    OBVIOUS
  <2>4. u.table = cur /\ u.ref = ReturnVarref(tables, cur, u.name) /\ u.init = FALSE
    BY <2>3 DEF Use
  <2>5. CASE uses' = uses
    BY <2>2, <2>5
  <2>6. CASE uses' = Append(uses, u) /\ u.ref # None
    <3>1. UsesDims(tables, Append(uses, u))
      BY <1>1, <2>4, <2>6, DimFound, UsesDimsGrow
    <3> QED BY <2>2, <2>6, <3>1
  <2> QED BY <2>1, <2>3, <2>5, <2>6
<1>11. RSOfundefExit \/ RSOfundec \/ NextChild \/ WhileEnter \/ WhileExit \/ RSOprogram
       => UNCHANGED <<tables, uses>>
  BY DEF RSOfundefExit, RSOfundec, NextChild, WhileEnter, WhileExit, RSOprogram
<1> QED BY <1>2, <1>4, <1>5, <1>6, <1>7, <1>8, <1>9, <1>10, <1>11 DEF RSONext

LEMMA ArraysInit == AdjInit => Arrays
<1> SUFFICES ASSUME AdjInit PROVE Arrays
  OBVIOUS
<1>1. tables = <<NewTable(1, <<>>)>> /\ uses = <<>> /\ flat = {} /\ pass = "rso"
  BY DEF AdjInit, Init
<1>2. DOMAIN tables = {1} /\ tables[1].vars = <<>>
  BY <1>1 DEF NewTable
<1> QED BY <1>1, <1>2 DEF Arrays, ArraysOk, DimsNamed

LEMMA ArraysStep == Names /\ Arrays /\ [AdjNext]_vars => Arrays'
<1> SUFFICES ASSUME Names, Arrays, [AdjNext]_vars PROVE Arrays'
  OBVIOUS
<1>1. Resolved /\ Shape(tables) /\ \A k \in DOMAIN uses : Refers(tables, uses[k])
  BY WalkResolves DEF Names, Adjusted, Resolved, UseOk
<1>2. ArraysOk(tables, program.names) /\ UsesDims(tables, uses)
  BY DEF Arrays, UsesDims
<1>3. CASE RSO
  <2>1. Walk /\ RSONext /\ UNCHANGED <<pass, flat>> /\ pass = "rso"
    BY <1>3 DEF RSO, adjVars, Names
  <2>2. program' = program
    BY <2>1 DEF RSONext
  <2> QED BY <1>2, <2>1, <2>2, RSOArrays DEF Arrays, UsesDims
<1>4. CASE FTWfor
  <2>1. /\ todo \in DOMAIN loops /\ loops[todo].kind = "for" /\ pass = "ftw"
        /\ EnsureVardef(loops[todo].table, loops[todo].name)
        /\ UNCHANGED <<program, uses, pass, flat>>
    BY <1>4 DEF FTWfor
  <2>2. /\ Keeps(tables, tables') /\ DOMAIN tables' = DOMAIN tables
        /\ \A t \in DOMAIN tables : DOMAIN tables'[t].vars = DOMAIN tables[t].vars
    BY <1>1, <2>1, EnsureKeeps
  <2>3. ArraysOk(tables', program.names)
    BY <1>1, <1>2, <2>2, ArraysKept
  <2>4. UsesDims(tables', uses)
    BY <1>1, <1>2, <2>2, UsesDimsStay
  <2> QED BY <2>1, <2>3, <2>4 DEF Arrays, UsesDims
<1>5. CASE AFL
  <2>1. /\ pass' = "done" /\ UNCHANGED <<program, tables, uses>>
        /\ flat' = {AFLvar(uses[k]) : k \in {j \in DOMAIN uses : uses[j].indices > 1}}
    BY <1>5 DEF AFL, rsoVars
  <2>2. \A u : AFLvar(u)' = AFLvar(u)
    BY <2>1 DEF AFLvar, DimName
  <2> QED BY <1>2, <2>1, <2>2 DEF Arrays, UsesDims
<1>6. CASE UNCHANGED vars
  <2>1. UNCHANGED <<program, tables, uses, pass, flat>>
    BY <1>6 DEF vars, rsoVars, adjVars
  <2>2. \A u : AFLvar(u)' = AFLvar(u)
    BY <2>1 DEF AFLvar, DimName
  <2> QED BY <1>2, <2>1, <2>2 DEF Arrays, UsesDims
<1>7. CASE TYC \/ WDWwhile \/ OtherLoop \/ LoopsDone \/ DS
  <2>1. /\ UNCHANGED <<program, tables, uses, flat>> /\ pass # "done" /\ pass' # "done"
    BY <1>7 DEF TYC, WDWwhile, OtherLoop, LoopsDone, DS, rsoVars
  <2> QED BY <1>2, <2>1 DEF Arrays, UsesDims
<1> QED BY <1>3, <1>4, <1>5, <1>6, <1>7 DEF AdjNext


(* What AFLvar finds: the first array of the name along the chain, n       *)
(* tables up at index l.                                                   *)
IsFirstArray(ts, c, name, n, l) ==
  /\ n \in Nat /\ l \in Nat /\ n + 1 \in DOMAIN c /\ l + 1 \in DOMAIN ts[c[n + 1]].vars
  /\ ts[c[n + 1]].vars[l + 1].name = name /\ ts[c[n + 1]].vars[l + 1].dim > 0
  /\ \A m \in DOMAIN c : \A i \in DOMAIN ts[c[m]].vars :
       ts[c[m]].vars[i].name = name /\ ts[c[m]].vars[i].dim > 0
         => n + 1 < m \/ (m = n + 1 /\ l + 1 <= i)

LEMMA ArrayFound ==
  ASSUME NEW ts, AreTables(ts), Chains(ts), NEW t \in DOMAIN ts, NEW name,
         NEW m0 \in DOMAIN ts[t].chain, NEW i0 \in DOMAIN ts[ts[t].chain[m0]].vars,
         ts[ts[t].chain[m0]].vars[i0].name = name, ts[ts[t].chain[m0]].vars[i0].dim > 0
  PROVE  LET c == ts[t].chain
             n == Least({m \in 0 .. Len(c) - 1 : ArraysNamed(ts[c[m + 1]], name) # {}})
         IN  IsFirstArray(ts, c, name, n, Least(ArraysNamed(ts[c[n + 1]], name)))
<1> DEFINE c == ts[t].chain
           H == {m \in 0 .. Len(c) - 1 : ArraysNamed(ts[c[m + 1]], name) # {}}
           n == Least(H)
           V == ArraysNamed(ts[c[n + 1]], name)
           l == Least(V)
<1>1. Len(c) \in Nat /\ DOMAIN c = 1 .. Len(c) /\ \A m \in DOMAIN c : c[m] \in DOMAIN ts
  BY ChainFacts
<1>2. m0 \in DOMAIN c /\ i0 \in DOMAIN ts[c[m0]].vars /\ ts[c[m0]].vars[i0].name = name
      /\ ts[c[m0]].vars[i0].dim > 0
  OBVIOUS
<1>3. \A k : k \in H <=> k \in 0 .. Len(c) - 1 /\ ArraysNamed(ts[c[k + 1]], name) # {}
  OBVIOUS
<1> HIDE DEF c, H, n, V
<1>4. ASSUME NEW k \in DOMAIN ts
      PROVE  /\ ArraysNamed(ts[k], name) \in SUBSET Nat
             /\ \A j : j \in ArraysNamed(ts[k], name)
                         <=> /\ j \in Nat /\ j + 1 \in DOMAIN ts[k].vars
                             /\ ts[k].vars[j + 1].name = name /\ ts[k].vars[j + 1].dim > 0
  BY NamedIndices DEF ArraysNamed
<1>5. ASSUME NEW m \in DOMAIN c, NEW i \in DOMAIN ts[c[m]].vars,
             ts[c[m]].vars[i].name = name, ts[c[m]].vars[i].dim > 0
      PROVE  m - 1 \in H /\ i - 1 \in ArraysNamed(ts[c[m]], name) /\ m \in Nat /\ i \in Nat
  <2>1. c[m] \in DOMAIN ts /\ Len(ts[c[m]].vars) \in Nat
        /\ DOMAIN ts[c[m]].vars = 1 .. Len(ts[c[m]].vars)
    BY <1>1, TablesTyped
  <2>2. i - 1 \in Nat /\ (i - 1) + 1 = i
    BY <2>1
  <2>3. i - 1 \in ArraysNamed(ts[c[m]], name)
    BY <1>4, <1>5, <2>1, <2>2
  <2>4. m - 1 \in Nat /\ (m - 1) + 1 = m /\ m - 1 \in 0 .. Len(c) - 1
    BY <1>1
  <2>5. m - 1 \in H
    <3>1. ArraysNamed(ts[c[(m - 1) + 1]], name) # {}
      BY <2>3, <2>4
    <3> QED BY <2>4, <3>1, <1>3
  <2> QED BY <2>2, <2>3, <2>4, <2>5
<1>6. H \in SUBSET Nat /\ H # {}
  BY <1>1, <1>2, <1>3, <1>5
<1>7. n \in H /\ n \in Nat /\ \A k \in H : n <= k
  BY <1>6, LeastIsLeast DEF n
<1>8. n + 1 \in DOMAIN c /\ V # {}
  BY <1>1, <1>3, <1>7 DEF V
<1>9. V \in SUBSET Nat
  BY <1>1, <1>4, <1>8 DEF V
<1>10. l \in V /\ l \in Nat /\ \A k \in V : l <= k
  BY <1>8, <1>9, LeastIsLeast
<1> HIDE DEF l
<1>11. /\ l + 1 \in DOMAIN ts[c[n + 1]].vars /\ ts[c[n + 1]].vars[l + 1].name = name
       /\ ts[c[n + 1]].vars[l + 1].dim > 0
  BY <1>1, <1>4, <1>8, <1>10 DEF V
<1>12. ASSUME NEW m \in DOMAIN c, NEW i \in DOMAIN ts[c[m]].vars,
              ts[c[m]].vars[i].name = name, ts[c[m]].vars[i].dim > 0
       PROVE  n + 1 < m \/ (m = n + 1 /\ l + 1 <= i)
  <2>1. m - 1 \in H /\ i - 1 \in ArraysNamed(ts[c[m]], name) /\ m \in Nat /\ i \in Nat
    BY <1>5, <1>12
  <2>2. n <= m - 1
    BY <2>1, <1>7
  <2>3. CASE m = n + 1
    <3>1. i - 1 \in V
      BY <2>1, <2>3 DEF V
    <3> QED BY <3>1, <1>10, <2>1, <2>3
  <2> QED BY <2>1, <2>2, <2>3, <1>7
<1>13. IsFirstArray(ts, c, name, n, l)
  BY <1>7, <1>8, <1>10, <1>11, <1>12 DEF IsFirstArray
<1> QED BY <1>13 DEF c, H, n, V, l


(* An array used with all its indices, as TYC demands.                     *)
LEMMA IndexedArray ==
  ASSUME Names, Arrays, pass = "done", NEW k \in DOMAIN uses, uses[k].indices > 1
  PROVE  LET u == uses[k]
             t == HomeOf(tables, u)
         IN  /\ Refers(tables, u) /\ u.init \in BOOLEAN
             /\ u.init = FALSE => LoopsAhead(tables, u, program.fresh)
             /\ t \in DOMAIN tables /\ u.table \in DOMAIN tables
             /\ tables[t].vars[u.ref.l + 1].dim = u.indices
             /\ u.indices \in Nat
<1>1. Adjusted /\ Resolved /\ Accepted(uses[k])
  BY DEF Names, Adjusted
<1>2. Shape(tables) /\ UseOk(tables, uses[k], program.fresh)
  BY <1>1 DEF Resolved
<1>3. DimKnown(tables, uses[k])
  BY DEF Arrays
<1>4. PICK u, t : u = uses[k] /\ t = HomeOf(tables, u)
  OBVIOUS
<1>5. /\ Refers(tables, u) /\ u.init \in BOOLEAN
      /\ u.init = FALSE => LoopsAhead(tables, u, program.fresh)
      /\ u.ref.dim = tables[t].vars[u.ref.l + 1].dim
  BY <1>2, <1>3, <1>4 DEF UseOk, DimKnown
<1>6. t \in DOMAIN tables /\ u.table \in DOMAIN tables /\ u.ref.l + 1 \in DOMAIN tables[t].vars
  <2>1. u.table \in DOMAIN tables /\ u.ref.n + 1 \in DOMAIN tables[u.table].chain
    BY <1>5 DEF Refers
  <2>2. \A m \in DOMAIN tables[u.table].chain : tables[u.table].chain[m] \in DOMAIN tables
    BY <2>1, <1>2, ChainFacts DEF Shape
  <2>3. t \in DOMAIN tables
    BY <2>1, <2>2, <1>4 DEF HomeOf
  <2> QED BY <2>1, <2>3, <1>4, <1>5 DEF Refers
<1>7. u.ref.dim \in Nat
  BY <1>2, <1>5, <1>6, TablesTyped DEF Shape
<1>8. u.indices = u.ref.dim
  <2>1. u.write \/ u.indices # 0 => u.indices = u.ref.dim
    BY <1>1, <1>4 DEF Accepted
  <2>2. u.indices > 1
    BY <1>4
  <2>3. u.indices # 0
    BY <2>2
  <2> QED BY <2>1, <2>3
<1> QED BY <1>4, <1>5, <1>6, <1>7, <1>8

LEMMA FlattenedFound ==
  ASSUME Names, Arrays, pass = "done", NEW k \in DOMAIN uses, uses[k].indices > 1
  PROVE  LET u == uses[k]
             c == tables[u.table].chain
             f == AFLvar(u)
         IN  \E n, l : /\ IsFirstArray(tables, c, u.name, n, l)
                       /\ f.use = u /\ f.array = <<c[n + 1], l>>
                       /\ DOMAIN f.dims = 1 .. u.indices - 1
                       /\ \A d \in DOMAIN f.dims :
                            f.dims[d] = ReturnVarrefIgnoreValid(tables, u.table,
                                          DimName(tables[c[n + 1]], l, u.name, d))
<1> DEFINE u == uses[k]
           c == tables[u.table].chain
           n == Least({m \in 0 .. Len(c) - 1 : ArraysNamed(tables[c[m + 1]], u.name) # {}})
           l == Least(ArraysNamed(tables[c[n + 1]], u.name))
           f == AFLvar(u)
<1>1. /\ Refers(tables, u) /\ u.table \in DOMAIN tables
      /\ tables[HomeOf(tables, u)].vars[u.ref.l + 1].dim = u.indices /\ u.indices \in Nat
  BY IndexedArray
<1>2. AreTables(tables) /\ Chains(tables)
  BY WalkResolves DEF Names, Adjusted, Resolved, Shape
<1>3. f = [use |-> u, array |-> <<c[n + 1], l>>,
           dims |-> [d \in 1 .. u.indices - 1 |->
                       ReturnVarrefIgnoreValid(tables, u.table,
                                               DimName(tables[c[n + 1]], l, u.name, d))]]
  BY DEF AFLvar
<1>4. u.indices > 1
  OBVIOUS
<1> HIDE DEF f, u, n, l
<1>5. /\ u.ref.n + 1 \in DOMAIN c /\ u.ref.l + 1 \in DOMAIN tables[c[u.ref.n + 1]].vars
      /\ tables[c[u.ref.n + 1]].vars[u.ref.l + 1].name = u.name
      /\ tables[c[u.ref.n + 1]].vars[u.ref.l + 1].dim > 0
  <2>1. HomeOf(tables, u) = c[u.ref.n + 1]
    BY DEF HomeOf
  <2>2. tables[HomeOf(tables, u)].vars[u.ref.l + 1].dim > 0
    BY <1>1, <1>4
  <2> HIDE DEF c
  <2> QED BY <1>1, <2>1, <2>2 DEF Refers, c
<1>6. IsFirstArray(tables, c, u.name, n, l)
  BY <1>1, <1>2, <1>5, ArrayFound DEF n, l
<1> HIDE DEF c
<1>7. /\ f.use = u /\ f.array = <<c[n + 1], l>>
      /\ DOMAIN f.dims = 1 .. u.indices - 1
      /\ \A d \in DOMAIN f.dims :
           f.dims[d] = ReturnVarrefIgnoreValid(tables, u.table,
                         DimName(tables[c[n + 1]], l, u.name, d))
  BY <1>3
<1>8. \E a, b : /\ IsFirstArray(tables, c, u.name, a, b)
                /\ f.use = u /\ f.array = <<c[a + 1], b>>
                /\ DOMAIN f.dims = 1 .. u.indices - 1
                /\ \A d \in DOMAIN f.dims :
                     f.dims[d] = ReturnVarrefIgnoreValid(tables, u.table,
                                   DimName(tables[c[a + 1]], b, u.name, d))
  BY <1>6, <1>7
<1> QED BY <1>8 DEF u, c, f

\* Of two places of tables counted from 0, neither stands before the other.
LEMMA SamePlace ==
  ASSUME NEW n \in Nat, NEW l \in Nat, NEW a \in Nat, NEW b \in Nat,
         n + 1 < a + 1 \/ (a + 1 = n + 1 /\ l + 1 <= b + 1),
         ~(n + 1 < a + 1 \/ (n + 1 = a + 1 /\ l + 1 < b + 1))
  PROVE  n = a /\ l = b
OBVIOUS


(* In a statement the array found first is the one that is indexed: all    *)
(* that stands before it are variables of loops.                           *)
LEMMA IndexedIsFound ==
  ASSUME Names, Arrays, pass = "done", NEW k \in DOMAIN uses, uses[k].indices > 1,
         ~uses[k].init
  PROVE  AFLvar(uses[k]).array = Target(uses[k])
<1> DEFINE u == uses[k]
           c == tables[u.table].chain
<1>1. /\ Refers(tables, u) /\ LoopsAhead(tables, u, program.fresh) /\ u.table \in DOMAIN tables
      /\ tables[HomeOf(tables, u)].vars[u.ref.l + 1].dim = u.indices
      /\ u.indices > 1 /\ u.indices \in Nat
  BY IndexedArray
<1>2. PICK n, l : IsFirstArray(tables, c, u.name, n, l) /\ AFLvar(u).array = <<c[n + 1], l>>
  BY FlattenedFound
<1>3. /\ \A m \in DOMAIN c : c[m] \in DOMAIN tables
      /\ DOMAIN c = 1 .. Len(c) /\ Len(c) \in Nat
  BY <1>1, WalkResolves, ChainFacts DEF Names, Adjusted, Resolved, Shape
<1>4. \A t \in DOMAIN tables : \A i \in DOMAIN tables[t].vars :
        tables[t].vars[i].kind = "loop" => tables[t].vars[i].dim = 0
  BY DEF Arrays, ArraysOk, DimsNamed, EntryOk
<1>5. \A t \in DOMAIN tables : DOMAIN tables[t].vars = 1 .. Len(tables[t].vars)
                               /\ Len(tables[t].vars) \in Nat
  BY WalkResolves, TablesTyped DEF Names, Adjusted, Resolved, Shape
<1> HIDE DEF u
<1>6. /\ u.ref.n \in Nat /\ u.ref.l \in Nat
      /\ u.ref.n + 1 \in DOMAIN c /\ u.ref.l + 1 \in DOMAIN tables[c[u.ref.n + 1]].vars
      /\ tables[c[u.ref.n + 1]].vars[u.ref.l + 1].name = u.name
      /\ tables[c[u.ref.n + 1]].vars[u.ref.l + 1].dim > 0
  <2>1. HomeOf(tables, u) = c[u.ref.n + 1]
    BY DEF HomeOf
  <2>2. tables[HomeOf(tables, u)].vars[u.ref.l + 1].dim > 0
    BY <1>1
  <2> HIDE DEF c
  <2> QED BY <1>1, <2>1, <2>2 DEF Refers, c
<1>7. /\ n \in Nat /\ l \in Nat /\ n + 1 \in DOMAIN c /\ l + 1 \in DOMAIN tables[c[n + 1]].vars
      /\ tables[c[n + 1]].vars[l + 1].name = u.name
      /\ tables[c[n + 1]].vars[l + 1].dim > 0
      /\ n + 1 < u.ref.n + 1 \/ (u.ref.n + 1 = n + 1 /\ l + 1 <= u.ref.l + 1)
  BY <1>2, <1>6 DEF IsFirstArray
<1>8. tables[c[n + 1]].vars[l + 1].kind # "loop"
  <2>1. c[n + 1] \in DOMAIN tables
    BY <1>3, <1>7
  <2>2. tables[c[n + 1]].vars[l + 1].dim # 0
    BY <1>7
  <2> QED BY <1>4, <1>7, <2>1, <2>2
<1>9. ~(n + 1 < u.ref.n + 1 \/ (n + 1 = u.ref.n + 1 /\ l + 1 < u.ref.l + 1))
  BY <1>1, <1>7, <1>8 DEF LoopsAhead
<1>10. n = u.ref.n /\ l = u.ref.l
  <2>1. PICK a, b : a = u.ref.n /\ b = u.ref.l
    OBVIOUS
  <2>2. a \in Nat /\ b \in Nat /\ n \in Nat /\ l \in Nat
    BY <1>6, <1>7, <2>1
  <2>3. n + 1 < a + 1 \/ (a + 1 = n + 1 /\ l + 1 <= b + 1)
    BY <1>7, <2>1
  <2>4. ~(n + 1 < a + 1 \/ (n + 1 = a + 1 /\ l + 1 < b + 1))
    BY <1>9, <2>1
  <2>5. n = a /\ l = b
    BY <2>2, <2>3, <2>4, SamePlace
  <2> QED BY <2>1, <2>5
<1> QED BY <1>2, <1>10 DEF Target, Denotes, u


(* A dimension with a generated name has the name of its own array in it.  *)
LEMMA OneGenerator ==
  ASSUME NEW vs, NEW names, DimsNamed(vs, names), NEW n \in Nat, DOMAIN vs = 1 .. n,
         \A i \in 1 .. n : vs[i].dim \in Nat,
         NEW i \in 1 .. n, NEW d \in 1 .. vs[i].dim, i + d \in 1 .. n, vs[i + d].name \notin names
  PROVE  vs[i + d].name = <<vs[i].name, d - 1>>
<1>1. PICK j \in 1 .. n : \E e \in 1 .. vs[j].dim :
        i + d = j + e /\ vs[i + d].name = <<vs[j].name, e - 1>>
  <2>1. i + d \in DOMAIN vs
    OBVIOUS
  <2>2. EntryOk(vs, names, i + d)
    BY <2>1 DEF DimsNamed
  <2> QED BY <2>2 DEF EntryOk
<1>2. PICK e \in 1 .. vs[j].dim : i + d = j + e /\ vs[i + d].name = <<vs[j].name, e - 1>>
  BY <1>1
<1>3. /\ \A x \in 1 .. vs[i].dim : vs[i + x].dim = 0
      /\ \A x \in 1 .. vs[j].dim : vs[j + x].dim = 0
  BY DEF DimsNamed, EntryOk
<1>4. CASE j < i
  <2>1. i - j \in 1 .. vs[j].dim /\ j + (i - j) = i
    BY <1>2, <1>4
  <2>2. vs[i].dim = 0
    BY <1>3, <2>1
  <2> QED BY <2>2
<1>5. CASE i < j
  <2>1. j - i \in 1 .. vs[i].dim /\ i + (j - i) = j
    BY <1>2, <1>5
  <2>2. vs[j].dim = 0
    BY <1>3, <2>1
  <2> QED BY <1>2, <2>2
<1>6. CASE j = i
  <2>1. e = d
    BY <1>2, <1>6
  <2> QED BY <1>2, <1>6, <2>1
<1> QED BY <1>4, <1>5, <1>6

(* A dimension is looked up by its name: only an entry of a nearer scope   *)
(* comes before it, and only if the program gave it that name, as an array *)
(* with the same generated name would have been found in its place.        *)
LEMMA DimensionFound ==
  ASSUME Names, Arrays, pass = "done", NEW k \in DOMAIN uses, uses[k].indices > 1,
         AFLvar(uses[k]).array = Target(uses[k]), NEW d \in DOMAIN AFLvar(uses[k]).dims
  PROVE  LET f == AFLvar(uses[k])
             e == Denotes(tables, f.use.table, f.dims[d])
         IN  e # DimEntry(f, d) =>
               /\ EntryAt(DimEntry(f, d)).name \in program.names
               /\ Len(tables[e[1]].chain) > Len(tables[f.array[1]].chain)
<1> DEFINE u == uses[k]
           f == AFLvar(u)
           c == tables[u.table].chain
           t == HomeOf(tables, u)
           vs == tables[t].vars
           q == u.ref.l + 1 + (d + 1)
           name == vs[q].name
           r == ReturnVarrefIgnoreValid(tables, u.table, name)
<1>1. /\ Refers(tables, u) /\ t \in DOMAIN tables /\ u.table \in DOMAIN tables
      /\ vs[u.ref.l + 1].dim = u.indices /\ u.indices > 1 /\ u.indices \in Nat
  BY IndexedArray
<1>2. Shape(tables) /\ AreTables(tables) /\ Chains(tables)
  BY WalkResolves DEF Names, Adjusted, Resolved, Shape
<1>3. PICK n, l : /\ IsFirstArray(tables, c, u.name, n, l)
                  /\ f.use = u /\ f.array = <<c[n + 1], l>>
                  /\ DOMAIN f.dims = 1 .. u.indices - 1
                  /\ \A b \in DOMAIN f.dims :
                       f.dims[b] = ReturnVarrefIgnoreValid(tables, u.table,
                                     DimName(tables[c[n + 1]], l, u.name, b))
  BY FlattenedFound
<1>4. f.array = <<t, u.ref.l>>
  BY DEF Target, Denotes, HomeOf
<1>5. d \in 1 .. u.indices - 1
  BY <1>3
<1>6. /\ \A m \in DOMAIN c : c[m] \in DOMAIN tables
      /\ DOMAIN c = 1 .. Len(c) /\ Len(c) \in Nat
      /\ t = c[u.ref.n + 1]
      /\ \A m, p \in DOMAIN c : m < p => c[p] < c[m]
      /\ \A m \in DOMAIN c : Len(tables[c[m]].chain) = Len(c) - m + 1
  <2>1. ChainOk(tables, u.table, c)
    BY <1>1, <1>2 DEF Chains
  <2> QED BY <1>1, <1>2, <2>1, ChainFacts DEF HomeOf, ChainOk
<1>7. \A s \in DOMAIN tables : /\ DOMAIN tables[s].vars = 1 .. Len(tables[s].vars)
                               /\ Len(tables[s].vars) \in Nat
                               /\ \A i \in DOMAIN tables[s].vars : tables[s].vars[i].dim \in Nat
                               /\ DimsNamed(tables[s].vars, program.names)
  BY <1>2, TablesTyped DEF Arrays, ArraysOk
<1> HIDE DEF u, c, t, f
<1>8. u.ref.n \in Nat /\ u.ref.l \in Nat /\ u.ref.n + 1 \in DOMAIN c /\ u.ref.l + 1 \in DOMAIN vs
      /\ vs[u.ref.l + 1].name = u.name
  BY <1>1 DEF Refers, c, t
<1>9. d + 1 \in 1 .. u.indices /\ d \in Nat
  BY <1>1, <1>5
<1>10. q \in DOMAIN vs /\ vs[q].kind # "loop"
  BY <1>1, <1>2, <1>8, <1>9 DEF Shape, DimsFollow
<1>11. n = u.ref.n /\ l = u.ref.l /\ n + 1 \in DOMAIN c
  <2>1. c[n + 1] = c[u.ref.n + 1] /\ l = u.ref.l
    BY <1>3, <1>4, <1>6
  <2>2. n \in Nat /\ n + 1 \in DOMAIN c
    BY <1>3 DEF IsFirstArray
  <2>3. c[n + 1] \in Nat
    BY <1>2, <1>1, <2>2, TablesTyped DEF c
  <2>4. ~(n + 1 < u.ref.n + 1) /\ ~(u.ref.n + 1 < n + 1)
    BY <1>6, <1>8, <2>1, <2>2, <2>3, SMTT(20)
  <2> QED BY <1>8, <2>1, <2>2, <2>4
<1>12. f.dims[d] = r
  <2>1. Len(vs) \in Nat /\ q \in 1 .. Len(vs)
    BY <1>1, <1>7, <1>10
  <2>2. l \in Nat /\ l + 2 + d = q /\ l + 1 + d = q - 1
    BY <1>8, <1>9, <1>11
  <2>3. tables[c[n + 1]] = tables[t]
    BY <1>6, <1>11
  <2>4. DimName(tables[t], l, u.name, d) = name
    <3> DEFINE len == Len(vs)
    <3>1. len \in Nat /\ q \in 1 .. len
      BY <2>1
    <3> HIDE DEF len, q
    <3>2. l + 1 + d < len
      BY <2>2, <3>1
    <3> QED BY <2>2, <3>2 DEF DimName, len
  <2>5. d \in DOMAIN f.dims
    BY <1>3, <1>5
  <2>6. f.dims[d] = ReturnVarrefIgnoreValid(tables, u.table,
                                            DimName(tables[c[n + 1]], l, u.name, d))
    BY <1>3, <2>5
  <2> HIDE DEF name
  <2> QED BY <2>3, <2>4, <2>6
<1>13. IsFirst(tables, c, name, r)
  <2>1. tables[c[u.ref.n + 1]].vars = vs
    BY <1>6
  <2> HIDE DEF q, r, vs
  <2>2. /\ u.ref.n + 1 \in DOMAIN c /\ q \in DOMAIN tables[c[u.ref.n + 1]].vars
        /\ tables[c[u.ref.n + 1]].vars[q].name = name
    BY <1>8, <1>10, <2>1
  <2> HIDE DEF name
  <2> QED BY <1>1, <1>2, <2>2, FirstFound DEF c, r
<1> HIDE DEF r
<1>14. DimEntry(f, d) = <<t, q - 1>> /\ EntryAt(DimEntry(f, d)).name = name
  <2>1. DimEntry(f, d) = <<t, u.ref.l + 1 + d>>
    BY <1>4 DEF DimEntry, f
  <2>2. u.ref.l + 1 + d = q - 1 /\ (q - 1) + 1 = q
    BY <1>8, <1>9
  <2> HIDE DEF q
  <2> QED BY <2>1, <2>2 DEF EntryAt
<1>15. Denotes(tables, f.use.table, f.dims[d]) = <<c[r.n + 1], r.l>>
  BY <1>3, <1>12 DEF Denotes, f, c
<1> DEFINE Missed == <<c[r.n + 1], r.l>> # <<t, q - 1>>
           Nearer == Len(tables[c[r.n + 1]].chain) > Len(tables[t].chain)
<1> SUFFICES ASSUME Missed PROVE name \in program.names /\ Nearer
  <2> DEFINE e == Denotes(tables, f.use.table, f.dims[d])
  <2> SUFFICES e # DimEntry(f, d) =>
                 /\ EntryAt(DimEntry(f, d)).name \in program.names
                 /\ Len(tables[e[1]].chain) > Len(tables[f.array[1]].chain)
    BY DEF f, u
  <2>1. e = <<c[r.n + 1], r.l>> /\ f.array[1] = t
    BY <1>4, <1>15
  <2>2. e[1] = c[r.n + 1]
    BY <2>1
  <2> HIDE DEF e, name, q
  <2> QED BY <1>14, <2>1, <2>2
<1> HIDE DEF name
<1>16. /\ r.n \in Nat /\ r.l \in Nat /\ r.n + 1 \in DOMAIN c
       /\ r.l + 1 \in DOMAIN tables[c[r.n + 1]].vars
       /\ tables[c[r.n + 1]].vars[r.l + 1].name = name
       /\ r.n + 1 < u.ref.n + 1 \/ (u.ref.n + 1 = r.n + 1 /\ r.l + 1 <= q)
  <2>1. tables[c[u.ref.n + 1]].vars = vs
    BY <1>6
  <2> HIDE DEF q, vs
  <2> QED BY <1>8, <1>10, <1>13, <2>1 DEF IsFirst, name
<1>17. q \in Nat
  BY <1>8, <1>9
<1>18. r.n + 1 < u.ref.n + 1
  <2> SUFFICES ASSUME u.ref.n + 1 = r.n + 1, r.l + 1 <= q PROVE FALSE
    BY <1>16
  <2>1. c[r.n + 1] = t
    BY <1>6
  <2>2. r.l + 1 # q
    <3> SUFFICES ASSUME r.l + 1 = q PROVE FALSE
      OBVIOUS
    <3>1. r.l = q - 1
      BY <1>16, <1>17
    <3> QED BY <2>1, <3>1
  <2>3. r.l + 1 < q
    BY <1>16, <1>17, <2>2
  <2>4. r.l + 1 \in DOMAIN vs /\ vs[r.l + 1].name = vs[q].name
    BY <1>16, <2>1 DEF name
  <2> HIDE DEF q, vs
  <2>5. DeclaredOnce(tables)
    BY <1>2 DEF Shape
  <2> QED BY <1>1, <1>10, <2>3, <2>4, <2>5 DEF DeclaredOnce, vs
<1>19. Nearer
  <2>1. /\ Len(tables[c[r.n + 1]].chain) = Len(c) - (r.n + 1) + 1
        /\ Len(tables[t].chain) = Len(c) - (u.ref.n + 1) + 1
    BY <1>6, <1>8, <1>16
  <2> DEFINE a == Len(tables[c[r.n + 1]].chain)
             b == Len(tables[t].chain)
  <2>2. /\ Len(c) \in Nat /\ r.n \in Nat /\ u.ref.n \in Nat /\ r.n + 1 < u.ref.n + 1
        /\ a = Len(c) - (r.n + 1) + 1 /\ b = Len(c) - (u.ref.n + 1) + 1
    BY <1>6, <1>8, <1>16, <1>18, <2>1
  <2> HIDE DEF a, b
  <2>3. a > b
    BY <2>2
  <2> QED BY <2>3 DEF a, b
<1>20. ASSUME name \notin program.names PROVE FALSE
  <2>1. name = <<u.name, (d + 1) - 1>>
    <3> DEFINE len == Len(vs)
               i == u.ref.l + 1
    <3>1. /\ len \in Nat /\ DOMAIN vs = 1 .. len /\ DimsNamed(vs, program.names)
          /\ \A j \in 1 .. len : vs[j].dim \in Nat
      BY <1>1, <1>7
    <3>2. i \in 1 .. len /\ d + 1 \in 1 .. vs[i].dim /\ i + (d + 1) \in 1 .. len
      BY <1>1, <1>8, <1>9, <1>10, <3>1
    <3>3. vs[i + (d + 1)].name \notin program.names
      BY <1>20 DEF name
    <3>4. vs[i].name = u.name
      BY <1>8
    <3> HIDE DEF vs, len, i
    <3>5. vs[i + (d + 1)].name = <<vs[i].name, (d + 1) - 1>>
      BY <3>1, <3>2, <3>3, OneGenerator
    <3> QED BY <3>4, <3>5 DEF name, i
  <2>2. c[r.n + 1] \in DOMAIN tables
    BY <1>6, <1>16
  <2>3. PICK j \in DOMAIN tables[c[r.n + 1]].vars :
          \E e \in 1 .. tables[c[r.n + 1]].vars[j].dim :
            name = <<tables[c[r.n + 1]].vars[j].name, e - 1>>
    <3>1. EntryOk(tables[c[r.n + 1]].vars, program.names, r.l + 1)
      BY <1>7, <1>16, <2>2 DEF DimsNamed
    <3> QED BY <1>16, <1>20, <3>1 DEF EntryOk
  <2>4. tables[c[r.n + 1]].vars[j].name = u.name
    BY <2>1, <2>3
  <2>5. tables[c[r.n + 1]].vars[j].dim > 0
    BY <1>7, <2>2, <2>3
  <2>6. n + 1 < r.n + 1 \/ r.n + 1 = n + 1
    BY <1>3, <1>16, <2>4, <2>5 DEF IsFirstArray
  <2> QED BY <1>8, <1>11, <1>16, <1>18, <2>6
<1> QED BY <1>19, <1>20

LEMMA ArraysFollow == Names /\ Arrays => ArraysAreFlattened
<1> SUFFICES ASSUME Names, Arrays, NEW g \in flat
             PROVE  /\ ~g.use.init => g.array = Target(g.use)
                    /\ g.array = Target(g.use) =>
                         \A d \in DOMAIN g.dims :
                           LET e == Denotes(tables, g.use.table, g.dims[d])
                           IN  e # DimEntry(g, d) =>
                                 /\ EntryAt(DimEntry(g, d)).name \in program.names
                                 /\ Len(tables[e[1]].chain) > Len(tables[g.array[1]].chain)
  BY DEF ArraysAreFlattened, FlattenedArrayIsIndexed, DimensionsMissedByGivenName, Hit
<1>1. /\ pass = "done"
      /\ flat = {AFLvar(uses[k]) : k \in {j \in DOMAIN uses : uses[j].indices > 1}}
  BY DEF Arrays
<1>2. PICK k \in DOMAIN uses : uses[k].indices > 1 /\ g = AFLvar(uses[k])
  BY <1>1
<1>3. g.use = uses[k]
  BY <1>2 DEF AFLvar
<1>4. ~g.use.init => g.array = Target(g.use)
  BY <1>1, <1>2, <1>3, IndexedIsFound
<1>5. ASSUME g.array = Target(g.use), NEW d \in DOMAIN g.dims
      PROVE  LET e == Denotes(tables, g.use.table, g.dims[d])
             IN  e # DimEntry(g, d) =>
                   /\ EntryAt(DimEntry(g, d)).name \in program.names
                   /\ Len(tables[e[1]].chain) > Len(tables[g.array[1]].chain)
  BY <1>1, <1>2, <1>3, <1>5, DimensionFound
<1> QED BY <1>4, <1>5

LEMMA ArraysAlways == Spec => [](Names /\ Arrays)
<1>1. AdjInit => Names /\ Arrays
  BY NamesInit, ArraysInit
<1>2. Names /\ Arrays /\ [AdjNext]_vars => (Names /\ Arrays)'
  BY NamesStep, ArraysStep
<1> QED BY <1>1, <1>2, PTL DEF Spec

(* Arrayflatten.c, AFLvar: in every program TYC lets pass, an array used   *)
(* in a statement is found by its name, and its dimensions are found by    *)
(* theirs unless the program declares such a name in a nearer scope; names *)
(* the compiler generates never lead astray.                               *)
THEOREM ArraysStayFlattened == Spec => []ArraysAreFlattened
<1> QED BY ArraysFollow, ArraysAlways, PTL


(* Resolve.c: whatever the program, a reference from a nested function to  *)
(* a local variable of a function around it denotes a parameter, a         *)
(* dimension or a definition, and no entry up to it repeats a name, so     *)
(* that the slot code generation computes from the index is the variable's. *)
THEOREM OuterReferencesAreSlots == Spec => []OuterRefsPrecedeLoops
<1>1. Names => OuterRefsPrecedeLoops
  <2>1. Names => Resolved
    BY WalkResolves DEF Names, Adjusted
  <2> QED BY <2>1, OuterRefsFollow
<1> QED BY <1>1, NamesAlways, PTL

(* Fortowhile.c, whiletodowhile.c, declarationsplitting.c: a name these    *)
(* passes copy and resolve again denotes the variable it denoted, or the   *)
(* variable of a loop; the initialiser of a definition always goes to the  *)
(* variable defined.                                                       *)
THEOREM CopiedNamesErrTowardsLoops == Spec => []CopiesErrTowardsLoops
<1> QED BY CopiesFollow, NamesAlways, PTL

(* In a program whose loop variables have names not visible around them,   *)
(* of any size, copied names keep their meaning, every transformed loop    *)
(* counts the variable it declares, and no assignment TYC lets pass sets   *)
(* that variable.                                                          *)
THEOREM FreshProgramsKeepTheirMeaning == Spec => []FreshNamesKeepTheirMeaning
<1> QED BY FreshFollows, NamesAlways, PTL

(* Codegen.c, resolve_idx: every load and store of a local variable, of    *)
(* the function itself or of one around it, names the slot the variable    *)
(* has in its frame, whatever names the program uses; so do those of the   *)
(* copies, if the loop variables have fresh names; and the dimensions of   *)
(* an array stand in the slots behind it.                                  *)
THEOREM AddressesOfVariablesAreSlots == Spec => []AddressesAreSlots
<1> QED BY AddressesFollow, NamesAlways, PTL
=============================================================================
