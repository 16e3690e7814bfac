----------------------------- MODULE CallsProofs -----------------------------
(***************************************************************************)
(* Proofs about Calls: for any identifiers, parameter lists and numbers of *)
(* functions and calls, a call reaches the function its name means, finds  *)
(* its import, and takes off the stack what its arguments pushed.          *)
(*                                                                         *)
(* Invariant: the tables form the tree of the scopes (Scopes); the items   *)
(* of a traversal follow each other from scope to scope (Follows); while   *)
(* RNF walks them, its prefixes are the names of the functions around the  *)
(* place it has come to, a function it has passed has the name of the one  *)
(* around it in front of its own, and one still ahead its own (Renaming).  *)
(***************************************************************************)
EXTENDS Calls, LeastNatural, SequenceTheorems

Function == [name: Names, params: Seq(Nat), isextern: BOOLEAN, home: Nat, own: Nat]
Table == [funs: Seq(Nat), chain: Seq(Nat), of: Nat]
Call == [name: Names, table: Nat, inner: BOOLEAN, literals: BOOLEAN]
Node == [node: {"fundef", "end", "call"}, id: Nat]
Type ==
  /\ pass \in {"fns", "rso", "rnf", "cgn", "done", "aborted"}
  /\ funs \in Seq(Function) /\ tables \in Seq(Table) /\ cur \in DOMAIN tables
  /\ calls \in Seq(Call) /\ tree \in Seq(Node) /\ inits \in Seq(Node)

(* Functions are entered in order; each has a table of its own for those   *)
(* in it, whose chain goes on with the chain of the table it is in.        *)
Placed(f) ==
  /\ funs[f].home \in DOMAIN tables
  /\ IF funs[f].isextern THEN funs[f].home = 1
     ELSE /\ funs[f].own \in DOMAIN tables \ {1}
          /\ tables[funs[f].own].of = f
  /\ funs[f].home # 1 => tables[funs[f].home].of < f
Owned(t) ==
  LET f == tables[t].of
  IN  /\ f \in DOMAIN funs /\ ~funs[f].isextern /\ funs[f].own = t
      /\ tables[t].chain = <<t>> \o tables[funs[f].home].chain
Entered(t) ==
  LET entries == tables[t].funs
  IN  /\ \A i \in DOMAIN entries :
           entries[i] \in DOMAIN funs /\ funs[entries[i]].home = t
      /\ \A i, j \in DOMAIN entries : i < j => entries[i] < entries[j]
      /\ \A f \in DOMAIN funs : funs[f].home = t => \E i \in DOMAIN entries : entries[i] = f
Scopes ==
  /\ \A f \in DOMAIN funs : Placed(f)
  /\ tables[1].chain = <<1>>
  /\ \A t \in DOMAIN tables \ {1} : Owned(t)
  /\ \A t \in DOMAIN tables : \A k \in DOMAIN tables[t].chain :
       tables[t].chain[k] \in DOMAIN tables
  /\ \A t \in DOMAIN tables : Entered(t)
  /\ \A c \in DOMAIN calls : calls[c].table \in DOMAIN tables

(* The tables a traversal is in before and after an item.                  *)
Known(item) ==
  IF item.node = "call" THEN item.id \in DOMAIN calls
  ELSE item.id \in DOMAIN funs /\ ~funs[item.id].isextern
Before(item) == IF item.node = "call" THEN calls[item.id].table
                ELSE IF item.node = "end" THEN funs[item.id].own ELSE funs[item.id].home
After(item) == IF item.node = "call" THEN calls[item.id].table
               ELSE IF item.node = "end" THEN funs[item.id].home ELSE funs[item.id].own
Here == IF tree = <<>> THEN cur ELSE Before(tree[1])
Pending(f) == \E i \in DOMAIN tree : tree[i].node = "fundef" /\ tree[i].id = f
Follows ==
  /\ \A i \in DOMAIN tree : Known(tree[i])
  /\ \A i \in DOMAIN tree : i + 1 \in DOMAIN tree => After(tree[i]) = Before(tree[i + 1])
  /\ tree # <<>> => After(tree[Len(tree)]) = cur
  /\ \A i, j \in DOMAIN tree :
       tree[i].node = "fundef" /\ tree[j].node = "fundef" /\ tree[i].id = tree[j].id => i = j
  /\ \A i \in DOMAIN inits :
       inits[i].node = "call" /\ inits[i].id \in DOMAIN calls /\ calls[inits[i].id].table = 1
Collected ==
  /\ pass # "fns" => cur = 1
  /\ pass \in {"fns", "rso"} =>
       /\ Here = 1 /\ prefix = <<>>
       /\ \A f \in DOMAIN funs : ~funs[f].isextern => Pending(f)
  /\ pass \in {"cgn", "done"} => tree = <<>>

(* ptr[c] is the function GetFunction finds.                               *)
FoundAt(f, t, name, n) ==
  /\ funs[f].name = name /\ funs[f].home = tables[t].chain[n]
  /\ \A g \in DOMAIN funs : funs[g].name = name =>
       /\ \A k \in 1 .. n - 1 : funs[g].home # tables[t].chain[k]
       /\ funs[g].home = tables[t].chain[n] => f <= g
Found(f, t, name) == \E n \in DOMAIN tables[t].chain : FoundAt(f, t, name, n)

Around(f) == tables[funs[f].home].of
Headed(f) ==
  /\ header[f] # <<>>
  /\ IF Pending(f) \/ funs[f].home = 1 THEN header[f] = <<funs[f].name>>
     ELSE header[f] = header[Around(f)] \o <<funs[f].name>> /\ ~Pending(Around(f))
Prefixes ==
  LET chain == tables[Here].chain
  IN  /\ Len(prefix) + 1 = Len(chain)
      /\ \A k \in DOMAIN prefix :
           \E g \in DOMAIN funs :
             g = tables[chain[k]].of /\ prefix[k] = header[g] /\ ~Pending(g)
Renaming == pass \in {"rnf", "cgn", "done"} =>
  /\ ptr \in [DOMAIN calls -> DOMAIN funs]
  /\ \A c \in DOMAIN calls : Found(ptr[c], calls[c].table, calls[c].name)
  /\ header \in [DOMAIN funs -> Seq(Names)] /\ prefix \in Seq(Seq(Names))
  /\ named \in [DOMAIN calls -> Seq(Names)]
  /\ \A f \in DOMAIN funs : Headed(f)
  /\ Prefixes
  /\ \A c \in DOMAIN calls : named[c] = <<calls[c].name>> \/ Len(named[c]) > 1

(* CGNfuncall takes the function RSO found.                                *)
Emitted(c) ==
  LET f == ptr[c]
      pushed == Pushed(f, calls[c].literals)
  IN  code[c] = IF funs[f].isextern
                THEN [op |-> "jsre", pushed |-> pushed, index |-> AssemblyIndex(f)]
                ELSE [op |-> "jsr", pushed |-> pushed, args |-> CountFlatParams(f),
                      label |-> header[f]]
Coded == /\ pass # "done" => code = <<>>
         /\ pass = "done" => DOMAIN code = DOMAIN calls /\ \A c \in DOMAIN code : Emitted(c)

CallsInv == Type /\ Scopes /\ Follows /\ Collected /\ Renaming /\ Coded
-----------------------------------------------------------------------------
USE CallsAssumption

(* The least element of a search.                                          *)
LEMMA LeastFound ==
  ASSUME NEW S \in SUBSET Nat, S # {}
  PROVE  LeastOf(S) \in S /\ \A k \in S : LeastOf(S) <= k
BY LeastNat DEF LeastOf

(* Appending to a sequence keeps what it had.                              *)
LEMMA Longer ==
  ASSUME NEW S, NEW s \in Seq(S), NEW x \in S
  PROVE  /\ Append(s, x) \in Seq(S)
         /\ Len(Append(s, x)) = Len(s) + 1
         /\ DOMAIN Append(s, x) = DOMAIN s \cup {Len(s) + 1}
         /\ Len(s) + 1 \notin DOMAIN s /\ Len(s) + 1 \in Nat
         /\ \A i \in DOMAIN s : Append(s, x)[i] = s[i] /\ i \in Nat /\ i < Len(s) + 1 /\ i > 0
         /\ Append(s, x)[Len(s) + 1] = x
OBVIOUS

(* A sequence with an element put in front.                                *)
LEMMA InFront ==
  ASSUME NEW S, NEW x \in S, NEW s \in Seq(S), NEW r, r = <<x>> \o s
  PROVE  /\ r \in Seq(S) /\ Len(r) = Len(s) + 1 /\ Len(s) \in Nat
         /\ r[1] = x
         /\ \A k \in DOMAIN s : r[k + 1] = s[k]
<1>1. PICK one \in Seq(S) : one = <<x>> /\ Len(one) = 1 /\ one[1] = x
  <2>1. <<x>> \in Seq(S)
    OBVIOUS
  <2>2. Len(<<x>>) = 1 /\ <<x>>[1] = x
    OBVIOUS
  <2> QED BY <2>1, <2>2
<1>2. /\ one \o s \in Seq(S) /\ Len(one \o s) = 1 + Len(s) /\ Len(s) \in Nat
      /\ \A i \in 1 .. 1 + Len(s) : (one \o s)[i] = IF i <= 1 THEN one[i] ELSE s[i - 1]
  BY <1>1, ConcatProperties
<1>3. PICK q \in Seq(S) : q = r
  BY <1>1, <1>2
<1>4. /\ Len(q) = 1 + Len(s) /\ q[1] = x
      /\ \A i \in 1 .. 1 + Len(s) : q[i] = IF i <= 1 THEN x ELSE s[i - 1]
  BY <1>1, <1>2, <1>3
<1>5. \A k \in DOMAIN s : q[k + 1] = s[k]
  <2> TAKE k \in DOMAIN s
  <2>1. k + 1 \in 1 .. 1 + Len(s) /\ ~(k + 1 <= 1) /\ k + 1 - 1 = k
    BY <1>2
  <2> QED BY <1>4, <2>1
<1> QED BY <1>2, <1>3, <1>4, <1>5

(* The fields of what the sequences hold.                                  *)
LEMMA Fields ==
  ASSUME Type
  PROVE  /\ \A f \in DOMAIN funs :
              /\ f \in 1 .. Len(funs) /\ funs[f].name \in Names /\ funs[f].params \in Seq(Nat)
              /\ funs[f].home \in Nat /\ funs[f].own \in Nat
         /\ \A t \in DOMAIN tables :
              /\ t \in 1 .. Len(tables) /\ tables[t].funs \in Seq(Nat)
              /\ tables[t].chain \in Seq(Nat) /\ tables[t].of \in Nat
         /\ \A c \in DOMAIN calls : calls[c].name \in Names /\ calls[c].table \in Nat
         /\ Len(funs) \in Nat /\ Len(tables) \in Nat /\ Len(calls) \in Nat /\ Len(tree) \in Nat
         /\ DOMAIN funs = 1 .. Len(funs) /\ DOMAIN tables = 1 .. Len(tables)
         /\ DOMAIN calls = 1 .. Len(calls) /\ DOMAIN tree = 1 .. Len(tree)
         /\ 1 \in DOMAIN tables
<1>1. \A f \in DOMAIN funs : f \in 1 .. Len(funs) /\ funs[f] \in Function
  BY DEF Type
<1>2. \A t \in DOMAIN tables : t \in 1 .. Len(tables) /\ tables[t] \in Table
  BY DEF Type
<1>3. \A c \in DOMAIN calls : calls[c] \in Call
  BY DEF Type
<1>4. /\ Len(funs) \in Nat /\ Len(tables) \in Nat /\ Len(calls) \in Nat /\ Len(tree) \in Nat
      /\ DOMAIN funs = 1 .. Len(funs) /\ DOMAIN tables = 1 .. Len(tables)
      /\ DOMAIN calls = 1 .. Len(calls) /\ DOMAIN tree = 1 .. Len(tree)
      /\ 1 \in DOMAIN tables
  BY DEF Type
<1>5. \A r \in Function : /\ r.name \in Names /\ r.params \in Seq(Nat)
                          /\ r.home \in Nat /\ r.own \in Nat
  BY DEF Function
<1>6. \A r \in Table : r.funs \in Seq(Nat) /\ r.chain \in Seq(Nat) /\ r.of \in Nat
  BY DEF Table
<1>7. \A r \in Call : r.name \in Names /\ r.table \in Nat
  BY DEF Call
<1> QED BY <1>1, <1>2, <1>3, <1>4, <1>5, <1>6, <1>7

(* What a node is to the traversal does not change when functions and      *)
(* calls are added.                                                        *)
LEMMA NodeKept ==
  ASSUME \A f \in DOMAIN funs : f \in DOMAIN funs' /\ funs'[f] = funs[f],
         \A c \in DOMAIN calls : c \in DOMAIN calls' /\ calls'[c] = calls[c],
         NEW item, Known(item)
  PROVE  Known(item)' /\ Before(item)' = Before(item) /\ After(item)' = After(item)
BY DEF Known, Before, After

(* FunHeader and Function of a new function.                               *)
LEMMA InsertType ==
  ASSUME Type, NEW name \in Names, NEW params \in Shapes, NEW isextern \in BOOLEAN,
         NEW own \in Nat, Insert(name, params, isextern, own)
  PROVE  \E fun \in Function :
           /\ funs' = Append(funs, fun)
           /\ fun.isextern = isextern /\ fun.home = cur /\ fun.own = own
<1> DEFINE fun == [name |-> name, params |-> params, isextern |-> isextern,
                   home |-> cur, own |-> own]
<1>1. cur \in Nat
  BY DEF Type
<1>2. params \in Seq(Nat)
  OBVIOUS
<1>3. fun \in Function
  BY <1>1, <1>2 DEF Function
<1>4. fun.isextern = isextern /\ fun.home = cur /\ fun.own = own
  OBVIOUS
<1>5. funs' = Append(funs, fun)
  BY DEF Insert
<1> HIDE DEF fun
<1> QED BY <1>3, <1>4, <1>5

LEMMA AtHomeType ==
  ASSUME Type, NEW t \in DOMAIN tables
  PROVE  /\ AtHome(t) \in Seq(Table) /\ DOMAIN AtHome(t) = DOMAIN tables
         /\ \A u \in DOMAIN tables :
              AtHome(t)[u].chain = tables[u].chain /\ AtHome(t)[u].of = tables[u].of
         /\ \A u \in DOMAIN tables \ {t} : AtHome(t)[u].funs = tables[u].funs
         /\ AtHome(t)[t].funs = Append(tables[t].funs, Len(funs) + 1)
<1> DEFINE entry == [tables[t] EXCEPT !.funs = Append(tables[t].funs, Len(funs) + 1)]
<1>1. tables \in Seq(Table) /\ tables[t] \in Table /\ Len(funs) \in Nat /\ t \in 1 .. Len(tables)
  BY DEF Type
<1>2. entry \in Table /\ entry.chain = tables[t].chain /\ entry.of = tables[t].of
      /\ entry.funs = Append(tables[t].funs, Len(funs) + 1)
  <2>1. PICK r \in Table : r = tables[t]
    BY <1>1
  <2>2. r.funs \in Seq(Nat) /\ Append(r.funs, Len(funs) + 1) \in Seq(Nat)
    BY <1>1 DEF Table
  <2> QED BY <2>1, <2>2 DEF Table
<1>3. AtHome(t) = [tables EXCEPT ![t] = entry]
  BY DEF AtHome
<1> HIDE DEF entry
<1>4. AtHome(t) \in Seq(Table)
  BY <1>1, <1>2, <1>3, ExceptSeq
<1>5. DOMAIN AtHome(t) = DOMAIN tables /\ AtHome(t)[t] = entry
      /\ \A u \in DOMAIN tables \ {t} : AtHome(t)[u] = tables[u]
  BY <1>1, <1>3
<1> QED BY <1>2, <1>4, <1>5

(* A new function is the last entry of the table it is in.                 *)
LEMMA EntriesKept ==
  ASSUME Type, Scopes, NEW fun \in Function, funs' = Append(funs, fun), fun.home = cur,
         \A t \in DOMAIN tables :
           tables'[t].funs = IF t = cur THEN Append(tables[t].funs, Len(funs) + 1)
                             ELSE tables[t].funs
  PROVE  \A t \in DOMAIN tables : Entered(t)'
<1> DEFINE F == Len(funs) + 1
<1>1. /\ DOMAIN funs' = DOMAIN funs \cup {F} /\ F \notin DOMAIN funs /\ F \in Nat
      /\ \A f \in DOMAIN funs : funs'[f] = funs[f] /\ f < F /\ f \in Nat
      /\ funs'[F] = fun
  BY Longer DEF Type
<1> HIDE DEF F
<1> TAKE t \in DOMAIN tables
<1>2. /\ \A i \in DOMAIN tables[t].funs :
           tables[t].funs[i] \in DOMAIN funs /\ funs[tables[t].funs[i]].home = t
      /\ \A i, j \in DOMAIN tables[t].funs :
           i < j => tables[t].funs[i] < tables[t].funs[j]
      /\ \A f \in DOMAIN funs :
           funs[f].home = t => \E i \in DOMAIN tables[t].funs : tables[t].funs[i] = f
  BY DEF Scopes, Entered
<1>3. CASE t = cur
  <2>1. PICK e : e = tables[t].funs
    OBVIOUS
  <2>2. e \in Seq(Nat)
    BY <2>1, Fields
  <2>3. /\ DOMAIN Append(e, F) = DOMAIN e \cup {Len(e) + 1} /\ Len(e) + 1 \notin DOMAIN e
        /\ \A i \in DOMAIN e : Append(e, F)[i] = e[i] /\ i \in Nat /\ i < Len(e) + 1
        /\ Append(e, F)[Len(e) + 1] = F /\ Len(e) + 1 \in Nat
    BY <2>2, <1>1, Longer
  <2>4. tables'[t].funs = Append(e, F)
    BY <1>3, <2>1 DEF F
  <2>5. PICK d : d = Append(e, F)
    OBVIOUS
  <2>6. \A i \in DOMAIN d : d[i] \in DOMAIN funs' /\ funs'[d[i]].home = t
    BY <1>1, <1>2, <1>3, <2>1, <2>3, <2>5
  <2>7. \A i, j \in DOMAIN d : i < j => d[i] < d[j]
    BY <1>1, <1>2, <2>1, <2>3, <2>5
  <2>8. \A f \in DOMAIN funs' : funs'[f].home = t => \E i \in DOMAIN d : d[i] = f
    BY <1>1, <1>2, <2>1, <2>3, <2>5
  <2> QED BY <2>4, <2>5, <2>6, <2>7, <2>8 DEF Entered
<1>4. CASE t # cur
  <2>1. tables'[t].funs = tables[t].funs
    BY <1>4
  <2> QED BY <1>1, <1>2, <1>4, <2>1 DEF Entered
<1> QED BY <1>3, <1>4

(* FNSfundef before its children: function and table are added together.   *)
LEMMA EnterScopes ==
  ASSUME Type, Scopes, FNSfundefEnter
  PROVE  /\ Scopes'
         /\ funs' \in Seq(Function) /\ tables' \in Seq(Table) /\ cur' \in DOMAIN tables'
         /\ cur' = Len(tables) + 1 /\ Len(funs) + 1 \in DOMAIN funs'
         /\ funs'[Len(funs) + 1].own = cur' /\ funs'[Len(funs) + 1].home = cur
         /\ ~funs'[Len(funs) + 1].isextern
         /\ DOMAIN funs' = DOMAIN funs \cup {Len(funs) + 1} /\ Len(funs) + 1 \notin DOMAIN funs
         /\ \A f \in DOMAIN funs : f \in DOMAIN funs' /\ funs'[f] = funs[f]
<1> DEFINE F == Len(funs) + 1
           T == Len(tables) + 1
           tbl == [funs |-> <<>>, of |-> F, chain |-> <<T>> \o tables[cur].chain]
<1>1. PICK name \in Names, params \in Shapes : Insert(name, params, FALSE, T)
  BY DEF FNSfundefEnter
<1>2. PICK fun \in Function :
        funs' = Append(funs, fun) /\ fun.isextern = FALSE /\ fun.home = cur /\ fun.own = T
  <2>1. T \in Nat
    BY Fields
  <2> QED BY <1>1, <2>1, InsertType
<1>3. /\ cur \in DOMAIN tables /\ F \in Nat /\ T \in Nat /\ T # 1 /\ 1 \in DOMAIN tables
      /\ tables[cur].chain \in Seq(Nat)
  BY Fields DEF Type
<1>4. /\ tbl \in Table /\ tbl.of = F /\ tbl.chain = <<T>> \o tables[cur].chain
      /\ tbl.funs = <<>>
  <2>1. <<T>> \o tables[cur].chain \in Seq(Nat) /\ <<>> \in Seq(Nat)
    BY <1>3
  <2> QED BY <1>3, <2>1 DEF Table
<1>5. tables' = Append(AtHome(cur), tbl) /\ calls' = calls /\ cur' = T
  BY DEF FNSfundefEnter
<1> HIDE DEF tbl
<1>6. /\ DOMAIN funs' = DOMAIN funs \cup {F} /\ F \notin DOMAIN funs
      /\ \A f \in DOMAIN funs : funs'[f] = funs[f] /\ f < F
      /\ funs'[F] = fun /\ funs' \in Seq(Function)
  BY <1>2, Longer DEF Type
<1>7. /\ DOMAIN tables' = DOMAIN tables \cup {T} /\ T \notin DOMAIN tables
      /\ \A t \in DOMAIN tables : tables'[t] = AtHome(cur)[t]
      /\ tables'[T] = tbl /\ tables' \in Seq(Table)
  <2>1. AtHome(cur) \in Seq(Table) /\ DOMAIN AtHome(cur) = DOMAIN tables
    BY <1>3, AtHomeType
  <2>2. Len(AtHome(cur)) = Len(tables)
    BY <2>1 DEF Type
  <2>3. PICK a \in Seq(Table) : a = AtHome(cur)
    BY <2>1
  <2> QED BY <1>4, <1>5, <2>1, <2>2, <2>3, Longer
<1>8. /\ \A t \in DOMAIN tables : tables'[t].chain = tables[t].chain /\ tables'[t].of = tables[t].of
      /\ \A t \in DOMAIN tables \ {cur} : tables'[t].funs = tables[t].funs
      /\ tables'[cur].funs = Append(tables[cur].funs, F)
  BY <1>3, <1>7, AtHomeType
<1> HIDE DEF F, T
<1>9. \A f \in DOMAIN funs' : Placed(f)'
  <2>1. SUFFICES ASSUME NEW f \in DOMAIN funs' PROVE Placed(f)'
    OBVIOUS
  <2>2. CASE f \in DOMAIN funs
    <3>1. Placed(f)
      BY <2>2 DEF Scopes
    <3> QED BY <2>2, <3>1, <1>6, <1>7, <1>8 DEF Placed
  <2>3. CASE f = F
    <3>1. cur # 1 => tables[cur].of \in DOMAIN funs
      BY <1>3 DEF Scopes, Owned
    <3>2. funs'[f].home = cur /\ funs'[f].own = T /\ ~funs'[f].isextern
      BY <1>2, <1>6, <2>3
    <3> QED BY <1>3, <1>4, <1>6, <1>7, <1>8, <2>3, <3>1, <3>2 DEF Placed
  <2> QED BY <1>6, <2>1, <2>2, <2>3
<1>10. \A t \in DOMAIN tables' \ {1} : Owned(t)'
  <2>1. SUFFICES ASSUME NEW t \in DOMAIN tables' \ {1} PROVE Owned(t)'
    OBVIOUS
  <2>2. CASE t \in DOMAIN tables
    <3>1. Owned(t) /\ Placed(tables[t].of)
      BY <2>1, <2>2 DEF Scopes, Owned
    <3>2. PICK f : f = tables[t].of
      OBVIOUS
    <3>3. /\ f \in DOMAIN funs /\ ~funs[f].isextern /\ funs[f].own = t
          /\ tables[t].chain = <<t>> \o tables[funs[f].home].chain
          /\ funs[f].home \in DOMAIN tables
      BY <3>1, <3>2 DEF Owned, Placed
    <3>4. /\ funs'[f] = funs[f] /\ f \in DOMAIN funs' /\ tables'[t].of = f
          /\ tables'[t].chain = tables[t].chain
          /\ tables'[funs[f].home].chain = tables[funs[f].home].chain
      BY <2>2, <3>2, <3>3, <1>6, <1>8
    <3> QED BY <3>3, <3>4 DEF Owned
  <2>3. CASE t = T
    <3>1. tables'[t].of = F /\ tables'[t].chain = <<T>> \o tables'[cur].chain
      BY <1>3, <1>4, <1>7, <1>8, <2>3
    <3>2. funs'[F].home = cur /\ funs'[F].own = T /\ ~funs'[F].isextern
      BY <1>2, <1>6
    <3> QED BY <1>6, <2>3, <3>1, <3>2 DEF Owned
  <2> QED BY <1>7, <2>1, <2>2, <2>3
<1>11. tables'[1].chain = <<1>>
  BY <1>3, <1>8 DEF Scopes
<1>12. \A t \in DOMAIN tables' : \A k \in DOMAIN tables'[t].chain :
         tables'[t].chain[k] \in DOMAIN tables'
  <2>1. SUFFICES ASSUME NEW t \in DOMAIN tables', NEW k \in DOMAIN tables'[t].chain
                 PROVE  tables'[t].chain[k] \in DOMAIN tables'
    OBVIOUS
  <2>2. CASE t \in DOMAIN tables
    <3>1. tables'[t].chain = tables[t].chain
      BY <1>8, <2>2
    <3>2. tables[t].chain[k] \in DOMAIN tables
      BY <2>1, <2>2, <3>1 DEF Scopes
    <3> QED BY <3>1, <3>2, <1>7
  <2>3. CASE t = T
    <3>1. PICK ch \in Seq(Nat) : ch = tables[cur].chain
      BY <1>3
    <3>2. \A i \in DOMAIN ch : ch[i] \in DOMAIN tables
      BY <1>3, <3>1 DEF Scopes
    <3>3. tables'[t].chain = <<T>> \o ch
      BY <1>4, <1>7, <2>3, <3>1
    <3>4. k \in DOMAIN (<<T>> \o ch)
      BY <2>1, <3>3
    <3>5. (<<T>> \o ch)[k] = T \/ \E i \in DOMAIN ch : (<<T>> \o ch)[k] = ch[i]
      BY <1>3, <3>4
    <3> QED BY <1>7, <3>2, <3>3, <3>5
  <2> QED BY <1>7, <2>1, <2>2, <2>3
<1>13. \A t \in DOMAIN tables' : Entered(t)'
  <2>1. \A t \in DOMAIN tables : tables'[t].funs = IF t = cur THEN Append(tables[t].funs, Len(funs) + 1)
                                                   ELSE tables[t].funs
    BY <1>8 DEF F
  <2>2. \A t \in DOMAIN tables : Entered(t)'
    BY <2>1, <1>2, EntriesKept
  <2>3. SUFFICES ASSUME NEW t \in DOMAIN tables', t = T PROVE Entered(t)'
    BY <2>2, <1>7
  <2>4. tables'[t].funs = <<>> /\ DOMAIN tables'[t].funs = {}
    BY <1>4, <1>7, <2>3
  <2>5. \A f \in DOMAIN funs' : funs'[f].home # t
    BY <1>2, <1>3, <1>6, <1>7, <2>3 DEF Scopes, Placed
  <2> QED BY <2>4, <2>5 DEF Entered
<1>14. \A c \in DOMAIN calls' : calls'[c].table \in DOMAIN tables'
  BY <1>5, <1>7 DEF Scopes
<1>15. Scopes'
  BY <1>9, <1>10, <1>11, <1>12, <1>13, <1>14 DEF Scopes
<1> QED BY <1>2, <1>5, <1>6, <1>7, <1>15 DEF F, T

(* A node added behind the others, where the walk is.                      *)
LEMMA NodeAdded ==
  ASSUME Type, Follows, NEW n \in Node, tree' = Append(tree, n), inits' = inits,
         \A f \in DOMAIN funs : f \in DOMAIN funs' /\ funs'[f] = funs[f],
         \A c \in DOMAIN calls : c \in DOMAIN calls' /\ calls'[c] = calls[c],
         Known(n)', Before(n)' = cur, After(n)' = cur',
         n.node = "fundef" => ~Pending(n.id)
  PROVE  /\ Follows' /\ tree' \in Seq(Node)
         /\ \A f : Pending(f) => Pending(f)'
         /\ n.node = "fundef" => Pending(n.id)'
         /\ Here' = Here
<1> DEFINE L == Len(tree) + 1
<1>1. /\ tree' \in Seq(Node) /\ Len(tree') = L /\ DOMAIN tree' = DOMAIN tree \cup {L}
      /\ L \notin DOMAIN tree /\ L \in Nat /\ DOMAIN tree = 1 .. Len(tree) /\ Len(tree) \in Nat
      /\ \A i \in DOMAIN tree : tree'[i] = tree[i] /\ i \in Nat /\ i < L /\ i > 0
      /\ tree'[L] = n
  BY Longer, Fields DEF Type
<1>2. \A i \in DOMAIN tree : /\ Known(tree[i])' /\ Before(tree[i])' = Before(tree[i])
                             /\ After(tree[i])' = After(tree[i])
  <2> TAKE i \in DOMAIN tree
  <2>1. PICK item : item = tree[i]
    OBVIOUS
  <2>2. tree'[i] = item
    BY <1>1, <2>1
  <2>3. Known(item)
    BY <2>1 DEF Follows
  <2>4. Known(item)' /\ Before(item)' = Before(item) /\ After(item)' = After(item)
    BY <2>3, NodeKept
  <2> QED BY <2>1, <2>2, <2>4
<1>3. Known(n)' /\ Before(n)' = cur /\ After(n)' = cur'
  OBVIOUS
<1>4. tree = <<>> <=> L = 1
  BY <1>1 DEF Type
<1>5. tree # <<>> => Len(tree) \in DOMAIN tree /\ After(tree[Len(tree)]) = cur
  BY <1>1, <1>4 DEF Follows
<1> DEFINE K(i) == Known(tree[i])
           B(i) == Before(tree[i])
           A(i) == After(tree[i])
<1>6. \A i \in DOMAIN tree : K(i)' /\ B(i)' = B(i) /\ A(i)' = A(i)
  BY <1>2
<1>7. \A i \in DOMAIN tree' : i = L => K(i)' /\ B(i)' = cur /\ A(i)' = cur'
  BY <1>1, <1>3
<1>8. \A i \in DOMAIN tree : i + 1 \in DOMAIN tree => A(i) = B(i + 1)
  BY DEF Follows
<1>9. tree # <<>> => A(Len(tree)) = cur
  BY <1>5
<1>10. \A i \in DOMAIN tree' : K(i)'
  BY <1>1, <1>6, <1>7
<1>11. \A i \in DOMAIN tree' : i + 1 \in DOMAIN tree' => A(i)' = B(i + 1)'
  <2>1. SUFFICES ASSUME NEW i \in DOMAIN tree', i + 1 \in DOMAIN tree' PROVE A(i)' = B(i + 1)'
    OBVIOUS
  <2>2. i \in DOMAIN tree /\ (i + 1 \in DOMAIN tree \/ i + 1 = L)
    BY <1>1, <2>1
  <2>3. CASE i + 1 \in DOMAIN tree
    <3>1. A(i)' = A(i) /\ B(i + 1)' = B(i + 1)
      BY <1>6, <2>2, <2>3
    <3> QED BY <1>8, <2>2, <2>3, <3>1
  <2>4. CASE i + 1 = L
    <3>1. i = Len(tree) /\ tree # <<>>
      BY <1>1, <1>4, <2>2, <2>4
    <3>2. A(i)' = cur
      BY <1>6, <1>9, <2>2, <3>1
    <3>3. B(i + 1)' = cur
      BY <1>7, <2>1, <2>4
    <3> QED BY <3>2, <3>3
  <2> QED BY <2>2, <2>3, <2>4
<1>12. After(tree[Len(tree)])' = cur' /\ tree' # <<>>
  <2>1. tree'[Len(tree')] = n /\ tree' # <<>>
    BY <1>1
  <2>2. After(tree[Len(tree)])' = After(n)'
    BY <2>1 DEF After
  <2> QED BY <2>1, <2>2, <1>3
<1>13. \A i, j \in DOMAIN tree' :
         tree'[i].node = "fundef" /\ tree'[j].node = "fundef" /\ tree'[i].id = tree'[j].id
         => i = j
  BY <1>1 DEF Follows, Pending
<1>14. \A i \in DOMAIN inits' : inits'[i].node = "call" /\ inits'[i].id \in DOMAIN calls'
                               /\ calls'[inits'[i].id].table = 1
  BY DEF Follows
<1>15. Follows'
  BY <1>10, <1>11, <1>12, <1>13, <1>14 DEF Follows
<1>16. \A f : Pending(f) => Pending(f)'
  BY <1>1 DEF Pending
<1>17. n.node = "fundef" => Pending(n.id)'
  BY <1>1 DEF Pending
<1>18. Here' = Here
  <2>1. CASE tree = <<>>
    <3>1. tree'[1] = n /\ tree' # <<>>
      BY <1>1, <1>4, <2>1
    <3>2. Here' = Before(n)'
      BY <3>1 DEF Here, Before
    <3> QED BY <2>1, <3>2, <1>3 DEF Here
  <2>2. CASE tree # <<>>
    <3>1. 1 \in DOMAIN tree
      BY <1>1, <1>4, <2>2
    <3>2. Here' = B(1)' /\ Here = B(1)
      BY <2>2, <1>12 DEF Here
    <3> QED BY <3>1, <3>2, <1>6
  <2> QED BY <2>1, <2>2
<1> QED BY <1>1, <1>15, <1>16, <1>17, <1>18

(* FNSfundec: a declared function is entered into the table of the         *)
(* program.                                                                *)
LEMMA FundecScopes ==
  ASSUME Type, Scopes, FNSfundec
  PROVE  /\ Scopes'
         /\ funs' \in Seq(Function) /\ tables' \in Seq(Table) /\ cur' \in DOMAIN tables'
         /\ \A f \in DOMAIN funs : f \in DOMAIN funs' /\ funs'[f] = funs[f]
         /\ \A f \in DOMAIN funs' \ DOMAIN funs : funs'[f].isextern
<1>1. PICK name \in Names, params \in Shapes : Insert(name, params, TRUE, 0)
  BY DEF FNSfundec
<1>2. PICK fun \in Function :
        funs' = Append(funs, fun) /\ fun.isextern = TRUE /\ fun.home = cur /\ fun.own = 0
  <2>1. PICK e, own : e = TRUE /\ own = 0 /\ e \in BOOLEAN /\ own \in Nat
    OBVIOUS
  <2>2. Insert(name, params, e, own)
    BY <1>1, <2>1
  <2>3. \E fun \in Function :
          funs' = Append(funs, fun) /\ fun.isextern = e /\ fun.home = cur /\ fun.own = own
    BY <2>1, <2>2, InsertType
  <2> QED BY <2>1, <2>3
<1>3. /\ cur = 1 /\ cur \in DOMAIN tables /\ tables' = AtHome(cur)
      /\ calls' = calls /\ cur' = cur
  BY DEF Type, FNSfundec
<1>4. PICK F : F = Len(funs) + 1
  OBVIOUS
<1>5. /\ DOMAIN funs' = DOMAIN funs \cup {F} /\ F \notin DOMAIN funs
      /\ \A f \in DOMAIN funs : funs'[f] = funs[f] /\ f < F
      /\ funs'[F] = fun /\ funs' \in Seq(Function)
  BY <1>2, <1>4, Longer DEF Type
<1>6. /\ DOMAIN tables' = DOMAIN tables /\ tables' \in Seq(Table)
      /\ \A t \in DOMAIN tables : tables'[t].chain = tables[t].chain /\ tables'[t].of = tables[t].of
      /\ \A t \in DOMAIN tables : tables'[t].funs = IF t = cur THEN Append(tables[t].funs, Len(funs) + 1)
                                                    ELSE tables[t].funs
  BY <1>3, AtHomeType
<1>7. \A f \in DOMAIN funs' : Placed(f)'
  <2>1. SUFFICES ASSUME NEW f \in DOMAIN funs' PROVE Placed(f)'
    OBVIOUS
  <2>2. CASE f \in DOMAIN funs
    <3>1. Placed(f)
      BY <2>2 DEF Scopes
    <3> QED BY <2>2, <3>1, <1>5, <1>6 DEF Placed
  <2>3. CASE f = F
    <3>1. funs'[f].home = 1 /\ funs'[f].isextern
      BY <1>2, <1>3, <1>5, <2>3
    <3> QED BY <1>3, <1>6, <3>1 DEF Placed
  <2> QED BY <1>5, <2>1, <2>2, <2>3
<1>8. \A t \in DOMAIN tables' \ {1} : Owned(t)'
  <2>1. SUFFICES ASSUME NEW t \in DOMAIN tables' \ {1} PROVE Owned(t)'
    OBVIOUS
  <2>2. Owned(t) /\ Placed(tables[t].of)
    BY <2>1, <1>6 DEF Scopes, Owned
  <2>3. PICK f : f = tables[t].of
    OBVIOUS
  <2>4. /\ f \in DOMAIN funs /\ ~funs[f].isextern /\ funs[f].own = t
        /\ tables[t].chain = <<t>> \o tables[funs[f].home].chain
        /\ funs[f].home \in DOMAIN tables
    BY <2>2, <2>3 DEF Owned, Placed
  <2>5. /\ funs'[f] = funs[f] /\ f \in DOMAIN funs' /\ tables'[t].of = f
        /\ tables'[t].chain = tables[t].chain
        /\ tables'[funs[f].home].chain = tables[funs[f].home].chain
    BY <2>1, <2>3, <2>4, <1>5, <1>6
  <2> QED BY <2>4, <2>5 DEF Owned
<1>9. \A t \in DOMAIN tables' : \A k \in DOMAIN tables'[t].chain :
        tables'[t].chain[k] \in DOMAIN tables'
  BY <1>6 DEF Scopes
<1>10. tables'[1].chain = <<1>>
  BY <1>3, <1>6 DEF Scopes
<1>11. \A t \in DOMAIN tables' : Entered(t)'
  <2>1. \A t \in DOMAIN tables : Entered(t)'
    BY <1>2, <1>6, EntriesKept
  <2> QED BY <2>1, <1>6
<1>12. \A c \in DOMAIN calls' : calls'[c].table \in DOMAIN tables'
  BY <1>3, <1>6 DEF Scopes
<1>13. Scopes'
  BY <1>7, <1>8, <1>9, <1>10, <1>11, <1>12 DEF Scopes
<1> QED BY <1>2, <1>3, <1>5, <1>6, <1>13

-----------------------------------------------------------------------------
(* One lemma for each action: the invariant is kept.                       *)
LEMMA EnterStep == CallsInv /\ FNSfundefEnter => CallsInv'
<1> SUFFICES ASSUME CallsInv, FNSfundefEnter PROVE CallsInv'
  OBVIOUS
<1> USE DEF CallsInv
<1>1. PICK F : F = Len(funs) + 1
  OBVIOUS
<1>2. /\ Scopes'
      /\ funs' \in Seq(Function) /\ tables' \in Seq(Table) /\ cur' \in DOMAIN tables'
      /\ F \in DOMAIN funs' /\ funs'[F].own = cur' /\ funs'[F].home = cur /\ ~funs'[F].isextern
      /\ DOMAIN funs' = DOMAIN funs \cup {F} /\ F \notin DOMAIN funs
      /\ \A f \in DOMAIN funs : f \in DOMAIN funs' /\ funs'[f] = funs[f]
  BY <1>1, EnterScopes
<1>3. /\ pass = "fns" /\ pass' = "fns" /\ calls' = calls /\ inits' = inits
      /\ prefix' = prefix /\ code' = code
      /\ tree' = Append(tree, [node |-> "fundef", id |-> F])
  BY <1>1 DEF FNSfundefEnter, made
<1>4. PICK n \in Node : n.node = "fundef" /\ n.id = F /\ tree' = Append(tree, n)
  <2>1. F \in Nat
    BY <1>1, Fields
  <2>2. [node |-> "fundef", id |-> F] \in Node
    BY <2>1 DEF Node
  <2> QED BY <2>2, <1>3
<1>5. ~Pending(F)
  BY <1>2 DEF Follows, Pending, Known
<1>6. Known(n)' /\ Before(n)' = cur /\ After(n)' = cur'
  BY <1>2, <1>4 DEF Known, Before, After
<1>7. /\ Follows' /\ tree' \in Seq(Node) /\ \A f : Pending(f) => Pending(f)'
      /\ Pending(n.id)' /\ Here' = Here
  BY <1>2, <1>3, <1>4, <1>5, <1>6, NodeAdded
<1>8. Collected'
  <2>1. \A f \in DOMAIN funs' : ~funs'[f].isextern => Pending(f)'
    BY <1>2, <1>3, <1>4, <1>7 DEF Collected
  <2> QED BY <2>1, <1>3, <1>7 DEF Collected
<1>9. Type'
  BY <1>2, <1>3, <1>7 DEF Type
<1> QED BY <1>2, <1>3, <1>7, <1>8, <1>9 DEF Renaming, Coded

LEMMA ExitStep == CallsInv /\ FNSfundefExit => CallsInv'
<1> SUFFICES ASSUME CallsInv, FNSfundefExit PROVE CallsInv'
  OBVIOUS
<1> USE DEF CallsInv
<1>1. PICK f : f = tables[cur].of
  OBVIOUS
<1>2. /\ pass = "fns" /\ pass' = "fns" /\ cur # 1 /\ funs' = funs /\ tables' = tables
      /\ calls' = calls /\ inits' = inits /\ prefix' = prefix /\ code' = code
      /\ tree' = Append(tree, [node |-> "end", id |-> f]) /\ cur' = funs[f].home
  BY <1>1 DEF FNSfundefExit, made
<1>3. f \in DOMAIN funs /\ ~funs[f].isextern /\ funs[f].own = cur /\ funs[f].home \in DOMAIN tables
  BY <1>1, <1>2 DEF Type, Scopes, Owned, Placed
<1>4. PICK n \in Node : n.node = "end" /\ n.id = f /\ tree' = Append(tree, n)
  <2>1. f \in Nat
    BY <1>3, Fields
  <2>2. [node |-> "end", id |-> f] \in Node
    BY <2>1 DEF Node
  <2> QED BY <2>2, <1>2
<1>5. Known(n)' /\ Before(n)' = cur /\ After(n)' = cur'
  BY <1>2, <1>3, <1>4 DEF Known, Before, After
<1>6. /\ Follows' /\ tree' \in Seq(Node) /\ \A g : Pending(g) => Pending(g)'
      /\ Here' = Here
  BY <1>2, <1>4, <1>5, NodeAdded
<1>7. Collected'
  BY <1>2, <1>6 DEF Collected
<1>8. Scopes'
  BY <1>2 DEF Scopes, Placed, Owned, Entered
<1>9. Type'
  BY <1>2, <1>3, <1>6 DEF Type
<1> QED BY <1>2, <1>6, <1>7, <1>8, <1>9 DEF Renaming, Coded

(* The nodes met so far stand where they stood.                            *)
LEMMA NodesKept ==
  ASSUME Type, Follows, tree' = tree, cur' = cur,
         \A f \in DOMAIN funs : f \in DOMAIN funs' /\ funs'[f] = funs[f],
         \A c \in DOMAIN calls : c \in DOMAIN calls' /\ calls'[c] = calls[c],
         \A i \in DOMAIN inits' :
           inits'[i].node = "call" /\ inits'[i].id \in DOMAIN calls' /\ calls'[inits'[i].id].table = 1
  PROVE  Follows' /\ Here' = Here /\ \A f : Pending(f)' <=> Pending(f)
<1> DEFINE K(i) == Known(tree[i])
           B(i) == Before(tree[i])
           A(i) == After(tree[i])
<1>1. \A i \in DOMAIN tree : K(i)' /\ B(i)' = B(i) /\ A(i)' = A(i)
  <2> TAKE i \in DOMAIN tree
  <2>1. PICK item : item = tree[i]
    OBVIOUS
  <2>2. tree'[i] = item /\ Known(item)
    BY <2>1 DEF Follows
  <2>3. Known(item)' /\ Before(item)' = Before(item) /\ After(item)' = After(item)
    BY <2>2, NodeKept
  <2> QED BY <2>1, <2>2, <2>3
<1>2. \A i \in DOMAIN tree : i + 1 \in DOMAIN tree => A(i) = B(i + 1)
  BY DEF Follows
<1>3. tree # <<>> => Len(tree) \in DOMAIN tree /\ 1 \in DOMAIN tree /\ A(Len(tree)) = cur
  BY DEF Follows, Type
<1>4. \A i \in DOMAIN tree' : K(i)'
  BY <1>1
<1>5. \A i \in DOMAIN tree' : i + 1 \in DOMAIN tree' => A(i)' = B(i + 1)'
  BY <1>1, <1>2
<1>6. tree' # <<>> => After(tree[Len(tree)])' = cur'
  BY <1>1, <1>3
<1>7. \A i, j \in DOMAIN tree' :
        tree'[i].node = "fundef" /\ tree'[j].node = "fundef" /\ tree'[i].id = tree'[j].id
        => i = j
  BY DEF Follows
<1>8. Follows'
  BY <1>4, <1>5, <1>6, <1>7 DEF Follows
<1>9. \A f : Pending(f)' <=> Pending(f)
  BY DEF Pending
<1>10. Here' = Here
  <2>1. tree # <<>> => B(1)' = B(1)
    BY <1>1, <1>3
  <2> QED BY <2>1 DEF Here
<1> QED BY <1>8, <1>9, <1>10

LEMMA FundecStep == CallsInv /\ FNSfundec => CallsInv'
<1> SUFFICES ASSUME CallsInv, FNSfundec PROVE CallsInv'
  OBVIOUS
<1> USE DEF CallsInv
<1>1. /\ Scopes'
      /\ funs' \in Seq(Function) /\ tables' \in Seq(Table) /\ cur' \in DOMAIN tables'
      /\ \A f \in DOMAIN funs : f \in DOMAIN funs' /\ funs'[f] = funs[f]
      /\ \A f \in DOMAIN funs' \ DOMAIN funs : funs'[f].isextern
  BY FundecScopes
<1>2. /\ pass = "fns" /\ pass' = "fns" /\ calls' = calls /\ inits' = inits
      /\ prefix' = prefix /\ code' = code /\ tree' = tree /\ cur' = cur
  BY DEF FNSfundec, made
<1>3. \A i \in DOMAIN inits' :
        inits'[i].node = "call" /\ inits'[i].id \in DOMAIN calls' /\ calls'[inits'[i].id].table = 1
  BY <1>2 DEF Follows
<1>4. Follows' /\ Here' = Here /\ \A f : Pending(f)' <=> Pending(f)
  BY <1>1, <1>2, <1>3, NodesKept
<1>5. Collected'
  <2>1. \A f \in DOMAIN funs' : ~funs'[f].isextern => Pending(f)'
    BY <1>1, <1>2, <1>4 DEF Collected
  <2> QED BY <2>1, <1>2, <1>4 DEF Collected
<1>6. Type'
  BY <1>1, <1>2 DEF Type
<1> QED BY <1>1, <1>2, <1>4, <1>5, <1>6 DEF Renaming, Coded

LEMMA FunCallStep == CallsInv /\ FunCall => CallsInv'
<1> SUFFICES ASSUME CallsInv, FunCall PROVE CallsInv'
  OBVIOUS
<1> USE DEF CallsInv
<1>1. PICK C : C = Len(calls) + 1
  OBVIOUS
<1>2. PICK call \in Call : calls' = Append(calls, call) /\ call.table = cur
  <2>1. PICK name \in Names, inner, literals \in BOOLEAN :
          calls' = Append(calls, [name |-> name, table |-> cur, inner |-> inner,
                                  literals |-> literals])
    BY DEF FunCall
  <2> DEFINE new == [name |-> name, table |-> cur, inner |-> inner, literals |-> literals]
  <2>2. cur \in Nat
    BY DEF Type
  <2>3. new \in Call
    BY <2>2 DEF Call
  <2>4. new.table = cur
    OBVIOUS
  <2>5. calls' = Append(calls, new)
    BY <2>1
  <2> HIDE DEF new
  <2> QED BY <2>3, <2>4, <2>5
<1>3. /\ DOMAIN calls' = DOMAIN calls \cup {C} /\ C \in Nat
      /\ \A c \in DOMAIN calls : c \in DOMAIN calls' /\ calls'[c] = calls[c]
      /\ calls'[C] = call /\ calls' \in Seq(Call)
  BY <1>1, <1>2, Longer DEF Type
<1>4. PICK n \in Node : n = [node |-> "call", id |-> C] /\ n.node = "call" /\ n.id = C
  <2>1. [node |-> "call", id |-> C] \in Node
    BY <1>3 DEF Node
  <2> QED BY <2>1
<1>5. /\ pass = "fns" /\ pass' = "fns" /\ funs' = funs /\ tables' = tables /\ cur' = cur
      /\ prefix' = prefix /\ code' = code
      /\ IF cur = 1 THEN inits' = Append(inits, n) /\ tree' = tree
         ELSE tree' = Append(tree, n) /\ inits' = inits
  BY <1>1, <1>4 DEF FunCall, made
<1>6. Scopes'
  <2>1. \A c \in DOMAIN calls' : calls'[c].table \in DOMAIN tables
    BY <1>2, <1>3 DEF Scopes, Type
  <2> QED BY <1>5, <2>1 DEF Scopes, Placed, Owned, Entered
<1>7. /\ Follows' /\ Here' = Here /\ tree' \in Seq(Node) /\ inits' \in Seq(Node)
      /\ \A f : Pending(f) => Pending(f)'
  <2>1. CASE cur = 1
    <3>1. /\ DOMAIN inits' = DOMAIN inits \cup {Len(inits) + 1} /\ inits' \in Seq(Node)
          /\ \A i \in DOMAIN inits : inits'[i] = inits[i]
          /\ inits'[Len(inits) + 1] = n
      <4>1. inits \in Seq(Node)
        BY DEF Type
      <4>2. inits' = Append(inits, n)
        BY <1>5, <2>1
      <4> QED BY <4>1, <4>2, Longer
    <3>2. \A i \in DOMAIN inits' :
            inits'[i].node = "call" /\ inits'[i].id \in DOMAIN calls' /\ calls'[inits'[i].id].table = 1
      BY <1>2, <1>3, <1>4, <2>1, <3>1 DEF Follows
    <3> QED BY <1>3, <1>5, <2>1, <3>1, <3>2, NodesKept DEF Type
  <2>2. CASE cur # 1
    <3>1. Known(n)' /\ Before(n)' = cur /\ After(n)' = cur'
      BY <1>2, <1>3, <1>4, <1>5 DEF Known, Before, After
    <3> QED BY <1>3, <1>4, <1>5, <2>2, <3>1, NodeAdded DEF Type
  <2> QED BY <2>1, <2>2
<1>8. Collected'
  BY <1>5, <1>7 DEF Collected
<1>9. Type'
  BY <1>3, <1>5, <1>7 DEF Type
<1> QED BY <1>5, <1>6, <1>7, <1>8, <1>9 DEF Renaming, Coded

LEMMA EndStep == CallsInv /\ FNSend => CallsInv'
<1> SUFFICES ASSUME CallsInv, FNSend PROVE CallsInv'
  OBVIOUS
<1> USE DEF CallsInv
<1>1. /\ pass = "fns" /\ pass' = "rso" /\ cur = 1 /\ funs' = funs /\ tables' = tables
      /\ cur' = cur /\ calls' = calls /\ tree' = tree /\ inits' = inits
      /\ prefix' = prefix /\ code' = code
  BY DEF FNSend, made
<1>2. \A i \in DOMAIN inits' :
        inits'[i].node = "call" /\ inits'[i].id \in DOMAIN calls' /\ calls'[inits'[i].id].table = 1
  BY <1>1 DEF Follows
<1>3. Follows' /\ Here' = Here /\ \A f : Pending(f)' <=> Pending(f)
  BY <1>1, <1>2, NodesKept
<1>4. Scopes'
  BY <1>1 DEF Scopes, Placed, Owned, Entered
<1>5. Collected'
  BY <1>1, <1>3 DEF Collected
<1>6. Type'
  BY <1>1 DEF Type
<1> QED BY <1>1, <1>3, <1>4, <1>5, <1>6 DEF Renaming, Coded

-----------------------------------------------------------------------------
(* funtable_get_function: the entries of a name in a table are the         *)
(* functions of that name in that scope, the first entry the first one.    *)
LEMMA FirstEntry ==
  ASSUME Type, Scopes, NEW t \in DOMAIN tables, NEW name
  PROVE  LET E == EntriesNamed(t, name)
             e == tables[t].funs[LeastOf(E)]
         IN  /\ E = {} => \A g \in DOMAIN funs : funs[g].home = t => funs[g].name # name
             /\ E # {} => /\ e \in DOMAIN funs /\ funs[e].home = t /\ funs[e].name = name
                          /\ \A g \in DOMAIN funs :
                               funs[g].home = t /\ funs[g].name = name => e <= g
<1> DEFINE E == EntriesNamed(t, name)
<1>1. PICK l \in Seq(Nat) : l = tables[t].funs
  BY Fields
<1>2. /\ \A i \in DOMAIN l : l[i] \in DOMAIN funs /\ funs[l[i]].home = t
      /\ \A i, j \in DOMAIN l : i < j => l[i] < l[j]
      /\ \A f \in DOMAIN funs : funs[f].home = t => \E i \in DOMAIN l : l[i] = f
  BY <1>1 DEF Scopes, Entered
<1>3. E = {i \in DOMAIN l : funs[l[i]].name = name}
  BY <1>1 DEF EntriesNamed
<1> HIDE DEF E
<1>4. E = {} => \A g \in DOMAIN funs : funs[g].home = t => funs[g].name # name
  BY <1>2, <1>3
<1>5. ASSUME E # {}
      PROVE  LET e == l[LeastOf(E)]
             IN  /\ e \in DOMAIN funs /\ funs[e].home = t /\ funs[e].name = name
                 /\ \A g \in DOMAIN funs : funs[g].home = t /\ funs[g].name = name => e <= g
  <2>1. E \in SUBSET Nat
    BY <1>3
  <2>2. PICK m : m = LeastOf(E)
    OBVIOUS
  <2>3. m \in E /\ \A k \in E : m <= k
    BY <1>5, <2>1, <2>2, LeastFound
  <2>4. l[m] \in DOMAIN funs /\ funs[l[m]].home = t /\ funs[l[m]].name = name
    BY <1>2, <1>3, <2>3
  <2>5. ASSUME NEW g \in DOMAIN funs, funs[g].home = t, funs[g].name = name
        PROVE  l[m] <= g
    <3>1. PICK i \in DOMAIN l : l[i] = g
      BY <1>2, <2>5
    <3>2. m <= i /\ i \in Nat /\ m \in Nat /\ l[i] \in Nat /\ l[m] \in Nat
      BY <1>3, <2>3, <2>5, <3>1
    <3>3. m = i \/ m < i
      BY <3>2
    <3> QED BY <1>2, <1>3, <2>3, <3>1, <3>2, <3>3
  <2> QED BY <2>2, <2>4, <2>5
<1> QED BY <1>1, <1>4, <1>5 DEF E

LEMMA FoundUnique ==
  ASSUME Type, NEW t \in DOMAIN tables, NEW name,
         NEW f \in DOMAIN funs, NEW g \in DOMAIN funs, Found(f, t, name), Found(g, t, name)
  PROVE  f = g
<1>1. PICK n \in DOMAIN tables[t].chain : FoundAt(f, t, name, n)
  BY DEF Found
<1>2. PICK m \in DOMAIN tables[t].chain : FoundAt(g, t, name, m)
  BY DEF Found
<1>3. n \in Nat /\ m \in Nat /\ n > 0 /\ m > 0 /\ f \in Nat /\ g \in Nat
  BY Fields, SMTT(20)
<1>4. ~(n < m) /\ ~(m < n)
  BY <1>1, <1>2, <1>3 DEF FoundAt
<1>5. n = m
  BY <1>3, <1>4
<1>6. f <= g /\ g <= f
  BY <1>1, <1>2, <1>5 DEF FoundAt
<1> QED BY <1>3, <1>6

LEMMA GetFunctionFinds ==
  ASSUME Type, Scopes, NEW t \in DOMAIN tables, NEW name
  PROVE  LET f == GetFunction(t, name)
         IN  /\ f = 0 \/ (f \in DOMAIN funs /\ Found(f, t, name))
             /\ \A g \in DOMAIN funs : Found(g, t, name) => f = g
<1> DEFINE found == {n \in DOMAIN tables[t].chain :
                       EntriesNamed(tables[t].chain[n], name) # {}}
<1>1. PICK ch \in Seq(Nat) : ch = tables[t].chain
  BY Fields
<1>2. \A n \in DOMAIN ch : ch[n] \in DOMAIN tables
  BY <1>1 DEF Scopes
<1>3. found = {n \in DOMAIN ch : EntriesNamed(ch[n], name) # {}}
  BY <1>1
<1>4. GetFunction(t, name) =
        IF found = {} THEN 0
        ELSE tables[ch[LeastOf(found)]].funs[LeastOf(EntriesNamed(ch[LeastOf(found)], name))]
  BY <1>1 DEF GetFunction
<1> HIDE DEF found
<1>5. CASE found = {}
  <2>1. \A g \in DOMAIN funs : \A n \in DOMAIN ch : funs[g].home = ch[n] => funs[g].name # name
    <3>1. SUFFICES ASSUME NEW g \in DOMAIN funs, NEW n \in DOMAIN ch, funs[g].home = ch[n]
                   PROVE  funs[g].name # name
      OBVIOUS
    <3>2. PICK u \in DOMAIN tables : u = ch[n] /\ EntriesNamed(u, name) = {}
      BY <1>2, <1>3, <1>5
    <3>3. \A h \in DOMAIN funs : funs[h].home = u => funs[h].name # name
      BY <3>2, FirstEntry
    <3> QED BY <3>1, <3>2, <3>3
  <2>2. \A g \in DOMAIN funs : ~Found(g, t, name)
    BY <1>1, <2>1 DEF Found, FoundAt
  <2> QED BY <1>4, <1>5, <2>2
<1>6. CASE found # {}
  <2>1. PICK n : n = LeastOf(found)
    OBVIOUS
  <2>2. n \in found /\ \A k \in found : n <= k
    <3>1. found \in SUBSET Nat
      BY <1>3
    <3> QED BY <1>6, <2>1, <3>1, LeastFound
  <2>3. PICK f : f = GetFunction(t, name)
    OBVIOUS
  <2>4. f = tables[ch[n]].funs[LeastOf(EntriesNamed(ch[n], name))]
    BY <1>4, <1>6, <2>1, <2>3
  <2>5. n \in DOMAIN ch /\ ch[n] \in DOMAIN tables /\ EntriesNamed(ch[n], name) # {}
    BY <1>2, <1>3, <2>2
  <2>6. /\ f \in DOMAIN funs /\ funs[f].home = ch[n] /\ funs[f].name = name
        /\ \A g \in DOMAIN funs : funs[g].home = ch[n] /\ funs[g].name = name => f <= g
    BY <2>4, <2>5, FirstEntry
  <2>7. ASSUME NEW g \in DOMAIN funs, funs[g].name = name, NEW k \in 1 .. n - 1
        PROVE  funs[g].home # ch[k]
    <3>1. n \in 1 .. Len(ch) /\ DOMAIN ch = 1 .. Len(ch) /\ Len(ch) \in Nat
      BY <2>5
    <3>2. k \in DOMAIN ch /\ k < n /\ k \in Nat /\ n \in Nat
      BY <3>1
    <3>3. k \notin found
      BY <2>2, <3>2
    <3>4. PICK u \in DOMAIN tables : u = ch[k] /\ EntriesNamed(u, name) = {}
      BY <1>2, <1>3, <3>2, <3>3
    <3>5. \A h \in DOMAIN funs : funs[h].home = u => funs[h].name # name
      BY <3>4, FirstEntry
    <3> QED BY <2>7, <3>4, <3>5
  <2>8. FoundAt(f, t, name, n)
    BY <1>1, <2>6, <2>7 DEF FoundAt
  <2>9. Found(f, t, name)
    BY <1>1, <2>5, <2>8 DEF Found
  <2> QED BY <2>3, <2>6, <2>9, FoundUnique
<1> QED BY <1>5, <1>6

(* DSprogram puts the calls in initialisers behind the others.             *)
LEMMA InitsMoved ==
  ASSUME Type, Follows, Collected, pass = "rso", tree' = tree \o inits, inits' = inits,
         funs' = funs, calls' = calls, cur' = cur
  PROVE  /\ Follows' /\ tree' \in Seq(Node) /\ Here' = 1
         /\ \A f \in DOMAIN funs : ~funs[f].isextern => Pending(f)'
<1> DEFINE L == Len(tree)
           K(i) == Known(tree[i])
           B(i) == Before(tree[i])
           A(i) == After(tree[i])
<1>1. /\ tree' \in Seq(Node) /\ L \in Nat /\ DOMAIN tree = 1 .. L
      /\ DOMAIN tree' = 1 .. Len(tree') /\ DOMAIN inits = 1 .. Len(inits)
      /\ Len(tree') = L + Len(inits) /\ Len(inits) \in Nat
      /\ \A i \in DOMAIN tree' : tree'[i] = IF i <= L THEN tree[i] ELSE inits[i - L]
  BY ConcatProperties DEF Type
<1>2. cur = 1 /\ Here = 1
  BY DEF Collected
<1>3. \A i \in DOMAIN tree : i \in DOMAIN tree' /\ tree'[i] = tree[i]
  BY <1>1
<1>4. \A i \in DOMAIN tree' \ DOMAIN tree :
        i - L \in DOMAIN inits /\ tree'[i] = inits[i - L]
  BY <1>1
<1>5. \A i \in DOMAIN tree : K(i)' /\ B(i)' = B(i) /\ A(i)' = A(i)
  BY <1>3 DEF Follows, Known, Before, After
<1>6. \A i \in DOMAIN tree' \ DOMAIN tree :
        tree'[i].node = "call" /\ K(i)' /\ B(i)' = 1 /\ A(i)' = 1
  <2> TAKE i \in DOMAIN tree' \ DOMAIN tree
  <2>1. PICK item : item = tree'[i]
    OBVIOUS
  <2>2. item.node = "call" /\ item.id \in DOMAIN calls /\ calls[item.id].table = 1
    BY <1>4, <2>1 DEF Follows
  <2>3. Known(item)' /\ Before(item)' = 1 /\ After(item)' = 1
    BY <2>2 DEF Known, Before, After
  <2> QED BY <2>1, <2>2, <2>3
<1>7. \A i \in DOMAIN tree : i + 1 \in DOMAIN tree => A(i) = B(i + 1)
  BY DEF Follows
<1>8. L \in DOMAIN tree => A(L) = 1
  BY <1>1, <1>2 DEF Follows
<1>9. \A i \in DOMAIN tree' : K(i)'
  BY <1>5, <1>6
<1>10. \A i \in DOMAIN tree' : i + 1 \in DOMAIN tree' => A(i)' = B(i + 1)'
  <2>1. SUFFICES ASSUME NEW i \in DOMAIN tree', i + 1 \in DOMAIN tree' PROVE A(i)' = B(i + 1)'
    OBVIOUS
  <2>2. CASE i + 1 \in DOMAIN tree
    <3>1. i \in DOMAIN tree
      BY <1>1, <2>1, <2>2
    <3>2. A(i)' = A(i) /\ B(i + 1)' = B(i + 1)
      BY <1>5, <2>2, <3>1
    <3> QED BY <1>7, <2>2, <3>1, <3>2
  <2>3. CASE i + 1 \notin DOMAIN tree
    <3>1. B(i + 1)' = 1
      BY <1>6, <2>1, <2>3
    <3>2. i \in DOMAIN tree => i = L
      BY <1>1, <2>1, <2>3
    <3>3. A(i)' = 1
      BY <1>5, <1>6, <1>8, <2>1, <3>2
    <3> QED BY <3>1, <3>3
  <2> QED BY <2>2, <2>3
<1>11. tree' # <<>> => After(tree[Len(tree)])' = cur'
  <2>1. SUFFICES ASSUME tree' # <<>> PROVE After(tree[Len(tree)])' = 1
    BY <1>2
  <2>2. PICK j \in DOMAIN tree' : j = Len(tree')
    BY <1>1, <2>1
  <2>3. j \in DOMAIN tree => j = L
    <3>1. j = L + Len(inits) /\ L \in Nat /\ Len(inits) \in Nat /\ DOMAIN tree = 1 .. L
      BY <1>1, <2>2
    <3> HIDE DEF L
    <3> QED BY <3>1
  <2>4. A(j)' = 1
    BY <1>5, <1>6, <1>8, <2>3
  <2>5. After(tree[Len(tree)])' = A(j)'
    BY <2>2
  <2> QED BY <2>4, <2>5
<1>12. \A i, j \in DOMAIN tree' :
         tree'[i].node = "fundef" /\ tree'[j].node = "fundef" /\ tree'[i].id = tree'[j].id
         => i = j
  <2>1. \A i \in DOMAIN tree' : tree'[i].node = "fundef" => i \in DOMAIN tree
    BY <1>6
  <2> QED BY <1>3, <2>1 DEF Follows
<1>13. Follows'
  BY <1>9, <1>10, <1>11, <1>12 DEF Follows
<1>14. \A f \in DOMAIN funs : ~funs[f].isextern => Pending(f)'
  BY <1>3 DEF Collected, Pending
<1>15. Here' = 1
  <2>1. CASE tree' = <<>>
    BY <1>2, <2>1 DEF Here
  <2>2. CASE tree' # <<>>
    <3>1. 1 \in DOMAIN tree' /\ Here' = B(1)'
      BY <1>1, <2>2 DEF Here
    <3>2. 1 \in DOMAIN tree => B(1) = 1
      BY <1>1, <1>2 DEF Here
    <3> QED BY <1>5, <1>6, <3>1, <3>2
  <2> QED BY <2>1, <2>2
<1> QED BY <1>1, <1>13, <1>14, <1>15

LEMMA ResolveStep == CallsInv /\ RSOfuncall => CallsInv'
<1> SUFFICES ASSUME CallsInv, RSOfuncall PROVE CallsInv'
  OBVIOUS
<1> USE DEF CallsInv
<1>1. /\ pass = "rso" /\ funs' = funs /\ tables' = tables /\ cur' = cur /\ calls' = calls
      /\ inits' = inits /\ prefix' = prefix /\ code' = code /\ tree' = tree \o inits
      /\ pass' \in {"aborted", "rnf"}
      /\ pass' = "rnf" => \A c \in DOMAIN ptr' : ptr'[c] # 0
      /\ ptr' = [c \in DOMAIN calls |-> GetFunction(calls[c].table, calls[c].name)]
      /\ header' = [f \in DOMAIN funs |-> <<funs[f].name>>]
      /\ named' = [c \in DOMAIN calls |-> <<calls[c].name>>]
  BY DEF RSOfuncall, Fails
<1>2. /\ Follows' /\ tree' \in Seq(Node) /\ Here' = 1
      /\ \A f \in DOMAIN funs : ~funs[f].isextern => Pending(f)'
  BY <1>1, InitsMoved
<1>3. Scopes'
  BY <1>1 DEF Scopes, Placed, Owned, Entered
<1>4. Type'
  BY <1>1, <1>2 DEF Type
<1>5. Collected' /\ Coded'
  BY <1>1 DEF Collected, Coded
<1>6. Renaming'
  <2>1. SUFFICES ASSUME pass' = "rnf" PROVE Renaming'
    BY <1>1 DEF Renaming
  <2>2. \A c \in DOMAIN calls : /\ ptr'[c] \in DOMAIN funs
                                /\ Found(ptr'[c], calls[c].table, calls[c].name)
    <3> TAKE c \in DOMAIN calls
    <3>1. calls[c].table \in DOMAIN tables
      BY DEF Scopes
    <3>2. ptr'[c] = GetFunction(calls[c].table, calls[c].name) /\ ptr'[c] # 0
      BY <1>1, <2>1
    <3> QED BY <3>1, <3>2, GetFunctionFinds
  <2>3. ptr' \in [DOMAIN calls' -> DOMAIN funs']
    BY <1>1, <2>2
  <2>4. \A c \in DOMAIN calls' : Found(ptr[c], calls[c].table, calls[c].name)'
    <3> TAKE c \in DOMAIN calls'
    <3>1. PICK f : f = ptr'[c]
      OBVIOUS
    <3>2. Found(f, calls[c].table, calls[c].name)
      BY <1>1, <2>2, <3>1
    <3>3. Found(f, calls[c].table, calls[c].name)'
      BY <1>1, <3>2 DEF Found, FoundAt
    <3> QED BY <3>1, <3>3
  <2>5. \A f \in DOMAIN funs : <<funs[f].name>> \in Seq(Names) /\ <<funs[f].name>> # <<>>
    BY Fields
  <2>6. header' \in [DOMAIN funs' -> Seq(Names)]
    BY <1>1, <2>5
  <2>7. prefix' = <<>> /\ prefix' \in Seq(Seq(Names))
    BY <1>1 DEF Collected
  <2>8. \A c \in DOMAIN calls : <<calls[c].name>> \in Seq(Names)
    BY Fields
  <2>9. named' \in [DOMAIN calls' -> Seq(Names)]
        /\ \A c \in DOMAIN calls' : named'[c] = <<calls'[c].name>>
    BY <1>1, <2>8
  <2>10. \A f \in DOMAIN funs' : Headed(f)'
    <3> TAKE f \in DOMAIN funs'
    <3>1. Pending(f)' \/ funs'[f].home = 1
      BY <1>1, <1>2 DEF Scopes, Placed
    <3>2. header'[f] = <<funs'[f].name>> /\ header'[f] # <<>>
      BY <1>1, <2>5
    <3> QED BY <3>1, <3>2 DEF Headed
  <2>11. Prefixes'
    <3>1. tables'[1].chain = <<1>> /\ Len(<<1>>) = 1 /\ Len(<<>>) = 0 /\ DOMAIN <<>> = {}
      BY <1>1 DEF Scopes
    <3>2. Len(prefix') + 1 = Len(tables'[1].chain) /\ DOMAIN prefix' = {}
      BY <2>7, <3>1
    <3> QED BY <1>2, <3>2 DEF Prefixes
  <2> QED BY <2>3, <2>4, <2>6, <2>7, <2>9, <2>10, <2>11 DEF Renaming
<1> QED BY <1>2, <1>3, <1>4, <1>5, <1>6

-----------------------------------------------------------------------------
(* RNF goes on to the next node.                                           *)
LEMMA NodeVisited ==
  ASSUME Type, Follows, tree # <<>>, NEW n, n = Head(tree), tree' = Tail(tree), inits' = inits,
         funs' = funs, calls' = calls, cur' = cur
  PROVE  /\ Follows' /\ tree' \in Seq(Node) /\ Known(n)
         /\ Here = Before(n) /\ Here' = After(n)
         /\ \A f : Pending(f)' => Pending(f)
         /\ \A f : Pending(f) => Pending(f)' \/ (n.node = "fundef" /\ f = n.id)
         /\ n.node = "fundef" => Pending(n.id) /\ ~Pending(n.id)'
<1> DEFINE L == Len(tree)
           K(i) == Known(tree[i])
           B(i) == Before(tree[i])
           A(i) == After(tree[i])
<1>1. /\ tree' \in Seq(Node) /\ L \in Nat /\ L > 0 /\ DOMAIN tree = 1 .. L
      /\ Len(tree') = L - 1 /\ DOMAIN tree' = 1 .. L - 1 /\ n = tree[1]
      /\ \A i \in DOMAIN tree' : tree'[i] = tree[i + 1]
  BY HeadTailProperties DEF Type
<1>2. /\ \A i \in DOMAIN tree' : i \in Nat /\ i + 1 \in DOMAIN tree /\ tree'[i] = tree[i + 1]
      /\ \A i \in DOMAIN tree : i = 1 \/ (i - 1 \in DOMAIN tree' /\ tree'[i - 1] = tree[i])
      /\ 1 \in DOMAIN tree
  BY <1>1
<1>3. \A i \in DOMAIN tree' : K(i)' /\ B(i)' = B(i + 1) /\ A(i)' = A(i + 1)
  BY <1>2 DEF Follows, Known, Before, After
<1>4. \A i \in DOMAIN tree : i + 1 \in DOMAIN tree => A(i) = B(i + 1)
  BY DEF Follows
<1>5. A(L) = cur
  BY DEF Follows
<1>6. \A i \in DOMAIN tree' : i + 1 \in DOMAIN tree' => A(i)' = B(i + 1)'
  <2>1. SUFFICES ASSUME NEW i \in DOMAIN tree', i + 1 \in DOMAIN tree' PROVE A(i)' = B(i + 1)'
    OBVIOUS
  <2>2. i + 1 \in DOMAIN tree /\ i + 1 + 1 \in DOMAIN tree
    BY <1>2, <2>1
  <2>3. A(i)' = A(i + 1) /\ B(i + 1)' = B(i + 1 + 1)
    BY <1>3, <2>1
  <2> QED BY <1>4, <2>2, <2>3
<1>7. tree' # <<>> => After(tree[Len(tree)])' = cur'
  <2>1. SUFFICES ASSUME tree' # <<>> PROVE After(tree[Len(tree)])' = cur
    OBVIOUS
  <2>2. PICK j \in DOMAIN tree' : j = Len(tree') /\ j + 1 = L
    BY <1>1, <2>1
  <2>3. A(j)' = A(j + 1)
    BY <1>3
  <2>4. After(tree[Len(tree)])' = A(j)'
    BY <2>2
  <2> QED BY <1>5, <2>2, <2>3, <2>4
<1>8. \A i, j \in DOMAIN tree :
         tree[i].node = "fundef" /\ tree[j].node = "fundef" /\ tree[i].id = tree[j].id
         => i = j
  BY DEF Follows
<1>9. \A i, j \in DOMAIN tree' :
         tree'[i].node = "fundef" /\ tree'[j].node = "fundef" /\ tree'[i].id = tree'[j].id
         => i = j
  <2> TAKE i, j \in DOMAIN tree'
  <2> HAVE tree'[i].node = "fundef" /\ tree'[j].node = "fundef" /\ tree'[i].id = tree'[j].id
  <2>1. i + 1 = j + 1
    BY <1>2, <1>8
  <2> QED BY <1>2, <2>1
<1>10. \A i \in DOMAIN tree' : K(i)'
  BY <1>3
<1>11. \A i \in DOMAIN inits' :
         inits'[i].node = "call" /\ inits'[i].id \in DOMAIN calls' /\ calls'[inits'[i].id].table = 1
  BY DEF Follows
<1>12. Follows'
  BY <1>6, <1>7, <1>9, <1>10, <1>11 DEF Follows
<1>13. Here = Before(n) /\ Known(n)
  BY <1>1, <1>2 DEF Here, Follows
<1>14. Here' = After(n)
  <2>1. CASE tree' = <<>>
    <3>1. Len(tree') = 0
      BY <2>1, EmptySeq
    <3>2. L = 1
      BY <1>1, <3>1
    <3>3. After(n) = cur
      BY <1>1, <1>5, <3>2
    <3> QED BY <2>1, <3>3 DEF Here
  <2>2. CASE tree' # <<>>
    <3>1. 1 \in DOMAIN tree'
      BY <1>1, <2>2
    <3>2. B(1)' = B(1 + 1) /\ 1 + 1 \in DOMAIN tree
      BY <1>2, <1>3, <3>1
    <3>3. A(1) = B(1 + 1)
      BY <1>2, <1>4, <3>2
    <3>4. Here' = B(1)'
      BY <2>2 DEF Here
    <3> QED BY <1>1, <3>2, <3>3, <3>4
  <2> QED BY <2>1, <2>2
<1>15. \A f : Pending(f)' => Pending(f)
  BY <1>2 DEF Pending
<1>16. \A f : Pending(f) => Pending(f)' \/ (n.node = "fundef" /\ f = n.id)
  BY <1>1, <1>2 DEF Pending
<1>17. n.node = "fundef" => Pending(n.id) /\ ~Pending(n.id)'
  <2> HAVE n.node = "fundef"
  <2>1. Pending(n.id)
    BY <1>1, <1>2 DEF Pending
  <2>2. \A i \in DOMAIN tree' : ~(tree'[i].node = "fundef" /\ tree'[i].id = n.id)
    <3> TAKE i \in DOMAIN tree'
    <3>1. i + 1 # 1 /\ i + 1 \in DOMAIN tree /\ tree'[i] = tree[i + 1]
      BY <1>2, <1>1
    <3> QED BY <1>1, <1>2, <1>8, <3>1
  <2>3. ~Pending(n.id)'
    <3>1. PICK f : f = n.id
      OBVIOUS
    <3>2. ~Pending(f)'
      BY <2>2, <3>1 DEF Pending
    <3> QED BY <3>1, <3>2
  <2> QED BY <2>1, <2>3
<1> QED BY <1>1, <1>12, <1>13, <1>14, <1>15, <1>16, <1>17

(* The chain of the functions in f, and that of any table.                 *)
LEMMA ChainOfOwn ==
  ASSUME Type, Scopes, NEW f \in DOMAIN funs, ~funs[f].isextern
  PROVE  LET inner == tables[funs[f].own].chain
             outer == tables[funs[f].home].chain
         IN  /\ funs[f].own \in DOMAIN tables /\ tables[funs[f].own].of = f
             /\ inner \in Seq(Nat) /\ outer \in Seq(Nat) /\ Len(inner) = Len(outer) + 1
             /\ inner[1] = funs[f].own
             /\ \A k \in DOMAIN outer : inner[k + 1] = outer[k]
<1>1. PICK t : t = funs[f].own
  OBVIOUS
<1>2. t \in DOMAIN tables \ {1} /\ tables[t].of = f /\ funs[f].home \in DOMAIN tables
  BY <1>1 DEF Scopes, Placed
<1>3. PICK outer \in Seq(Nat) : outer = tables[funs[f].home].chain
  BY <1>2, Fields
<1>4. tables[t].chain = <<t>> \o outer /\ t \in Nat
  BY <1>2, <1>3, Fields DEF Scopes, Owned
<1>5. PICK inner \in Seq(Nat) : inner = tables[t].chain
  BY <1>2, Fields
<1>6. /\ Len(inner) = Len(outer) + 1 /\ inner[1] = t
      /\ \A k \in DOMAIN outer : inner[k + 1] = outer[k]
  BY <1>4, <1>5, InFront
<1> QED BY <1>1, <1>2, <1>3, <1>5, <1>6

LEMMA ChainOf ==
  ASSUME Type, Scopes, NEW t \in DOMAIN tables
  PROVE  /\ tables[t].chain \in Seq(Nat) /\ Len(tables[t].chain) \in Nat \ {0}
         /\ tables[t].chain[1] = t
         /\ IF t = 1 THEN Len(tables[t].chain) = 1 ELSE Len(tables[t].chain) > 1
<1>1. \A u \in DOMAIN tables : /\ tables[u].chain \in Seq(Nat) /\ tables[u].chain[1] = u
                               /\ Len(tables[u].chain) \in Nat \ {0}
                               /\ u = 1 => Len(tables[u].chain) = 1
  <2> TAKE u \in DOMAIN tables
  <2>1. tables[u].chain \in Seq(Nat)
    BY Fields
  <2>2. CASE u = 1
    <3>1. tables[u].chain = <<1>>
      BY <2>2 DEF Scopes
    <3>2. PICK c : c = <<1>>
      OBVIOUS
    <3>3. c[1] = 1 /\ Len(c) = 1 /\ Len(c) \in Nat \ {0}
      BY <3>2
    <3>4. tables[u].chain = c
      BY <3>1, <3>2
    <3> QED BY <2>1, <2>2, <3>3, <3>4
  <2>3. CASE u # 1
    <3>1. PICK f : f = tables[u].of
      OBVIOUS
    <3>2. f \in DOMAIN funs /\ ~funs[f].isextern /\ funs[f].own = u
      BY <2>3, <3>1 DEF Scopes, Owned
    <3>3. /\ tables[u].chain[1] = u /\ tables[funs[f].home].chain \in Seq(Nat)
          /\ Len(tables[u].chain) = Len(tables[funs[f].home].chain) + 1
      BY <3>2, ChainOfOwn
    <3>4. PICK k, l : k = Len(tables[u].chain) /\ l = Len(tables[funs[f].home].chain)
      OBVIOUS
    <3>5. l \in Nat /\ k = l + 1
      BY <3>3, <3>4
    <3>6. k \in Nat \ {0}
      BY <3>5
    <3> QED BY <2>1, <2>3, <3>3, <3>4, <3>6
  <2> QED BY <2>2, <2>3
<1>2. ASSUME t # 1 PROVE Len(tables[t].chain) > 1
  <2>1. PICK f : f = tables[t].of
    OBVIOUS
  <2>2. f \in DOMAIN funs /\ ~funs[f].isextern /\ funs[f].own = t /\ funs[f].home \in DOMAIN tables
    BY <1>2, <2>1 DEF Scopes, Owned, Placed
  <2>3. Len(tables[t].chain) = Len(tables[funs[f].home].chain) + 1
    BY <2>2, ChainOfOwn
  <2> QED BY <1>1, <2>2, <2>3
<1> QED BY <1>1, <1>2

(* The name RNFfundef gives a function.                                    *)
LEMMA FullName ==
  ASSUME Type, Scopes, Renaming, pass = "rnf", NEW f \in DOMAIN funs, Pending(f),
         ~funs[f].isextern, Here = funs[f].home,
         NEW full, full = IF prefix = <<>> THEN header[f] ELSE prefix[1] \o header[f]
  PROVE  /\ full \in Seq(Names) /\ full # <<>>
         /\ IF funs[f].home = 1 THEN full = <<funs[f].name>>
            ELSE /\ full = header[Around(f)] \o <<funs[f].name>>
                 /\ Around(f) \in DOMAIN funs /\ ~Pending(Around(f))
<1>1. /\ header[f] = <<funs[f].name>> /\ funs[f].name \in Names
      /\ header \in [DOMAIN funs -> Seq(Names)] /\ prefix \in Seq(Seq(Names))
      /\ funs[f].home \in DOMAIN tables /\ Prefixes
  BY Fields DEF Renaming, Headed, Scopes, Placed
<1>2. PICK chain : chain = tables[funs[f].home].chain
  OBVIOUS
<1>3. /\ Len(prefix) + 1 = Len(chain) /\ Len(prefix) \in Nat
      /\ \A k \in DOMAIN prefix :
           \E g \in DOMAIN funs :
             g = tables[chain[k]].of /\ prefix[k] = header[g] /\ ~Pending(g)
  BY <1>1, <1>2 DEF Prefixes
<1>4. /\ chain[1] = funs[f].home /\ Len(chain) \in Nat
      /\ IF funs[f].home = 1 THEN Len(chain) = 1 ELSE Len(chain) > 1
  BY <1>1, <1>2, ChainOf
<1>5. CASE funs[f].home = 1
  <2>1. Len(prefix) = 0
    BY <1>3, <1>4, <1>5
  <2>2. prefix = <<>>
    BY <1>1, <2>1
  <2> QED BY <1>1, <1>5, <2>2
<1>6. CASE funs[f].home # 1
  <2>1. Len(prefix) > 0
    BY <1>3, <1>4, <1>6
  <2>2. prefix # <<>> /\ 1 \in DOMAIN prefix
    BY <1>1, <2>1
  <2>3. PICK g \in DOMAIN funs : g = Around(f) /\ prefix[1] = header[g] /\ ~Pending(g)
    BY <1>3, <1>4, <2>2 DEF Around
  <2>4. full = header[g] \o <<funs[f].name>>
    BY <1>1, <2>2, <2>3
  <2>5. PICK h \in Seq(Names) : h = header[g]
    BY <1>1, <2>3
  <2>6. PICK last \in Seq(Names) : last = <<funs[f].name>> /\ Len(last) = 1
    BY <1>1
  <2>7. h \o last \in Seq(Names) /\ Len(h \o last) = Len(h) + 1 /\ Len(h) \in Nat
    BY <2>5, <2>6, ConcatProperties
  <2>8. full \in Seq(Names) /\ full # <<>>
    <3>1. PICK w : w = h \o last
      OBVIOUS
    <3>2. w \in Seq(Names) /\ Len(w) > 0
      BY <2>7, <3>1
    <3>3. w # <<>>
      BY <3>2
    <3> QED BY <2>4, <2>5, <2>6, <3>1, <3>2, <3>3
  <2> QED BY <1>6, <2>3, <2>4, <2>8
<1> QED BY <1>5, <1>6

(* What RNF and CGN leave alone.                                           *)
LEMMA RestKept ==
  ASSUME Type, Scopes, Renaming, pass \in {"rnf", "cgn", "done"},
         funs' = funs, tables' = tables, calls' = calls, ptr' = ptr
  PROVE  /\ Scopes'
         /\ ptr' \in [DOMAIN calls' -> DOMAIN funs']
         /\ \A c \in DOMAIN calls' : Found(ptr[c], calls[c].table, calls[c].name)'
BY DEF Scopes, Placed, Owned, Entered, Renaming, Found, FoundAt

LEMMA RenameStep == CallsInv /\ RNFfundef => CallsInv'
<1> SUFFICES ASSUME CallsInv, RNFfundef PROVE CallsInv'
  OBVIOUS
<1> USE DEF CallsInv
<1>1. PICK n : n = Item
  OBVIOUS
<1>2. PICK f : f = n.id
  OBVIOUS
<1>3. PICK full : full = IF prefix = <<>> THEN header[f] ELSE prefix[1] \o header[f]
  OBVIOUS
<1>4. /\ pass = "rnf" /\ pass' = pass /\ tree # <<>> /\ n = Head(tree) /\ n.node = "fundef"
      /\ tree' = Tail(tree) /\ funs' = funs /\ tables' = tables /\ cur' = cur /\ calls' = calls
      /\ inits' = inits /\ ptr' = ptr /\ named' = named /\ code' = code
      /\ header' = [header EXCEPT ![f] = full] /\ prefix' = <<full>> \o prefix
  BY <1>1, <1>2, <1>3 DEF RNFfundef, Visit, Item
<1>5. /\ Follows' /\ tree' \in Seq(Node) /\ Known(n)
      /\ Here = Before(n) /\ Here' = After(n)
      /\ \A g : Pending(g)' => Pending(g)
      /\ \A g : Pending(g) => Pending(g)' \/ g = f
      /\ Pending(f) /\ ~Pending(f)'
  BY <1>2, <1>4, NodeVisited
<1>6. /\ f \in DOMAIN funs /\ ~funs[f].isextern /\ Here = funs[f].home /\ Here' = funs[f].own
  BY <1>2, <1>4, <1>5 DEF Known, Before, After
<1>7. /\ full \in Seq(Names) /\ full # <<>>
      /\ IF funs[f].home = 1 THEN full = <<funs[f].name>>
         ELSE /\ full = header[Around(f)] \o <<funs[f].name>>
              /\ Around(f) \in DOMAIN funs /\ ~Pending(Around(f))
  BY <1>3, <1>4, <1>5, <1>6, FullName
<1>8. /\ header \in [DOMAIN funs -> Seq(Names)] /\ prefix \in Seq(Seq(Names))
      /\ \A g \in DOMAIN funs : Headed(g)
      /\ Prefixes /\ named \in [DOMAIN calls -> Seq(Names)]
      /\ \A c \in DOMAIN calls : named[c] = <<calls[c].name>> \/ Len(named[c]) > 1
  BY <1>4 DEF Renaming
<1>9. /\ header' \in [DOMAIN funs' -> Seq(Names)] /\ header'[f] = full
      /\ \A g \in DOMAIN funs : g # f => header'[g] = header[g]
  BY <1>4, <1>6, <1>7, <1>8
<1>10. \A g \in DOMAIN funs' : Headed(g)'
  <2>1. SUFFICES ASSUME NEW g \in DOMAIN funs PROVE Headed(g)'
    BY <1>4
  <2>2. Around(g)' = Around(g)
    BY <1>4 DEF Around
  <2>3. CASE g = f
    <3>1. funs[f].home # 1 => Around(f) # f
      BY <1>5, <1>7
    <3> QED BY <1>4, <1>5, <1>7, <1>9, <2>2, <2>3, <3>1 DEF Headed
  <2>4. CASE g # f
    <3>1. Headed(g) /\ header'[g] = header[g] /\ (Pending(g)' <=> Pending(g))
      BY <1>5, <1>8, <1>9, <2>4
    <3>2. CASE Pending(g) \/ funs[g].home = 1
      BY <1>4, <3>1, <3>2 DEF Headed
    <3>3. CASE ~Pending(g) /\ funs[g].home # 1
      <4>1. ~Pending(Around(g)) /\ header[g] = header[Around(g)] \o <<funs[g].name>>
        BY <3>1, <3>3 DEF Headed
      <4>2. Around(g) \in DOMAIN funs
        BY <3>3 DEF Around, Scopes, Placed, Owned
      <4>3. Around(g) # f /\ ~Pending(Around(g))'
        <5>1. PICK h : h = Around(g)
          OBVIOUS
        <5>2. h # f /\ ~Pending(h)'
          BY <1>5, <4>1, <5>1
        <5> QED BY <2>2, <5>1, <5>2
      <4>4. header'[Around(g)] = header[Around(g)]
        BY <1>9, <4>2, <4>3
      <4> QED BY <1>4, <2>2, <3>1, <3>3, <4>1, <4>3, <4>4 DEF Headed
    <3> QED BY <3>2, <3>3
  <2> QED BY <2>3, <2>4
<1>11. /\ prefix' \in Seq(Seq(Names)) /\ Len(prefix') = Len(prefix) + 1 /\ Len(prefix) \in Nat
       /\ prefix'[1] = full
       /\ \A k \in DOMAIN prefix : prefix'[k + 1] = prefix[k]
       /\ \A k \in DOMAIN prefix' : k = 1 \/ \E j \in DOMAIN prefix : k = j + 1
  <2>1. full \in Seq(Names) /\ prefix \in Seq(Seq(Names)) /\ prefix' = <<full>> \o prefix
    BY <1>4, <1>7, <1>8
  <2>2. PICK S, p, q : S = Seq(Names) /\ p = prefix /\ q = prefix'
    OBVIOUS
  <2>3. full \in S /\ p \in Seq(S) /\ q = <<full>> \o p
    BY <2>1, <2>2
  <2>4. /\ q \in Seq(S) /\ Len(q) = Len(p) + 1 /\ Len(p) \in Nat /\ q[1] = full
        /\ \A k \in DOMAIN p : q[k + 1] = p[k]
    BY <2>3, InFront
  <2>5. \A k \in DOMAIN q : k = 1 \/ \E j \in DOMAIN p : k = j + 1
    <3> TAKE k \in DOMAIN q
    <3>1. k \in 1 .. Len(p) + 1 /\ DOMAIN p = 1 .. Len(p) /\ Len(p) \in Nat
      BY <2>3, <2>4
    <3>2. k # 1 => k - 1 \in DOMAIN p /\ k = (k - 1) + 1
      BY <3>1
    <3> QED BY <3>2
  <2> QED BY <2>2, <2>4, <2>5
<1>12. Prefixes'
  <2>1. PICK inner, outer : /\ inner = tables[funs[f].own].chain
                            /\ outer = tables[funs[f].home].chain
    OBVIOUS
  <2>2. /\ inner \in Seq(Nat) /\ outer \in Seq(Nat) /\ Len(inner) = Len(outer) + 1
        /\ inner[1] = funs[f].own /\ tables[funs[f].own].of = f
        /\ \A k \in DOMAIN outer : inner[k + 1] = outer[k]
    BY <1>6, <2>1, ChainOfOwn
  <2>3. /\ Len(prefix) + 1 = Len(outer)
        /\ \A k \in DOMAIN prefix :
             \E g \in DOMAIN funs :
               g = tables[outer[k]].of /\ prefix[k] = header[g] /\ ~Pending(g)
    BY <1>6, <1>8, <2>1 DEF Prefixes
  <2>4. tables'[Here'].chain = inner
    BY <1>4, <1>6, <2>1
  <2>5. Len(prefix') + 1 = Len(inner)
    BY <1>11, <2>2, <2>3
  <2>6. ASSUME NEW k \in DOMAIN prefix'
        PROVE  \E g \in DOMAIN funs :
                 g = tables'[inner[k]].of /\ prefix'[k] = header'[g] /\ ~Pending(g)'
    <3>1. CASE k = 1
      BY <1>4, <1>5, <1>6, <1>9, <1>11, <2>2, <3>1
    <3>2. ASSUME NEW j \in DOMAIN prefix, k = j + 1
          PROVE  \E g \in DOMAIN funs :
                   g = tables'[inner[k]].of /\ prefix'[k] = header'[g] /\ ~Pending(g)'
      <4>1. j \in DOMAIN outer
        BY <1>8, <2>2, <2>3, SMTT(20)
      <4>2. inner[k] = outer[j] /\ prefix'[k] = prefix[j]
        BY <1>11, <2>2, <3>2, <4>1
      <4>3. PICK g \in DOMAIN funs : g = tables[outer[j]].of /\ prefix[j] = header[g] /\ ~Pending(g)
        BY <2>3, <3>2
      <4>4. g # f /\ ~Pending(g)' /\ header'[g] = header[g]
        BY <1>5, <1>9, <4>3
      <4> QED BY <1>4, <4>2, <4>3, <4>4
    <3>3. k = 1 \/ \E j \in DOMAIN prefix : k = j + 1
      BY <1>11, <2>6
    <3> QED BY <3>1, <3>2, <3>3
  <2> QED BY <1>4, <2>4, <2>5, <2>6 DEF Prefixes
<1>13. Type'
  BY <1>4, <1>5 DEF Type
<1>14. Collected' /\ Coded'
  BY <1>4 DEF Collected, Coded
<1>15. /\ Scopes' /\ ptr' \in [DOMAIN calls' -> DOMAIN funs']
       /\ \A c \in DOMAIN calls' : Found(ptr[c], calls[c].table, calls[c].name)'
  BY <1>4, RestKept
<1>16. Renaming'
  BY <1>4, <1>8, <1>9, <1>10, <1>11, <1>12, <1>15 DEF Renaming
<1> QED BY <1>5, <1>13, <1>14, <1>15, <1>16

LEMMA LeaveStep == CallsInv /\ RNFfundefEnd => CallsInv'
<1> SUFFICES ASSUME CallsInv, RNFfundefEnd PROVE CallsInv'
  OBVIOUS
<1> USE DEF CallsInv
<1>1. PICK n : n = Item
  OBVIOUS
<1>2. PICK f : f = n.id
  OBVIOUS
<1>3. /\ pass = "rnf" /\ pass' = pass /\ tree # <<>> /\ n = Head(tree) /\ n.node = "end"
      /\ tree' = Tail(tree) /\ funs' = funs /\ tables' = tables /\ cur' = cur /\ calls' = calls
      /\ inits' = inits /\ ptr' = ptr /\ named' = named /\ code' = code
      /\ header' = header /\ prefix' = Tail(prefix)
  BY <1>1 DEF RNFfundefEnd, Visit, Item
<1>4. /\ Follows' /\ tree' \in Seq(Node) /\ Known(n) /\ Here = Before(n) /\ Here' = After(n)
      /\ \A g : Pending(g)' <=> Pending(g)
  BY <1>3, NodeVisited
<1>5. /\ f \in DOMAIN funs /\ ~funs[f].isextern /\ Here = funs[f].own /\ Here' = funs[f].home
      /\ funs[f].home \in DOMAIN tables /\ funs[f].own \in DOMAIN tables \ {1}
  BY <1>2, <1>3, <1>4 DEF Known, Before, After, Scopes, Placed
<1>6. /\ header \in [DOMAIN funs -> Seq(Names)] /\ prefix \in Seq(Seq(Names))
      /\ \A g \in DOMAIN funs : Headed(g)
      /\ Prefixes /\ named \in [DOMAIN calls -> Seq(Names)]
      /\ \A c \in DOMAIN calls : named[c] = <<calls[c].name>> \/ Len(named[c]) > 1
  BY <1>3 DEF Renaming
<1>7. \A g \in DOMAIN funs' : Headed(g)'
  <2> TAKE g \in DOMAIN funs'
  <2>1. PICK h : h = Around(g)
    OBVIOUS
  <2>2. Around(g)' = h /\ (Pending(g)' <=> Pending(g)) /\ (Pending(h)' <=> Pending(h))
    BY <1>3, <1>4, <2>1 DEF Around
  <2>3. Headed(g)
    BY <1>3, <1>6
  <2> QED BY <1>3, <2>1, <2>2, <2>3 DEF Headed
<1>8. PICK inner, outer : /\ inner = tables[funs[f].own].chain
                          /\ outer = tables[funs[f].home].chain
  OBVIOUS
<1>9. /\ inner \in Seq(Nat) /\ outer \in Seq(Nat) /\ Len(inner) = Len(outer) + 1
      /\ Len(inner) > 1 /\ \A k \in DOMAIN outer : inner[k + 1] = outer[k]
  BY <1>5, <1>8, ChainOfOwn, ChainOf
<1>10. /\ Len(prefix) + 1 = Len(inner)
       /\ \A k \in DOMAIN prefix :
            \E g \in DOMAIN funs :
              g = tables[inner[k]].of /\ prefix[k] = header[g] /\ ~Pending(g)
  BY <1>5, <1>6, <1>8 DEF Prefixes
<1>11. /\ prefix' \in Seq(Seq(Names)) /\ Len(prefix') = Len(prefix) - 1
       /\ \A k \in DOMAIN prefix' : k + 1 \in DOMAIN prefix /\ prefix'[k] = prefix[k + 1]
  <2>1. PICK p \in Seq(Seq(Names)) : p = prefix
    BY <1>6
  <2>2. Len(p) \in Nat /\ Len(p) > 0 /\ DOMAIN p = 1 .. Len(p)
    BY <1>9, <1>10, <2>1
  <2>3. p # <<>>
    BY <2>2
  <2>4. /\ Tail(p) \in Seq(Seq(Names)) /\ Len(Tail(p)) = Len(p) - 1
        /\ \A i \in 1 .. Len(Tail(p)) : Tail(p)[i] = p[i + 1]
    BY <2>3, HeadTailProperties
  <2>5. PICK q \in Seq(Seq(Names)) : q = Tail(p)
    BY <2>4
  <2>6. \A k \in DOMAIN q : k + 1 \in DOMAIN p /\ q[k] = p[k + 1]
    BY <2>2, <2>4, <2>5
  <2> QED BY <1>3, <2>1, <2>4, <2>5, <2>6
<1>12. Prefixes'
  <2>1. tables'[Here'].chain = outer
    BY <1>3, <1>5, <1>8
  <2>2. Len(prefix') + 1 = Len(outer) /\ Len(outer) \in Nat /\ Len(prefix) \in Nat
    BY <1>6, <1>9, <1>10, <1>11
  <2>3. ASSUME NEW k \in DOMAIN prefix'
        PROVE  \E g \in DOMAIN funs :
                 g = tables'[outer[k]].of /\ prefix'[k] = header'[g] /\ ~Pending(g)'
    <3>1. k \in DOMAIN outer
      BY <1>9, <1>11, <2>2, SMTT(20)
    <3>2. inner[k + 1] = outer[k] /\ k + 1 \in DOMAIN prefix /\ prefix'[k] = prefix[k + 1]
      BY <1>9, <1>11, <2>3, <3>1
    <3>3. PICK g \in DOMAIN funs : g = tables[inner[k + 1]].of /\ prefix[k + 1] = header[g] /\ ~Pending(g)
      BY <1>10, <3>2
    <3> QED BY <1>3, <1>4, <3>2, <3>3
  <2> QED BY <1>3, <2>1, <2>2, <2>3 DEF Prefixes
<1>13. Type'
  BY <1>3, <1>4 DEF Type
<1>14. Collected' /\ Coded'
  BY <1>3 DEF Collected, Coded
<1>15. /\ Scopes' /\ ptr' \in [DOMAIN calls' -> DOMAIN funs']
       /\ \A c \in DOMAIN calls' : Found(ptr[c], calls[c].table, calls[c].name)'
  BY <1>3, RestKept
<1>16. Renaming'
  BY <1>3, <1>6, <1>7, <1>11, <1>12, <1>15 DEF Renaming
<1> QED BY <1>4, <1>13, <1>14, <1>15, <1>16

(* A call's new name is one RNF has made, or the one it had.               *)
LEMMA HeaderIsOwnNameOrMade ==
  ASSUME Type, Scopes, Renaming, pass \in {"rnf", "cgn", "done"}, NEW f \in DOMAIN funs
  PROVE  header[f] = <<funs[f].name>> \/ Len(header[f]) > 1
<1>1. header \in [DOMAIN funs -> Seq(Names)] /\ \A g \in DOMAIN funs : Headed(g)
  BY DEF Renaming
<1>2. SUFFICES ASSUME header[f] # <<funs[f].name>> PROVE Len(header[f]) > 1
  OBVIOUS
<1>3. PICK g : g = Around(f)
  OBVIOUS
<1>4. funs[f].home # 1 /\ header[f] = header[g] \o <<funs[f].name>>
  BY <1>1, <1>2, <1>3 DEF Headed
<1>5. g \in DOMAIN funs
  BY <1>3, <1>4 DEF Around, Scopes, Placed, Owned
<1>6. PICK h \in Seq(Names) : h = header[g] /\ h # <<>>
  BY <1>1, <1>5 DEF Headed
<1>7. PICK last \in Seq(Names) : last = <<funs[f].name>> /\ Len(last) = 1
  <2>1. funs[f].name \in Names
    BY Fields
  <2>2. <<funs[f].name>> \in Seq(Names) /\ Len(<<funs[f].name>>) = 1
    BY <2>1
  <2> QED BY <2>2
<1>8. Len(h \o last) = Len(h) + 1 /\ Len(h) \in Nat \ {0}
  BY <1>6, <1>7, ConcatProperties, EmptySeq
<1>9. Len(h \o last) > 1
  BY <1>8
<1> QED BY <1>4, <1>6, <1>7, <1>9

LEMMA RenameCallStep == CallsInv /\ RNFfuncall => CallsInv'
<1> SUFFICES ASSUME CallsInv, RNFfuncall PROVE CallsInv'
  OBVIOUS
<1> USE DEF CallsInv
<1>1. PICK n : n = Item
  OBVIOUS
<1>2. PICK d : d = n.id
  OBVIOUS
<1>3. /\ pass = "rnf" /\ pass' = pass /\ tree # <<>> /\ n = Head(tree) /\ n.node = "call"
      /\ tree' = Tail(tree) /\ funs' = funs /\ tables' = tables /\ cur' = cur /\ calls' = calls
      /\ inits' = inits /\ ptr' = ptr /\ code' = code /\ header' = header /\ prefix' = prefix
      /\ named' = IF calls[d].inner THEN named ELSE [named EXCEPT ![d] = header[ptr[d]]]
  BY <1>1, <1>2 DEF RNFfuncall, Visit, Item
<1>4. /\ Follows' /\ tree' \in Seq(Node) /\ Known(n) /\ Here = Before(n) /\ Here' = After(n)
      /\ \A g : Pending(g)' <=> Pending(g)
  BY <1>3, NodeVisited
<1>5. d \in DOMAIN calls /\ Here' = Here
  BY <1>2, <1>3, <1>4 DEF Known, Before, After
<1>6. /\ header \in [DOMAIN funs -> Seq(Names)] /\ prefix \in Seq(Seq(Names))
      /\ \A g \in DOMAIN funs : Headed(g)
      /\ Prefixes /\ named \in [DOMAIN calls -> Seq(Names)]
      /\ \A c \in DOMAIN calls : named[c] = <<calls[c].name>> \/ Len(named[c]) > 1
      /\ ptr \in [DOMAIN calls -> DOMAIN funs]
      /\ \A c \in DOMAIN calls : Found(ptr[c], calls[c].table, calls[c].name)
  BY <1>3 DEF Renaming
<1>7. \A g \in DOMAIN funs' : Headed(g)'
  <2> TAKE g \in DOMAIN funs'
  <2>1. PICK h : h = Around(g)
    OBVIOUS
  <2>2. Around(g)' = h /\ (Pending(g)' <=> Pending(g)) /\ (Pending(h)' <=> Pending(h))
    BY <1>3, <1>4, <2>1 DEF Around
  <2>3. Headed(g)
    BY <1>3, <1>6
  <2> QED BY <1>3, <2>1, <2>2, <2>3 DEF Headed
<1>8. Prefixes'
  BY <1>3, <1>4, <1>5, <1>6 DEF Prefixes
<1>9. header[ptr[d]] = <<calls[d].name>> \/ Len(header[ptr[d]]) > 1
  <2>1. PICK f \in DOMAIN funs : f = ptr[d]
    BY <1>5, <1>6
  <2>2. funs[f].name = calls[d].name
    BY <1>5, <1>6, <2>1 DEF Found, FoundAt
  <2> QED BY <1>3, <2>1, <2>2, HeaderIsOwnNameOrMade
<1>10. /\ named' \in [DOMAIN calls' -> Seq(Names)]
       /\ \A c \in DOMAIN calls' : named'[c] = <<calls'[c].name>> \/ Len(named'[c]) > 1
  BY <1>3, <1>5, <1>6, <1>9
<1>11. Type'
  BY <1>3, <1>4 DEF Type
<1>12. Collected' /\ Coded'
  BY <1>3 DEF Collected, Coded
<1>13. /\ Scopes' /\ ptr' \in [DOMAIN calls' -> DOMAIN funs']
       /\ \A c \in DOMAIN calls' : Found(ptr[c], calls[c].table, calls[c].name)'
  BY <1>3, RestKept
<1>14. Renaming'
  BY <1>3, <1>6, <1>7, <1>8, <1>10, <1>13 DEF Renaming
<1> QED BY <1>4, <1>11, <1>12, <1>13, <1>14

LEMMA RenameEndStep == CallsInv /\ RNFend => CallsInv'
<1> SUFFICES ASSUME CallsInv, RNFend PROVE CallsInv'
  OBVIOUS
<1> USE DEF CallsInv
<1>1. /\ pass = "rnf" /\ pass' = "cgn" /\ tree = <<>> /\ tree' = tree /\ funs' = funs
      /\ tables' = tables /\ cur' = cur /\ calls' = calls /\ inits' = inits /\ ptr' = ptr
      /\ code' = code /\ header' = header /\ named' = named /\ prefix' = prefix
  BY DEF RNFend, made
<1>2. \A i \in DOMAIN inits' :
        inits'[i].node = "call" /\ inits'[i].id \in DOMAIN calls' /\ calls'[inits'[i].id].table = 1
  BY <1>1 DEF Follows
<1>3. Follows' /\ Here' = Here /\ \A f : Pending(f)' <=> Pending(f)
  BY <1>1, <1>2, NodesKept
<1>4. Type' /\ Collected' /\ Coded'
  BY <1>1 DEF Type, Collected, Coded
<1>5. /\ Scopes' /\ ptr' \in [DOMAIN calls' -> DOMAIN funs']
      /\ \A c \in DOMAIN calls' : Found(ptr[c], calls[c].table, calls[c].name)'
  BY <1>1, RestKept
<1>6. \A g \in DOMAIN funs' : Headed(g)'
  <2> TAKE g \in DOMAIN funs'
  <2>1. Headed(g)
    BY <1>1 DEF Renaming
  <2> QED BY <1>1, <2>1 DEF Headed, Pending, Around
<1>7. Prefixes'
  <2>1. Prefixes
    BY <1>1 DEF Renaming
  <2> QED BY <1>1, <1>3, <2>1 DEF Prefixes
<1>8. Renaming'
  BY <1>1, <1>5, <1>6, <1>7 DEF Renaming
<1> QED BY <1>3, <1>4, <1>5, <1>8

(* CGNfuncall calls the function that RSO found: a name RNF has made is in *)
(* no table, and one it left alone leads to where it led RSO.              *)
LEMMA CalledIsFound ==
  ASSUME Type, Scopes, Renaming, pass \in {"rnf", "cgn", "done"}, NEW c \in DOMAIN calls
  PROVE  Called(c) = ptr[c] /\ ptr[c] \in DOMAIN funs
<1>1. /\ ptr[c] \in DOMAIN funs /\ Found(ptr[c], calls[c].table, calls[c].name)
      /\ named[c] = <<calls[c].name>> \/ Len(named[c]) > 1
      /\ calls[c].table \in DOMAIN tables
  BY DEF Renaming, Scopes
<1>2. GetFunction(calls[c].table, calls[c].name) = ptr[c] /\ ptr[c] # 0
  BY <1>1, GetFunctionFinds, Fields
<1>3. CASE named[c] = <<calls[c].name>>
  <2>1. Len(named[c]) = 1 /\ named[c][1] = calls[c].name
    BY <1>3
  <2> QED BY <1>1, <1>2, <2>1 DEF Called
<1>4. CASE Len(named[c]) > 1
  <2>1. Len(named[c]) # 1
    <3>1. named[c] \in Seq(Names)
      BY DEF Renaming
    <3>2. PICK l \in Nat : l = Len(named[c])
      BY <3>1
    <3>3. l > 1
      BY <1>4, <3>2
    <3>4. l # 1
      BY <3>3
    <3> QED BY <3>2, <3>4, Zenon
  <2> QED BY <1>1, <2>1 DEF Called
<1> QED BY <1>1, <1>3, <1>4

LEMMA NumbersKept ==
  ASSUME funs' = funs, tables' = tables, NEW f, NEW literals
  PROVE  /\ AssemblyIndex(f)' = AssemblyIndex(f)
         /\ Pushed(f, literals)' = Pushed(f, literals)
         /\ CountFlatParams(f)' = CountFlatParams(f)
BY DEF AssemblyIndex, Numbers, Imports, Place, GetFunction, EntriesNamed, LeastOf,
       Pushed, CountFlatParams, Slots

LEMMA CodeStep == CallsInv /\ CGN => CallsInv'
<1> SUFFICES ASSUME CallsInv, CGN PROVE CallsInv'
  OBVIOUS
<1> USE DEF CallsInv
<1>1. /\ pass = "cgn" /\ pass' = "done" /\ tree' = tree /\ funs' = funs
      /\ tables' = tables /\ cur' = cur /\ calls' = calls /\ inits' = inits /\ ptr' = ptr
      /\ header' = header /\ named' = named /\ prefix' = prefix
      /\ code' = [c \in DOMAIN calls |-> CGNfuncall(c)]
  BY DEF CGN
<1>2. \A i \in DOMAIN inits' :
        inits'[i].node = "call" /\ inits'[i].id \in DOMAIN calls' /\ calls'[inits'[i].id].table = 1
  BY <1>1 DEF Follows
<1>3. Follows' /\ Here' = Here /\ \A f : Pending(f)' <=> Pending(f)
  BY <1>1, <1>2, NodesKept
<1>4. Type' /\ Collected'
  BY <1>1 DEF Type, Collected
<1>5. /\ Scopes' /\ ptr' \in [DOMAIN calls' -> DOMAIN funs']
      /\ \A c \in DOMAIN calls' : Found(ptr[c], calls[c].table, calls[c].name)'
  BY <1>1, RestKept
<1>6. \A g \in DOMAIN funs' : Headed(g)'
  <2> TAKE g \in DOMAIN funs'
  <2>1. Headed(g)
    BY <1>1 DEF Renaming
  <2> QED BY <1>1, <2>1 DEF Headed, Pending, Around
<1>7. Prefixes'
  <2>1. Prefixes
    BY <1>1 DEF Renaming
  <2> QED BY <1>1, <1>3, <2>1 DEF Prefixes
<1>8. Renaming'
  BY <1>1, <1>5, <1>6, <1>7 DEF Renaming
<1>9. DOMAIN code' = DOMAIN calls' /\ \A c \in DOMAIN code' : Emitted(c)'
  <2>1. SUFFICES ASSUME NEW c \in DOMAIN calls PROVE Emitted(c)'
    BY <1>1
  <2>2. PICK f \in DOMAIN funs : f = ptr[c] /\ Called(c) = f
    BY <1>1, CalledIsFound
  <2>3. PICK pushed : pushed = Pushed(f, calls[c].literals)
    OBVIOUS
  <2>4. code'[c] = IF funs[f].isextern
                   THEN [op |-> "jsre", pushed |-> pushed, index |-> AssemblyIndex(f)]
                   ELSE [op |-> "jsr", pushed |-> pushed, args |-> CountFlatParams(f),
                         label |-> header[f]]
    BY <1>1, <2>2, <2>3 DEF CGNfuncall
  <2>5. /\ AssemblyIndex(f)' = AssemblyIndex(f) /\ CountFlatParams(f)' = CountFlatParams(f)
        /\ Pushed(f, calls[c].literals)' = pushed
    <3>1. PICK literals : literals = calls[c].literals
      OBVIOUS
    <3>2. Pushed(f, literals)' = Pushed(f, literals)
      BY <1>1, NumbersKept
    <3>3. Pushed(f, calls[c].literals)' = Pushed(f, literals)'
      BY <1>1, <3>1 DEF Pushed
    <3> QED BY <1>1, <2>3, <3>1, <3>2, <3>3, NumbersKept
  <2> QED BY <1>1, <2>2, <2>4, <2>5 DEF Emitted
<1>10. Coded'
  BY <1>1, <1>9 DEF Coded
<1> QED BY <1>3, <1>4, <1>5, <1>8, <1>10

(* The inductive invariant.                                                *)
THEOREM CallsInvariant == Spec => []CallsInv
<1>1. Init => CallsInv
  <2> SUFFICES ASSUME Init PROVE CallsInv
    OBVIOUS
  <2>1. PICK first : first = [funs |-> <<>>, chain |-> <<1>>, of |-> 0]
    OBVIOUS
  <2>2. first \in Table /\ first.funs = <<>> /\ first.chain = <<1>>
    BY <2>1 DEF Table
  <2>3. tables = <<first>> /\ DOMAIN tables = {1} /\ tables[1] = first /\ tables \in Seq(Table)
    BY <2>1, <2>2 DEF Init
  <2>4. /\ pass = "fns" /\ funs = <<>> /\ cur = 1 /\ calls = <<>> /\ tree = <<>> /\ inits = <<>>
        /\ prefix = <<>> /\ code = <<>>
    BY DEF Init
  <2>5. Type
    BY <2>3, <2>4 DEF Type
  <2>6. Scopes
    BY <2>2, <2>3, <2>4 DEF Scopes, Entered
  <2>7. Follows /\ Collected
    BY <2>4 DEF Follows, Collected, Here
  <2>8. Renaming /\ Coded
    BY <2>4 DEF Renaming, Coded
  <2> QED BY <2>5, <2>6, <2>7, <2>8 DEF CallsInv
<1>2. CallsInv /\ UNCHANGED vars => CallsInv'
  <2> SUFFICES ASSUME CallsInv, UNCHANGED vars PROVE CallsInv'
    OBVIOUS
  <2>1. /\ pass' = pass /\ funs' = funs /\ tables' = tables /\ cur' = cur /\ calls' = calls
        /\ tree' = tree /\ inits' = inits /\ ptr' = ptr /\ header' = header
        /\ named' = named /\ prefix' = prefix /\ code' = code
    BY DEF vars
  <2>2. Type' /\ Scopes' /\ Follows'
    BY <2>1 DEF CallsInv, Type, Scopes, Placed, Owned, Entered, Follows, Known, Before, After
  <2>3. Collected'
    BY <2>1 DEF CallsInv, Collected, Here, Before, Pending
  <2>4. Renaming'
    <3> SUFFICES ASSUME pass \in {"rnf", "cgn", "done"} PROVE Renaming'
      BY <2>1 DEF Renaming
    <3>1. /\ Scopes' /\ ptr' \in [DOMAIN calls' -> DOMAIN funs']
          /\ \A c \in DOMAIN calls' : Found(ptr[c], calls[c].table, calls[c].name)'
      BY <2>1, RestKept DEF CallsInv
    <3>2. \A g \in DOMAIN funs : Headed(g) => Headed(g)'
      BY <2>1 DEF Headed, Pending, Around
    <3>3. Prefixes => Prefixes'
      BY <2>1 DEF Prefixes, Pending, Here, Before
    <3> QED BY <2>1, <3>1, <3>2, <3>3 DEF CallsInv, Renaming
  <2>5. ASSUME NEW c \in DOMAIN code, Emitted(c) PROVE Emitted(c)'
    <3>1. PICK f, literals : f = ptr[c] /\ literals = calls[c].literals
      OBVIOUS
    <3>2. /\ AssemblyIndex(f)' = AssemblyIndex(f) /\ CountFlatParams(f)' = CountFlatParams(f)
          /\ Pushed(f, literals)' = Pushed(f, literals)
      BY <2>1, NumbersKept
    <3>3. Pushed(f, calls[c].literals)' = Pushed(f, literals)'
      BY <2>1, <3>1 DEF Pushed
    <3> QED BY <2>1, <2>5, <3>1, <3>2, <3>3 DEF Emitted
  <2>6. Coded'
    BY <2>1, <2>5 DEF CallsInv, Coded
  <2> QED BY <2>2, <2>3, <2>4, <2>6 DEF CallsInv
<1>3. CallsInv /\ [Next]_vars => CallsInv'
  BY <1>2, EnterStep, ExitStep, FundecStep, FunCallStep, EndStep, ResolveStep,
     RenameStep, LeaveStep, RenameCallStep, RenameEndStep, CodeStep DEF Next
<1> QED BY <1>1, <1>3, PTL DEF Spec

-----------------------------------------------------------------------------
(* The functions a call can mean are those of its name in the scope of the *)
(* one it reaches, which is the first of them.                             *)
LEMMA MeantAreOfOneScope ==
  ASSUME CallsInv, pass = "done", NEW c \in DOMAIN calls
  PROVE  LET f == ptr[c]
         IN  /\ f \in Meant(c) /\ Meant(c) \subseteq DOMAIN funs
             /\ \A g \in Meant(c) : /\ funs[g].home = funs[f].home
                                    /\ funs[g].name = calls[c].name /\ f <= g
             /\ \A g \in DOMAIN funs :
                  funs[g].home = funs[f].home /\ funs[g].name = calls[c].name => g \in Meant(c)
             /\ LeastOf(Meant(c)) = f
<1> USE DEF CallsInv
<1>1. PICK f \in DOMAIN funs : f = ptr[c] /\ Found(f, calls[c].table, calls[c].name)
  BY DEF Renaming
<1>2. PICK ch : ch = tables[calls[c].table].chain
  OBVIOUS
<1>3. ch \in Seq(Nat)
  BY <1>2, Fields DEF Scopes
<1>4. PICK n \in DOMAIN ch :
        /\ funs[f].name = calls[c].name /\ funs[f].home = ch[n]
        /\ \A g \in DOMAIN funs : funs[g].name = calls[c].name =>
             /\ \A k \in 1 .. n - 1 : funs[g].home # ch[k]
             /\ funs[g].home = ch[n] => f <= g
  BY <1>1, <1>2 DEF Found, FoundAt
<1> DEFINE reached == {m \in DOMAIN ch : \A k \in 1 .. m - 1 : Candidates(c, ch[k]) = {}}
<1>5. Meant(c) = UNION {Candidates(c, ch[m]) : m \in reached}
  BY <1>2 DEF Meant
<1>6. n \in reached
  BY <1>4 DEF Candidates
<1>7. f \in Candidates(c, ch[n])
  BY <1>1, <1>4 DEF Candidates
<1>8. \A m \in reached : m # n => Candidates(c, ch[m]) = {}
  <2> TAKE m \in reached
  <2> HAVE m # n
  <2>1. m \in 1 .. Len(ch) /\ n \in 1 .. Len(ch) /\ Len(ch) \in Nat
    BY <1>3
  <2>2. CASE m < n
    <3>1. m \in 1 .. n - 1
      BY <2>1, <2>2
    <3> QED BY <1>4, <3>1 DEF Candidates
  <2>3. CASE n < m
    <3>1. n \in 1 .. m - 1
      BY <2>1, <2>3
    <3> QED BY <1>7, <3>1
  <2> QED BY <2>1, <2>2, <2>3
<1> HIDE DEF reached
<1>9. Meant(c) = Candidates(c, ch[n])
  BY <1>5, <1>6, <1>8
<1>10. /\ f \in Meant(c) /\ Meant(c) \subseteq DOMAIN funs
       /\ \A g \in Meant(c) : /\ funs[g].home = funs[f].home
                              /\ funs[g].name = calls[c].name /\ f <= g
       /\ \A g \in DOMAIN funs :
            funs[g].home = funs[f].home /\ funs[g].name = calls[c].name => g \in Meant(c)
  BY <1>4, <1>7, <1>9 DEF Candidates
<1>11. LeastOf(Meant(c)) = f
  <2>1. Meant(c) \in SUBSET Nat /\ f \in Nat
    BY <1>10, Fields
  <2>2. PICK l : l = LeastOf(Meant(c))
    OBVIOUS
  <2>3. l \in Meant(c) /\ \A k \in Meant(c) : l <= k
    BY <1>10, <2>1, <2>2, LeastFound
  <2>4. l <= f /\ f <= l /\ l \in Nat
    BY <1>10, <2>1, <2>3
  <2> QED BY <2>1, <2>2, <2>4
<1> QED BY <1>1, <1>10, <1>11

(* Behind RNF two functions have one name only if a function is defined    *)
(* twice in a scope: the first function that shared its name with another  *)
(* would be in a function that shares its name, and is defined before it.  *)
LEMMA HeadersDiffer ==
  ASSUME CallsInv, pass = "done", ~Redefined, NEW f \in DOMAIN funs, NEW g \in DOMAIN funs,
         ~funs[f].isextern, ~funs[g].isextern, header[f] = header[g]
  PROVE  f = g
<1> USE DEF CallsInv
<1> DEFINE Twin(h, k) == k \in DOMAIN funs /\ ~funs[k].isextern /\ k # h /\ header[k] = header[h]
           Shared == {h \in DOMAIN funs : ~funs[h].isextern /\ \E k \in DOMAIN funs : Twin(h, k)}
<1>1. SUFFICES ASSUME Shared # {} PROVE FALSE
  OBVIOUS
<1>2. Shared \in SUBSET Nat
  BY Fields
<1>3. PICK h \in Shared : \A k \in Shared : h <= k
  BY <1>1, <1>2, LeastNat
<1>4. PICK k \in DOMAIN funs : Twin(h, k)
  OBVIOUS
<1>5. /\ h \in DOMAIN funs /\ ~funs[h].isextern /\ k \in DOMAIN funs /\ ~funs[k].isextern
      /\ k # h /\ header[k] = header[h] /\ h \in Nat
  BY <1>2, <1>4
<1>6. funs[h].home = funs[k].home => funs[h].name # funs[k].name
  BY <1>5 DEF Redefined
<1>7. header \in [DOMAIN funs -> Seq(Names)] /\ \A i \in DOMAIN funs : Headed(i) /\ ~Pending(i)
  BY DEF Renaming, Collected, Pending
<1>8. \A i \in DOMAIN funs : /\ header[i] \in Seq(Names) /\ header[i] # <<>>
                             /\ IF funs[i].home = 1 THEN header[i] = <<funs[i].name>>
                                ELSE header[i] = header[Around(i)] \o <<funs[i].name>>
  BY <1>7 DEF Headed
<1>9. \A i \in DOMAIN funs : funs[i].home # 1 =>
        /\ Around(i) \in DOMAIN funs /\ ~funs[Around(i)].isextern
        /\ funs[Around(i)].own = funs[i].home /\ Around(i) < i
  BY DEF Around, Scopes, Placed, Owned
<1>10. \A i \in DOMAIN funs : funs[i].name \in Names
  BY Fields
<1> HIDE DEF Twin, Shared
<1>11. \A s \in Seq(Names), x \in Names :
         Len(s \o <<x>>) = Len(s) + 1 /\ Len(s) \in Nat
  <2> TAKE s \in Seq(Names), x \in Names
  <2>1. <<x>> \in Seq(Names) /\ Len(<<x>>) = 1
    OBVIOUS
  <2> QED BY <2>1, ConcatProperties
<1>12. \A s, t \in Seq(Names), x, y \in Names :
         s \o <<x>> = t \o <<y>> => s = t /\ x = y
  <2> TAKE s, t \in Seq(Names), x, y \in Names
  <2>1. Append(s, x) = s \o <<x>> /\ Append(t, y) = t \o <<y>>
    BY AppendIsConcat
  <2>2. Append(s, x) = Append(t, y) <=> s = t /\ x = y
    BY AppendInjective
  <2> QED BY <2>1, <2>2
<1>13. ASSUME NEW i \in DOMAIN funs, NEW j \in DOMAIN funs, funs[i].home = 1, funs[j].home # 1
       PROVE  header[i] # header[j]
  <2>1. PICK s \in Seq(Names) : s = header[Around(j)] /\ s # <<>> /\ header[j] = s \o <<funs[j].name>>
    BY <1>8, <1>9, <1>13
  <2>2. Len(s) # 0
    BY <2>1, EmptySeq
  <2>3. Len(header[j]) = Len(s) + 1 /\ Len(s) \in Nat
    BY <1>10, <1>11, <2>1
  <2>4. Len(header[i]) = 1
    <3>1. header[i] = <<funs[i].name>>
      BY <1>8, <1>13
    <3>2. Len(<<funs[i].name>>) = 1
      OBVIOUS
    <3> QED BY <3>1, <3>2
  <2>5. PICK l \in Nat : l = Len(s)
    BY <2>3
  <2>6. l + 1 # 1
    BY <2>2, <2>5
  <2>7. Len(header[j]) # 1
    BY <2>3, <2>5, <2>6
  <2> QED BY <2>4, <2>7, Zenon
<1>14. CASE funs[h].home = 1 /\ funs[k].home = 1
  <2>1. <<funs[h].name>> = <<funs[k].name>>
    BY <1>5, <1>8, <1>14
  <2>2. funs[h].name = funs[k].name
    BY <2>1
  <2> QED BY <1>6, <1>14, <2>2
<1>15. CASE funs[h].home # 1 /\ funs[k].home # 1
  <2>1. PICK a, b \in DOMAIN funs : a = Around(h) /\ b = Around(k)
    BY <1>5, <1>9, <1>15
  <2>2. header[a] = header[b] /\ funs[h].name = funs[k].name
    <3>1. header[a] \o <<funs[h].name>> = header[b] \o <<funs[k].name>>
      BY <1>5, <1>8, <1>15, <2>1
    <3>2. header[a] \in Seq(Names) /\ header[b] \in Seq(Names)
      BY <1>8
    <3>3. PICK s, t, x, y : /\ s = header[a] /\ t = header[b]
                            /\ x = funs[h].name /\ y = funs[k].name
      OBVIOUS
    <3>4. /\ s \in Seq(Names) /\ t \in Seq(Names) /\ x \in Names /\ y \in Names
          /\ s \o <<x>> = t \o <<y>>
      BY <1>5, <1>10, <3>1, <3>2, <3>3
    <3>5. s = t /\ x = y
      BY <1>12, <3>4
    <3> QED BY <3>3, <3>5
  <2>3. a # b
    BY <1>5, <1>6, <1>9, <1>15, <2>1, <2>2
  <2>4. a \in Shared
    BY <1>5, <1>9, <1>15, <2>1, <2>2, <2>3 DEF Shared, Twin
  <2>5. h <= a /\ a < h /\ a \in Nat
    BY <1>2, <1>3, <1>5, <1>9, <1>15, <2>1, <2>4
  <2> QED BY <1>5, <2>5
<1> QED BY <1>5, <1>13, <1>14, <1>15

-----------------------------------------------------------------------------
(* Of two imports, the earlier one has the smaller place.                  *)
LEMMA PlacesDiffer ==
  ASSUME Type, NEW f \in Imports, NEW g \in Imports, Place(f) = Place(g)
  PROVE  f = g
<1>1. \A h, k \in Imports : h < k => Place(h) # Place(k)
  <2>1. SUFFICES ASSUME NEW h \in Imports, NEW k \in Imports, h < k
                 PROVE  Place(h) # Place(k)
    OBVIOUS
  <2> DEFINE A == {i \in Imports : i < h}
             B == {i \in Imports : i < k}
  <2>2. Imports \subseteq Nat /\ h \in Nat /\ k \in Nat
    BY Fields DEF Imports
  <2>3. B \in SUBSET Nat /\ A \in SUBSET Nat
    BY <2>2
  <2>4. \A i \in B : i <= k
    BY <2>2
  <2>5. IsFiniteSet(B)
    BY <2>2, <2>3, <2>4, FS_BoundedSetOfNaturals
  <2>6. h \in B /\ h \notin A
    BY <2>1, <2>2
  <2>7. \A i \in A : i \in B
    <3>1. SUFFICES ASSUME NEW i \in A PROVE i < k
      OBVIOUS
    <3>2. i \in Nat /\ i < h
      BY <2>3
    <3> QED BY <2>1, <2>2, <3>2
  <2>8. Place(h) = Cardinality(A) /\ Place(k) = Cardinality(B)
    BY DEF Place
  <2> HIDE DEF A, B
  <2>9. A # B /\ A \in SUBSET B
    BY <2>6, <2>7
  <2>10. Cardinality(B) # Cardinality(A)
    BY <2>5, <2>9, FS_Subset
  <2> QED BY <2>8, <2>10
<1>2. f \in Nat /\ g \in Nat
  BY Fields DEF Imports
<1>3. ~(f < g) /\ ~(g < f)
  BY <1>1
<1> QED BY <1>2, <1>3

(* The number of the entry RSO found is the place of an import of its name.*)
LEMMA IndexIsPlace ==
  ASSUME CallsInv, pass = "done", NEW c \in DOMAIN calls, funs[ptr[c]].isextern
  PROVE  \E g \in Imports : Place(g) = AssemblyIndex(ptr[c]) /\ g \in Meant(c)
<1> USE DEF CallsInv
<1>1. PICK f : f = ptr[c]
  OBVIOUS
<1>2. /\ f \in DOMAIN funs /\ funs[f].isextern /\ funs[f].home = 1
      /\ funs[f].name = calls[c].name
      /\ \A g \in DOMAIN funs : funs[g].home = 1 /\ funs[g].name = calls[c].name
                                => g \in Meant(c) /\ f <= g
  <2>1. ptr[c] \in DOMAIN funs
    BY DEF Renaming
  <2>2. /\ f \in Meant(c)
        /\ \A g \in Meant(c) : funs[g].name = calls[c].name /\ f <= g
        /\ \A g \in DOMAIN funs :
             funs[g].home = funs[f].home /\ funs[g].name = calls[c].name => g \in Meant(c)
    BY <1>1, MeantAreOfOneScope
  <2>3. funs[f].home = 1
    BY <1>1, <2>1 DEF Scopes, Placed
  <2> QED BY <1>1, <2>1, <2>2, <2>3
<1>3. /\ 1 \in DOMAIN tables /\ tables[1].chain = <<1>>
  BY Fields DEF Scopes
<1>4. \A g \in DOMAIN funs : funs[g].home = 1 => GetFunction(1, funs[g].name) # 0
  <2>1. SUFFICES ASSUME NEW g \in DOMAIN funs, funs[g].home = 1,
                        GetFunction(1, funs[g].name) = 0
                 PROVE  FALSE
    OBVIOUS
  <2>2. EntriesNamed(1, funs[g].name) # {}
    BY <1>3, <2>1, FirstEntry
  <2>3. tables[1].chain[1] = 1 /\ DOMAIN tables[1].chain = {1}
    BY <1>3
  <2> DEFINE found == {n \in DOMAIN tables[1].chain :
                         EntriesNamed(tables[1].chain[n], funs[g].name) # {}}
  <2>4. found = {1}
    BY <2>2, <2>3
  <2>5. LeastOf({1}) = 1
    <3>1. PICK S : S = {1}
      OBVIOUS
    <3>2. S \in SUBSET Nat /\ S # {}
      BY <3>1
    <3>3. LeastOf(S) \in S
      BY <3>2, LeastFound
    <3> QED BY <3>1, <3>3
  <2>6. PICK e : e = LeastOf(EntriesNamed(1, funs[g].name))
    OBVIOUS
  <2>7. GetFunction(1, funs[g].name) = tables[1].funs[e]
    BY <2>3, <2>4, <2>5, <2>6 DEF GetFunction
  <2>8. tables[1].funs[e] \in DOMAIN funs
    BY <1>3, <2>2, <2>6, FirstEntry
  <2> QED BY <2>1, <2>7, <2>8, Fields
<1>5. GetFunction(1, funs[f].name) = f
  <2>1. PICK g : g = GetFunction(1, funs[f].name)
    OBVIOUS
  <2>2. g \in DOMAIN funs /\ Found(g, 1, funs[f].name)
    BY <1>2, <1>3, <1>4, <2>1, GetFunctionFinds
  <2>3. /\ funs[g].name = funs[f].name /\ funs[g].home = 1
        /\ \A h \in DOMAIN funs : funs[h].name = funs[f].name /\ funs[h].home = 1 => g <= h
    BY <1>3, <2>2 DEF Found, FoundAt
  <2>4. g <= f /\ f <= g
    BY <1>2, <2>2, <2>3
  <2>5. g \in Nat /\ f \in Nat
    BY <1>2, <2>2, Fields
  <2> QED BY <2>1, <2>4, <2>5
<1> DEFINE N == Numbers(f)
<1>6. N \in SUBSET Imports /\ f \in N
  BY <1>2, <1>5 DEF Numbers, Imports
<1>7. PICK top : top = CHOOSE g \in N : \A k \in N : k <= g
  OBVIOUS
<1>8. \E g \in N : \A k \in N : k <= g
  <2> DEFINE Above == {Len(funs) - k : k \in N}
  <2>1. \A k \in N : k \in Nat /\ k <= Len(funs) /\ Len(funs) - k \in Nat
    BY <1>6, Fields DEF Imports
  <2>2. Above \in SUBSET Nat /\ Above # {}
    BY <1>6, <2>1
  <2> HIDE DEF N
  <2>3. PICK m \in Above : \A k \in Above : m <= k
    BY <2>2, LeastNat
  <2>4. PICK g \in N : m = Len(funs) - g
    OBVIOUS
  <2>5. \A k \in N : k <= g
    <3> TAKE k \in N
    <3>1. Len(funs) - g <= Len(funs) - k
      BY <2>3, <2>4
    <3> QED BY <2>1, <3>1, Fields
  <2> QED BY <2>5
<1>9. top \in N
  BY <1>7, <1>8
<1>10. AssemblyIndex(f) = Place(top)
  BY <1>7 DEF AssemblyIndex
<1>11. /\ top \in Imports /\ top \in DOMAIN funs /\ funs[top].isextern
       /\ GetFunction(1, funs[top].name) = f
  BY <1>9 DEF Numbers, Imports
<1>12. funs[top].home = 1
  BY <1>11 DEF Scopes, Placed
<1>13. funs[top].name = calls[c].name
  <2>1. Found(f, 1, funs[top].name)
    BY <1>2, <1>3, <1>11, <1>12, <1>4, GetFunctionFinds
  <2>2. funs[f].name = funs[top].name
    BY <2>1 DEF Found, FoundAt
  <2> QED BY <1>2, <2>2
<1>14. top \in Meant(c)
  BY <1>2, <1>11, <1>12, <1>13
<1> QED BY <1>1, <1>10, <1>11, <1>14

(* What CGNfuncall has emitted for a call.                                 *)
LEMMA CodeOfACall ==
  ASSUME CallsInv, NEW c \in DOMAIN code
  PROVE  /\ pass = "done" /\ c \in DOMAIN calls /\ ptr[c] \in DOMAIN funs
         /\ code[c].op = "jsre" <=> funs[ptr[c]].isextern
         /\ code[c].op = "jsre" => code[c].index = AssemblyIndex(ptr[c])
         /\ code[c].op = "jsr" =>
              /\ ~funs[ptr[c]].isextern /\ code[c].label = header[ptr[c]]
              /\ code[c].pushed = Pushed(ptr[c], calls[c].literals)
              /\ code[c].args = CountFlatParams(ptr[c])
<1> USE DEF CallsInv
<1>1. pass = "done"
  <2>1. ~(c \in DOMAIN <<>>)
    OBVIOUS
  <2> QED BY <2>1 DEF Coded
<1>2. c \in DOMAIN calls /\ Emitted(c)
  BY <1>1 DEF Coded
<1>3. ptr[c] \in DOMAIN funs
  BY <1>1, <1>2 DEF Renaming
<1>4. PICK f, pushed, index, args, label :
        /\ f = ptr[c] /\ pushed = Pushed(ptr[c], calls[c].literals)
        /\ index = AssemblyIndex(ptr[c]) /\ args = CountFlatParams(ptr[c])
        /\ label = header[ptr[c]]
  OBVIOUS
<1>5. code[c] = IF funs[f].isextern
                THEN [op |-> "jsre", pushed |-> pushed, index |-> index]
                ELSE [op |-> "jsr", pushed |-> pushed, args |-> args, label |-> label]
  BY <1>2, <1>4 DEF Emitted
<1>6. "jsr" # "jsre"
  OBVIOUS
<1>7. CASE funs[f].isextern
  <2>1. code[c].op = "jsre" /\ code[c].index = index
    BY <1>5, <1>7
  <2> QED BY <1>1, <1>2, <1>3, <1>4, <1>6, <1>7, <2>1
<1>8. CASE ~funs[f].isextern
  <2>1. /\ code[c].op = "jsr" /\ code[c].pushed = pushed
        /\ code[c].args = args /\ code[c].label = label
    BY <1>5, <1>8
  <2> QED BY <1>1, <1>2, <1>3, <1>4, <1>6, <1>8, <2>1
<1> QED BY <1>7, <1>8

(* ModulesLink, in both directions: the number in a jsre is the place of   *)
(* an import its call means, and functions of the program are not renamed. *)
THEOREM ModulesAreLinked == Spec => []ModulesLink
<1>1. CallsInv => GlobalFunctionsKeepTheirName
  BY DEF CallsInv, GlobalFunctionsKeepTheirName, Renaming, Headed
<1>2. CallsInv => ImportsAreFoundByIndex
  <2>1. SUFFICES ASSUME CallsInv, NEW c \in DOMAIN code, code[c].op = "jsre"
                 PROVE  \E g \in Imports :
                          /\ Place(g) = code[c].index /\ g \in Meant(c)
                          /\ \A h \in Imports : Place(h) = code[c].index => h = g
    BY DEF ImportsAreFoundByIndex
  <2>2. /\ pass = "done" /\ c \in DOMAIN calls /\ funs[ptr[c]].isextern
        /\ code[c].index = AssemblyIndex(ptr[c])
    BY <2>1, CodeOfACall
  <2>3. PICK g \in Imports : Place(g) = code[c].index /\ g \in Meant(c)
    BY <2>1, <2>2, IndexIsPlace
  <2>4. \A h \in Imports : Place(h) = code[c].index => h = g
    BY <2>1, <2>3, PlacesDiffer DEF CallsInv
  <2> QED BY <2>3, <2>4
<1>3. CallsInv => ModulesLink
  BY <1>1, <1>2 DEF ModulesLink
<1> QED BY <1>3, CallsInvariant, PTL

(* CallsReachTheirFunction: the label of a jsr is that of the function the *)
(* call means where it stands, whatever RNF has renamed; no function with  *)
(* that label is another's, unless one scope defines a name twice.         *)
THEOREM CallsReach == Spec => []CallsReachTheirFunction
<1>1. CallsInv => CallsReachTheirFunction
  <2>1. SUFFICES ASSUME CallsInv, NEW c \in DOMAIN code, code[c].op = "jsr"
                 PROVE  LET labelled == {f \in DOMAIN funs :
                                           ~funs[f].isextern /\ header[f] = code[c].label}
                        IN  /\ LeastOf(Meant(c)) \in labelled
                            /\ Redefined \/ labelled \subseteq Meant(c)
    BY DEF CallsReachTheirFunction
  <2>2. /\ pass = "done" /\ c \in DOMAIN calls /\ ptr[c] \in DOMAIN funs
        /\ ~funs[ptr[c]].isextern /\ code[c].label = header[ptr[c]]
    BY <2>1, CodeOfACall
  <2>3. ptr[c] \in Meant(c) /\ LeastOf(Meant(c)) = ptr[c]
    BY <2>1, <2>2, MeantAreOfOneScope
  <2>4. Redefined \/ \A f \in DOMAIN funs :
          ~funs[f].isextern /\ header[f] = header[ptr[c]] => f = ptr[c]
    BY <2>1, <2>2, HeadersDiffer
  <2> QED BY <2>2, <2>3, <2>4
<1> QED BY <1>1, CallsInvariant, PTL

(* The slots of the parameters of a function are finitely many.            *)
LEMMA SlotsAreFinite ==
  ASSUME NEW params \in Seq(Nat)
  PROVE  IsFiniteSet(UNION {Slots(p, params[p]) : p \in DOMAIN params})
<1> DEFINE All == {Slots(p, params[p]) : p \in DOMAIN params}
           slots == [p \in DOMAIN params |-> Slots(p, params[p])]
<1>1. IsFiniteSet(DOMAIN params)
  <2>1. DOMAIN params = 1 .. Len(params) /\ 1 \in Int /\ Len(params) \in Int
    OBVIOUS
  <2> QED BY <2>1, FS_Interval
<1>2. slots \in Surjection(DOMAIN params, All)
  BY DEF Surjection
<1> HIDE DEF slots
<1>3. IsFiniteSet(All)
  BY <1>1, <1>2, FS_Surjection
<1>4. \A T \in All : IsFiniteSet(T)
  <2>1. SUFFICES ASSUME NEW p \in DOMAIN params PROVE IsFiniteSet(Slots(p, params[p]))
    OBVIOUS
  <2>2. PICK n \in Nat : n = params[p]
    OBVIOUS
  <2>3. IsFiniteSet({p})
    BY FS_Singleton
  <2>4. 0 \in Int /\ n \in Int
    OBVIOUS
  <2>5. IsFiniteSet(0 .. n)
    BY <2>4, FS_Interval
  <2>6. IsFiniteSet({p} \X (0 .. n))
    BY <2>3, <2>5, FS_Product
  <2> QED BY <2>2, <2>6 DEF Slots
<1> HIDE DEF All
<1>5. IsFiniteSet(UNION All)
  BY <1>3, <1>4, FS_UNION
<1> QED BY <1>5 DEF All

(* ArgumentsArePushed: the arguments of a call push no more than jsr takes *)
(* off the stack, and as much unless an array is passed as a literal.      *)
THEOREM ArgumentsFit == Spec => []ArgumentsArePushed
<1>1. CallsInv => ArgumentsArePushed
  <2>1. SUFFICES ASSUME CallsInv, NEW c \in DOMAIN code, code[c].op = "jsr"
                 PROVE  /\ code[c].pushed <= code[c].args
                        /\ code[c].pushed # code[c].args =>
                             /\ calls[c].literals
                             /\ \E p \in DOMAIN funs[ptr[c]].params :
                                  funs[ptr[c]].params[p] > 0
    BY DEF ArgumentsArePushed
  <2>2. /\ ptr[c] \in DOMAIN funs
        /\ code[c].pushed = Pushed(ptr[c], calls[c].literals)
        /\ code[c].args = CountFlatParams(ptr[c])
    BY <2>1, CodeOfACall
  <2>3. PICK params \in Seq(Nat) : params = funs[ptr[c]].params
    BY <2>1, <2>2, Fields DEF CallsInv
  <2>4. PICK literals : literals = calls[c].literals
    OBVIOUS
  <2> DEFINE size(p) == IF literals THEN 0 ELSE params[p]
             Given == UNION {Slots(p, size(p)) : p \in DOMAIN params}
             Taken == UNION {Slots(p, params[p]) : p \in DOMAIN params}
  <2>5. code[c].pushed = Cardinality(Given) /\ code[c].args = Cardinality(Taken)
    BY <2>2, <2>3, <2>4 DEF Pushed, CountFlatParams
  <2>6. IsFiniteSet(Taken)
    BY SlotsAreFinite
  <2>7. \A p \in DOMAIN params : Slots(p, size(p)) \subseteq Slots(p, params[p])
    <3>1. SUFFICES ASSUME NEW p \in DOMAIN params
                   PROVE  \A i \in 0 .. size(p) : i \in 0 .. params[p]
      BY DEF Slots
    <3>2. params[p] \in Nat
      OBVIOUS
    <3> QED BY <3>2
  <2>8. Given \in SUBSET Taken
    BY <2>7
  <2>9. ~(literals /\ \E p \in DOMAIN params : params[p] > 0) => Given = Taken
    <3>1. SUFFICES ASSUME ~literals \/ \A p \in DOMAIN params : ~(params[p] > 0)
                   PROVE  \A p \in DOMAIN params : size(p) = params[p]
      OBVIOUS
    <3> TAKE p \in DOMAIN params
    <3>2. params[p] \in Nat
      OBVIOUS
    <3> QED BY <3>1, <3>2
  <2> HIDE DEF Given, Taken
  <2>10. Cardinality(Given) <= Cardinality(Taken)
    BY <2>6, <2>8, FS_Subset
  <2> QED BY <2>3, <2>4, <2>5, <2>9, <2>10
<1> QED BY <1>1, CallsInvariant, PTL
=============================================================================
