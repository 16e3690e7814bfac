------------------------------ MODULE FrontEnd ------------------------------
(***************************************************************************)
(* The semantic phase of cocogen up to the attribute scheduler: names are   *)
(* entered and looked up, nodesets are unwrapped and their attributes       *)
(* handed down, the rules about attributes are checked and the nodes a      *)
(* traversal passes through are found.  One action per traversal.           *)
(*                                                                          *)
(* A name is a number, in the order strcmp gives the lower-case names; 0    *)
(* stands for no name.  Names of children and attributes are strings.       *)
(***************************************************************************)
EXTENDS Naturals, SequencesExt, Reachability

CONSTANTS
  Grammars,   \* the files that are read, as the parser leaves them
  Reserved    \* the names no uid, no prefix of an enum and no node may have

VARIABLES
  g,          \* the grammar, its nodesets and attributes as they stand
  pc,         \* the traversal that comes next
  ste,        \* the symbol table: a sequence of [key, kind]
  faulty,     \* an error was signalled whose compilation ends with the phase
  table,      \* INODESET_CHILDREN_TABLE of every nodeset
  literal,    \* what the expressions of nodesets and traversals unwrap to
  matrix      \* reachability_matrix

feVars == <<g, pc, ste, faulty, table, literal, matrix>>

This == "this"
Nil == [ref |-> 0]

(* CCNerrorAction and CTIabortOnError end the phase behind this action, what
   CCNerrorPhase reports only ends it behind the last one. *)
ErrorAction(error, next) == pc' = IF error THEN "aborted" ELSE next

Named(seq, n) == seq[CHOOSE i \in DOMAIN seq : seq[i].name = n]
NamesOf(seq) == {seq[i].name : i \in DOMAIN seq}
Repeats(seq) == \E i, j \in DOMAIN seq : i < j /\ seq[i] = seq[j]
NameSeq(seq) == [i \in DOMAIN seq |-> seq[i].name]

NodeOf(n) == Named(g.nodes, n)
SetOf(n) == Named(g.sets, n)
IsNode(n) == n \in NamesOf(g.nodes)
IsSet(n) == n \in NamesOf(g.sets)
AttributesOf(n) == IF IsNode(n) THEN NodeOf(n).attrs ELSE SetOf(n).attrs

-----------------------------------------------------------------------------
(* buildSymbolTable.  All names and prefixes share one table, which is a list
   in which the first entry of a key is found. *)
STlookup(tbl, n) ==
  LET hits == {i \in DOMAIN tbl : tbl[i].key = n}
  IN IF hits = {} THEN "none" ELSE tbl[CHOOSE i \in hits : \A j \in hits : i <= j].kind

Declared ==
  LET entry(x, kind) == << [key |-> x, kind |-> kind] >>
      both(d, kind) == entry(d.name, kind) \o IF d.uid = 0 THEN <<>> ELSE entry(d.uid, kind)
      all(seq, kind) == FlattenSeq([i \in DOMAIN seq |-> both(seq[i], kind)])
      names(seq, kind) == [i \in DOMAIN seq |-> [key |-> seq[i].name, kind |-> kind]]
  IN all(g.phases, "action") \o all(g.traversals, "action") \o all(g.passes, "action")
     \o names(g.nodes, "inode") \o names(g.sets, "inodeset") \o names(g.enums, "ienum")

AddToST(tbl, e) == IF STlookup(tbl, e.key) = "none" THEN Append(tbl, e) ELSE tbl

BSTast ==
  /\ pc = "BST"
  /\ ste' = FoldLeft(AddToST, <<>>, Declared)
  /\ LET functions == SelectSeq([i \in DOMAIN g.passes |-> g.passes[i].func], LAMBDA f : f # 0)
     IN ErrorAction(Len(ste') < Len(Declared) \/ Repeats(functions), "CEX")
  /\ UNCHANGED <<g, faulty, table, literal, matrix>>

-----------------------------------------------------------------------------
(* checkExistance. *)
RECURSIVE Literals(_), References(_), Operations(_)
Literals(e) == CASE e.op = "set" -> e.ids [] e.op \in {"none", "ref"} -> <<>>
                 [] OTHER -> Literals(e.left) \o Literals(e.right)
References(e) == CASE e.op = "ref" -> <<e.id>> [] e.op \in {"none", "set"} -> <<>>
                   [] OTHER -> References(e.left) \o References(e.right)
Operations(e) == IF e.op \in {"none", "set", "ref"} THEN {}
                 ELSE {e.op} \cup Operations(e.left) \cup Operations(e.right)

CEXiphase(p) == \/ p.uid \in Reserved
                \/ \E i \in DOMAIN p.actions : STlookup(ste, p.actions[i]) = "none"
TypeIsWrong(t) == t # 0 /\ STlookup(ste, t) \notin {"inode", "inodeset", "ienum"}
CEXitraversal(t) == t.uid \in Reserved \/ Repeats(NameSeq(t.data))
                    \/ \E i \in DOMAIN t.data : TypeIsWrong(t.data[i].type)
CEXsetexpr(e) == \/ \E i \in DOMAIN References(e) : STlookup(ste, References(e)[i]) # "inodeset"
                 \/ \E i \in DOMAIN Literals(e) : STlookup(ste, Literals(e)[i]) # "inode"
CEXattribute(attrs) == Repeats(NameSeq(attrs)) \/ \E i \in DOMAIN attrs : TypeIsWrong(attrs[i].type)
CEXchild(c) == STlookup(ste, c.type) \notin {"inode", "inodeset"}
CEXinode(n) == \/ n.name \in Reserved
               \/ CEXattribute(n.attrs) \/ Repeats(NameSeq(n.attrs) \o NameSeq(n.children))
               \/ \E i \in DOMAIN n.children : CEXchild(n.children[i])
CEXienum == \/ \E i \in DOMAIN g.enums : g.enums[i].uid \in Reserved
            \/ Repeats([i \in DOMAIN g.enums |-> g.enums[i].uid])

Twice(seq, P(_)) == \E i, j \in DOMAIN seq : i < j /\ P(seq[i]) /\ P(seq[j])

CEXfinds ==
  \/ \E i \in DOMAIN g.phases : CEXiphase(g.phases[i])
  \/ Twice(g.phases, LAMBDA p : p.start) \/ Twice(g.nodes, LAMBDA n : n.root)
  \/ \E i \in DOMAIN g.traversals : CEXitraversal(g.traversals[i]) \/ CEXsetexpr(g.traversals[i].expr)
  \/ \E i \in DOMAIN g.passes : g.passes[i].uid \in Reserved
  \/ \E i \in DOMAIN g.nodes : CEXinode(g.nodes[i])
  \/ \E i \in DOMAIN g.sets : CEXattribute(g.sets[i].attrs) \/ CEXsetexpr(g.sets[i].expr)
  \/ CEXienum

CEXast ==
  /\ pc = "CEX"
  /\ ErrorAction(CEXfinds, "NCT")
  /\ UNCHANGED <<g, ste, faulty, table, literal, matrix>>

-----------------------------------------------------------------------------
(* nodesetChildTable: all nodesets an expression refers to, those its
   references refer to before them, every one once. *)
RefersTo(s) == ToSet(References(SetOf(s).expr))
RECURSIVE Behind(_, _)
Behind(found, step) ==
  LET next == found \cup UNION {step[s] : s \in found}
  IN IF next = found THEN found ELSE Behind(next, step)
Recursive == LET step == [s \in NamesOf(g.sets) |-> RefersTo(s)]
             IN \E s \in NamesOf(g.sets) : s \in Behind(step[s], step)

AddInheritanceEntry(entries, s) == IF s \in ToSet(entries) THEN entries ELSE Append(entries, s)
RECURSIVE ChildTable(_)
ChildTable(s) ==
  FoldLeft(LAMBDA entries, ref : FoldLeft(AddInheritanceEntry, entries, Append(ChildTable(ref), ref)),
           <<>>, References(SetOf(s).expr))

NCTast ==
  /\ pc = "NCT"
  /\ ErrorAction(Recursive, "USE")
  /\ table' = IF Recursive THEN table ELSE [s \in NamesOf(g.sets) |-> ChildTable(s)]
  /\ UNCHANGED <<g, ste, faulty, literal, matrix>>

(* NCTsetoperation marks the nodeset in whose own expression it stands. *)
OnlyIntersectionIsIllegal(s) == "&" \in Operations(SetOf(s).expr)
IllegalSetexprAttr(s) == Operations(SetOf(s).expr) \cap {"&", "-"} # {}

-----------------------------------------------------------------------------
(* The sets of cocogen: a literal is a binary search tree of names, and all
   operations insert the names of a tree, read from its root, into a new one. *)
RECURSIVE Insert(_, _), Contains0(_, _), PreOrder(_)
Insert(t, x) ==
  IF t = Nil THEN [ref |-> x, left |-> Nil, right |-> Nil]
  ELSE CASE x = t.ref -> t
         [] x < t.ref -> [t EXCEPT !.left = Insert(@, x)]
         [] OTHER -> [t EXCEPT !.right = Insert(@, x)]
Contains0(t, x) == t # Nil /\ (x = t.ref \/ Contains0(IF x < t.ref THEN t.left ELSE t.right, x))
PreOrder(t) == IF t = Nil THEN <<>> ELSE <<t.ref>> \o PreOrder(t.left) \o PreOrder(t.right)

SetOfIds(ids) == FoldLeft(Insert, Nil, ids)
SETIDunion(a, b) == SetOfIds(PreOrder(a) \o PreOrder(b))
SETIDintersect(a, b) == SetOfIds(SelectSeq(PreOrder(a), LAMBDA x : Contains0(b, x)))
IntersectedDifference(a, b) == SetOfIds(SelectSeq(PreOrder(a), LAMBDA x : Contains0(b, x)))
SETIDdifference(a, b) == SetOfIds(SelectSeq(PreOrder(a), LAMBDA x : ~Contains0(b, x)))

(* unwrapSetExpr: a reference is replaced by a copy of the literal its nodeset
   unwraps to. *)
RECURSIVE Unwrapped(_)
Unwrapped(e) ==
  CASE e.op = "none" -> Nil
    [] e.op = "set" -> SetOfIds(e.ids)
    [] e.op = "ref" -> Unwrapped(SetOf(e.id).expr)
    [] e.op = "|" -> SETIDunion(Unwrapped(e.left), Unwrapped(e.right))
    [] e.op = "&" -> SETIDintersect(Unwrapped(e.left), Unwrapped(e.right))
    [] OTHER -> SETIDdifference(Unwrapped(e.left), Unwrapped(e.right))

USEast ==
  /\ pc = "USE"
  /\ literal' = [n \in NamesOf(g.sets) \cup NamesOf(g.traversals) |->
                   Unwrapped(IF IsSet(n) THEN SetOf(n).expr ELSE Named(g.traversals, n).expr)]
  /\ pc' = "PRA"
  /\ UNCHANGED <<g, ste, faulty, table, matrix>>

-----------------------------------------------------------------------------
(* propagateAttributes: a nodeset hands its own attributes to the nodesets of
   its table and to the nodes of its literal, which get them in front. *)
AddsConstructor(own, a) == own.constructor /\ own.kind = "classic" /\ own.type = a.type

PropagateAttribute(state, n, a) ==
  LET attrs == state.attrs[n]
      same == {i \in DOMAIN attrs : attrs[i].name = a.name}
      exception == IsNode(n) /\ a.kind = "classic" /\ same # {}
      redeclared == same # {} /\ (exception => \E i \in same : ~AddsConstructor(attrs[i], a))
      child == ~exception /\ IsNode(n) /\ a.name \in NamesOf(NodeOf(n).children)
  IN [attrs |-> IF exception THEN state.attrs
                ELSE [state.attrs EXCEPT ![n] = <<[a EXCEPT !.propagated = TRUE]>> \o attrs],
      error |-> state.error \/ redeclared \/ child]

PropagateAttributes(state, s, n) ==
  LET own == SelectSeq(state.attrs[s], LAMBDA a : ~a.propagated)
  IN FoldLeft(LAMBDA st, a : PropagateAttribute(st, n, a), state, own)

PRAinodeset(state, s) ==
  FoldLeft(LAMBDA st, n : PropagateAttributes(st, s, n), state, table[s] \o PreOrder(literal[s]))

PRAast ==
  /\ pc = "PRA"
  /\ LET before == [attrs |-> [n \in NamesOf(g.nodes) \cup NamesOf(g.sets) |-> AttributesOf(n)],
                    error |-> FALSE]
         after == FoldLeft(PRAinodeset, before, NameSeq(g.sets))
         with(seq) == [i \in DOMAIN seq |-> [seq[i] EXCEPT !.attrs = after.attrs[seq[i].name]]]
     IN /\ g' = [g EXCEPT !.nodes = with(@), !.sets = with(@)]
        /\ ErrorAction(after.error, "CHA")
  /\ UNCHANGED <<ste, faulty, table, literal, matrix>>

-----------------------------------------------------------------------------
(* checkAttributes.  CHAattribute does not go on to the next attribute, so only
   the first one of a node or nodeset is looked at. *)
Checked(attrs) == IF attrs = <<>> THEN {} ELSE {attrs[1]}
Evaluated(a) == a.kind \in {"inherited", "synthesized"}

ErrorsPhase ==
  \/ \E s \in NamesOf(g.sets) : IllegalSetexprAttr(s) /\ AttributesOf(s) # <<>>
  \/ \E n \in NamesOf(g.nodes) : \E a \in Checked(AttributesOf(n)) :
        \/ a.kind = "inherited" /\ NodeOf(n).root
        \/ ~a.propagated /\ a.constructor /\ Evaluated(a)
  \/ \E n \in NamesOf(g.nodes) \cup NamesOf(g.sets) : \E a \in Checked(AttributesOf(n)) :
        ~a.propagated /\ a.lifetimes /\ Evaluated(a)
ConstructorInSet == \E s \in NamesOf(g.sets) : \E a \in Checked(AttributesOf(s)) :
                      ~a.propagated /\ a.constructor

CHAast ==
  /\ pc = "CHA"
  /\ faulty' = (faulty \/ ErrorsPhase)
  /\ ErrorAction(ConstructorInSet, "CPR")
  /\ UNCHANGED <<g, ste, table, literal, matrix>>

-----------------------------------------------------------------------------
(* checkProductRules.  A rule is a pair of a child, or This, and an attribute;
   the equations of a node map each of its rules to those it depends on. *)
TypeOfSite(n, c) == IF c = This THEN n ELSE Named(NodeOf(n).children, c).type
Exists(n, r) == /\ r[1] = This \/ r[1] \in NamesOf(NodeOf(n).children)
                /\ r[2] \in NamesOf(AttributesOf(TypeOfSite(n, r[1])))
KindOf(n, r) == Named(AttributesOf(TypeOfSite(n, r[1])), r[2]).kind
CheckAttributeReference(n, r, inRule) ==
  /\ Exists(n, r)
  /\ inRule => KindOf(n, r) = (IF r[1] = This THEN "synthesized" ELSE "inherited")

Sites(n) == <<This>> \o NameSeq(NodeOf(n).children)
Wanted(n) ==
  {<<c, a>> \in ToSet(Sites(n)) \X UNION {NamesOf(AttributesOf(TypeOfSite(n, c))) : c \in ToSet(Sites(n))} :
     CheckAttributeReference(n, <<c, a>>, TRUE)}

CPRinode(n) ==
  LET eqs == NodeOf(n).eqs
  IN \/ \E r \in DOMAIN eqs : \/ ~CheckAttributeReference(n, r, TRUE)
                              \/ \E d \in ToSet(eqs[r]) : ~CheckAttributeReference(n, d, FALSE)
     \/ ~(Wanted(n) \subseteq DOMAIN eqs)

CPRast ==
  /\ pc = "CPR"
  /\ ErrorAction(\E n \in NamesOf(g.nodes) : CPRinode(n), "RCB")
  /\ UNCHANGED <<g, ste, faulty, table, literal, matrix>>

-----------------------------------------------------------------------------
(* reachability.  Below a child whose type is a nodeset the search also looks
   at every later nodeset of the file, since TRAVchildren follows next. *)
RCBinodeset(s) ==
  LET at == CHOOSE i \in DOMAIN g.sets : g.sets[i].name = s
  IN  FlattenSeq([i \in 1..(Len(g.sets) - at + 1) |-> PreOrder(literal[g.sets[at + i - 1].name])])
TypesBelow(n) ==
  LET kids == NodeOf(n).children
  IN  [i \in DOMAIN kids |-> IF IsNode(kids[i].type) THEN <<kids[i].type>> ELSE RCBinodeset(kids[i].type)]

(* A traversal without nodes is handled by the user everywhere. *)
RCBitraversal(t) ==
  IF literal[t] = Nil THEN [n \in NamesOf(g.nodes) |-> "user"]
  ELSE RCBrow([n \in NamesOf(g.nodes) |-> TypesBelow(n)], NameSeq(g.nodes), ToSet(PreOrder(literal[t])))

RCBast ==
  /\ pc = "RCB"
  /\ matrix' = [t \in NamesOf(g.traversals) |-> RCBitraversal(t)]
  /\ pc' = "SAV"
  /\ UNCHANGED <<g, ste, faulty, table, literal>>

-----------------------------------------------------------------------------
FeInit ==
  /\ g \in Grammars
  /\ pc = "BST" /\ ste = <<>> /\ faulty = FALSE
  /\ table = <<>> /\ literal = <<>> /\ matrix = <<>>

FeNext == BSTast \/ CEXast \/ NCTast \/ USEast \/ PRAast \/ CHAast \/ CPRast \/ RCBast
=============================================================================
