-------------------------------- MODULE Tree --------------------------------
(***************************************************************************)
(* The tree of a compiler made with CoCoNut: what the code cocogen         *)
(* generates for the nodes of a grammar (dynamic_backend/) does with       *)
(* copra's traversals (dynamic_core.c): constructors, CCNcopy, CCNfree,    *)
(* and a traversal whose handler takes nodes out of the tree.  What a pass *)
(* does in between is to assign a child, to take one out, and to set a     *)
(* link.  The check made before each action changes nothing: CHK is what   *)
(* it reports.                                                             *)
(*                                                                         *)
(* A grammar gives for each type of node its children and attributes and   *)
(* the lifetimes of all three.  Memory is nodes and strings; the least     *)
(* address that is free is allocated, so that addresses are used again.    *)
(***************************************************************************)
EXTENDS Integers, FiniteSets, SequencesExt, Reachability

CONSTANTS Grammars,   \* grammars: functions of node types
          Texts,      \* contents of strings
          Ids,        \* action ids a check is made with
          LinkedTypes,\* bound: types of nodes that links are set to
          MaxStrings, \* bound: strings
          MaxNodes    \* bound: nodes

VARIABLES grammar,    \* the grammar the code is generated for
          mem         \* nodes, strings, and whether memory was misused

vars == <<grammar, mem>>
Null == 0
NoRange == [id |-> 0]

Nodes == DOMAIN mem.nodes
Kids(n) == Range(mem.nodes[n].kids) \ {Null}
Roots == Nodes \ UNION {Kids(n) : n \in Nodes}
Children(t) == grammar[t].children
Attributes(t) == grammar[t].attributes
Least(used) == CHOOSE i \in 1 .. Cardinality(used) + 1 :
                 i \notin used /\ \A j \in 1 .. i - 1 : j \in used
RECURSIVE Below(_, _)
Below(m, n) == {n} \cup UNION {Below(m, k) : k \in Range(m.nodes[n].kids) \ {Null}}
-----------------------------------------------------------------------------
(* STRcpy and MEMfree of a string; NewNode and the generated AST<node>;    *)
(* CCNaccess_<node>_<child> and _<attribute>, assigned to.                 *)
StringsLeft == Cardinality(DOMAIN mem.strings) < MaxStrings
NewString(m, text) ==
  LET s == Least(DOMAIN m.strings)
  IN  [mem |-> [m EXCEPT !.strings = @ @@ (s :> text)], at |-> s]
STRcpy(m, s) == IF s = Null THEN [mem |-> m, at |-> Null] ELSE NewString(m, m.strings[s])
MEMfree(m, s) ==
  IF s = Null THEN m
  ELSE IF s \notin DOMAIN m.strings THEN [m EXCEPT !.fault = TRUE]
  ELSE [m EXCEPT !.strings = [x \in DOMAIN @ \ {s} |-> @[x]]]

DefaultsOf(t) == [type |-> t, file |-> Null,
                  kids |-> [i \in DOMAIN Children(t) |-> Null],
                  attrs |-> [i \in DOMAIN Attributes(t) |-> Null]]
NewNode(m, t) ==
  LET n == Least(DOMAIN m.nodes)
  IN  [mem |-> [m EXCEPT !.nodes = @ @@ (n :> DefaultsOf(t))], at |-> n]
SetKid(m, n, i, k) == [m EXCEPT !.nodes[n].kids[i] = k]
SetAttr(m, n, i, v) == [m EXCEPT !.nodes[n].attrs[i] = v]

(* CPY<node>: a node without children and attributes, the position, then   *)
(* the children and the attributes; those of the attribute grammar are not *)
(* copied.  Mutations: strings are shared; all attributes are copied.      *)
SharedString(m, n, i, new) == SetAttr(m, new, i, m.nodes[n].attrs[i])
CopiedString(m, n, i, new) ==
  LET copy == STRcpy(m, m.nodes[n].attrs[i]) IN SetAttr(copy.mem, new, i, copy.at)
CopiedAnyway(attribute) == TRUE
IsCopied(attribute) == ~attribute.ag
CPYattribute(m, n, i, new) ==
  LET attribute == Attributes(m.nodes[n].type)[i]
  IN  IF ~IsCopied(attribute) THEN m
      ELSE IF attribute.type = "string" THEN CopiedString(m, n, i, new)
      ELSE SetAttr(m, new, i, m.nodes[n].attrs[i])
CopyBaseNode(m, n, new) ==
  LET file == STRcpy(m, m.nodes[n].file)
  IN  [file.mem EXCEPT !.nodes[new].file = file.at]
RECURSIVE CPY(_, _)
CPYchild(m, n, i, new) ==
  IF m.nodes[n].kids[i] = Null THEN m
  ELSE LET copy == CPY(m, m.nodes[n].kids[i]) IN SetKid(copy.mem, new, i, copy.at)
CPY(m, n) ==
  LET t == m.nodes[n].type
      new == NewNode(m, t).at
      based == CopyBaseNode(NewNode(m, t).mem, n, new)
      parents == FoldLeftDomain(LAMBDA x, i : CPYchild(x, n, i, new), based, Children(t))
  IN  [mem |-> FoldLeftDomain(LAMBDA x, i : CPYattribute(x, n, i, new), parents, Attributes(t)),
       at |-> new]

(* DEL<node>: TRAVchildren, the strings, the file name, the node.          *)
FreeFileName(m, n) == MEMfree(m, m.nodes[n].file)
DELattribute(m, n, i) == IF Attributes(m.nodes[n].type)[i].type = "string"
                         THEN MEMfree(m, m.nodes[n].attrs[i]) ELSE m
RECURSIVE DEL(_, _)
DELchild(m, n, i) == IF m.nodes[n].kids[i] = Null THEN m
                     ELSE SetKid(DEL(m, m.nodes[n].kids[i]), n, i, Null)
DEL(m, n) ==
  IF n \notin DOMAIN m.nodes THEN [m EXCEPT !.fault = TRUE]
  ELSE LET t == m.nodes[n].type
           kids == FoldLeftDomain(LAMBDA x, i : DELchild(x, n, i), m, Children(t))
           attrs == FoldLeftDomain(LAMBDA x, i : DELattribute(x, n, i), kids, Attributes(t))
           done == FreeFileName(attrs, n)
       IN  [done EXCEPT !.nodes = [x \in DOMAIN @ \ {n} |-> @[x]]]

(* A traversal with one handler, for type t, that frees its node and       *)
(* returns NULL.  Its table has for other nodes what the matrix of         *)
(* cocogen says (DGNFTTinode): TRAVchildren, which stores what comes back, *)
(* or TRAVnop.  Nodesets behind that of a child in the file, in which the  *)
(* search also looks, are left out: they can only add nodes.               *)
Matrix ==
  [gr \in Grammars |->
     LET below == [x \in DOMAIN gr |-> [i \in DOMAIN gr[x].children |-> SetToSeq(gr[x].children[i].types)]]
     IN  [t \in DOMAIN gr |-> RCBrow(below, SetToSeq(DOMAIN gr), {t})]]
RECURSIVE TRAV(_, _, _)
TRAVopt(m, n, t) == IF n = Null THEN [mem |-> m, at |-> n] ELSE TRAV(m, n, t)
TRAVchild(m, n, i, t) == LET back == TRAVopt(m, m.nodes[n].kids[i], t)
                         IN  SetKid(back.mem, n, i, back.at)
TRAVchildren(m, n, t) ==
  FoldLeftDomain(LAMBDA x, i : TRAVchild(x, n, i, t), m, m.nodes[n].kids)
TRAV(m, n, t) ==
  LET handler == Matrix[grammar][t][m.nodes[n].type]
  IN  CASE handler = "user" -> [mem |-> DEL(m, n), at |-> Null]
        [] handler = "trav" -> [mem |-> TRAVchildren(m, n, t), at |-> n]
        [] handler = "none" -> [mem |-> m, at |-> n]
-----------------------------------------------------------------------------
(* Lifetimes.  A begin or an end is an action, from `id` up to `next`, and *)
(* a bracket.  The conditions are those generated for action_id.           *)
(* Mutations: ( is taken for [; an end has to be missed to be outside.     *)
ClosedBegin(l, a) == l.begin = NoRange \/ a >= l.begin.id
Begun(l, a) ==
  l.begin = NoRange \/ a >= (IF l.begin.inclusive THEN l.begin.id ELSE l.begin.next)
NotEnded(l, a) == l.end = NoRange \/ a < (IF l.end.inclusive THEN l.end.next ELSE l.end.id)
Disallowed(l, a, present) == Begun(l, a) /\ NotEnded(l, a) /\ present
Mandatory(l, a, present) == Begun(l, a) /\ NotEnded(l, a) /\ ~present
Allowed(l, a, present) ==
  /\ \/ l.begin # NoRange /\ ~Begun(l, a)
     \/ l.end # NoRange /\ ~NotEnded(l, a)
  /\ present
Optional(l, a, present) ==
  /\ \/ l.begin # NoRange /\ ~Begun(l, a)
     \/ l.end # NoRange /\ ~NotEnded(l, a)
  /\ ~present

(* DGCHTilifetime does not go on to the next lifetime of a list.           *)
Generated(lifetimes) == IF lifetimes = <<>> THEN {} ELSE {Head(lifetimes)}
LifetimeError(l, a, present) ==
  CASE l.type = "disallowed" -> Disallowed(l, a, present)
    [] l.type = "allowed" -> Allowed(l, a, present)
    [] l.type = "mandatory" -> Mandatory(l, a, present)
    [] l.type = "optional" -> Optional(l, a, present)
ErrorIn(lifetimes, a, present) ==
  \E l \in Generated(lifetimes) : LifetimeError(l, a, present)

NodeErrors(n, a) ==
  IF ErrorIn(grammar[mem.nodes[n].type].lifetimes, a, TRUE) THEN {<<n, "node", 0>>} ELSE {}
AttributeErrors(n, a) ==
  {<<n, "attribute", i>> : i \in
     {i \in DOMAIN mem.nodes[n].attrs :
        ErrorIn(Attributes(mem.nodes[n].type)[i].lifetimes, a, mem.nodes[n].attrs[i] # Null)}}
TypeErrors(n) ==
  {<<n, "type", i>> : i \in
     {i \in DOMAIN mem.nodes[n].kids :
        /\ mem.nodes[n].kids[i] # Null
        /\ mem.nodes[mem.nodes[n].kids[i]].type \notin Children(mem.nodes[n].type)[i].types}}
ChildErrors(n, a) ==
  {<<n, "child", i>> : i \in
     {i \in DOMAIN mem.nodes[n].kids :
        ErrorIn(Children(mem.nodes[n].type)[i].lifetimes, a, mem.nodes[n].kids[i] # Null)}}
RECURSIVE CHK(_, _)
CHK(n, a) == TypeErrors(n) \cup ChildErrors(n, a) \cup AttributeErrors(n, a)
             \cup NodeErrors(n, a) \cup UNION {CHK(k, a) : k \in Kids(n)}
-----------------------------------------------------------------------------
(* A subtree as a value, for the history; a child is a sequence of one     *)
(* value, or of none.                                                      *)
RECURSIVE Term(_, _)
Term(m, n) ==
  LET TextAt(s) == IF s = Null THEN Null ELSE m.strings[s]
      x == m.nodes[n]
  IN  [type |-> x.type, file |-> TextAt(x.file),
       kids |-> [i \in DOMAIN x.kids |-> IF x.kids[i] = Null THEN <<>> ELSE <<Term(m, x.kids[i])>>],
       attrs |-> [i \in DOMAIN x.attrs |-> IF Attributes(x.type)[i].type = "string"
                                           THEN TextAt(x.attrs[i]) ELSE x.attrs[i]]]

Init == /\ grammar \in Grammars
        /\ mem = [nodes |-> <<>>, strings |-> <<>>, fault |-> FALSE]

(* AST<node>(...): children, then attributes, that are in the constructor. *)
Given(parts, values) == {f \in [DOMAIN parts -> values] :
                           \A i \in DOMAIN parts : parts[i].ctor \/ f[i] = Null}
AST(t) ==
  /\ Cardinality(Nodes) < MaxNodes
  /\ \E kids \in Given(Children(t), Roots \cup {Null}), text \in Texts \cup {Null} :
       LET new == NewNode(mem, t).at
           strings == {i \in DOMAIN Attributes(t) : Attributes(t)[i].type = "string"
                                                  /\ Attributes(t)[i].ctor}
           Name(m, i) == IF i \in strings /\ text # Null
                         THEN LET s == NewString(m, text) IN SetAttr(s.mem, new, i, s.at) ELSE m
       IN  /\ \A i, j \in DOMAIN kids : i # j /\ kids[i] # Null => kids[i] # kids[j]
           /\ text # Null => strings # {} /\ StringsLeft
           /\ mem' = FoldLeftDomain(Name, [NewNode(mem, t).mem EXCEPT !.nodes[new].kids = kids],
                                    Attributes(t))
  /\ UNCHANGED grammar

SetLocation(n) == \E text \in Texts :
  /\ mem.nodes[n].file = Null /\ StringsLeft
  /\ LET s == NewString(mem, text) IN mem' = [s.mem EXCEPT !.nodes[n].file = s.at]
  /\ UNCHANGED grammar
SetChild(n, i) ==
  /\ mem.nodes[n].kids[i] = Null
  /\ \E k \in Roots : n \notin Below(mem, k) /\ mem' = SetKid(mem, n, i, k)
  /\ UNCHANGED grammar
TakeChild(n, i) ==
  /\ mem.nodes[n].kids[i] # Null
  /\ mem' = SetKid(mem, n, i, Null)
  /\ UNCHANGED grammar
SetLink(n, i) ==
  /\ Attributes(mem.nodes[n].type)[i].type # "string"
  /\ \E k \in Nodes : mem.nodes[k].type \in LinkedTypes /\ mem' = SetAttr(mem, n, i, k)
  /\ UNCHANGED grammar

CCNcopy(n) ==
  /\ Cardinality(Nodes) + Cardinality(Below(mem, n)) <= MaxNodes
  /\ mem' = CPY(mem, n).mem
  /\ UNCHANGED grammar
CCNfree(n) ==
  /\ n \in Roots
  /\ mem' = DEL(mem, n)
  /\ UNCHANGED grammar
RemoveAll(n) == \E t \in DOMAIN grammar :
  /\ n \in Roots
  /\ mem' = TRAV(mem, n, t).mem
  /\ UNCHANGED grammar

Next == \/ \E t \in DOMAIN grammar : AST(t)
        \/ \E n \in Nodes :
             \/ SetLocation(n) \/ CCNcopy(n) \/ CCNfree(n) \/ RemoveAll(n)
             \/ \E i \in DOMAIN mem.nodes[n].kids : SetChild(n, i) \/ TakeChild(n, i)
             \/ \E i \in DOMAIN mem.nodes[n].attrs : SetLink(n, i)
Spec == Init /\ [][Next]_vars
-----------------------------------------------------------------------------
(* Nothing is freed twice or used after it was freed; a node is the child  *)
(* of one node at most, a string belongs to one node, and no string        *)
(* outlives the node it belongs to.  The same would be true after any copy *)
(* and CCNfree of a copy leaves everything as it was before: copies share  *)
(* nothing with their originals, and what is freed is all of a subtree and *)
(* no more.                                                                *)
OwnedOnce(m) ==
  LET nodes == DOMAIN m.nodes
      parents(k) == {<<n, i>> \in nodes \X (1 .. MaxNodes) :
                       i \in DOMAIN m.nodes[n].kids /\ m.nodes[n].kids[i] = k}
      files(s) == {n \in nodes : m.nodes[n].file = s}
      names(s) == {<<n, i>> \in nodes \X (1 .. MaxNodes) :
                     /\ i \in DOMAIN m.nodes[n].attrs /\ m.nodes[n].attrs[i] = s
                     /\ Attributes(m.nodes[n].type)[i].type = "string"}
  IN  /\ ~m.fault
      /\ \A k \in nodes : Cardinality(parents(k)) <= 1
      /\ \A s \in DOMAIN m.strings : Cardinality(files(s)) + Cardinality(names(s)) = 1
MemoryHasOneOwner ==
  /\ OwnedOnce(mem)
  /\ \A n \in Nodes : LET copy == CPY(mem, n) IN
       OwnedOnce(copy.mem) /\ DEL(copy.mem, copy.at) = mem

(* CCNcopy makes a tree of other nodes that says the same as the original  *)
(* (strings by content, links to the same nodes, attributes of the         *)
(* attribute grammar not yet evaluated), and leaves the original as it     *)
(* was.                                                                    *)
RECURSIVE Unevaluated(_)
Unevaluated(term) ==
  [term EXCEPT !.kids = [i \in DOMAIN @ |-> [j \in DOMAIN @[i] |-> Unevaluated(@[i][j])]],
               !.attrs = [i \in DOMAIN @ |-> IF Attributes(term.type)[i].ag THEN Null ELSE @[i]]]
CopyIsFaithful ==
  \A n \in Nodes :
    LET copy == CPY(mem, n)
    IN  /\ Term(copy.mem, copy.at) = Unevaluated(Term(mem, n))
        /\ Below(copy.mem, copy.at) \cap Nodes = {}
        /\ \A k \in Nodes : copy.mem.nodes[k] = mem.nodes[k]

(* The check before an action reports a node, child or attribute exactly   *)
(* when one of its lifetimes, as dsl_syntax.rst means it, does not hold at *)
(* that action, or the type of a child is none of those given for it.  So  *)
(* it is with one lifetime for each part, as in the instance; with several *)
(* the code looks at the first only.                                       *)
Span(action) == action.id .. action.next - 1
InRange(l, a) ==
  /\ l.begin # NoRange => IF l.begin.inclusive THEN \E x \in Span(l.begin) : x <= a
                                               ELSE \A x \in Span(l.begin) : x < a
  /\ l.end # NoRange => IF l.end.inclusive THEN \E x \in Span(l.end) : a <= x
                                           ELSE \A x \in Span(l.end) : a < x
Holds(l, a, present) == CASE l.type = "disallowed" -> InRange(l, a) => ~present
                          [] l.type = "allowed" -> ~InRange(l, a) => ~present
                          [] l.type = "mandatory" -> InRange(l, a) => present
                          [] l.type = "optional" -> ~InRange(l, a) => present
Wrong(n, a, part, i) ==
  LET x == mem.nodes[n]
      Broken(lifetimes, present) ==
        \E k \in DOMAIN lifetimes : ~Holds(lifetimes[k], a, present)
  IN  CASE part = "node" -> i = 0 /\ Broken(grammar[x.type].lifetimes, TRUE)
        [] part = "child" -> /\ i \in DOMAIN x.kids
                             /\ Broken(Children(x.type)[i].lifetimes, x.kids[i] # Null)
        [] part = "attribute" -> /\ i \in DOMAIN x.attrs
                                 /\ Broken(Attributes(x.type)[i].lifetimes, x.attrs[i] # Null)
        [] part = "type" -> /\ i \in DOMAIN x.kids /\ x.kids[i] # Null
                            /\ mem.nodes[x.kids[i]].type \notin Children(x.type)[i].types
Parts == {"node", "child", "attribute", "type"}
CheckMatchesLifetimes ==
  \A n \in Roots, a \in Ids :
    CHK(n, a) = {e \in Below(mem, n) \X Parts \X (0 .. MaxNodes) :
                   Wrong(e[1], a, e[2], e[3])}

(* A handler that removes the nodes of a type meets every one of them, and *)
(* the rest of the tree stays as it is; in a tree whose children have the  *)
(* types of the grammar.                                                   *)
RECURSIVE WellTyped(_), Without(_, _)
WellTyped(term) ==
  \A i \in DOMAIN term.kids :
    \A k \in Range(term.kids[i]) : k.type \in Children(term.type)[i].types /\ WellTyped(k)
Without(terms, t) ==
  LET kept == SelectSeq(terms, LAMBDA term : term.type # t)
  IN  [j \in DOMAIN kept |->
         [kept[j] EXCEPT !.kids = [i \in DOMAIN @ |-> Without(@[i], t)]]]
RemovedTypeIsGone ==
  \A n \in Roots, t \in DOMAIN grammar :
    WellTyped(Term(mem, n)) =>
      LET back == TRAV(mem, n, t)
      IN  (IF back.at = Null THEN <<>> ELSE <<Term(back.mem, back.at)>>)
            = Without(<<Term(mem, n)>>, t)
=============================================================================
