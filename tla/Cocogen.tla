------------------------------ MODULE Cocogen ------------------------------
(***************************************************************************)
(* cocogen from a parsed file to the visit functions it generates: the      *)
(* traversals of FrontEnd, the attribute scheduler of Scheduler on what they *)
(* leave, the verdict at the end of the phase, and the order in which the    *)
(* generated functions evaluate the attributes of a tree.                    *)
(***************************************************************************)
EXTENDS FrontEnd, Scheduler

CONSTANTS TreeDepth   \* bounds the trees whose evaluation is looked at

vars == <<feVars, savVars>>

Pairs(attrs) == [i \in DOMAIN attrs |-> [name |-> attrs[i].name, kind |-> attrs[i].kind]]
Annotated ==
  [nodes |-> NameSeq(g.nodes), sets |-> NameSeq(g.sets),
   attrs |-> [n \in NamesOf(g.nodes) \cup NamesOf(g.sets) |-> Pairs(AttributesOf(n))],
   children |-> [n \in NamesOf(g.nodes) |-> NodeOf(n).children],
   eqs |-> [n \in NamesOf(g.nodes) |-> NodeOf(n).eqs],
   members |-> [s \in NamesOf(g.sets) |-> PreOrder(literal[s])]]

StartSAV == pc = "SAV" /\ SAVast(Annotated) /\ UNCHANGED feVars
StepSAV == pc = "SAV" /\ SavNext /\ UNCHANGED feVars

(* An error of the scheduler ends the phase behind it, a full queue ends the
   program; an error noted earlier ends the phase here, where it is over. *)
EndSAV ==
  /\ pc = "SAV" /\ stage \in {"done", "error", "loop", "crashed"}
  /\ pc' = CASE stage = "crashed" -> "crashed"
             [] stage \in {"error", "loop"} \/ faulty -> "aborted"
             [] OTHER -> "DGVS"
  /\ UNCHANGED <<g, ste, faulty, table, literal, matrix, savVars>>

(* An attribute to evaluate needs an equation of the node: DGVSvisit_sequence_eval. *)
Equation(n, v) == <<v[2], v[3]>> \in DOMAIN ag.eqs[n]
EvaluationsOf(n) == {item \in UNION {ToSet(sequences[n][i]) : i \in DOMAIN sequences[n]} : ~item.is_visit}
DGVSast ==
  /\ pc = "DGVS"
  /\ ErrorAction(\E n \in ToSet(ag.nodes) : \E item \in EvaluationsOf(n) : ~Equation(n, item.node),
                 "generated")
  /\ UNCHANGED <<g, ste, faulty, table, literal, matrix, savVars>>

Init == FeInit /\ SavInit
Step == (FeNext /\ UNCHANGED savVars) \/ StartSAV \/ StepSAV \/ EndSAV \/ DGVSast
(* cocogen goes on while it runs: weak fairness of Step, which is enabled
   exactly then, written without ENABLED. *)
Running == pc \notin {"aborted", "crashed", "generated"}
Stopped == ~Running /\ UNCHANGED vars
Next == Step \/ Stopped
Fairness == <>[]Running => []<><<Step>>_vars
Spec == Init /\ [][Next]_vars /\ Fairness

-----------------------------------------------------------------------------
(* What the functions CCNvisit_<node>_<i> do on a tree.  A tree is a type and
   the trees of its children; a child may be missing. *)
Missing == [type |-> 0]
RECURSIVE Trees(_, _)
Trees(n, depth) ==
  LET kids == ag.children[n]
      types(t) == IF t \in ToSet(ag.nodes) THEN {t} ELSE ToSet(ag.members[t])
      choices(t) == {Missing} \cup IF depth = 1 THEN {} ELSE UNION {Trees(u, depth - 1) : u \in types(t)}
      all == UNION {choices(kids[i].type) : i \in DOMAIN kids}
  IN {[type |-> n, kids |-> k] :
        k \in {f \in [DOMAIN kids -> all] : \A i \in DOMAIN kids : f[i] \in choices(kids[i].type)}}

KidOf(tree, c) == tree.kids[CHOOSE i \in DOMAIN tree.kids : ag.children[tree.type][i].name = c]
PathOf(path, c) == IF c = Self THEN path ELSE Append(path, c)

RECURSIVE Events(_, _, _)
Events(tree, path, i) ==
  LET run(item) ==
        IF ~item.is_visit THEN << <<PathOf(path, item.node[2]), item.node[3]>> >>
        ELSE LET kid == KidOf(tree, item.child)
                 chosen == SelectSeq(Alternatives(ChildType(tree.type, item.child), item.visit),
                                     LAMBDA alt : alt.node = kid.type /\ alt.visit # 0)
             IN IF chosen = <<>> THEN <<>>
                ELSE Events(kid, Append(path, item.child), chosen[1].visit)
      items == sequences[tree.type][i]
  IN FlattenSeq([k \in DOMAIN items |-> run(items[k])])
Evaluation(tree) == FlattenSeq([i \in DOMAIN visits[tree.type] |-> Events(tree, <<>>, i)])

(* The attributes of a tree, and for each those it is computed from. *)
RECURSIVE AttributesIn(_, _)
AttributesIn(tree, path) ==
  {<<path, a>> : a \in {b \in {ag.attrs[tree.type][i].name : i \in DOMAIN ag.attrs[tree.type]} :
                          IsEvaluated(tree.type, b)}}
  \cup UNION {AttributesIn(tree.kids[i], Append(path, ag.children[tree.type][i].name)) :
                i \in {j \in DOMAIN tree.kids : tree.kids[j] # Missing}}
RECURSIVE ComputedFrom(_, _)
ComputedFrom(tree, path) ==
  LET n == tree.type
  IN UNION {{<<<<PathOf(path, ag.eqs[n][r][i][1]), ag.eqs[n][r][i][2]>>, <<PathOf(path, r[1]), r[2]>>>> :
                i \in DOMAIN ag.eqs[n][r]} : r \in Rules(n)}
     \cup UNION {ComputedFrom(tree.kids[i], Append(path, ag.children[n][i].name)) :
                   i \in {j \in DOMAIN tree.kids : tree.kids[j] # Missing}}

-----------------------------------------------------------------------------
(* Sets are sets: what a nodeset or the nodes of a traversal unwrap to, with
   its search trees, copies and insertions in a certain order, is the set the
   expression denotes, and every member is found in it. *)
RECURSIVE Denotes(_)
Denotes(e) ==
  CASE e.op = "none" -> {}
    [] e.op = "set" -> ToSet(e.ids)
    [] e.op = "ref" -> Denotes(SetOf(e.id).expr)
    [] e.op = "|" -> Denotes(e.left) \cup Denotes(e.right)
    [] e.op = "&" -> Denotes(e.left) \cap Denotes(e.right)
    [] OTHER -> Denotes(e.left) \ Denotes(e.right)
UnwrappedSetsMeanTheirExpression ==
  \A n \in DOMAIN literal :
    LET members == Denotes(IF IsSet(n) THEN SetOf(n).expr ELSE Named(g.traversals, n).expr)
    IN /\ ToSet(PreOrder(literal[n])) = members
       /\ \A m \in members : Contains0(literal[n], m)

(* In a grammar that is accepted every attribute of a nodeset is an attribute
   of every node of the set, once, with the same kind and type: the generated
   code reads it from the node whichever member stands there.  This takes the
   table of nodesets, the literal, propagation and the rule about & and -. *)
Accepted == pc \in {"DGVS", "generated"}
SetAttributesReachMembers ==
  Accepted =>
    \A s \in NamesOf(g.sets) : \A m \in ToSet(PreOrder(literal[s])) : \A i \in DOMAIN AttributesOf(s) :
      LET a == AttributesOf(s)[i]
          same == {j \in DOMAIN AttributesOf(m) : AttributesOf(m)[j].name = a.name}
      IN \E j \in same : /\ same = {j}
                         /\ AttributesOf(m)[j].kind = a.kind /\ AttributesOf(m)[j].type = a.type

(* A node below which a node of a traversal can stand is handled by it, so
   that the traversal comes by: although the search stops early, looks at no
   node twice and uses the answers for the nodes dealt with before, also where
   nodes are below each other.  More nodes may be handled than that: the search
   takes in later nodesets. *)
ChildTypes(n) == {NodeOf(n).children[i].type : i \in DOMAIN NodeOf(n).children}
ReallyBelow(n) == {t \in ChildTypes(n) : IsNode(t)}
                  \cup UNION {Denotes(SetOf(t).expr) : t \in {u \in ChildTypes(n) : IsSet(u)}}
HandledNodesAreReached ==
  \A t \in DOMAIN matrix :
    LET wanted == IF literal[t] = Nil THEN NamesOf(g.nodes) ELSE ToSet(PreOrder(literal[t]))
        step == [n \in NamesOf(g.nodes) |-> ReallyBelow(n)]
    IN \A n \in NamesOf(g.nodes) :
         /\ matrix[t][n] = "user" <=> n \in wanted
         /\ Behind(step[n], step) \cap wanted # {} => matrix[t][n] # "none"

(* The generated functions evaluate every attribute of a tree once, after all
   it is computed from.  It is so where the members of a nodeset have the visits
   of the set and the root inherits nothing; the other grammars are accepted
   too, and the code generated for them is wrong. *)
SameVisits(s, m) ==
  /\ Len(visits[s]) = Len(visits[m])
  /\ \A i \in DOMAIN visits[s] : /\ ToSet(visits[s][i].inputs) = ToSet(visits[m][i].inputs)
                                 /\ ToSet(visits[s][i].outputs) = ToSet(visits[m][i].outputs)
Root == CHOOSE i \in DOMAIN g.nodes : g.nodes[i].root
RootGetsNothing == \A i \in DOMAIN g.nodes[Root].attrs : g.nodes[Root].attrs[i].kind # "inherited"
AttributesAreEvaluatedInOrder ==
  (/\ pc = "generated"
   /\ \A s \in ToSet(ag.sets) : \A m \in ToSet(ag.members[s]) : SameVisits(s, m)
   /\ \E i \in DOMAIN g.nodes : g.nodes[i].root
   /\ RootGetsNothing) =>
    \A tree \in Trees(g.nodes[Root].name, TreeDepth) :
      LET all == AttributesIn(tree, <<>>)
          order == SelectSeq(Evaluation(tree), LAMBDA e : e \in all)
          from == ComputedFrom(tree, <<>>)
      IN /\ ToSet(order) = all /\ ~Repeats(order)
         /\ \A j \in DOMAIN order : \A p \in from :
              (p[2] = order[j] /\ p[1] \in all) => \E k \in 1..(j - 1) : order[k] = p[1]

(* The scheduler gives a node up only if what it still wants holds items that
   wait for each other, so that no limit would have been high enough, or if the
   limit of the command line is below the square of the number of items of the
   node.  A lower limit also refuses grammars that have an order: the message
   then speaks of a loop all the same, and of raising the limit. *)
Items == {Attr(v) : v \in ToSet(NodeVertices(Node))}
         \cup UNION {{ChildVisit(c.name, i) : i \in DOMAIN ChildVisits(c)} : c \in ToSet(ag.children[Node])}
Waits(items) == {item \in items : \E r \in ToSet(Unscheduled(item)) :
                                     (IF r.is_visit THEN r ELSE Needed(r.node)) \in items}
RECURSIVE Stuck(_)
Stuck(items) == IF Waits(items) = items THEN items ELSE Stuck(Waits(items))
LoopsAreReal ==
  stage = "loop" => Stuck(ToSet(queue) \ scheduled) # {} \/ max_iter < Cardinality(Items)^2

(* Every file is dealt with: the table of nodesets, the closure under induced
   dependencies and the work queue come to an end. *)
Terminates == <>~Running
=============================================================================
