----------------------------- MODULE Scheduler -----------------------------
(***************************************************************************)
(* scheduleAttributeVisits of cocogen: the dependencies between attributes   *)
(* are collected and closed, the attributes of every node and nodeset are    *)
(* divided over visits, and the equations and child visits of every node     *)
(* are put in an order by a work queue.  One step of the queue is one step   *)
(* here.                                                                     *)
(*                                                                          *)
(* An attribute occurrence is <<type, child, attribute>>, where child is     *)
(* This for the node itself; that is a struct GRnode.                        *)
(***************************************************************************)
EXTENDS Naturals, SequencesExt, FiniteSetsExt

CONSTANTS MaxIters   \* values of the option --ag-scheduler-max-iter

VARIABLES
  max_iter,    \* globals.ag_scheduler_max_iter
  ag,          \* the annotated grammar: nodes, sets, attrs, children, eqs, members
  stage,       \* what SAVast does next
  graphs,      \* the edges of every production graph
  visits,      \* the visits of every node and nodeset: [inputs, outputs]
  current,     \* [node, visit]: what is being generated, as positions
  queue, queued, scheduled, iterations,
  sequences    \* the visit sequences generated

savVars == <<max_iter, ag, stage, graphs, visits, current, queue, queued,
             scheduled, iterations, sequences>>

Self == "this"
IsInherited(t, a) == \E i \in DOMAIN ag.attrs[t] : ag.attrs[t][i] = [name |-> a, kind |-> "inherited"]
IsSynthesized(t, a) == \E i \in DOMAIN ag.attrs[t] : ag.attrs[t][i] = [name |-> a, kind |-> "synthesized"]
IsEvaluated(t, a) == IsInherited(t, a) \/ IsSynthesized(t, a)
ChildType(n, c) == IF c = Self THEN n
                   ELSE ag.children[n][CHOOSE i \in DOMAIN ag.children[n] : ag.children[n][i].name = c].type
Occurrence(n, r) == <<ChildType(n, r[1]), r[1], r[2]>>
Site(v) == <<v[1], v[2]>>

-----------------------------------------------------------------------------
(* The production graphs: one for a node, one for each member of a nodeset. *)
AddAttributes(t, c) ==
  LET all == [i \in DOMAIN ag.attrs[t] |-> <<t, c, ag.attrs[t][i].name>>]
  IN SelectSeq(all, LAMBDA v : IsEvaluated(t, v[3]))

NodeVertices(n) ==
  AddAttributes(n, Self)
    \o FlattenSeq([i \in DOMAIN ag.children[n] |->
                     AddAttributes(ag.children[n][i].type, ag.children[n][i].name)])
Rules(n) == DOMAIN ag.eqs[n]
NodeEdges(n) ==
  UNION {{<<Occurrence(n, ag.eqs[n][r][i]), Occurrence(n, r)>> :
            i \in {j \in DOMAIN ag.eqs[n][r] : LET d == ag.eqs[n][r][j] IN IsEvaluated(ChildType(n, d[1]), d[2])}} :
         r \in Rules(n)}

Across(t, u) == [i \in DOMAIN AddAttributes(t, Self) |-> <<u, Self, AddAttributes(t, Self)[i][3]>>]
SetVertices(s, m) == AddAttributes(s, Self) \o Across(s, m)
SetEdges(s, m) ==
  {IF IsInherited(s, v[3]) THEN <<v, <<m, Self, v[3]>>>> ELSE <<<<m, Self, v[3]>>, v>> :
     v \in ToSet(AddAttributes(s, Self))}

(* A graph is named <<n>> or <<s, m>>. *)
Graphs == {<<n>> : n \in ToSet(ag.nodes)} \cup UNION {{<<s, m>> : m \in ToSet(ag.members[s])} : s \in ToSet(ag.sets)}
Vertices(k) == IF Len(k) = 1 THEN NodeVertices(k[1]) ELSE SetVertices(k[1], k[2])
Edges(k) == IF Len(k) = 1 THEN NodeEdges(k[1]) ELSE SetEdges(k[1], k[2])

(* GRclose_transitivity adds no edge from an occurrence to itself.  It stops at
   the first loop; the edges it leaves out are those of a refused grammar. *)
Closed(E, vertices) ==
  LET V == ToSet(vertices)
      closed[k \in 0..Len(vertices)] ==
        IF k = 0 THEN E
        ELSE LET F == closed[k - 1]
                 from == {v \in V : <<v, vertices[k]>> \in F}
                 to == {v \in V : <<vertices[k], v>> \in F}
             IN F \cup {e \in from \X to : e[1] # e[2]}
  IN closed[Len(vertices)]
(* GRadd_edge and GRclose_transitivity report an edge whose reverse is there. *)
Loops(E) == \E e \in E : e[1] # e[2] /\ <<e[2], e[1]>> \in E

(* GRadd_new_intra_node_dependency and combine_edgelists: an edge between two
   occurrences at one site, as an edge between attributes of its type. *)
Intra(E) == {<<<<e[1][1], e[1][3]>>, <<e[2][1], e[2][3]>>>> : e \in {f \in E : Site(f[1]) = Site(f[2])}}
Induced == UNION {Intra(graphs[k]) : k \in Graphs}

GenerateGraphs ==
  /\ stage = "graphs"
  /\ graphs' = [k \in Graphs |-> Closed(Edges(k), Vertices(k))]
  /\ stage' = "induce"
  /\ UNCHANGED <<max_iter, ag, visits, current, queue, queued, scheduled, iterations, sequences>>

(* add_induced_edges for all graphs, as long as some graph gets an edge. *)
Instances(k, induced) ==
  LET V == ToSet(Vertices(k))
  IN UNION {{<<v, w>> : w \in {u \in V : Site(v) = Site(u) /\ <<<<v[1], v[3]>>, <<u[1], u[3]>>>> \in induced}} :
              v \in V}
Lacking == LET induced == Induced IN {k \in Graphs : ~(Instances(k, induced) \subseteq graphs[k])}
AddInducedEdges ==
  /\ stage = "induce" /\ Lacking # {}
  /\ LET induced == Induced
     IN graphs' = [k \in Graphs |-> Closed(graphs[k] \cup Instances(k, induced), Vertices(k))]
  /\ UNCHANGED <<max_iter, ag, stage, visits, current, queue, queued, scheduled, iterations, sequences>>

GraphsFinished ==
  /\ stage = "induce" /\ Lacking = {}
  /\ stage' = IF \E k \in Graphs : Loops(graphs[k]) THEN "error" ELSE "visits"
  /\ UNCHANGED <<max_iter, ag, graphs, visits, current, queue, queued, scheduled, iterations, sequences>>

-----------------------------------------------------------------------------
(* partition_nodes: inherited attributes get even numbers, synthesized odd
   ones, and a number is never below those of the attributes depended on. *)
GraphOf(t) == IF t \in ToSet(ag.nodes) THEN graphs[<<t>>] ELSE graphs[<<t, ag.members[t][1]>>]
InterDependencies(t, a) ==
  {v[3] : v \in {w \in ToSet(AddAttributes(t, Self)) : w[3] # a /\ <<w, <<t, Self, a>>>> \in GraphOf(t)}}
Partition(t) ==
  LET part[a \in {v[3] : v \in ToSet(AddAttributes(t, Self))}] ==
        LET deps == InterDependencies(t, a)
            highest == Max({part[b] : b \in deps})
        IN IF deps = {} THEN (IF IsSynthesized(t, a) THEN 3 ELSE 2)
           ELSE highest + (IF IsSynthesized(t, a) = (highest % 2 = 1) THEN 0 ELSE 1)
  IN part

(* collect_visits: a visit takes an even number and the odd one behind it. *)
CollectVisits(t) ==
  LET part == Partition(t)
      own == [i \in DOMAIN AddAttributes(t, Self) |-> AddAttributes(t, Self)[i][3]]
      at(i, kind(_, _)) == SelectSeq(own, LAMBDA a : part[a] \div 2 = i /\ kind(t, a))
      count == Max({0} \cup {part[a] \div 2 : a \in ToSet(own)})
  IN [i \in 1..count |-> [inputs |-> at(i, IsInherited), outputs |-> at(i, IsSynthesized)]]

(* generate_empty_visits: what has a visit below it is visited itself. *)
Below(t) == IF t \in ToSet(ag.nodes) THEN {ag.children[t][i].type : i \in DOMAIN ag.children[t]}
            ELSE ToSet(ag.members[t])
Types == ToSet(ag.nodes) \cup {s \in ToSet(ag.sets) : ag.members[s] # <<>>}
EmptyVisit == << [inputs |-> <<>>, outputs |-> <<>>] >>
AddEmptyVisits(vs) ==
  LET step(ws, x) == [t \in Types |-> IF ws[t] = <<>> /\ \E u \in Below(t) : ws[u] # <<>>
                                      THEN EmptyVisit ELSE ws[t]]
  IN FoldLeft(step, vs, SetToSeq(Types))

(* The type of a child has no entry in the table of visits when it is a
   nodeset without members: node_has_visit and generate_visit need one. *)
EmptyTypes == {s \in ToSet(ag.sets) : ag.members[s] = <<>>}
CrashOnEmptySet == \E n \in ToSet(ag.nodes) : Below(n) \cap EmptyTypes # {}

CollectAllVisits ==
  /\ stage = "visits"
  /\ IF CrashOnEmptySet
     THEN stage' = "crashed" /\ UNCHANGED visits
     ELSE /\ visits' = AddEmptyVisits([t \in Types |-> CollectVisits(t)])
          /\ stage' = "start"
  /\ current' = [node |-> 1, visit |-> 1]
  /\ sequences' = [n \in ToSet(ag.nodes) |-> <<>>]
  /\ scheduled' = {}
  /\ UNCHANGED <<max_iter, ag, graphs, queue, queued, iterations>>

-----------------------------------------------------------------------------
(* generate_visits, for one node after the other. *)
Node == ag.nodes[current.node]
Visit == visits[Node][current.visit]
IsLast == current.visit = Len(visits[Node])
ChildVisits(c) == visits[c.type]

Attr(v) == [is_visit |-> FALSE, node |-> v]
ChildVisit(c, i) == [is_visit |-> TRUE, child |-> c, visit |-> i]
Own(a) == <<Node, Self, a>>

GenerateVisit ==
  /\ stage = "start" /\ current.node <= Len(ag.nodes) /\ current.visit <= Len(visits[Node])
  /\ LET outputs == [i \in DOMAIN Visit.outputs |-> Attr(Own(Visit.outputs[i]))]
         all(c) == [i \in DOMAIN ChildVisits(c) |-> ChildVisit(c.name, i)]
         below == FlattenSeq([j \in DOMAIN ag.children[Node] |-> all(ag.children[Node][j])])
     IN /\ queue' = outputs \o (IF IsLast THEN below ELSE <<>>)
        /\ queued' = ToSet(queue')
  /\ scheduled' = scheduled \cup {Attr(Own(a)) : a \in ToSet(Visit.inputs)}
  /\ sequences' = [sequences EXCEPT ![Node] = Append(@, <<>>)]
  /\ iterations' = 0
  /\ stage' = "queue"
  /\ UNCHANGED <<max_iter, ag, graphs, visits, current>>

(* find_dependencies: the last occurrence of the graph comes first. *)
FindDependencies(v) ==
  Reverse(SelectSeq(NodeVertices(Node), LAMBDA w : w # v /\ <<w, v>> \in graphs[<<Node>>]))

(* find_visit: the visit of the child that computes an attribute of it. *)
FindVisit(v) == CHOOSE i \in DOMAIN visits[v[1]] : v[3] \in ToSet(visits[v[1]][i].outputs)
ByVisit(v) == v[2] # Self /\ IsSynthesized(v[1], v[3])
Needed(v) == IF ByVisit(v) THEN ChildVisit(v[2], FindVisit(v)) ELSE Attr(v)

(* What sched_equation_dependencies and sched_visit_dependencies look at, in
   their order: occurrences, and earlier visits of the same child. *)
Inputs(item) ==
  LET t == ChildType(Node, item.child)
  IN [i \in DOMAIN visits[t][item.visit].inputs |-> <<t, item.child, visits[t][item.visit].inputs[i]>>]
InputlessRequires(item) ==
  IF item.is_visit THEN [i \in 1..(item.visit - 1) |-> ChildVisit(item.child, i)]
  ELSE [i \in DOMAIN FindDependencies(item.node) |-> Attr(FindDependencies(item.node)[i])]
Requires(item) ==
  IF item.is_visit
  THEN [i \in 1..(item.visit - 1) |-> ChildVisit(item.child, i)]
         \o [i \in DOMAIN Inputs(item) |-> Attr(Inputs(item)[i])]
  ELSE [i \in DOMAIN FindDependencies(item.node) |-> Attr(FindDependencies(item.node)[i])]
Unscheduled(item) == SelectSeq(Requires(item), LAMBDA r : r \notin scheduled)

(* sched_equation_dependency: a visit that computes an attribute is queued even
   if it is in the queue, since its struct visit is noted and not the item. *)
Enqueue(state, r) ==
  LET item == IF r.is_visit THEN r ELSE Needed(r.node)
      noted == r.is_visit \/ ~item.is_visit
  IN IF item \in state.queued THEN state
     ELSE [queue |-> Append(state.queue, item),
           queued |-> IF noted THEN state.queued \cup {item} ELSE state.queued]

(* mark_scheduled: a visit also schedules what it computes. *)
OutputlessComputes(item) == {item}
Computes(item) ==
  IF ~item.is_visit THEN {item}
  ELSE LET t == ChildType(Node, item.child)
       IN {item} \cup {Attr(<<t, item.child, a>>) : a \in ToSet(visits[t][item.visit].outputs)}

Pop ==
  /\ stage = "queue" /\ queue # <<>> /\ Head(queue) \in scheduled
  /\ queue' = Tail(queue)
  /\ UNCHANGED <<max_iter, ag, stage, graphs, visits, current, queued, scheduled, iterations, sequences>>

Loop ==
  /\ stage = "queue" /\ queue # <<>> /\ Head(queue) \notin scheduled
  /\ iterations >= max_iter
  /\ stage' = "loop"
  /\ UNCHANGED <<max_iter, ag, graphs, visits, current, queue, queued, scheduled, iterations, sequences>>

UncountedPostpone ==
  /\ stage = "queue" /\ queue # <<>> /\ Head(queue) \notin scheduled
  /\ iterations < max_iter
  /\ Unscheduled(Head(queue)) # <<>>
  /\ LET after == FoldLeft(Enqueue, [queue |-> Tail(queue), queued |-> queued], Unscheduled(Head(queue)))
     IN queue' = Append(after.queue, Head(queue)) /\ queued' = after.queued
  /\ UNCHANGED <<max_iter, ag, stage, graphs, visits, current, scheduled, iterations, sequences>>
Postpone ==
  /\ stage = "queue" /\ queue # <<>> /\ Head(queue) \notin scheduled
  /\ iterations < max_iter
  /\ Unscheduled(Head(queue)) # <<>>
  /\ LET after == FoldLeft(Enqueue, [queue |-> Tail(queue), queued |-> queued], Unscheduled(Head(queue)))
     IN queue' = Append(after.queue, Head(queue)) /\ queued' = after.queued
  /\ iterations' = iterations + 1
  /\ UNCHANGED <<max_iter, ag, stage, graphs, visits, current, scheduled, sequences>>

(* add_visit_sequence_visit_nodeset: the alternatives of a visit of a child,
   in the order of the literal; visit 0 is the dummy. *)
Alternatives(t, i) ==
  IF t \in ToSet(ag.nodes) THEN <<[node |-> t, visit |-> i]>>
  ELSE [j \in DOMAIN ag.members[t] |->
          [node |-> ag.members[t][j],
           visit |-> IF i <= Len(visits[ag.members[t][j]]) THEN i ELSE 0]]

(* add_visit_sequence: what a visit of a child computes is not evaluated here,
   and a nodeset without members has no visit.  Only the first of alternatives
   is in the sequence; behind a dummy there nothing can be linked. *)
AddsNothing(item) == IF item.is_visit THEN Alternatives(ChildType(Node, item.child), item.visit) = <<>>
                     ELSE ByVisit(item.node)
StartsWithDummy(item) ==
  item.is_visit /\ Alternatives(ChildType(Node, item.child), item.visit)[1].visit = 0

Schedule ==
  LET item == Head(queue)
      sequence == sequences[Node][current.visit]
  IN
  /\ stage = "queue" /\ queue # <<>> /\ item \notin scheduled
  /\ iterations < max_iter
  /\ Unscheduled(item) = <<>>
  /\ queue' = Tail(queue)
  /\ scheduled' = scheduled \cup Computes(item)
  /\ iterations' = iterations + 1
  /\ CASE AddsNothing(item) -> UNCHANGED <<stage, sequences>>
       [] ~AddsNothing(item) /\ sequence # <<>> /\ StartsWithDummy(Last(sequence)) ->
            stage' = "crashed" /\ UNCHANGED sequences
       [] OTHER -> /\ sequences' = [sequences EXCEPT ![Node][current.visit] = Append(@, item)]
                   /\ UNCHANGED stage
  /\ UNCHANGED <<max_iter, ag, graphs, visits, current, queued>>

VisitFinished ==
  /\ stage = "queue" /\ queue = <<>>
  /\ current' = [current EXCEPT !.visit = @ + 1]
  /\ stage' = "start"
  /\ UNCHANGED <<max_iter, ag, graphs, visits, queue, queued, scheduled, iterations, sequences>>

NodeFinished ==
  /\ stage = "start" /\ current.node <= Len(ag.nodes) /\ current.visit > Len(visits[Node])
  /\ current' = [node |-> current.node + 1, visit |-> 1]
  /\ scheduled' = {}
  /\ UNCHANGED <<max_iter, ag, stage, graphs, visits, queue, queued, iterations, sequences>>

Finished ==
  /\ stage = "start" /\ current.node > Len(ag.nodes)
  /\ stage' = "done"
  /\ UNCHANGED <<max_iter, ag, graphs, visits, current, queue, queued, scheduled, iterations, sequences>>

SavInit ==
  /\ max_iter \in MaxIters
  /\ ag = <<>> /\ stage = "idle" /\ graphs = <<>>
  /\ visits = <<>> /\ current = [node |-> 1, visit |-> 1]
  /\ queue = <<>> /\ queued = {} /\ scheduled = {} /\ iterations = 0 /\ sequences = <<>>

SAVast(grammar) ==
  /\ stage = "idle" /\ ag' = grammar /\ stage' = "graphs"
  /\ UNCHANGED <<max_iter, graphs, visits, current, queue, queued, scheduled,
                 iterations, sequences>>

SavNext ==
  \/ GenerateGraphs \/ AddInducedEdges \/ GraphsFinished \/ CollectAllVisits
  \/ GenerateVisit \/ Pop \/ Loop \/ Postpone \/ Schedule
  \/ VisitFinished \/ NodeFinished \/ Finished
=============================================================================
