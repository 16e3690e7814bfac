---------------------------- MODULE Reachability ----------------------------
(***************************************************************************)
(* The search of cocogen for the nodes a traversal has to pass through      *)
(* (frontend/reachability.c).  A row says for each node whether it is       *)
(* handled by the "user", by "trav", TRAVchildren, or is "none", TRAVnop.   *)
(*                                                                         *)
(* below[n] has for each child of n the nodes that can stand there, in the  *)
(* order in which they are looked at: the node that is its type, or the     *)
(* literal of its nodeset and of the nodesets behind that one in the file.  *)
(***************************************************************************)
EXTENDS SequencesExt

\* The state of the search: the row, visited for child_visited and reachable
\* for child_is_reachable.  Before it begins for a node the last two are reset.
Unsearched(s) == [s EXCEPT !.visited = {}, !.reachable = FALSE]

\* The handlers of the children of n: RCBchild goes on with the next child
\* unless something was found, RCBsetliteral with all members in any case.
RECURSIVE TRAVichildren(_, _, _)
\* Mutation: only the children of the node itself are asked.
VisitShallow(below, s, m) ==
  CASE m \in s.visited -> s
    [] m \notin s.visited /\ s.row[m] # "none" -> [s EXCEPT !.visited = @ \cup {m}, !.reachable = TRUE]
    [] OTHER -> [s EXCEPT !.visited = @ \cup {m}]
VisitNode(below, s, m) ==
  CASE m \in s.visited -> s
    [] m \notin s.visited /\ s.row[m] # "none" -> [s EXCEPT !.visited = @ \cup {m}, !.reachable = TRUE]
    [] OTHER -> TRAVichildren(below, [s EXCEPT !.visited = @ \cup {m}], m)
RCBchild(below, s, types) == FoldLeft(LAMBDA t, m : VisitNode(below, t, m), s, types)
TRAVichildren(below, s, n) ==
  FoldLeftDomain(LAMBDA t, i : IF i > 1 /\ t.reachable THEN t ELSE RCBchild(below, t, below[n][i]),
                 s, below[n])

\* Mutation: child_visited is not cleared for the next node.
RCBinodeSeen(below, s, n) ==
  IF s.row[n] # "none" THEN s
  ELSE LET t == TRAVichildren(below, [s EXCEPT !.reachable = FALSE], n)
       IN  IF t.reachable THEN [t EXCEPT !.row[n] = "trav"] ELSE t

\* A node with an answer is left as it is; the answers of earlier nodes serve
\* the search for later ones.
RCBinode(below, s, n) ==
  IF s.row[n] # "none" THEN s
  ELSE LET t == TRAVichildren(below, Unsearched(s), n)
       IN  IF t.reachable THEN [t EXCEPT !.row[n] = "trav"] ELSE t

\* The row of a traversal for the nodes of user, all nodes in their order.
RCBrow(below, nodes, user) ==
  LET start == [row |-> [n \in DOMAIN below |-> IF n \in user THEN "user" ELSE "none"],
                visited |-> {}, reachable |-> FALSE]
  IN  FoldLeft(LAMBDA s, n : RCBinode(below, s, n), start, nodes).row
=============================================================================
