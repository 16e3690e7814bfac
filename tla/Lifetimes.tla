------------------------------ MODULE Lifetimes ------------------------------
(***************************************************************************)
(* Lifetimes of nodes and children: cocogen turns the actions a lifetime   *)
(* names into numbers (assign_id_to_actions.c, map_id_to_lifetimes.c) and  *)
(* generates conditions on them (gen_check_traversal.c); the driver's      *)
(* check traversal evaluates these with the number of the action it is     *)
(* about to dispatch (CCNgetCurrentActionId).                              *)
(***************************************************************************)
EXTENDS PhaseDriver, FiniteSets

CONSTANT Targets         \* the paths of ids that lifetimes name

ASSUME TargetsAssumption ==
  \A t \in Targets : t # << >> /\ t \in Seq(UNION {DOMAIN Tables[c].act : c \in DOMAIN Tables})

None == << >>
RefersTo(place) == act[place[1]].table[place[2]]

\* AITAiactions: numbers from 2 in the order of the walk; the iactions of a
\* phase that several phases run are numbered again each time.
ActionIdOf(place) ==
  LET w == Walk(root)
      at == {i \in DOMAIN w : w[i] = place}
  IN  1 + (CHOOSE i \in at : \A j \in at : j <= i)

\* MITLiactions: the first place of that name in the walk of a phase.
FirstIn(p, x) ==
  LET w == Walk(p)
      at == {i \in DOMAIN w : RefersTo(w[i]) = x}
  IN  IF at = {} THEN None ELSE w[CHOOSE i \in at : \A j \in at : i <= j]

\* MITLid and MITLlifetime_range: each id of a target is looked up in the
\* phase the ids before it lead to; None stands for the two errors.
Resolved(target) ==
  LET within(place, x) == IF place # None /\ act[RefersTo(place)].kind = "phase"
                            THEN FirstIn(RefersTo(place), x) ELSE None
      upTo[i \in 1..Len(target)] == IF i = 1 THEN FirstIn(root, target[1])
                                              ELSE within(upTo[i - 1], target[i])
  IN  upTo[Len(target)]

\* Mistake: the range of a phase ends with its own number.
NextIdOfPhase(place) == 1 + ActionIdOf(place)

\* action_id and next_action_id of a lifetime_range.
RangeId(place) == ActionIdOf(place)
NextId(place) ==
  LET x == RefersTo(place) IN
  1 + IF act[x].kind = "phase" THEN ActionIdOf(<<x, Len(act[x].table)>>)
                               ELSE ActionIdOf(place)

\* The generated condition of a disallowed lifetime; a place None stands for
\* a missing begin or end.
InLifetime(id, begin, beginIncl, end, endIncl) ==
  /\ begin # None => id >= (IF beginIncl THEN RangeId(begin) ELSE NextId(begin))
  /\ end # None => id < (IF endIncl THEN NextId(end) ELSE RangeId(end))

-----------------------------------------------------------------------------
Places == {Walk(root)[i] : i \in DOMAIN Walk(root)}
RunOnce == Cardinality(Places) = Len(Walk(root))
EndsWithPhase(place) ==
  LET x == RefersTo(place) IN
  act[x].kind = "phase" /\ act[Last(act[x].table)].kind = "phase"

\* The places of the actions in progress, the one to be checked for included.
OnPath == {<<stack[i].phase, stack[i].next>> : i \in DOMAIN stack}

\* The check before an action finds itself between the begin and the end of a
\* target exactly while the target's action, or an action of the target's
\* phase, is the one to be run; for tables that run each phase once and
\* targets that are no phases ending with a phase.
LifetimesMatchTheRun ==
  Dispatching /\ RunOnce =>
    \A t \in Targets :
      LET p == Resolved(t) IN
      p # None /\ ~EndsWithPhase(p) =>
        (InLifetime(actionId + 1, p, TRUE, p, TRUE) <=> p \in OnPath)
=============================================================================
