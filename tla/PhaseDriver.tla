----------------------------- MODULE PhaseDriver -----------------------------
(***************************************************************************)
(* The phase driver of CoCoNut (copra/src/phase_driver.c), which runs the  *)
(* passes and traversals of the CiviC compiler: nested phases, gates,      *)
(* cycles, the two kinds of errors an action can signal, the error count   *)
(* of palm/src/ctinfo.c, the consistency check before every action and     *)
(* breakpoints by path and by number.  One step is one dispatched action,  *)
(* or the end of one round of a phase.                                     *)
(***************************************************************************)
EXTENDS Naturals, Sequences, SequencesExt

CONSTANTS Tables,        \* for each compiler, [root, act]: what cocogen generates
          Breakpoints,   \* the paths and numbers given with -b
          MaxCycles      \* max_cycles

Effects == {"report", "notify", "phaseError", "actionError", "break"}

\* Of any phases one runs none of the others, or the numbering of the actions
\* in cocogen would not end.
NoPhaseRunsItself(actions) ==
  \A S \in SUBSET {x \in DOMAIN actions : actions[x].kind = "phase"} :
    S # {} => \E x \in S : \A k \in DOMAIN actions[x].table : actions[x].table[k] \notin S

\* act[a].table is the action table of a phase, without the final
\* CCNAC_ID_NULL, and is not empty (actions in dsl-parser.y); may and aborts
\* describe what the code of a pass can do.
IsCompiler(c) ==
  /\ c.root \in DOMAIN c.act
  /\ \A x \in DOMAIN c.act :
       /\ c.act[x].kind \in {"pass", "traversal", "phase"}
       /\ c.act[x].table \in Seq(DOMAIN c.act)
       /\ c.act[x].kind = "phase" <=> c.act[x].table # << >>
       /\ c.act[x].gated \in BOOLEAN /\ c.act[x].cycle \in BOOLEAN
       /\ c.act[x].may \subseteq Effects /\ c.act[x].aborts \in BOOLEAN
  /\ NoPhaseRunsItself(c.act)

ASSUME TablesAssumption == \A c \in DOMAIN Tables : IsCompiler(Tables[c])
ASSUME BreakpointsAssumption ==
  \A b \in Breakpoints : b.path \in Seq(STRING) /\ b.id \in Nat
ASSUME MaxCyclesAssumption == MaxCycles \in Nat \ {0}

VARIABLES
  compiler,      \* the compiler that runs
  closed,        \* the phases whose gate function returns false
  given,         \* the breakpoint of the command line
  stack,         \* the StartPhase calls in progress, innermost last
  actionId, cycleIter, fixedPoint, actionError, phaseError, breakpoint,
                 \* the fields of the static struct phase_driver
  errors,        \* does CTIgetErrors() exceed 0?
  broken,        \* would the check traversal report an error?
  outcome        \* "running", "done", "aborted" or "breakpoint"

vars == <<compiler, closed, given, stack, actionId, cycleIter, fixedPoint,
          actionError, phaseError, breakpoint, errors, broken, outcome>>
input == <<compiler, closed, given>>

act == Tables[compiler].act
root == Tables[compiler].root
NoPath == << >>
Top == stack[Len(stack)]

\* What CCNdispatchAction is called with next, and the bound of the loop over
\* the action table.
Current == IF stack = << >> THEN root ELSE act[Top.phase].table[Top.next]
Dispatching ==
  /\ outcome = "running"
  /\ IF stack = << >> THEN actionId = 0 ELSE Top.next <= Len(act[Top.phase].table)

\* The places of a phase's tables in the order SkipPhase and ShowTree count.
Walks ==
  [c \in DOMAIN Tables |->
     LET table(p) == Tables[c].act[p].table
         walk[p \in DOMAIN Tables[c].act] ==
           FlattenSeq([k \in 1..Len(table(p)) |-> <<<<p, k>>>> \o walk[table(p)[k]]])
     IN  walk]
Walk(p) == Walks[compiler][p]
Size(x) == 1 + Len(Walk(x))

\* Checkbreakpoint: the rest of the breakpoint behind a phase's name.
InPhase(p) ==
  IF Len(breakpoint) > 1 /\ Head(breakpoint) = p THEN Tail(breakpoint) ELSE NoPath

\* The checks at the end of CCNdispatchAction and the return to the loop over
\* the table of the calling phase, or to CCNrun.
Return(x, id, calls) ==
  /\ outcome' =
       CASE actionError' -> "aborted"
         [] ~actionError' /\ (breakpoint' = <<x>> \/ given.id = id) -> "breakpoint"
         [] OTHER -> IF calls = << >> THEN "done" ELSE "running"
  /\ stack' = IF calls = << >> THEN << >> ELSE [calls EXCEPT ![Len(calls)].next = @ + 1]

-----------------------------------------------------------------------------
\* The consistency check finds new errors: CTIabortOnError.
CheckFails ==
  /\ Dispatching /\ broken
  /\ actionId' = actionId + 1
  /\ errors' = TRUE
  /\ outcome' = "aborted"
  /\ UNCHANGED <<input, stack, cycleIter, fixedPoint, actionError, phaseError,
                 breakpoint, broken>>

\* The innermost cycle in progress, 0 if there is none.
Cycles == {i \in DOMAIN stack : act[stack[i].phase].cycle}
InnerCycle == IF Cycles = {} THEN 0 ELSE CHOOSE i \in Cycles : \A j \in Cycles : j <= i

\* PASSstart or TRAVstart, with everything the code of the action may call:
\* CTI(CTI_ERROR, ...), CCNcycleNotify, CCNerrorPhase, CCNerrorAction and
\* changes that make the tree inconsistent; then CTIabortOnError, if the
\* action ends with it.
RunAction(eff) ==
  LET x == Current
      noted == [i \in DOMAIN stack |->
                 [stack[i] EXCEPT !.erred = @ \/ (i = Len(stack) /\ "phaseError" \in eff),
                                  !.notified = @ \/ (i = InnerCycle /\ "notify" \in eff)]]
  IN
  /\ Dispatching /\ ~broken
  /\ act[x].kind # "phase" /\ eff \subseteq act[x].may
  /\ actionId' = actionId + 1
  /\ errors' = (errors \/ "report" \in eff)
  /\ broken' = ("break" \in eff)
  /\ fixedPoint' = (fixedPoint /\ "notify" \notin eff)
  /\ phaseError' = (phaseError \/ "phaseError" \in eff)
  /\ actionError' = (actionError \/ "actionError" \in eff)
  /\ UNCHANGED <<input, cycleIter, breakpoint>>
  /\ IF act[x].aborts /\ errors'
       THEN outcome' = "aborted" /\ UNCHANGED stack
       ELSE Return(x, actionId', noted)

\* StartPhase with a gate function that returns false: SkipPhase.
SkipPhase ==
  LET x == Current IN
  /\ Dispatching /\ ~broken
  /\ act[x].kind = "phase" /\ x \in closed
  /\ actionId' = actionId + Size(x)
  /\ UNCHANGED <<input, cycleIter, fixedPoint, actionError, phaseError, breakpoint,
                 errors, broken>>
  /\ Return(x, actionId + 1, stack)

\* StartPhase up to the first action of its table; CCNdispatchAction keeps
\* phase_error of the calling phase in a local variable.
EnterPhase ==
  LET x == Current
      sub == InPhase(x)
  IN
  /\ Dispatching /\ ~broken
  /\ act[x].kind = "phase" /\ x \notin closed
  /\ actionId' = actionId + 1
  /\ stack' = Append(stack, [phase |-> x, next |-> 1, base |-> actionId + 1,
                             saved |-> phaseError,
                             oldBreak |-> IF sub = NoPath THEN NoPath ELSE breakpoint,
                             rounds |-> 0, erred |-> FALSE, notified |-> FALSE])
  /\ breakpoint' = IF sub = NoPath THEN breakpoint ELSE sub
  /\ phaseError' = FALSE
  /\ fixedPoint' = TRUE
  /\ UNCHANGED <<input, cycleIter, actionError, errors, broken, outcome>>

EndOfTable ==
  /\ outcome = "running" /\ stack # << >>
  /\ Top.next > Len(act[Top.phase].table)

\* Mistake: the bound is compared before the round is counted.
AgainOnceMore == act[Top.phase].cycle /\ cycleIter < MaxCycles /\ ~fixedPoint

\* Bound: the rounds of a call are counted up to MaxCycles, for NotifiedCyclesRepeat.
OneMore(rounds) == IF rounds = MaxCycles THEN rounds ELSE rounds + 1

\* The condition of the do-while loop, after cycle_iter++.
Again == act[Top.phase].cycle /\ cycleIter + 1 < MaxCycles /\ ~fixedPoint

\* Mistake: the action counter is not set back for the next round.
RepeatCycleCountsOn ==
  /\ EndOfTable /\ Again
  /\ cycleIter' = cycleIter + 1 /\ fixedPoint' = TRUE
  /\ stack' = [stack EXCEPT ![Len(stack)].next = 1, ![Len(stack)].rounds = OneMore(@),
                            ![Len(stack)].notified = FALSE]
  /\ UNCHANGED <<input, actionId, actionError, phaseError, breakpoint, errors, broken, outcome>>

\* Mistake: the rounds are not counted.
RepeatCycleUncounted ==
  /\ EndOfTable /\ Again
  /\ fixedPoint' = TRUE /\ actionId' = Top.base
  /\ stack' = [stack EXCEPT ![Len(stack)].next = 1, ![Len(stack)].notified = FALSE]
  /\ UNCHANGED <<input, cycleIter, actionError, phaseError, breakpoint, errors, broken, outcome>>

RepeatCycle ==
  /\ EndOfTable /\ Again
  /\ cycleIter' = cycleIter + 1
  /\ fixedPoint' = TRUE
  /\ actionId' = Top.base
  /\ stack' = [stack EXCEPT ![Len(stack)].next = 1, ![Len(stack)].rounds = OneMore(@),
                            ![Len(stack)].notified = FALSE]
  /\ UNCHANGED <<input, actionError, phaseError, breakpoint, errors, broken, outcome>>

\* A phase error aborts the compilation at the end of the phase.
AbortPhase ==
  /\ EndOfTable /\ ~Again /\ phaseError
  /\ cycleIter' = cycleIter + 1
  /\ outcome' = "aborted"
  /\ UNCHANGED <<input, stack, actionId, fixedPoint, actionError, phaseError,
                 breakpoint, errors, broken>>

\* Mistakes: the breakpoint or the phase error of the caller is not restored.
LeavePhaseInside ==
  /\ EndOfTable /\ ~Again /\ ~phaseError
  /\ cycleIter' = 0 /\ phaseError' = Top.saved
  /\ UNCHANGED <<input, actionId, fixedPoint, actionError, breakpoint, errors, broken>>
  /\ Return(Top.phase, Top.base, Front(stack))
LeavePhaseForgives ==
  /\ EndOfTable /\ ~Again /\ ~phaseError
  /\ cycleIter' = 0
  /\ breakpoint' = IF Top.oldBreak = NoPath THEN breakpoint ELSE Top.oldBreak
  /\ UNCHANGED <<input, actionId, fixedPoint, actionError, phaseError, errors, broken>>
  /\ Return(Top.phase, Top.base, Front(stack))

\* The end of StartPhase and of the CCNdispatchAction that called it.
LeavePhase ==
  /\ EndOfTable /\ ~Again /\ ~phaseError
  /\ cycleIter' = 0
  /\ phaseError' = Top.saved
  /\ breakpoint' = IF Top.oldBreak = NoPath THEN breakpoint ELSE Top.oldBreak
  /\ UNCHANGED <<input, actionId, fixedPoint, actionError, errors, broken>>
  /\ Return(Top.phase, Top.base, Front(stack))

-----------------------------------------------------------------------------
\* resetPhaseDriver, after ProcessArgs read the options that close gates and
\* set the breakpoint.
Init ==
  /\ compiler \in DOMAIN Tables
  /\ closed \in SUBSET {x \in DOMAIN act : act[x].gated}
  /\ given \in Breakpoints
  /\ stack = << >>
  /\ actionId = 0 /\ cycleIter = 0
  /\ fixedPoint = FALSE /\ actionError = FALSE /\ phaseError = FALSE
  /\ breakpoint = given.path
  /\ errors = FALSE /\ broken = FALSE
  /\ outcome = "running"

Next ==
  \/ CheckFails
  \/ \E eff \in SUBSET Effects : RunAction(eff)
  \/ SkipPhase
  \/ EnterPhase
  \/ RepeatCycle
  \/ AbortPhase
  \/ LeavePhase

\* Every pass and traversal returns, and the driver has nothing to wait for.
Spec == Init /\ [][Next]_vars /\ WF_vars(Next)
-----------------------------------------------------------------------------
\* The phases around the next action, and the path to an action that ends.
PhasePath == [i \in DOMAIN stack |-> stack[i].phase]

\* A step that ends an action, the path to that action and its number.
Ends == Len(stack') < Len(stack) \/ (Dispatching /\ stack # << >> /\ stack'[Len(stack)].next = Top.next + 1)
EndedPath == IF Dispatching THEN Append(PhasePath, Current) ELSE PhasePath
EndedId == IF Dispatching THEN actionId + 1 ELSE Top.base

Total(counts) ==
  LET upTo[i \in 0..Len(counts)] == IF i = 0 THEN 0 ELSE upTo[i - 1] + counts[i]
  IN  upTo[Len(counts)]

\* The number ShowTree prints for a place: the root has number 1 and every
\* place the number of places before it in the tables.
Before(call) == 1 + Total([k \in 1..(call.next - 1) |-> Size(act[call.phase].table[k])])
Shown(calls) == Total([i \in DOMAIN calls |-> Before(calls[i])])

\* A phase with another one in its table.
RunsPhase(p) == \E k \in DOMAIN act[p].table : act[act[p].table[k]].kind = "phase"

\* A cycle whose rounds run no phase, and that is not itself run by a cycle.
Plain(i) ==
  /\ ~RunsPhase(stack[i].phase)
  /\ \A j \in 1..(i - 1) : ~act[stack[j].phase].cycle

TypeOK ==
  /\ compiler \in DOMAIN Tables
  /\ closed \subseteq DOMAIN act
  /\ actionId \in Nat /\ cycleIter \in 0..MaxCycles
  /\ {fixedPoint, actionError, phaseError, errors, broken} \subseteq BOOLEAN
  /\ outcome \in {"running", "done", "aborted", "breakpoint"}
  /\ \A i \in DOMAIN stack :
       /\ act[stack[i].phase].kind = "phase"
       /\ stack[i].next \in 1..(Len(act[stack[i].phase].table) + 1)

\* The numbers the driver counts are those ShowTree lists for the user (and
\* assignIdToAction compiles into the checks), whatever gates are closed and
\* however often a cycle has gone round.
ActionIdsAreShown == outcome = "running" => actionId = Shown(stack)

\* A phase in which an action called CCNerrorPhase is never left, also if
\* inner phases were entered and left after the call.
PhaseErrorsStop == [][Len(stack') < Len(stack) => ~Top.erred]_vars

\* A cycle that runs no phase and is run by none is repeated exactly when an
\* action of the round called CCNcycleNotify and max_cycles rounds have not
\* been run.
NotifiedCyclesRepeat ==
  [][/\ Len(stack') < Len(stack) /\ act[Top.phase].cycle /\ Plain(Len(stack))
       => ~Top.notified \/ Top.rounds + 1 = MaxCycles
     /\ RepeatCycle /\ Plain(Len(stack)) => Top.notified /\ Top.rounds + 1 < MaxCycles]_vars

\* The driver never goes on behind the action that the breakpoint names with
\* its full path or its number.
BreakpointsStop ==
  [][Ends /\ (EndedPath = given.path \/ EndedId = given.id)
       => outcome' \in {"breakpoint", "aborted"}]_vars

\* It stops nowhere else than at an action with that number, or one whose path
\* has the names of the breakpoint in their order, the last one at its end.
BreakpointsAreMeant ==
  [][outcome' = "breakpoint" /\ outcome = "running" =>
       \/ EndedId = given.id
       \/ LET n == Len(given.path)
              m == Len(EndedPath)
          IN  n > 0 /\ \E at \in [1..n -> 1..m] :
                 /\ at[n] = m
                 /\ \A i \in 1..n : EndedPath[at[i]] = given.path[i]
                 /\ \A i \in 1..(n - 1) : at[i] < at[i + 1]]_vars

\* The driver stops at a breakpoint, and only there.
BreakpointsHold == BreakpointsStop /\ BreakpointsAreMeant

\* A compilation ends, with the tree freed, at the breakpoint or with
\* "Compilation failed", unless a cycle that runs a phase goes round for ever.
\* max_cycles bounds every other cycle.  It does not bound that one: StartPhase
\* sets the one counter of all cycles back to 0 at the end of the phase inside,
\* so an action behind that phase that notifies in every round keeps the cycle
\* going, whatever max_cycles is.
Terminates ==
  <>(outcome # "running") \/ []<><<RepeatCycle /\ RunsPhase(Top.phase)>>_vars
=============================================================================
