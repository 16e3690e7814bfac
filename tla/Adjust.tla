------------------------------- MODULE Adjust -------------------------------
(***************************************************************************)
(* The names of a program after the resolution of Resolve: the check that  *)
(* no loop variable is assigned (TYC), and the passes that copy or make    *)
(* Var nodes and resolve them once more, by name and whether or not the    *)
(* entry is still valid: ForToWhile, WhileToDoWhile, DeclarationSplitting  *)
(* and ArrayFlatten.                                                       *)
(*                                                                         *)
(* A pass leaves the tree in place of which the next one runs; of the tree *)
(* only the references count here.  Loops are transformed in the order in  *)
(* which RSO met them; what a reference denotes does not depend on the     *)
(* order, since a lookup that ignores validity only depends on names,      *)
(* which stay.                                                             *)
(***************************************************************************)
EXTENDS Resolve

VARIABLES pass,     \* "rso", "tyc", "ftw", "wdw", "ds", "afl", "done"
          todo,     \* the next loop of ftw and wdw
          refs,     \* per use, the references of its Var node and its copies
          control,  \* per for loop, the reference of the variable counted
          ensured,  \* <<table, name>> of the definitions ensure_vardef added
          inits,    \* per definition split, the entry and the assigned ref
          flat      \* per use flattened, the table entry found and dim refs

adjVars == <<pass, todo, refs, control, ensured, inits, flat>>
vars == <<rsoVars, adjVars>>

Fixed(use) == ReturnVarrefIgnoreValid(tables, use.table, use.name)
In(use, k, parts) == \E i \in DOMAIN use.place : /\ use.place[i].loop = k
                                                 /\ use.place[i].part \in parts

AdjInit == /\ Init
           /\ pass = "rso"
           /\ todo = 1
           /\ refs = <<>>
           /\ control = <<>>
           /\ ensured = {}
           /\ inits = {}
           /\ flat = {}

RSO == pass = "rso" /\ RSONext /\ UNCHANGED adjVars

(* TYCassign rejects an assignment to a readonly variable; it demands all  *)
(* indices of an array, TYCvarref all or none.  TYCprogram then aborts.    *)
Accepted(use) == /\ ~(use.write /\ use.ref.readonly)
                 /\ use.write \/ use.indices # 0 => use.indices = use.ref.dim
TYC ==
  /\ pass = "rso" /\ phase = "resolved"
  /\ IF \A k \in DOMAIN uses : Accepted(uses[k])
     THEN pass' = "ftw" /\ UNCHANGED phase
     ELSE pass' = "tyc" /\ phase' = "aborted"
  /\ refs' = [k \in DOMAIN uses |-> {uses[k].ref}]
  /\ control' = [k \in DOMAIN loops |-> None]
  /\ UNCHANGED <<program, tables, cur, stage, loops, open, uses, todo, ensured, inits,
                 flat>>

(* ensure_vardef: no new definition if the function defines the name or    *)
(* has a parameter of that name; otherwise the first entry of the name is  *)
(* made valid and writable.                                                *)
Defined(t, name) == \/ \E i \in DOMAIN tables[t].vars :
                         /\ tables[t].vars[i].name = name
                         /\ tables[t].vars[i].kind \in {"var", "param"}
                    \/ <<t, name>> \in ensured
EnsureVardef(t, name) ==
  IF Defined(t, name) THEN UNCHANGED <<ensured, tables>>
  ELSE LET i == Least(Named(tables[t], name)) + 1
       IN  /\ ensured' = ensured \cup {<<t, name>>}
           /\ tables' = [tables EXCEPT ![t].vars[i].valid = TRUE,
                                       ![t].vars[i].readonly = FALSE]

(* FTWstmts and FTWforstatement on one loop: the variable counted is       *)
(* looked up by name, until and step are replaced by copies, and the body  *)
(* is doubled if the sign of the step is not known.                        *)
FTWfor ==
  /\ pass = "ftw" /\ todo \in DOMAIN loops
  /\ loops[todo].kind = "for"
  /\ LET loop == loops[todo]
         ReplacedIn(use) == In(use, todo, {"until", "step"})
         DoubledIn(use) == loop.step = "expr" /\ In(use, todo, {"body"})
     IN  /\ control' = [control EXCEPT ![todo] =
                          ReturnVarrefIgnoreValid(tables, loop.table, loop.name)]
         /\ refs' = [k \in DOMAIN uses |->
                       IF ReplacedIn(uses[k]) THEN {Fixed(uses[k])}
                       ELSE IF DoubledIn(uses[k]) THEN refs[k] \cup {Fixed(uses[k])}
                       ELSE refs[k]]
         /\ EnsureVardef(loop.table, loop.name)
  /\ todo' = todo + 1
  /\ UNCHANGED <<program, phase, cur, stage, loops, open, uses, pass, inits, flat>>

(* WDWwhilestatement: the condition is copied in front of the do.  In the  *)
(* while a for has become, all names of the condition are copies already.  *)
WDWwhile ==
  /\ pass = "wdw" /\ todo \in DOMAIN loops
  /\ loops[todo].kind = "while"
  /\ refs' = [k \in DOMAIN uses |-> IF In(uses[k], todo, {"cond"})
                                    THEN refs[k] \cup {Fixed(uses[k])} ELSE refs[k]]
  /\ todo' = todo + 1
  /\ UNCHANGED <<rsoVars, pass, control, ensured, inits, flat>>

OtherLoop ==
  /\ todo \in DOMAIN loops
  /\ \/ pass = "ftw" /\ loops[todo].kind = "while"
     \/ pass = "wdw" /\ loops[todo].kind = "for"
  /\ todo' = todo + 1
  /\ UNCHANGED <<rsoVars, pass, refs, control, ensured, inits, flat>>

LoopsDone ==
  /\ todo > Len(loops) /\ todo' = 1
  /\ \/ pass = "ftw" /\ pass' = "wdw"
     \/ pass = "wdw" /\ pass' = "ds"
  /\ UNCHANGED <<rsoVars, refs, control, ensured, inits, flat>>

(* DSprogram and DSfunbody turn the initialiser of a definition into an    *)
(* assignment to the variable found under its name.                        *)
Definitions ==
  UNION {{<<t, i - 1>> : i \in {j \in DOMAIN tables[t].vars : tables[t].vars[j].kind = "var"}} :
         t \in DOMAIN tables}
DS ==
  /\ pass = "ds" /\ pass' = "afl"
  /\ inits' = {[entry |-> d, ref |-> ReturnVarrefIgnoreValid(tables, d[1], EntryAt(d).name)] :
              d \in Definitions}
  /\ UNCHANGED <<rsoVars, todo, refs, control, ensured, flat>>

(* AFLvar looks for the innermost array of the name, takes the names of    *)
(* its dimensions but the first from the entries behind it (or makes up a  *)
(* generated name past the end of the table), and resolves these names     *)
(* where the use stands.                                                   *)
(* Mutation: the first entry of the name is taken, array or not.           *)
FirstNamed(table, name) == Named(table, name)
ArraysNamed(table, name) ==
  {l \in Named(table, name) : table.vars[l + 1].dim > 0}
DimName(found, array, name, d) ==
  IF array + 1 + d < Len(found.vars) THEN found.vars[array + 2 + d].name ELSE <<name, d>>
AFLvar(use) ==
  LET chain == tables[use.table].chain
      n == Least({m \in 0 .. Len(chain) - 1 :
                    ArraysNamed(tables[chain[m + 1]], use.name) # {}})
      found == tables[chain[n + 1]]
      array == Least(ArraysNamed(found, use.name))
  IN  [use |-> use, array |-> <<chain[n + 1], array>>,
       dims |-> [d \in 1 .. use.indices - 1 |->
                   ReturnVarrefIgnoreValid(tables, use.table,
                                           DimName(found, array, use.name, d))]]
AFL ==
  /\ pass = "afl" /\ pass' = "done"
  /\ flat' = {AFLvar(uses[k]) : k \in {j \in DOMAIN uses : uses[j].indices > 1}}
  /\ UNCHANGED <<rsoVars, todo, refs, control, ensured, inits>>

AdjNext == RSO \/ TYC \/ FTWfor \/ WDWwhile \/ OtherLoop \/ LoopsDone \/ DS \/ AFL
Spec == AdjInit /\ [][AdjNext]_vars
-----------------------------------------------------------------------------
(* The assignment DeclarationSplitting makes of an initialiser sets the    *)
(* variable it belonged to, though the search by name ignores validity and *)
(* loop variables of the same name may have come and gone.                 *)
InitialisersKeepTheirVariable ==
  \A init \in inits : Denotes(tables, init.entry[1], init.ref) = init.entry

(* A copied name that stops denoting what the original denoted denotes the *)
(* variable of some loop instead, never a parameter or a definition: the   *)
(* only entries a lookup ignoring validity sees too much are ended loops.  *)
(* No initialiser goes to a loop variable either.                          *)
CopiesErrTowardsLoops ==
  /\ InitialisersKeepTheirVariable
  /\ \A k \in DOMAIN refs : \A ref \in refs[k] :
       LET copy == Denotes(tables, uses[k].table, ref)
       IN  copy # Target(uses[k]) => EntryAt(copy).kind = "loop"

(* Every copy ForToWhile and WhileToDoWhile make of a name denotes what    *)
(* the name denoted where the programmer wrote it.                         *)
CopiesDenoteTheSame ==
  \A k \in DOMAIN refs : \A ref \in refs[k] :
    Denotes(tables, uses[k].table, ref) = Target(uses[k])

(* The variable a transformed loop counts is the one the for statement     *)
(* declares, so that the loop changes no variable that was there before.   *)
LoopVariablesAreTheirOwn ==
  \A k \in DOMAIN control :
    control[k] # None =>
      Denotes(tables, loops[k].table, control[k]) = <<loops[k].table, loops[k].idx>>

(* No assignment in the body of a for loop that passes TYC changes the     *)
(* variable the transformed loop counts.                                   *)
CountersAreNotAssigned ==
  \A k \in DOMAIN uses : \A j \in DOMAIN control :
    /\ uses[k].write
    /\ In(uses[k], j, {"body"})
    /\ control[j] # None
    => \A ref \in refs[k] :
         Denotes(tables, uses[k].table, ref) # Denotes(tables, loops[j].table, control[j])

(* A program whose loop variables have names not visible around them keeps *)
(* its meaning through the passes that copy names and count loops.  One    *)
(* whose loop variable reuses a name may lose each of the three.           *)
FreshNamesKeepTheirMeaning ==
  program.fresh => /\ CopiesDenoteTheSame
                   /\ LoopVariablesAreTheirOwn
                   /\ CountersAreNotAssigned

(* AFLvar finds the array that is indexed, by its name alone: exactly, for *)
(* an array used in a statement.                                           *)
FlattenedArrayIsIndexed ==
  \A f \in flat : ~f.use.init => f.array = Target(f.use)

DimEntry(f, d) == <<f.array[1], f.array[2] + 1 + d>>
Hit == {f \in flat : f.array = Target(f.use)}

(* A dimension AFLvar looks up by name is missed only if the program gave  *)
(* it its name, and then for a variable of a scope nearer to the use: the  *)
(* generated names "__a_dim_i" always lead to the dimensions of the array. *)
DimensionsMissedByGivenName ==
  \A f \in Hit : \A d \in DOMAIN f.dims :
    LET e == Denotes(tables, f.use.table, f.dims[d])
    IN  e # DimEntry(f, d) =>
          /\ EntryAt(DimEntry(f, d)).name \in program.names
          /\ Len(tables[e[1]].chain) > Len(tables[f.array[1]].chain)

(* ArrayFlatten finds an array and its dimensions again by their names.    *)
ArraysAreFlattened == FlattenedArrayIsIndexed /\ DimensionsMissedByGivenName
=============================================================================
