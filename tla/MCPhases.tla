------------------------------ MODULE MCPhases -------------------------------
(* The CiviC compiler's own tables (main.ccn) and small ones for TLC. *)
EXTENDS Lifetimes

Leaf(may, aborts) == [kind |-> "pass", table |-> << >>, gated |-> FALSE, cycle |-> FALSE,
                      may |-> may, aborts |-> aborts]
Phase(table, gated) == [kind |-> "phase", table |-> table, gated |-> gated, cycle |-> FALSE,
                        may |-> {}, aborts |-> FALSE]
Cycle(table) == [Phase(table, FALSE) EXCEPT !.cycle = TRUE]
Silent == Leaf({}, FALSE)
Faulty == Leaf({"report"}, TRUE)

CiviC == [root |-> "RootPhase", act |-> [
  RootPhase |-> Phase(<<"SPdoScanParse", "Analysis", "Adjustment", "Optimization",
                        "Print_Debug", "AssemblyCode", "MemFree">>, FALSE),
  Analysis |-> Phase(<<"Functions", "Resolve", "TypeCheck">>, FALSE),
  Adjustment |-> Phase(<<"ForToWhile", "WhileToDoWhile", "DeclarationSplitting",
                         "voidReturn", "RenameNestedFunctions", "ArrayFlatten">>, FALSE),
  Optimization |-> Phase(<<"ConstantsFolding">>, TRUE),
  Print_Debug |-> Phase(<<"Print">>, TRUE),
  AssemblyCode |-> Phase(<<"Constants", "CodeGen">>, TRUE),
  SPdoScanParse |-> Faulty, Functions |-> Silent, Resolve |-> Faulty, TypeCheck |-> Faulty,
  ForToWhile |-> Silent, WhileToDoWhile |-> Leaf({"break"}, FALSE),
  DeclarationSplitting |-> Silent, voidReturn |-> Silent,
  RenameNestedFunctions |-> Silent, ArrayFlatten |-> Silent,
  ConstantsFolding |-> Silent, Constants |-> Silent,
  CodeGen |-> Leaf({"report"}, FALSE), MemFree |-> Silent] @@ ("Print" :> Silent)]

\* Errors of both kinds around inner phases, a cycle, an action run by two
\* phases, and a gate.
Small == [root |-> "R", act |-> [
  R |-> Phase(<<"A", "C", "B", "z">>, FALSE),
  A |-> Phase(<<"x", "D", "x">>, FALSE),
  B |-> Phase(<<"y", "G", "x">>, FALSE),
  C |-> Cycle(<<"n", "y">>),
  D |-> Phase(<<"y">>, FALSE),
  G |-> Phase(<<"z">>, TRUE),
  n |-> Leaf({"notify"}, FALSE),
  x |-> Leaf({"phaseError"}, FALSE),
  y |-> Leaf({"notify", "actionError"}, FALSE),
  z |-> Silent]]

\* A cycle that may notify behind the phase it runs, which is a cycle too.
Nested == [root |-> "R", act |-> [
  R |-> Phase(<<"C", "x">>, FALSE),
  C |-> Cycle(<<"z", "D", "n">>),
  D |-> Cycle(<<"n", "x">>),
  n |-> Leaf({"notify"}, FALSE),
  x |-> Leaf({"phaseError"}, FALSE),
  z |-> Silent]]

MCCompilers == [CiviC |-> CiviC, Small |-> Small, Nested |-> Nested]

NoBreak == [path |-> << >>, id |-> 0]
Path(p) == [path |-> p, id |-> 0]
MCBreakpoints ==
  {NoBreak} \cup {[NoBreak EXCEPT !.id = n] : n \in {1, 5, 9, 13}}
  \cup {Path(p) : p \in {<<"Analysis", "TypeCheck">>, <<"Print">>, <<"Optimization">>,
          <<"RootPhase", "AssemblyCode", "CodeGen">>, <<"R", "A", "D", "y">>, <<"R", "B", "x">>,
          <<"R", "B", "G">>, <<"B", "z">>, <<"C", "y">>, <<"A", "z">>, <<"A">>}}
MCTargets == {<<"Analysis">>, <<"Resolve">>, <<"Adjustment", "ArrayFlatten">>, <<"AssemblyCode">>,
              <<"D">>, <<"A", "D", "y">>, <<"B", "x">>, <<"G">>, <<"A">>, <<"R", "z">>}
=============================================================================
