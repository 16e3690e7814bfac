------------------------------- MODULE Resolve -------------------------------
(***************************************************************************)
(* The traversal RSO (analysis/resolve.c): it walks the tree once, fills a *)
(* variable table per function, and gives every use of a variable a        *)
(* reference VAR_VARPTR = (n tables up, index l).  The program walked is   *)
(* not fixed: each action is one handler on one node, and any sequence of  *)
(* nodes the grammar allows (params, then variables, then nested           *)
(* functions, then statements) is a behaviour.                             *)
(*                                                                         *)
(* A table belongs to a function for good (FUNDEF_VARIABLES), so tables    *)
(* are never dropped; the temporary table of a function declaration is.    *)
(* After the first error the code walks on and CTIabortOnError ends the    *)
(* compiler behind the traversal; the model ends at the error.             *)
(***************************************************************************)
EXTENDS VarTable, SequencesExt

(* The kinds of program considered; each has                               *)
(*   names        identifiers (model values)                               *)
(*   dimIds       lists of dimension names of array params and externs     *)
(*   dims         numbers of dimensions of the variables defined           *)
(*   fresh        TRUE: no loop variable has a name visible around it      *)
(*   maxTables, maxEntries, maxLoops, maxUses    bounds                    *)
CONSTANT Programs

ASSUME ResolveAssumption ==
  \A p \in Programs : /\ p.dimIds \subseteq Seq(p.names)
                      /\ p.dims \subseteq Nat
                      /\ p.fresh \in BOOLEAN
                      /\ {p.maxTables, p.maxEntries, p.maxLoops, p.maxUses} \subseteq Nat

VARIABLES program,  \* the kind of program compiled
          phase,    \* "rso", then "resolved" or "aborted"
          tables,   \* all variable tables; 1 is PROGRAM_VARIABLES
          cur,      \* data->variables
          stage,    \* per table, how far its walk is: "program", "params", ...
          loops,    \* the for and while statements met, in order
          open,     \* those around the current node, outermost first
          uses      \* the Var nodes met, with their VAR_VARPTR

rsoVars == <<program, phase, tables, cur, stage, loops, open, uses>>

(* The stages the next node may belong to; a program has declarations only. *)
(* Mutation: a grammar that lets variables and functions follow statements. *)
AheadAnyOrder == [program |-> {"decls", "funs"},
                  params |-> {"params", "decls", "funs", "stmts"},
                  decls |-> {"decls", "funs", "stmts"},
                  funs |-> {"decls", "funs", "stmts"},
                  stmts |-> {"decls", "funs", "stmts"},
                  closed |-> {}]
Ahead == [program |-> {"decls", "funs"},
          params |-> {"params", "decls", "funs", "stmts"},
          decls |-> {"decls", "funs", "stmts"},
          funs |-> {"funs", "stmts"},
          stmts |-> {"stmts"},
          closed |-> {}]
MayBe(s) == s \in Ahead[stage[cur]]
Advance(s) == IF stage[cur] = "program" THEN stage ELSE [stage EXCEPT ![cur] = s]
Inner == open[Len(open)]
AtBlock == open # <<>> => Inner.part = "body"
AtStatement == MayBe("stmts") /\ AtBlock

(* Calls of vartable_insert for new variables, in a row.                   *)
Clash(table, vars) ==
  \E i \in DOMAIN vars : \/ Redeclares(table, vars[i].name)
                         \/ \E j \in 1 .. i - 1 : vars[j].name = vars[i].name
TotalEntries == FoldSeq(LAMBDA table, n : Len(table.vars) + n, 0, tables)
Fits(vars) == TotalEntries + Len(vars) <= program.maxEntries
DeclareAll(vars) ==
  IF Clash(tables[cur], vars) THEN phase' = "aborted" /\ UNCHANGED tables
  ELSE /\ tables' = [tables EXCEPT ![cur].vars = @ \o vars]
       /\ UNCHANGED phase

(* A variable with its dimensions: ids in the order of a parameter list,   *)
(* generated names for a definition.                                       *)
WithIds(name, kind, ids) ==
  <<NewVar(name, kind, Len(ids))>>
    \o [i \in DOMAIN ids |-> NewVar(ids[i], IF kind = "param" THEN "dim" ELSE kind, 0)]
WithDims(name, d) ==
  <<NewVar(name, "var", d)>> \o [i \in 1 .. d |-> NewVar(<<name, i - 1>>, "dim", 0)]

(* A Var node is resolved where it stands: in the initialiser of a         *)
(* definition (init), or in a statement, in the parts of the loops around  *)
(* it that place names; indices counts its index expressions.              *)
Use(name, init, place, write, indices) ==
  [name |-> name, init |-> init, place |-> place, write |-> write, indices |-> indices,
   table |-> cur, ref |-> ReturnVarref(tables, cur, name)]

Init == /\ program \in Programs
        /\ phase = "rso"
        /\ tables = <<NewTable(1, <<>>)>>
        /\ cur = 1
        /\ stage = <<"program">>
        /\ loops = <<>>
        /\ open = <<>>
        /\ uses = <<>>

(* RSOfundef before and after TRAVchildren.                                *)
RSOfundefEnter ==
  /\ phase = "rso" /\ MayBe("funs") /\ open = <<>>
  /\ Len(tables) < program.maxTables
  /\ tables' = Append(tables, NewTable(Len(tables) + 1, tables[cur].chain))
  /\ stage' = Append(Advance("funs"), "params")
  /\ cur' = Len(tables) + 1
  /\ UNCHANGED <<phase, loops, open, uses>>

RSOfundefExit ==
  /\ phase = "rso" /\ cur # 1 /\ open = <<>>
  /\ stage' = [stage EXCEPT ![cur] = "closed"]
  /\ cur' = tables[cur].chain[2]
  /\ UNCHANGED <<phase, tables, loops, open, uses>>

RSOparam ==
  /\ phase = "rso" /\ stage[cur] = "params"
  /\ \E name \in program.names, ids \in program.dimIds \cup {<<>>} :
       /\ Fits(WithIds(name, "param", ids))
       /\ DeclareAll(WithIds(name, "param", ids))
  /\ UNCHANGED <<cur, stage, loops, open, uses>>

(* The initialiser of a definition, if any, is walked before the name is   *)
(* entered; read are the Var nodes in it, at most one.                     *)
InitReads == {<<>>} \cup {<<Use(x, TRUE, <<>>, FALSE, k)>> :
                          x \in program.names, k \in {0} \cup program.dims}
RSOvardef ==
  /\ phase = "rso" /\ MayBe("decls")
  /\ \E name \in program.names, d \in program.dims, read \in InitReads :
       LET vars == WithDims(name, d)
       IN  /\ Fits(vars)
           /\ Len(uses) + Len(read) <= program.maxUses
           /\ IF \E i \in DOMAIN read : read[i].ref = None
              THEN phase' = "aborted" /\ UNCHANGED <<tables, uses>>
              ELSE DeclareAll(vars) /\ uses' = uses \o read
  /\ stage' = Advance("decls")
  /\ UNCHANGED <<cur, loops, open>>

RSOglobaldec ==
  /\ phase = "rso" /\ cur = 1
  /\ \E name \in program.names, ids \in program.dimIds \cup {<<>>} :
       /\ Fits(WithIds(name, "extern", ids))
       /\ DeclareAll(WithIds(name, "extern", ids))
  /\ UNCHANGED <<cur, stage, loops, open, uses>>

(* RSOfundec: the parameters go to a table of their own that is freed.     *)
RSOfundec ==
  /\ phase = "rso" /\ cur = 1
  /\ \E a, b \in program.names, ids \in program.dimIds \cup {<<>>} :
       phase' = IF Clash(NewTable(0, <<1>>), WithIds(a, "param", ids) \o WithIds(b, "param", <<>>))
                THEN "aborted" ELSE phase
  /\ UNCHANGED <<tables, cur, stage, loops, open, uses>>

(* RSOvar in a statement; an assignment stands in the body of the loops    *)
(* around it.                                                              *)
InnerLoop == loops[Inner.loop]
RSOvar ==
  /\ phase = "rso" /\ cur # 1 /\ MayBe("stmts")
  /\ Len(uses) < program.maxUses
  /\ \E name \in program.names, indices \in {0} \cup program.dims,
        write \in IF AtBlock THEN BOOLEAN ELSE {FALSE} :
       LET use == Use(name, FALSE, open, write, indices)
       IN  IF use.ref = None THEN phase' = "aborted" /\ UNCHANGED uses
           ELSE uses' = Append(uses, use) /\ UNCHANGED phase
  /\ stage' = Advance("stmts")
  /\ UNCHANGED <<tables, cur, loops, open>>

(* RSOforstatement before TRAVchildren: the loop variable comes first, so  *)
(* that even its own init expression is resolved in its scope.  step tells *)
(* is_constant of the step expression (adjustment/fortowhile.c).           *)
RSOforEnter ==
  /\ phase = "rso" /\ cur # 1 /\ AtStatement
  /\ Len(loops) < program.maxLoops
  /\ \E name \in program.names, step \in {"const", "expr"} :
       LET var == [NewVar(name, "loop", 0) EXCEPT !.readonly = TRUE]
       IN  /\ Fits(<<var>>)
           /\ program.fresh => ReturnVarrefIgnoreValid(tables, cur, name) = None
           /\ tables' = [tables EXCEPT ![cur] = InsertVar(@, var)]
           /\ loops' = Append(loops, [kind |-> "for", table |-> cur, name |-> name,
                                     idx |-> Len(tables[cur].vars), step |-> step])
  /\ open' = Append(open, [loop |-> Len(loops) + 1, part |-> "init"])
  /\ stage' = Advance("stmts")
  /\ UNCHANGED <<phase, cur, uses>>

(* On to the next child: init, until, step and block of a for (the step of *)
(* a constant has no Var node to visit), block and condition of a while.   *)
NextPart(loop, part) ==
  CASE part = "init" -> "until"
    [] part = "until" -> IF loop.step = "expr" THEN "step" ELSE "body"
    [] part = "step" -> "body"
    [] part = "body" -> "cond"
NextChild ==
  /\ phase = "rso" /\ open # <<>>
  /\ Inner.part # (IF InnerLoop.kind = "for" THEN "body" ELSE "cond")
  /\ open' = [open EXCEPT ![Len(open)].part = NextPart(InnerLoop, @)]
  /\ UNCHANGED <<phase, tables, cur, stage, loops, uses>>

(* RSOforstatement after TRAVchildren.                                     *)
RSOforExit ==
  /\ phase = "rso" /\ open # <<>>
  /\ InnerLoop.kind = "for" /\ Inner.part = "body"
  /\ tables' = [tables EXCEPT ![cur].vars[InnerLoop.idx + 1].valid = FALSE]
  /\ open' = SubSeq(open, 1, Len(open) - 1)
  /\ UNCHANGED <<phase, cur, stage, loops, uses>>

(* RSO has no handler for a while statement: its children are walked, the  *)
(* block first.                                                            *)
WhileEnter ==
  /\ phase = "rso" /\ cur # 1 /\ AtStatement
  /\ Len(loops) < program.maxLoops
  /\ loops' = Append(loops, [kind |-> "while", table |-> cur, name |-> <<>>,
                             idx |-> 0, step |-> "const"])
  /\ open' = Append(open, [loop |-> Len(loops) + 1, part |-> "body"])
  /\ stage' = Advance("stmts")
  /\ UNCHANGED <<phase, tables, cur, uses>>

WhileExit ==
  /\ phase = "rso" /\ open # <<>>
  /\ InnerLoop.kind = "while" /\ Inner.part = "cond"
  /\ open' = SubSeq(open, 1, Len(open) - 1)
  /\ UNCHANGED <<phase, tables, cur, stage, loops, uses>>

(* The end of RSOprogram.                                                  *)
RSOprogram ==
  /\ phase = "rso" /\ cur = 1
  /\ phase' = "resolved"
  /\ UNCHANGED <<tables, cur, stage, loops, open, uses>>

RSONext == /\ \/ RSOfundefEnter \/ RSOfundefExit \/ RSOfundec
              \/ RSOparam \/ RSOvardef \/ RSOglobaldec
              \/ RSOforEnter \/ NextChild \/ RSOforExit \/ WhileEnter \/ WhileExit
              \/ RSOvar \/ RSOprogram
           /\ UNCHANGED program

-----------------------------------------------------------------------------
Target(use) == Denotes(tables, use.table, use.ref)
EntryAt(d) == tables[d[1]].vars[d[2] + 1]

(* A reference made from a nested function to a local variable of a        *)
(* function around it denotes a parameter, a dimension or a defined        *)
(* variable, and no entry up to it repeats a name: code generation gives   *)
(* equal names one slot (CGNfundef), yet addresses such a variable by its  *)
(* table index l (resolve_idx), which is its slot only then.               *)
OuterRefsPrecedeLoops ==
  \A k \in DOMAIN uses : LET use == uses[k]
                             vars == tables[Target(use)[1]].vars
                         IN  use.ref.n > 0 =>
                               \A i, j \in 1 .. (use.ref.l + 1) :
                                 /\ vars[i].kind # "loop"
                                 /\ vars[i].name = vars[j].name => i = j
=============================================================================
