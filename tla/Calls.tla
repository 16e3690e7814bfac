------------------------------- MODULE Calls -------------------------------
(***************************************************************************)
(* How a call reaches its function.  FNS (analysis/functions.c) enters     *)
(* every function into the table of the scope it stands in; RSO resolves a *)
(* call by its name; RNF (adjustment/renamenested.c) renames functions and *)
(* calls while it walks the tree; CGN (assemblycode/codegen.c) numbers the *)
(* imports, looks the call up a second time, by the name it has by then,   *)
(* and emits the instructions.                                             *)
(*                                                                         *)
(* A function is known by its number in `funs`, in order of definition;    *)
(* home is the table it is entered in, own the table of the functions in   *)
(* it.  Tables have the form of those in VarTable: chain[1] is the table   *)
(* itself, the last one that of the program (1); `of` is the function a    *)
(* table belongs to.  A name made by RNF, "foo*bar", is the sequence       *)
(* <<foo, bar>>, so no identifier equals it.                               *)
(***************************************************************************)
EXTENDS Integers, Sequences, FiniteSets

CONSTANTS Names,     \* identifiers of functions
          Shapes,    \* parameter lists: the number of dimensions of each
          MaxFunctions, MaxCalls    \* bounds

ASSUME CallsAssumption == /\ Shapes \subseteq Seq(Nat)
                          /\ {MaxFunctions, MaxCalls} \subseteq Nat

VARIABLES pass,    \* "fns", "rso", "rnf", "cgn", "done" or "aborted"
          funs,    \* the functions: FunHeader and Function
          tables,  \* function tables: entries and parents
          cur,     \* data->functions of the walk
          inStmts, \* tables of functions whose statements have begun
          calls,   \* the FunCall nodes
          tree,    \* definitions and calls in the order a traversal meets them
          inits,   \* the calls in initialisers of global variables
          ptr,     \* FUNCALL_FUNPTR of the calls (0 is NULL)
          header,  \* FUNHEADER_NAME of the functions
          named,   \* FUNCALL_NAME of the calls
          prefix,  \* data->name_prefix, below it those saved by callers
          code     \* what CGNfuncall emitted for each call

vars == <<pass, funs, tables, cur, inStmts, calls, tree, inits, ptr, header, named,
          prefix, code>>
made == <<ptr, header, named, prefix, code>>

Init == /\ pass = "fns"
        /\ funs = <<>>
        /\ tables = <<[funs |-> <<>>, chain |-> <<1>>, of |-> 0]>>
        /\ cur = 1
        /\ inStmts = {}
        /\ calls = <<>>
        /\ tree = <<>> /\ inits = <<>>
        /\ ptr = <<>> /\ header = <<>> /\ named = <<>> /\ prefix = <<>> /\ code = <<>>
-----------------------------------------------------------------------------
(* funtable_get_function and _ptr: the innermost table that has the name,  *)
(* and in it the first function of that name.                              *)
LeastOf(S) == CHOOSE m \in S : \A k \in S : m <= k
EntriesNamed(t, name) == {i \in DOMAIN tables[t].funs : funs[tables[t].funs[i]].name = name}
GetFunction(t, name) ==
  LET chain == tables[t].chain
      found == {n \in DOMAIN chain : EntriesNamed(chain[n], name) # {}}
      s == chain[LeastOf(found)]
  IN  IF found = {} THEN 0 ELSE tables[s].funs[LeastOf(EntriesNamed(s, name))]

(* from_header and funtable_insert; a second function of a name is entered *)
(* without an error.                                                       *)
Insert(name, params, isextern, own) ==
  /\ Len(funs) < MaxFunctions
  /\ funs' = Append(funs, [name |-> name, params |-> params, isextern |-> isextern,
                           home |-> cur, own |-> own])
AtHome(t) == [tables EXCEPT ![t].funs = Append(@, Len(funs) + 1)]

(* FNSfundef before and after its children.  Local functions come before   *)
(* the statements of the function around them.                             *)
FNSfundefEnter ==
  /\ pass = "fns" /\ cur \notin inStmts
  /\ \E name \in Names, params \in Shapes : Insert(name, params, FALSE, Len(tables) + 1)
  /\ tables' = Append(AtHome(cur), [funs |-> <<>>, of |-> Len(funs) + 1,
                                    chain |-> <<Len(tables) + 1>> \o tables[cur].chain])
  /\ cur' = Len(tables) + 1
  /\ tree' = Append(tree, [node |-> "fundef", id |-> Len(funs) + 1])
  /\ UNCHANGED <<pass, inStmts, calls, inits, made>>

FNSfundefExit ==
  /\ pass = "fns" /\ cur # 1
  /\ cur' = funs[tables[cur].of].home
  /\ tree' = Append(tree, [node |-> "end", id |-> tables[cur].of])
  /\ UNCHANGED <<pass, funs, tables, inStmts, calls, inits, made>>

FNSfundec ==
  /\ pass = "fns" /\ cur = 1
  /\ \E name \in Names, params \in Shapes : Insert(name, params, TRUE, 0)
  /\ tables' = AtHome(cur)
  /\ UNCHANGED <<pass, cur, inStmts, calls, tree, inits, made>>

(* A call: in a statement, among the arguments of another call (`inner`),  *)
(* or, in the table of the program, in the initialiser of a global         *)
(* variable.  Its array arguments are literals or variables.               *)
FunCall ==
  /\ pass = "fns" /\ Len(calls) < MaxCalls
  /\ \E name \in Names, inner, literals \in BOOLEAN :
       calls' = Append(calls, [name |-> name, table |-> cur, inner |-> inner,
                               literals |-> literals])
  /\ inStmts' = IF cur = 1 THEN inStmts ELSE inStmts \cup {cur}
  /\ LET item == [node |-> "call", id |-> Len(calls) + 1]
     IN  IF cur = 1 THEN inits' = Append(inits, item) /\ tree' = tree
                    ELSE tree' = Append(tree, item) /\ inits' = inits
  /\ UNCHANGED <<pass, funs, tables, cur, made>>

FNSend ==
  /\ pass = "fns" /\ cur = 1
  /\ pass' = "rso"
  /\ UNCHANGED <<funs, tables, cur, inStmts, calls, tree, inits, made>>

(* RSOfuncall on all calls; the tables are complete, so their order does   *)
(* not matter.  The compiler ends if a name is not found.  TYCfuncall lets *)
(* only calls pass whose arguments have the shape of the parameters.       *)
Fails(found) == \E c \in DOMAIN found : found[c] = 0
RSOfuncall ==
  /\ pass = "rso"
  /\ ptr' = [c \in DOMAIN calls |-> GetFunction(calls[c].table, calls[c].name)]
  /\ pass' = IF Fails(ptr') THEN "aborted" ELSE "rnf"
  /\ header' = [f \in DOMAIN funs |-> <<funs[f].name>>]
  /\ named' = [c \in DOMAIN calls |-> <<calls[c].name>>]
  \* DSprogram has moved the initialisers of globals into a last function.
  /\ tree' = tree \o inits
  /\ UNCHANGED <<funs, tables, cur, inStmts, calls, inits, prefix, code>>
-----------------------------------------------------------------------------
(* RNF visits the nodes of the tree in order.  A function renamed passes   *)
(* its name on as the prefix of those in it.                               *)
Item == Head(tree)
Visit(node) == pass = "rnf" /\ tree # <<>> /\ Item.node = node /\ tree' = Tail(tree)
(* Mutations: functions keep their names; the prefix is not put back.      *)
RNFfundefPlain ==
  /\ Visit("fundef")
  /\ prefix' = <<header[Item.id]>> \o prefix
  /\ UNCHANGED <<pass, funs, tables, cur, inStmts, calls, inits, ptr, header, named, code>>
RNFfundef ==
  /\ Visit("fundef")
  /\ LET full == IF prefix = <<>> THEN header[Item.id] ELSE prefix[1] \o header[Item.id]
     IN  /\ header' = [header EXCEPT ![Item.id] = full]
         /\ prefix' = <<full>> \o prefix
  /\ UNCHANGED <<pass, funs, tables, cur, inStmts, calls, inits, ptr, named, code>>

RNFfundefEnd ==
  /\ Visit("end")
  /\ prefix' = Tail(prefix)
  /\ UNCHANGED <<pass, funs, tables, cur, inStmts, calls, inits, ptr, header, named, code>>

(* A call takes the name its function has now, which RNFfundef may or may  *)
(* not have changed yet; a call among arguments is not visited.            *)
RNFfuncall ==
  /\ Visit("call")
  /\ named' = IF calls[Item.id].inner THEN named
              ELSE [named EXCEPT ![Item.id] = header[ptr[Item.id]]]
  /\ UNCHANGED <<pass, funs, tables, cur, inStmts, calls, inits, ptr, header, prefix, code>>

RNFend ==
  /\ pass = "rnf" /\ tree = <<>>
  /\ pass' = "cgn"
  /\ UNCHANGED <<funs, tables, cur, inStmts, calls, tree, inits, made>>
-----------------------------------------------------------------------------
(* The functions of the .importfun list, the place in it of each, and the  *)
(* number CGNprogram gives the entry of a function: entries are found by   *)
(* the name of the import, and a later number replaces a former.           *)
Imports == {f \in DOMAIN funs : funs[f].isextern}
Place(f) == Cardinality({g \in Imports : g < f})
Numbers(f) == {g \in Imports : GetFunction(1, funs[g].name) = f}
(* Mutation: the position among all functions of the program.              *)
AssemblyIndexOfAll(f) == (CHOOSE i \in DOMAIN tables[1].funs : tables[1].funs[i] = f) - 1
AssemblyIndex(f) == Place(CHOOSE g \in Numbers(f) : \A k \in Numbers(f) : k <= g)

(* The stack slots of an array of n dimensions, 0 for the array itself;    *)
(* those that the parameters of a function take.                           *)
Slots(p, n) == {p} \X (0 .. n)
(* Mutation: one slot for each parameter.                                  *)
CountParams(f) == Len(funs[f].params)
CountFlatParams(f) ==
  Cardinality(UNION {Slots(p, funs[f].params[p]) : p \in DOMAIN funs[f].params})

(* What the arguments push: CGNvar an array and its dimensions, CGNarrexpr *)
(* the array alone.                                                        *)
Pushed(f, literals) ==
  Cardinality(UNION {Slots(p, IF literals THEN 0 ELSE funs[f].params[p])
                     : p \in DOMAIN funs[f].params})

(* CGNfuncall: the name is looked up anew, and only if it is not found the *)
(* function found by RSO is taken.                                         *)
Called(c) ==
  LET again == IF Len(named[c]) = 1 THEN GetFunction(calls[c].table, named[c][1]) ELSE 0
  IN  IF again # 0 THEN again ELSE ptr[c]
CGNfuncall(c) ==
  LET f == Called(c)
      pushed == Pushed(f, calls[c].literals)
  IN  IF funs[f].isextern
      THEN [op |-> "jsre", pushed |-> pushed, index |-> AssemblyIndex(f)]
      ELSE [op |-> "jsr", pushed |-> pushed, args |-> CountFlatParams(f), label |-> header[f]]

CGN ==
  /\ pass = "cgn" /\ pass' = "done"
  /\ code' = [c \in DOMAIN calls |-> CGNfuncall(c)]
  /\ UNCHANGED <<funs, tables, cur, inStmts, calls, tree, inits, ptr, header, named, prefix>>

Next == \/ FNSfundefEnter \/ FNSfundefExit \/ FNSfundec \/ FunCall \/ FNSend
        \/ RSOfuncall
        \/ RNFfundef \/ RNFfundefEnd \/ RNFfuncall \/ RNFend
        \/ CGN
Spec == Init /\ [][Next]_vars
-----------------------------------------------------------------------------

(* The scopes a call stands in, the innermost first, and the functions of  *)
(* its name in the innermost one that has any.                             *)
Candidates(c, t) ==
  {f \in DOMAIN funs : funs[f].home = t /\ funs[f].name = calls[c].name}
Meant(c) ==
  LET chain == tables[calls[c].table].chain
  IN  UNION {Candidates(c, chain[n]) : n \in {m \in DOMAIN chain :
             \A k \in 1 .. m - 1 : Candidates(c, chain[k]) = {}}}

(* The label a call jumps to is that of the function its name means where  *)
(* it stands, though RNF may have renamed the call, its function, both or  *)
(* none when CGN looks again; and unless a function is defined twice in    *)
(* one scope (which no pass reports), no other function has that label.    *)
Redefined ==
  \E f, h \in {k \in DOMAIN funs : ~funs[k].isextern} :
    f # h /\ funs[f].home = funs[h].home /\ funs[f].name = funs[h].name
CallsReachTheirFunction ==
  \A c \in DOMAIN code : code[c].op = "jsr" =>
    LET labelled == {f \in DOMAIN funs : ~funs[f].isextern /\ header[f] = code[c].label}
    IN  /\ LeastOf(Meant(c)) \in labelled
        /\ Redefined \/ labelled \subseteq Meant(c)

(* The number in jsre is the place of an import of the called name in the  *)
(* .importfun list, also if a name is declared twice or also defined.      *)
ImportsAreFoundByIndex ==
  \A c \in DOMAIN code : code[c].op = "jsre" =>
    LET listed == {g \in Imports : Place(g) = code[c].index}
    IN  listed # {} /\ listed \subseteq Meant(c)

(* A function other modules import by its name (.exportfun), or the        *)
(* machine starts (main), keeps the name it has in the program.            *)
GlobalFunctionsKeepTheirName ==
  pass \in {"cgn", "done"} =>
    \A f \in DOMAIN funs : funs[f].home = 1 => header[f] = <<funs[f].name>>

(* What the modules of a program are linked by holds in both directions:   *)
(* calls find their import, and exports keep the name others import.       *)
ModulesLink == ImportsAreFoundByIndex /\ GlobalFunctionsKeepTheirName

(* jsr takes as many arguments off the stack as were pushed; it takes more *)
(* only if an array is passed as a literal, without its dimensions.        *)
ArgumentsArePushed ==
  \A c \in DOMAIN code : code[c].op = "jsr" =>
    /\ code[c].pushed <= code[c].args
    /\ code[c].pushed # code[c].args =>
         /\ calls[c].literals
         /\ \E p \in DOMAIN funs[ptr[c]].params : funs[ptr[c]].params[p] > 0
=============================================================================
