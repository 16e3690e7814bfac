# A verification development for the CiviC compiler

The repository holds a compiler, in C, from CiviC (a small C-like language with
nested functions and multi-dimensional arrays) to assembly for the CiviC
virtual machine, and CoCoNut, the compiler framework it is built with: `copra`
and `palm` are linked into the compiler, `cocogen` generates the code of its
tree and traversals. One run reads one file, passes one tree through some
fifteen traversals and writes one file. Nothing runs concurrently and
nothing is persisted, so there are no crashes, lost messages or races to model.
What is hard is of two kinds:

* the traversals communicate through **tables and indices kept far longer than
  the moment they were made for**: a reference resolved by one traversal is used
  by five others, which in between copy code, add definitions and look names up
  once more; an index handed out while code is emitted must still be right in a
  list that is written last;
* the framework is driven through **long sequences of calls nobody wrote down**:
  phases in phases with errors, gates, cycles and breakpoints; a hash table that
  changes while it is iterated; copies of subtrees freed in any order; static
  variables that outlive the call they were set for; a scheduler that must give
  an order of evaluation whatever attributes depend on each other.

A test sees the one program it compiles; the models here let *every* small
program, grammar, text or sequence of calls go through the code.

## The system

`src/src/main.ccn` fixes the order of the compiler: scan and parse, Analysis (FNS, RSO, TYC),
Adjustment (FTW, WDW, DS, VR, RNF, AFL), Optimization (CF), Print, AssemblyCode
(CST, CGN), MemFree. `CTIabortOnError` behind RSO and TYC ends the compiler, so
that later passes see only programs without errors.

| component | state | operations | what makes it correct | here |
|---|---|---|---|---|
| scanner SP, `lexer.l` | start condition, line, column, line buffer | one rule per match | a place names the token it was taken for | `Scanner` |
| parser SP, `parser.y` | tree | productions, yyerror | - | order of definitions in `Resolve`, yyerror in `Scanner` |
| functions FNS, `util/funtable.c` | function tables | insert, look up | calls reach the function meant, with its frame | `Calls` |
| variable tables, `util/vartable.c` | entries (name, dim, valid, readonly, extern), parent | insert, look up valid / all | an entry never moves; the lookup gives the innermost match | `VarTable`, `Resolve` |
| Resolve RSO | current table; references on Var nodes | enter/leave functions and loops, declare, resolve | a loop variable is visible in its loop only; references stay right | `Resolve` |
| TypeCheck TYC | types and dimensions on nodes | one check per node | what it accepts the machine can run | `Expressions`; readonly, indices in `Adjust` |
| ForToWhile FTW | definitions, copies, references | replace a for by an assignment and whiles | the loop counts in its own variable; copies mean what the original meant, and own their references | `Adjust` (names), `StmtCode` (code), `References` (ownership) |
| WhileToDoWhile WDW | copy of the condition | replace a while by if and do | the same | `Adjust`, `StmtCode`, `References` |
| DeclarationSplitting DS | assignments, `__init` | turn initialisers into assignments | each sets its own variable, in the right order | variable in `Adjust` |
| voidReturn VR | - | append return | no way out of a body leads on into the next function | `StmtCode` |
| RenameNested RNF | name prefix, saved by callers | rename functions and calls | labels are distinct, global names stay | `Calls` |
| ArrayFlatten AFL | current table | flatten indices and nested literals | array and dimensions found are those meant | indices in `Adjust` |
| ConstantsFolding CF | - | fold constant expressions | agrees with evaluation at run time | `Expressions` |
| constant table, CST | constants; indices on nodes | insert | an index means one constant for good | `ConstTable` |
| CodeGen CGN | tables, slots, labels, temporary offset, constants | emit instructions | addresses, frame size, temporaries; stack and jumps; calls; operands | `Addresses`, `Frame`, `ConstTable`, `Calls`, `StmtCode`, `Expressions` |
| MemFree | references | free | freed once | `References` |
| virtual machine, `vm/` | operand stack, frames | execute | - | binaries; the instructions used in `StmtCode`, `Expressions`, external |
| phase driver, copra `phase_driver.c` | current phase, errors, cycle, action number, breakpoint | dispatch actions, phases, cycles | an error ends its phase; numbers agree with those compiled in; cycles that run no phase end | `PhaseDriver`, `Lifetimes` |
| nodes and traversal core, copra | tree, traversal stack | construct, copy, free, check, traverse | memory has one owner; copies are faithful | `Tree` |
| palm `hash_table.c` | buckets, count, iterator | insert, look up, remove, clear, copy, map, iterate | it is a map | `HashTable`, `KeyValueMap` |
| palm `str.c` | statics of STRtok | string functions | results as meant, room for them | `Strings` |
| palm `ctinfo.c` | message buffer, counts | messages, abort | lines are whole and short enough | `Messages` |
| cocogen front end | symbol table, nodesets, attributes, reachability | one traversal each | sets mean their expression; attributes reach members; handled nodes are reached | `FrontEnd`, `Reachability`, `Cocogen` |
| cocogen scheduler | graphs, visits, work queue | close, partition, queue steps | attributes are evaluated before they are used, and it ends | `Scheduler`, `Cocogen` |
| cocogen lifetimes | numbers of actions | number, resolve targets, generate conditions | the check holds when the lifetime says so | `Lifetimes`, `Tree` |
| cocogen generators | - | print C | - | the code of nodes in `Tree`, of visits in `Cocogen` |

Interaction: the phase driver runs the traversals in the order of their phases
and stops at errors `ctinfo` has counted. FNS makes the function tables, RSO the
variable tables, both hang on the tree. FTW, WDW, DS and AFL read them, make new
Var nodes and give them references with `return_varref_ignore_valid`. CGN walks
the tables to number slots and globals and the tree to emit code; CST and CGN
share the constant table. All trees are built, copied and freed by the code
cocogen generates, in traversals that keep their symbol tables in palm's hash
table. Every hazard found while reading is listed with its line in `PROJECT.json`.

## The modules

### The compiler

**`ConstTable`** - `consttable_insert` and its clients. State: the table,
the indices kept (`noted`: NUM_G, FLOAT_G, cint_0_idx, cflt_0_idx), the loads
emitted, the `.const` list. One action per client; a float is its bit
pattern because the code compares floats with memcmp. Properties: a load emitted
at any time finds its constant in the list written at the end
(`LoadsMeanTheirConstant`), no duplicates.

**`VarTable`** - operators on variable tables: insertion and the two lookups.
Parent pointers never change, so a table carries the list of tables from itself
to the program's (`chain`). Indices start at 0 as in the code.

**`Resolve`** - the traversal RSO as a state machine over *any* program: each
action is a handler on a next node, the grammar's order (parameters, variables,
nested functions, statements) is the guard. Function scopes, for loops (init,
until, step, body in the order the children are walked) and while loops nest.
The variable `program` says what kind of program is meant: its names, dimensions
and bounds, and whether loop variables have *fresh* names, names not visible
around the loop; the properties that need this ask for it.

**`Adjust`** - extends `Resolve` by the passes behind it that touch
names. The tree itself is not kept: a use of a variable carries the loops
around it and in which part of them it stands, and `refs` the references of
its Var node *and of all copies made of it*. FTW replaces until and step by
copies, doubles the body of a loop whose step is not a constant, and adds
definitions (`ensure_vardef`); WDW copies conditions; DS looks up the variable
of each initialiser; AFL the array and its dimensions. A reference of an
initialiser of a definition is kept apart (`init`), since it was resolved
before the name of the definition was entered. Two things are deliberately
coarser than the code: loops are transformed in the order met, where the code goes
inside out (a lookup ignoring validity depends on names only, and these stay),
and every definition is treated as if it had an initialiser.

**`Addresses`** - extends `Adjust` by the numbers CGN puts into instructions:
slots, `.global`/`.importvar` indices and `resolve_idx`.

**`Frame`** - one function's frame in CGN: the loop that gives each entry a
slot, then literals and fills taking temporaries out of the twenty reserved
slots. A fill statement comes from an initialiser only (TYC rejects it
elsewhere), hence at most one per array defined.

**`Calls`** - functions and calls through FNS, RSO, RNF and CGN. FNS builds
any program: a function definition opens a table, local functions come before
the statements around them, an extern declaration stands at top level only, and
a call stands in a statement, among the arguments of another call (where RNF
does not go) or in the initialiser of a global (`inits`, which DS moves into a last
function behind all others). `tree` is the order a traversal meets definitions and
calls in; RNF consumes it, with the prefix of the function around on a stack, and
renames a function or a call when it comes to it. CGN numbers the imports (`Place`),
looks every call up again and emits argument count and label or index; that it emits
isrg for every call is under Disagreements, not in the model. What a call
*means* is stated without the tables: the functions of its name in the
innermost scope around it that has any.

**`Statements`**, **`Structured`** and **`StmtCode`** - the tree, the abstract and the detailed
specification of a function body. `Structured` executes the statements as
written; the only visible thing are the calls made, with the answers they give.
`StmtCode` translates the body as FTW, WDW, VR and CGN do (tree functions,
RECURSIVE, hence not for TLAPS) and executes the instructions on the machine,
one step at a time; a history (`todo`, `env`) lets `Structured` follow each call,
if it is one `Structured` may make. `SourceSpec`, the specification of
`Structured`, is then checked as a property: the code makes the same calls in
the same order, whatever they answer, and makes every call the body goes on to
make. What `Structured` says of a for loop is what the code makes of it (bound
evaluated anew, bound excluded, direction found once).

**`References`** - extends `StmtCode` by the ownership of the reference records:
allocated by RSO, shared by `CCNcopy` until the copying pass goes over its copy
in `fix_mode`, freed in `free_mode` and by MemFree. A reference is named by its
node and the copies made since, so that nothing has to be counted.

**`Expressions`** - one expression through TYC, CF (or not: `folds`), CGN and
the machine, on words of `Width` bits and floats that are multiples of a unit.
The passes (`TYC`, `CF`, `CGN`) are functions over the expressions nested up to `Depth`.
The abstract side is `Meaning`, the value of the expression as it is written, given
the answers of the calls and the values of the variables; the detailed one pops
and pushes typed operands, and an operand that does not fit its instruction is a
state of its own (`misfit`). What C leaves undefined is undefined here.

**`Scanner`** - the rules of `lexer.l` with flex's longest match, what each does to
line, column, line buffer and start condition, the syntax error at the first
token not accepted, and the warning for a division by zero, which reads the line
from the file again. It extends `Messages`, which it prints with.

### CoCoNut

**`PhaseDriver`** - the phase driver: nested phases, gates, cycles, the errors an
action can signal for itself or for its phase, breakpoints by path and by number,
the count of errors, the check before every action. The calls in progress are
`stack`; `phase_error`, static in the code, is one variable, and the copies
`CCNdispatchAction` keeps on the C stack are in the frames. What a pass may do is in the
table (`may`, `aborts`), which path it takes is left open. A frame also has the `rounds` its
cycle has made, a history: the driver itself counts in `cycle_iter`, one field for all
phases. The history stops at `MaxCycles`, so that a cycle may go round for ever in
finitely many states. **`Lifetimes`**
extends it by the numbers cocogen compiles into lifetimes.

**`KeyValueMap`** and **`HashTable`** - the map the interface promises, and the
chained buckets, count and iterator, with one action per function, that implement
it under the mapping `map <- Contents`. Both note in `call` the operation last called with its key
and value, and a step that is a call of the one has to be the same call of the other.

**`Tree`** - what the generated code does with the nodes of *any* grammar:
constructors, copy, free, check, a traversal that removes a type of node, and
the assignments a pass makes in between. What a traversal visits is decided by the
row `Reachability` computes for it, as in the table cocogen generates. Memory is explicit, the least free
address is allocated next, so a pointer kept too long meets another node.

**`Strings`** and **`Messages`** - palm's strings and messages. A string function
returns the text it leaves and the room it allocated; STRtok's statics are state.
Messages are wrapped at the line length as the code does it.

**`FrontEnd`**, **`Scheduler`**, **`Cocogen`** - cocogen from the parsed file to
the calls in the generated visit functions. `FrontEnd` has one action per
traversal of the semantic phase; `Scheduler` is the attribute scheduler, one step of its work
queue a step of the model, with the limit of `--ag-scheduler-max-iter` (`max_iter`) and the
assertion that ends cocogen; `Cocogen` composes the two, adds the generation
of visits and states, over all trees of bounded depth, what the order they fix
has to satisfy.

**`Reachability`** - the search of `frontend/reachability.c` for the nodes a traversal has to
pass through: depth first, with `child_visited`, the early stop at `child_is_reachable`
and the answers of earlier nodes taken for later ones. `FrontEnd` uses it for the
matrix of a grammar, `Tree` for the traversal that removes a type.

### Proofs and instances

`LeastNatural`, `ConstTableProofs`, `FrameProofs`, `PhaseDriverProofs`,
`HashTableProofs`, `CallsProofs`, `AdjustProofs` and `ExpressionsProofs` hold the
proofs; modules beginning with `MC` the instances for TLC.
Operators commented as a *mutation* or a *mistake* are plausible bugs; each is put in place of
the definition behind it to see that a property notices. Nothing else uses them.

## What the runs show

| run | instance | states | shows |
|---|---|---|---|
| `const_table` | ints 0, 1, 2, patterns of 0.0 and one float: the table can hold all and be asked again for each | | loads mean their constant, no duplicates |
| `names` | three kinds of program: two names used freely, three entries, two loops; the same with fresh loop variables; three names and 2-dimensional arrays, four entries, one loop; each with one use | 6.7 million | validity and references, copies, counters and addresses, arrays and dimensions (below) |
| `frame` | up to four entries over four names (all patterns of repetition), seven fills, literals three deep | | temporaries overlap nothing; three per fill and one per open literal fit as long as there are twenty |
| `calls` | two names, four functions, one call; no parameters, or an array and an int | | the label is that of the function meant, imports are numbered right, global names stay, arguments pushed are those taken (a literal pushes fewer) |
| `stmt_code` | about 1000 bodies: every kind of statement with six conditions, four kinds of bounds and steps, every pair nested; answers -1 and 1; six calls | 77,373 | the code refines the body; its stack and its ends; references have one owner |
| `phases` | the compiler's own phases from `main.ccn`, a small table with both kinds of errors, a cycle, a gate and a shared action, and a cycle in a cycle with notifications behind it; all choices of closed gates, 16 breakpoints | 6,892 | numbers, errors, cycles, breakpoints; a compilation ends unless a cycle that runs a phase goes round for ever |
| `hash_table` | three keys, two in one bucket, the last; values v1, v2, NULL; a count of four | 157,528 | every call does what the map's call does for the same key and value; iteration misses nothing |
| `expressions` | all operators on all leaves, nests of two where folding, order or types matter (`Depth` 4, as some leaves are signs and calls); 4-bit words; every use of a value | | typed, computed and called as written |
| `cocogen` | 1-4 nodes, two nodesets in terms of each other, attributes handed down; a nodeset of two nodes, a chain of three nodes, twins, a nodeset whose members have different visits, each with all dependencies of a small set; three nodes and a nodeset below each other in every way; limits of 196 and 3 steps | 164,452 | sets, attributes, reachability, order of evaluation; it ends, and a high limit refuses only what has no order |
| `tree` | a language of statements with links and strings; a pair for each lifetime; three nodes, two strings | 461,761 | one owner, faithful copies, checks, removal |
| `scanner` | sources of up to five characters of `a / * newline`, of three of others, and inside a comment; messages of six; pairs of strings of four and two | 277,057 | places, wrapping, string functions |
| `loop_variables` | the first programs of `names` | | **violated**: a loop over `i` in a function with an `i` counts in that `i` (against `scopes.cvc`) |

All runs with programs of their own to build disable the deadlock check, as a
compilation ends.

The run `names` carries the result on names. With loop names reused, copies and
counters do go wrong (`loop_variables`), but only towards variables of loops that
have ended (`CopiesErrTowardsLoops`), and initialisers keep their variable; with
fresh names nothing does (`FreshNamesKeepTheirMeaning`). References from nested
functions denote entries ahead of all loops (`OuterRefsPrecedeLoops`), which is what
makes the table index an address there (`AddressesAreSlots`). `ArraysAreFlattened`
says that AFL finds the array meant, and that a dimension it misses was named in
the program.

Why the bounds suffice.

* `names`: every property relates one use (one loop, one definition) to the entry it
  denotes and to one entry that could be mistaken for it. Three entries over two
  names hold the entry, the one mistaken and one that moves indices out of step;
  three tables give a use in a function two levels below the program; two loops can
  be nested, consecutive, or one in each function. One use loses nothing: uses do not
  influence each other. Arrays need two tables, as two scopes with the
  same name are enough for a dimension to be missed, and four entries for an array
  with its dimensions and one more.
* `calls`: a call is confused with at most one other function, which may be local,
  further out, an import or a second definition; four functions leave room for both
  and two around them.
* `stmt_code`: a label can collide only between two statements or a statement and a
  condition, and a nest of two with a short circuit inside contains each such pair,
  also in the copies of a body; six calls let the inner of two loops run twice in
  each of two rounds. Loops with a step of zero and an empty body, which make no
  call, are left out. `MaxSilent` bounds what `Structured` does between two calls;
  were it too small, TLC would stop with an error.
* `phases`: the compiler's own tables are complete; the small ones nest phases three
  deep, so that an error is signalled inside, beside and around an inner phase;
  three rounds of a cycle include one that is not the first and not the last. The third
  set of tables has the one cycle whose rounds `max_cycles` does not bound.
* `hash_table`: two keys in one bucket and an empty bucket before them are what the
  iterator and the chains can stumble over; the count runs one beyond the keys after HTclear.
* `expressions`: four bits have all the corners (zero, -1, the least integer); an
  instruction looks at two operands, hence nests of two.
* `cocogen`: the closures are over paths; a chain of three nodes or two nodesets with
  two attributes needs a second round of each, twins wait for each other's second visit. Inputs
  name a dependency once and never an attribute as its own, which the parser would accept.
  Three nodes that contain each other, directly or through a nodeset, are enough to find a
  node already visited, to stop early and to take the answer of an earlier node. Of the two limits,
  196 is the square of the items the largest node has and never stops
  a grammar with an order; 3 does.
* `tree`: three nodes hold a copy beside its original with one address free for reuse. A part
  has at most one lifetime, as the code looks at the first only (Disagreements).
* `scanner`: four characters make a comment, and the fifth is behind it; a message of
  six characters is one longer than the line.

No definition is checked by its type alone: the type invariants of the modules
that have one are part of the inductive invariants below, and a run spends its
properties on the hazards.

### Liveness and fairness

Nothing in a compiler waits for another process; liveness means that loops end.

* `Structured` and `StmtCode`: `SourceSpec` includes that a body which has a call to
  make makes it, checked under weak fairness of the machine's step: the machine
  executes instructions until it returns, and a call made returns (its answer is part of the step).
* `PhaseDriver`: `Terminates`, under weak fairness of the
  driver's step; it is a loop in one thread, and a pass returns. `max_cycles` bounds
  a cycle that notifies in every round, if it runs no phase. One that does may be repeated for ever, since
  the end of the inner phase sets the count back; the property says that
  nothing else keeps a compilation from ending, and the instance has such a cycle.
* `Cocogen`: `Terminates`, table, closure and queue come to an end, with the same
  fairness written out as: a program that goes on running goes on making steps.

For the other models there is no fairness to assume: the program being built may
end at any time, and a traversal ends because the tree is finite.

## Disagreements

`loop_variables` is the one run that expects a violation: the loop variable of a
for is found by name, so two loops over `i`, or a loop over `i` in a function with
an `i`, share a variable, where `test/arrays/functional/scopes.cvc:38,41` expects
them apart. Other places where code and text disagree were met while modelling.
Each is decided by one look at one program, so no run is spent on it:

* `codegen.c:674` takes the table index of a global for its number among the
  `.global` or `.importvar` lines, as the comment at line 668 says; with externs and globals mixed the two
  differ.
* `arrayflatten.c:162` looks the names of dimensions up where the array is indexed,
  so a dimension named in a parameter list can be captured by a variable of an inner
  function; the comment at line 116 has it find the dimensions of the array.
* `codegen.c:533`: the temporaries of a fill statement are not given back, as those of
  literals are; after six fills the twenty slots of line 382 are used up, and the seventh
  writes behind the frame (`FewFillsFit` says how far they reach).
* `codegen.c:793` emits `isrg` for every call, where the comments of
  `nested_funs.cvc` note `isr`, `isrl` and `isrn 1` for calls of nested functions.
* `codegen.c:863`: a cast from bool to float emits nothing, while
  `constant_folding_edge_cases.cvc:54` expects 1.0 (with folding it is).
* `codegen.c:882`: a literal whose rows differ in length is flattened to as many
  elements as it has; its dimensions are those of the first row.
* `codegen.c:115` lists the dimensions of an array parameter before the array, frames
  and calls have them behind it.
* `codegen.c:386` uses the bare name of a function as its label; one named like a
  generated label (`loop_0`) would be defined twice.
* `declarationsplitting.c:123` moves initialisers behind all definitions, while
  CGNfunbody evaluates the dimensions of local arrays first (`codegen.c:433`):
  `int n = 3; int[n] a;` allocates before n is set. In the same way `codegen.c:240`
  allocates no global array if any global has an initialiser.
* `fortowhile.c:256` and `for_to_while_test.cvc:9` include the bound of a loop,
  `for_loops.cvc:13` excludes it, as the code does.
* `phase_driver.c:216`: `cycle_iter` and `fixed_point` are single fields, which a
  phase run inside a cycle resets. A notification made before the inner phase is forgotten; and
  a cycle that notifies behind it in every round is never ended by its
  maximum, where `dsl_syntax.rst:441` says "a maximum cycle can be specified to prevent this from
  getting out of control". `NotifiedCyclesRepeat` is about
  cycles whose rounds run no phase and that no cycle runs; `Terminates` excepts
  a cycle that runs a phase and is repeated for ever.
* `map_id_to_lifetimes.c:125`: a lifetime that ends with a phase takes the
  number behind the phase from its last direct action; if that is a phase itself, the
  range ends at its first action.
* `hash_table.c:198`: HTclear does not reset the count, and an iteration of the
  table, meant to be used again, then ends in an assertion; `hash_table.c:157`:
  HTremove from an empty bucket reads through a null pointer, where the comment has it
  return NULL. `HashTable` models both as ends of the program.
* `gen_visit_source.c:543` declares the outputs of the first alternative of a visit, which the
  comment at line 537 has include all of the nodeset's; where members of a nodeset have other visits
  than the set, they do not.
* `generate_visits.c:540` reports "Loop detected" when the work queue has made more
  steps than `--ag-scheduler-max-iter` allows (line 498; 1000 if not given): a grammar with an order is refused in the
  same words if the limit is low for the size of a node. `LoopsAreReal` holds
  a refusal to be a loop only for limits from the square of the number of items of the node on.
* `generate_visits.c:436`: where the members of a nodeset have different visits, the first alternative of
  a visit may be a dummy; if another item follows it, cocogen ends in the assertion. The
  model goes to `crashed` there.
* `check_attributes.c:55`: CHAattribute does not go on to the next attribute, so that
  only the first one of a node is checked; `attribute_grammar.rst:58` rules out every
  inherited attribute of the root. `AttributesAreEvaluatedInOrder` excludes the two.
* `gen_check_traversal.c:679` turns only the first lifetime of a list into a
  condition; `dsl_syntax.rst` allows several. `CheckMatchesLifetimes` is checked with one.
* `typecheck.c:358` rejects an assignment to a loop variable by the reference RSO stored. With an outer
  variable of that name the reference is to the outer one, the assignment passes, and
  the loop counts in that variable (`loop_variables`). `FreshNamesKeepTheirMeaning` has
  the check for fresh names; for others nothing is claimed of it.
* `str.c:595` promises NULL for STRsubstToken of a NULL str, while line 608 reads through it;
  `Strings` has texts only as that argument.
* `lexer.l:116`: a comment over several lines leaves column and line buffer of the
  line before; the comment above token_action has them kept for each token.
* `ctinfo.c:569`: CTI leaves `current_type`, so that a message takes the colour of the
  last one with a location.

## What is proved

For all values of the constants, with TLAPS, from the named assumptions of the
modules (`ConstAssumption`, `FrameAssumption`, `TablesAssumption`,
`BreakpointsAssumption`, `MaxCyclesAssumption`,
`SizeAssumption`, `HashAssumption`, `ValuesAssumption`, `CallsAssumption`,
`ResolveAssumption`; for `Expressions` `DepthAssumption`, `VarAssumption`, `FunAssumption`,
`NumberAssumption`, `HeldAssumption` and `ProgramsAssumption`, the last of which is what the
parser makes), which TLC evaluates in the runs:

* `ConstTableProofs`: types, `NoDuplicates`, `LoadsMeanTheirConstant`,
  `EntriesStay`. The invariant `LoadsMeanTheirConstant` speaks of the end only;
  the inductive one says of every index kept or emitted, at any time, that it
  means its constant in the table as it is *now*, and of the list that it is the
  table. It is preserved because an insertion keeps all entries (`InsertLemma`,
  `HandedStays`) and returns an index that means what was inserted. That
  the CHOOSE for the first matching entry exists needs the least-number
  principle over sets of naturals, proved from the library's induction in
  `LeastNatural`.
* `FrameProofs`: types, `SlotsFollowNames`, `SlotIsIndexInPrefix`,
  `TempsApart`, `FewFillsFit`. The inductive invariant `FrameInv` adds that the
  slot count equals the number of entries while no name was repeated, and says where
  temporaries lie: the k-th open literal at `current + 3 * fills + k - 1`.
  Without that, neither disjointness nor the bound is inductive.
* `PhaseDriverProofs`, for every set of tables, every gate and breakpoint:
  - `PhaseErrorsStop`, a phase in which an action signalled a
    phase error is never left. The inductive invariant `ErrorsAreKept` says where the
    error is remembered: that of the innermost phase in `phase_error`, that of a phase
    further out in the copy its callee keeps. Without it the property is not
    inductive, as it looks at the end of a phase while the error was signalled several calls
    before.
  - `NotifiedCyclesRepeat`. The driver has one `cycle_iter` and one `fixed_point`.
    `RoundsAreCounted` says when they are those of the innermost cycle: as long as no cycle is in
    progress `cycle_iter` is zero, and in a cycle that runs no phase and is run by
    no cycle both count its own rounds and notifications. A phase that comes
    back to its caller never comes back to such a cycle (`Nested`).
  - `BreakpointsHold`. `BreakInv` has for every call in progress the number of names of
    the path that were followed when it began; `breakpoint` is the rest behind those of
    the innermost call, `old_break` the rest of the call around it. The names followed are those of phases around
    the call, in order (`Followed`), so the driver stops only at an action that is
    meant; and none is passed over while the path of the calls is the path given, so
    it does stop there.
  - `ActionIdsAreShown`, the number the driver counts is the one `CCNshowTree` lists for the place
    it has come to, however phases are entered, left out by their gates and gone round
    again. The listing walks the tables recursively; the tables have such a walk, and only
    one (`WalksExist`, `WalksAgree`), because no phase runs itself, not even through others: that is part of
    `IsCompiler`, and of a table for which it fails neither listing nor driver would
    come to an end. `Numbered` has for every call in progress the number its phase had when it began,
    and says that it is the one shown there; then a round that starts over, a phase skipped
    (`SizeFacts`) and a phase that is left (`BeforeFacts`: it has counted what skipping it would
    have added) come to the number shown for the action behind. The lemmas about sums over the
    tables (`TotalGrows`, `FlattenLength`) stand in front of it.
  - `LifetimesMatchTheRun`, the check between the numbers compiled into a lifetime finds
    itself inside it exactly in the actions meant. What runs at a place of the tables' walk is
    the walk of the action there, behind that place (`WalkNested`), and ends before the next
    place of its table (`WalkSpans`); so the places whose stretch contains the next action
    are those of the calls in progress (`PathStep`). If every place is run once its number is
    its index (`PlacesNumbered`), and the range of a lifetime is that stretch (`RangeOf`),
    provided the last action of a phase is no phase: `map_id_to_lifetimes.c` takes the
    number of the last action as the end. That every phase has a last action is the
    grammar's doing (`dsl-parser.y:505`) and part of `IsCompiler`. An id that is found names a place
    (`ResolvedIsPlace`), whatever lifetimes name.
* `HashTableProofs`: `KeysAreUnique` (no run checks it apart, as a key found twice would not
  be a map), the place of the iterator,
  `ImplementsMap`, the refinement: every step of the table is a step of the map or
  leaves it alone, and `IterationIsComplete`. The invariant has every key in the bucket of its hash, which is
  why what one bucket says of a key is what the map says; `SeenInv` adds that of the
  keys kept all those up to the iterator's place (`Reached`) were visited, which insertions keep because they
  append and removals because they leave the other entries in order. HTcpy builds
  its copy in a loop of insertions (`Copied`), bucket by bucket from the heads of the chains;
  behind every one of them the copy holds the entries passed, so that in the end it holds what
  the table holds (`CopyTable`).
* `CallsProofs`: `CallsReachTheirFunction`, `ModulesLink` and `ArgumentsArePushed`, for
  programs of any size. The inductive invariant `CallsInv` has three parts none of
  which the properties mention. `Scopes`: function tables form a tree, a table knows the
  function it belongs to, and its chain is the table in front of the chain around that
  function. `Follows`: the items of a traversal lead from scope to scope, each
  where the last one left, and every function is defined once, which is what makes the
  item at the head of `tree` stand for the place RNF has come to. `Renaming`: the stack
  of prefixes is the names, as they are now, of the functions around that place; a
  function RNF has passed is named after the one around it, which has been passed too; one
  ahead has its own name. From it (`HeaderIsOwnNameOrMade`): a name
  is the one of the source, or of several parts and then in no table, so the second
  lookup of CGNfuncall finds what RSO found or nothing (`CalledIsFound`). That labels
  differ (`HeadersDiffer`) is a descent over scopes: the first function that
  shares its label with another stands in one that does, and comes behind it.
* `AdjustProofs`: `OuterRefsPrecedeLoops`,
  `CopiesErrTowardsLoops`, `FreshNamesKeepTheirMeaning`, `AddressesAreSlots` and
  `ArraysAreFlattened`, for programs with any number of names, functions, variables, loops and uses.
  - The first part is about tables alone: what an insertion and a change of flags
    keep (`Keeps`), what the two lookups find and pass over (`FoundValid`,
    `FirstFound`), and from that when a second lookup by name finds the same entry
    (`FixedErrs`, `OwnLoopFound`, `DefinitionFound`). The shape they need: the chain of
    parents is what `create_vartable` builds, an entry that is no loop variable
    has no entry of its name and no loop variable in front of it, and the dimensions
    of an array stand behind it (`DimsFollow`).
  - The second part shows that RSO makes such tables. The inductive invariant
    `Walk` needs the stage the walk has reached in each function: the tables around the current
    one belong to functions that still stand before their statements, so they hold no
    loop variable yet (`Staged`, `EntriesOk`); around a use in a statement
    nothing is declared any more (`Settled`); and with fresh names nothing in sight
    shares the name of a loop (`Alone`). None of them is visible in the properties.
  - The third part carries on from the end of RSO: uses, loops and names of
    entries stay, only flags change (ensure_vardef), so a reference goes on denoting what
    it denoted, and each copy differs only towards the variable of a loop
    (`CopyOk`), with fresh names not at all. That counters are not assigned joins two
    passes: RSO marks what a loop variable denotes as read only, and TYC has
    rejected every write to it. Addresses follow: in front of an entry that is no
    loop variable all names differ, so the number of names up to it is its index
    (`SlotIsIndex`), which is what `resolve_idx` takes for a variable further out;
    and no reference to one further out denotes a loop variable.
  - `ArraysAreFlattened` needs a second invariant, `Arrays`, over all actions again: a
    name is one of the program's or is generated from the array in front of it, and
    dimensions and loop variables are scalars (`EntryOk`). Then no loop variable hides an array (`IndexedIsFound`);
    and an entry in a nearer scope with the generated name of a dimension would stand
    behind an array of the name indexed, which AFLvar would have found first
    (`DimensionFound`). What TYC demands of indices enters too: without it AFLvar reads
    past the last dimension.

* `ExpressionsProofs`: `TypesAreChecked`, `ValueIsAsWritten` and `FoldingIsComplete`, for
  expressions nested to any depth, any variables and functions, words of any width, whatever
  calls answer.
  - What holds of an expression if it holds of its parts holds of every one
    (`ExprInduction`, from the least-number principle over the levels of nesting), and each pass
    is given by its rule (`TYCIs`, `CFIs`, `CGNIs`, `MeaningIs`). What TYC accepts
    follows, and that folding keeps the type of an expression (`FoldKeepsTypes`), the rules (`FoldKeepsRules`)
    and its meaning after any number of calls (`FoldKeepsMeaning`): a part folded away makes no call.
  - The code of an expression is laid out in one piece with the code of its parts inside, and
    its labels occur once, since the counter goes on from part to part (`LaidOut`, `Labelled`);
    so a jump leads to where it is meant, however the expression is nested.
  - That the machine comes to the value is a simulation. The two properties
    speak of the state in which the value is taken; the inductive invariant, `Simulates`, says of every state
    before it that the machine is inside the code of the expression (`Within`): in front of it, with nothing done;
    at one of its own instructions or inside a part, where the operands the parts in front have left on the
    stack mean what those parts mean after the calls made until then; or behind it, with its value
    (`Arrived`). `AllRun` shows, by induction over the expression, that a step from such a state leads to
    another one, and that a machine which stops does so where there is no value or where a bool was taken
    for a float. An expression with a float the assembly file cannot hold, or with a bool cast to
    float, is left out of what is said of values, as in the property; the types of the first are
    right all the same.

Only model-checked: `Terminates` of `PhaseDriver` and of `Cocogen` and the liveness part of
`SourceSpec`, since liveness under fairness and ENABLED are out of the prover's reach; and the safety
properties of `Messages`, `Strings`, `StmtCode`, `References`, `Tree`, `Scanner` and
`Cocogen`. Their models are built from RECURSIVE operators over trees, texts and grammars, about which
the prover can say nothing. `Expressions` shows what it takes to do without: functions over all
trees up to a depth, and an induction for each.

## Not modelled

* Print: it reads the tree and formats it. The parser's productions and cocogen's
  parser build one node each from their children; there is no state to get wrong.
* `ccngen/`: cocogen's own tree, checked in as cocogen generated it. The generators
  are modelled in `Tree`, for any grammar; the output is the same code again.
* The other generators of cocogen print tables of names (enumerations, headers,
  vtables): wording without a decision the models could get wrong.
* AFLarrexpr splices nested literals into one, TYC counts their elements: pure
  functions of one literal, with no table and no order of steps.
* The place of the assignments DS makes and `__init`: their order is fixed in
  the code (see Disagreements), and what starts the program is outside the repository.
* Instruction sequences that copy whole arrays: one line of instructions for each
  form; what matters, slots and temporaries, is in `Frame` and `Addresses`.
* Reading the options, files, colours, tables of flex and bison, conversions of numbers to text in
  `str.c`: input and output.
* Growth and release of the arrays in the tables: a table is a sequence here, and the
  code hands out indices, never pointers into the arrays, over an insertion.

## Plan

Done: names, frames, constants, calls, statements, references, expressions, the
phase driver, palm, the tree, cocogen's front end and scheduler; the proofs about
tables, frames, calls, the driver and its lifetimes, names, addresses, arrays and expressions. Left:

1. The whole-array instructions of CGNassign in `StmtCode`.
