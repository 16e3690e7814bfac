------------------------------ MODULE VarTable ------------------------------
(***************************************************************************)
(* The variable tables of util/vartable.c: one table per function and one  *)
(* for the program, entries in order of insertion, linked to the table of  *)
(* the enclosing scope.  A state machine that uses them keeps a sequence   *)
(* `tables`; a table is identified by its position in it.                  *)
(*                                                                         *)
(* The parent pointers never change after create_vartable, so a table      *)
(* carries the list they span: chain[1] is the table itself, chain[2] its  *)
(* parent, and the last element the table of the program.  Indices into a  *)
(* table start at 0, as in the code; entry l is vars[l + 1].               *)
(*                                                                         *)
(* `kind` tells which node entered the variable (the code asks the tree,   *)
(* not the table, for it).                                                 *)
(***************************************************************************)
EXTENDS Integers, Sequences

Kinds == {"var", "param", "dim", "extern", "loop"}

(* A new entry: vartable_insert_nocheck makes it valid and writable.       *)
NewVar(name, kind, dim) ==
  [name |-> name, kind |-> kind, dim |-> dim, isextern |-> kind = "extern",
   valid |-> TRUE, readonly |-> FALSE]

(* create_vartable under the parent whose chain is given.                  *)
NewTable(id, parentChain) == [vars |-> <<>>, chain |-> <<id>> \o parentChain]

(* Entries named `name`: all of them (the *_all lookups) or the valid ones *)
(* (vartable_local_get_variable and its _idx).                             *)
Named(table, name) == {l \in 0 .. Len(table.vars) - 1 : table.vars[l + 1].name = name}
ValidNamed(table, name) == {l \in Named(table, name) : table.vars[l + 1].valid}

Least(S) == CHOOSE m \in S : \A k \in S : m <= k

(* vartable_insert_nocheck; vartable_insert reports an error, and inserts  *)
(* all the same, when a valid entry of that name is in this very table.    *)
InsertVar(table, var) == [table EXCEPT !.vars = Append(@, var)]
Redeclares(table, name) == ValidNamed(table, name) # {}

(* The reference return_varref builds for an entry: n tables up, index l.  *)
None == [n |-> -1, l |-> -1, reftype |-> "none", dim |-> 0, readonly |-> FALSE]
RefTo(tables, chain, n, l) ==
  LET var == tables[chain[n + 1]].vars[l + 1]
  IN  [n |-> n, l |-> l, dim |-> var.dim, readonly |-> var.readonly,
       reftype |-> IF var.isextern THEN "extern"
                   ELSE IF n + 1 = Len(chain) THEN "global" ELSE "local"]

(* return_varref: the innermost table with a valid entry of that name, and *)
(* in it the first one.                                                    *)
Hits(tables, chain, name) ==
  {n \in 0 .. Len(chain) - 1 : ValidNamed(tables[chain[n + 1]], name) # {}}
ReturnVarref(tables, t, name) ==
  LET chain == tables[t].chain
      n == Least(Hits(tables, chain, name))
  IN  IF Hits(tables, chain, name) = {} THEN None
      ELSE RefTo(tables, chain, n, Least(ValidNamed(tables[chain[n + 1]], name)))

(* return_varref_ignore_valid: the same walk over all entries.             *)
HitsAll(tables, chain, name) ==
  {n \in 0 .. Len(chain) - 1 : Named(tables[chain[n + 1]], name) # {}}
(* Mutations: the outermost table that has the name, the last entry of it. *)
OutermostIgnoreValid(tables, t, name) ==
  LET chain == tables[t].chain
      n == CHOOSE m \in HitsAll(tables, chain, name) :
             \A k \in HitsAll(tables, chain, name) : k <= m
  IN  IF HitsAll(tables, chain, name) = {} THEN None
      ELSE RefTo(tables, chain, n, Least(Named(tables[chain[n + 1]], name)))
LastIgnoreValid(tables, t, name) ==
  LET chain == tables[t].chain
      n == Least(HitsAll(tables, chain, name))
      found == Named(tables[chain[n + 1]], name)
  IN  IF HitsAll(tables, chain, name) = {} THEN None
      ELSE RefTo(tables, chain, n, CHOOSE l \in found : \A k \in found : k <= l)
ReturnVarrefIgnoreValid(tables, t, name) ==
  LET chain == tables[t].chain
      n == Least(HitsAll(tables, chain, name))
  IN  IF HitsAll(tables, chain, name) = {} THEN None
      ELSE RefTo(tables, chain, n, Least(Named(tables[chain[n + 1]], name)))

(* What a reference made in table t denotes: a table and an index in it.   *)
Denotes(tables, t, ref) == <<tables[t].chain[ref.n + 1], ref.l>>
=============================================================================
