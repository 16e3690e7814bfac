----------------------------- MODULE Statements -----------------------------
(***************************************************************************)
(* Conditions, integer expressions and statements of the tree, as the      *)
(* grammar makes them (scanparse/parser.y).                                *)
(***************************************************************************)
Ask(k) == [is |-> "ask", k |-> k]
Not(c) == [is |-> "not", c |-> c]
And(l, r) == [is |-> "and", l |-> l, r |-> r]
Or(l, r) == [is |-> "or", l |-> l, r |-> r]
Num(n) == [is |-> "num", n |-> n]
Neg(n) == [is |-> "neg", n |-> n]
Get(k) == [is |-> "get", k |-> k]
Call(k) == [is |-> "call", k |-> k]
Drop(k) == [is |-> "drop", k |-> k]    \* the result is not used
Show(x) == [is |-> "show", x |-> x]
If(c, then, else) == [is |-> "if", c |-> c, then |-> then, else |-> else]
While(c, round) == [is |-> "while", c |-> c, body |-> round]
Do(round, c) == [is |-> "do", c |-> c, body |-> round]
For(x, init, until, step, round) ==
  [is |-> "for", x |-> x, init |-> init, until |-> until, step |-> step, body |-> round]
Return == [is |-> "return"]
=============================================================================
