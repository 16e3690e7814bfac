----------------------------- MODULE MCStmtCode -----------------------------
(* Instances for TLC: bodies of two statements around a loop, a choice or a *)
(* nest of two of them.                                                     *)
EXTENDS References
CONSTANTS i, j
MCAnswers == {-1, 1}

A == Ask(1)
B == Ask(2)
Conds == {A, Not(A), And(A, B), Or(A, B),
          And(Or(A, B), Not(B)), Or(And(A, B), B)}
Simple == {<<>>, <<Call(1)>>, <<Drop(1)>>, <<Drop(1), Return>>}
Bounds == {Num(0), Num(2), Get(3)}
Steps == {Num(1), Neg(1), Neg(0), Get(4)}

Branches(cs, bodies) == {If(c, t, e) : c \in cs, t \in bodies, e \in bodies}
Repeats(cs, bodies) == {While(c, b) : c \in cs, b \in bodies}
                       \cup {Do(b, c) : c \in cs, b \in bodies}
Fors(x, bounds, steps, bodies) ==
  {For(x, n, u, s, b) : n \in bounds, u \in bounds, s \in steps, b \in bodies}
\* A step of zero makes rounds for ever; they must make a call.
Ends(f) == f.step # Neg(0) \/ f.body # <<>>
Single == Branches(Conds, Simple) \cup Repeats(Conds, Simple)
          \cup {f \in Fors(i, Bounds, Steps, {<<>>, <<Show(i)>>, <<Drop(1), Return>>}) : Ends(f)}
Small == {<<s>> : s \in Branches({A}, {<<>>, <<Return>>}) \cup Repeats({A}, {<<Call(2)>>})
          \cup Fors(j, {Num(0), Get(3)}, {Num(1), Get(4)}, {<<Show(i)>>})}
Nested == Branches({B}, Small) \cup Repeats({B, Or(A, B)}, Small)
          \cup Fors(i, {Num(0), Num(2)}, {Num(1), Neg(1), Get(4)}, Small)
MCPrograms == {<<s, Call(9)>> : s \in Single \cup Nested} \cup {<<s>> : s \in Single}
=============================================================================
