------------------------- MODULE ExpressionsProofs -------------------------
(***************************************************************************)
(* Proofs about Expressions, for expressions nested to any depth, any      *)
(* variables and functions, words of any width: what TypeCheck accepts,    *)
(* what folding leaves, and that the machine, on the code of an expression *)
(* that keeps the rules, finds operands of the types it asks for and comes *)
(* to the value, and the calls, of the expression as it is written.        *)
(*                                                                         *)
(* Invariant (Simulates): while it runs the machine is inside the code of  *)
(* the expression (In), in a stage that says which parts have been         *)
(* evaluated, what they left on the stack is what they mean after the      *)
(* calls made so far, and in which part, or at which instruction, it is;   *)
(* or it has come to the end with the value (Arrived).                     *)
(***************************************************************************)
EXTENDS Expressions, LeastNatural, SequenceTheorems

(***************************************************************************)
(* Expressions are nested up to Depth: what holds of an expression if it   *)
(* holds of its parts holds of every expression, and a function given by a *)
(* rule from its values for the parts is what the rule says.               *)
(***************************************************************************)
LEMMA LevelInduction ==
  ASSUME NEW B, \A m \in 0..Depth : (m > 0 => m - 1 \in B) => m \in B
  PROVE  0..Depth \subseteq B
<1> DEFINE Bad == {m \in 0..Depth : m \notin B}
<1> SUFFICES ASSUME Bad # {} PROVE FALSE
  OBVIOUS
<1>1. PICK m \in Bad : \A k \in Bad : m <= k
  <2>1. Bad \in SUBSET Nat
    BY DepthAssumption
  <2> QED BY <2>1, LeastNat
<1>2. m > 0 => m - 1 \in 0..Depth /\ m - 1 \notin Bad
  BY <1>1, DepthAssumption
<1> QED BY <1>2

(* The levels of nesting, by their rule.                                   *)
LEMMA NestedIs ==
  \A n \in 0..Depth : Nested[n] = IF n = 0 THEN Leaf ELSE Leaf \cup Over(Nested[n - 1])
<1> DEFINE Eq(n, g) == g = [k \in 0..n |-> IF k = 0 THEN Leaf ELSE Leaf \cup Over(g[k - 1])]
           B == {m \in 0..Depth : \E g : Eq(m, g)}
<1>1. 0..Depth \subseteq B
  <2> SUFFICES ASSUME NEW m \in 0..Depth, m > 0 => m - 1 \in B PROVE m \in B
    BY LevelInduction
  <2>1. PICK h : m > 0 => Eq(m - 1, h)
    OBVIOUS
  <2>2. m \in Nat
    BY DepthAssumption
  <2> DEFINE g == [k \in 0..m |-> IF k = 0 THEN Leaf ELSE Leaf \cup Over(h[k - 1])]
  <2>4. ASSUME NEW k \in 0..m PROVE g[k] = IF k = 0 THEN Leaf ELSE Leaf \cup Over(g[k - 1])
    <3>1. CASE k = 0
      BY <3>1
    <3>2. CASE k # 0
      <4>1. k - 1 \in 0..m - 1 /\ k - 1 \in 0..m /\ m > 0
        BY <2>2, <3>2
      <4>2. h[k - 1] = IF k - 1 = 0 THEN Leaf ELSE Leaf \cup Over(h[k - 1 - 1])
        BY <2>1, <4>1
      <4>3. g[k - 1] = h[k - 1]
        BY <4>1, <4>2
      <4> QED BY <3>2, <4>3
    <3> QED BY <3>1, <3>2
  <2>5. g = [k \in 0..m |-> g[k]]
    OBVIOUS
  <2>6. Eq(m, g)
    <3> HIDE DEF g
    <3>1. [k \in 0..m |-> g[k]] = [k \in 0..m |-> IF k = 0 THEN Leaf ELSE Leaf \cup Over(g[k - 1])]
      BY <2>4
    <3> QED BY <2>5, <3>1
  <2> QED BY <2>6
<1>2. \E g : Eq(Depth, g)
  <2>1. Depth \in 0..Depth
    BY DepthAssumption
  <2> QED BY <1>1, <2>1
<1>3. Eq(Depth, Nested)
  <2>1. Nested = CHOOSE g : Eq(Depth, g)
    BY DEF Nested
  <2> HIDE DEF Eq
  <2> QED BY <1>2, <2>1
<1> HIDE DEF B
<1> QED BY <1>3

(* A level, from the one below it.                                         *)
LEMMA NestedStep ==
  /\ Nested[0] = Leaf
  /\ \A n \in 1..Depth : Nested[n] = Leaf \cup Over(Nested[n - 1])
<1>1. 0 \in 0..Depth
  BY DepthAssumption
<1>2. \A n \in 1..Depth : n \in 0..Depth /\ n # 0
  BY DepthAssumption
<1> QED BY <1>1, <1>2, NestedIs

(* More parts make more expressions.                                       *)
LEMMA OverGrows ==
  ASSUME NEW S, NEW T, S \subseteq T
  PROVE  Over(S) \subseteq Over(T)
<1> SUFFICES ASSUME NEW e \in Over(S) PROVE e \in Over(T)
  OBVIOUS
<1>1. Seq(S) \subseteq Seq(T)
  OBVIOUS
<1> QED BY <1>1 DEF Over

(* A level contains those below it.                                        *)
LEMMA NestedGrows == \A n \in 0..Depth : \A m \in 0..n : Nested[m] \subseteq Nested[n]
<1> DEFINE B == {n \in 0..Depth : n > 0 => Nested[n - 1] \subseteq Nested[n]}
<1>2. 0..Depth \subseteq B
  <2> SUFFICES ASSUME NEW m \in 0..Depth, m > 0 => m - 1 \in B, m > 0
               PROVE  Nested[m - 1] \subseteq Nested[m]
    BY LevelInduction
  <2>1. m \in Nat /\ m \in 1..Depth
    BY DepthAssumption
  <2>2. CASE m = 1
    BY <2>1, <2>2, NestedStep
  <2>3. CASE m # 1
    <3>1. m - 1 \in 1..Depth /\ m - 1 > 0 /\ m - 1 \in B
      BY <2>1, <2>3, DepthAssumption
    <3>2. Over(Nested[m - 1 - 1]) \subseteq Over(Nested[m - 1])
      BY <3>1, OverGrows
    <3>3. Nested[m] = Leaf \cup Over(Nested[m - 1]) /\ Nested[m - 1] = Leaf \cup Over(Nested[m - 1 - 1])
      BY <2>1, <3>1, NestedStep
    <3> QED BY <3>2, <3>3
  <2> QED BY <2>2, <2>3
<1> DEFINE Nests == {n \in 0..Depth : \A m \in 0..n : Nested[m] \subseteq Nested[n]}
<1>3. 0..Depth \subseteq Nests
  <2> SUFFICES ASSUME NEW n \in 0..Depth, n > 0 => n - 1 \in Nests,
                      NEW m \in 0..n
               PROVE  Nested[m] \subseteq Nested[n]
    BY LevelInduction
  <2>1. CASE m = n
    BY <2>1
  <2>2. CASE m # n
    <3>1. n > 0 /\ m \in 0..n - 1
      BY <2>2, DepthAssumption
    <3> QED BY <1>2, <3>1
  <2> QED BY <2>1, <2>2
<1> QED BY <1>3

(* The parts of an expression are one level below it.                      *)
LEMMA PartsBelow ==
  ASSUME NEW n \in 0..Depth, NEW e \in Nested[n]
  PROVE  /\ e \in Expr
         /\ e \in Leaf \/ (n > 0 /\ e \in Over(Nested[n - 1]))
         /\ \A c \in Parts(e) : n > 0 /\ c \in Nested[n - 1] /\ c \in Nested[n] /\ c \in Expr
<1>1. Depth \in 0..Depth /\ n \in 0..Depth
  BY DepthAssumption
<1>2. e \in Expr
  BY <1>1, NestedGrows, DepthAssumption DEF Expr
<1>3. e \in Leaf \/ (n > 0 /\ e \in Over(Nested[n - 1]))
  <2>1. n \in Nat /\ (n # 0 => n > 0)
    BY DepthAssumption
  <2>2. CASE n = 0
    BY <2>2, NestedStep
  <2>3. CASE n # 0
    <3>1. n \in 1..Depth
      BY <2>1, <2>3, DepthAssumption
    <3>2. Nested[n] = Leaf \cup Over(Nested[n - 1])
      BY <3>1, NestedStep
    <3> QED BY <2>1, <2>3, <3>2
  <2> QED BY <2>2, <2>3
<1>4. e \in Leaf => Parts(e) = {}
  BY DEF Leaf, Parts, Crash
<1>5. ASSUME NEW c \in Parts(e) PROVE n > 0 /\ c \in Nested[n - 1]
  <2>1. n > 0 /\ e \in Over(Nested[n - 1])
    BY <1>3, <1>4, <1>5
  <2> QED BY <2>1, <1>5 DEF Over, Parts
<1>6. ASSUME n > 0 PROVE Nested[n - 1] \subseteq Nested[n] /\ Nested[n - 1] \subseteq Expr
  <2>1. n - 1 \in 0..n /\ n - 1 \in 0..Depth
    BY <1>6, DepthAssumption
  <2> QED BY <1>1, <2>1, NestedGrows DEF Expr
<1> QED BY <1>2, <1>3, <1>5, <1>6

(* What holds of an expression if it holds of its parts holds of all.      *)
LEMMA ExprInduction ==
  ASSUME NEW S, \A e \in Expr : Parts(e) \subseteq S => e \in S
  PROVE  Expr \subseteq S
<1> DEFINE B == {n \in 0..Depth : Nested[n] \subseteq S}
<1>1. 0..Depth \subseteq B
  <2> SUFFICES ASSUME NEW m \in 0..Depth, m > 0 => m - 1 \in B PROVE m \in B
    BY LevelInduction
  <2> SUFFICES ASSUME NEW e \in Nested[m] PROVE e \in S
    OBVIOUS
  <2>1. e \in Expr /\ \A c \in Parts(e) : m > 0 /\ c \in Nested[m - 1]
    BY PartsBelow
  <2> QED BY <2>1
<1>2. Depth \in 0..Depth
  BY DepthAssumption
<1> QED BY <1>1, <1>2 DEF Expr

(* What an expression of each kind consists of.                            *)
HasShape(e) ==
  /\ e.is \in {"lit", "varref", "crash", "element", "funcall", "binop", "monop", "typecast"}
  /\ e.is \in {"lit", "varref", "crash"} => Parts(e) = {} /\ e \in Leaf
  /\ e.is = "lit" => /\ e = Lit(e.t, e.v) /\ e.t \in Basic /\ e.v \in Int
                     /\ e.t = "bool" => e.v \in {0, 1}
  /\ e.is = "varref" => e = VarRef(e.x) /\ e.x \in Vars
  /\ e.is = "crash" <=> e = Crash
  /\ e.is = "element" => e = Element(e.x, e.i) /\ e.x \in Vars /\ e.i \in Expr /\ Parts(e) = {e.i}
  /\ e.is = "funcall" => /\ e = FunCall(e.f, e.args) /\ e.f \in Funs /\ e.args \in Seq(Expr)
                         /\ Parts(e) = {e.args[k] : k \in DOMAIN e.args}
  /\ e.is = "binop" => /\ e = Binop(e.op, e.l, e.r) /\ e.l \in Expr /\ e.r \in Expr
                       /\ e.op \in Arith \cup Order \cup Equality \cup {"and", "or"}
                       /\ Parts(e) = {e.l, e.r}
  /\ e.is = "monop" => /\ e = Monop(e.op, e.e) /\ e.e \in Expr /\ e.op \in {"neg", "not"}
                       /\ Parts(e) = {e.e}
  /\ e.is = "typecast" => /\ e = TypeCast(e.t, e.e) /\ e.e \in Expr /\ e.t \in Basic
                          /\ Parts(e) = {e.e}

(* The fields of an expression, by its kind.                               *)
LEMMA Shape == \A e \in Expr : HasShape(e)
<1> SUFFICES ASSUME NEW e \in Expr PROVE HasShape(e)
  OBVIOUS
<1>1. Depth \in 0..Depth /\ e \in Nested[Depth]
  BY DepthAssumption DEF Expr
<1>2. e \in Leaf \/ (Depth > 0 /\ e \in Over(Nested[Depth - 1]))
  BY <1>1, PartsBelow
<1>3. Depth > 0 => Nested[Depth - 1] \subseteq Expr
  <2> SUFFICES ASSUME Depth > 0 PROVE Nested[Depth - 1] \subseteq Expr
    OBVIOUS
  <2>1. Depth - 1 \in 0..Depth
    BY DepthAssumption
  <2> QED BY <1>1, <2>1, NestedGrows DEF Expr
<1>4. e \in Leaf \/ e \in Over(Expr)
  BY <1>2, <1>3, OverGrows
<1>5. CASE e \in Leaf
  BY <1>5 DEF Leaf, Lit, VarRef, Crash, Basic, Numeric, Parts, HasShape
<1>6. CASE e \in Over(Expr)
  <2>1. CASE e \in [is : {"element"}, x : Vars, i : Expr]
    BY <2>1 DEF Element, Parts, Crash, HasShape
  <2>2. CASE e \in [is : {"funcall"}, f : Funs, args : Seq(Expr)]
    BY <2>2 DEF FunCall, Parts, Crash, HasShape
  <2>3. CASE e \in [is : {"binop"}, op : Arith \cup Order \cup Equality \cup {"and", "or"}, l : Expr, r : Expr]
    BY <2>3 DEF Binop, Parts, Crash, HasShape
  <2>4. CASE e \in [is : {"monop"}, op : {"neg", "not"}, e : Expr]
    BY <2>4 DEF Monop, Parts, Crash, HasShape
  <2>5. CASE e \in [is : {"typecast"}, t : Basic, e : Expr]
    BY <2>5 DEF TypeCast, Parts, Crash, HasShape
  <2> QED BY <1>6, <2>1, <2>2, <2>3, <2>4, <2>5 DEF Over
<1> QED BY <1>4, <1>5, <1>6

(* The parts of an expression are expressions.                             *)
LEMMA PartsAreExpr == \A e \in Expr : Parts(e) \subseteq Expr
<1> SUFFICES ASSUME NEW e \in Expr PROVE Parts(e) \subseteq Expr
  OBVIOUS
<1>1. Depth \in 0..Depth /\ e \in Nested[Depth]
  BY DepthAssumption DEF Expr
<1> QED BY <1>1, PartsBelow

(* Each function of expressions is what its rule says.                     *)
LEMMA NodesLocal ==
  ASSUME NEW e \in Expr, NEW g, NEW h, \A c \in Parts(e) : g[c] = h[c]
  PROVE  {e} \cup UNION {g[c] : c \in Parts(e)} = {e} \cup UNION {h[c] : c \in Parts(e)}
OBVIOUS

(* Nodes, by its rule.                                                     *)
LEMMA NodesIs ==
  \A e \in Expr : Nodes[e] = {e} \cup UNION {Nodes[c] : c \in Parts(e)}
<1> DEFINE Eq(n, g) == g = [e \in Nested[n] |-> {e} \cup UNION {g[c] : c \in Parts(e)}]
           B == {m \in 0..Depth : \E g : Eq(m, g)}
<1>1. 0..Depth \subseteq B
  <2> SUFFICES ASSUME NEW m \in 0..Depth, m > 0 => m - 1 \in B PROVE m \in B
    BY LevelInduction
  <2>1. PICK h : m > 0 => Eq(m - 1, h)
    OBVIOUS
  <2>2. m \in Nat
    BY DepthAssumption
  <2> DEFINE g == [e \in Nested[m] |-> {e} \cup UNION {h[c] : c \in Parts(e)}]
  <2>4. ASSUME NEW e \in Nested[m] PROVE {e} \cup UNION {h[c] : c \in Parts(e)} = {e} \cup UNION {g[c] : c \in Parts(e)}
    <3>1. e \in Expr /\ \A c \in Parts(e) : m > 0 /\ c \in Nested[m - 1] /\ c \in Nested[m]
      BY <2>2, PartsBelow
    <3>2. \A c \in Parts(e) : g[c] = h[c]
      BY <2>1, <3>1
    <3> HIDE DEF g
    <3> QED BY <3>1, <3>2, NodesLocal
  <2>5. Eq(m, g)
    BY <2>4
  <2> QED BY <2>5
<1>2. \E g : Eq(Depth, g)
  <2>1. Depth \in 0..Depth
    BY DepthAssumption
  <2> QED BY <1>1, <2>1
<1>3. Eq(Depth, Nodes)
  <2>1. Nodes = CHOOSE g : Eq(Depth, g)
    BY DEF Nodes, Expr
  <2> HIDE DEF Eq
  <2> QED BY <1>2, <2>1
<1> HIDE DEF B
<1> QED BY <1>3 DEF Expr

(* TypeCheck of a node looks at its parts only.                            *)
LEMMA TYCLocal ==
  ASSUME NEW e \in Expr, NEW g, NEW h, \A c \in Parts(e) : g[c] = h[c]
  PROVE  TYCnode(e, g) = TYCnode(e, h)
<1>0. HasShape(e)
  BY Shape
<1>1. CASE e.is = "funcall"
  <2>1. \A k \in DOMAIN e.args : g[e.args[k]] = h[e.args[k]]
    BY <1>0, <1>1 DEF HasShape
  <2>2. [k \in DOMAIN e.args |-> g[e.args[k]]] = [k \in DOMAIN e.args |-> h[e.args[k]]]
    BY <2>1
  <2> QED BY <1>1, <2>2 DEF TYCnode
<1>2. CASE e.is # "funcall"
  BY <1>0, <1>2 DEF TYCnode, HasShape
<1> QED BY <1>1, <1>2

(* TYC, by its rule.                                                       *)
LEMMA TYCIs ==
  \A e \in Expr : TYC[e] = TYCnode(e, TYC)
<1> DEFINE Eq(n, g) == g = [e \in Nested[n] |-> TYCnode(e, g)]
           B == {m \in 0..Depth : \E g : Eq(m, g)}
<1>1. 0..Depth \subseteq B
  <2> SUFFICES ASSUME NEW m \in 0..Depth, m > 0 => m - 1 \in B PROVE m \in B
    BY LevelInduction
  <2>1. PICK h : m > 0 => Eq(m - 1, h)
    OBVIOUS
  <2>2. m \in Nat
    BY DepthAssumption
  <2> DEFINE g == [e \in Nested[m] |-> TYCnode(e, h)]
  <2>4. ASSUME NEW e \in Nested[m] PROVE TYCnode(e, h) = TYCnode(e, g)
    <3>1. e \in Expr /\ \A c \in Parts(e) : m > 0 /\ c \in Nested[m - 1] /\ c \in Nested[m]
      BY <2>2, PartsBelow
    <3>2. \A c \in Parts(e) : g[c] = h[c]
      BY <2>1, <3>1
    <3> HIDE DEF g
    <3> QED BY <3>1, <3>2, TYCLocal
  <2>5. Eq(m, g)
    BY <2>4
  <2> QED BY <2>5
<1>2. \E g : Eq(Depth, g)
  <2>1. Depth \in 0..Depth
    BY DepthAssumption
  <2> QED BY <1>1, <2>1
<1>3. Eq(Depth, TYC)
  <2>1. TYC = CHOOSE g : Eq(Depth, g)
    BY DEF TYC, Expr
  <2> HIDE DEF Eq
  <2> QED BY <1>2, <2>1
<1> HIDE DEF B
<1> QED BY <1>3 DEF Expr

(* Folding a node looks at its parts only.                                 *)
LEMMA CFLocal ==
  ASSUME NEW e \in Expr, NEW g, NEW h, \A c \in Parts(e) : g[c] = h[c]
  PROVE  CFnode(e, g) = CFnode(e, h)
<1>0. HasShape(e)
  BY Shape
<1>1. CASE e.is = "funcall"
  <2>1. \A k \in DOMAIN e.args : g[e.args[k]] = h[e.args[k]]
    BY <1>0, <1>1 DEF HasShape
  <2>2. [k \in DOMAIN e.args |-> g[e.args[k]]] = [k \in DOMAIN e.args |-> h[e.args[k]]]
    BY <2>1
  <2> QED BY <1>1, <2>2 DEF CFnode
<1>2. CASE e.is # "funcall"
  BY <1>0, <1>2 DEF CFnode, HasShape
<1> QED BY <1>1, <1>2

(* CF, by its rule.                                                        *)
LEMMA CFIs ==
  \A e \in Expr : CF[e] = CFnode(e, CF)
<1> DEFINE Eq(n, g) == g = [e \in Nested[n] |-> CFnode(e, g)]
           B == {m \in 0..Depth : \E g : Eq(m, g)}
<1>1. 0..Depth \subseteq B
  <2> SUFFICES ASSUME NEW m \in 0..Depth, m > 0 => m - 1 \in B PROVE m \in B
    BY LevelInduction
  <2>1. PICK h : m > 0 => Eq(m - 1, h)
    OBVIOUS
  <2>2. m \in Nat
    BY DepthAssumption
  <2> DEFINE g == [e \in Nested[m] |-> CFnode(e, h)]
  <2>4. ASSUME NEW e \in Nested[m] PROVE CFnode(e, h) = CFnode(e, g)
    <3>1. e \in Expr /\ \A c \in Parts(e) : m > 0 /\ c \in Nested[m - 1] /\ c \in Nested[m]
      BY <2>2, PartsBelow
    <3>2. \A c \in Parts(e) : g[c] = h[c]
      BY <2>1, <3>1
    <3> HIDE DEF g
    <3> QED BY <3>1, <3>2, CFLocal
  <2>5. Eq(m, g)
    BY <2>4
  <2> QED BY <2>5
<1>2. \E g : Eq(Depth, g)
  <2>1. Depth \in 0..Depth
    BY DepthAssumption
  <2> QED BY <1>1, <2>1
<1>3. Eq(Depth, CF)
  <2>1. CF = CHOOSE g : Eq(Depth, g)
    BY DEF CF, Expr
  <2> HIDE DEF Eq
  <2> QED BY <1>2, <2>1
<1> HIDE DEF B
<1> QED BY <1>3 DEF Expr

CGNof(e, emit) == [n \in Nat |-> CGNnode(e, emit, n)]

(* The code of a node is made of the code of its parts.                    *)
LEMMA CGNLocal ==
  ASSUME NEW e \in Expr, NEW g, NEW h, \A c \in Parts(e) : g[c] = h[c]
  PROVE  CGNof(e, g) = CGNof(e, h)
<1> SUFFICES ASSUME NEW n \in Nat PROVE CGNnode(e, g, n) = CGNnode(e, h, n)
  BY DEF CGNof
<1>0. HasShape(e)
  BY Shape
<1>1. CASE e.is = "funcall"
  <2>1. \A k \in DOMAIN e.args : g[e.args[k]] = h[e.args[k]]
    BY <1>0, <1>1 DEF HasShape
  <2>2. [k \in DOMAIN e.args |-> g[e.args[k]]] = [k \in DOMAIN e.args |-> h[e.args[k]]]
    BY <2>1
  <2> QED BY <1>1, <2>2 DEF CGNnode
<1>2. CASE e.is # "funcall"
  BY <1>0, <1>2 DEF CGNnode, HasShape
<1> QED BY <1>1, <1>2

(* CGN, by its rule.                                                       *)
LEMMA CGNIs ==
  \A e \in Expr : CGN[e] = CGNof(e, CGN)
<1> DEFINE Eq(n, g) == g = [e \in Nested[n] |-> CGNof(e, g)]
           B == {m \in 0..Depth : \E g : Eq(m, g)}
<1>1. 0..Depth \subseteq B
  <2> SUFFICES ASSUME NEW m \in 0..Depth, m > 0 => m - 1 \in B PROVE m \in B
    BY LevelInduction
  <2>1. PICK h : m > 0 => Eq(m - 1, h)
    OBVIOUS
  <2>2. m \in Nat
    BY DepthAssumption
  <2> DEFINE g == [e \in Nested[m] |-> CGNof(e, h)]
  <2>4. ASSUME NEW e \in Nested[m] PROVE CGNof(e, h) = CGNof(e, g)
    <3>1. e \in Expr /\ \A c \in Parts(e) : m > 0 /\ c \in Nested[m - 1] /\ c \in Nested[m]
      BY <2>2, PartsBelow
    <3>2. \A c \in Parts(e) : g[c] = h[c]
      BY <2>1, <3>1
    <3> HIDE DEF g
    <3> QED BY <3>1, <3>2, CGNLocal
  <2>5. Eq(m, g)
    BY <2>4
  <2> QED BY <2>5
<1>2. \E g : Eq(Depth, g)
  <2>1. Depth \in 0..Depth
    BY DepthAssumption
  <2> QED BY <1>1, <2>1
<1>3. Eq(Depth, CGN)
  <2>1. CGN = CHOOSE g : Eq(Depth, g)
    BY DEF CGN, CGNof, Expr
  <2> HIDE DEF Eq
  <2> QED BY <1>2, <2>1
<1> HIDE DEF B
<1> QED BY <1>3 DEF Expr

(* The nodes of an expression: itself and the nodes of its parts.          *)
LEMMA NodesOf ==
  ASSUME NEW e \in Expr
  PROVE  /\ e \in Nodes[e]
         /\ \A c \in Parts(e) : Nodes[c] \subseteq Nodes[e]
         /\ \A n \in Nodes[e] : n = e \/ \E c \in Parts(e) : n \in Nodes[c]
BY NodesIs

(* The nodes of an expression are expressions.                             *)
LEMMA NodesAreExpr == \A e \in Expr : Nodes[e] \subseteq Expr
<1> DEFINE S == {e \in Expr : Nodes[e] \subseteq Expr}
<1>1. ASSUME NEW e \in Expr, Parts(e) \subseteq S PROVE e \in S
  BY <1>1, NodesOf
<1> HIDE DEF S
<1>2. Expr \subseteq S
  BY <1>1, ExprInduction
<1> QED BY <1>2 DEF S
-----------------------------------------------------------------------------
(* TypeCheck.                                                              *)
TypeRule(e) ==
  /\ e.is \in {"lit", "crash"} => TYC[e] = Typed(e.t, 0, TRUE)
  /\ e.is = "varref" => TYC[e] = TYCvarref(e.x)
  /\ e.is = "element" => TYC[e] = TYCelement(e.x, TYC[e.i])
  /\ e.is = "funcall" => TYC[e] = TYCfuncall(e.f, [k \in DOMAIN e.args |-> TYC[e.args[k]]])
  /\ e.is = "binop" => TYC[e] = TYCbinop(e.op, TYC[e.l], TYC[e.r])
  /\ e.is = "monop" => TYC[e] = TYCmonop(e.op, TYC[e.e])
  /\ e.is = "typecast" => TYC[e] = TYCtypecast(e.t, TYC[e.e])

(* The type of an expression, by its kind.                                 *)
LEMMA TypeOf == \A e \in Expr : TypeRule(e)
<1> SUFFICES ASSUME NEW e \in Expr PROVE TypeRule(e)
  OBVIOUS
<1>0. HasShape(e)
  BY Shape
<1>1. TYC[e] = TYCnode(e, TYC)
  BY TYCIs
<1> QED BY <1>0, <1>1 DEF TYCnode, HasShape, TypeRule

(* Types are those of the language, dimensions none or one.                *)
LEMMA TypesAreTypes ==
  \A e \in Expr : /\ TYC[e].t \in Basic \cup {"void"} /\ TYC[e].d \in {0, 1}
                  /\ TYC[e] = Typed(TYC[e].t, TYC[e].d, TYC[e].ok)
<1> DEFINE S == {e \in Expr : TYC[e].t \in Basic \cup {"void"} /\ TYC[e].d \in {0, 1}}
<1>1. ASSUME NEW e \in Expr, Parts(e) \subseteq S PROVE e \in S
  <2>0. HasShape(e) /\ TypeRule(e)
    BY Shape, TypeOf
  <2>1. CASE e.is = "lit"
    BY <2>0, <2>1 DEF Typed, HasShape, TypeRule
  <2>2. CASE e.is = "crash"
    BY <2>0, <2>2 DEF Typed, Crash, Basic, Numeric, HasShape, TypeRule
  <2>3. CASE e.is = "varref"
    BY <2>0, <2>3, VarAssumption DEF Typed, TYCvarref, Vars, HasShape, TypeRule
  <2>4. CASE e.is = "element"
    BY <2>0, <2>4, VarAssumption DEF Typed, TYCelement, Vars, HasShape, TypeRule
  <2>5. CASE e.is = "funcall"
    BY <2>0, <2>5, FunAssumption DEF Typed, TYCfuncall, Funs, HasShape, TypeRule
  <2>6. CASE e.is = "binop"
    BY <2>0, <1>1, <2>6 DEF Typed, TYCbinop, Basic, HasShape, TypeRule
  <2>7. CASE e.is = "monop"
    BY <2>0, <1>1, <2>7 DEF Typed, TYCmonop, Basic, HasShape, TypeRule
  <2>8. CASE e.is = "typecast"
    BY <2>0, <2>8 DEF Typed, TYCtypecast, HasShape, TypeRule
  <2> QED BY <2>0, <2>1, <2>2, <2>3, <2>4, <2>5, <2>6, <2>7, <2>8 DEF HasShape
<1> HIDE DEF S
<1>2. Expr \subseteq S
  BY <1>1, ExprInduction
<1>3. ASSUME NEW e \in Expr PROVE TYC[e] = Typed(TYC[e].t, TYC[e].d, TYC[e].ok)
  <2>1. HasShape(e) /\ TypeRule(e)
    BY Shape, TypeOf
  <2>2. \A t, d, ok : TYC[e] = Typed(t, d, ok) => TYC[e] = Typed(TYC[e].t, TYC[e].d, TYC[e].ok)
    BY DEF Typed
  <2>3. CASE e.is \in {"lit", "crash"}
    BY <2>1, <2>2, <2>3 DEF TypeRule
  <2>4. CASE e.is = "varref"
    BY <2>1, <2>2, <2>4 DEF TypeRule, TYCvarref
  <2>5. CASE e.is = "element"
    BY <2>1, <2>2, <2>5, Zenon DEF TypeRule, TYCelement
  <2>6. CASE e.is = "funcall"
    <3> DEFINE args == [k \in DOMAIN e.args |-> TYC[e.args[k]]]
               params == FunType[e.f].params
               ok == /\ \A k \in DOMAIN args : args[k].ok
                     /\ Len(args) = Len(params)
                     /\ \A k \in DOMAIN args : args[k].t = params[k].type /\ args[k].d = params[k].dim
    <3>1. TYCfuncall(e.f, args) = Typed(FunType[e.f].type, 0, ok)
      BY Zenon DEF TYCfuncall
    <3>2. TYC[e] = TYCfuncall(e.f, args)
      BY <2>1, <2>6 DEF TypeRule
    <3> HIDE DEF ok, args
    <3> QED BY <2>2, <3>1, <3>2
  <2>7. CASE e.is = "binop"
    BY <2>1, <2>2, <2>7, Zenon DEF TypeRule, TYCbinop
  <2>8. CASE e.is = "monop"
    BY <2>1, <2>2, <2>8, Zenon DEF TypeRule, TYCmonop
  <2>9. CASE e.is = "typecast"
    BY <2>1, <2>2, <2>9, Zenon DEF TypeRule, TYCtypecast
  <2> QED BY <2>1, <2>3, <2>4, <2>5, <2>6, <2>7, <2>8, <2>9 DEF HasShape
<1> QED BY <1>2, <1>3 DEF S

(* When a node is accepted.                                                *)
OkRule(e) ==
  /\ e.is \in {"lit", "crash", "varref"} => TYC[e].ok
  /\ e.is = "element" => (TYC[e].ok <=> TYC[e.i].ok /\ TYC[e.i].t = "int" /\ VarType[e.x].dim = 1)
  /\ e.is = "funcall" =>
       (TYC[e].ok <=>
          /\ \A k \in DOMAIN e.args : TYC[e.args[k]].ok
          /\ Len(e.args) = Len(FunType[e.f].params)
          /\ \A k \in DOMAIN e.args : /\ TYC[e.args[k]].t = FunType[e.f].params[k].type
                                      /\ TYC[e.args[k]].d = FunType[e.f].params[k].dim)
  /\ e.is = "binop" =>
       (TYC[e].ok <=>
          /\ TYC[e.l].ok /\ TYC[e.r].ok /\ TYC[e.l].t = TYC[e.r].t /\ TYC[e.l].d = 0 /\ TYC[e.r].d = 0
          /\ e.op \in Arith \cup Order =>
               TYC[e.l].t \in Numeric \/ (e.op \in {"add", "mul"} /\ TYC[e.l].t = "bool")
          /\ e.op \in {"and", "or"} => TYC[e.l].t = "bool")
  /\ e.is = "monop" =>
       (TYC[e].ok <=> /\ TYC[e.e].ok /\ TYC[e.e].d = 0
                      /\ e.op = "not" => TYC[e.e].t = "bool"
                      /\ e.op # "not" => TYC[e.e].t \in Numeric)
  /\ e.is = "typecast" => (TYC[e].ok <=> TYC[e.e].ok /\ TYC[e.e].t # "void")

(* When an element is accepted.                                            *)
LEMMA OkElement ==
  ASSUME NEW x, NEW i
  PROVE  TYCelement(x, i).ok <=> i.ok /\ i.t = "int" /\ VarType[x].dim = 1
BY DEF Typed, TYCelement

(* When an operation on one operand is accepted.                           *)
LEMMA OkMonop ==
  ASSUME NEW op, NEW e
  PROVE  TYCmonop(op, e).ok <=> /\ e.ok /\ e.d = 0
                                /\ op = "not" => e.t = "bool"
                                /\ op # "not" => e.t \in Numeric
BY DEF Typed, TYCmonop

(* When a cast is accepted.                                                *)
LEMMA OkTypeCast ==
  ASSUME NEW t, NEW e
  PROVE  TYCtypecast(t, e).ok <=> e.ok /\ e.t # "void"
BY DEF Typed, TYCtypecast

(* When an expression is accepted, by its kind.                            *)
LEMMA OkOf == \A e \in Expr : OkRule(e)
<1> SUFFICES ASSUME NEW e \in Expr PROVE OkRule(e)
  OBVIOUS
<1>0. HasShape(e) /\ TypeRule(e)
  BY Shape, TypeOf
<1>1. CASE e.is \in {"lit", "crash", "varref"}
  BY <1>0, <1>1 DEF TypeRule, OkRule, Typed, TYCvarref
<1>2. CASE e.is = "element"
  <2>1. TYC[e] = TYCelement(e.x, TYC[e.i])
    BY <1>0, <1>2 DEF TypeRule
  <2>2. TYC[e].ok <=> TYC[e.i].ok /\ TYC[e.i].t = "int" /\ VarType[e.x].dim = 1
    BY <2>1, OkElement
  <2> QED BY <1>2, <2>2 DEF OkRule
<1>4. CASE e.is = "binop"
  <2>1. TYC[e] = TYCbinop(e.op, TYC[e.l], TYC[e.r])
    BY <1>0, <1>4 DEF TypeRule
  <2> QED BY <1>4, <2>1 DEF OkRule, Typed, TYCbinop
<1>5. CASE e.is = "monop"
  <2>1. TYC[e] = TYCmonop(e.op, TYC[e.e])
    BY <1>0, <1>5 DEF TypeRule
  <2>2. TYC[e].ok <=> /\ TYC[e.e].ok /\ TYC[e.e].d = 0
                      /\ e.op = "not" => TYC[e.e].t = "bool"
                      /\ e.op # "not" => TYC[e.e].t \in Numeric
    BY <2>1, OkMonop
  <2> QED BY <1>5, <2>2 DEF OkRule
<1>6. CASE e.is = "typecast"
  <2>1. TYC[e] = TYCtypecast(e.t, TYC[e.e])
    BY <1>0, <1>6 DEF TypeRule
  <2>2. TYC[e].ok <=> TYC[e.e].ok /\ TYC[e.e].t # "void"
    BY <2>1, OkTypeCast
  <2> QED BY <1>6, <2>2 DEF OkRule
<1>3. CASE e.is = "funcall"
  <2> DEFINE args == [k \in DOMAIN e.args |-> TYC[e.args[k]]]
  <2>1. TYC[e] = TYCfuncall(e.f, args)
    BY <1>0, <1>3 DEF TypeRule
  <2>2. DOMAIN args = DOMAIN e.args /\ Len(args) = Len(e.args)
    BY <1>0, <1>3 DEF HasShape
  <2>3. \A k \in DOMAIN e.args : args[k] = TYC[e.args[k]]
    OBVIOUS
  <2> HIDE DEF args
  <2>4. TYC[e].ok <=> /\ \A k \in DOMAIN args : args[k].ok
                      /\ Len(args) = Len(FunType[e.f].params)
                      /\ \A k \in DOMAIN args : args[k].t = FunType[e.f].params[k].type /\ args[k].d = FunType[e.f].params[k].dim
    BY <2>1 DEF TYCfuncall, Typed
  <2>5. TYC[e].ok <=> /\ \A k \in DOMAIN e.args : TYC[e.args[k]].ok
                      /\ Len(e.args) = Len(FunType[e.f].params)
                      /\ \A k \in DOMAIN e.args : /\ TYC[e.args[k]].t = FunType[e.f].params[k].type
                                      /\ TYC[e.args[k]].d = FunType[e.f].params[k].dim
    BY <2>2, <2>3, <2>4
  <2> QED BY <1>3, <2>5 DEF OkRule
<1> QED BY <1>0, <1>1, <1>2, <1>3, <1>4, <1>5, <1>6 DEF HasShape

(* The arguments of a call fit its parameters.                             *)
SuitsCall(e) ==
  /\ Len(e.args) = Len(FunType[e.f].params)
  /\ \A k \in DOMAIN e.args : /\ TYC[e.args[k]].t = FunType[e.f].params[k].type
                              /\ TYC[e.args[k]].d = FunType[e.f].params[k].dim

(* An accepted call passes what its function takes.                        *)
LEMMA CallSuits ==
  ASSUME NEW e \in Expr, e.is = "funcall"
  PROVE  /\ Suits(e) <=> SuitsCall(e)
         /\ OkRule(e) /\ TYC[e].ok => SuitsCall(e)
<1>0. HasShape(e)
  BY Shape
<1> DEFINE oked == [k \in DOMAIN e.args |-> [TYC[e.args[k]] EXCEPT !.ok = TRUE]]
<1>1. ASSUME NEW k \in DOMAIN e.args
      PROVE  oked[k].ok /\ oked[k].t = TYC[e.args[k]].t /\ oked[k].d = TYC[e.args[k]].d
  <2>1. e.args[k] \in Expr
    BY <1>0 DEF HasShape
  <2>2. TYC[e.args[k]] = Typed(TYC[e.args[k]].t, TYC[e.args[k]].d, TYC[e.args[k]].ok)
    BY <2>1, TypesAreTypes
  <2> QED BY <2>2 DEF Typed
<1>2. DOMAIN oked = DOMAIN e.args /\ Len(oked) = Len(e.args)
  BY <1>0 DEF HasShape
<1>3. Suits(e) <=> TYCfuncall(e.f, oked).ok
  BY DEF Suits
<1> HIDE DEF oked
<1>4. TYCfuncall(e.f, oked).ok
        <=> /\ \A k \in DOMAIN oked : oked[k].ok
            /\ Len(oked) = Len(FunType[e.f].params)
            /\ \A k \in DOMAIN oked : oked[k].t = FunType[e.f].params[k].type /\ oked[k].d = FunType[e.f].params[k].dim
  BY DEF TYCfuncall, Typed
<1>5. Suits(e) <=> SuitsCall(e)
  BY <1>1, <1>2, <1>3, <1>4 DEF SuitsCall
<1>6. OkRule(e) /\ TYC[e].ok => SuitsCall(e)
  BY DEF OkRule, SuitsCall
<1> QED BY <1>5, <1>6

(* What is accepted is accepted in all its parts, and each suits.          *)
LEMMA AcceptedSuits ==
  ASSUME NEW e \in Expr, TYC[e].ok
  PROVE  /\ \A c \in Parts(e) : TYC[c].ok
         /\ ~Unruly(e) => Suits(e)
<1>0. HasShape(e) /\ OkRule(e)
  BY Shape, OkOf
<1>1. CASE e.is \in {"lit", "varref", "crash"}
  BY <1>0, <1>1 DEF Suits, HasShape
<1>2. CASE e.is = "element"
  BY <1>0, <1>2 DEF Suits, HasShape, OkRule
<1>3. CASE e.is = "funcall"
  <2>1. \A c \in Parts(e) : TYC[c].ok
    BY <1>0, <1>3 DEF HasShape, OkRule
  <2>2. SuitsCall(e)
    BY <1>0, <1>3, CallSuits
  <2> QED BY <1>3, <2>1, <2>2, CallSuits
<1>4. CASE e.is = "binop"
  <2>1. /\ TYC[e.l].ok /\ TYC[e.r].ok /\ TYC[e.l].t = TYC[e.r].t /\ TYC[e.l].d = 0 /\ TYC[e.r].d = 0
        /\ e.op \in Arith \cup Order =>
             TYC[e.l].t \in Numeric \/ (e.op \in {"add", "mul"} /\ TYC[e.l].t = "bool")
        /\ e.op \in {"and", "or"} => TYC[e.l].t = "bool"
    BY <1>0, <1>4 DEF OkRule
  <2>2. Parts(e) = {e.l, e.r} /\ e.op \in Arith \cup Order \cup Equality \cup {"and", "or"} /\ e.l \in Expr
    BY <1>0, <1>4 DEF HasShape
  <2>3. TYC[e.l].t \in {"int", "float", "bool", "void"}
    BY <2>2, TypesAreTypes DEF Basic, Numeric
  <2>4. ~Unruly(e) => Suits(e)
    <3> SUFFICES ASSUME ~Unruly(e) PROVE Suits(e)
      OBVIOUS
    <3>1. ~(e.op = "mod" /\ TYC[e.l].t = "float") /\ ~(e.op \in Equality /\ TYC[e.l].t = "void")
      BY <1>4 DEF Unruly
    <3>2. Scalar(e.l) /\ Scalar(e.r)
      BY <2>1 DEF Scalar
    <3>3. <<e.op, TYC[e.l].t>> \in
              (Arith \cup Order \cup Equality) \X {"int"}
              \cup (((Arith \ {"mod"}) \cup Order \cup Equality) \X {"float"})
              \cup (({"add", "mul", "and", "or"} \cup Equality) \X {"bool"})
      BY <2>1, <2>2, <2>3, <3>1 DEF Numeric
    <3> QED BY <1>4, <2>1, <3>2, <3>3 DEF Suits
  <2> QED BY <2>1, <2>2, <2>4
<1>5. CASE e.is = "monop"
  BY <1>0, <1>5 DEF Suits, Scalar, Numeric, HasShape, OkRule
<1>6. CASE e.is = "typecast"
  BY <1>0, <1>6 DEF Suits, HasShape, OkRule
<1> QED BY <1>0, <1>1, <1>2, <1>3, <1>4, <1>5, <1>6 DEF HasShape

(* A node that suits, with accepted parts, is accepted.                    *)
LEMMA SuitableAccepted ==
  ASSUME NEW e \in Expr, \A c \in Parts(e) : TYC[c].ok, Suits(e)
  PROVE  TYC[e].ok
<1>0. HasShape(e) /\ OkRule(e)
  BY Shape, OkOf
<1>1. CASE e.is \in {"lit", "crash", "varref"}
  BY <1>0, <1>1 DEF OkRule
<1>3. CASE e.is = "element"
  BY <1>0, <1>3 DEF Suits, OkRule, HasShape
<1>4. CASE e.is = "funcall"
  <2>1. SuitsCall(e)
    BY <1>4, CallSuits
  <2>2. \A k \in DOMAIN e.args : e.args[k] \in Parts(e)
    BY <1>0, <1>4 DEF HasShape
  <2> QED BY <1>0, <1>4, <2>1, <2>2 DEF OkRule, SuitsCall
<1>5. CASE e.is = "binop"
  <2>1. /\ TYC[e.l].t = TYC[e.r].t /\ Scalar(e.l) /\ Scalar(e.r)
        /\ <<e.op, TYC[e.l].t>> \in
              (Arith \cup Order \cup Equality) \X {"int"}
              \cup (((Arith \ {"mod"}) \cup Order \cup Equality) \X {"float"})
              \cup (({"add", "mul", "and", "or"} \cup Equality) \X {"bool"})
    BY <1>5 DEF Suits
  <2>2. \/ TYC[e.l].t \in Numeric /\ e.op \in Arith \cup Order \cup Equality
        \/ TYC[e.l].t = "bool" /\ e.op \in {"add", "mul", "and", "or"} \cup Equality
    BY <2>1 DEF Numeric
  <2>3. TYC[e.l].ok /\ TYC[e.r].ok
    BY <1>0, <1>5 DEF HasShape
  <2> QED BY <1>0, <1>5, <2>1, <2>2, <2>3 DEF OkRule, Scalar, Arith, Order, Equality
<1>6. CASE e.is = "monop"
  BY <1>0, <1>6 DEF Suits, Scalar, Numeric, HasShape, OkRule
<1>7. CASE e.is = "typecast"
  BY <1>0, <1>7 DEF Suits, HasShape, OkRule
<1> QED BY <1>0, <1>1, <1>3, <1>4, <1>5, <1>6, <1>7 DEF HasShape

Ruly(e) == \A n \in Nodes[e] : ~Unruly(n)

(* The parts of an expression that keeps the rules keep them.              *)
LEMMA RulyParts ==
  ASSUME NEW e \in Expr, Ruly(e)
  PROVE  ~Unruly(e) /\ \A c \in Parts(e) : c \in Expr /\ Ruly(c)
BY NodesOf, PartsAreExpr DEF Ruly

(* All nodes of an accepted expression that keeps the rules suit.          *)
LEMMA AllSuit ==
  \A e \in Expr : /\ TYC[e].ok => \A n \in Nodes[e] : TYC[n].ok
                  /\ (\A n \in Nodes[e] : Suits(n)) => TYC[e].ok
                  /\ TYC[e].ok /\ Ruly(e) => \A n \in Nodes[e] : Suits(n)
<1> DEFINE S == {e \in Expr : /\ TYC[e].ok => \A n \in Nodes[e] : TYC[n].ok
                              /\ (\A n \in Nodes[e] : Suits(n)) => TYC[e].ok
                              /\ TYC[e].ok /\ Ruly(e) => \A n \in Nodes[e] : Suits(n)}
<1>1. ASSUME NEW e \in Expr, Parts(e) \subseteq S PROVE e \in S
  <2>1. /\ e \in Nodes[e]
        /\ \A c \in Parts(e) : Nodes[c] \subseteq Nodes[e]
        /\ \A n \in Nodes[e] : n = e \/ \E c \in Parts(e) : n \in Nodes[c]
    BY NodesOf
  <2>2. TYC[e].ok => \A n \in Nodes[e] : TYC[n].ok
    BY <1>1, <2>1, AcceptedSuits
  <2>3. ASSUME \A n \in Nodes[e] : Suits(n) PROVE TYC[e].ok
    <3>1. \A c \in Parts(e) : TYC[c].ok
      BY <1>1, <2>1, <2>3
    <3> QED BY <2>1, <2>3, <3>1, SuitableAccepted
  <2>4. ASSUME TYC[e].ok, Ruly(e) PROVE \A n \in Nodes[e] : Suits(n)
    <3>1. ~Unruly(e) /\ \A c \in Parts(e) : Ruly(c)
      BY <2>4, RulyParts
    <3>2. Suits(e) /\ \A c \in Parts(e) : TYC[c].ok
      BY <2>4, <3>1, AcceptedSuits
    <3> QED BY <1>1, <2>1, <3>1, <3>2
  <2> QED BY <2>2, <2>3, <2>4
<1> HIDE DEF S
<1>2. Expr \subseteq S
  BY <1>1, ExprInduction
<1> QED BY <1>2 DEF S

(* What a statement accepts: all that is well typed, and little beyond.    *)
LEMMA WellTypedIsAccepted ==
  ASSUME NEW p \in Programs
  PROVE  /\ WellTyped(p) => Accepted(p)
         /\ Accepted(p) => TYC[p.e].ok /\ TYC[p.e].t = p.type
         /\ Accepted(p) => \/ WellTyped(p)
                           \/ Array(p.e) /\ p.use \notin {"vardef", "return"}
                           \/ \E e \in Nodes[p.e] : Unruly(e)
<1>1. /\ p.e \in Expr /\ p.use \in Uses /\ p.type \in Basic
      /\ p.use = "condition" => p.type = "bool"
      /\ p.use = "bound" => p.type = "int"
  BY ProgramsAssumption
<1>2. /\ TYC[p.e].ok => \A n \in Nodes[p.e] : TYC[n].ok
      /\ (\A n \in Nodes[p.e] : Suits(n)) => TYC[p.e].ok
      /\ TYC[p.e].ok /\ Ruly(p.e) => \A n \in Nodes[p.e] : Suits(n)
      /\ TYC[p.e].d \in {0, 1}
  BY <1>1, AllSuit, TypesAreTypes
<1>3. Accepted(p) <=> /\ TYC[p.e].ok /\ TYC[p.e].t = p.type
                      /\ p.use \in {"vardef", "return"} => TYC[p.e].d = 0
  BY <1>1 DEF Accepted, TYCvardef, TYCassign, TYCcondition, TYCforstatement, TYCreturnstatement, Uses
<1>4. WellTyped(p) => Accepted(p)
  BY <1>2, <1>3 DEF WellTyped, FollowsRules, Scalar
<1>5. ASSUME Accepted(p), Ruly(p.e), Scalar(p.e) PROVE WellTyped(p)
  BY <1>2, <1>3, <1>5 DEF WellTyped, FollowsRules, Ruly
<1>6. Scalar(p.e) \/ Array(p.e)
  BY <1>2 DEF Scalar, Array
<1>7. Array(p.e) /\ Accepted(p) => p.use \notin {"vardef", "return"}
  BY <1>3 DEF Array
<1> QED BY <1>3, <1>4, <1>5, <1>6, <1>7 DEF Ruly
-----------------------------------------------------------------------------
(* ConstantsFolding.                                                       *)
AllOps == Arith \cup Order \cup Equality \cup {"and", "or"}

(* A quotient is an integer.                                               *)
LEMMA QuotientInt ==
  ASSUME NEW a \in Int, NEW b \in Int, b # 0
  PROVE  Quotient(a, b) \in Int
<1> DEFINE Size(n) == IF n < 0 THEN 0 - n ELSE n
<1>1. Size(a) \in Int /\ Size(b) \in Int /\ Size(b) > 0
  OBVIOUS
<1>2. Quotient(a, b) = IF (a < 0) = (b < 0) THEN Size(a) \div Size(b) ELSE 0 - (Size(a) \div Size(b))
  BY DEF Quotient
<1> HIDE DEF Size
<1>3. Size(a) \div Size(b) \in Int
  BY <1>1
<1>4. (Size(a) \div Size(b) \in Int) /\ (0 - (Size(a) \div Size(b)) \in Int)
  BY <1>3
<1> QED BY <1>2, <1>4

(* So is a wrapped number.                                                 *)
LEMMA WrapInt == \A n \in Int : Wrap(n) \in Int
<1> SUFFICES ASSUME NEW n \in Int PROVE Wrap(n) \in Int
  OBVIOUS
<1>1. PICK h \in Int : h = 2 ^ (Width - 1)
  BY NumberAssumption
<1>2. PICK w \in Nat \ {0} : w = 2 ^ Width
  BY NumberAssumption
<1>3. Wrap(n) = ((n + h) % w) - h
  BY <1>1, <1>2 DEF Wrap
<1> QED BY <1>3

(* A truth is a bit.                                                       *)
LEMMA TruthIsBit == \A b : Truth(b) \in {0, 1}
BY DEF Truth

(* So is the result of a comparison.                                       *)
LEMMA ComparedIsBit == \A op, a, b : Compared(op, a, b) \in {0, 1}
BY TruthIsBit DEF Compared

(* What folding computes is a literal of the type of the operation.        *)
LEMMA FoldedValue ==
  ASSUME NEW t \in Basic, NEW op \in AllOps, NEW a \in Int, NEW b \in Int,
         Foldable(t, op), op \in {"div", "mod"} => b # 0
  PROVE  /\ ResultType(op, t) \in Basic
         /\ OpOf(t, op, a, b) \in Int
         /\ ResultType(op, t) = "bool" => OpOf(t, op, a, b) \in {0, 1}
<1>1. ResultType(op, t) \in Basic /\ (ResultType(op, t) = "bool" => t = "bool" \/ op \notin Arith)
  BY DEF ResultType, Basic
<1>2. CASE op \notin Arith /\ t # "bool"
  <2>1. op \in Order \cup Equality
    BY <1>2 DEF Foldable, AllOps, Basic, Numeric
  <2>2. OpOf(t, op, a, b) = Compared(op, a, b)
    BY <1>2, <2>1 DEF OpOf, IntOp, FloatOp, Order, Equality, Basic, Numeric
  <2> QED BY <1>1, <2>2, ComparedIsBit
<1>3. CASE t = "bool"
  BY <1>1, <1>3, TruthIsBit DEF OpOf, BoolOp
<1>4. CASE op \in Arith /\ t = "int"
  <2>1. a + b \in Int /\ a - b \in Int /\ a * b \in Int
    OBVIOUS
  <2>2. op \in {"div", "mod"} => Quotient(a, b) \in Int /\ a - b * Quotient(a, b) \in Int
    <3> SUFFICES ASSUME op \in {"div", "mod"} PROVE Quotient(a, b) \in Int /\ a - b * Quotient(a, b) \in Int
      OBVIOUS
    <3>1. PICK q \in Int : q = Quotient(a, b)
      BY QuotientInt
    <3> QED BY <3>1
  <2>3. IntOp(op, a, b) \in Int
    BY <1>4, <2>1, <2>2, WrapInt DEF IntOp, Arith
  <2> QED BY <1>1, <1>4, <2>3 DEF OpOf
<1>5. CASE op \in Arith /\ t = "float"
  <2>1. a + b \in Int /\ a - b \in Int /\ a * b \in Int /\ a * Unit \in Int /\ Unit \in Int /\ Unit # 0
    BY NumberAssumption
  <2>2. op = "div" => Quotient(a * Unit, b) \in Int
    BY <2>1, QuotientInt
  <2>3. Quotient(a * b, Unit) \in Int
    BY <2>1, QuotientInt
  <2>4. FloatOp(op, a, b) \in Int
    BY <1>5, <2>1, <2>2, <2>3 DEF FloatOp, Arith, Foldable
  <2> QED BY <1>1, <1>5, <2>4 DEF OpOf
<1> QED BY <1>2, <1>3, <1>4, <1>5 DEF Basic, Numeric

(* A converted value is one of the new type.                               *)
LEMMA ConvertedValue ==
  ASSUME NEW from \in Basic, NEW to \in Basic, NEW v \in Int, from = "bool" => v \in {0, 1}
  PROVE  Converted(from, to, v) \in Int /\ (to = "bool" => Converted(from, to, v) \in {0, 1})
<1>1. v * Unit \in Int /\ Quotient(v, Unit) \in Int
  BY QuotientInt, NumberAssumption
<1> QED BY <1>1, TruthIsBit DEF Converted, Basic, Numeric

FoldRule(e) ==
  /\ e.is \in {"lit", "varref", "crash"} => CF[e] = e
  /\ e.is = "element" => CF[e] = Element(e.x, CF[e.i])
  /\ e.is = "funcall" => CF[e] = FunCall(e.f, [k \in DOMAIN e.args |-> CF[e.args[k]]])
  /\ e.is = "binop" => CF[e] = CFbinop(e.op, CF[e.l], CF[e.r])
  /\ e.is = "monop" => CF[e] = CFmonop(e.op, CF[e.e])
  /\ e.is = "typecast" => CF[e] = CFtypecast(e.t, CF[e.e])

(* A folded expression, by its kind.                                       *)
LEMMA FoldOf == \A e \in Expr : FoldRule(e)
<1> SUFFICES ASSUME NEW e \in Expr PROVE FoldRule(e)
  OBVIOUS
<1>1. CF[e] = CFnode(e, CF) /\ HasShape(e)
  BY CFIs, Shape
<1> QED BY <1>1 DEF CFnode, FoldRule, HasShape

(* What is over a set of expressions, by its kind.                         *)
LEMMA Overs ==
  ASSUME NEW S
  PROVE  /\ \A x \in Vars, i \in S : Element(x, i) \in Over(S)
         /\ \A f \in Funs, args \in Seq(S) : FunCall(f, args) \in Over(S)
         /\ \A op \in AllOps, l \in S, r \in S : Binop(op, l, r) \in Over(S)
         /\ \A op \in {"neg", "not"}, e \in S : Monop(op, e) \in Over(S)
         /\ \A t \in Basic, e \in S : TypeCast(t, e) \in Over(S)
<1>1. \A x \in Vars, i \in S : Element(x, i) \in Over(S)
  BY DEF Over, Element
<1>2. \A f \in Funs, args \in Seq(S) : FunCall(f, args) \in Over(S)
  BY DEF Over, FunCall
<1>3. \A op \in AllOps, l \in S, r \in S : Binop(op, l, r) \in Over(S)
  BY DEF Over, Binop, AllOps
<1>4. \A op \in {"neg", "not"}, e \in S : Monop(op, e) \in Over(S)
  BY DEF Over, Monop
<1>5. \A t \in Basic, e \in S : TypeCast(t, e) \in Over(S)
  BY DEF Over, TypeCast
<1> QED BY <1>1, <1>2, <1>3, <1>4, <1>5

(* Literals are expressions of any depth.                                  *)
LEMMA Literal ==
  /\ \A t \in Basic, v \in Int : (t = "bool" => v \in {0, 1}) => Lit(t, v) \in Leaf
  /\ Crash \in Leaf
BY DEF Lit, Leaf, Basic

(* A folded operation is the operation, a literal or the end of the        *)
(* compiler.                                                               *)
LEMMA FoldedNode ==
  ASSUME NEW l \in Expr, NEW r \in Expr
  PROVE  /\ \A op \in AllOps : CFbinop(op, l, r) = Binop(op, l, r) \/ CFbinop(op, l, r) \in Leaf
         /\ \A op \in {"neg", "not"} : CFmonop(op, l) = Monop(op, l) \/ CFmonop(op, l) \in Leaf
         /\ \A t \in Basic : CFtypecast(t, l) = TypeCast(t, l) \/ CFtypecast(t, l) \in Leaf
<1>0. HasShape(l) /\ HasShape(r)
  BY Shape
<1>1. ASSUME NEW op \in AllOps PROVE CFbinop(op, l, r) = Binop(op, l, r) \/ CFbinop(op, l, r) \in Leaf
  <2> SUFFICES ASSUME Literals(l, r), Foldable(l.t, op), ~(op \in {"div", "mod"} /\ r.v = 0),
                      ~NoValue(l.t, op, l.v, r.v)
               PROVE  CFbinop(op, l, r) \in Leaf
    BY Literal DEF CFbinop
  <2>1. /\ l.t \in Basic /\ l.v \in Int /\ r.v \in Int /\ (op \in {"div", "mod"} => r.v # 0)
    BY <1>0 DEF HasShape, Literals
  <2>2. /\ ResultType(op, l.t) \in Basic
        /\ OpOf(l.t, op, l.v, r.v) \in Int
        /\ ResultType(op, l.t) = "bool" => OpOf(l.t, op, l.v, r.v) \in {0, 1}
    BY <2>1, FoldedValue
  <2>3. CFbinop(op, l, r) = Lit(ResultType(op, l.t), OpOf(l.t, op, l.v, r.v))
    BY DEF CFbinop
  <2> QED BY <2>2, <2>3, Literal
<1>2. ASSUME NEW op \in {"neg", "not"} PROVE CFmonop(op, l) = Monop(op, l) \/ CFmonop(op, l) \in Leaf
  <2>1. CASE l.is # "lit"
    BY <2>1 DEF CFmonop
  <2>2. CASE l.is = "lit"
    <3>1. l.v \in Int /\ 0 - l.v \in Int /\ Wrap(0 - l.v) \in Int /\ (l.t = "bool" => 1 - l.v \in {0, 1} /\ 1 - l.v \in Int)
      BY <1>0, <2>2, WrapInt DEF HasShape
    <3>2. "int" \in Basic /\ "float" \in Basic /\ "bool" \in Basic
      BY DEF Basic, Numeric
    <3> QED BY <2>2, <3>1, <3>2, Literal DEF CFmonop
  <2> QED BY <2>1, <2>2
<1>3. ASSUME NEW t \in Basic PROVE CFtypecast(t, l) = TypeCast(t, l) \/ CFtypecast(t, l) \in Leaf
  <2>1. CASE l.is # "lit"
    BY <2>1 DEF CFtypecast
  <2>2. CASE l.is = "lit"
    <3>1. l.t \in Basic /\ l.v \in Int /\ (l.t = "bool" => l.v \in {0, 1})
      BY <1>0, <2>2 DEF HasShape
    <3>2. Converted(l.t, t, l.v) \in Int /\ (t = "bool" => Converted(l.t, t, l.v) \in {0, 1})
      BY <3>1, ConvertedValue
    <3> QED BY <2>2, <3>2, Literal DEF CFtypecast
  <2> QED BY <2>1, <2>2
<1> QED BY <1>1, <1>2, <1>3

(* Folding does not nest deeper.                                           *)
LEMMA FoldedIsExpr ==
  ASSUME NEW n \in 0..Depth, NEW e \in Nested[n]
  PROVE  CF[e] \in Nested[n]
<1> DEFINE B == {m \in 0..Depth : \A x \in Nested[m] : CF[x] \in Nested[m]}
<1>1. 0..Depth \subseteq B
  <2> SUFFICES ASSUME NEW m \in 0..Depth, m > 0 => m - 1 \in B, NEW x \in Nested[m]
               PROVE  CF[x] \in Nested[m]
    BY LevelInduction
  <2>0. x \in Expr /\ HasShape(x) /\ FoldRule(x)
    BY PartsBelow, Shape, FoldOf
  <2>1. CASE x.is \in {"lit", "varref", "crash"}
    BY <2>0, <2>1 DEF FoldRule
  <2>2. CASE x.is \notin {"lit", "varref", "crash"}
    <3>1. m > 0 /\ m \in 1..Depth /\ m - 1 \in 0..Depth
      <4>1. x \notin Leaf
        BY <2>2 DEF Leaf, Crash
      <4>2. m > 0
        BY <4>1, PartsBelow
      <4> QED BY <4>2, DepthAssumption
    <3>2. Nested[m] = Leaf \cup Over(Nested[m - 1])
      BY <3>1, NestedStep
    <3>3. \A c \in Parts(x) : c \in Nested[m - 1] /\ CF[c] \in Nested[m - 1]
      BY <3>1, PartsBelow
    <3>4. Nested[m - 1] \subseteq Expr
      BY <3>1, PartsBelow
    <3> DEFINE T == Nested[m - 1]
    <3> HIDE DEF B, T
    <3>5. CASE x.is = "element"
      <4>1. CF[x] = Element(x.x, CF[x.i]) /\ x.x \in Vars /\ CF[x.i] \in T
        BY <2>0, <3>3, <3>5 DEF HasShape, FoldRule, T
      <4> QED BY <3>2, <4>1, Overs DEF T
    <3>6. CASE x.is = "funcall"
      <4>1. x.args \in Seq(Expr) /\ x.f \in Funs /\ CF[x] = FunCall(x.f, [k \in DOMAIN x.args |-> CF[x.args[k]]])
        BY <2>0, <3>6 DEF HasShape, FoldRule
      <4>2. \A k \in DOMAIN x.args : CF[x.args[k]] \in T
        BY <2>0, <3>3, <3>6 DEF HasShape, T
      <4>3. [k \in DOMAIN x.args |-> CF[x.args[k]]] \in Seq(T)
        BY <4>1, <4>2
      <4> QED BY <3>2, <4>1, <4>3, Overs DEF T
    <3>7. CASE x.is = "binop"
      <4>1. CF[x] = CFbinop(x.op, CF[x.l], CF[x.r]) /\ x.op \in AllOps /\ CF[x.l] \in T /\ CF[x.r] \in T
        BY <2>0, <3>3, <3>7 DEF HasShape, FoldRule, T, AllOps
      <4>2. CF[x] = Binop(x.op, CF[x.l], CF[x.r]) \/ CF[x] \in Leaf
        BY <3>4, <4>1, FoldedNode DEF T
      <4> QED BY <3>2, <4>1, <4>2, Overs DEF T
    <3>8. CASE x.is = "monop"
      <4>1. CF[x] = CFmonop(x.op, CF[x.e]) /\ x.op \in {"neg", "not"} /\ CF[x.e] \in T
        BY <2>0, <3>3, <3>8 DEF HasShape, FoldRule, T
      <4>2. CF[x] = Monop(x.op, CF[x.e]) \/ CF[x] \in Leaf
        BY <3>4, <4>1, FoldedNode DEF T
      <4> QED BY <3>2, <4>1, <4>2, Overs DEF T
    <3>9. CASE x.is = "typecast"
      <4>1. CF[x] = CFtypecast(x.t, CF[x.e]) /\ x.t \in Basic /\ CF[x.e] \in T
        BY <2>0, <3>3, <3>9 DEF HasShape, FoldRule, T
      <4>2. CF[x] = TypeCast(x.t, CF[x.e]) \/ CF[x] \in Leaf
        BY <3>4, <4>1, FoldedNode DEF T
      <4> QED BY <3>2, <4>1, <4>2, Overs DEF T
    <3> QED BY <2>0, <2>2, <3>5, <3>6, <3>7, <3>8, <3>9 DEF HasShape
  <2> QED BY <2>1, <2>2
<1> HIDE DEF B
<1> QED BY <1>1 DEF B

(* Folding makes an expression.                                            *)
LEMMA FoldedInExpr == \A e \in Expr : CF[e] \in Expr
<1>1. Depth \in 0..Depth
  BY DepthAssumption
<1> QED BY <1>1, FoldedIsExpr DEF Expr

(* The type and the dimensions of a node.                                  *)
HasType(e, t, d) == TYC[e].t = t /\ TYC[e].d = d
TdRule(e) ==
  /\ e.is \in {"lit", "crash"} => HasType(e, e.t, 0)
  /\ e.is = "varref" => HasType(e, VarType[e.x].type, VarType[e.x].dim)
  /\ e.is = "element" => HasType(e, VarType[e.x].type, 0)
  /\ e.is = "funcall" => HasType(e, FunType[e.f].type, 0)
  /\ e.is = "binop" => HasType(e, ResultType(e.op, TYC[e.l].t), 0)
  /\ e.is = "monop" => HasType(e, IF e.op = "not" THEN "bool" ELSE TYC[e.e].t, 0)
  /\ e.is = "typecast" => HasType(e, e.t, 0)

(* Type and dimensions, by the kind.                                       *)
LEMMA TdOf == \A e \in Expr : TdRule(e)
<1> SUFFICES ASSUME NEW e \in Expr PROVE TdRule(e)
  OBVIOUS
<1>1. TypeRule(e)
  BY TypeOf
<1>2. e.is \in {"lit", "crash"} => HasType(e, e.t, 0)
  BY <1>1 DEF TypeRule, Typed, HasType
<1>3. e.is = "varref" => HasType(e, VarType[e.x].type, VarType[e.x].dim)
  BY <1>1 DEF TypeRule, Typed, HasType, TYCvarref
<1>4. e.is = "element" => HasType(e, VarType[e.x].type, 0)
  BY <1>1 DEF TypeRule, Typed, HasType, TYCelement
<1>5. e.is = "funcall" => HasType(e, FunType[e.f].type, 0)
  BY <1>1 DEF TypeRule, Typed, HasType, TYCfuncall
<1>6. e.is = "binop" => HasType(e, ResultType(e.op, TYC[e.l].t), 0)
  BY <1>1 DEF TypeRule, Typed, HasType, TYCbinop, ResultType
<1>7. e.is = "monop" => HasType(e, IF e.op = "not" THEN "bool" ELSE TYC[e.e].t, 0)
  BY <1>1 DEF TypeRule, Typed, HasType, TYCmonop
<1>8. e.is = "typecast" => HasType(e, e.t, 0)
  BY <1>1 DEF TypeRule, Typed, HasType, TYCtypecast
<1> QED BY <1>2, <1>3, <1>4, <1>5, <1>6, <1>7, <1>8 DEF TdRule

(* The parts of what folding leaves in place are the folded parts.         *)
LEMMA FoldedParts ==
  ASSUME NEW e \in Expr
  PROVE  \/ Parts(CF[e]) = {} /\ CF[e].is \in {"lit", "varref", "crash"}
         \/ Parts(CF[e]) = {CF[c] : c \in Parts(e)} /\ CF[e].is = e.is
<1>0. HasShape(e) /\ FoldRule(e) /\ CF[e] \in Expr /\ HasShape(CF[e])
  BY Shape, FoldOf, FoldedInExpr
<1> DEFINE q == CF[e]
<1>1. CASE e.is \in {"lit", "varref", "crash"}
  BY <1>0, <1>1 DEF HasShape, FoldRule
<1>2. CASE q \in Leaf
  BY <1>2 DEF Leaf, Parts, Crash
<1>3. CASE e.is = "element"
  BY <1>0, <1>3 DEF HasShape, FoldRule, Element, Parts
<1>4. CASE e.is = "funcall"
  <2>1. q = FunCall(e.f, [k \in DOMAIN e.args |-> CF[e.args[k]]])
    BY <1>0, <1>4 DEF FoldRule
  <2>2. Parts(q) = {CF[e.args[k]] : k \in DOMAIN e.args} /\ q.is = e.is
    BY <1>4, <2>1 DEF Parts, FunCall
  <2>3. Parts(e) = {e.args[k] : k \in DOMAIN e.args}
    BY <1>0, <1>4 DEF HasShape
  <2> QED BY <2>2, <2>3
<1>5. CASE e.is = "binop"
  <2>1. CF[e.l] \in Expr /\ CF[e.r] \in Expr /\ e.op \in AllOps /\ Parts(e) = {e.l, e.r} /\ q = CFbinop(e.op, CF[e.l], CF[e.r])
    BY <1>0, <1>5, FoldedInExpr DEF HasShape, FoldRule, AllOps
  <2>2. q = Binop(e.op, CF[e.l], CF[e.r]) \/ q \in Leaf
    BY <2>1, FoldedNode
  <2>3. CASE q = Binop(e.op, CF[e.l], CF[e.r])
    BY <1>5, <2>1, <2>3 DEF Binop, Parts
  <2> QED BY <1>2, <2>2, <2>3
<1>6. CASE e.is = "monop"
  <2>1. CF[e.e] \in Expr /\ e.op \in {"neg", "not"} /\ Parts(e) = {e.e} /\ q = CFmonop(e.op, CF[e.e])
    BY <1>0, <1>6, FoldedInExpr DEF HasShape, FoldRule
  <2>2. q = Monop(e.op, CF[e.e]) \/ q \in Leaf
    BY <2>1, FoldedNode
  <2>3. CASE q = Monop(e.op, CF[e.e])
    BY <1>6, <2>1, <2>3 DEF Monop, Parts
  <2> QED BY <1>2, <2>2, <2>3
<1>7. CASE e.is = "typecast"
  <2>1. CF[e.e] \in Expr /\ e.t \in Basic /\ Parts(e) = {e.e} /\ q = CFtypecast(e.t, CF[e.e])
    BY <1>0, <1>7, FoldedInExpr DEF HasShape, FoldRule
  <2>2. q = TypeCast(e.t, CF[e.e]) \/ q \in Leaf
    BY <2>1, FoldedNode
  <2>3. CASE q = TypeCast(e.t, CF[e.e])
    BY <1>7, <2>1, <2>3 DEF TypeCast, Parts
  <2> QED BY <1>2, <2>2, <2>3
<1> QED BY <1>0, <1>1, <1>3, <1>4, <1>5, <1>6, <1>7 DEF HasShape

SameType(e, q) == TYC[q].ok /\ TYC[q].t = TYC[e].t /\ TYC[q].d = TYC[e].d

(* Folding keeps the type, the dimensions and what is accepted.            *)
LEMMA FoldKeepsTypes == \A e \in Expr : TYC[e].ok => SameType(e, CF[e])
<1> DEFINE S == {e \in Expr : TYC[e].ok => SameType(e, CF[e])}
<1>1. ASSUME NEW e \in Expr, Parts(e) \subseteq S PROVE e \in S
  <2> SUFFICES ASSUME TYC[e].ok PROVE SameType(e, CF[e])
    OBVIOUS
  <2>0. /\ HasShape(e) /\ TdRule(e) /\ OkRule(e) /\ FoldRule(e)
        /\ \A c \in Parts(e) : c \in Expr /\ CF[c] \in Expr /\ SameType(c, CF[c])
    BY <1>1, Shape, TdOf, OkOf, FoldOf, AcceptedSuits, FoldedInExpr
  <2> HIDE DEF S
  <2> DEFINE q == CF[e]
  <2>1. q \in Expr /\ TdRule(q) /\ OkRule(q)
    BY TdOf, OkOf, FoldedInExpr
  <2>2. CASE e.is \in {"lit", "varref", "crash"}
    BY <2>0, <2>2 DEF FoldRule, SameType
  <2>3. CASE e.is = "element"
    <3>1. q = Element(e.x, CF[e.i]) /\ SameType(e.i, CF[e.i])
      BY <2>0, <2>3 DEF FoldRule, HasShape
    <3>2. q.is = "element" /\ q.x = e.x /\ q.i = CF[e.i]
      BY <3>1 DEF Element
    <3> HIDE DEF q
    <3> QED BY <2>0, <2>1, <2>3, <3>1, <3>2 DEF SameType, TdRule, OkRule, HasType, q
  <2>4. CASE e.is = "funcall"
    <3>1. q = FunCall(e.f, [k \in DOMAIN e.args |-> CF[e.args[k]]])
      BY <2>0, <2>4 DEF FoldRule
    <3>2. q.is = "funcall" /\ q.f = e.f /\ q.args = [k \in DOMAIN e.args |-> CF[e.args[k]]]
      BY <3>1 DEF FunCall
    <3>3. DOMAIN q.args = DOMAIN e.args /\ Len(q.args) = Len(e.args)
      BY <2>0, <2>4, <3>2 DEF HasShape
    <3>4. \A k \in DOMAIN e.args : SameType(e.args[k], q.args[k])
      BY <2>0, <2>4, <3>2 DEF HasShape
    <3> HIDE DEF q
    <3>5. HasType(e, FunType[e.f].type, 0) /\ HasType(q, FunType[e.f].type, 0)
      BY <2>0, <2>1, <2>4, <3>2 DEF TdRule
    <3>6. /\ Len(e.args) = Len(FunType[e.f].params)
          /\ \A k \in DOMAIN e.args : /\ TYC[e.args[k]].t = FunType[e.f].params[k].type
                                      /\ TYC[e.args[k]].d = FunType[e.f].params[k].dim
      BY <2>0, <2>4 DEF OkRule
    <3>7. /\ \A k \in DOMAIN q.args : TYC[q.args[k]].ok
          /\ Len(q.args) = Len(FunType[q.f].params)
          /\ \A k \in DOMAIN q.args : /\ TYC[q.args[k]].t = FunType[q.f].params[k].type
                                      /\ TYC[q.args[k]].d = FunType[q.f].params[k].dim
      BY <3>2, <3>3, <3>4, <3>6, ZenonT(20) DEF SameType
    <3>8. TYC[q].ok
      BY <2>1, <3>2, <3>7 DEF OkRule
    <3> QED BY <3>5, <3>8 DEF SameType, HasType, q
  <2>5. CASE e.is = "binop"
    <3>1. q = CFbinop(e.op, CF[e.l], CF[e.r]) /\ SameType(e.l, CF[e.l]) /\ SameType(e.r, CF[e.r]) /\ CF[e.l] \in Expr
      BY <2>0, <2>5 DEF FoldRule, HasShape
    <3>2. HasType(e, ResultType(e.op, TYC[e.l].t), 0)
      BY <2>0, <2>5 DEF TdRule
    <3>3. CASE q = Binop(e.op, CF[e.l], CF[e.r])
      <4>1. q.is = "binop" /\ q.op = e.op /\ q.l = CF[e.l] /\ q.r = CF[e.r]
        BY <3>3 DEF Binop
      <4> HIDE DEF q
      <4>2. HasType(q, ResultType(e.op, TYC[CF[e.l]].t), 0)
        BY <2>1, <4>1 DEF TdRule
      <4>3. TYC[q].ok
        BY <2>0, <2>1, <2>5, <3>1, <4>1 DEF SameType, OkRule
      <4> QED BY <3>1, <3>2, <4>2, <4>3 DEF SameType, HasType, q
    <3>4. CASE q # Binop(e.op, CF[e.l], CF[e.r])
      <4>1. CF[e.l].is = "lit" /\ TYC[CF[e.l]].t = CF[e.l].t
        BY <3>1, <3>4, TdOf DEF CFbinop, Literals, TdRule, HasType
      <4>2. TYC[e.l].t = CF[e.l].t
        BY <3>1, <4>1 DEF SameType
      <4>3. CASE q = Crash
        <5>1. e.op \in {"div", "mod"} /\ CF[e.l].t = "int"
          <6>1. ~(e.op \in {"div", "mod"} /\ CF[e.r].v = 0) /\ NoValue(CF[e.l].t, e.op, CF[e.l].v, CF[e.r].v)
            BY <3>1, <3>4, <4>3 DEF CFbinop, Crash, Lit
          <6> QED BY <6>1 DEF NoValue
        <5>2. TYC[q].ok /\ HasType(q, "int", 0)
          BY <2>1, <4>3 DEF TdRule, OkRule, Crash
        <5> QED BY <3>2, <4>2, <5>1, <5>2 DEF SameType, HasType, ResultType, Arith
      <4>4. CASE q # Crash
        <5>1. q = Lit(ResultType(e.op, CF[e.l].t), OpOf(CF[e.l].t, e.op, CF[e.l].v, CF[e.r].v))
          BY <3>1, <3>4, <4>4 DEF CFbinop
        <5>2. q.is = "lit" /\ q.t = ResultType(e.op, CF[e.l].t)
          BY <5>1 DEF Lit
        <5> HIDE DEF q
        <5>3. TYC[q].ok /\ HasType(q, q.t, 0)
          BY <2>1, <5>2 DEF TdRule, OkRule
        <5> QED BY <3>2, <4>2, <5>2, <5>3 DEF SameType, HasType, q
      <4> QED BY <4>3, <4>4
    <3> QED BY <3>3, <3>4
  <2>6. CASE e.is = "monop"
    <3>1. q = CFmonop(e.op, CF[e.e]) /\ SameType(e.e, CF[e.e]) /\ CF[e.e] \in Expr /\ e.op \in {"neg", "not"}
      BY <2>0, <2>6 DEF FoldRule, HasShape
    <3>2. HasType(e, IF e.op = "not" THEN "bool" ELSE TYC[e.e].t, 0)
      BY <2>0, <2>6 DEF TdRule
    <3>3. CASE q = Monop(e.op, CF[e.e])
      <4>1. q.is = "monop" /\ q.op = e.op /\ q.e = CF[e.e]
        BY <3>3 DEF Monop
      <4> HIDE DEF q
      <4>2. HasType(q, IF e.op = "not" THEN "bool" ELSE TYC[CF[e.e]].t, 0)
        BY <2>1, <4>1 DEF TdRule
      <4>3. TYC[q].ok
        BY <2>0, <2>1, <2>6, <3>1, <4>1 DEF SameType, OkRule
      <4> QED BY <3>1, <3>2, <4>2, <4>3 DEF SameType, HasType, q
    <3>4. CASE q # Monop(e.op, CF[e.e])
      <4>1. CF[e.e].is = "lit" /\ TYC[CF[e.e]].t = CF[e.e].t
        BY <3>1, <3>4, TdOf DEF CFmonop, TdRule, HasType
      <4>2. TYC[e.e].t = CF[e.e].t
        BY <3>1, <4>1 DEF SameType
      <4>3. q.is = "lit" /\ q.t = IF e.op = "not" THEN "bool" ELSE CF[e.e].t
        BY <3>1, <3>4, <4>1 DEF CFmonop, Lit
      <4> HIDE DEF q
      <4>4. TYC[q].ok /\ HasType(q, q.t, 0)
        BY <2>1, <4>3 DEF TdRule, OkRule
      <4> QED BY <3>2, <4>2, <4>3, <4>4 DEF SameType, HasType, q
    <3> QED BY <3>3, <3>4
  <2>7. CASE e.is = "typecast"
    <3>1. q = CFtypecast(e.t, CF[e.e]) /\ SameType(e.e, CF[e.e])
      BY <2>0, <2>7 DEF FoldRule, HasShape
    <3>2. HasType(e, e.t, 0)
      BY <2>0, <2>7 DEF TdRule
    <3>3. CASE q = TypeCast(e.t, CF[e.e])
      <4>1. q.is = "typecast" /\ q.t = e.t /\ q.e = CF[e.e]
        BY <3>3 DEF TypeCast
      <4> HIDE DEF q
      <4>2. HasType(q, e.t, 0)
        BY <2>1, <4>1 DEF TdRule
      <4>3. TYC[q].ok
        BY <2>0, <2>1, <2>7, <3>1, <4>1 DEF SameType, OkRule
      <4> QED BY <3>2, <4>2, <4>3 DEF SameType, HasType, q
    <3>4. CASE q # TypeCast(e.t, CF[e.e])
      <4>1. q.is = "lit" /\ q.t = e.t
        BY <3>1, <3>4 DEF CFtypecast, Lit
      <4> HIDE DEF q
      <4> QED BY <2>1, <3>2, <4>1 DEF SameType, HasType, TdRule, OkRule, q
    <3> QED BY <3>3, <3>4
  <2> QED BY <2>0, <2>2, <2>3, <2>4, <2>5, <2>6, <2>7 DEF HasShape
<1> HIDE DEF S
<1>2. Expr \subseteq S
  BY <1>1, ExprInduction
<1> QED BY <1>2 DEF S

(* What folding leaves in place is the same operation on the folded parts. *)
Folded(e, q) ==
  /\ q.is = e.is
  /\ e.is = "element" => q.x = e.x /\ q.i = CF[e.i]
  /\ e.is = "funcall" => q.f = e.f /\ q.args = [k \in DOMAIN e.args |-> CF[e.args[k]]]
  /\ e.is = "binop" => q.op = e.op /\ q.l = CF[e.l] /\ q.r = CF[e.r]
  /\ e.is = "monop" => q.op = e.op /\ q.e = CF[e.e]
  /\ e.is = "typecast" => q.t = e.t /\ q.e = CF[e.e]

(* What folding leaves in place.                                           *)
LEMMA FoldedFields ==
  \A e \in Expr : CF[e].is \notin {"lit", "varref", "crash"} => Folded(e, CF[e])
<1> SUFFICES ASSUME NEW e \in Expr, CF[e].is \notin {"lit", "varref", "crash"} PROVE Folded(e, CF[e])
  OBVIOUS
<1>0. HasShape(e) /\ FoldRule(e)
  BY Shape, FoldOf
<1>1. CASE e.is \in {"lit", "varref", "crash"}
  BY <1>0, <1>1 DEF FoldRule
<1>2. CASE e.is = "element"
  BY <1>0, <1>2 DEF FoldRule, Folded, Element
<1>3. CASE e.is = "funcall"
  <2>1. CF[e] = FunCall(e.f, [k \in DOMAIN e.args |-> CF[e.args[k]]])
    BY <1>0, <1>3 DEF FoldRule
  <2> QED BY <1>3, <2>1 DEF FunCall, Folded
<1>4. CASE e.is = "binop"
  BY <1>0, <1>4 DEF FoldRule, CFbinop, Crash, Lit, Binop, Folded
<1>5. CASE e.is = "monop"
  BY <1>0, <1>5 DEF FoldRule, CFmonop, Lit, Monop, Folded
<1>6. CASE e.is = "typecast"
  BY <1>0, <1>6 DEF FoldRule, CFtypecast, Lit, TypeCast, Folded
<1> QED BY <1>0, <1>1, <1>2, <1>3, <1>4, <1>5, <1>6 DEF HasShape

(* Folding keeps the rules.                                                *)
LEMMA FoldKeepsRules == \A e \in Expr : TYC[e].ok /\ Ruly(e) => Ruly(CF[e])
<1> DEFINE S == {e \in Expr : TYC[e].ok /\ Ruly(e) => Ruly(CF[e])}
<1>1. ASSUME NEW e \in Expr, Parts(e) \subseteq S PROVE e \in S
  <2> SUFFICES ASSUME TYC[e].ok, Ruly(e) PROVE Ruly(CF[e])
    OBVIOUS
  <2>0. /\ HasShape(e) /\ ~Unruly(e)
        /\ \A c \in Parts(e) : c \in Expr /\ Ruly(CF[c]) /\ SameType(c, CF[c])
    BY <1>1, Shape, AcceptedSuits, RulyParts, FoldKeepsTypes
  <2> HIDE DEF S
  <2>1. CF[e] \in Expr
    BY FoldedInExpr
  <2>2. ~Unruly(CF[e])
    <3>1. CASE CF[e].is \in {"lit", "varref", "crash"}
      BY <3>1 DEF Unruly
    <3>2. CASE CF[e].is \notin {"lit", "varref", "crash"}
      <4>1. Folded(e, CF[e])
        BY <3>2, FoldedFields
      <4>2. CASE e.is = "element"
        BY <2>0, <4>1, <4>2 DEF Folded, Unruly, Array, SameType, HasShape
      <4>3. CASE e.is = "typecast"
        BY <2>0, <4>1, <4>3 DEF Folded, Unruly, Array, SameType, HasShape
      <4>4. CASE e.is = "binop"
        BY <2>0, <4>1, <4>4 DEF Folded, Unruly, Array, SameType, HasShape
      <4>5. CASE e.is \notin {"element", "typecast", "binop"}
        BY <4>1, <4>5 DEF Folded, Unruly
      <4> QED BY <4>2, <4>3, <4>4, <4>5
    <3> QED BY <3>1, <3>2
  <2>3. \A p \in Parts(CF[e]) : Ruly(p)
    BY <2>0, FoldedParts
  <2> QED BY <2>1, <2>2, <2>3, NodesOf DEF Ruly
<1> HIDE DEF S
<1>2. Expr \subseteq S
  BY <1>1, ExprInduction
<1> QED BY <1>2 DEF S

(* What keeps an operation from being folded: a variable, a call, or a     *)
(* division by zero.                                                       *)
Stuck(m) ==
  \E n \in Nodes[m] : \/ n.is \in {"varref", "funcall", "element", "crash"}
                      \/ n.is = "binop" /\ n.op \in {"div", "mod"} /\ n.r = Lit(TYC[n.r].t, 0)

(* What TypeCheck accepts of an operator CF can fold.                      *)
LEMMA SuitableIsFoldable ==
  ASSUME NEW e \in Expr, e.is = "binop", TYC[e].ok, Ruly(e)
  PROVE  Foldable(TYC[e.l].t, e.op) /\ TYC[e.l].t = TYC[e.r].t
<1>1. HasShape(e) /\ OkRule(e) /\ ~Unruly(e)
  BY Shape, OkOf, RulyParts
<1>2. TYC[e.l].t \in Basic \cup {"void"}
  BY <1>1, TypesAreTypes DEF HasShape
<1>3. /\ TYC[e.l].t = TYC[e.r].t
      /\ e.op \in Arith \cup Order => TYC[e.l].t \in Numeric \/ (e.op \in {"add", "mul"} /\ TYC[e.l].t = "bool")
      /\ e.op \in {"and", "or"} => TYC[e.l].t = "bool"
      /\ ~(e.op = "mod" /\ TYC[e.l].t = "float") /\ ~(e.op \in Equality /\ TYC[e.l].t = "void")
      /\ e.op \in Arith \cup Order \cup Equality \cup {"and", "or"}
  BY <1>1 DEF OkRule, Unruly, HasShape
<1> QED BY <1>2, <1>3 DEF Foldable, Basic, Numeric, Arith, Order, Equality

(* A node that is left is a literal, or contains what is not constant.     *)
LEMMA FoldsCompletely ==
  \A e \in Expr : TYC[e].ok /\ Ruly(e) => \A m \in Nodes[CF[e]] : m.is = "lit" \/ Stuck(m)
<1> DEFINE S == {e \in Expr : TYC[e].ok /\ Ruly(e) => \A m \in Nodes[CF[e]] : m.is = "lit" \/ Stuck(m)}
<1>1. ASSUME NEW e \in Expr, Parts(e) \subseteq S PROVE e \in S
  <2> SUFFICES ASSUME TYC[e].ok, Ruly(e) PROVE \A m \in Nodes[CF[e]] : m.is = "lit" \/ Stuck(m)
    OBVIOUS
  <2>0. /\ HasShape(e) /\ FoldRule(e)
        /\ \A c \in Parts(e) : /\ c \in Expr /\ CF[c] \in Expr /\ SameType(c, CF[c])
                               /\ \A m \in Nodes[CF[c]] : m.is = "lit" \/ Stuck(m)
    BY <1>1, Shape, FoldOf, AcceptedSuits, RulyParts, FoldKeepsTypes, FoldedInExpr
  <2> HIDE DEF S
  <2>1. CF[e] \in Expr
    BY FoldedInExpr
  <2>2. /\ CF[e] \in Nodes[CF[e]]
        /\ \A p \in Parts(CF[e]) : Nodes[p] \subseteq Nodes[CF[e]]
        /\ \A n \in Nodes[CF[e]] : n = CF[e] \/ \E p \in Parts(CF[e]) : n \in Nodes[p]
    BY <2>1, NodesOf
  <2>3. \A c \in Parts(e) : CF[c].is = "lit" \/ Stuck(CF[c])
    BY <2>0, NodesOf
  <2>4. CF[e].is = "lit" \/ Stuck(CF[e])
    <3> SUFFICES ASSUME CF[e].is \in {"binop", "monop", "typecast"} PROVE Stuck(CF[e])
      BY <2>1, <2>2, Shape DEF Stuck, HasShape
    <3>1. Folded(e, CF[e])
      BY FoldedFields
    <3>2. Parts(CF[e]) = {CF[c] : c \in Parts(e)}
      BY FoldedParts
    <3>3. ASSUME NEW c \in Parts(e), Stuck(CF[c]) PROVE Stuck(CF[e])
      BY <2>2, <3>2, <3>3 DEF Stuck
    <3>4. CASE e.is = "binop"
      <4>1. /\ CF[e] = CFbinop(e.op, CF[e.l], CF[e.r]) /\ CF[e].op = e.op /\ CF[e].r = CF[e.r]
            /\ e.l \in Parts(e) /\ e.r \in Parts(e)
        BY <2>0, <3>1, <3>4 DEF FoldRule, Folded, HasShape
      <4>2. SUFFICES ASSUME CF[e.l].is = "lit", CF[e.r].is = "lit" PROVE Stuck(CF[e])
        BY <2>3, <3>3, <4>1
      <4>3. HasShape(CF[e.l]) /\ HasShape(CF[e.r]) /\ TdRule(CF[e.l]) /\ TdRule(CF[e.r])
        BY <2>0, <4>1, Shape, TdOf
      <4>4. CF[e.l].t = TYC[e.l].t /\ CF[e.r].t = TYC[e.r].t /\ TYC[CF[e.r]].t = CF[e.r].t
        BY <2>0, <4>1, <4>2, <4>3 DEF TdRule, HasType, SameType
      <4>5. Foldable(TYC[e.l].t, e.op) /\ TYC[e.l].t = TYC[e.r].t
        BY <3>4, SuitableIsFoldable
      <4>6. e.op \in {"div", "mod"} /\ CF[e.r].v = 0
        <5> SUFFICES ASSUME ~(e.op \in {"div", "mod"} /\ CF[e.r].v = 0) PROVE FALSE
          OBVIOUS
        <5>1. CF[e].is \in {"lit", "crash"}
          BY <4>1, <4>2, <4>4, <4>5 DEF CFbinop, Literals, Crash, Lit
        <5> QED BY <5>1
      <4>7. CF[e.r] = Lit(TYC[CF[e.r]].t, 0)
        BY <4>2, <4>3, <4>4, <4>6 DEF HasShape
      <4> QED BY <2>2, <3>1, <3>4, <4>1, <4>6, <4>7 DEF Stuck, Folded
    <3>5. CASE e.is = "monop"
      <4>1. CF[e] = CFmonop(e.op, CF[e.e]) /\ e.e \in Parts(e)
        BY <2>0, <3>5 DEF FoldRule, HasShape
      <4>2. SUFFICES ASSUME CF[e.e].is = "lit" PROVE FALSE
        BY <2>3, <3>3, <4>1
      <4>3. CF[e.e].t = TYC[e.e].t
        BY <2>0, <4>1, <4>2, TdOf DEF TdRule, HasType, SameType
      <4>4. OkRule(e) /\ e.op \in {"neg", "not"}
        BY <2>0, <3>5, OkOf DEF HasShape
      <4>5. CF[e].is = "lit"
        BY <3>5, <4>1, <4>2, <4>3, <4>4 DEF OkRule, CFmonop, Lit, Numeric
      <4> QED BY <4>5
    <3>6. CASE e.is = "typecast"
      <4>1. CF[e] = CFtypecast(e.t, CF[e.e]) /\ e.e \in Parts(e)
        BY <2>0, <3>6 DEF FoldRule, HasShape
      <4>2. SUFFICES ASSUME CF[e.e].is = "lit" PROVE FALSE
        BY <2>3, <3>3, <4>1
      <4> QED BY <4>1, <4>2 DEF CFtypecast, Lit
    <3> QED BY <3>1, <3>4, <3>5, <3>6 DEF Folded
  <2>5. \A p \in Parts(CF[e]) : \A m \in Nodes[p] : m.is = "lit" \/ Stuck(m)
    BY <2>0, FoldedParts
  <2> QED BY <2>2, <2>4, <2>5
<1> HIDE DEF S
<1>2. Expr \subseteq S
  BY <1>1, ExprInduction
<1> QED BY <1>2 DEF S

LeastByMinusOne(n) == /\ n.is = "binop" /\ n.op \in {"div", "mod"}
                      /\ CF[n.l] = Lit("int", MinInt) /\ CF[n.r] = Lit("int", 0 - 1)

(* Only the least integer divided by -1 ends the compiler.                 *)
LEMMA CrashesByLeast ==
  \A e \in Expr : Crash \in Nodes[CF[e]] => Crash \in Nodes[e] \/ \E n \in Nodes[e] : LeastByMinusOne(n)
<1> DEFINE P(e) == Crash \in Nodes[CF[e]] => Crash \in Nodes[e] \/ \E n \in Nodes[e] : LeastByMinusOne(n)
           S == {e \in Expr : P(e)}
<1>1. ASSUME NEW e \in Expr, Parts(e) \subseteq S PROVE e \in S
  <2> SUFFICES ASSUME Crash \in Nodes[CF[e]]
               PROVE  Crash \in Nodes[e] \/ \E n \in Nodes[e] : LeastByMinusOne(n)
    OBVIOUS
  <2>0. HasShape(e) /\ FoldRule(e) /\ CF[e] \in Expr
    BY Shape, FoldOf, FoldedInExpr
  <2>1. /\ e \in Nodes[e]
        /\ \A c \in Parts(e) : Nodes[c] \subseteq Nodes[e]
    BY NodesOf
  <2>2. \A c \in Parts(e) : P(c)
    BY <1>1
  <2> HIDE DEF S
  <2>3. Crash = CF[e] \/ \E p \in Parts(CF[e]) : Crash \in Nodes[p]
    BY <2>0, NodesOf
  <2>4. CASE \E p \in Parts(CF[e]) : Crash \in Nodes[p]
    <3>1. PICK c \in Parts(e) : Crash \in Nodes[CF[c]]
      BY <2>4, FoldedParts
    <3> QED BY <2>1, <2>2, <3>1
  <2>5. CASE CF[e] = Crash
    <3>1. CASE e.is = "crash"
      BY <2>0, <2>1, <3>1 DEF HasShape
    <3>2. CASE e.is # "crash"
      <4>1. CF[e] = CFbinop(e.op, CF[e.l], CF[e.r]) /\ e.is = "binop" /\ e.l \in Expr /\ e.r \in Expr
        BY <2>0, <2>5, <3>2 DEF HasShape, FoldRule, Crash, Element, FunCall, CFmonop, Monop, CFtypecast, TypeCast, Lit
      <4>2. Literals(CF[e.l], CF[e.r]) /\ ~(e.op \in {"div", "mod"} /\ CF[e.r].v = 0)
            /\ NoValue(CF[e.l].t, e.op, CF[e.l].v, CF[e.r].v)
        BY <2>5, <4>1 DEF CFbinop, Crash, Binop, Lit
      <4>3. HasShape(CF[e.l]) /\ HasShape(CF[e.r])
        BY <4>1, FoldedInExpr, Shape
      <4>4. LeastByMinusOne(e)
        BY <4>1, <4>2, <4>3 DEF Literals, NoValue, LeastByMinusOne, HasShape
      <4> QED BY <2>1, <4>4
    <3> QED BY <3>1, <3>2
  <2> QED BY <2>3, <2>4, <2>5
<1> HIDE DEF S, P
<1>2. Expr \subseteq S
  BY <1>1, ExprInduction
<1> QED BY <1>2 DEF S, P
-----------------------------------------------------------------------------
(* The compiler decides before the machine starts, and nothing changes it. *)
Decided ==
  /\ program \in Programs /\ folds \in BOOLEAN
  /\ status = "rejected" <=> ~Accepted(program)
  /\ status = "crashed" => Crash \in Nodes[Optimized(program.e)]
  /\ status \notin {"rejected", "crashed"} => Crash \notin Nodes[Optimized(program.e)]

(* Decided holds in every state.                                           *)
LEMMA DecidedInvariant == Spec => []Decided
<1>1. Init => Decided
  BY DEF Init, Decided
<1>2. Decided /\ [Next]_vars => Decided'
  <2> SUFFICES ASSUME Decided, [Next]_vars PROVE Decided'
    OBVIOUS
  <2>1. CASE UNCHANGED vars
    BY <2>1 DEF vars, Decided, Optimized
  <2>2. CASE Load \/ Compute \/ Jump \/ Jsr
    <3>1. UNCHANGED <<program, folds, status>>
      BY <2>2 DEF Load, Compute, Jump, Jsr, Go
    <3> QED BY <3>1 DEF Decided, Optimized
  <2>3. CASE Stop
    <3>1. UNCHANGED <<program, folds>> /\ status = "running" /\ status' \in {"misfit", "done", "undefined"}
      BY <2>3 DEF Stop, Running
    <3> QED BY <3>1 DEF Decided, Optimized
  <2> QED BY <2>1, <2>2, <2>3 DEF Next
<1> QED BY <1>1, <1>2, PTL DEF Spec

(* TypeCheck accepts what is well typed, and beyond the rules only what is *)
(* listed, for every expression of every program.                          *)
THEOREM TypeCheckAlwaysFollowsRules == Spec => []TypeCheckFollowsRules
<1>1. Decided => TypeCheckFollowsRules
  BY WellTypedIsAccepted DEF Decided, TypeCheckFollowsRules
<1> QED BY <1>1, DecidedInvariant, PTL

(* Folding computes everything that is constant, and ends the compiler in  *)
(* one case only, for every expression, width and unit of the numbers.     *)
THEOREM FoldingIsAlwaysComplete == Spec => []FoldingIsComplete
<1>1. Decided => ConstantsAreFolded
  <2> SUFFICES ASSUME Decided, status # "rejected", folds, FollowsRules(program),
                      NEW e \in Nodes[CF[program.e]]
               PROVE  \/ e.is \in {"lit", "varref", "funcall", "element", "crash"}
                      \/ \E n \in Nodes[e] : n.is \in {"varref", "funcall", "element", "crash"}
                      \/ \E n \in Nodes[e] : n.is = "binop" /\ n.op \in {"div", "mod"} /\ n.r = Lit(TYC[n.r].t, 0)
    BY DEF ConstantsAreFolded
  <2>1. program.e \in Expr /\ TYC[program.e].ok /\ Ruly(program.e)
    BY ProgramsAssumption, WellTypedIsAccepted DEF Decided, FollowsRules, Ruly
  <2>2. e.is = "lit" \/ Stuck(e)
    BY <2>1, FoldsCompletely
  <2> QED BY <2>2 DEF Stuck
<1>2. Decided => OnlyLeastIntegerCrashes
  <2> SUFFICES ASSUME Decided, status = "crashed"
               PROVE  \E e \in Nodes[program.e] : LeastByMinusOne(e)
    BY DEF OnlyLeastIntegerCrashes, LeastByMinusOne
  <2>1. program.e \in Expr /\ Crash \notin Nodes[program.e] /\ Crash \in Nodes[Optimized(program.e)]
    BY ProgramsAssumption DEF Decided
  <2>2. Crash \in Nodes[CF[program.e]]
    BY <2>1 DEF Optimized
  <2> QED BY <2>1, <2>2, CrashesByLeast
<1> QED BY <1>1, <1>2, DecidedInvariant, PTL DEF FoldingIsComplete
-----------------------------------------------------------------------------
(* The meaning of an expression.                                           *)
MeaningFrom(e, meant, values, made) ==
  [used \in Nat |-> MeaningOfNode(e, meant, values, made, used)]

(* The meaning of a node looks at its parts only.                          *)
LEMMA MeaningLocal ==
  ASSUME NEW e \in Expr, NEW g, NEW h, \A c \in Parts(e) : g[c] = h[c], NEW values, NEW made
  PROVE  MeaningFrom(e, g, values, made) = MeaningFrom(e, h, values, made)
<1> SUFFICES ASSUME NEW n \in Nat
             PROVE  MeaningOfNode(e, g, values, made, n) = MeaningOfNode(e, h, values, made, n)
  BY DEF MeaningFrom
<1>0. HasShape(e)
  BY Shape
<1>1. CASE e.is = "funcall"
  <2>1. \A k \in DOMAIN e.args : g[e.args[k]] = h[e.args[k]]
    BY <1>0, <1>1 DEF HasShape
  <2>2. [k \in DOMAIN e.args |-> g[e.args[k]]] = [k \in DOMAIN e.args |-> h[e.args[k]]]
    BY <2>1
  <2> QED BY <1>1, <2>2 DEF MeaningOfNode
<1>2. CASE e.is # "funcall"
  BY <1>0, <1>2 DEF MeaningOfNode, HasShape
<1> QED BY <1>1, <1>2

(* Meaning, by its rule.                                                   *)
LEMMA MeaningIs ==
  ASSUME NEW values, NEW made
  PROVE  \A e \in Expr : Meaning(values, made)[e] = MeaningFrom(e, Meaning(values, made), values, made)
<1> DEFINE Eq(n, g) == g = [e \in Nested[n] |-> MeaningFrom(e, g, values, made)]
           B == {m \in 0..Depth : \E g : Eq(m, g)}
<1>1. 0..Depth \subseteq B
  <2> SUFFICES ASSUME NEW m \in 0..Depth, m > 0 => m - 1 \in B PROVE m \in B
    BY LevelInduction
  <2>1. PICK h : m > 0 => Eq(m - 1, h)
    OBVIOUS
  <2>2. m \in Nat
    BY DepthAssumption
  <2> DEFINE g == [e \in Nested[m] |-> MeaningFrom(e, h, values, made)]
  <2>4. ASSUME NEW e \in Nested[m] PROVE MeaningFrom(e, h, values, made) = MeaningFrom(e, g, values, made)
    <3>1. e \in Expr /\ \A c \in Parts(e) : m > 0 /\ c \in Nested[m - 1] /\ c \in Nested[m]
      BY <2>2, PartsBelow
    <3>2. \A c \in Parts(e) : g[c] = h[c]
      BY <2>1, <3>1
    <3> HIDE DEF g
    <3> QED BY <3>1, <3>2, MeaningLocal
  <2>5. Eq(m, g)
    BY <2>4
  <2> QED BY <2>5
<1>2. \E g : Eq(Depth, g)
  <2>1. Depth \in 0..Depth
    BY DepthAssumption
  <2> QED BY <1>1, <2>1
<1>3. Eq(Depth, Meaning(values, made))
  <2>1. Meaning(values, made) = CHOOSE g : Eq(Depth, g)
    BY DEF Meaning, MeaningFrom, Expr
  <2> HIDE DEF Eq
  <2> QED BY <1>2, <2>1
<1> HIDE DEF B
<1> QED BY <1>3 DEF Expr

(* The rule, for each kind of node.                                        *)
MeaningRule(e, M, values, made, u) ==
  /\ e.is = "lit" => M[e][u] = Means(e.t, e.v, u)
  /\ e.is = "varref" => M[e][u] = Means(VarType[e.x].type, values[e.x], u)
  /\ e.is = "element" =>
       M[e][u] = IF M[e.i][u].ok THEN Means(VarType[e.x].type, values[e.x], M[e.i][u].used)
                 ELSE M[e.i][u]
  /\ e.is = "funcall" =>
       M[e][u] = MeaningOfCall(e.f, MeaningOfArgs(e.args, [k \in DOMAIN e.args |-> M[e.args[k]]], u)
                                      [Len(e.args)], made)
  /\ e.is = "binop" => M[e][u] = MeaningOfBinop(e.op, M[e.l][u], M[e.r][M[e.l][u].used])
  /\ e.is = "monop" => M[e][u] = MeaningOfMonop(e.op, M[e.e][u])
  /\ e.is = "typecast" =>
       M[e][u] = IF M[e.e][u].ok
                 THEN Means(e.t, Converted(M[e.e][u].t, e.t, M[e.e][u].v), M[e.e][u].used)
                 ELSE M[e.e][u]
  /\ e.is = "crash" => M[e][u] = Nothing(u)

(* The meaning of an expression, by its kind.                              *)
LEMMA MeaningOf ==
  \A e \in Expr : \A values, made : \A u \in Nat : MeaningRule(e, Meaning(values, made), values, made, u)
<1> SUFFICES ASSUME NEW e \in Expr, NEW values, NEW made, NEW u \in Nat
             PROVE  MeaningRule(e, Meaning(values, made), values, made, u)
  OBVIOUS
<1>1. PICK M : M = Meaning(values, made)
  OBVIOUS
<1>2. HasShape(e) /\ M[e] = MeaningFrom(e, M, values, made)
  BY <1>1, Shape, MeaningIs
<1>3. M[e][u] = MeaningOfNode(e, M, values, made, u)
  BY <1>2 DEF MeaningFrom
<1> QED BY <1>1, <1>2, <1>3 DEF MeaningRule, MeaningOfNode, HasShape

(* Induction over the rounds of a loop.                                    *)
LEMMA RoundInduction ==
  ASSUME NEW n \in Nat, NEW B, 0 \in B, \A k \in 1..n : k - 1 \in B => k \in B
  PROVE  0..n \subseteq B
<1> DEFINE Bad == {k \in 0..n : k \notin B}
<1> SUFFICES ASSUME Bad # {} PROVE FALSE
  OBVIOUS
<1>1. PICK m \in Bad : \A k \in Bad : m <= k
  <2>1. Bad \in SUBSET Nat
    OBVIOUS
  <2> QED BY <2>1, LeastNat
<1>2. m \in 1..n /\ m - 1 \in 0..n /\ m - 1 \notin Bad
  BY <1>1
<1> QED BY <1>2

ArgsRule(args, meant, used, upTo) ==
  /\ upTo[0] = Means("args", <<>>, used)
  /\ \A k \in 1..Len(args) : upTo[k] = MeaningOfArg(args[k], meant[k], upTo[k - 1])

(* The meaning of the arguments, round by round.                           *)
LEMMA ArgsLoop ==
  ASSUME NEW args, Len(args) \in Nat, NEW meant, NEW used
  PROVE  ArgsRule(args, meant, used, MeaningOfArgs(args, meant, used))
<1> DEFINE Eq(n, g) == g = [k \in 0..n |-> IF k = 0 THEN Means("args", <<>>, used) ELSE MeaningOfArg(args[k], meant[k], g[k - 1])]
           B == {n \in 0..Len(args) : \E g : Eq(n, g)}
<1>0. Len(args) \in Nat
  OBVIOUS
<1>1. 0 \in B
  <2> DEFINE g == [k \in 0..0 |-> Means("args", <<>>, used)]
  <2>1. Eq(0, g)
    OBVIOUS
  <2> HIDE DEF g
  <2> QED BY <1>0, <2>1
<1>2. ASSUME NEW m \in 1..Len(args), m - 1 \in B PROVE m \in B
  <2>1. PICK h : Eq(m - 1, h)
    BY <1>2
  <2> DEFINE g == [k \in 0..m |-> IF k = 0 THEN Means("args", <<>>, used) ELSE MeaningOfArg(args[k], meant[k], h[k - 1])]
  <2>2. ASSUME NEW k \in 0..m, k # 0 PROVE g[k - 1] = h[k - 1]
    <3>1. k - 1 \in 0..m - 1 /\ k - 1 \in 0..m
      BY <1>0, <2>2
    <3> QED BY <2>1, <3>1
  <2>3. Eq(m, g)
    BY <2>2
  <2> HIDE DEF g
  <2>4. m \in 0..Len(args)
    BY <1>0
  <2> QED BY <2>3, <2>4
<1> HIDE DEF B
<1>3. 0..Len(args) \subseteq B
  BY <1>0, <1>1, <1>2, RoundInduction
<1>4. \E g : Eq(Len(args), g)
  BY <1>0, <1>3 DEF B
<1>5. Eq(Len(args), MeaningOfArgs(args, meant, used))
  <2>1. MeaningOfArgs(args, meant, used) = CHOOSE g : Eq(Len(args), g)
    BY DEF MeaningOfArgs
  <2> HIDE DEF Eq
  <2> QED BY <1>4, <2>1
<1> QED BY <1>0, <1>5 DEF ArgsRule

(* A meaning says how many calls were used, and whether there is a value.  *)
Says(m) == m.used \in Nat /\ m.ok \in BOOLEAN

(* Both kinds of meaning do.                                               *)
LEMMA SaysWhat ==
  /\ \A t, v : \A u \in Nat : Says(Means(t, v, u)) /\ Says(Nothing(u))
  /\ \A m : Says(m) => m.used \in Nat
<1>1. ASSUME NEW t, NEW v, NEW u \in Nat PROVE Says(Means(t, v, u))
  BY DEF Says, Means
<1>2. ASSUME NEW u \in Nat PROVE Says(Nothing(u))
  BY DEF Says, Nothing
<1>3. ASSUME NEW m, Says(m) PROVE m.used \in Nat
  BY <1>3 DEF Says
<1> QED BY <1>1, <1>2, <1>3

(* So does the meaning of every expression.                                *)
LEMMA MeaningSays ==
  ASSUME NEW values, NEW made
  PROVE  \A e \in Expr : \A u \in Nat : Says(Meaning(values, made)[e][u])
<1>0. PICK M : M = Meaning(values, made)
  OBVIOUS
<1> DEFINE S == {e \in Expr : \A u \in Nat : Says(M[e][u])}
<1>1. ASSUME NEW e \in Expr, Parts(e) \subseteq S PROVE e \in S
  <2> SUFFICES ASSUME NEW u \in Nat PROVE Says(M[e][u])
    OBVIOUS
  <2>0. HasShape(e) /\ MeaningRule(e, M, values, made, u)
    BY <1>0, Shape, MeaningOf
  <2>1. \A c \in Parts(e) : \A w \in Nat : Says(M[c][w])
    BY <1>1
  <2> HIDE DEF S
  <2>2. CASE e.is = "lit"
    BY <2>0, <2>2, SaysWhat DEF MeaningRule
  <2>3. CASE e.is = "varref"
    BY <2>0, <2>3, SaysWhat DEF MeaningRule
  <2>4. CASE e.is = "crash"
    BY <2>0, <2>4, SaysWhat DEF MeaningRule
  <2>5. CASE e.is = "element"
    <3>1. Says(M[e.i][u])
      BY <2>0, <2>1, <2>5 DEF HasShape
    <3> QED BY <2>0, <2>5, <3>1, SaysWhat DEF MeaningRule
  <2>6. CASE e.is = "typecast"
    <3>1. Says(M[e.e][u])
      BY <2>0, <2>1, <2>6 DEF HasShape
    <3> QED BY <2>0, <2>6, <3>1, SaysWhat DEF MeaningRule
  <2>7. CASE e.is = "monop"
    <3>1. Says(M[e.e][u])
      BY <2>0, <2>1, <2>7 DEF HasShape
    <3> QED BY <2>0, <2>7, <3>1, SaysWhat DEF MeaningRule, MeaningOfMonop
  <2>8. CASE e.is = "binop"
    <3>1. Says(M[e.l][u]) /\ Says(M[e.r][M[e.l][u].used])
      BY <2>0, <2>1, <2>8, SaysWhat DEF HasShape
    <3> QED BY <2>0, <2>8, <3>1, SaysWhat DEF MeaningRule, MeaningOfBinop
  <2>9. CASE e.is = "funcall"
    <3> DEFINE meant == [k \in DOMAIN e.args |-> M[e.args[k]]]
    <3>1. e.args \in Seq(Expr) /\ \A k \in DOMAIN e.args : \A w \in Nat : Says(meant[k][w])
      BY <2>0, <2>1, <2>9 DEF HasShape
    <3> HIDE DEF meant
    <3>2. PICK up : up = MeaningOfArgs(e.args, meant, u)
      OBVIOUS
    <3>3. ArgsRule(e.args, meant, u, up) /\ Len(e.args) \in Nat
      BY <3>1, <3>2, ArgsLoop
    <3> DEFINE B == {k \in 0..Len(e.args) : Says(up[k])}
    <3>4. 0 \in B
      BY <3>3, SaysWhat DEF ArgsRule
    <3>5. ASSUME NEW k \in 1..Len(e.args), k - 1 \in B PROVE k \in B
      <4>1. Says(up[k - 1])
        BY <3>5
      <4>2. Says(meant[k][up[k - 1].used])
        BY <3>1, <4>1, SaysWhat
      <4>3. up[k] = MeaningOfArg(e.args[k], meant[k], up[k - 1]) /\ k \in 0..Len(e.args)
        BY <3>3, SaysWhat DEF ArgsRule
      <4>4. Says(up[k])
        BY <4>1, <4>2, <4>3, SaysWhat DEF MeaningOfArg
      <4> QED BY <4>3, <4>4
    <3> HIDE DEF B
    <3>6. Len(e.args) \in B
      <4>1. 0..Len(e.args) \subseteq B
        BY <3>3, <3>4, <3>5, RoundInduction
      <4> QED BY <3>3, <4>1
    <3>7. M[e][u] = MeaningOfCall(e.f, up[Len(e.args)], made)
      BY <2>0, <2>9, <3>2, SaysWhat DEF MeaningRule, meant
    <3>8. PICK a : a = up[Len(e.args)]
      OBVIOUS
    <3>9. Says(a) /\ a.used \in Nat /\ a.used + 1 \in Nat
      <4>1. Says(a) /\ a.used \in Nat
        BY <3>6, <3>8, SaysWhat DEF B
      <4> QED BY <4>1
    <3> QED BY <3>7, <3>8, <3>9, SaysWhat DEF MeaningOfCall
  <2> QED BY <2>0, <2>2, <2>3, <2>4, <2>5, <2>6, <2>7, <2>8, <2>9 DEF HasShape
<1> HIDE DEF S
<1>2. Expr \subseteq S
  BY <1>1, ExprInduction
<1> QED BY <1>0, <1>2 DEF S

(* The calls used are a number.                                            *)
LEMMA UsedIsNat ==
  ASSUME NEW values, NEW made
  PROVE  \A e \in Expr : \A u \in Nat : Meaning(values, made)[e][u].used \in Nat
BY MeaningSays DEF Says

(* Folding does not change what an expression means.                       *)
LEMMA FoldedOperation ==
  ASSUME NEW op \in AllOps, NEW l \in Expr, NEW r \in Expr, Literals(l, r), Foldable(l.t, op),
         ~(op \in {"div", "mod"} /\ r.v = 0), ~NoValue(l.t, op, l.v, r.v), NEW u
  PROVE  MeaningOfBinop(op, Means(l.t, l.v, u), Means(r.t, r.v, u))
           = Means(ResultType(op, l.t), OpOf(l.t, op, l.v, r.v), u)
<1>0. HasShape(l) /\ HasShape(r)
  BY Shape
<1>1. CASE op \notin {"and", "or"}
  BY <1>1 DEF MeaningOfBinop, Means
<1>2. CASE op \in {"and", "or"}
  <2>1. l.t = "bool" /\ r.t = "bool" /\ l.v \in {0, 1} /\ r.v \in {0, 1}
    <3>1. l.is = "lit" /\ r.is = "lit" /\ l.t = r.t
      BY DEF Literals
    <3>2. l.t \in Basic
      BY <1>0, <3>1 DEF HasShape
    <3>3. l.t = "bool"
      BY <1>2, <3>2 DEF Foldable, Basic, Numeric
    <3> QED BY <1>0, <3>1, <3>3 DEF HasShape, Numeric
  <2>2. ResultType(op, l.t) = "bool" /\ OpOf(l.t, op, l.v, r.v) = BoolOp(op, l.v, r.v)
    BY <1>2, <2>1 DEF ResultType, Arith, OpOf
  <2>3. BoolOp(op, l.v, r.v) = IF l.v = Truth(op = "or") THEN l.v ELSE r.v
    BY <1>2, <2>1 DEF BoolOp, Truth
  <2> QED BY <1>2, <2>1, <2>2, <2>3 DEF MeaningOfBinop, Means
<1> QED BY <1>1, <1>2

(* Where the compiler went on, it went on in the parts.                    *)
LEMMA NoCrashInParts ==
  ASSUME NEW e \in Expr, Crash \notin Nodes[CF[e]], NEW c \in Parts(e)
  PROVE  Crash \notin Nodes[CF[c]]
<1>0. HasShape(e) /\ FoldRule(e) /\ CF[e] \in Expr /\ c \in Expr /\ CF[c] \in Expr
  BY Shape, FoldOf, FoldedInExpr, PartsAreExpr
<1>1. CF[e] # Crash
  BY <1>0, NodesOf
<1>2. CASE Parts(CF[e]) = {CF[p] : p \in Parts(e)}
  BY <1>0, <1>2, NodesOf
<1>3. CASE CF[e].is \in {"lit", "varref", "crash"}
  <2>1. CF[e].is = "lit"
    <3>1. CF[e].is # "crash"
      BY <1>0, <1>1, Shape DEF HasShape
    <3>2. CASE CF[e].is = "varref"
      BY <1>0, <3>2 DEF HasShape, FoldRule, Element, FunCall, CFbinop, Binop, Crash, Lit, CFmonop, Monop,
                        CFtypecast, TypeCast
    <3> QED BY <1>3, <3>1, <3>2
  <2>2. CF[c].is = "lit"
    <3>1. CASE e.is \in {"lit", "varref", "crash"}
      BY <1>0, <3>1 DEF HasShape
    <3>2. CASE e.is = "element"
      BY <1>0, <2>1, <3>2 DEF FoldRule, Element
    <3>3. CASE e.is = "funcall"
      BY <1>0, <2>1, <3>3 DEF FoldRule, FunCall
    <3>4. CASE e.is = "binop"
      BY <1>0, <2>1, <3>4 DEF FoldRule, HasShape, CFbinop, Literals, Binop
    <3>5. CASE e.is = "monop"
      BY <1>0, <2>1, <3>5 DEF FoldRule, HasShape, CFmonop, Monop
    <3>6. CASE e.is = "typecast"
      BY <1>0, <2>1, <3>6 DEF FoldRule, HasShape, CFtypecast, TypeCast
    <3> QED BY <1>0, <3>1, <3>2, <3>3, <3>4, <3>5, <3>6 DEF HasShape
  <2>3. Nodes[CF[c]] = {CF[c]}
    <3>1. Parts(CF[c]) = {}
      BY <2>2 DEF Parts
    <3> QED BY <1>0, <3>1, NodesIs
  <2> QED BY <2>2, <2>3 DEF Crash
<1> QED BY <1>2, <1>3, FoldedParts

(* Folding leaves variables, and makes none.                               *)
LEMMA VarRefStays ==
  ASSUME NEW c \in Expr
  PROVE  /\ (CF[c].is = "varref") = (c.is = "varref")
         /\ c.is = "varref" => CF[c].x = c.x
<1>0. HasShape(c) /\ FoldRule(c)
  BY Shape, FoldOf
<1>1. CASE c.is \in {"lit", "varref", "crash"}
  BY <1>0, <1>1 DEF FoldRule
<1>2. CASE c.is = "element"
  BY <1>0, <1>2 DEF FoldRule, Element
<1>3. CASE c.is = "funcall"
  BY <1>0, <1>3 DEF FoldRule, FunCall
<1>4. CASE c.is = "binop"
  BY <1>0, <1>4 DEF FoldRule, CFbinop, Binop, Crash, Lit
<1>5. CASE c.is = "monop"
  BY <1>0, <1>5 DEF FoldRule, CFmonop, Monop, Lit
<1>6. CASE c.is = "typecast"
  BY <1>0, <1>6 DEF FoldRule, CFtypecast, TypeCast, Lit
<1> QED BY <1>0, <1>1, <1>2, <1>3, <1>4, <1>5, <1>6 DEF HasShape

(* An expression means the same when it is folded.                         *)
LEMMA FoldKeepsMeaning ==
  ASSUME NEW values, NEW made
  PROVE  \A e \in Expr : TYC[e].ok /\ Ruly(e) /\ Crash \notin Nodes[CF[e]] =>
           \A u \in Nat : Meaning(values, made)[CF[e]][u] = Meaning(values, made)[e][u]
<1>0. PICK M : M = Meaning(values, made)
  OBVIOUS
<1> DEFINE P(e) == TYC[e].ok /\ Ruly(e) /\ Crash \notin Nodes[CF[e]] =>
                     \A u \in Nat : M[CF[e]][u] = M[e][u]
           S == {e \in Expr : P(e)}
<1>1. ASSUME NEW e \in Expr, Parts(e) \subseteq S PROVE e \in S
  <2> SUFFICES ASSUME TYC[e].ok, Ruly(e), Crash \notin Nodes[CF[e]], NEW u \in Nat
               PROVE  M[CF[e]][u] = M[e][u]
    OBVIOUS
  <2>0. /\ HasShape(e) /\ FoldRule(e) /\ MeaningRule(e, M, values, made, u)
        /\ CF[e] \in Expr /\ HasShape(CF[e]) /\ MeaningRule(CF[e], M, values, made, u)
    BY <1>0, Shape, FoldOf, MeaningOf, FoldedInExpr
  <2>1. \A c \in Parts(e) : /\ c \in Expr /\ CF[c] \in Expr /\ TYC[c].ok /\ SameType(c, CF[c])
                            /\ \A w \in Nat : M[CF[c]][w] = M[c][w]
                            /\ \A w \in Nat : M[c][w].used \in Nat
                            /\ CF[c].is = "lit" => CF[c].t = TYC[c].t /\ M[c][u] = Means(CF[c].t, CF[c].v, u)
    <3> SUFFICES ASSUME NEW c \in Parts(e)
                 PROVE  /\ c \in Expr /\ CF[c] \in Expr /\ TYC[c].ok /\ SameType(c, CF[c])
                        /\ \A w \in Nat : M[CF[c]][w] = M[c][w]
                        /\ \A w \in Nat : M[c][w].used \in Nat
                        /\ CF[c].is = "lit" => CF[c].t = TYC[c].t /\ M[c][u] = Means(CF[c].t, CF[c].v, u)
      OBVIOUS
    <3>1. c \in Expr /\ CF[c] \in Expr /\ TYC[c].ok /\ Ruly(c) /\ Crash \notin Nodes[CF[c]] /\ P(c)
      BY <1>1, AcceptedSuits, RulyParts, NoCrashInParts, FoldedInExpr
    <3>2. \A w \in Nat : M[CF[c]][w] = M[c][w]
      BY <3>1
    <3>3. SameType(c, CF[c])
      BY <3>1, FoldKeepsTypes
    <3>4. MeaningRule(CF[c], M, values, made, u) /\ TdRule(CF[c]) /\ \A w \in Nat : M[c][w].used \in Nat
      BY <1>0, <3>1, MeaningOf, TdOf, UsedIsNat
    <3>5. CF[c].is = "lit" => CF[c].t = TYC[c].t /\ M[CF[c]][u] = Means(CF[c].t, CF[c].v, u)
      BY <3>3, <3>4 DEF MeaningRule, TdRule, HasType, SameType
    <3> QED BY <3>1, <3>2, <3>3, <3>4, <3>5
  <2> HIDE DEF S, P
  <2>2. CASE e.is \in {"lit", "varref", "crash"}
    BY <2>0, <2>2 DEF FoldRule
  <2>3. CASE e.is = "element"
    <3>1. CF[e] = Element(e.x, CF[e.i]) /\ e.i \in Parts(e)
      BY <2>0, <2>3 DEF FoldRule, HasShape
    <3>2. CF[e].is = "element" /\ CF[e].x = e.x /\ CF[e].i = CF[e.i]
      BY <3>1 DEF Element
    <3> QED BY <2>0, <2>1, <2>3, <3>1, <3>2 DEF MeaningRule
  <2>4. CASE e.is = "funcall"
    <3> DEFINE args == [k \in DOMAIN e.args |-> CF[e.args[k]]]
               mean(a) == [k \in DOMAIN a |-> M[a[k]]]
    <3>1. CF[e].is = "funcall" /\ CF[e].f = e.f /\ CF[e].args = args
      BY <2>0, <2>4 DEF FoldRule, FunCall
    <3>2. /\ e.args \in Seq(Expr) /\ Len(args) = Len(e.args) /\ Len(e.args) \in Nat
          /\ DOMAIN args = DOMAIN e.args /\ DOMAIN e.args = 1..Len(e.args)
          /\ \A k \in DOMAIN e.args : args[k] = CF[e.args[k]] /\ e.args[k] \in Parts(e)
      BY <2>0, <2>4 DEF HasShape
    <3> HIDE DEF args
    <3>3. \A k \in DOMAIN e.args : mean(args)[k] = M[CF[e.args[k]]] /\ mean(e.args)[k] = M[e.args[k]]
      BY <3>2
    <3>4. /\ M[e][u] = MeaningOfCall(e.f, MeaningOfArgs(e.args, mean(e.args), u)[Len(e.args)], made)
          /\ M[CF[e]][u] = MeaningOfCall(e.f, MeaningOfArgs(args, mean(args), u)[Len(e.args)], made)
      BY <2>0, <2>4, <3>1, <3>2 DEF MeaningRule
    <3> HIDE DEF mean
    <3>5. PICK up : up = MeaningOfArgs(e.args, mean(e.args), u)
      OBVIOUS
    <3>6. PICK vp : vp = MeaningOfArgs(args, mean(args), u)
      OBVIOUS
    <3>7. ArgsRule(e.args, mean(e.args), u, up) /\ ArgsRule(args, mean(args), u, vp)
      BY <3>2, <3>5, <3>6, ArgsLoop
    <3> DEFINE B == {k \in 0..Len(e.args) : up[k] = vp[k] /\ up[k].used \in Nat}
    <3>8. 0 \in B
      BY <3>2, <3>7 DEF ArgsRule, Means
    <3>9. ASSUME NEW k \in 1..Len(e.args), k - 1 \in B PROVE k \in B
      <4>1. up[k - 1] = vp[k - 1] /\ up[k - 1].used \in Nat /\ k \in DOMAIN e.args /\ k \in 0..Len(e.args)
        BY <3>2, <3>9
      <4>2. up[k] = MeaningOfArg(e.args[k], mean(e.args)[k], up[k - 1])
        BY <3>7 DEF ArgsRule
      <4>3. vp[k] = MeaningOfArg(args[k], mean(args)[k], up[k - 1])
        BY <3>2, <3>7, <4>1 DEF ArgsRule
      <4>4. PICK c : c = e.args[k]
        OBVIOUS
      <4>5. c \in Parts(e) /\ args[k] = CF[c] /\ mean(args)[k] = M[CF[c]] /\ mean(e.args)[k] = M[c]
        BY <3>2, <3>3, <4>1, <4>4
      <4>6. M[CF[c]][up[k - 1].used] = M[c][up[k - 1].used] /\ M[c][up[k - 1].used].used \in Nat
        BY <2>1, <4>1, <4>5
      <4>7. (CF[c].is = "varref") = (c.is = "varref") /\ (c.is = "varref" => CF[c].x = c.x)
        BY <2>1, <4>5, VarRefStays
      <4>8. up[k] = vp[k]
        BY <4>2, <4>3, <4>4, <4>5, <4>6, <4>7 DEF MeaningOfArg
      <4>9. up[k].used \in Nat
        BY <4>1, <4>2, <4>4, <4>5, <4>6, SMTT(20) DEF MeaningOfArg, Means
      <4> QED BY <4>1, <4>8, <4>9
    <3> HIDE DEF B
    <3>10. 0..Len(e.args) \subseteq B
      BY <3>2, <3>8, <3>9, RoundInduction
    <3>11. up[Len(e.args)] = vp[Len(e.args)]
      BY <3>2, <3>10 DEF B
    <3> QED BY <3>4, <3>5, <3>6, <3>11
  <2>5. CASE e.is = "binop"
    <3>1. /\ CF[e] = CFbinop(e.op, CF[e.l], CF[e.r]) /\ e.l \in Parts(e) /\ e.r \in Parts(e) /\ e.op \in AllOps
          /\ M[e][u] = MeaningOfBinop(e.op, M[e.l][u], M[e.r][M[e.l][u].used])
      BY <2>0, <2>5 DEF FoldRule, HasShape, MeaningRule, AllOps
    <3>2. CASE CF[e] = Binop(e.op, CF[e.l], CF[e.r])
      <4>1. CF[e].is = "binop" /\ CF[e].op = e.op /\ CF[e].l = CF[e.l] /\ CF[e].r = CF[e.r]
        BY <3>2 DEF Binop
      <4>2. M[CF[e]][u] = MeaningOfBinop(e.op, M[CF[e.l]][u], M[CF[e.r]][M[CF[e.l]][u].used])
        BY <2>0, <4>1 DEF MeaningRule
      <4> QED BY <2>1, <3>1, <4>2
    <3>3. CASE CF[e] # Binop(e.op, CF[e.l], CF[e.r])
      <4>1. CF[e] # Crash
        BY <2>0, NodesOf
      <4>2. /\ Literals(CF[e.l], CF[e.r]) /\ Foldable(CF[e.l].t, e.op)
            /\ ~(e.op \in {"div", "mod"} /\ CF[e.r].v = 0)
            /\ ~NoValue(CF[e.l].t, e.op, CF[e.l].v, CF[e.r].v)
            /\ CF[e] = Lit(ResultType(e.op, CF[e.l].t), OpOf(CF[e.l].t, e.op, CF[e.l].v, CF[e.r].v))
        BY <3>1, <3>3, <4>1 DEF CFbinop
      <4>3. M[e.l][u] = Means(CF[e.l].t, CF[e.l].v, u) /\ M[e.r][u] = Means(CF[e.r].t, CF[e.r].v, u)
        BY <2>1, <3>1, <4>2 DEF Literals
      <4>4. M[e][u] = MeaningOfBinop(e.op, Means(CF[e.l].t, CF[e.l].v, u), Means(CF[e.r].t, CF[e.r].v, u))
        BY <3>1, <4>3 DEF Means
      <4>5. M[e][u] = Means(ResultType(e.op, CF[e.l].t), OpOf(CF[e.l].t, e.op, CF[e.l].v, CF[e.r].v), u)
        <5>1. PICK l, r : l = CF[e.l] /\ r = CF[e.r]
          OBVIOUS
        <5>2. l \in Expr /\ r \in Expr /\ e.op \in AllOps
          BY <2>1, <3>1, <5>1
        <5>3. MeaningOfBinop(e.op, Means(l.t, l.v, u), Means(r.t, r.v, u))
                = Means(ResultType(e.op, l.t), OpOf(l.t, e.op, l.v, r.v), u)
          BY <4>2, <5>1, <5>2, FoldedOperation, SMTT(20)
        <5> QED BY <4>4, <5>1, <5>3
      <4> QED BY <2>0, <4>2, <4>5 DEF MeaningRule, Lit
    <3> QED BY <3>2, <3>3
  <2>6. CASE e.is = "monop"
    <3>1. CF[e] = CFmonop(e.op, CF[e.e]) /\ e.e \in Parts(e) /\ M[e][u] = MeaningOfMonop(e.op, M[e.e][u])
      BY <2>0, <2>6 DEF FoldRule, HasShape, MeaningRule
    <3>2. CASE CF[e] = Monop(e.op, CF[e.e])
      <4>1. CF[e].is = "monop" /\ CF[e].op = e.op /\ CF[e].e = CF[e.e]
        BY <3>2 DEF Monop
      <4> QED BY <2>0, <2>1, <3>1, <4>1 DEF MeaningRule
    <3>3. CASE CF[e] # Monop(e.op, CF[e.e])
      <4>1. CF[e.e].is = "lit"
        BY <3>1, <3>3 DEF CFmonop
      <4>2. M[e][u] = MeaningOfMonop(e.op, Means(CF[e.e].t, CF[e.e].v, u))
        BY <2>1, <3>1, <4>1
      <4>3. M[CF[e]][u] = MeaningOfMonop(e.op, Means(CF[e.e].t, CF[e.e].v, u))
        <5>1. PICK c : c = CF[e.e]
          OBVIOUS
        <5>2. CFmonop(e.op, c) # Monop(e.op, c) /\ c.is = "lit" /\ CF[e] = CFmonop(e.op, c)
          BY <3>1, <3>3, <4>1, <5>1
        <5>3. CASE e.op = "neg" /\ c.t = "int"
          <6>1. CF[e] = Lit("int", Wrap(0 - c.v))
            BY <5>2, <5>3 DEF CFmonop
          <6>2. M[CF[e]][u] = Means("int", Wrap(0 - c.v), u)
            BY <2>0, <6>1 DEF MeaningRule, Lit
          <6> QED BY <5>1, <5>3, <6>2 DEF MeaningOfMonop, Means
        <5>4. CASE e.op = "neg" /\ c.t = "float"
          <6>1. CF[e] = Lit("float", 0 - c.v)
            BY <5>2, <5>4 DEF CFmonop
          <6>2. M[CF[e]][u] = Means("float", 0 - c.v, u)
            BY <2>0, <6>1 DEF MeaningRule, Lit
          <6> QED BY <5>1, <5>4, <6>2 DEF MeaningOfMonop, Means
        <5>5. CASE e.op = "not" /\ c.t = "bool"
          <6>1. CF[e] = Lit("bool", 1 - c.v)
            BY <5>2, <5>5 DEF CFmonop
          <6>2. M[CF[e]][u] = Means("bool", 1 - c.v, u)
            BY <2>0, <6>1 DEF MeaningRule, Lit
          <6> QED BY <5>1, <5>5, <6>2 DEF MeaningOfMonop, Means
        <5>6. \/ e.op = "neg" /\ c.t \in {"int", "float"}
              \/ e.op = "not" /\ c.t = "bool"
          BY <2>0, <2>6, <5>2 DEF CFmonop, HasShape
        <5> QED BY <5>3, <5>4, <5>5, <5>6
      <4> QED BY <4>2, <4>3
    <3> QED BY <3>2, <3>3
  <2>7. CASE e.is = "typecast"
    <3>1. CF[e] = CFtypecast(e.t, CF[e.e]) /\ e.e \in Parts(e)
      BY <2>0, <2>7 DEF FoldRule, HasShape
    <3>2. CASE CF[e] = TypeCast(e.t, CF[e.e])
      <4>1. CF[e].is = "typecast" /\ CF[e].t = e.t /\ CF[e].e = CF[e.e]
        BY <3>2 DEF TypeCast
      <4> QED BY <2>0, <2>1, <2>7, <3>1, <4>1 DEF MeaningRule
    <3>3. CASE CF[e] # TypeCast(e.t, CF[e.e])
      <4>1. CF[e.e].is = "lit" /\ CF[e] = Lit(e.t, Converted(CF[e.e].t, e.t, CF[e.e].v))
        BY <3>1, <3>3 DEF CFtypecast
      <4>2. M[e.e][u] = Means(CF[e.e].t, CF[e.e].v, u)
        BY <2>1, <3>1, <4>1
      <4> QED BY <2>0, <2>7, <4>1, <4>2 DEF MeaningRule, Lit, Means
    <3> QED BY <3>2, <3>3
  <2> QED BY <2>0, <2>2, <2>3, <2>4, <2>5, <2>6, <2>7 DEF HasShape
<1> HIDE DEF S, P
<1>2. Expr \subseteq S
  BY <1>1, ExprInduction
<1> QED BY <1>0, <1>2 DEF S, P

-----------------------------------------------------------------------------
(* Sequences, whatever they are made of.                                   *)
IsSeq(s) == \E S : s \in Seq(S)

LEMMA SeqFacts ==
  ASSUME NEW s, IsSeq(s)
  PROVE  Len(s) \in Nat /\ DOMAIN s = 1..Len(s)
BY DEF IsSeq

LEMMA ConcatSeq ==
  ASSUME NEW s, IsSeq(s), NEW t, IsSeq(t)
  PROVE  /\ IsSeq(s \o t) /\ Len(s) \in Nat /\ Len(t) \in Nat
         /\ Len(s \o t) = Len(s) + Len(t)
         /\ \A k \in 1..Len(s) : (s \o t)[k] = s[k]
         /\ \A k \in 1..Len(t) : (s \o t)[Len(s) + k] = t[k]
<1>1. PICK S : s \in Seq(S)
  BY DEF IsSeq
<1>2. PICK T : t \in Seq(T)
  BY DEF IsSeq
<1>3. PICK U : U = S \cup T
  OBVIOUS
<1>4. S \subseteq U /\ T \subseteq U
  BY <1>3
<1>5. s \in Seq(U) /\ t \in Seq(U)
  BY <1>1, <1>2, <1>4
<1> QED BY <1>5, ConcatProperties DEF IsSeq

LEMMA AppendSeq ==
  ASSUME NEW s, IsSeq(s), NEW x
  PROVE  /\ IsSeq(Append(s, x)) /\ Len(s) \in Nat
         /\ Len(Append(s, x)) = Len(s) + 1
         /\ \A k \in 1..Len(s) : Append(s, x)[k] = s[k]
         /\ Append(s, x)[Len(s) + 1] = x
<1>1. PICK S : s \in Seq(S)
  BY DEF IsSeq
<1>3. PICK U : U = S \cup {x}
  OBVIOUS
<1>4. S \subseteq U /\ x \in U
  BY <1>3
<1>5. s \in Seq(U)
  BY <1>1, <1>4
<1> QED BY <1>4, <1>5, AppendProperties DEF IsSeq

LEMMA SeqNone == IsSeq(<<>>)
<1>1. <<>> \in Seq({})
  OBVIOUS
<1> QED BY <1>1 DEF IsSeq

LEMMA SeqOne == \A a : IsSeq(<<a>>)
<1> SUFFICES ASSUME NEW a PROVE IsSeq(<<a>>)
  OBVIOUS
<1>1. PICK S : S = {a}
  OBVIOUS
<1>2. a \in S
  BY <1>1
<1>3. <<a>> \in Seq(S)
  BY <1>2
<1> QED BY <1>3 DEF IsSeq

LEMMA SeqTwo == \A a, b : IsSeq(<<a, b>>)
<1> SUFFICES ASSUME NEW a, NEW b PROVE IsSeq(<<a, b>>)
  OBVIOUS
<1>1. PICK S : S = {a, b}
  OBVIOUS
<1>2. a \in S /\ b \in S
  BY <1>1
<1>3. <<a, b>> \in Seq(S)
  BY <1>2
<1> QED BY <1>3 DEF IsSeq

LEMMA SeqFour == \A a, b, c, d : IsSeq(<<a, b, c, d>>)
<1> SUFFICES ASSUME NEW a, NEW b, NEW c, NEW d PROVE IsSeq(<<a, b, c, d>>)
  OBVIOUS
<1>1. PICK S : S = {a, b, c, d}
  OBVIOUS
<1>2. a \in S /\ b \in S /\ c \in S /\ d \in S
  BY <1>1
<1>3. <<a, b, c, d>> \in Seq(S)
  BY <1>2
<1> QED BY <1>3 DEF IsSeq

LEMMA SeqSix == \A a, b, c, d, f, g : IsSeq(<<a, b, c, d, f, g>>)
<1> SUFFICES ASSUME NEW a, NEW b, NEW c, NEW d, NEW f, NEW g PROVE IsSeq(<<a, b, c, d, f, g>>)
  OBVIOUS
<1>1. PICK S : S = {a, b, c, d, f, g}
  OBVIOUS
<1>2. a \in S /\ b \in S /\ c \in S /\ d \in S /\ f \in S /\ g \in S
  BY <1>1
<1>3. <<a, b, c, d, f, g>> \in Seq(S)
  BY <1>2
<1> QED BY <1>3 DEF IsSeq

(* An instruction, and the instructions s, are in the code c from b on.    *)
Is(c, b, i) == b \in 1..Len(c) /\ c[b] = i
Holds(c, b, s) == /\ b >= 1 /\ b + Len(s) <= Len(c) + 1
                  /\ \A k \in 1..Len(s) : c[b + k - 1] = s[k]

(* Code in two pieces is in a code when the pieces are, one behind the     *)
(* other.                                                                  *)
LEMMA HoldsConcat ==
  ASSUME NEW c, IsSeq(c), NEW b \in Nat, NEW s, IsSeq(s), NEW t, IsSeq(t), Holds(c, b, s \o t)
  PROVE  Holds(c, b, s) /\ Holds(c, b + Len(s), t)
<1>1. /\ Len(s) \in Nat /\ Len(t) \in Nat /\ Len(s \o t) = Len(s) + Len(t)
      /\ \A k \in 1..Len(s) : (s \o t)[k] = s[k]
      /\ \A k \in 1..Len(t) : (s \o t)[Len(s) + k] = t[k]
  BY ConcatSeq
<1>2. ASSUME NEW k \in 1..Len(s) PROVE c[b + k - 1] = s[k]
  <2>1. k \in 1..Len(s \o t)
    BY <1>1
  <2> QED BY <1>1, <2>1 DEF Holds
<1>3. ASSUME NEW k \in 1..Len(t) PROVE c[b + Len(s) + k - 1] = t[k]
  <2>1. Len(s) + k \in 1..Len(s \o t) /\ b + (Len(s) + k) - 1 = b + Len(s) + k - 1
    BY <1>1
  <2>2. c[b + (Len(s) + k) - 1] = (s \o t)[Len(s) + k]
    BY <2>1 DEF Holds
  <2> QED BY <1>1, <2>1, <2>2
<1>4. Len(c) \in Nat /\ b >= 1 /\ b + Len(s \o t) <= Len(c) + 1
  BY SeqFacts DEF Holds
<1>5. b + Len(s) <= Len(c) + 1 /\ b + Len(s) >= 1 /\ b + Len(s) + Len(t) <= Len(c) + 1
  BY <1>1, <1>4
<1> QED BY <1>2, <1>3, <1>4, <1>5 DEF Holds

LEMMA HoldsOne ==
  ASSUME NEW c, IsSeq(c), NEW b \in Nat, NEW x, Holds(c, b, <<x>>)
  PROVE  Is(c, b, x)
<1>1. PICK s : s = <<x>>
  OBVIOUS
<1>2. Len(s) = 1 /\ s[1] = x
  BY <1>1
<1>3. Len(c) \in Nat /\ b >= 1 /\ b + Len(s) <= Len(c) + 1 /\ \A k \in 1..Len(s) : c[b + k - 1] = s[k]
  BY <1>1, SeqFacts DEF Holds
<1>4. b \in 1..Len(c)
  BY <1>2, <1>3
<1>5. 1 \in 1..Len(s)
  BY <1>2
<1>6. c[b + 1 - 1] = x
  BY <1>2, <1>3, <1>5
<1>7. b + 1 - 1 = b
  OBVIOUS
<1> QED BY <1>4, <1>6, <1>7 DEF Is

LEMMA HoldsTwo ==
  ASSUME NEW c, IsSeq(c), NEW b \in Nat, NEW x, NEW y, Holds(c, b, <<x, y>>)
  PROVE  Is(c, b, x) /\ Is(c, b + 1, y)
<1>1. PICK s : s = <<x, y>>
  OBVIOUS
<1>2. Len(s) = 2 /\ s[1] = x /\ s[2] = y
  BY <1>1
<1>3. Len(c) \in Nat /\ b >= 1 /\ b + Len(s) <= Len(c) + 1 /\ \A k \in 1..Len(s) : c[b + k - 1] = s[k]
  BY <1>1, SeqFacts DEF Holds
<1>4. b \in 1..Len(c) /\ b + 1 \in 1..Len(c)
  BY <1>2, <1>3
<1>5. 1 \in 1..Len(s) /\ 2 \in 1..Len(s)
  BY <1>2
<1>6. c[b + 1 - 1] = x /\ c[b + 2 - 1] = y
  BY <1>2, <1>3, <1>5
<1>7. b + 1 - 1 = b /\ b + 2 - 1 = b + 1
  OBVIOUS
<1> QED BY <1>4, <1>6, <1>7 DEF Is

LEMMA HoldsFour ==
  ASSUME NEW c, IsSeq(c), NEW b \in Nat, NEW x, NEW y, NEW z, NEW w, Holds(c, b, <<x, y, z, w>>)
  PROVE  Is(c, b, x) /\ Is(c, b + 1, y) /\ Is(c, b + 2, z) /\ Is(c, b + 3, w)
<1>1. PICK s : s = <<x, y, z, w>>
  OBVIOUS
<1>2. Len(s) = 4 /\ s[1] = x /\ s[2] = y /\ s[3] = z /\ s[4] = w
  BY <1>1
<1>3. Len(c) \in Nat /\ b >= 1 /\ b + Len(s) <= Len(c) + 1 /\ \A k \in 1..Len(s) : c[b + k - 1] = s[k]
  BY <1>1, SeqFacts DEF Holds
<1>4. b \in 1..Len(c) /\ b + 1 \in 1..Len(c) /\ b + 2 \in 1..Len(c) /\ b + 3 \in 1..Len(c)
  BY <1>2, <1>3
<1>5. 1 \in 1..Len(s) /\ 2 \in 1..Len(s) /\ 3 \in 1..Len(s) /\ 4 \in 1..Len(s)
  BY <1>2
<1>6. c[b + 1 - 1] = x /\ c[b + 2 - 1] = y /\ c[b + 3 - 1] = z /\ c[b + 4 - 1] = w
  BY <1>2, <1>3, <1>5
<1>7. b + 1 - 1 = b /\ b + 2 - 1 = b + 1 /\ b + 3 - 1 = b + 2 /\ b + 4 - 1 = b + 3
  OBVIOUS
<1> QED BY <1>4, <1>6, <1>7 DEF Is

LEMMA HoldsSix ==
  ASSUME NEW c, IsSeq(c), NEW b \in Nat, NEW x, NEW y, NEW z, NEW w, NEW u, NEW v, Holds(c, b, <<x, y, z, w, u, v>>)
  PROVE  Is(c, b, x) /\ Is(c, b + 1, y) /\ Is(c, b + 2, z) /\ Is(c, b + 3, w) /\ Is(c, b + 4, u) /\ Is(c, b + 5, v)
<1>1. PICK s : s = <<x, y, z, w, u, v>>
  OBVIOUS
<1>2. Len(s) = 6 /\ s[1] = x /\ s[2] = y /\ s[3] = z /\ s[4] = w /\ s[5] = u /\ s[6] = v
  BY <1>1
<1>3. Len(c) \in Nat /\ b >= 1 /\ b + Len(s) <= Len(c) + 1 /\ \A k \in 1..Len(s) : c[b + k - 1] = s[k]
  BY <1>1, SeqFacts DEF Holds
<1>4. b \in 1..Len(c) /\ b + 1 \in 1..Len(c) /\ b + 2 \in 1..Len(c) /\ b + 3 \in 1..Len(c) /\ b + 4 \in 1..Len(c) /\ b + 5 \in 1..Len(c)
  BY <1>2, <1>3
<1>5. 1 \in 1..Len(s) /\ 2 \in 1..Len(s) /\ 3 \in 1..Len(s) /\ 4 \in 1..Len(s) /\ 5 \in 1..Len(s) /\ 6 \in 1..Len(s)
  BY <1>2
<1>6. c[b + 1 - 1] = x /\ c[b + 2 - 1] = y /\ c[b + 3 - 1] = z /\ c[b + 4 - 1] = w /\ c[b + 5 - 1] = u /\ c[b + 6 - 1] = v
  BY <1>2, <1>3, <1>5
<1>7. b + 1 - 1 = b /\ b + 2 - 1 = b + 1 /\ b + 3 - 1 = b + 2 /\ b + 4 - 1 = b + 3 /\ b + 5 - 1 = b + 4 /\ b + 6 - 1 = b + 5
  OBVIOUS
<1> QED BY <1>4, <1>6, <1>7 DEF Is

(* The labels in s have numbers of L, a number of its own each.            *)
Labelled(s, L) ==
  \A j \in 1..Len(s) : s[j].op = "label" =>
    /\ s[j].arg[2] \in L
    /\ \A i \in 1..Len(s) : s[i].op = "label" /\ s[i].arg[2] = s[j].arg[2] => i = j

(* Labels of two pieces with numbers of their own.                         *)
LEMMA LabelledConcat ==
  ASSUME NEW s, IsSeq(s), NEW t, IsSeq(t), NEW L, NEW K, L \cap K = {}, Labelled(s, L), Labelled(t, K)
  PROVE  Labelled(s \o t, L \cup K)
<1>1. /\ Len(s) \in Nat /\ Len(t) \in Nat /\ Len(s \o t) = Len(s) + Len(t)
      /\ \A k \in 1..Len(s) : (s \o t)[k] = s[k]
      /\ \A k \in 1..Len(t) : (s \o t)[Len(s) + k] = t[k]
  BY ConcatSeq
<1>2. ASSUME NEW j \in 1..Len(s \o t)
      PROVE  \/ j \in 1..Len(s) /\ (s \o t)[j] = s[j]
             \/ j - Len(s) \in 1..Len(t) /\ (s \o t)[j] = t[j - Len(s)]
  <2>1. CASE j \in 1..Len(s)
    BY <1>1, <2>1
  <2>2. CASE j \notin 1..Len(s)
    <3>1. j - Len(s) \in 1..Len(t) /\ Len(s) + (j - Len(s)) = j
      BY <1>1, <2>2
    <3>2. (s \o t)[Len(s) + (j - Len(s))] = t[j - Len(s)]
      BY <1>1, <3>1
    <3> QED BY <3>1, <3>2
  <2> QED BY <2>1, <2>2
<1> DEFINE st == s \o t
<1> HIDE DEF st
<1> SUFFICES ASSUME NEW j \in 1..Len(st), st[j].op = "label"
             PROVE  /\ st[j].arg[2] \in L \cup K
                    /\ \A i \in 1..Len(st) : st[i].op = "label" /\ st[i].arg[2] = st[j].arg[2] => i = j
  BY DEF st, Labelled
<1>3. \A i \in 1..Len(st) : \/ i \in 1..Len(s) /\ st[i] = s[i]
                            \/ i - Len(s) \in 1..Len(t) /\ st[i] = t[i - Len(s)]
  BY <1>2 DEF st
<1>4. \A i \in 1..Len(s) : s[i].op = "label" => s[i].arg[2] \in L
  BY DEF Labelled
<1>5. \A i \in 1..Len(t) : t[i].op = "label" => t[i].arg[2] \in K
  BY DEF Labelled
<1>6. CASE j \in 1..Len(s) /\ st[j] = s[j]
  <2>1. st[j].arg[2] \in L
    BY <1>4, <1>6
  <2>2. \A i \in 1..Len(s) : s[i].op = "label" /\ s[i].arg[2] = s[j].arg[2] => i = j
    BY <1>6 DEF Labelled
  <2>3. ASSUME NEW i \in 1..Len(st), st[i].op = "label", st[i].arg[2] = st[j].arg[2] PROVE i = j
    <3>1. ~(i - Len(s) \in 1..Len(t) /\ st[i] = t[i - Len(s)])
      BY <1>5, <2>1, <2>3
    <3> QED BY <1>3, <1>6, <2>2, <2>3, <3>1
  <2> QED BY <2>1, <2>3
<1>7. CASE j - Len(s) \in 1..Len(t) /\ st[j] = t[j - Len(s)]
  <2>1. st[j].arg[2] \in K
    BY <1>5, <1>7
  <2>2. \A i \in 1..Len(t) : t[i].op = "label" /\ t[i].arg[2] = t[j - Len(s)].arg[2] => i = j - Len(s)
    BY <1>7 DEF Labelled
  <2>3. ASSUME NEW i \in 1..Len(st), st[i].op = "label", st[i].arg[2] = st[j].arg[2] PROVE i = j
    <3>1. ~(i \in 1..Len(s) /\ st[i] = s[i])
      BY <1>4, <2>1, <2>3
    <3>2. i - Len(s) \in 1..Len(t) /\ st[i] = t[i - Len(s)]
      BY <1>3, <2>3, <3>1
    <3>3. i - Len(s) = j - Len(s)
      BY <1>7, <2>2, <2>3, <3>2
    <3> QED BY <1>1, <3>3
  <2> QED BY <2>1, <2>3
<1> QED BY <1>3, <1>6, <1>7

(* There may be numbers without a label.                                   *)
LEMMA LabelledMore ==
  ASSUME NEW s, NEW L, NEW K, L \subseteq K, Labelled(s, L)
  PROVE  Labelled(s, K)
BY DEF Labelled

-----------------------------------------------------------------------------
(* The code of an expression.                                              *)
ArgCode(e, n) == CGNexprs([k \in DOMAIN e.args |-> CGN[e.args[k]]], n)
CodeRule(e, n) ==
  /\ e.is = "lit" => CGN[e][n] = CGNlit(e.t, e.v, n)
  /\ e.is = "varref" => CGN[e][n] = CGNvar(e.x, n)
  /\ e.is = "element" => CGN[e][n] = CGNelement(e.x, CGN[e.i][n])
  /\ e.is = "funcall" => CGN[e][n] = CGNfuncall(e.f, ArgCode(e, n)[Len(e.args)])
  /\ e.is = "binop" /\ e.op \in {"and", "or"} =>
       CGN[e][n] = CGNshort(e.op, n, CGN[e.l][n + 2], CGN[e.r][CGN[e.l][n + 2].next])
  /\ e.is = "binop" /\ e.op \notin {"and", "or"} =>
       CGN[e][n] = CGNbinop(e.op, TYC[e.l].t, CGN[e.l][n], CGN[e.r][CGN[e.l][n].next])
  /\ e.is = "monop" => CGN[e][n] = CGNmonop(e.op, TYC[e.e].t, CGN[e.e][n])
  /\ e.is = "typecast" => CGN[e][n] = CGNtypecast(e.t, TYC[e.e].t, CGN[e.e][n])
  /\ e.is = "crash" => CGN[e][n] = Emitted(<<>>, n)

(* The code of an expression, by its kind.                                 *)
LEMMA CodeOf == \A e \in Expr : \A n \in Nat : CodeRule(e, n)
<1> SUFFICES ASSUME NEW e \in Expr, NEW n \in Nat PROVE CodeRule(e, n)
  OBVIOUS
<1>1. HasShape(e) /\ CGN[e] = CGNof(e, CGN)
  BY Shape, CGNIs
<1>2. CGN[e][n] = CGNnode(e, CGN, n)
  BY <1>1 DEF CGNof
<1> QED BY <1>1, <1>2 DEF CodeRule, CGNnode, ArgCode, HasShape

ArgsCoded(emit, n, upTo) ==
  /\ upTo[0] = Emitted(<<>>, n)
  /\ \A k \in 1..Len(emit) :
       upTo[k] = Emitted(upTo[k - 1].code \o emit[k][upTo[k - 1].next].code, emit[k][upTo[k - 1].next].next)

(* The code of arguments, round by round.                                  *)
LEMMA ExprsLoop ==
  ASSUME NEW emit, Len(emit) \in Nat, NEW start
  PROVE  ArgsCoded(emit, start, CGNexprs(emit, start))
<1> DEFINE Eq(n, g) == g = [k \in 0..n |-> IF k = 0 THEN Emitted(<<>>, start) ELSE Emitted(g[k - 1].code \o emit[k][g[k - 1].next].code, emit[k][g[k - 1].next].next)]
           B == {n \in 0..Len(emit) : \E g : Eq(n, g)}
<1>0. Len(emit) \in Nat
  OBVIOUS
<1>1. 0 \in B
  <2> DEFINE g == [k \in 0..0 |-> Emitted(<<>>, start)]
  <2>1. Eq(0, g)
    OBVIOUS
  <2> HIDE DEF g
  <2> QED BY <1>0, <2>1
<1>2. ASSUME NEW m \in 1..Len(emit), m - 1 \in B PROVE m \in B
  <2>1. PICK h : Eq(m - 1, h)
    BY <1>2
  <2> DEFINE g == [k \in 0..m |-> IF k = 0 THEN Emitted(<<>>, start) ELSE Emitted(h[k - 1].code \o emit[k][h[k - 1].next].code, emit[k][h[k - 1].next].next)]
  <2>2. ASSUME NEW k \in 0..m, k # 0 PROVE g[k - 1] = h[k - 1]
    <3>1. k - 1 \in 0..m - 1 /\ k - 1 \in 0..m
      BY <1>0, <2>2
    <3> QED BY <2>1, <3>1
  <2>3. Eq(m, g)
    BY <2>2
  <2> HIDE DEF g
  <2>4. m \in 0..Len(emit)
    BY <1>0
  <2> QED BY <2>3, <2>4
<1> HIDE DEF B
<1>3. 0..Len(emit) \subseteq B
  BY <1>0, <1>1, <1>2, RoundInduction
<1>4. \E g : Eq(Len(emit), g)
  BY <1>0, <1>3 DEF B
<1>5. Eq(Len(emit), CGNexprs(emit, start))
  <2>1. CGNexprs(emit, start) = CHOOSE g : Eq(Len(emit), g)
    BY DEF CGNexprs
  <2> HIDE DEF Eq
  <2> QED BY <1>4, <2>1
<1>6. PICK up : up = CGNexprs(emit, start)
  OBVIOUS
<1>7. up = [k \in 0..Len(emit) |-> IF k = 0 THEN Emitted(<<>>, start)
            ELSE Emitted(up[k - 1].code \o emit[k][up[k - 1].next].code, emit[k][up[k - 1].next].next)]
  BY <1>5, <1>6
<1>8. \A k \in 1..Len(emit) : k \in 0..Len(emit) /\ k # 0
  BY <1>0
<1>9. 0 \in 0..Len(emit)
  BY <1>0
<1>10. up[0] = Emitted(<<>>, start)
  BY <1>7, <1>9
<1>11. \A k \in 1..Len(emit) :
         up[k] = Emitted(up[k - 1].code \o emit[k][up[k - 1].next].code, emit[k][up[k - 1].next].next)
  BY <1>7, <1>8
<1> QED BY <1>6, <1>10, <1>11 DEF ArgsCoded

(* The code after each argument of a call.                                 *)
ArgRule(e, n) ==
  /\ ArgCode(e, n)[0] = Emitted(<<>>, n)
  /\ \A k \in 1..Len(e.args) :
       LET before == ArgCode(e, n)[k - 1]
           arg == CGN[e.args[k]][before.next]
       IN  ArgCode(e, n)[k] = Emitted(before.code \o arg.code, arg.next)

(* The code up to each argument of a call.                                 *)
LEMMA ArgOf ==
  ASSUME NEW e, NEW n, NEW S, e.args \in Seq(S)
  PROVE  ArgRule(e, n)
<1> DEFINE emit == [k \in DOMAIN e.args |-> CGN[e.args[k]]]
<1>1. emit \in Seq({CGN[e.args[k]] : k \in DOMAIN e.args}) /\ Len(emit) = Len(e.args) /\ Len(emit) \in Nat
  OBVIOUS
<1>2. \A k \in 1..Len(e.args) : emit[k] = CGN[e.args[k]]
  OBVIOUS
<1>3. ArgCode(e, n) = CGNexprs(emit, n)
  BY DEF ArgCode
<1> HIDE DEF emit
<1>4. ArgsCoded(emit, n, ArgCode(e, n))
  BY <1>1, <1>3, ExprsLoop
<1> QED BY <1>1, <1>2, <1>4 DEF ArgsCoded, ArgRule

(* Code is a sequence, the counter does not go back, and the labels of an  *)
(* expression are those the counter went over.                             *)
IsCode(g, n) == /\ IsSeq(g.code) /\ g.next \in Nat /\ g.next >= n
                /\ Labelled(g.code, n..g.next - 1)

Free(s) == IsSeq(s) /\ \A j \in 1..Len(s) : s[j].op # "label"
LEMMA LabelFree ==
  ASSUME NEW s, Free(s)
  PROVE  Labelled(s, {})
BY DEF Labelled, Free

(* Instructions put behind a code, with labels the counter goes over.      *)
LEMMA CodeGrows ==
  ASSUME NEW g, NEW n \in Nat, IsCode(g, n), NEW s, Free(s),
         NEW m \in Nat, m >= g.next
  PROVE  IsCode(Emitted(g.code \o s, m), n) /\ IsCode(Emitted(s \o g.code, m), n)
<1>1. Labelled(s, {}) /\ IsSeq(s)
  BY LabelFree DEF Free
<1>2. Labelled(g.code, n..g.next - 1) /\ IsSeq(g.code) /\ g.next \in Nat /\ g.next >= n
  BY DEF IsCode
<1>3. Labelled(g.code \o s, n..g.next - 1)
  <2>1. Labelled(g.code \o s, (n..g.next - 1) \cup {})
    BY <1>1, <1>2, LabelledConcat
  <2> QED BY <2>1, LabelledMore
<1>4. Labelled(s \o g.code, n..g.next - 1)
  <2>1. Labelled(s \o g.code, {} \cup (n..g.next - 1))
    BY <1>1, <1>2, LabelledConcat
  <2> QED BY <2>1, LabelledMore
<1>5. n..g.next - 1 \subseteq n..m - 1
  BY <1>2
<1>6. Labelled(g.code \o s, n..m - 1) /\ Labelled(s \o g.code, n..m - 1)
  BY <1>3, <1>4, <1>5, LabelledMore
<1>7. IsSeq(g.code \o s) /\ IsSeq(s \o g.code)
  BY <1>1, <1>2, ConcatSeq
<1> QED BY <1>2, <1>6, <1>7 DEF IsCode, Emitted

(* A code behind another one.                                              *)
LEMMA CodeJoins ==
  ASSUME NEW g, NEW n \in Nat, IsCode(g, n), NEW h, IsCode(h, g.next)
  PROVE  IsCode(Emitted(g.code \o h.code, h.next), n)
<1>2. /\ Labelled(g.code, n..g.next - 1) /\ IsSeq(g.code) /\ g.next \in Nat /\ g.next >= n
      /\ Labelled(h.code, g.next..h.next - 1) /\ IsSeq(h.code) /\ h.next \in Nat /\ h.next >= g.next
  BY DEF IsCode
<1>3. (n..g.next - 1) \cap (g.next..h.next - 1) = {}
  BY <1>2
<1>4. Labelled(g.code \o h.code, (n..g.next - 1) \cup (g.next..h.next - 1))
  BY <1>2, <1>3, LabelledConcat
<1>5. (n..g.next - 1) \cup (g.next..h.next - 1) \subseteq n..h.next - 1
  BY <1>2
<1>6. Labelled(g.code \o h.code, n..h.next - 1)
  BY <1>4, <1>5, LabelledMore
<1>7. IsSeq(g.code \o h.code)
  BY <1>2, ConcatSeq
<1> QED BY <1>2, <1>6, <1>7 DEF IsCode, Emitted

(* The code that && and ||, and the cast from bool to int, put at the end. *)
ShortEnd(kind, n) ==
  <<To("jump", "end", n + 1), Label(kind, n), I("const", "bool", Truth(kind = "or")), Label("end", n + 1)>>
CastEnd(n) ==
  <<To("branch_t", "true", n), I("const", "int", 0), To("jump", "cast", n + 1), Label("true", n),
    I("const", "int", 1), Label("cast", n + 1)>>

(* The labels at the end of a branch.                                      *)
LEMMA EndLabels ==
  ASSUME NEW kind, NEW n \in Nat
  PROVE  /\ Labelled(ShortEnd(kind, n), {n, n + 1}) /\ IsSeq(ShortEnd(kind, n))
         /\ Labelled(CastEnd(n), {n, n + 1}) /\ IsSeq(CastEnd(n))
<1>0. n # n + 1
  OBVIOUS
<1>1. Labelled(ShortEnd(kind, n), {n, n + 1})
  <2> DEFINE s == ShortEnd(kind, n)
  <2>1. Len(s) = 4 /\ s[1].op # "label" /\ s[3].op # "label" /\ s[2].arg[2] = n /\ s[4].arg[2] = n + 1
    BY DEF ShortEnd, To, Label, I
  <2> HIDE DEF s
  <2>2. \A j \in 1..4 : j = 1 \/ j = 2 \/ j = 3 \/ j = 4
    OBVIOUS
  <2>3. \A j \in 1..4 : s[j].op = "label" => (j = 2 /\ s[j].arg[2] = n) \/ (j = 4 /\ s[j].arg[2] = n + 1)
    BY <2>1, <2>2
  <2>4. Labelled(s, {n, n + 1})
    BY <1>0, <2>1, <2>3 DEF Labelled
  <2> QED BY <2>4 DEF s
<1>2. Labelled(CastEnd(n), {n, n + 1})
  <2> DEFINE s == CastEnd(n)
  <2>1. /\ Len(s) = 6 /\ s[1].op # "label" /\ s[2].op # "label" /\ s[3].op # "label" /\ s[5].op # "label"
        /\ s[4].arg[2] = n /\ s[6].arg[2] = n + 1
    BY DEF CastEnd, To, Label, I
  <2> HIDE DEF s
  <2>2. \A j \in 1..6 : j = 1 \/ j = 2 \/ j = 3 \/ j = 4 \/ j = 5 \/ j = 6
    OBVIOUS
  <2>3. \A j \in 1..6 : s[j].op = "label" => (j = 4 /\ s[j].arg[2] = n) \/ (j = 6 /\ s[j].arg[2] = n + 1)
    BY <2>1, <2>2
  <2>4. Labelled(s, {n, n + 1})
    BY <1>0, <2>1, <2>3 DEF Labelled
  <2> QED BY <2>4 DEF s
<1>3. IsSeq(ShortEnd(kind, n)) /\ IsSeq(CastEnd(n))
  BY SeqFour, SeqSix DEF ShortEnd, CastEnd
<1> QED BY <1>1, <1>2, <1>3

-----------------------------------------------------------------------------
(* Code without labels, and what is put behind an expression.              *)
LEMMA FreeNone == Free(<<>>)
<1>1. PICK s : s = <<>>
  OBVIOUS
<1>2. 1..Len(s) = {} /\ IsSeq(s)
  BY <1>1, SeqNone, SeqOne, SeqTwo
<1>3. Free(s)
  BY <1>2 DEF Free
<1> QED BY <1>1, <1>3

LEMMA FreeOne ==
  ASSUME NEW a, a.op # "label"
  PROVE  Free(<<a>>)
<1>1. PICK t : t = <<a>>
  OBVIOUS
<1>2. 1..Len(t) = {1} /\ t[1] = a /\ IsSeq(t)
  BY <1>1, SeqNone, SeqOne, SeqTwo
<1>3. Free(t)
  BY <1>2 DEF Free
<1> QED BY <1>1, <1>3

LEMMA FreeTwo ==
  ASSUME NEW a, NEW b, a.op # "label", b.op # "label"
  PROVE  Free(<<a, b>>)
<1>1. PICK t : t = <<a, b>>
  OBVIOUS
<1>2. 1..Len(t) = {1, 2} /\ t[1] = a /\ t[2] = b /\ IsSeq(t)
  BY <1>1, SeqNone, SeqOne, SeqTwo
<1>3. Free(t)
  BY <1>2 DEF Free
<1> QED BY <1>1, <1>3

(* The operation of an instruction.                                        *)
LEMMA OpOfI == \A op, t, arg : I(op, t, arg).op = op
BY DEF I

(* Code without labels is code.                                            *)
LEMMA CodeAlone ==
  ASSUME NEW s, Free(s), NEW n \in Nat
  PROVE  IsCode(Emitted(s, n), n)
<1>1. Labelled(s, n..n - 1) /\ IsSeq(s)
  BY LabelFree, LabelledMore DEF Free
<1> QED BY <1>1 DEF IsCode, Emitted

(* So it is behind other code.                                             *)
LEMMA CodeEnds ==
  ASSUME NEW n \in Nat, NEW a \in Nat, NEW g, IsCode(g, a), NEW s, IsSeq(s), NEW k \in Nat, Labelled(s, {k, k + 1}),
         NEW m \in Nat, (a..g.next - 1) \cap {k, k + 1} = {}, (a..g.next - 1) \cup {k, k + 1} \subseteq n..m - 1, m >= n
  PROVE  IsCode(Emitted(g.code \o s, m), n)
<1>1. Labelled(g.code, a..g.next - 1) /\ IsSeq(g.code)
  BY DEF IsCode
<1>3. Labelled(g.code \o s, n..m - 1)
  <2>1. Labelled(g.code \o s, (a..g.next - 1) \cup {k, k + 1})
    BY <1>1, LabelledConcat
  <2> QED BY <2>1, LabelledMore
<1>4. IsSeq(g.code \o s)
  BY <1>1, ConcatSeq
<1> QED BY <1>1, <1>3, <1>4 DEF IsCode, Emitted

(* The end of && and ||.                                                   *)
LEMMA ShortEnds ==
  ASSUME NEW n \in Nat, NEW g, IsCode(g, n + 2), NEW s, IsSeq(s), Labelled(s, {n, n + 1})
  PROVE  IsCode(Emitted(g.code \o s, g.next), n)
<1>1. g.next \in Nat /\ g.next >= n + 2
  BY DEF IsCode
<1>2. /\ (n + 2..g.next - 1) \cap {n, n + 1} = {}
      /\ (n + 2..g.next - 1) \cup {n, n + 1} \subseteq n..g.next - 1 /\ g.next >= n /\ n + 2 \in Nat
  BY <1>1
<1> QED BY <1>1, <1>2, CodeEnds

(* The end of a cast from bool to int.                                     *)
LEMMA CastEnds ==
  ASSUME NEW n \in Nat, NEW g, IsCode(g, n), NEW s, IsSeq(s), Labelled(s, {g.next, g.next + 1})
  PROVE  IsCode(Emitted(g.code \o s, g.next + 2), n)
<1>1. g.next \in Nat /\ g.next >= n
  BY DEF IsCode
<1>2. /\ (n..g.next - 1) \cap {g.next, g.next + 1} = {} /\ g.next + 2 \in Nat
      /\ (n..g.next - 1) \cup {g.next, g.next + 1} \subseteq n..(g.next + 2) - 1 /\ g.next + 2 >= n
  BY <1>1
<1> QED BY <1>1, <1>2, CodeEnds

CastTail(to, from, n) ==
  CASE from = to \/ (to = "float" /\ from # "int") -> <<>>
    [] to = "float" /\ from = "int" -> <<I("i2f", "int", "")>>
    [] to = "int" /\ from = "float" -> <<I("f2i", "float", "")>>
    [] to = "int" /\ from = "bool" -> CastEnd(n)
    [] to = "bool" /\ from # "bool" -> <<I("const", from, 0), I("ne", from, "")>>

(* What a cast emits, by its types.                                        *)
LEMMA CastTails ==
  ASSUME NEW to \in Basic, NEW from \in Basic, NEW n
  PROVE  /\ from = to => CastTail(to, from, n) = <<>>
         /\ to = "float" /\ from = "bool" => CastTail(to, from, n) = <<>>
         /\ to = "float" /\ from = "int" => CastTail(to, from, n) = <<I("i2f", "int", "")>>
         /\ to = "int" /\ from = "float" => CastTail(to, from, n) = <<I("f2i", "float", "")>>
         /\ to = "int" /\ from = "bool" => CastTail(to, from, n) = CastEnd(n)
         /\ to = "bool" /\ from # "bool" => CastTail(to, from, n) = <<I("const", from, 0), I("ne", from, "")>>
<1>1. from = to => CastTail(to, from, n) = <<>>
  BY DEF CastTail
<1>2. to = "float" /\ from = "bool" => CastTail(to, from, n) = <<>>
  BY DEF CastTail
<1>3. to = "float" /\ from = "int" => CastTail(to, from, n) = <<I("i2f", "int", "")>>
  BY DEF CastTail
<1>4. to = "int" /\ from = "float" => CastTail(to, from, n) = <<I("f2i", "float", "")>>
  BY DEF CastTail
<1>5. to = "int" /\ from = "bool" => CastTail(to, from, n) = CastEnd(n)
  BY DEF CastTail
<1>6. to = "bool" /\ from # "bool" => CastTail(to, from, n) = <<I("const", from, 0), I("ne", from, "")>>
  BY DEF CastTail, Basic, Numeric
<1> QED BY <1>1, <1>2, <1>3, <1>4, <1>5, <1>6

(* The types of a cast that is accepted.                                   *)
LEMMA CastFrom ==
  ASSUME NEW e \in Expr, e.is = "typecast", TYC[e].ok
  PROVE  e.t \in Basic /\ TYC[e.e].t \in Basic
<1>1. HasShape(e) /\ OkRule(e)
  BY Shape, OkOf
<1>2. e.e \in Expr /\ TYC[e.e].t # "void" /\ e.t \in Basic
  BY <1>1 DEF HasShape, OkRule
<1>3. TYC[e.e].t \in {"int", "float", "bool", "void"}
  BY <1>2, TypesAreTypes DEF Basic, Numeric
<1> QED BY <1>2, <1>3 DEF Basic, Numeric

(* What CodeGen emits for an accepted expression is code.                  *)
LEMMA CodeFacts == \A e \in Expr : TYC[e].ok => \A n \in Nat : IsCode(CGN[e][n], n)
<1> DEFINE S == {e \in Expr : TYC[e].ok => \A n \in Nat : IsCode(CGN[e][n], n)}
<1>1. ASSUME NEW e \in Expr, Parts(e) \subseteq S PROVE e \in S
  <2> SUFFICES ASSUME TYC[e].ok, NEW n \in Nat PROVE IsCode(CGN[e][n], n)
    OBVIOUS
  <2>0. HasShape(e) /\ CodeRule(e, n)
    BY Shape, CodeOf
  <2>1. \A c \in Parts(e) : \A m \in Nat : IsCode(CGN[c][m], m)
    BY <1>1, AcceptedSuits
  <2> HIDE DEF S
  <2>2. CASE e.is = "lit"
    <3>1. CGN[e][n] = Emitted(<<I("const", e.t, Printed(e.t, e.v))>>, n)
      BY <2>0, <2>2 DEF CodeRule, CGNlit
    <3> DEFINE s == <<I("const", e.t, Printed(e.t, e.v))>>
    <3>2. Free(s)
      BY FreeNone, FreeOne, FreeTwo, OpOfI
    <3> QED BY <3>1, <3>2, CodeAlone
  <2>3. CASE e.is = "varref"
    <3> DEFINE s == IF VarType[e.x].dim = 0 THEN <<I("load", VarType[e.x].type, e.x)>>
                    ELSE <<I("load", "ref", e.x), I("loaddim", "int", e.x)>>
    <3>1. CGN[e][n] = Emitted(s, n)
      BY <2>0, <2>3 DEF CodeRule, CGNvar
    <3>2. Free(s)
      BY FreeNone, FreeOne, FreeTwo, OpOfI
    <3> QED BY <3>1, <3>2, CodeAlone
  <2>4. CASE e.is = "element"
    <3> DEFINE s == <<I("load", "ref", e.x), I("loada", VarType[e.x].type, e.x)>>
    <3>1. PICK g : g = CGN[e.i][n]
      OBVIOUS
    <3>2. CGN[e][n] = Emitted(g.code \o s, g.next) /\ IsCode(g, n)
      BY <2>0, <2>1, <2>4, <3>1 DEF CodeRule, CGNelement, HasShape
    <3>3. Free(s)
      BY FreeNone, FreeOne, FreeTwo, OpOfI
    <3>4. g.next \in Nat /\ g.next >= g.next
      BY <3>2 DEF IsCode
    <3> HIDE DEF s
    <3> QED BY <3>2, <3>3, <3>4, CodeGrows
  <2>5. CASE e.is = "funcall"
    <3>1. PICK up : up = ArgCode(e, n)
      OBVIOUS
    <3>2. /\ e.args \in Seq(Expr) /\ Len(e.args) \in Nat
          /\ \A k \in 1..Len(e.args) : \A m \in Nat : IsCode(CGN[e.args[k]][m], m)
      BY <2>0, <2>1, <2>5 DEF HasShape
    <3>3. ArgRule(e, n)
      BY <3>2, ArgOf
    <3> DEFINE B == {k \in 0..Len(e.args) : IsCode(up[k], n)}
    <3>4. 0 \in B
      <4>1. IsCode(Emitted(<<>>, n), n)
        <5>1. PICK s : s = <<>>
          OBVIOUS
        <5>2. Free(s)
          BY <5>1, FreeNone, FreeOne, FreeTwo
        <5>3. IsCode(Emitted(s, n), n)
          BY <5>2, CodeAlone
        <5> QED BY <5>1, <5>3
      <4> QED BY <3>1, <3>2, <3>3, <4>1 DEF ArgRule
    <3>5. ASSUME NEW k \in 1..Len(e.args), k - 1 \in B PROVE k \in B
      <4>1. PICK g, h : g = up[k - 1] /\ h = CGN[e.args[k]][g.next]
        OBVIOUS
      <4>2. up[k] = Emitted(g.code \o h.code, h.next) /\ IsCode(g, n) /\ k \in 0..Len(e.args)
        BY <3>1, <3>2, <3>3, <3>5, <4>1, SMTT(20) DEF ArgRule
      <4>3. g.next \in Nat
        BY <4>2 DEF IsCode
      <4>4. IsCode(h, g.next)
        BY <3>2, <4>1, <4>3
      <4> QED BY <4>2, <4>4, CodeJoins
    <3> HIDE DEF B
    <3>6. 0..Len(e.args) \subseteq B
      BY <3>2, <3>4, <3>5, RoundInduction
    <3>7. PICK g : g = up[Len(e.args)]
      OBVIOUS
    <3>8. IsCode(g, n)
      BY <3>2, <3>6, <3>7 DEF B
    <3>9. CGN[e][n] = Emitted(<<I("isrg", "links", e.f)>> \o g.code \o <<I("jsr", FunType[e.f].type, e.f)>>, g.next)
      BY <2>0, <2>5, <3>1, <3>7 DEF CodeRule, CGNfuncall
    <3> DEFINE s == <<I("isrg", "links", e.f)>>
               t == <<I("jsr", FunType[e.f].type, e.f)>>
    <3>10. /\ Free(s)
           /\ Free(t)
      BY FreeNone, FreeOne, FreeTwo, OpOfI
    <3>11. g.next \in Nat /\ g.next >= g.next
      BY <3>8 DEF IsCode
    <3>12. CGN[e][n] = Emitted((s \o g.code) \o t, g.next)
      BY <3>9
    <3> HIDE DEF s, t
    <3>13. PICK h : h = Emitted(s \o g.code, g.next)
      OBVIOUS
    <3>14. IsCode(h, n)
      BY <3>8, <3>10, <3>11, <3>13, CodeGrows
    <3>15. h.code = s \o g.code /\ h.next = g.next
      BY <3>13 DEF Emitted
    <3>16. IsCode(Emitted(h.code \o t, g.next), n)
      BY <3>10, <3>11, <3>14, <3>15, CodeGrows
    <3> QED BY <3>12, <3>15, <3>16
  <2>6. CASE e.is = "binop" /\ e.op \in {"and", "or"}
    <3>1. PICK g, h : g = CGN[e.l][n + 2] /\ h = CGN[e.r][g.next]
      OBVIOUS
    <3>2. IsCode(g, n + 2)
      BY <2>0, <2>1, <2>6, <3>1 DEF HasShape
    <3>3. g.next \in Nat /\ g.next >= g.next
      BY <3>2 DEF IsCode
    <3>4. IsCode(h, g.next)
      BY <2>0, <2>1, <2>6, <3>1, <3>3 DEF HasShape
    <3> DEFINE s == <<To(IF e.op = "and" THEN "branch_f" ELSE "branch_t", e.op, n)>>
               t == ShortEnd(e.op, n)
    <3>5. Free(s)
      BY FreeNone, FreeOne, FreeTwo, OpOfI DEF To
    <3>6. Labelled(t, {n, n + 1}) /\ IsSeq(t)
      BY EndLabels
    <3>7. IsSeq(g.code) /\ IsSeq(h.code) /\ h.next \in Nat
      BY <3>2, <3>4 DEF IsCode
    <3>8. CGN[e][n] = Emitted(((g.code \o s) \o h.code) \o t, h.next)
      BY <2>0, <2>6, <3>1 DEF CodeRule, CGNshort, ShortEnd
    <3> HIDE DEF s, t
    <3>9. PICK g1 : g1 = Emitted(g.code \o s, g.next)
      OBVIOUS
    <3>10. IsCode(g1, n + 2) /\ g1.code = g.code \o s /\ g1.next = g.next
      <4>1. IsCode(Emitted(g.code \o s, g.next), n + 2)
        BY <3>2, <3>3, <3>5, CodeGrows
      <4> QED BY <3>9, <4>1 DEF Emitted
    <3>11. PICK g2 : g2 = Emitted(g1.code \o h.code, h.next)
      OBVIOUS
    <3>12. IsCode(g2, n + 2) /\ g2.code = (g.code \o s) \o h.code /\ g2.next = h.next
      <4>1. IsCode(Emitted(g1.code \o h.code, h.next), n + 2)
        <5>1. IsCode(h, g1.next) /\ n + 2 \in Nat
          BY <3>4, <3>10
        <5> QED BY <3>10, <5>1, CodeJoins
      <4> QED BY <3>10, <3>11, <4>1 DEF Emitted
    <3>13. IsCode(Emitted(g2.code \o t, h.next), n)
      BY <3>6, <3>12, ShortEnds
    <3> QED BY <3>8, <3>12, <3>13
  <2>7. CASE e.is = "binop" /\ e.op \notin {"and", "or"}
    <3>1. PICK g, h : g = CGN[e.l][n] /\ h = CGN[e.r][g.next]
      OBVIOUS
    <3>2. IsCode(g, n)
      BY <2>0, <2>1, <2>7, <3>1 DEF HasShape
    <3>3. g.next \in Nat
      BY <3>2 DEF IsCode
    <3>4. IsCode(h, g.next)
      BY <2>0, <2>1, <2>7, <3>1, <3>3 DEF HasShape
    <3> DEFINE s == <<I(e.op, IF e.op = "mod" THEN "int" ELSE TYC[e.l].t, "")>>
    <3>5. Free(s)
      <4>1. e.op # "label"
        BY <2>0, <2>7 DEF HasShape, Arith, Order, Equality
      <4>2. PICK a : a = I(e.op, IF e.op = "mod" THEN "int" ELSE TYC[e.l].t, "")
        OBVIOUS
      <4>3. a.op # "label"
        BY <4>1, <4>2, OpOfI
      <4>4. s = <<a>>
        BY <4>2, Zenon
      <4> HIDE DEF s
      <4> QED BY <4>3, <4>4, FreeOne
    <3>6. CGN[e][n] = Emitted((g.code \o h.code) \o s, h.next)
      BY <2>0, <2>7, <3>1 DEF CodeRule, CGNbinop
    <3> HIDE DEF s
    <3>7. PICK g1 : g1 = Emitted(g.code \o h.code, h.next)
      OBVIOUS
    <3>8. IsCode(g1, n) /\ g1.code = g.code \o h.code /\ g1.next = h.next
      <4>1. IsCode(Emitted(g.code \o h.code, h.next), n)
        BY <3>2, <3>4, CodeJoins
      <4> QED BY <3>7, <4>1 DEF Emitted
    <3>9. h.next \in Nat /\ h.next >= g1.next
      BY <3>4, <3>8 DEF IsCode
    <3>10. IsCode(Emitted(g1.code \o s, h.next), n)
      BY <3>5, <3>8, <3>9, CodeGrows
    <3> QED BY <3>6, <3>8, <3>10
  <2>8. CASE e.is = "monop"
    <3> DEFINE s == <<IF e.op = "neg" THEN I("neg", TYC[e.e].t, "") ELSE I("not", "bool", "")>>
    <3>1. PICK g : g = CGN[e.e][n]
      OBVIOUS
    <3>2. IsCode(g, n) /\ CGN[e][n] = Emitted(Append(g.code, s[1]), g.next)
      BY <2>0, <2>1, <2>8, <3>1 DEF CodeRule, CGNmonop, HasShape
    <3>3. Free(s)
      <4>2. PICK a : a = IF e.op = "neg" THEN I("neg", TYC[e.e].t, "") ELSE I("not", "bool", "")
        OBVIOUS
      <4>3. a.op # "label"
        BY <4>2 DEF I
      <4>4. s = <<a>>
        BY <4>2, Zenon
      <4> HIDE DEF s
      <4> QED BY <4>3, <4>4, FreeOne
    <3>4. g.next \in Nat /\ g.next >= g.next
      <4>1. IsCode(g, n)
        BY <3>2
      <4> QED BY <4>1 DEF IsCode
    <3>5. Append(g.code, s[1]) = g.code \o s
      <4>1. PICK T : g.code \in Seq(T)
        BY <3>2 DEF IsCode, IsSeq
      <4>2. PICK x : x = s[1]
        OBVIOUS
      <4>3. s = <<x>>
        BY <4>2
      <4>4. PICK U : U = T \cup {x}
        OBVIOUS
      <4>5. g.code \in Seq(U) /\ x \in U
        BY <4>1, <4>4
      <4> HIDE DEF s
      <4>6. Append(g.code, x) = g.code \o <<x>>
        BY <4>5
      <4> QED BY <4>2, <4>3, <4>6
    <3> HIDE DEF s
    <3>6. IsCode(Emitted(g.code \o s, g.next), n)
      BY <3>2, <3>3, <3>4, CodeGrows
    <3> QED BY <3>2, <3>5, <3>6
  <2>9. CASE e.is = "typecast"
    <3>1. PICK g : g = CGN[e.e][n]
      OBVIOUS
    <3>2. e.t \in Basic /\ TYC[e.e].t \in Basic
      BY <2>9, CastFrom
    <3>3. PICK s : s = CastTail(e.t, TYC[e.e].t, g.next)
      OBVIOUS
    <3>4. IsCode(g, n) /\ CGN[e][n] = Emitted(g.code \o s, g.next + 2)
      BY <2>0, <2>1, <2>9, <3>1, <3>3 DEF CodeRule, CGNtypecast, CastTail, CastEnd, HasShape
    <3>5. g.next \in Nat /\ g.next + 2 \in Nat /\ g.next + 2 >= g.next
      BY <3>4 DEF IsCode
    <3>6. CASE e.t = "int" /\ TYC[e.e].t = "bool"
      <4>1. s = CastEnd(g.next)
        BY <3>2, <3>3, <3>6, CastTails
      <4>2. Labelled(s, {g.next, g.next + 1}) /\ IsSeq(s)
        BY <3>5, <4>1, EndLabels
      <4> QED BY <3>4, <4>2, CastEnds
    <3>7. CASE ~(e.t = "int" /\ TYC[e.e].t = "bool")
      <4>1. \/ s = <<>> \/ s = <<I("i2f", "int", "")>> \/ s = <<I("f2i", "float", "")>>
            \/ s = <<I("const", TYC[e.e].t, 0), I("ne", TYC[e.e].t, "")>>
        BY <3>2, <3>3, <3>7, CastTails, ZenonT(20) DEF Basic, Numeric
      <4>2. Free(s)
        <5>1. CASE s = <<>>
          BY <5>1, FreeNone
        <5>4. CASE s = <<I("i2f", "int", "")>>
          <6>1. Free(<<I("i2f", "int", "")>>)
            <7>1. PICK a : a = I("i2f", "int", "")
              OBVIOUS
            <7>2. a.op # "label"
              BY <7>1 DEF I
            <7> QED BY <7>1, <7>2, FreeOne
          <6> QED BY <5>4, <6>1
        <5>5. CASE s = <<I("f2i", "float", "")>>
          <6>1. Free(<<I("f2i", "float", "")>>)
            <7>1. PICK a : a = I("f2i", "float", "")
              OBVIOUS
            <7>2. a.op # "label"
              BY <7>1 DEF I
            <7> QED BY <7>1, <7>2, FreeOne
          <6> QED BY <5>5, <6>1
        <5>6. CASE s = <<I("const", TYC[e.e].t, 0), I("ne", TYC[e.e].t, "")>>
          <6>1. Free(<<I("const", TYC[e.e].t, 0), I("ne", TYC[e.e].t, "")>>)
            <7>1. PICK a, b : a = I("const", TYC[e.e].t, 0) /\ b = I("ne", TYC[e.e].t, "")
              OBVIOUS
            <7>2. a.op # "label" /\ b.op # "label"
              BY <7>1 DEF I
            <7> QED BY <7>1, <7>2, FreeTwo
          <6> QED BY <5>6, <6>1
        <5> QED BY <4>1, <5>1, <5>4, <5>5, <5>6
      <4> QED BY <3>4, <3>5, <4>2, CodeGrows
    <3> QED BY <3>6, <3>7
  <2>10. CASE e.is = "crash"
    <3>1. CGN[e][n] = Emitted(<<>>, n)
      BY <2>0, <2>10 DEF CodeRule
    <3>2. PICK s : s = <<>>
      OBVIOUS
    <3>3. Free(s)
      BY <3>2, FreeNone, FreeOne, FreeTwo
    <3>4. IsCode(Emitted(s, n), n)
      BY <3>3, CodeAlone
    <3> QED BY <3>1, <3>2, <3>4
  <2> QED BY <2>0, <2>2, <2>3, <2>4, <2>5, <2>6, <2>7, <2>8, <2>9, <2>10 DEF HasShape
<1> HIDE DEF S
<1>2. Expr \subseteq S
  BY <1>1, ExprInduction
<1> QED BY <1>2 DEF S

-----------------------------------------------------------------------------
(* Where the code of an expression and of its parts is in the code c.      *)
Size(e, n) == Len(CGN[e][n].code)
After(e, n) == CGN[e][n].next
LaidOut(c, b, e, n) == Holds(c, b, CGN[e][n].code)

LEMMA CodeIn == \A s, m : Emitted(s, m).code = s /\ Emitted(s, m).next = m
BY DEF Emitted

(* Sizes and label counters are numbers.                                   *)
LEMMA SizeFacts ==
  ASSUME NEW e \in Expr, TYC[e].ok, NEW n \in Nat
  PROVE  /\ Size(e, n) \in Nat /\ After(e, n) \in Nat /\ After(e, n) >= n
         /\ IsSeq(CGN[e][n].code) /\ IsCode(CGN[e][n], n)
<1>1. IsCode(CGN[e][n], n)
  BY CodeFacts
<1> QED BY <1>1, SeqFacts DEF IsCode, Size, After

LaidLit(c, b, e, n) == Size(e, n) = 1 /\ Is(c, b, I("const", e.t, Printed(e.t, e.v)))
LEMMA LitLaid ==
  ASSUME NEW c, IsSeq(c), NEW b \in Nat, NEW e \in Expr, e.is = "lit", NEW n \in Nat, LaidOut(c, b, e, n)
  PROVE  LaidLit(c, b, e, n)
<1>a. CodeRule(e, n)
  BY CodeOf
<1>1. PICK x : x = I("const", e.t, Printed(e.t, e.v))
  OBVIOUS
<1>2. CGN[e][n].code = <<x>>
  BY <1>1, <1>a DEF CodeRule, CGNlit, Emitted
<1>3. Holds(c, b, <<x>>)
  BY <1>2 DEF LaidOut
<1>4. Is(c, b, x)
  BY <1>3, HoldsOne
<1> QED BY <1>1, <1>2, <1>4 DEF LaidLit, Size

LaidVar(c, b, e, n) ==
  /\ VarType[e.x].dim = 0 => Size(e, n) = 1 /\ Is(c, b, I("load", VarType[e.x].type, e.x))
  /\ VarType[e.x].dim # 0 => /\ Size(e, n) = 2 /\ Is(c, b, I("load", "ref", e.x))
                             /\ Is(c, b + 1, I("loaddim", "int", e.x))
LEMMA VarLaid ==
  ASSUME NEW c, IsSeq(c), NEW b \in Nat, NEW e \in Expr, e.is = "varref", NEW n \in Nat, LaidOut(c, b, e, n)
  PROVE  LaidVar(c, b, e, n)
<1>a. CodeRule(e, n)
  BY CodeOf
<1>1. CASE VarType[e.x].dim = 0
  <2>1. PICK x : x = I("load", VarType[e.x].type, e.x)
    OBVIOUS
  <2>2. CGN[e][n].code = <<x>>
    BY <1>1, <2>1, <1>a DEF CodeRule, CGNvar, Emitted
  <2>3. Holds(c, b, <<x>>)
    BY <2>2 DEF LaidOut
  <2>4. Is(c, b, x)
    BY <2>3, HoldsOne
  <2> QED BY <1>1, <2>1, <2>2, <2>4 DEF LaidVar, Size
<1>2. CASE VarType[e.x].dim # 0
  <2>1. PICK x, y : x = I("load", "ref", e.x) /\ y = I("loaddim", "int", e.x)
    OBVIOUS
  <2>2. CGN[e][n].code = <<x, y>>
    BY <1>2, <2>1, <1>a DEF CodeRule, CGNvar, Emitted
  <2>3. Holds(c, b, <<x, y>>)
    BY <2>2 DEF LaidOut
  <2>4. Is(c, b, x) /\ Is(c, b + 1, y)
    BY <2>3, HoldsTwo
  <2> QED BY <1>2, <2>1, <2>2, <2>4 DEF LaidVar, Size
<1> QED BY <1>1, <1>2

LaidElement(c, b, e, n) ==
  LET x == b + Size(e.i, n)
  IN  /\ LaidOut(c, b, e.i, n) /\ Size(e, n) = Size(e.i, n) + 2
      /\ Is(c, x, I("load", "ref", e.x)) /\ Is(c, x + 1, I("loada", VarType[e.x].type, e.x))
LEMMA ElementLaid ==
  ASSUME NEW c, IsSeq(c), NEW b \in Nat, NEW e \in Expr, e.is = "element", TYC[e].ok, NEW n \in Nat,
         LaidOut(c, b, e, n)
  PROVE  LaidElement(c, b, e, n)
<1>a. CodeRule(e, n)
  BY CodeOf
<1>0. HasShape(e) /\ e.i \in Expr /\ TYC[e.i].ok
  BY Shape, OkOf DEF HasShape, OkRule
<1>1. PICK x, y : x = I("load", "ref", e.x) /\ y = I("loada", VarType[e.x].type, e.x)
  OBVIOUS
<1>2. PICK g : g = CGN[e.i][n].code
  OBVIOUS
<1>3. CGN[e][n].code = g \o <<x, y>> /\ IsSeq(g) /\ IsSeq(<<x, y>>) /\ Len(g) = Size(e.i, n) /\ Len(g) \in Nat
  <2>1. CGN[e][n].code = g \o <<x, y>>
    <3>1. CGN[e][n] = Emitted(g \o <<x, y>>, CGN[e.i][n].next)
      BY <1>a, <1>1, <1>2 DEF CodeRule, CGNelement
    <3> QED BY <3>1, CodeIn
  <2>2. IsSeq(g) /\ Len(g) = Size(e.i, n) /\ Len(g) \in Nat
    BY <1>0, <1>2, SizeFacts DEF Size
  <2>3. IsSeq(<<x, y>>)
    BY SeqTwo
  <2> QED BY <2>1, <2>2, <2>3
<1>4. Holds(c, b, g) /\ Holds(c, b + Len(g), <<x, y>>)
  BY <1>3, HoldsConcat DEF LaidOut
<1>5. Is(c, b + Len(g), x) /\ Is(c, b + Len(g) + 1, y)
  BY <1>3, <1>4, HoldsTwo
<1>6. Len(g \o <<x, y>>) = Len(g) + 2
  <2>1. PICK t : t = <<x, y>>
    OBVIOUS
  <2>2. Len(t) = 2 /\ IsSeq(t)
    BY <1>3, <2>1
  <2>3. Len(g \o t) = Len(g) + Len(t)
    BY <1>3, <2>2, ConcatSeq
  <2> QED BY <2>1, <2>2, <2>3
<1> QED BY <1>1, <1>2, <1>3, <1>4, <1>5, <1>6 DEF LaidElement, LaidOut, Size

LaidShort(c, b, e, n) ==
  LET x == b + Size(e.l, n + 2)
      y == x + 1 + Size(e.r, After(e.l, n + 2))
  IN  /\ LaidOut(c, b, e.l, n + 2) /\ LaidOut(c, x + 1, e.r, After(e.l, n + 2))
      /\ Is(c, x, To(IF e.op = "and" THEN "branch_f" ELSE "branch_t", e.op, n))
      /\ Is(c, y, To("jump", "end", n + 1)) /\ Is(c, y + 1, Label(e.op, n))
      /\ Is(c, y + 2, I("const", "bool", Truth(e.op = "or"))) /\ Is(c, y + 3, Label("end", n + 1))
      /\ b + Size(e, n) = y + 4

(* && and ||: both operands, the branch and the jump behind them.          *)
LEMMA ShortLaid ==
  ASSUME NEW c, IsSeq(c), NEW b \in Nat, NEW e \in Expr, e.is = "binop", e.op \in {"and", "or"}, TYC[e].ok,
         NEW n \in Nat, LaidOut(c, b, e, n)
  PROVE  LaidShort(c, b, e, n)
<1>a. CodeRule(e, n)
  BY CodeOf
<1>0. HasShape(e) /\ e.l \in Expr /\ e.r \in Expr /\ TYC[e.l].ok /\ TYC[e.r].ok /\ n + 2 \in Nat
  BY Shape, OkOf DEF HasShape, OkRule
<1>1. PICK k : k = After(e.l, n + 2)
  OBVIOUS
<1>2. k \in Nat
  BY <1>0, <1>1, SizeFacts
<1>3. PICK g, h : g = CGN[e.l][n + 2].code /\ h = CGN[e.r][k].code
  OBVIOUS
<1>4. PICK a, b1, b2, b3, b4 : /\ a = To(IF e.op = "and" THEN "branch_f" ELSE "branch_t", e.op, n)
                               /\ b1 = To("jump", "end", n + 1) /\ b2 = Label(e.op, n)
                               /\ b3 = I("const", "bool", Truth(e.op = "or")) /\ b4 = Label("end", n + 1)
  OBVIOUS
<1>5. CGN[e][n].code = ((g \o <<a>>) \o h) \o <<b1, b2, b3, b4>>
  <2>1. CGN[e][n] = Emitted(((g \o <<a>>) \o h) \o <<b1, b2, b3, b4>>, CGN[e.r][k].next)
    BY <1>1, <1>3, <1>4, <1>a DEF CodeRule, CGNshort, After
  <2> QED BY <2>1, CodeIn
<1>6. IsSeq(g) /\ IsSeq(h) /\ Len(g) = Size(e.l, n + 2) /\ Len(h) = Size(e.r, k)
      /\ IsSeq(<<a>>) /\ IsSeq(<<b1, b2, b3, b4>>)
  BY <1>0, <1>2, <1>3, SizeFacts, SeqOne, SeqFour DEF Size
<1>7. PICK s : s = g \o <<a>>
  OBVIOUS
<1>8. PICK t : t = s \o h
  OBVIOUS
<1>9. IsSeq(s) /\ Len(s) = Len(g) + 1 /\ Len(g) \in Nat /\ Len(s) \in Nat
  <2>1. PICK w : w = <<a>>
    OBVIOUS
  <2>2. Len(w) = 1 /\ IsSeq(w)
    BY <1>6, <2>1
  <2>3. IsSeq(g \o w) /\ Len(g \o w) = Len(g) + Len(w) /\ Len(g) \in Nat
    BY <1>6, <2>2, ConcatSeq, ZenonT(20)
  <2> QED BY <1>7, <2>1, <2>2, <2>3
<1>10. IsSeq(t) /\ Len(t) = Len(s) + Len(h) /\ Len(h) \in Nat /\ Len(t) \in Nat
  BY <1>6, <1>8, <1>9, ConcatSeq
<1>11. Len(CGN[e][n].code) = Len(t) + 4
  <2>1. PICK q : q = <<b1, b2, b3, b4>>
    OBVIOUS
  <2>2. Len(q) = 4 /\ IsSeq(q)
    BY <1>6, <2>1
  <2>3. Len(t \o q) = Len(t) + Len(q)
    BY <1>10, <2>2, ConcatSeq, ZenonT(20)
  <2> QED BY <1>5, <1>7, <1>8, <2>1, <2>2, <2>3
<1>12. Holds(c, b, t) /\ Holds(c, b + Len(t), <<b1, b2, b3, b4>>)
  <2>1. PICK q : q = <<b1, b2, b3, b4>>
    OBVIOUS
  <2>2. Holds(c, b, t \o q)
    BY <1>5, <1>7, <1>8, <2>1 DEF LaidOut
  <2>3. IsSeq(q)
    BY <1>6, <2>1
  <2>4. Holds(c, b, t) /\ Holds(c, b + Len(t), q)
    BY <1>10, <2>2, <2>3, HoldsConcat
  <2> QED BY <2>1, <2>4
<1>13. Holds(c, b, s) /\ Holds(c, b + Len(s), h)
  BY <1>6, <1>8, <1>9, <1>12, HoldsConcat
<1>14. Holds(c, b, g) /\ Holds(c, b + Len(g), <<a>>)
  BY <1>6, <1>7, <1>13, HoldsConcat
<1>15. Is(c, b + Len(g), a)
  BY <1>9, <1>14, HoldsOne
<1>16. PICK y : y = b + Len(t)
  OBVIOUS
<1>17. Is(c, y, b1) /\ Is(c, y + 1, b2) /\ Is(c, y + 2, b3) /\ Is(c, y + 3, b4)
  BY <1>10, <1>12, <1>16, HoldsFour
<1>18. y = b + Len(g) + 1 + Len(h) /\ b + Len(s) = b + Len(g) + 1 /\ b + Len(CGN[e][n].code) = y + 4
  BY <1>9, <1>10, <1>11, <1>16
<1> QED BY <1>1, <1>3, <1>4, <1>6, <1>13, <1>14, <1>15, <1>17, <1>18 DEF LaidShort, LaidOut, Size

LaidBinop(c, b, e, n) ==
  LET x == b + Size(e.l, n)
      y == x + Size(e.r, After(e.l, n))
  IN  /\ LaidOut(c, b, e.l, n) /\ LaidOut(c, x, e.r, After(e.l, n))
      /\ Is(c, y, I(e.op, IF e.op = "mod" THEN "int" ELSE TYC[e.l].t, ""))
      /\ b + Size(e, n) = y + 1

(* The operator is behind its two operands.                                *)
LEMMA BinopLaid ==
  ASSUME NEW c, IsSeq(c), NEW b \in Nat, NEW e \in Expr, e.is = "binop", e.op \notin {"and", "or"}, TYC[e].ok,
         NEW n \in Nat, LaidOut(c, b, e, n)
  PROVE  LaidBinop(c, b, e, n)
<1>a. CodeRule(e, n)
  BY CodeOf
<1>0. HasShape(e) /\ e.l \in Expr /\ e.r \in Expr /\ TYC[e.l].ok /\ TYC[e.r].ok
  BY Shape, OkOf DEF HasShape, OkRule
<1>1. PICK k : k = After(e.l, n)
  OBVIOUS
<1>2. k \in Nat
  BY <1>0, <1>1, SizeFacts
<1>3. PICK g, h : g = CGN[e.l][n].code /\ h = CGN[e.r][k].code
  OBVIOUS
<1>4. PICK a : a = I(e.op, IF e.op = "mod" THEN "int" ELSE TYC[e.l].t, "")
  OBVIOUS
<1>5. CGN[e][n].code = (g \o h) \o <<a>>
  <2>1. CGN[e][n] = Emitted((g \o h) \o <<a>>, CGN[e.r][k].next)
    BY <1>1, <1>3, <1>4, <1>a DEF CodeRule, CGNbinop, After
  <2> QED BY <2>1, CodeIn
<1>6. IsSeq(g) /\ IsSeq(h) /\ Len(g) = Size(e.l, n) /\ Len(h) = Size(e.r, k) /\ IsSeq(<<a>>)
  BY <1>0, <1>2, <1>3, SizeFacts, SeqOne DEF Size
<1>7. PICK s : s = g \o h
  OBVIOUS
<1>9. IsSeq(s) /\ Len(s) = Len(g) + Len(h) /\ Len(g) \in Nat /\ Len(h) \in Nat /\ Len(s) \in Nat
  BY <1>6, <1>7, ConcatSeq
<1>11. Len(CGN[e][n].code) = Len(s) + 1
  <2>1. Len(<<a>>) = 1
    OBVIOUS
  <2> QED BY <1>5, <1>6, <1>7, <1>9, <2>1, ConcatSeq
<1>12. Holds(c, b, s) /\ Holds(c, b + Len(s), <<a>>)
  BY <1>5, <1>6, <1>7, <1>9, HoldsConcat DEF LaidOut
<1>13. Holds(c, b, g) /\ Holds(c, b + Len(g), h)
  BY <1>6, <1>7, <1>12, HoldsConcat
<1>15. Is(c, b + Len(s), a)
  BY <1>9, <1>12, HoldsOne
<1>18. b + Len(s) = b + Len(g) + Len(h) /\ b + Len(CGN[e][n].code) = b + Len(g) + Len(h) + 1
  BY <1>9, <1>11
<1> QED BY <1>1, <1>3, <1>4, <1>6, <1>13, <1>15, <1>18 DEF LaidBinop, LaidOut, Size

LaidMonop(c, b, e, n) ==
  LET x == b + Size(e.e, n)
  IN  /\ LaidOut(c, b, e.e, n) /\ b + Size(e, n) = x + 1
      /\ e.op = "neg" => Is(c, x, I("neg", TYC[e.e].t, ""))
      /\ e.op = "not" => Is(c, x, I("not", "bool", ""))

(* And behind its one.                                                     *)
LEMMA MonopLaid ==
  ASSUME NEW c, IsSeq(c), NEW b \in Nat, NEW e \in Expr, e.is = "monop", TYC[e].ok, NEW n \in Nat,
         LaidOut(c, b, e, n)
  PROVE  LaidMonop(c, b, e, n)
<1>a. CodeRule(e, n)
  BY CodeOf
<1>0. HasShape(e) /\ e.e \in Expr /\ TYC[e.e].ok
  BY Shape, OkOf DEF HasShape, OkRule
<1>1. PICK x : x = IF e.op = "neg" THEN I("neg", TYC[e.e].t, "") ELSE I("not", "bool", "")
  OBVIOUS
<1>2. PICK g : g = CGN[e.e][n].code
  OBVIOUS
<1>3. CGN[e][n].code = Append(g, x) /\ IsSeq(g) /\ IsSeq(<<x>>) /\ Len(g) = Size(e.e, n) /\ Len(g) \in Nat
  <2>1. CGN[e][n].code = Append(g, x)
    <3>1. CGN[e][n] = Emitted(Append(g, x), CGN[e.e][n].next)
      BY <1>a, <1>1, <1>2 DEF CodeRule, CGNmonop
    <3> QED BY <3>1, CodeIn
  <2>2. IsSeq(g) /\ Len(g) = Size(e.e, n) /\ Len(g) \in Nat
    BY <1>0, <1>2, SizeFacts DEF Size
  <2>3. IsSeq(<<x>>)
    BY SeqOne
  <2> QED BY <2>1, <2>2, <2>3
<1>4. Append(g, x) = g \o <<x>>
  <2>1. PICK T : g \in Seq(T)
    BY <1>3 DEF IsSeq
  <2>2. PICK U : U = T \cup {x}
    OBVIOUS
  <2>3. g \in Seq(U) /\ x \in U
    BY <2>1, <2>2
  <2> QED BY <2>3
<1>5. Holds(c, b, g) /\ Holds(c, b + Len(g), <<x>>)
  BY <1>3, <1>4, HoldsConcat DEF LaidOut
<1>6. Is(c, b + Len(g), x)
  <2>1. b + Len(g) \in Nat
    BY <1>3
  <2> QED BY <1>5, <2>1, HoldsOne
<1>7. Len(Append(g, x)) = Len(g) + 1
  BY <1>3, AppendSeq
<1>8. Size(e, n) = Len(g) + 1 /\ Size(e.e, n) = Len(g) /\ LaidOut(c, b, e.e, n)
  BY <1>2, <1>3, <1>5, <1>7 DEF LaidOut, Size
<1>9. e.op = "neg" => x = I("neg", TYC[e.e].t, "")
  BY <1>1
<1>10. e.op = "not" => x = I("not", "bool", "")
  BY <1>1
<1>11. b + Size(e, n) = b + Size(e.e, n) + 1 /\ Is(c, b + Size(e.e, n), x)
  BY <1>3, <1>6, <1>8
<1>12. e.op = "neg" => Is(c, b + Size(e.e, n), I("neg", TYC[e.e].t, ""))
  BY <1>9, <1>11
<1>13. e.op = "not" => Is(c, b + Size(e.e, n), I("not", "bool", ""))
  BY <1>10, <1>11
<1> QED BY <1>8, <1>11, <1>12, <1>13 DEF LaidMonop

LaidCast(c, b, e, n) ==
  LET x == b + Size(e.e, n)
      k == After(e.e, n)
      from == TYC[e.e].t
  IN  /\ LaidOut(c, b, e.e, n)
      /\ from = e.t \/ (e.t = "float" /\ from = "bool") => b + Size(e, n) = x
      /\ e.t = "float" /\ from = "int" => b + Size(e, n) = x + 1 /\ Is(c, x, I("i2f", "int", ""))
      /\ e.t = "int" /\ from = "float" => b + Size(e, n) = x + 1 /\ Is(c, x, I("f2i", "float", ""))
      /\ e.t = "bool" /\ from # "bool" => /\ b + Size(e, n) = x + 2 /\ Is(c, x, I("const", from, 0))
                                          /\ Is(c, x + 1, I("ne", from, ""))
      /\ e.t = "int" /\ from = "bool" =>
           /\ b + Size(e, n) = x + 6
           /\ Is(c, x, To("branch_t", "true", k)) /\ Is(c, x + 1, I("const", "int", 0))
           /\ Is(c, x + 2, To("jump", "cast", k + 1)) /\ Is(c, x + 3, Label("true", k))
           /\ Is(c, x + 4, I("const", "int", 1)) /\ Is(c, x + 5, Label("cast", k + 1))

(* A cast, by its types.                                                   *)
LEMMA CastLaid ==
  ASSUME NEW c, IsSeq(c), NEW b \in Nat, NEW e \in Expr, e.is = "typecast", TYC[e].ok, NEW n \in Nat,
         LaidOut(c, b, e, n)
  PROVE  LaidCast(c, b, e, n)
<1>a. CodeRule(e, n)
  BY CodeOf
<1>0. HasShape(e) /\ e.e \in Expr /\ TYC[e.e].ok /\ e.t \in Basic /\ TYC[e.e].t \in Basic
  BY Shape, OkOf, CastFrom DEF HasShape, OkRule
<1>1. PICK k, from : k = After(e.e, n) /\ from = TYC[e.e].t
  OBVIOUS
<1>2. PICK g : g = CGN[e.e][n].code
  OBVIOUS
<1>3. PICK s : s = CastTail(e.t, from, k)
  OBVIOUS
<1>4. CGN[e][n].code = g \o s
  <2>1. CGN[e][n] = Emitted(g \o s, CGN[e.e][n].next + 2)
    BY <1>1, <1>2, <1>3, <1>a DEF CodeRule, CGNtypecast, CastTail, CastEnd, After
  <2> QED BY <2>1, CodeIn
<1>5. IsSeq(g) /\ Len(g) = Size(e.e, n) /\ Len(g) \in Nat
  BY <1>0, <1>2, SizeFacts, SeqFacts DEF Size
<1>6. ASSUME IsSeq(s)
      PROVE  /\ Holds(c, b, g) /\ Holds(c, b + Len(g), s)
             /\ b + Size(e, n) = b + Len(g) + Len(s)
  <2>1. Holds(c, b, g \o s) /\ Size(e, n) = Len(g \o s)
    BY <1>4 DEF LaidOut, Size
  <2>2. Holds(c, b, g) /\ Holds(c, b + Len(g), s)
    BY <1>5, <1>6, <2>1, HoldsConcat
  <2>3. Len(g \o s) = Len(g) + Len(s) /\ Len(s) \in Nat
    BY <1>5, <1>6, ConcatSeq
  <2> QED BY <1>5, <2>1, <2>2, <2>3
<1>7. PICK x : x = b + Len(g)
  OBVIOUS
<1>8. x \in Nat
  BY <1>5, <1>7
<1>10. CASE from = e.t \/ (e.t = "float" /\ from = "bool")
  <2>1. s = <<>>
    BY <1>0, <1>1, <1>3, <1>10, CastTails
  <2>2. IsSeq(s) /\ Len(s) = 0
    BY <2>1, SeqNone
  <2>3. Holds(c, b, g) /\ b + Size(e, n) = x
    BY <1>5, <1>6, <1>7, <2>2
  <2> QED BY <1>1, <1>2, <1>5, <1>7, <1>10, <2>3 DEF LaidCast, LaidOut
<1>11. CASE e.t = "float" /\ from = "int"
  <2>1. PICK i : i = I("i2f", "int", "")
    OBVIOUS
  <2>2. s = <<i>>
    BY <1>0, <1>1, <1>3, <1>11, <2>1, CastTails
  <2>3. IsSeq(s) /\ Len(s) = 1
    BY <2>2, SeqOne
  <2>4. Holds(c, b, g) /\ b + Size(e, n) = x + 1 /\ Holds(c, x, <<i>>)
    BY <1>6, <1>7, <2>2, <2>3
  <2>5. Is(c, x, i)
    BY <1>8, <2>4, HoldsOne
  <2> QED BY <1>1, <1>2, <1>5, <1>7, <1>11, <2>1, <2>4, <2>5 DEF LaidCast, LaidOut
<1>12. CASE e.t = "int" /\ from = "float"
  <2>1. PICK i : i = I("f2i", "float", "")
    OBVIOUS
  <2>2. s = <<i>>
    BY <1>0, <1>1, <1>3, <1>12, <2>1, CastTails
  <2>3. IsSeq(s) /\ Len(s) = 1
    BY <2>2, SeqOne
  <2>4. Holds(c, b, g) /\ b + Size(e, n) = x + 1 /\ Holds(c, x, <<i>>)
    BY <1>6, <1>7, <2>2, <2>3
  <2>5. Is(c, x, i)
    BY <1>8, <2>4, HoldsOne
  <2> QED BY <1>1, <1>2, <1>5, <1>7, <1>12, <2>1, <2>4, <2>5 DEF LaidCast, LaidOut
<1>13. CASE e.t = "bool" /\ from # "bool"
  <2>1. PICK i, j : i = I("const", from, 0) /\ j = I("ne", from, "")
    OBVIOUS
  <2>2. s = <<i, j>>
    BY <1>0, <1>1, <1>3, <1>13, <2>1, CastTails
  <2>3. IsSeq(s) /\ Len(s) = 2
    BY <2>2, SeqTwo
  <2>4. Holds(c, b, g) /\ b + Size(e, n) = x + 2 /\ Holds(c, x, <<i, j>>)
    BY <1>6, <1>7, <2>2, <2>3
  <2>5. Is(c, x, i) /\ Is(c, x + 1, j)
    BY <1>8, <2>4, HoldsTwo
  <2> QED BY <1>1, <1>2, <1>5, <1>7, <1>13, <2>1, <2>4, <2>5 DEF LaidCast, LaidOut
<1>14. CASE e.t = "int" /\ from = "bool"
  <2>1. PICK a1, a2, a3, a4, a5, a6 :
          /\ a1 = To("branch_t", "true", k) /\ a2 = I("const", "int", 0) /\ a3 = To("jump", "cast", k + 1)
          /\ a4 = Label("true", k) /\ a5 = I("const", "int", 1) /\ a6 = Label("cast", k + 1)
    OBVIOUS
  <2>2. s = <<a1, a2, a3, a4, a5, a6>>
    <3>1. s = CastEnd(k)
      BY <1>0, <1>1, <1>3, <1>14, CastTails, ZenonT(20)
    <3> QED BY <2>1, <3>1 DEF CastEnd
  <2>3. IsSeq(s) /\ Len(s) = 6
    BY <2>2, SeqSix
  <2>4. Holds(c, b, g) /\ b + Size(e, n) = x + 6 /\ Holds(c, x, <<a1, a2, a3, a4, a5, a6>>)
    BY <1>6, <1>7, <2>2, <2>3
  <2>5. Is(c, x, a1) /\ Is(c, x + 1, a2) /\ Is(c, x + 2, a3) /\ Is(c, x + 3, a4) /\ Is(c, x + 4, a5) /\ Is(c, x + 5, a6)
    BY <1>8, <2>4, HoldsSix
  <2> QED BY <1>1, <1>2, <1>5, <1>7, <1>14, <2>1, <2>4, <2>5 DEF LaidCast, LaidOut
<1> QED BY <1>0, <1>1, <1>10, <1>11, <1>12, <1>13, <1>14 DEF Basic, Numeric

-----------------------------------------------------------------------------
(* The code of a call: the arguments one after the other.                  *)
ArgSize(e, n, k) == Len(ArgCode(e, n)[k].code)
ArgNext(e, n, k) == ArgCode(e, n)[k].next
LaidCall(c, b, e, n) ==
  LET L == Len(e.args)
  IN  /\ L \in Nat /\ DOMAIN e.args = 1..L
      /\ ArgSize(e, n, 0) = 0 /\ ArgNext(e, n, 0) = n
      /\ \A k \in 0..L : ArgSize(e, n, k) \in Nat /\ ArgNext(e, n, k) \in Nat
      /\ \A k \in 1..L : /\ ArgSize(e, n, k) = ArgSize(e, n, k - 1) + Size(e.args[k], ArgNext(e, n, k - 1))
                         /\ ArgNext(e, n, k) = After(e.args[k], ArgNext(e, n, k - 1))
                         /\ LaidOut(c, b + 1 + ArgSize(e, n, k - 1), e.args[k], ArgNext(e, n, k - 1))
      /\ Is(c, b, I("isrg", "links", e.f))
      /\ Is(c, b + 1 + ArgSize(e, n, L), I("jsr", FunType[e.f].type, e.f))
      /\ b + Size(e, n) = b + 1 + ArgSize(e, n, L) + 1

(* The arguments are code, each with the labels after those before it.     *)
LEMMA ArgsCode ==
  ASSUME NEW e \in Expr, e.is = "funcall", TYC[e].ok, NEW n \in Nat
  PROVE  \A k \in 0..Len(e.args) : IsCode(ArgCode(e, n)[k], n)
<1>0. HasShape(e)
  BY Shape
<1>1. PICK up : up = ArgCode(e, n)
  OBVIOUS
<1>2. e.args \in Seq(Expr) /\ Len(e.args) \in Nat /\ \A k \in 1..Len(e.args) : e.args[k] \in Parts(e)
  BY <1>0 DEF HasShape
<1>3. \A k \in 1..Len(e.args) : \A m \in Nat : IsCode(CGN[e.args[k]][m], m)
  BY <1>2, AcceptedSuits, CodeFacts
<1>4. ArgRule(e, n)
  BY <1>2, ArgOf
<1> DEFINE B == {k \in 0..Len(e.args) : IsCode(up[k], n)}
<1>5. 0 \in B
  <2>1. PICK s : s = <<>>
    OBVIOUS
  <2>2. Free(s)
    BY <2>1, FreeNone
  <2>3. IsCode(Emitted(s, n), n)
    BY <2>2, CodeAlone
  <2> QED BY <1>1, <1>2, <1>4, <2>1, <2>3 DEF ArgRule
<1>6. ASSUME NEW k \in 1..Len(e.args), k - 1 \in B PROVE k \in B
  <2>1. PICK g, h : g = up[k - 1] /\ h = CGN[e.args[k]][g.next]
    OBVIOUS
  <2>2. up[k] = Emitted(g.code \o h.code, h.next) /\ IsCode(g, n) /\ k \in 0..Len(e.args)
    BY <1>1, <1>2, <1>4, <1>6, <2>1 DEF ArgRule
  <2>3. g.next \in Nat
    BY <2>2 DEF IsCode
  <2>4. IsCode(h, g.next)
    BY <1>3, <2>1, <2>3
  <2> QED BY <2>2, <2>4, CodeJoins
<1> HIDE DEF B
<1>7. 0..Len(e.args) \subseteq B
  BY <1>2, <1>5, <1>6, RoundInduction
<1> QED BY <1>1, <1>7 DEF B

(* A call: the frame, the arguments, the jump.                             *)
LEMMA CallLaid ==
  ASSUME NEW c, IsSeq(c), NEW b \in Nat, NEW e \in Expr, e.is = "funcall", TYC[e].ok, NEW n \in Nat,
         LaidOut(c, b, e, n)
  PROVE  LaidCall(c, b, e, n)
<1>0. HasShape(e) /\ CodeRule(e, n)
  BY Shape, CodeOf
<1>1. PICK up : up = ArgCode(e, n)
  OBVIOUS
<1>2. PICK L : L = Len(e.args)
  OBVIOUS
<1>3. /\ e.args \in Seq(Expr) /\ L \in Nat /\ DOMAIN e.args = 1..L
      /\ \A k \in 1..L : e.args[k] \in Expr /\ TYC[e.args[k]].ok
  <2>1. e.args \in Seq(Expr) /\ \A k \in DOMAIN e.args : e.args[k] \in Parts(e)
    BY <1>0 DEF HasShape
  <2>2. L \in Nat /\ DOMAIN e.args = 1..L /\ \A k \in 1..L : e.args[k] \in Expr /\ e.args[k] \in Parts(e)
    BY <1>2, <2>1
  <2> QED BY <2>1, <2>2, AcceptedSuits
<1>4. ArgRule(e, n)
  BY <1>3, ArgOf
<1>5. ASSUME NEW k \in 0..L PROVE IsSeq(up[k].code) /\ Len(up[k].code) \in Nat /\ up[k].next \in Nat
  <2>1. IsCode(up[k], n)
    BY <1>1, <1>2, ArgsCode
  <2> QED BY <2>1, SeqFacts DEF IsCode
<1>6. ASSUME NEW k \in 1..L
      PROVE  /\ up[k].code = up[k - 1].code \o CGN[e.args[k]][up[k - 1].next].code
             /\ up[k].next = After(e.args[k], up[k - 1].next)
             /\ IsSeq(CGN[e.args[k]][up[k - 1].next].code) /\ k - 1 \in 0..L /\ k \in 0..L
             /\ Len(up[k].code) = Len(up[k - 1].code) + Size(e.args[k], up[k - 1].next)
  <2>1. up[k] = Emitted(up[k - 1].code \o CGN[e.args[k]][up[k - 1].next].code, After(e.args[k], up[k - 1].next))
    BY <1>1, <1>2, <1>4 DEF ArgRule, After
  <2>2. k - 1 \in 0..L /\ k \in 0..L
    BY <1>3
  <2>3. IsSeq(CGN[e.args[k]][up[k - 1].next].code)
    BY <1>3, <1>5, <2>2, SizeFacts
  <2>a. PICK x, y, z : x = up[k - 1].code /\ y = CGN[e.args[k]][up[k - 1].next].code
                       /\ z = After(e.args[k], up[k - 1].next)
    OBVIOUS
  <2>b. up[k] = Emitted(x \o y, z)
    BY <2>1, <2>a
  <2>4. up[k].code = x \o y /\ up[k].next = z
    BY <2>b DEF Emitted
  <2>c. IsSeq(x) /\ IsSeq(y)
    BY <1>5, <2>2, <2>3, <2>a
  <2>d. Len(x \o y) = Len(x) + Len(y)
    BY <2>c, ConcatSeq
  <2>5. Len(up[k].code) = Len(up[k - 1].code) + Size(e.args[k], up[k - 1].next)
    BY <2>4, <2>a, <2>d DEF Size
  <2> QED BY <2>2, <2>3, <2>a, <2>4, <2>5
<1>7. PICK i, j : i = I("isrg", "links", e.f) /\ j = I("jsr", FunType[e.f].type, e.f)
  OBVIOUS
<1>8. PICK s, t, g : s = <<i>> /\ t = <<j>> /\ g = up[L].code
  OBVIOUS
<1>9. CGN[e][n].code = (s \o g) \o t
  <2>1. CGN[e][n] = Emitted((s \o g) \o t, up[L].next)
    BY <1>0, <1>1, <1>2, <1>7, <1>8 DEF CodeRule, CGNfuncall
  <2> QED BY <2>1, CodeIn
<1>10. IsSeq(s) /\ IsSeq(t) /\ Len(s) = 1 /\ Len(t) = 1
  BY <1>8, SeqOne
<1>11. IsSeq(g) /\ Len(g) \in Nat
  <2>1. L \in 0..L
    BY <1>3
  <2> QED BY <1>5, <1>8, <2>1
<1>12. PICK sg : sg = s \o g
  OBVIOUS
<1>13. IsSeq(sg) /\ Len(sg) = 1 + Len(g)
  <2>1. IsSeq(s \o g) /\ Len(s \o g) = Len(s) + Len(g)
    BY <1>10, <1>11, ConcatSeq, ZenonT(20)
  <2> QED BY <1>10, <1>12, <2>1
<1>14. Size(e, n) = 1 + Len(g) + 1
  <2>1. Len(sg \o t) = Len(sg) + Len(t)
    BY <1>10, <1>13, ConcatSeq
  <2> QED BY <1>9, <1>10, <1>12, <1>13, <2>1 DEF Size
<1>15. Holds(c, b, sg) /\ Holds(c, b + Len(sg), t)
  <2>1. Holds(c, b, sg \o t)
    BY <1>9, <1>12 DEF LaidOut
  <2> QED BY <1>10, <1>13, <2>1, HoldsConcat
<1>16. Holds(c, b, s) /\ Holds(c, b + Len(s), g)
  BY <1>10, <1>11, <1>12, <1>15, HoldsConcat
<1>17. PICK b1 : b1 = b + 1
  OBVIOUS
<1>18. Is(c, b, i) /\ Holds(c, b1, g) /\ b1 \in Nat
  BY <1>8, <1>10, <1>16, <1>17, HoldsOne
<1>19. Is(c, b1 + Len(g), j)
  <2>1. b + Len(sg) = b1 + Len(g) /\ b1 + Len(g) \in Nat
    BY <1>11, <1>13, <1>17
  <2> QED BY <1>8, <1>15, <2>1, HoldsOne
<1> DEFINE B == {k \in 0..L : Holds(c, b1, up[L - k].code)}
<1>20. ASSUME NEW k \in 1..L, Holds(c, b1, up[k].code)
       PROVE  Holds(c, b1, up[k - 1].code) /\ LaidOut(c, b1 + Len(up[k - 1].code), e.args[k], up[k - 1].next)
  <2>1. PICK x, y : x = up[k - 1].code /\ y = CGN[e.args[k]][up[k - 1].next].code
    OBVIOUS
  <2>2. IsSeq(x) /\ IsSeq(y)
    BY <1>5, <1>6, <2>1
  <2>3. Holds(c, b1, x \o y)
    BY <1>6, <1>20, <2>1
  <2>4. Holds(c, b1, x) /\ Holds(c, b1 + Len(x), y)
    BY <1>18, <2>2, <2>3, HoldsConcat
  <2> QED BY <2>1, <2>4 DEF LaidOut
<1>21. 0..L \subseteq B
  <2>1. 0 \in B
    <3>1. L - 0 = L /\ 0 \in 0..L
      BY <1>3
    <3> QED BY <1>8, <1>18, <3>1
  <2>2. ASSUME NEW k \in 1..L, k - 1 \in B PROVE k \in B
    <3>1. PICK m : m = L - (k - 1)
      OBVIOUS
    <3>2. m \in 1..L /\ m - 1 = L - k /\ k \in 0..L
      BY <1>3, <3>1
    <3>3. Holds(c, b1, up[m].code)
      BY <2>2, <3>1
    <3>4. Holds(c, b1, up[m - 1].code)
      BY <1>20, <3>2, <3>3
    <3> QED BY <3>2, <3>4
  <2> HIDE DEF B
  <2> QED BY <1>3, <2>1, <2>2, RoundInduction
<1>22. ASSUME NEW k \in 1..L PROVE Holds(c, b1, up[k].code)
  <2>1. PICK m : m = L - k
    OBVIOUS
  <2>2. m \in 0..L /\ L - m = k
    BY <1>3, <2>1
  <2>3. m \in B
    BY <1>21, <2>2
  <2> QED BY <2>2, <2>3
<1> HIDE DEF B
<1>23. up[0].next = n /\ Len(up[0].code) = 0
  <2>1. up[0] = Emitted(<<>>, n)
    BY <1>1, <1>4 DEF ArgRule
  <2>2. up[0].code = <<>> /\ up[0].next = n
    BY <2>1, CodeIn
  <2> QED BY <2>2
<1>24. ASSUME NEW k \in 1..L
       PROVE  LaidOut(c, b1 + Len(up[k - 1].code), e.args[k], up[k - 1].next)
  BY <1>20, <1>22
<1>25. b + Size(e, n) = b1 + Len(g) + 1
  BY <1>11, <1>14, <1>17
<1>26. \A k \in 0..L : ArgSize(e, n, k) = Len(up[k].code) /\ ArgNext(e, n, k) = up[k].next
  BY <1>1 DEF ArgSize, ArgNext
<1>27. \A k \in 1..L : k \in 0..L /\ k - 1 \in 0..L
  BY <1>3
<1>28. 0 \in 0..L /\ L \in 0..L
  BY <1>3
<1>29. ASSUME NEW k \in 1..L
       PROVE /\ ArgSize(e, n, k) = ArgSize(e, n, k - 1) + Size(e.args[k], ArgNext(e, n, k - 1))
             /\ ArgNext(e, n, k) = After(e.args[k], ArgNext(e, n, k - 1))
             /\ LaidOut(c, b + 1 + ArgSize(e, n, k - 1), e.args[k], ArgNext(e, n, k - 1))
  BY <1>6, <1>17, <1>24, <1>26, <1>27
<1>30. Is(c, b + 1 + ArgSize(e, n, L), j) /\ b + Size(e, n) = b + 1 + ArgSize(e, n, L) + 1
  BY <1>8, <1>17, <1>19, <1>25, <1>26, <1>28
<1>31. \A k \in 0..L : ArgSize(e, n, k) \in Nat /\ ArgNext(e, n, k) \in Nat
  BY <1>5, <1>26
<1>32. ArgSize(e, n, 0) = 0 /\ ArgNext(e, n, 0) = n
  BY <1>23, <1>26, <1>28
<1> QED BY <1>2, <1>3, <1>7, <1>18, <1>29, <1>30, <1>31, <1>32 DEF LaidCall

Joined(s, t, st) ==
  /\ IsSeq(st) /\ Len(s) \in Nat /\ Len(t) \in Nat /\ Len(st) = Len(s) + Len(t)
  /\ \A k \in 1..Len(s) : st[k] = s[k]
  /\ \A k \in 1..Len(t) : st[Len(s) + k] = t[k]
LEMMA ConcatJoined ==
  ASSUME NEW s, IsSeq(s), NEW t, IsSeq(t)
  PROVE  Joined(s, t, s \o t)
<1>1. PICK st : st = s \o t
  OBVIOUS
<1>2. /\ IsSeq(s \o t) /\ Len(s) \in Nat /\ Len(t) \in Nat
      /\ Len(s \o t) = Len(s) + Len(t)
      /\ \A k \in 1..Len(s) : (s \o t)[k] = s[k]
      /\ \A k \in 1..Len(t) : (s \o t)[Len(s) + k] = t[k]
  BY ConcatSeq
<1> QED BY <1>1, <1>2 DEF Joined

(* What the parameters of a function take.                                 *)
ParamSlots(p) == IF p.dim = 0 THEN <<p.type>> ELSE <<"ref", "int">>
SlotsRule(f, S) ==
  /\ S[0] = <<>>
  /\ \A k \in 1..Len(FunType[f].params) :
       S[k] = S[k - 1] \o ParamSlots(FunType[f].params[k])

(* The slots of the parameters, round by round.                            *)
LEMMA SlotsLoop ==
  ASSUME NEW f \in Funs, NEW P, P = FunType[f].params, Len(P) \in Nat
  PROVE  SlotsRule(f, SlotsUpTo(f))
<1> DEFINE Eq(n, g) == g = [k \in 0..n |-> IF k = 0 THEN <<>> ELSE g[k - 1] \o ParamSlots(P[k])]
           B == {n \in 0..Len(P) : \E g : Eq(n, g)}
<1>0. Len(P) \in Nat
  OBVIOUS
<1>1. 0 \in B
  <2> DEFINE g == [k \in 0..0 |-> <<>>]
  <2>1. Eq(0, g)
    OBVIOUS
  <2> HIDE DEF g
  <2> QED BY <1>0, <2>1
<1>2. ASSUME NEW m \in 1..Len(P), m - 1 \in B PROVE m \in B
  <2>1. PICK h : Eq(m - 1, h)
    BY <1>2
  <2> DEFINE g == [k \in 0..m |-> IF k = 0 THEN <<>> ELSE h[k - 1] \o ParamSlots(P[k])]
  <2>2. ASSUME NEW k \in 0..m, k # 0 PROVE g[k - 1] = h[k - 1]
    <3>1. k - 1 \in 0..m - 1 /\ k - 1 \in 0..m
      BY <1>0, <2>2
    <3> QED BY <2>1, <3>1
  <2>3. Eq(m, g)
    BY <2>2
  <2> HIDE DEF g
  <2>4. m \in 0..Len(P)
    BY <1>0
  <2> QED BY <2>3, <2>4
<1> HIDE DEF B
<1>3. 0..Len(P) \subseteq B
  BY <1>0, <1>1, <1>2, RoundInduction
<1>4. \E g : Eq(Len(P), g)
  <2>1. PICK L : L = Len(P)
    OBVIOUS
  <2>2. L \in 0..L
    BY <1>0, <2>1
  <2>3. L \in B
    BY <1>3, <2>1, <2>2
  <2> QED BY <2>1, <2>3 DEF B
<1>5. Eq(Len(P), SlotsUpTo(f))
  <2>1. SlotsUpTo(f) = CHOOSE g : Eq(Len(P), g)
    BY DEF SlotsUpTo, ParamSlots
  <2> HIDE DEF Eq
  <2> QED BY <1>4, <2>1
<1> QED BY <1>0, <1>5, SMTT(20) DEF SlotsRule

SlotsOk(f) ==
  LET S == SlotsUpTo(f)
      P == FunType[f].params
  IN  /\ Len(P) \in Nat /\ Len(S[0]) = 0
      /\ \A k \in 0..Len(P) : IsSeq(S[k]) /\ Len(S[k]) \in Nat
      /\ \A k \in 1..Len(P) :
           /\ P[k].dim \in {0, 1} /\ P[k].type \in Basic
           /\ \A q \in 1..Len(S[k - 1]) : S[k][q] = S[k - 1][q]
           /\ P[k].dim = 0 => Len(S[k]) = Len(S[k - 1]) + 1 /\ S[k][Len(S[k - 1]) + 1] = P[k].type
           /\ P[k].dim = 1 => /\ Len(S[k]) = Len(S[k - 1]) + 2
                              /\ S[k][Len(S[k - 1]) + 1] = "ref" /\ S[k][Len(S[k - 1]) + 2] = "int"

(* They are one for a scalar and two for an array.                         *)
LEMMA SlotsAreOk == \A f \in Funs : SlotsOk(f)
<1> SUFFICES ASSUME NEW f \in Funs PROVE SlotsOk(f)
  OBVIOUS
<1>1. PICK P, S : P = FunType[f].params /\ S = SlotsUpTo(f)
  OBVIOUS
<1>2. P \in Seq([type : Basic, dim : {0, 1}])
  BY <1>1, FunAssumption
<1>3. Len(P) \in Nat /\ \A k \in 1..Len(P) : P[k].dim \in {0, 1} /\ P[k].type \in Basic
  <2>1. Len(P) \in Nat /\ \A k \in 1..Len(P) : P[k] \in [type : Basic, dim : {0, 1}]
    <3>1. PICK R : R = [type : Basic, dim : {0, 1}]
      OBVIOUS
    <3>2. P \in Seq(R)
      BY <1>2, <3>1
    <3>3. Len(P) \in Nat /\ \A k \in 1..Len(P) : P[k] \in R
      BY <3>2
    <3> QED BY <3>1, <3>3
  <2> QED BY <2>1
<1>4. SlotsRule(f, S)
  BY <1>1, <1>3, SlotsLoop
<1>5. S[0] = <<>>
  BY <1>4 DEF SlotsRule
<1> DEFINE B == {k \in 0..Len(P) : IsSeq(S[k])}
<1>6. ASSUME NEW k \in 1..Len(P), IsSeq(S[k - 1])
      PROVE  /\ IsSeq(S[k]) /\ Len(S[k - 1]) \in Nat
             /\ \A q \in 1..Len(S[k - 1]) : S[k][q] = S[k - 1][q]
             /\ P[k].dim = 0 => Len(S[k]) = Len(S[k - 1]) + 1 /\ S[k][Len(S[k - 1]) + 1] = P[k].type
             /\ P[k].dim = 1 => /\ Len(S[k]) = Len(S[k - 1]) + 2
                                /\ S[k][Len(S[k - 1]) + 1] = "ref" /\ S[k][Len(S[k - 1]) + 2] = "int"
  <2>1. PICK s : s = S[k - 1]
    OBVIOUS
  <2>2. CASE P[k].dim = 0
    <3>1. PICK x, t : x = P[k].type /\ t = <<x>>
      OBVIOUS
    <3>2. S[k] = s \o t
      <4>1. S[k] = S[k - 1] \o ParamSlots(P[k])
        BY <1>1, <1>4 DEF SlotsRule
      <4>2. ParamSlots(P[k]) = <<P[k].type>>
        BY <2>2 DEF ParamSlots
      <4> QED BY <2>1, <3>1, <4>1, <4>2
    <3>3. IsSeq(t) /\ Len(t) = 1 /\ t[1] = x
      BY <3>1, SeqOne
    <3>4. /\ IsSeq(s \o t) /\ Len(s) \in Nat /\ Len(s \o t) = Len(s) + Len(t)
          /\ \A i \in 1..Len(s) : (s \o t)[i] = s[i]
          /\ \A i \in 1..Len(t) : (s \o t)[Len(s) + i] = t[i]
      <4>1. IsSeq(s) /\ IsSeq(t)
        BY <1>6, <2>1, <3>3
      <4>2. Joined(s, t, s \o t)
        BY <4>1, ConcatJoined
      <4> QED BY <4>2 DEF Joined
    <3>5. (s \o t)[Len(s) + 1] = x
      BY <3>3, <3>4
    <3> QED BY <2>1, <2>2, <3>1, <3>2, <3>3, <3>4, <3>5
  <2>3. CASE P[k].dim = 1
    <3>1. PICK t : t = <<"ref", "int">>
      OBVIOUS
    <3>2. S[k] = s \o t
      <4>1. S[k] = S[k - 1] \o ParamSlots(P[k])
        BY <1>1, <1>4 DEF SlotsRule
      <4>2. ParamSlots(P[k]) = <<"ref", "int">>
        BY <2>3 DEF ParamSlots
      <4> QED BY <2>1, <3>1, <4>1, <4>2
    <3>3. IsSeq(t) /\ Len(t) = 2 /\ t[1] = "ref" /\ t[2] = "int"
      BY <3>1, SeqTwo
    <3>4. /\ IsSeq(s \o t) /\ Len(s) \in Nat /\ Len(s \o t) = Len(s) + Len(t)
          /\ \A i \in 1..Len(s) : (s \o t)[i] = s[i]
          /\ \A i \in 1..Len(t) : (s \o t)[Len(s) + i] = t[i]
      <4>1. IsSeq(s) /\ IsSeq(t)
        BY <1>6, <2>1, <3>3
      <4>2. Joined(s, t, s \o t)
        BY <4>1, ConcatJoined
      <4> QED BY <4>2 DEF Joined
    <3>5. (s \o t)[Len(s) + 1] = "ref" /\ (s \o t)[Len(s) + 2] = "int"
      BY <3>3, <3>4
    <3> QED BY <2>1, <2>3, <3>2, <3>3, <3>4, <3>5
  <2> QED BY <1>3, <2>2, <2>3
<1>7. 0..Len(P) \subseteq B
  <2>1. 0 \in B
    BY <1>3, <1>5, SeqNone
  <2>2. ASSUME NEW k \in 1..Len(P), k - 1 \in B PROVE k \in B
    BY <1>3, <1>6, <2>2
  <2> HIDE DEF B
  <2> QED BY <1>3, <2>1, <2>2, RoundInduction
<1>8. \A k \in 0..Len(P) : IsSeq(S[k]) /\ Len(S[k]) \in Nat
  BY <1>7, SeqFacts
<1>9. \A k \in 1..Len(P) : k - 1 \in 0..Len(P)
  BY <1>3
<1>10. Len(S[0]) = 0
  BY <1>5
<1> HIDE DEF B
<1>11. ASSUME NEW k \in 1..Len(P)
       PROVE /\ P[k].dim \in {0, 1} /\ P[k].type \in Basic
             /\ \A q \in 1..Len(S[k - 1]) : S[k][q] = S[k - 1][q]
             /\ P[k].dim = 0 => Len(S[k]) = Len(S[k - 1]) + 1 /\ S[k][Len(S[k - 1]) + 1] = P[k].type
             /\ P[k].dim = 1 => /\ Len(S[k]) = Len(S[k - 1]) + 2
                                /\ S[k][Len(S[k - 1]) + 1] = "ref" /\ S[k][Len(S[k - 1]) + 2] = "int"
  BY <1>3, <1>6, <1>8, <1>9
<1> QED BY <1>1, <1>3, <1>8, <1>10, <1>11 DEF SlotsOk

-----------------------------------------------------------------------------
(***************************************************************************)
(* The machine inside the code of an expression.  A spot says where an     *)
(* expression was entered: the labels from n on, the code from b on, h     *)
(* operands on the stack and k calls made.                                 *)
(***************************************************************************)
Spots == [n : Nat, b : Nat, h : Nat, k : Nat]
Spot(n, b, h, k) == [n |-> n, b |-> b, h |-> h, k |-> k]
Exact(e) == PrintedExactly(e) /\ ~BoolToFloat(e)

(* w is what e, entered after k calls, comes to after u calls.             *)
Worth(m, e, k, w, u) == Exact(e) => Meaning(m.held, m.calls)[e][k] = Means(w.t, w.v, u)
Result(m, e, k, w, u) ==
  /\ w = Value(w.t, w.v) /\ (w.t = TYC[e].t \/ BoolToFloat(e)) /\ (w.t = "bool" => w.v \in {0, 1})
  /\ Worth(m, e, k, w, u)
Found(m, e, q) == Len(m.stack) = q.h + 1 /\ Result(m, e, q.k, m.stack[q.h + 1], Len(m.calls))
Passed(m, q) == /\ Len(m.stack) = q.h + 2 /\ Len(m.calls) = q.k
                /\ m.stack[q.h + 1] = Value("ref", 0) /\ m.stack[q.h + 2] = Value("int", 1)
Entered(m, q) == m.pc = q.b /\ Len(m.stack) = q.h /\ Len(m.calls) = q.k
Arrived(m, e, q) == /\ m.pc = q.b + Size(e, q.n)
                       /\ IF TYC[e].d = 0 THEN Found(m, e, q) ELSE Passed(m, q)

(* The stages of the code of each kind of expression; open has the spots   *)
(* the machine is inside of, for the parts.                                *)
InVar(m, e, q) ==
  \/ Entered(m, q)
  \/ /\ TYC[e].d # 0 /\ m.pc = q.b + 1 /\ Len(m.stack) = q.h + 1 /\ Len(m.calls) = q.k
     /\ m.stack[q.h + 1] = Value("ref", 0)
InElement(m, e, q, open) ==
  \/ q \in open[e.i] \/ Arrived(m, e.i, q)
  \/ /\ m.pc = q.b + Size(e.i, q.n) + 1 /\ Len(m.stack) = q.h + 2 /\ m.stack[q.h + 2] = Value("ref", 0)
     /\ Result(m, e.i, q.k, m.stack[q.h + 1], Len(m.calls))
RightOf(e, q, u) == Spot(After(e.l, q.n), q.b + Size(e.l, q.n), q.h + 1, u)
InBinop(m, e, q, open) ==
  \/ q \in open[e.l]
  \/ \E u \in 0..Len(m.calls) :
       /\ RightOf(e, q, u) \in open[e.r] \/ Arrived(m, e.r, RightOf(e, q, u))
       /\ Result(m, e.l, q.k, m.stack[q.h + 1], u)
LeftOf(q) == Spot(q.n + 2, q.b, q.h, q.k)
ElseOf(e, q, u) == Spot(After(e.l, q.n + 2), q.b + Size(e.l, q.n + 2) + 1, q.h, u)
JumpOf(e, q) == q.b + Size(e.l, q.n + 2) + 1 + Size(e.r, After(e.l, q.n + 2))
InShort(m, e, q, open) ==
  \/ LeftOf(q) \in open[e.l] \/ Arrived(m, e.l, LeftOf(q))
  \/ \E u \in 0..Len(m.calls) :
       /\ Worth(m, e.l, q.k, Value("bool", Truth(e.op = "and")), u)
       /\ ElseOf(e, q, u) \in open[e.r] \/ Arrived(m, e.r, ElseOf(e, q, u))
  \/ /\ m.pc \in {JumpOf(e, q) + 1, JumpOf(e, q) + 2} /\ Len(m.stack) = q.h
     /\ Worth(m, e.l, q.k, Value("bool", Truth(e.op = "or")), Len(m.calls))
  \/ m.pc = JumpOf(e, q) + 3 /\ Found(m, e, q)
InMonop(m, e, q, open) == q \in open[e.e] \/ Arrived(m, e.e, q)
Silent(to, from) == from = to \/ (to = "float" /\ from # "int")
InCast(m, e, q, open) ==
  LET x == q.b + Size(e.e, q.n)
      from == TYC[e.e].t
  IN  \/ q \in open[e.e]
      \/ ~Silent(e.t, from) /\ Arrived(m, e.e, q)
      \/ /\ e.t = "bool" /\ from # "bool" /\ m.pc = x + 1 /\ Len(m.stack) = q.h + 2
         /\ m.stack[q.h + 2] = Value(from, 0) /\ Result(m, e.e, q.k, m.stack[q.h + 1], Len(m.calls))
      \/ /\ e.t = "int" /\ from = "bool"
         /\ \/ /\ m.pc = x + 1 /\ Len(m.stack) = q.h
               /\ Worth(m, e.e, q.k, Value("bool", 0), Len(m.calls))
            \/ /\ m.pc \in {x + 3, x + 4} /\ Len(m.stack) = q.h
               /\ Worth(m, e.e, q.k, Value("bool", 1), Len(m.calls))
            \/ m.pc \in {x + 2, x + 5} /\ Found(m, e, q)
(* The first j arguments of a call are on the stack, u calls were made.    *)
ArgsMean(m, e, k) ==
  MeaningOfArgs(e.args, [i \in DOMAIN e.args |-> Meaning(m.held, m.calls)[e.args[i]]], k)
ArgsDone(m, e, q, j, u) ==
  LET slots == SlotsUpTo(e.f)[j]
      done == ArgsMean(m, e, q.k)[j]
      top == q.h + 1
  IN  /\ Len(m.stack) >= top + Len(slots) /\ m.stack[top].t = "links"
      /\ \A i \in 1..Len(slots) : m.stack[top + i].t = slots[i] \/ BoolToFloat(e)
      /\ Exact(e) => /\ done = Means("args", done.v, u) /\ IsSeq(done.v) /\ Len(done.v) = Len(slots)
                     /\ \A i \in 1..Len(slots) : done.v[i] = m.stack[top + i].v
ArgSpot(e, q, j, u) ==
  Spot(ArgNext(e, q.n, j), q.b + 1 + ArgSize(e, q.n, j), q.h + 1 + Len(SlotsUpTo(e.f)[j]), u)
InCall(m, e, q, open) ==
  \/ Entered(m, q)
  \/ \E j \in 0..Len(e.args) : \E u \in 0..Len(m.calls) :
       /\ ArgsDone(m, e, q, j, u)
       /\ IF j < Len(e.args) THEN ArgSpot(e, q, j, u) \in open[e.args[j + 1]]
          ELSE Entered(m, ArgSpot(e, q, j, u))
Inside(m, e, q, open) ==
  CASE e.is = "lit" -> Entered(m, q)
    [] e.is = "varref" -> InVar(m, e, q)
    [] e.is = "element" -> InElement(m, e, q, open)
    [] e.is = "funcall" -> InCall(m, e, q, open)
    [] e.is = "binop" /\ e.op \in {"and", "or"} -> InShort(m, e, q, open)
    [] e.is = "binop" /\ e.op \notin {"and", "or"} -> InBinop(m, e, q, open)
    [] e.is = "monop" -> InMonop(m, e, q, open)
    [] e.is = "typecast" -> InCast(m, e, q, open)
    [] e.is = "crash" -> FALSE
(* The spots the machine is inside of, for each expression.                *)
OpenFrom(e, open, m) == {q \in Spots : Len(m.stack) >= q.h /\ Inside(m, e, q, open)}
Open(m) ==
  LET open[e \in Expr] == {q \in Spots : Len(m.stack) >= q.h /\ Inside(m, e, q, open)}
  IN  open
In(m, e, q) == q \in Open(m)[e]

(* Where the machine is in an expression depends on its parts.             *)
LEMMA OpenLocal ==
  ASSUME NEW e \in Expr, NEW g, NEW h, \A c \in Parts(e) : g[c] = h[c], NEW m
  PROVE  OpenFrom(e, g, m) = OpenFrom(e, h, m)
<1> SUFFICES ASSUME NEW q \in Spots PROVE Inside(m, e, q, g) <=> Inside(m, e, q, h)
  BY DEF OpenFrom
<1>0. HasShape(e)
  BY Shape
<1>1. CASE e.is \in {"lit", "crash", "varref"}
  BY <1>1 DEF Inside
<1>2. CASE e.is = "element"
  <2>1. g[e.i] = h[e.i]
    BY <1>0, <1>2 DEF HasShape
  <2> QED BY <1>2, <2>1 DEF Inside, InElement
<1>3. CASE e.is = "funcall"
  <2>1. ASSUME NEW j \in 0..Len(e.args), j < Len(e.args) PROVE g[e.args[j + 1]] = h[e.args[j + 1]]
    <3>1. e.args \in Seq(Expr) /\ j + 1 \in DOMAIN e.args
      BY <1>0, <1>3, <2>1 DEF HasShape
    <3>2. e.args[j + 1] \in Parts(e)
      BY <1>0, <1>3, <3>1 DEF HasShape
    <3> QED BY <3>2
  <2>2. InCall(m, e, q, g) <=> InCall(m, e, q, h)
    BY <2>1 DEF InCall
  <2> QED BY <1>3, <2>2 DEF Inside
<1>4. CASE e.is = "binop"
  <2>1. g[e.l] = h[e.l] /\ g[e.r] = h[e.r]
    BY <1>0, <1>4 DEF HasShape
  <2>2. InBinop(m, e, q, g) <=> InBinop(m, e, q, h)
    BY <2>1 DEF InBinop
  <2>3. InShort(m, e, q, g) <=> InShort(m, e, q, h)
    BY <2>1 DEF InShort
  <2> QED BY <1>4, <2>2, <2>3 DEF Inside
<1>5. CASE e.is \in {"monop", "typecast"}
  <2>1. g[e.e] = h[e.e]
    BY <1>0, <1>5 DEF HasShape
  <2>2. InMonop(m, e, q, g) <=> InMonop(m, e, q, h)
    BY <2>1 DEF InMonop
  <2>3. InCast(m, e, q, g) <=> InCast(m, e, q, h)
    BY <2>1 DEF InCast
  <2> QED BY <1>5, <2>2, <2>3 DEF Inside
<1> QED BY <1>0, <1>1, <1>2, <1>3, <1>4, <1>5 DEF HasShape

(* Open, by its rule.                                                      *)
LEMMA OpenIs ==
  ASSUME NEW m
  PROVE  \A e \in Expr : Open(m)[e] = OpenFrom(e, Open(m), m)
<1> DEFINE Eq(n, g) == g = [e \in Nested[n] |-> OpenFrom(e, g, m)]
           B == {n \in 0..Depth : \E g : Eq(n, g)}
<1>1. 0..Depth \subseteq B
  <2> SUFFICES ASSUME NEW n \in 0..Depth, n > 0 => n - 1 \in B PROVE n \in B
    BY LevelInduction
  <2>1. PICK h : n > 0 => Eq(n - 1, h)
    OBVIOUS
  <2>2. n \in Nat
    BY DepthAssumption
  <2> DEFINE g == [e \in Nested[n] |-> OpenFrom(e, h, m)]
  <2>4. ASSUME NEW e \in Nested[n] PROVE OpenFrom(e, h, m) = OpenFrom(e, g, m)
    <3>1. e \in Expr /\ \A c \in Parts(e) : n > 0 /\ c \in Nested[n - 1] /\ c \in Nested[n]
      BY <2>2, PartsBelow
    <3>2. \A c \in Parts(e) : g[c] = h[c]
      BY <2>1, <3>1
    <3> HIDE DEF g
    <3> QED BY <3>1, <3>2, OpenLocal
  <2>5. Eq(n, g)
    BY <2>4
  <2> QED BY <2>5
<1>2. \E g : Eq(Depth, g)
  <2>1. Depth \in 0..Depth
    BY DepthAssumption
  <2> QED BY <1>1, <2>1
<1>3. Eq(Depth, Open(m))
  <2>1. Open(m) = CHOOSE g : Eq(Depth, g)
    BY DEF Open, OpenFrom, Expr
  <2> HIDE DEF Eq
  <2> QED BY <1>2, <2>1
<1> HIDE DEF B
<1> QED BY <1>3 DEF Expr

(* The rule, for each kind of node.                                        *)
Stage(m, e, q, in) == In(m, e, q) <=> Len(m.stack) >= q.h /\ in
OpenRule(m, e, q) ==
  /\ e.is = "lit" => Stage(m, e, q, Entered(m, q))
  /\ e.is = "varref" => Stage(m, e, q, InVar(m, e, q))
  /\ e.is = "element" => Stage(m, e, q, InElement(m, e, q, Open(m)))
  /\ e.is = "funcall" => Stage(m, e, q, InCall(m, e, q, Open(m)))
  /\ e.is = "binop" /\ e.op \in {"and", "or"} => Stage(m, e, q, InShort(m, e, q, Open(m)))
  /\ e.is = "binop" /\ e.op \notin {"and", "or"} => Stage(m, e, q, InBinop(m, e, q, Open(m)))
  /\ e.is = "monop" => Stage(m, e, q, InMonop(m, e, q, Open(m)))
  /\ e.is = "typecast" => Stage(m, e, q, InCast(m, e, q, Open(m)))
  /\ e.is = "crash" => Stage(m, e, q, FALSE)

(* Where the machine is in an expression, by its kind.                     *)
LEMMA OpenOf ==
  ASSUME NEW m
  PROVE  \A e \in Expr : \A q \in Spots : OpenRule(m, e, q)
<1> SUFFICES ASSUME NEW e \in Expr, NEW q \in Spots PROVE OpenRule(m, e, q)
  OBVIOUS
<1>0. HasShape(e)
  BY Shape
<1>1. PICK g : g = Open(m)
  OBVIOUS
<1>2. g[e] = OpenFrom(e, g, m)
  BY <1>1, OpenIs
<1>3. In(m, e, q) <=> Len(m.stack) >= q.h /\ Inside(m, e, q, g)
  BY <1>1, <1>2 DEF In, OpenFrom
<1>4. CASE e.is = "binop"
  <2>1. CASE e.op \in {"and", "or"}
    BY <1>1, <1>3, <1>4, <2>1 DEF OpenRule, Stage, Inside
  <2>2. CASE e.op \notin {"and", "or"}
    BY <1>1, <1>3, <1>4, <2>2 DEF OpenRule, Stage, Inside
  <2> QED BY <2>1, <2>2
<1>5. CASE e.is # "binop"
  BY <1>0, <1>1, <1>3, <1>5 DEF OpenRule, Stage, Inside, HasShape
<1> QED BY <1>4, <1>5

-----------------------------------------------------------------------------
(* Expressions that keep the rules, and their parts.                       *)
Sound(e) == e \in Expr /\ TYC[e].ok /\ Ruly(e) /\ Crash \notin Nodes[e] /\ TYC[e].t \in Basic

(* Only a variable is an array.                                            *)
LEMMA ArraysAreVars ==
  ASSUME NEW e \in Expr, TYC[e].d # 0
  PROVE  e.is = "varref" /\ VarType[e.x].dim # 0
<1>1. TdRule(e) /\ HasShape(e)
  BY TdOf, Shape
<1> QED BY <1>1 DEF TdRule, HasType, HasShape

(* What is sound has sound parts.                                          *)
LEMMA SoundParts ==
  ASSUME NEW e, Sound(e), NEW c \in Parts(e)
  PROVE  /\ Sound(c) /\ (e.is # "funcall" => TYC[c].d = 0)
         /\ BoolToFloat(c) => BoolToFloat(e)
         /\ Exact(e) => Exact(c)
<1>1. e \in Expr /\ HasShape(e) /\ OkRule(e) /\ ~Unruly(e) /\ c \in Expr
  BY Shape, OkOf, RulyParts DEF Sound
<1>2. TYC[c].ok /\ Ruly(c)
  BY <1>1, AcceptedSuits, RulyParts DEF Sound
<1>3. Nodes[c] \subseteq Nodes[e]
  BY <1>1, NodesOf
<1>4. Suits(e)
  BY <1>1, AcceptedSuits DEF Sound
<1>5. TYC[c].t \in Basic /\ (e.is # "funcall" => TYC[c].d = 0)
  <2>0. TYC[c].t \in Basic \cup {"void"} /\ TYC[c].d \in {0, 1}
    BY <1>1, TypesAreTypes
  <2>1. CASE e.is = "element"
    BY <1>1, <1>4, <2>0, <2>1 DEF HasShape, Unruly, Array, Suits, Basic, Numeric
  <2>2. CASE e.is = "funcall"
    <3>1. SuitsCall(e) /\ e.args \in Seq(Expr) /\ e.f \in Funs
      BY <1>1, <2>2, CallSuits DEF HasShape, Sound
    <3>2. PICK k \in DOMAIN e.args : c = e.args[k]
      BY <1>1, <2>2 DEF HasShape
    <3>3. k \in 1..Len(FunType[e.f].params) /\ TYC[c].t = FunType[e.f].params[k].type
      BY <3>1, <3>2 DEF SuitsCall
    <3>4. SlotsOk(e.f)
      BY <3>1, SlotsAreOk
    <3> QED BY <2>2, <3>3, <3>4 DEF SlotsOk
  <2>3. CASE e.is = "binop"
    BY <1>1, <1>4, <2>0, <2>3 DEF HasShape, Scalar, Suits, Basic, Numeric
  <2>4. CASE e.is = "monop"
    BY <1>1, <1>4, <2>0, <2>4 DEF HasShape, Scalar, Suits, Basic, Numeric
  <2>5. CASE e.is = "typecast"
    BY <1>1, <1>4, <2>0, <2>5 DEF HasShape, Unruly, Array, Suits, Basic, Numeric
  <2>6. CASE e.is \in {"lit", "varref", "crash"}
    BY <1>1, <2>6 DEF HasShape
  <2> QED BY <1>1, <2>1, <2>2, <2>3, <2>4, <2>5, <2>6 DEF HasShape
<1>6. /\ BoolToFloat(c) => BoolToFloat(e)
      /\ Exact(e) => Exact(c)
  BY <1>3 DEF BoolToFloat, Exact, PrintedExactly
<1> QED BY <1>1, <1>2, <1>3, <1>5, <1>6 DEF Sound

(* A meaning that was found does not change when more calls are made.      *)
Stays(e, M, N) == \A u \in Nat : M[e][u].ok => N[e][u] = M[e][u]
ArgsFrom(e, M, u) == MeaningOfArgs(e.args, [i \in DOMAIN e.args |-> M[e.args[i]]], u)
ArgsKept(e, M, N, u) ==
  \A k \in 0..Len(e.args) : LET a == ArgsFrom(e, M, u)[k]
                             IN  a.used \in Nat /\ (a.ok => ArgsFrom(e, N, u)[k] = a)

(* Nor do those of arguments.                                              *)
LEMMA ArgsStay ==
  ASSUME NEW e \in Expr, e.is = "funcall", NEW values, NEW made, NEW more, NEW M, NEW N,
         M = Meaning(values, made), N = Meaning(values, more),
         \A c \in Parts(e) : Stays(c, M, N), NEW u \in Nat
  PROVE  ArgsKept(e, M, N, u)
<1> DEFINE mM == [i \in DOMAIN e.args |-> M[e.args[i]]]
           mN == [i \in DOMAIN e.args |-> N[e.args[i]]]
<1>0. HasShape(e)
  BY Shape
<1>1. /\ e.args \in Seq(Expr) /\ Len(e.args) \in Nat /\ DOMAIN e.args = 1..Len(e.args)
      /\ \A k \in DOMAIN e.args : e.args[k] \in Expr /\ Stays(e.args[k], M, N)
  BY <1>0 DEF HasShape
<1>2. \A k \in 1..Len(e.args) : /\ mM[k] = M[e.args[k]] /\ mN[k] = N[e.args[k]]
                                /\ \A w \in Nat : mM[k][w].used \in Nat
                                /\ \A w \in Nat : mM[k][w].ok => mN[k][w] = mM[k][w]
  BY <1>1, UsedIsNat DEF Stays
<1>3. PICK a, b : a = MeaningOfArgs(e.args, mM, u) /\ b = MeaningOfArgs(e.args, mN, u)
  OBVIOUS
<1>4. ArgsRule(e.args, mM, u, a) /\ ArgsRule(e.args, mN, u, b)
  BY <1>1, <1>3, ArgsLoop
<1> HIDE DEF mM, mN
<1> DEFINE B == {k \in 0..Len(e.args) : a[k].used \in Nat /\ (a[k].ok => b[k] = a[k])}
<1>5. 0 \in B
  BY <1>1, <1>4 DEF ArgsRule, Means
<1>6. ASSUME NEW k \in 1..Len(e.args), k - 1 \in B PROVE k \in B
  <2>1. a[k] = MeaningOfArg(e.args[k], mM[k], a[k - 1]) /\ b[k] = MeaningOfArg(e.args[k], mN[k], b[k - 1])
    BY <1>4 DEF ArgsRule
  <2>2. a[k - 1].used \in Nat /\ (a[k - 1].ok => b[k - 1] = a[k - 1]) /\ k \in 0..Len(e.args)
    BY <1>1, <1>6
  <2>3. a[k].used \in Nat
    BY <1>2, <2>1, <2>2 DEF MeaningOfArg, Means
  <2>4. ASSUME a[k].ok PROVE b[k] = a[k]
    <3>1. a[k - 1].ok
      BY <2>1, <2>4 DEF MeaningOfArg
    <3>2. b[k - 1] = a[k - 1]
      BY <2>2, <3>1
    <3>3. CASE e.args[k].is = "varref" /\ VarType[e.args[k].x].dim > 0
      BY <2>1, <3>1, <3>2, <3>3 DEF MeaningOfArg
    <3>4. CASE ~(e.args[k].is = "varref" /\ VarType[e.args[k].x].dim > 0)
      <4>1. mM[k][a[k - 1].used].ok
        BY <2>1, <2>4, <3>1, <3>4 DEF MeaningOfArg
      <4>2. mN[k][a[k - 1].used] = mM[k][a[k - 1].used]
        BY <1>2, <2>2, <4>1
      <4> QED BY <2>1, <3>1, <3>2, <3>4, <4>1, <4>2 DEF MeaningOfArg
    <3> QED BY <3>3, <3>4
  <2> QED BY <2>2, <2>3, <2>4
<1> HIDE DEF B
<1>7. 0..Len(e.args) \subseteq B
  BY <1>1, <1>5, <1>6, RoundInduction
<1>8. \A k \in 0..Len(e.args) : a[k].used \in Nat /\ (a[k].ok => b[k] = a[k])
  BY <1>7 DEF B
<1> QED BY <1>3, <1>8 DEF mM, mN, ArgsKept, ArgsFrom

(* Nor do those of expressions.                                            *)
LEMMA MeaningStays ==
  ASSUME NEW values, NEW made, IsSeq(made), NEW x
  PROVE  \A e \in Expr : Stays(e, Meaning(values, made), Meaning(values, Append(made, x)))
<1>0. PICK M, N, more : M = Meaning(values, made) /\ N = Meaning(values, more) /\ more = Append(made, x)
  OBVIOUS
<1>a. Len(made) \in Nat /\ Len(more) = Len(made) + 1 /\ \A k \in 1..Len(made) : more[k] = made[k]
  BY <1>0, AppendSeq
<1> DEFINE S == {e \in Expr : Stays(e, M, N)}
<1>1. ASSUME NEW e \in Expr, Parts(e) \subseteq S PROVE e \in S
  <2> SUFFICES ASSUME NEW u \in Nat, M[e][u].ok PROVE N[e][u] = M[e][u]
    BY DEF Stays
  <2>0. HasShape(e) /\ MeaningRule(e, M, values, made, u) /\ MeaningRule(e, N, values, more, u)
    BY <1>0, Shape, MeaningOf
  <2>1. \A c \in Parts(e) : c \in Expr /\ Stays(c, M, N)
    BY <1>1
  <2>2. \A c \in Expr : \A w \in Nat : M[c][w].used \in Nat
    BY <1>0, UsedIsNat
  <2> HIDE DEF S
  <2>3. CASE e.is \in {"lit", "varref"}
    BY <2>0, <2>3 DEF MeaningRule
  <2>4. CASE e.is = "crash"
    BY <2>0, <2>4 DEF MeaningRule, Nothing
  <2>5. CASE e.is = "element"
    <3>1. M[e.i][u].ok => N[e.i][u] = M[e.i][u]
      BY <2>0, <2>1, <2>5 DEF HasShape, Stays
    <3> QED BY <2>0, <2>5, <3>1 DEF MeaningRule
  <2>6. CASE e.is = "typecast"
    <3>1. M[e.e][u].ok => N[e.e][u] = M[e.e][u]
      BY <2>0, <2>1, <2>6 DEF HasShape, Stays
    <3> QED BY <2>0, <2>6, <3>1 DEF MeaningRule
  <2>7. CASE e.is = "monop"
    <3>1. M[e.e][u].ok => N[e.e][u] = M[e.e][u]
      BY <2>0, <2>1, <2>7 DEF HasShape, Stays
    <3> QED BY <2>0, <2>7, <3>1 DEF MeaningRule, MeaningOfMonop
  <2>8. CASE e.is = "binop"
    <3>1. PICK l, v : l = M[e.l][u] /\ v = l.used
      OBVIOUS
    <3>2. (l.ok => N[e.l][u] = l) /\ v \in Nat /\ (M[e.r][v].ok => N[e.r][v] = M[e.r][v])
      BY <2>0, <2>1, <2>2, <2>8, <3>1 DEF HasShape, Stays
    <3>3. M[e][u] = MeaningOfBinop(e.op, l, M[e.r][v]) /\ l.ok
      BY <2>0, <2>8, <3>1 DEF MeaningRule, MeaningOfBinop
    <3>4. N[e][u] = MeaningOfBinop(e.op, l, N[e.r][v])
      BY <2>0, <2>8, <3>1, <3>2, <3>3 DEF MeaningRule
    <3> QED BY <3>2, <3>3, <3>4 DEF MeaningOfBinop
  <2>9. CASE e.is = "funcall"
    <3>1. PICK a, b : a = ArgsFrom(e, M, u)[Len(e.args)] /\ b = ArgsFrom(e, N, u)[Len(e.args)]
      OBVIOUS
    <3>2. M[e][u] = MeaningOfCall(e.f, a, made) /\ N[e][u] = MeaningOfCall(e.f, b, more)
      BY <2>0, <2>9, <3>1 DEF MeaningRule, ArgsFrom
    <3>3. a.used \in Nat /\ (a.ok => b = a)
      <4>1. Len(e.args) \in 0..Len(e.args)
        BY <2>0, <2>9 DEF HasShape
      <4>2. ArgsKept(e, M, N, u)
        BY <1>0, <2>1, <2>9, ArgsStay
      <4> QED BY <3>1, <4>1, <4>2 DEF ArgsKept
    <3>4. a.ok /\ a.used < Len(made)
      BY <1>a, <3>2, <3>3 DEF MeaningOfCall, Nothing
    <3>5. more[a.used + 1] = made[a.used + 1] /\ ~(a.used >= Len(more))
      BY <1>a, <3>3, <3>4
    <3> QED BY <1>a, <3>2, <3>3, <3>4, <3>5 DEF MeaningOfCall
  <2> QED BY <2>0, <2>3, <2>4, <2>5, <2>6, <2>7, <2>8, <2>9 DEF HasShape
<1> HIDE DEF S
<1>2. Expr \subseteq S
  BY <1>1, ExprInduction
<1> QED BY <1>0, <1>2 DEF S

-----------------------------------------------------------------------------
(* A step of the machine m on the code c, instruction by instruction.      *)
Last(m) == m.stack[Len(m.stack)]
Under(m) == m.stack[Len(m.stack) - 1]
Has(m, types) == /\ Len(m.stack) >= Len(types)
                 /\ \A k \in 1..Len(types) : m.stack[Len(m.stack) - Len(types) + k].t = types[k]
Lasts(m, n) == [k \in 1..n |-> m.stack[Len(m.stack) - n + k].v]

Kept(m, m2, n) == \A j \in 1..Len(m.stack) - n : m2.stack[j] = m.stack[j]
Puts(m, m2, n, v) == /\ Len(m.stack) >= n /\ Len(m2.stack) = Len(m.stack) - n + 1
                     /\ Last(m2) = v /\ Kept(m, m2, n)
Gives(m, m2, n, v) == Puts(m, m2, n, v) /\ m2.pc = m.pc + 1 /\ m2.calls = m.calls
Goes(m, m2, n, to) == /\ Len(m.stack) >= n /\ Len(m2.stack) = Len(m.stack) - n /\ Kept(m, m2, n)
                      /\ m2.pc = to /\ m2.calls = m.calls
Calls(m, m2, n, t, f) == /\ Len(m.stack) >= n /\ m2.pc = m.pc + 1
                         /\ \E v \in Held[t] :
                              /\ m2.calls = Append(m.calls, <<f, Lasts(m, n - 1), v>>)
                              /\ Puts(m, m2, n, Value(t, v))
Grows(m, m2) == m2.held = m.held /\ (m2.calls = m.calls \/ \E x : m2.calls = Append(m.calls, x))
At(c, label) == CHOOSE k \in DOMAIN c : c[k] = Label(label[1], label[2])

Loads(m, m2, i) ==
  /\ i.op = "const" => Gives(m, m2, 0, Value(i.t, i.arg))
  /\ i.op = "isrg" => Gives(m, m2, 0, Value("links", 0))
  /\ i.op = "load" => Gives(m, m2, 0, Value(i.t, IF i.t = "ref" THEN 0 ELSE m.held[i.arg]))
  /\ i.op = "loaddim" => Gives(m, m2, 0, Value("int", 1))
  /\ i.op = "loada" => Gives(m, m2, 2, Value(i.t, m.held[i.arg]))
Computes(m, m2, i) ==
  /\ i.op \in Arith \cup Order \cup Equality =>
       /\ ~NoValue(i.t, i.op, Under(m).v, Last(m).v)
       /\ Gives(m, m2, 2, Value(ResultType(i.op, i.t), OpOf(i.t, i.op, Under(m).v, Last(m).v)))
  /\ i.op = "neg" => Gives(m, m2, 1, Value(i.t, IF i.t = "int" THEN Wrap(0 - Last(m).v) ELSE 0 - Last(m).v))
  /\ i.op = "not" => Gives(m, m2, 1, Value("bool", 1 - Last(m).v))
  /\ i.op = "i2f" => Gives(m, m2, 1, Value("float", Converted("int", "float", Last(m).v)))
  /\ i.op = "f2i" => Gives(m, m2, 1, Value("int", Converted("float", "int", Last(m).v)))
Jumps(c, m, m2, i) ==
  /\ i.op = "jump" => Goes(m, m2, 0, At(c, i.arg))
  /\ i.op = "label" => Goes(m, m2, 0, m.pc + 1)
  /\ i.op \in {"branch_t", "branch_f"} =>
       Goes(m, m2, 1, IF (Last(m).v = 1) = (i.op = "branch_t") THEN At(c, i.arg) ELSE m.pc + 1)
StepRule(c, m, m2) ==
  LET i == c[m.pc]
  IN  /\ Grows(m, m2) /\ Has(m, Takes(i))
      /\ Loads(m, m2, i) /\ Computes(m, m2, i) /\ Jumps(c, m, m2, i)
      /\ i.op = "jsr" /\ i.t # "void" => Calls(m, m2, Len(Takes(i)), i.t, i.arg)

(* What the machine needs to run: a code whose labels differ, and bools    *)
(* wherever it loads one.                                                  *)
BoolsHeld(c, values) ==
  \A j \in 1..Len(c) : (c[j].op = "load" /\ c[j].t # "ref") \/ c[j].op = "loada" =>
                         (VarType[c[j].arg].type = "bool" => values[c[j].arg] \in {0, 1})
Setting(c, m) == /\ IsSeq(c) /\ (\E L : Labelled(c, L)) /\ BoolsHeld(c, m.held)
                 /\ IsSeq(m.calls) /\ IsSeq(m.stack)

LEMMA InstrHas ==
  ASSUME NEW op, NEW t, NEW arg
  PROVE  I(op, t, arg).op = op /\ I(op, t, arg).t = t /\ I(op, t, arg).arg = arg
BY DEF I

LEMMA HasNone ==
  ASSUME NEW c, NEW m, Setting(c, m)
  PROVE  Has(m, <<>>)
<1>1. Len(m.stack) \in Nat
  BY SeqFacts DEF Setting
<1> QED BY <1>1 DEF Has
LEMMA HasOne ==
  ASSUME NEW c, NEW m, Setting(c, m), NEW t
  PROVE  Has(m, <<t>>) <=> Len(m.stack) >= 1 /\ Last(m).t = t
<1>1. Len(m.stack) \in Nat
  BY SeqFacts DEF Setting
<1>2. PICK s : s = <<t>>
  OBVIOUS
<1>3. Len(s) = 1 /\ s[1] = t
  BY <1>2
<1>4. Has(m, s) <=> Len(m.stack) >= 1 /\ Last(m).t = t
  BY <1>1, <1>3 DEF Has, Last
<1> QED BY <1>2, <1>4
LEMMA HasTwo ==
  ASSUME NEW c, NEW m, Setting(c, m), NEW t, NEW u
  PROVE  Has(m, <<t, u>>) <=> Len(m.stack) >= 2 /\ Under(m).t = t /\ Last(m).t = u
<1>1. Len(m.stack) \in Nat
  BY SeqFacts DEF Setting
<1>2. PICK s : s = <<t, u>>
  OBVIOUS
<1>3. Len(s) = 2 /\ s[1] = t /\ s[2] = u
  BY <1>2
<1>4. Has(m, s) <=> Len(m.stack) >= 2 /\ Under(m).t = t /\ Last(m).t = u
  BY <1>1, <1>3 DEF Has, Last, Under
<1> QED BY <1>2, <1>4

(* What each kind of instruction takes.                                    *)
LEMMA TakesWhat ==
  ASSUME NEW t, NEW arg
  PROVE  /\ \A op \in {"const", "isrg", "load", "loaddim", "jump", "label"} : Takes(I(op, t, arg)) = <<>>
         /\ \A op \in Arith \cup Order \cup Equality : Takes(I(op, t, arg)) = <<t, t>>
         /\ \A op \in {"neg", "not", "i2f", "f2i", "take"} : Takes(I(op, t, arg)) = <<t>>
         /\ \A op \in {"branch_t", "branch_f"} : Takes(I(op, t, arg)) = <<"bool">>
         /\ Takes(I("loada", t, arg)) = <<"int", "ref">>
         /\ Takes(I("jsr", t, arg)) = <<"links">> \o Slots(arg)
<1>1. ASSUME NEW op PROVE I(op, t, arg).op = op /\ I(op, t, arg).t = t /\ I(op, t, arg).arg = arg
  BY InstrHas
<1>2. ASSUME NEW i
      PROVE  /\ i.op \in {"const", "isrg", "load", "loaddim", "jump", "label"} => Takes(i) = <<>>
             /\ i.op \in {"neg", "not", "i2f", "f2i", "take"} => Takes(i) = <<i.t>>
             /\ i.op \in {"branch_t", "branch_f"} => Takes(i) = <<"bool">>
  BY DEF Takes, Arith, Order, Equality
<1>3. ASSUME NEW i
      PROVE  /\ i.op \in Arith \cup Order \cup Equality => Takes(i) = <<i.t, i.t>>
             /\ i.op = "loada" => Takes(i) = <<"int", "ref">>
             /\ i.op = "jsr" => Takes(i) = <<"links">> \o Slots(i.arg)
  BY DEF Takes, Arith, Order, Equality
<1>4. \A op \in {"const", "isrg", "load", "loaddim", "jump", "label"} : Takes(I(op, t, arg)) = <<>>
  BY <1>1, <1>2
<1>5. \A op \in Arith \cup Order \cup Equality : Takes(I(op, t, arg)) = <<t, t>>
  BY <1>1, <1>3
<1>6. \A op \in {"neg", "not", "i2f", "f2i", "take"} : Takes(I(op, t, arg)) = <<t>>
  BY <1>1, <1>2
<1>7. \A op \in {"branch_t", "branch_f"} : Takes(I(op, t, arg)) = <<"bool">>
  BY <1>1, <1>2
<1>8. Takes(I("loada", t, arg)) = <<"int", "ref">> /\ Takes(I("jsr", t, arg)) = <<"links">> \o Slots(arg)
  BY <1>1, <1>3
<1> QED BY <1>4, <1>5, <1>6, <1>7, <1>8

(* A label stands at one place.                                            *)
LEMMA LabelAt ==
  ASSUME NEW c, NEW m, Setting(c, m), NEW kind, NEW n, NEW b, Is(c, b, Label(kind, n))
  PROVE  At(c, <<kind, n>>) = b
<1>1. PICK L : Labelled(c, L)
  BY DEF Setting
<1>2. DOMAIN c = 1..Len(c)
  BY SeqFacts DEF Setting
<1>3. PICK x : x = Label(kind, n)
  OBVIOUS
<1>4. x.op = "label" /\ x.arg[2] = n
  BY <1>3 DEF Label, I
<1>5. b \in DOMAIN c /\ c[b] = x
  BY <1>2, <1>3 DEF Is
<1>6. ASSUME NEW k \in DOMAIN c, c[k] = x PROVE k = b
  BY <1>1, <1>2, <1>4, <1>5, <1>6 DEF Labelled
<1>7. PICK l : l = <<kind, n>>
  OBVIOUS
<1>8. l[1] = kind /\ l[2] = n
  BY <1>7
<1>9. At(c, l) = CHOOSE k \in DOMAIN c : c[k] = x
  BY <1>3, <1>8 DEF At
<1>10. At(c, l) = b
  BY <1>5, <1>6, <1>9
<1> QED BY <1>7, <1>10

(* What a step does at each kind of instruction.                           *)
LEMMA StepConst ==
  ASSUME NEW c, NEW m, NEW m2, Setting(c, m), StepRule(c, m, m2), NEW t, NEW v,
         Is(c, m.pc, I("const", t, v))
  PROVE  Gives(m, m2, 0, Value(t, v))
<1>1. PICK i : i = I("const", t, v)
  OBVIOUS
<1>2. c[m.pc] = i /\ i.op = "const" /\ i.t = t /\ i.arg = v
  BY <1>1, InstrHas DEF Is
<1>3. Loads(m, m2, i) /\ Computes(m, m2, i) /\ Jumps(c, m, m2, i) /\ Has(m, Takes(i))
  BY <1>2 DEF StepRule
<1> QED BY <1>2, <1>3 DEF Loads

LEMMA StepIsrg ==
  ASSUME NEW c, NEW m, NEW m2, Setting(c, m), StepRule(c, m, m2), NEW f,
         Is(c, m.pc, I("isrg", "links", f))
  PROVE  Gives(m, m2, 0, Value("links", 0))
<1>1. PICK i : i = I("isrg", "links", f)
  OBVIOUS
<1>2. c[m.pc] = i /\ i.op = "isrg" /\ i.t = "links" /\ i.arg = f
  BY <1>1, InstrHas DEF Is
<1>3. Loads(m, m2, i) /\ Computes(m, m2, i) /\ Jumps(c, m, m2, i) /\ Has(m, Takes(i))
  BY <1>2 DEF StepRule
<1> QED BY <1>2, <1>3 DEF Loads

LEMMA StepLoad ==
  ASSUME NEW c, NEW m, NEW m2, Setting(c, m), StepRule(c, m, m2), NEW t, t # "ref", NEW x,
         Is(c, m.pc, I("load", t, x))
  PROVE  Gives(m, m2, 0, Value(t, m.held[x]))
<1>1. PICK i : i = I("load", t, x)
  OBVIOUS
<1>2. c[m.pc] = i /\ i.op = "load" /\ i.t = t /\ i.arg = x
  BY <1>1, InstrHas DEF Is
<1>3. Loads(m, m2, i) /\ Computes(m, m2, i) /\ Jumps(c, m, m2, i) /\ Has(m, Takes(i))
  BY <1>2 DEF StepRule
<1> QED BY <1>2, <1>3 DEF Loads

LEMMA StepRef ==
  ASSUME NEW c, NEW m, NEW m2, Setting(c, m), StepRule(c, m, m2), NEW x,
         Is(c, m.pc, I("load", "ref", x))
  PROVE  Gives(m, m2, 0, Value("ref", 0))
<1>1. PICK i : i = I("load", "ref", x)
  OBVIOUS
<1>2. c[m.pc] = i /\ i.op = "load" /\ i.t = "ref" /\ i.arg = x
  BY <1>1, InstrHas DEF Is
<1>3. Loads(m, m2, i) /\ Computes(m, m2, i) /\ Jumps(c, m, m2, i) /\ Has(m, Takes(i))
  BY <1>2 DEF StepRule
<1> QED BY <1>2, <1>3 DEF Loads

LEMMA StepDim ==
  ASSUME NEW c, NEW m, NEW m2, Setting(c, m), StepRule(c, m, m2), NEW x,
         Is(c, m.pc, I("loaddim", "int", x))
  PROVE  Gives(m, m2, 0, Value("int", 1))
<1>1. PICK i : i = I("loaddim", "int", x)
  OBVIOUS
<1>2. c[m.pc] = i /\ i.op = "loaddim" /\ i.t = "int" /\ i.arg = x
  BY <1>1, InstrHas DEF Is
<1>3. Loads(m, m2, i) /\ Computes(m, m2, i) /\ Jumps(c, m, m2, i) /\ Has(m, Takes(i))
  BY <1>2 DEF StepRule
<1> QED BY <1>2, <1>3 DEF Loads

LEMMA StepLoada ==
  ASSUME NEW c, NEW m, NEW m2, Setting(c, m), StepRule(c, m, m2), NEW t, NEW x,
         Is(c, m.pc, I("loada", t, x))
  PROVE  Gives(m, m2, 2, Value(t, m.held[x]))
<1>1. PICK i : i = I("loada", t, x)
  OBVIOUS
<1>2. c[m.pc] = i /\ i.op = "loada" /\ i.t = t /\ i.arg = x
  BY <1>1, InstrHas DEF Is
<1>3. Loads(m, m2, i) /\ Computes(m, m2, i) /\ Jumps(c, m, m2, i) /\ Has(m, Takes(i))
  BY <1>2 DEF StepRule
<1> QED BY <1>2, <1>3 DEF Loads

LEMMA StepOp ==
  ASSUME NEW c, NEW m, NEW m2, Setting(c, m), StepRule(c, m, m2), NEW op \in Arith \cup Order \cup Equality, NEW t, NEW a,
         Is(c, m.pc, I(op, t, a))
  PROVE  /\ Len(m.stack) >= 2 /\ Under(m).t = t /\ Last(m).t = t
         /\ ~NoValue(t, op, Under(m).v, Last(m).v)
         /\ Gives(m, m2, 2, Value(ResultType(op, t), OpOf(t, op, Under(m).v, Last(m).v)))
<1>1. PICK i : i = I(op, t, a)
  OBVIOUS
<1>2. c[m.pc] = i /\ i.op = op /\ i.t = t /\ i.arg = a
  BY <1>1, InstrHas DEF Is
<1>3. Loads(m, m2, i) /\ Computes(m, m2, i) /\ Jumps(c, m, m2, i) /\ Has(m, Takes(i))
  BY <1>2 DEF StepRule
<1>4. Takes(i) = <<t, t>>
  BY <1>1, TakesWhat
<1>5. Has(m, <<t, t>>)
  BY <1>3, <1>4
<1>6. Len(m.stack) >= 2 /\ Under(m).t = t /\ Last(m).t = t
  BY <1>5, HasTwo
<1> QED BY <1>2, <1>3, <1>6 DEF Computes

LEMMA StepNeg ==
  ASSUME NEW c, NEW m, NEW m2, Setting(c, m), StepRule(c, m, m2), NEW t, NEW a,
         Is(c, m.pc, I("neg", t, a))
  PROVE  /\ Len(m.stack) >= 1 /\ Last(m).t = t
         /\ Gives(m, m2, 1, Value(t, IF t = "int" THEN Wrap(0 - Last(m).v) ELSE 0 - Last(m).v))
<1>1. PICK i : i = I("neg", t, a)
  OBVIOUS
<1>2. c[m.pc] = i /\ i.op = "neg" /\ i.t = t /\ i.arg = a
  BY <1>1, InstrHas DEF Is
<1>3. Loads(m, m2, i) /\ Computes(m, m2, i) /\ Jumps(c, m, m2, i) /\ Has(m, Takes(i))
  BY <1>2 DEF StepRule
<1>4. Takes(i) = <<t>>
  BY <1>1, TakesWhat
<1>5. Has(m, <<t>>)
  BY <1>3, <1>4
<1>6. Len(m.stack) >= 1 /\ Last(m).t = t
  BY <1>5, HasOne
<1> QED BY <1>2, <1>3, <1>6 DEF Computes

LEMMA StepNot ==
  ASSUME NEW c, NEW m, NEW m2, Setting(c, m), StepRule(c, m, m2), NEW a,
         Is(c, m.pc, I("not", "bool", a))
  PROVE  /\ Len(m.stack) >= 1 /\ Last(m).t = "bool"
         /\ Gives(m, m2, 1, Value("bool", 1 - Last(m).v))
<1>1. PICK i : i = I("not", "bool", a)
  OBVIOUS
<1>2. c[m.pc] = i /\ i.op = "not" /\ i.t = "bool" /\ i.arg = a
  BY <1>1, InstrHas DEF Is
<1>3. Loads(m, m2, i) /\ Computes(m, m2, i) /\ Jumps(c, m, m2, i) /\ Has(m, Takes(i))
  BY <1>2 DEF StepRule
<1>4. Takes(i) = <<"bool">>
  BY <1>1, TakesWhat
<1>5. Has(m, <<"bool">>)
  BY <1>3, <1>4
<1>6. Len(m.stack) >= 1 /\ Last(m).t = "bool"
  BY <1>5, HasOne
<1> QED BY <1>2, <1>3, <1>6 DEF Computes

LEMMA StepI2f ==
  ASSUME NEW c, NEW m, NEW m2, Setting(c, m), StepRule(c, m, m2), NEW a,
         Is(c, m.pc, I("i2f", "int", a))
  PROVE  /\ Len(m.stack) >= 1 /\ Last(m).t = "int"
         /\ Gives(m, m2, 1, Value("float", Converted("int", "float", Last(m).v)))
<1>1. PICK i : i = I("i2f", "int", a)
  OBVIOUS
<1>2. c[m.pc] = i /\ i.op = "i2f" /\ i.t = "int" /\ i.arg = a
  BY <1>1, InstrHas DEF Is
<1>3. Loads(m, m2, i) /\ Computes(m, m2, i) /\ Jumps(c, m, m2, i) /\ Has(m, Takes(i))
  BY <1>2 DEF StepRule
<1>4. Takes(i) = <<"int">>
  BY <1>1, TakesWhat
<1>5. Has(m, <<"int">>)
  BY <1>3, <1>4
<1>6. Len(m.stack) >= 1 /\ Last(m).t = "int"
  BY <1>5, HasOne
<1> QED BY <1>2, <1>3, <1>6 DEF Computes

LEMMA StepF2i ==
  ASSUME NEW c, NEW m, NEW m2, Setting(c, m), StepRule(c, m, m2), NEW a,
         Is(c, m.pc, I("f2i", "float", a))
  PROVE  /\ Len(m.stack) >= 1 /\ Last(m).t = "float"
         /\ Gives(m, m2, 1, Value("int", Converted("float", "int", Last(m).v)))
<1>1. PICK i : i = I("f2i", "float", a)
  OBVIOUS
<1>2. c[m.pc] = i /\ i.op = "f2i" /\ i.t = "float" /\ i.arg = a
  BY <1>1, InstrHas DEF Is
<1>3. Loads(m, m2, i) /\ Computes(m, m2, i) /\ Jumps(c, m, m2, i) /\ Has(m, Takes(i))
  BY <1>2 DEF StepRule
<1>4. Takes(i) = <<"float">>
  BY <1>1, TakesWhat
<1>5. Has(m, <<"float">>)
  BY <1>3, <1>4
<1>6. Len(m.stack) >= 1 /\ Last(m).t = "float"
  BY <1>5, HasOne
<1> QED BY <1>2, <1>3, <1>6 DEF Computes

LEMMA StepJump ==
  ASSUME NEW c, NEW m, NEW m2, Setting(c, m), StepRule(c, m, m2), NEW t, NEW l,
         Is(c, m.pc, I("jump", t, l))
  PROVE  Goes(m, m2, 0, At(c, l))
<1>1. PICK i : i = I("jump", t, l)
  OBVIOUS
<1>2. c[m.pc] = i /\ i.op = "jump" /\ i.t = t /\ i.arg = l
  BY <1>1, InstrHas DEF Is
<1>3. Loads(m, m2, i) /\ Computes(m, m2, i) /\ Jumps(c, m, m2, i) /\ Has(m, Takes(i))
  BY <1>2 DEF StepRule
<1> QED BY <1>2, <1>3 DEF Jumps

LEMMA StepLabel ==
  ASSUME NEW c, NEW m, NEW m2, Setting(c, m), StepRule(c, m, m2), NEW t, NEW l,
         Is(c, m.pc, I("label", t, l))
  PROVE  Goes(m, m2, 0, m.pc + 1)
<1>1. PICK i : i = I("label", t, l)
  OBVIOUS
<1>2. c[m.pc] = i /\ i.op = "label" /\ i.t = t /\ i.arg = l
  BY <1>1, InstrHas DEF Is
<1>3. Loads(m, m2, i) /\ Computes(m, m2, i) /\ Jumps(c, m, m2, i) /\ Has(m, Takes(i))
  BY <1>2 DEF StepRule
<1> QED BY <1>2, <1>3 DEF Jumps

LEMMA StepBranch ==
  ASSUME NEW c, NEW m, NEW m2, Setting(c, m), StepRule(c, m, m2), NEW op \in {"branch_t", "branch_f"}, NEW t, NEW l,
         Is(c, m.pc, I(op, t, l))
  PROVE  /\ Len(m.stack) >= 1 /\ Last(m).t = "bool"
         /\ Goes(m, m2, 1, IF (Last(m).v = 1) = (op = "branch_t") THEN At(c, l) ELSE m.pc + 1)
<1>1. PICK i : i = I(op, t, l)
  OBVIOUS
<1>2. c[m.pc] = i /\ i.op = op /\ i.t = t /\ i.arg = l
  BY <1>1, InstrHas DEF Is
<1>3. Loads(m, m2, i) /\ Computes(m, m2, i) /\ Jumps(c, m, m2, i) /\ Has(m, Takes(i))
  BY <1>2 DEF StepRule
<1>4. Takes(i) = <<"bool">>
  BY <1>1, TakesWhat
<1>5. Has(m, <<"bool">>)
  BY <1>3, <1>4
<1>6. Len(m.stack) >= 1 /\ Last(m).t = "bool"
  BY <1>5, HasOne
<1> QED BY <1>2, <1>3, <1>6 DEF Jumps

LEMMA StepJsr ==
  ASSUME NEW c, NEW m, NEW m2, Setting(c, m), StepRule(c, m, m2), NEW t, t # "void", NEW f,
         Is(c, m.pc, I("jsr", t, f))
  PROVE  Has(m, <<"links">> \o Slots(f)) /\ Calls(m, m2, Len(<<"links">> \o Slots(f)), t, f)
<1>1. PICK i : i = I("jsr", t, f)
  OBVIOUS
<1>2. c[m.pc] = i /\ i.op = "jsr" /\ i.t = t /\ i.arg = f
  BY <1>1, InstrHas DEF Is
<1>3. Has(m, Takes(i)) /\ Calls(m, m2, Len(Takes(i)), t, f)
  BY <1>2 DEF StepRule
<1>4. Takes(i) = <<"links">> \o Slots(f)
  BY <1>1, TakesWhat
<1> QED BY <1>3, <1>4

-----------------------------------------------------------------------------
(* What holds of the machine wherever it is inside the code of e: the      *)
(* operands fit, unless a bool was taken for a float; where it finds no    *)
(* value there is none; and a step leads on inside, or to the end with     *)
(* what e comes to, and leaves alone what was on the stack before.         *)
Within(m, e, q) == In(m, e, q) \/ Arrived(m, e, q)
Framed(m, m2, h) == Len(m2.stack) >= h /\ \A j \in 1..h : m2.stack[j] = m.stack[j]
Fit(c, m, e) == /\ m.pc \in 1..Len(c) /\ c[m.pc].op # "take"
                /\ Has(m, Takes(c[m.pc])) \/ BoolToFloat(e)
                /\ c[m.pc].op = "jsr" => c[m.pc].arg \in Funs
Blocked(c, m) == /\ c[m.pc].op \in {"div", "mod"} /\ Has(m, Takes(c[m.pc]))
                 /\ NoValue(c[m.pc].t, c[m.pc].op, Under(m).v, Last(m).v)
Void(m, e, q) == LET n == Meaning(m.held, m.calls)[e][q.k]
                 IN  ~n.ok /\ n.used = Len(m.calls)
Worthless(c, m, e, q) == Blocked(c, m) /\ Exact(e) => Void(m, e, q)
Moves(c, m, e, q) == \A m2 : StepRule(c, m, m2) => Within(m2, e, q) /\ Framed(m, m2, q.h)
Runs(c, m, e, q) == Fit(c, m, e) /\ Worthless(c, m, e, q) /\ Moves(c, m, e, q)

(* Inside a part the machine runs as inside the whole.                     *)
LEMMA InPart ==
  ASSUME NEW c, NEW m, NEW e, Sound(e), NEW q \in Spots, NEW p \in Parts(e), NEW r \in Spots, r.h >= q.h,
         Runs(c, m, p, r), Exact(e) /\ Void(m, p, r) => Void(m, e, q),
         \A m2 : StepRule(c, m, m2) /\ Within(m2, p, r) /\ Framed(m, m2, r.h) => Within(m2, e, q)
  PROVE  Runs(c, m, e, q)
<1>0. (BoolToFloat(p) => BoolToFloat(e)) /\ (Exact(e) => Exact(p))
  BY SoundParts
<1>1. Fit(c, m, e)
  BY <1>0 DEF Runs, Fit
<1>2. Worthless(c, m, e, q)
  BY <1>0 DEF Runs, Worthless
<1>3. ASSUME NEW m2, StepRule(c, m, m2) PROVE Within(m2, e, q) /\ Framed(m, m2, q.h)
  <2>1. Within(m2, p, r) /\ Framed(m, m2, r.h)
    BY <1>3 DEF Runs, Moves
  <2>2. q.h \in Nat /\ r.h \in Nat
    BY DEF Spots
  <2>3. \A j \in 1..q.h : j \in 1..r.h
    BY <2>2
  <2>4. Within(m2, e, q) /\ \A j \in 1..q.h : m2.stack[j] = m.stack[j]
    BY <1>3, <2>1, <2>3 DEF Framed
  <2>5. m2.stack = m2.stack /\ Len(m2.stack) >= r.h
    BY <2>1 DEF Framed
  <2> QED BY <2>2, <2>4, <2>5 DEF Framed
<1> QED BY <1>1, <1>2, <1>3 DEF Runs, Moves

(* At an instruction that always has a value.                              *)
LEMMA AtInstr ==
  ASSUME NEW c, NEW m, NEW e, NEW q, NEW i, Is(c, m.pc, i), i.op \notin {"div", "mod", "take"},
         i.op = "jsr" => i.arg \in Funs,
         Has(m, Takes(i)) \/ BoolToFloat(e),
         \A m2 : StepRule(c, m, m2) => Within(m2, e, q) /\ Framed(m, m2, q.h)
  PROVE  Runs(c, m, e, q)
<1>1. c[m.pc] = i /\ m.pc \in 1..Len(c)
  BY DEF Is
<1> QED BY <1>1 DEF Runs, Fit, Worthless, Blocked, Moves

(* What a step that puts one operand leaves.                               *)
LEMMA Lands ==
  ASSUME NEW c, NEW m, NEW m2, Setting(c, m), NEW n \in Nat, NEW v, Puts(m, m2, n, v),
         NEW h \in Nat, Len(m.stack) = h + n
  PROVE  Len(m2.stack) = h + 1 /\ m2.stack[h + 1] = v /\ Framed(m, m2, h)
<1>1. Len(m.stack) - n + 1 = h + 1 /\ Len(m.stack) - n = h
  OBVIOUS
<1> QED BY <1>1 DEF Puts, Last, Kept, Framed

(* What a jump leaves.                                                     *)
LEMMA LandsAt ==
  ASSUME NEW c, NEW m, NEW m2, Setting(c, m), NEW n \in Nat, NEW to, Goes(m, m2, n, to),
         NEW h \in Nat, Len(m.stack) = h + n
  PROVE  Len(m2.stack) = h /\ Framed(m, m2, h) /\ m2.pc = to /\ m2.calls = m.calls
<1>1. Len(m.stack) - n = h
  OBVIOUS
<1> QED BY <1>1 DEF Goes, Kept, Framed

(* A value found is the result.                                            *)
LEMMA MakesResult ==
  ASSUME NEW m, NEW e, NEW k, NEW t, NEW v, NEW u, t = TYC[e].t \/ BoolToFloat(e), t = "bool" => v \in {0, 1},
         Exact(e) => Meaning(m.held, m.calls)[e][k] = Means(t, v, u)
  PROVE  Result(m, e, k, Value(t, v), u)
BY DEF Result, Worth, Value

(* A result stays one.                                                     *)
LEMMA ResultStays ==
  ASSUME NEW c, NEW m, NEW m2, Setting(c, m), Grows(m, m2), NEW e \in Expr, NEW k \in Nat
  PROVE  /\ \A w, u : Worth(m, e, k, w, u) => Worth(m2, e, k, w, u)
         /\ \A w, u : Result(m, e, k, w, u) => Result(m2, e, k, w, u)
         /\ Len(m.calls) \in Nat /\ Len(m2.calls) \in Nat /\ Len(m2.calls) >= Len(m.calls)
         /\ IsSeq(m2.calls)
<1>0. Len(m.calls) \in Nat
  BY SeqFacts DEF Setting
<1>1. \A w, u : Worth(m, e, k, w, u) => Worth(m2, e, k, w, u)
  <2>1. CASE m2.calls = m.calls
    BY <2>1 DEF Grows, Worth
  <2>2. CASE \E x : m2.calls = Append(m.calls, x)
    <3>1. PICK x : m2.calls = Append(m.calls, x)
      BY <2>2
    <3>2. Stays(e, Meaning(m.held, m.calls), Meaning(m.held, Append(m.calls, x)))
      BY MeaningStays DEF Setting
    <3>3. Meaning(m.held, m.calls)[e][k].ok => Meaning(m2.held, m2.calls)[e][k] = Meaning(m.held, m.calls)[e][k]
      BY <3>1, <3>2 DEF Stays, Grows
    <3>4. \A w, u : Means(w.t, w.v, u).ok
      BY DEF Means
    <3> QED BY <3>3, <3>4 DEF Worth
  <2> QED BY <2>1, <2>2 DEF Grows
<1>2. \A w, u : Result(m, e, k, w, u) => Result(m2, e, k, w, u)
  BY <1>1 DEF Result
<1>3. Len(m2.calls) \in Nat /\ Len(m2.calls) >= Len(m.calls) /\ IsSeq(m2.calls)
  <2>1. CASE m2.calls = m.calls
    BY <1>0, <2>1 DEF Setting
  <2>2. CASE \E x : m2.calls = Append(m.calls, x)
    <3>1. PICK x : m2.calls = Append(m.calls, x)
      BY <2>2
    <3>2. IsSeq(Append(m.calls, x)) /\ Len(Append(m.calls, x)) = Len(m.calls) + 1
      BY AppendSeq DEF Setting
    <3> QED BY <1>0, <3>1, <3>2
  <2> QED BY <2>1, <2>2 DEF Grows
<1> QED BY <1>0, <1>1, <1>2, <1>3

LEMMA SpotOf ==
  ASSUME NEW n \in Nat, NEW b \in Nat, NEW h \in Nat, NEW k \in Nat
  PROVE  /\ Spot(n, b, h, k) \in Spots
         /\ Spot(n, b, h, k).n = n /\ Spot(n, b, h, k).b = b /\ Spot(n, b, h, k).h = h /\ Spot(n, b, h, k).k = k
BY DEF Spot, Spots

(* Where an expression begins, the machine is inside.                      *)
LEMMA EnteredIsIn ==
  \A e \in Expr : Sound(e) => \A m : \A q \in Spots : Entered(m, q) => In(m, e, q)
<1> DEFINE S == {e \in Expr : Sound(e) => \A m : \A q \in Spots : Entered(m, q) => In(m, e, q)}
<1>1. ASSUME NEW e \in Expr, Parts(e) \subseteq S PROVE e \in S
  <2> SUFFICES ASSUME Sound(e), NEW m, NEW q \in Spots, Entered(m, q) PROVE In(m, e, q)
    OBVIOUS
  <2>0. HasShape(e) /\ OpenRule(m, e, q)
    BY Shape, OpenOf
  <2>1. \A p \in Parts(e) : \A r \in Spots : Entered(m, r) => In(m, p, r)
    BY <1>1, SoundParts
  <2>2. q.h \in Nat /\ Len(m.stack) >= q.h
    BY DEF Spots, Entered
  <2> HIDE DEF S
  <2>3. CASE e.is \in {"lit", "varref", "funcall"}
    BY <2>0, <2>2, <2>3 DEF OpenRule, Stage, InVar, InCall
  <2>4. CASE e.is = "crash"
    <3>1. Crash \in Nodes[e]
      BY <2>0, <2>4, NodesOf DEF HasShape
    <3> QED BY <3>1 DEF Sound
  <2>5. CASE e.is = "element"
    <3>1. In(m, e.i, q)
      BY <2>0, <2>1, <2>5 DEF HasShape
    <3> QED BY <2>0, <2>2, <2>5, <3>1 DEF OpenRule, Stage, InElement, In
  <2>6. CASE e.is \in {"monop", "typecast"}
    <3>1. In(m, e.e, q)
      BY <2>0, <2>1, <2>6 DEF HasShape
    <3> QED BY <2>0, <2>2, <2>6, <3>1 DEF OpenRule, Stage, InMonop, InCast, In
  <2>7. CASE e.is = "binop" /\ e.op \notin {"and", "or"}
    <3>1. In(m, e.l, q)
      BY <2>0, <2>1, <2>7 DEF HasShape
    <3> QED BY <2>0, <2>2, <2>7, <3>1 DEF OpenRule, Stage, InBinop, In
  <2>8. CASE e.is = "binop" /\ e.op \in {"and", "or"}
    <3>1. LeftOf(q) \in Spots /\ Entered(m, LeftOf(q))
      BY SpotOf DEF LeftOf, Entered, Spots, Spot
    <3>2. In(m, e.l, LeftOf(q))
      BY <2>0, <2>1, <2>8, <3>1 DEF HasShape
    <3> QED BY <2>0, <2>2, <2>8, <3>2 DEF OpenRule, Stage, InShort, In
  <2> QED BY <2>0, <2>3, <2>4, <2>5, <2>6, <2>7, <2>8 DEF HasShape
<1> HIDE DEF S
<1>2. Expr \subseteq S
  BY <1>1, ExprInduction
<1> QED BY <1>2 DEF S

-----------------------------------------------------------------------------
(* The machine here, inside the code of e.                                 *)
Here(c, m, e, q) == /\ Setting(c, m) /\ Sound(e) /\ q \in Spots
                    /\ LaidOut(c, q.b, e, q.n) /\ In(m, e, q)
PartsRun(c, m, e) ==
  \A p \in Parts(e) : \A r \in Spots : LaidOut(c, r.b, p, r.n) /\ In(m, p, r) => Runs(c, m, p, r)

(* The fields of a spot are numbers.                                       *)
LEMMA SpotFields ==
  ASSUME NEW q \in Spots
  PROVE  q.n \in Nat /\ q.b \in Nat /\ q.h \in Nat /\ q.k \in Nat
BY DEF Spots

(* The last two operands.                                                  *)
LEMMA Tops ==
  ASSUME NEW m, NEW h \in Nat
  PROVE  /\ Len(m.stack) = h + 1 => Last(m) = m.stack[h + 1]
         /\ Len(m.stack) = h + 2 => Last(m) = m.stack[h + 2] /\ Under(m) = m.stack[h + 1]
<1>1. h + 2 - 1 = h + 1
  OBVIOUS
<1> QED BY <1>1 DEF Last, Under

(* What is kept up to a height is kept below it.                           *)
LEMMA FrameLess ==
  ASSUME NEW m, NEW m2, NEW h \in Nat, NEW g \in 0..h, Framed(m, m2, h)
  PROVE  /\ Framed(m, m2, g) /\ Len(m2.stack) >= g
         /\ h >= g + 1 => m2.stack[g + 1] = m.stack[g + 1]
<1>1. \A j \in 1..g : j \in 1..h
  OBVIOUS
<1>2. h >= g + 1 => g + 1 \in 1..h
  OBVIOUS
<1>3. Len(m2.stack) >= g
  BY DEF Framed
<1> QED BY <1>1, <1>2, <1>3 DEF Framed

(* The last instruction of e: what it gives is what e comes to.            *)
LEMMA Finds ==
  ASSUME NEW c, NEW m, NEW m2, Setting(c, m), StepRule(c, m, m2), NEW e, NEW q \in Spots, NEW n \in Nat,
         NEW t, NEW v, Gives(m, m2, n, Value(t, v)), Len(m.stack) = q.h + n,
         m.pc + 1 = q.b + Size(e, q.n), TYC[e].d = 0, t = TYC[e].t \/ BoolToFloat(e),
         t = "bool" => v \in {0, 1},
         Exact(e) => Meaning(m.held, m.calls)[e][q.k] = Means(t, v, Len(m.calls))
  PROVE  Within(m2, e, q) /\ Framed(m, m2, q.h)
<1>1. q.h \in Nat
  BY SpotFields
<1>2. m2.held = m.held /\ m2.calls = m.calls /\ m2.pc = m.pc + 1 /\ Puts(m, m2, n, Value(t, v))
  BY DEF Gives, StepRule, Grows
<1>3. Len(m2.stack) = q.h + 1 /\ m2.stack[q.h + 1] = Value(t, v) /\ Framed(m, m2, q.h)
  BY <1>1, <1>2, Lands
<1>4. Result(m2, e, q.k, Value(t, v), Len(m2.calls))
  BY <1>2, MakesResult
<1> QED BY <1>2, <1>3, <1>4 DEF Within, Arrived, Found

(* A literal.                                                              *)
LEMMA LitRuns ==
  ASSUME NEW c, NEW m, NEW e, NEW q, Here(c, m, e, q), e.is = "lit"
  PROVE  Runs(c, m, e, q)
<1>1. /\ Setting(c, m) /\ IsSeq(c) /\ Sound(e) /\ e \in Expr /\ TYC[e].ok /\ q \in Spots
      /\ HasShape(e) /\ TdRule(e)
  BY Shape, TdOf DEF Here, Setting, Sound
<1>2. LaidLit(c, q.b, e, q.n)
  BY <1>1, LitLaid, SpotFields DEF Here
<1>3. Entered(m, q)
  BY <1>1, OpenOf DEF Here, OpenRule, Stage
<1> DEFINE v == Printed(e.t, e.v)
<1>4. Is(c, m.pc, I("const", e.t, v)) /\ m.pc + 1 = q.b + Size(e, q.n)
  BY <1>2, <1>3 DEF LaidLit, Entered
<1>5. TYC[e].d = 0 /\ TYC[e].t = e.t
  BY <1>1 DEF TdRule, HasType
<1>6. e.t = "bool" => v \in {0, 1}
  BY <1>1 DEF HasShape, Printed
<1>7. ASSUME Exact(e) PROVE Meaning(m.held, m.calls)[e][q.k] = Means(e.t, v, Len(m.calls))
  <2>1. v = e.v
    BY <1>1, <1>7, NodesOf DEF Exact, PrintedExactly
  <2>2. MeaningRule(e, Meaning(m.held, m.calls), m.held, m.calls, q.k)
    BY <1>1, MeaningOf, SpotFields
  <2> QED BY <1>3, <2>1, <2>2 DEF MeaningRule, Entered
<1> HIDE DEF v
<1>8. Has(m, Takes(I("const", e.t, v)))
  BY <1>1, HasNone, TakesWhat
<1>9. ASSUME NEW m2, StepRule(c, m, m2) PROVE Within(m2, e, q) /\ Framed(m, m2, q.h)
  <2>1. Gives(m, m2, 0, Value(e.t, v))
    BY <1>1, <1>4, <1>9, StepConst
  <2>2. Len(m.stack) = q.h + 0
    BY <1>1, <1>3, SpotFields DEF Entered
  <2> QED BY <1>1, <1>4, <1>5, <1>6, <1>7, <1>9, <2>1, <2>2, Finds
<1>10. I("const", e.t, v).op = "const"
  BY InstrHas
<1> QED BY <1>4, <1>8, <1>9, <1>10, AtInstr

(* A bool that is loaded is a bit.                                         *)
LEMMA LoadedBool ==
  ASSUME NEW c, NEW m, Setting(c, m), NEW op, NEW t, NEW x, Is(c, m.pc, I(op, t, x)),
         (op = "load" /\ t # "ref") \/ op = "loada", VarType[x].type = "bool"
  PROVE  m.held[x] \in {0, 1}
<1>1. PICK i : i = I(op, t, x)
  OBVIOUS
<1>2. i.op = op /\ i.t = t /\ i.arg = x
  BY <1>1, InstrHas
<1>3. m.pc \in 1..Len(c) /\ c[m.pc] = i
  BY <1>1 DEF Is
<1> QED BY <1>2, <1>3 DEF Setting, BoolsHeld

(* A variable; a whole array is its reference and its dimension.           *)
LEMMA VarRuns ==
  ASSUME NEW c, NEW m, NEW e, NEW q, Here(c, m, e, q), e.is = "varref"
  PROVE  Runs(c, m, e, q)
<1>1. /\ Setting(c, m) /\ IsSeq(c) /\ Sound(e) /\ e \in Expr /\ TYC[e].ok /\ q \in Spots
      /\ HasShape(e) /\ TdRule(e) /\ q.h \in Nat
  BY Shape, TdOf, SpotFields DEF Here, Setting, Sound
<1>2. LaidVar(c, q.b, e, q.n)
  BY <1>1, VarLaid, SpotFields DEF Here
<1>3. InVar(m, e, q)
  BY <1>1, OpenOf DEF Here, OpenRule, Stage
<1>4. TYC[e].t = VarType[e.x].type /\ TYC[e].d = VarType[e.x].dim /\ TYC[e].t \in Basic
  BY <1>1 DEF TdRule, HasType, Sound
<1>5. CASE TYC[e].d = 0
  <2> DEFINE t == TYC[e].t
  <2>1. Entered(m, q)
    BY <1>3, <1>5 DEF InVar
  <2>2. Is(c, m.pc, I("load", t, e.x)) /\ m.pc + 1 = q.b + Size(e, q.n)
    BY <1>2, <1>4, <1>5, <2>1 DEF LaidVar, Entered
  <2>3. t # "ref"
    BY <1>4 DEF Basic, Numeric
  <2>4. t = "bool" => m.held[e.x] \in {0, 1}
    BY <1>1, <1>4, <2>2, <2>3, LoadedBool
  <2>5. Meaning(m.held, m.calls)[e][q.k] = Means(t, m.held[e.x], Len(m.calls))
    <3>1. MeaningRule(e, Meaning(m.held, m.calls), m.held, m.calls, q.k)
      BY <1>1, MeaningOf, SpotFields
    <3> QED BY <1>4, <2>1, <3>1 DEF MeaningRule, Entered
  <2>6. Has(m, Takes(I("load", t, e.x)))
    BY <1>1, HasNone, TakesWhat
  <2>7. t = TYC[e].t
    OBVIOUS
  <2> HIDE DEF t
  <2>8. ASSUME NEW m2, StepRule(c, m, m2) PROVE Within(m2, e, q) /\ Framed(m, m2, q.h)
    <3>1. Gives(m, m2, 0, Value(t, m.held[e.x]))
      BY <1>1, <2>2, <2>3, <2>8, StepLoad
    <3>2. Len(m.stack) = q.h + 0
      BY <1>1, <2>1 DEF Entered
    <3> QED BY <1>1, <1>5, <2>2, <2>4, <2>5, <2>7, <2>8, <3>1, <3>2, Finds
  <2>9. I("load", t, e.x).op = "load"
    BY InstrHas
  <2> QED BY <2>2, <2>6, <2>8, <2>9, AtInstr
<1>6. CASE TYC[e].d # 0
  <2>1. /\ Size(e, q.n) = 2 /\ Is(c, q.b, I("load", "ref", e.x)) /\ Is(c, q.b + 1, I("loaddim", "int", e.x))
    BY <1>2, <1>4, <1>6 DEF LaidVar
  <2>2. Has(m, Takes(I("load", "ref", e.x))) /\ Has(m, Takes(I("loaddim", "int", e.x)))
    BY <1>1, HasNone, TakesWhat
  <2>3. CASE Entered(m, q)
    <3>1. Is(c, m.pc, I("load", "ref", e.x)) /\ m.pc = q.b /\ Len(m.stack) = q.h + 0
      BY <1>1, <2>1, <2>3 DEF Entered
    <3>2. ASSUME NEW m2, StepRule(c, m, m2) PROVE Within(m2, e, q) /\ Framed(m, m2, q.h)
      <4>1. Gives(m, m2, 0, Value("ref", 0))
        BY <1>1, <3>1, <3>2, StepRef
      <4>2. Len(m2.stack) = q.h + 1 /\ m2.stack[q.h + 1] = Value("ref", 0) /\ Framed(m, m2, q.h)
        BY <1>1, <3>1, <4>1, Lands DEF Gives
      <4>3. InVar(m2, e, q) /\ Len(m2.stack) >= q.h
        <5>1. m2.pc = q.b + 1 /\ Len(m2.calls) = q.k
          BY <2>3, <3>1, <4>1 DEF Gives, Entered
        <5> QED BY <1>6, <4>2, <5>1 DEF InVar, Framed
      <4>4. In(m2, e, q)
        BY <1>1, <4>3, OpenOf DEF OpenRule, Stage
      <4> QED BY <4>2, <4>4 DEF Within
    <3>3. I("load", "ref", e.x).op = "load"
      BY InstrHas
    <3> QED BY <2>2, <3>1, <3>2, <3>3, AtInstr
  <2>4. CASE ~Entered(m, q)
    <3>1. /\ m.pc = q.b + 1 /\ Len(m.stack) = q.h + 1 /\ Len(m.calls) = q.k
          /\ m.stack[q.h + 1] = Value("ref", 0)
      BY <1>3, <2>4 DEF InVar
    <3>2. Is(c, m.pc, I("loaddim", "int", e.x))
      BY <2>1, <3>1
    <3>3. ASSUME NEW m2, StepRule(c, m, m2) PROVE Within(m2, e, q) /\ Framed(m, m2, q.h)
      <4>1. Gives(m, m2, 0, Value("int", 1))
        BY <1>1, <3>2, <3>3, StepDim
      <4>2. Len(m.stack) = (q.h + 1) + 0 /\ q.h + 1 \in Nat
        BY <1>1, <3>1
      <4>3. Len(m2.stack) = (q.h + 1) + 1 /\ m2.stack[(q.h + 1) + 1] = Value("int", 1) /\ Framed(m, m2, q.h + 1)
        BY <1>1, <4>1, <4>2, Lands DEF Gives
      <4>4. (q.h + 1) + 1 = q.h + 2
        BY <1>1
      <4>5. m2.stack[q.h + 1] = m.stack[q.h + 1] /\ Framed(m, m2, q.h)
        BY <1>1, <4>3, FrameLess
      <4>6. m2.pc = q.b + Size(e, q.n)
        BY <1>1, <2>1, <3>1, <4>1, SpotFields DEF Gives
      <4>7. Passed(m2, q)
        BY <3>1, <4>1, <4>3, <4>4, <4>5 DEF Passed, Gives
      <4> QED BY <1>6, <4>5, <4>6, <4>7 DEF Within, Arrived
    <3>4. I("loaddim", "int", e.x).op = "loaddim"
      BY InstrHas
    <3> QED BY <2>2, <3>2, <3>3, <3>4, AtInstr
  <2> QED BY <2>3, <2>4
<1> QED BY <1>5, <1>6

-----------------------------------------------------------------------------
(* What a step of the instruction under the machine keeps of a result.     *)
LEMMA KeepsResult ==
  ASSUME NEW c, NEW m, NEW m2, Setting(c, m), StepRule(c, m, m2), NEW e \in Expr, NEW k \in Nat
  PROVE  /\ \A w, u : Worth(m, e, k, w, u) => Worth(m2, e, k, w, u)
         /\ \A w, u : Result(m, e, k, w, u) => Result(m2, e, k, w, u)
         /\ Len(m.calls) \in Nat /\ Len(m2.calls) \in Nat /\ Len(m2.calls) >= Len(m.calls)
BY ResultStays DEF StepRule

(* Facts about the parts of a node.                                        *)
LEMMA PartFacts ==
  ASSUME NEW e, Sound(e), NEW p \in Parts(e), NEW n \in Nat
  PROVE  /\ Sound(p) /\ p \in Expr /\ TYC[p].ok /\ Size(p, n) \in Nat /\ After(p, n) \in Nat
         /\ (e.is # "funcall" => TYC[p].d = 0)
         /\ (BoolToFloat(p) => BoolToFloat(e)) /\ (Exact(e) => Exact(p))
BY SoundParts, SizeFacts DEF Sound

LandedOn(m, m2, h, v) ==
  /\ Len(m2.stack) = h + 2 /\ m2.stack[h + 2] = v /\ m2.stack[h + 1] = m.stack[h + 1]
  /\ Framed(m, m2, h) /\ Len(m2.stack) >= h

(* A step that puts one operand at a height.                               *)
LEMMA LandsOn ==
  ASSUME NEW c, NEW m, NEW m2, Setting(c, m), NEW v, Puts(m, m2, 0, v), NEW h \in Nat, Len(m.stack) = h + 1
  PROVE  LandedOn(m, m2, h, v)
<1>1. PICK g \in Nat : g = h + 1
  OBVIOUS
<1>2. g \in Nat /\ Len(m.stack) = g + 0 /\ g + 1 = h + 2 /\ h \in 0..g /\ g >= h + 1
  BY <1>1
<1>3. Len(m2.stack) = g + 1 /\ m2.stack[g + 1] = v /\ Framed(m, m2, g)
  BY <1>2, Lands
<1>4. Framed(m, m2, h) /\ Len(m2.stack) >= h /\ m2.stack[h + 1] = m.stack[h + 1]
  BY <1>1, <1>2, <1>3, FrameLess
<1> QED BY <1>2, <1>3, <1>4 DEF LandedOn

(* An element: the index, the reference, the load.                         *)
LEMMA ElementRuns ==
  ASSUME NEW c, NEW m, NEW e, NEW q, Here(c, m, e, q), e.is = "element", PartsRun(c, m, e)
  PROVE  Runs(c, m, e, q)
<1>1. /\ Setting(c, m) /\ IsSeq(c) /\ Sound(e) /\ e \in Expr /\ TYC[e].ok /\ q \in Spots
      /\ HasShape(e) /\ TdRule(e) /\ OkRule(e) /\ q.h \in Nat /\ q.b \in Nat /\ q.n \in Nat /\ q.k \in Nat
  BY Shape, TdOf, OkOf, SpotFields DEF Here, Setting, Sound
<1>2. e.i \in Parts(e) /\ e.i \in Expr /\ TYC[e.i].t = "int"
  BY <1>1 DEF HasShape, OkRule
<1>3. /\ TYC[e.i].d = 0 /\ Size(e.i, q.n) \in Nat
      /\ (BoolToFloat(e.i) => BoolToFloat(e)) /\ (Exact(e) => Exact(e.i))
  BY <1>1, <1>2, PartFacts
<1> DEFINE x == q.b + Size(e.i, q.n)
           t == VarType[e.x].type
<1>4. /\ LaidOut(c, q.b, e.i, q.n) /\ q.b + Size(e, q.n) = x + 2
      /\ Is(c, x, I("load", "ref", e.x)) /\ Is(c, x + 1, I("loada", t, e.x))
  <2>1. LaidElement(c, q.b, e, q.n)
    BY <1>1, ElementLaid DEF Here
  <2> QED BY <1>1, <1>3, <2>1 DEF LaidElement
<1>5. InElement(m, e, q, Open(m))
  BY <1>1, OpenOf DEF Here, OpenRule, Stage
<1>6. TYC[e].t = t /\ TYC[e].d = 0 /\ t \in Basic
  BY <1>1 DEF TdRule, HasType, Sound
<1>7. MeaningRule(e, Meaning(m.held, m.calls), m.held, m.calls, q.k)
  BY <1>1, MeaningOf
<1>x. x \in Nat
  BY <1>1, <1>3
<1> HIDE DEF x, t
<1>8. CASE In(m, e.i, q)
  <2>1. Runs(c, m, e.i, q)
    BY <1>1, <1>2, <1>4, <1>8 DEF PartsRun
  <2>2. Void(m, e.i, q) => Void(m, e, q)
    BY <1>1, <1>7 DEF Void, MeaningRule
  <2>3. ASSUME NEW m2, Within(m2, e.i, q), Framed(m, m2, q.h) PROVE Within(m2, e, q)
    <3>1. InElement(m2, e, q, Open(m2)) /\ Len(m2.stack) >= q.h
      BY <2>3 DEF Within, In, InElement, Framed
    <3>2. In(m2, e, q)
      BY <1>1, <3>1, OpenOf DEF OpenRule, Stage
    <3> QED BY <3>2 DEF Within
  <2> QED BY <1>1, <1>2, <2>1, <2>2, <2>3, InPart
<1>9. CASE Arrived(m, e.i, q)
  <2>1. m.pc = x /\ Len(m.stack) = q.h + 1 /\ Result(m, e.i, q.k, m.stack[q.h + 1], Len(m.calls))
    BY <1>3, <1>9 DEF Arrived, Found, x
  <2>2. Has(m, Takes(I("load", "ref", e.x)))
    BY <1>1, HasNone, TakesWhat
  <2>3. ASSUME NEW m2, StepRule(c, m, m2) PROVE Within(m2, e, q) /\ Framed(m, m2, q.h)
    <3>1. Gives(m, m2, 0, Value("ref", 0))
      BY <1>1, <1>4, <2>1, <2>3, StepRef
    <3>4. /\ Len(m2.stack) = q.h + 2 /\ m2.stack[q.h + 2] = Value("ref", 0)
          /\ m2.stack[q.h + 1] = m.stack[q.h + 1] /\ Framed(m, m2, q.h) /\ Len(m2.stack) >= q.h
      <4>1. Puts(m, m2, 0, Value("ref", 0))
        BY <3>1 DEF Gives
      <4>2. LandedOn(m, m2, q.h, Value("ref", 0))
        BY <1>1, <2>1, <4>1, LandsOn
      <4> QED BY <4>2 DEF LandedOn
    <3>5. Result(m2, e.i, q.k, m2.stack[q.h + 1], Len(m2.calls)) /\ m2.pc = x + 1
      BY <1>1, <1>2, <2>1, <2>3, <3>1, <3>4, KeepsResult DEF Gives
    <3>6. InElement(m2, e, q, Open(m2))
      BY <3>4, <3>5 DEF InElement, x
    <3>7. In(m2, e, q)
      BY <1>1, <3>4, <3>6, OpenOf DEF OpenRule, Stage
    <3> QED BY <3>4, <3>7 DEF Within
  <2>4. I("load", "ref", e.x).op = "load"
    BY InstrHas
  <2> QED BY <1>4, <2>1, <2>2, <2>3, <2>4, AtInstr
<1>10. CASE ~In(m, e.i, q) /\ ~Arrived(m, e.i, q)
  <2>1. /\ m.pc = x + 1 /\ Len(m.stack) = q.h + 2 /\ m.stack[q.h + 2] = Value("ref", 0)
        /\ Result(m, e.i, q.k, m.stack[q.h + 1], Len(m.calls))
    BY <1>5, <1>10 DEF InElement, In, x
  <2>2. Last(m) = m.stack[q.h + 2] /\ Under(m) = m.stack[q.h + 1] /\ Len(m.stack) >= 2
    BY <1>1, <2>1, Tops, SMTT(20)
  <2>3. Under(m).t = "int" \/ BoolToFloat(e)
    BY <1>2, <1>3, <2>1, <2>2 DEF Result
  <2>4. Last(m).t = "ref"
    BY <2>1, <2>2 DEF Value
  <2>5. Has(m, Takes(I("loada", t, e.x))) \/ BoolToFloat(e)
    BY <1>1, <2>2, <2>3, <2>4, HasTwo, TakesWhat
  <2>6. t = "bool" => m.held[e.x] \in {0, 1}
    BY <1>1, <1>4, <2>1, LoadedBool DEF t
  <2>7. ASSUME Exact(e) PROVE Meaning(m.held, m.calls)[e][q.k] = Means(t, m.held[e.x], Len(m.calls))
    <3>1. PICK w, n : w = m.stack[q.h + 1] /\ n = Meaning(m.held, m.calls)[e.i][q.k]
      OBVIOUS
    <3>2. n = Means(w.t, w.v, Len(m.calls))
      BY <1>3, <2>1, <2>7, <3>1 DEF Result, Worth
    <3>3. n.ok /\ n.used = Len(m.calls)
      BY <3>2 DEF Means
    <3> QED BY <1>1, <1>7, <3>1, <3>3 DEF MeaningRule, t
  <2>8. ASSUME NEW m2, StepRule(c, m, m2) PROVE Within(m2, e, q) /\ Framed(m, m2, q.h)
    <3>1. Gives(m, m2, 2, Value(t, m.held[e.x]))
      BY <1>1, <1>4, <2>1, <2>8, StepLoada
    <3>2. m.pc + 1 = q.b + Size(e, q.n)
      BY <1>4, <1>x, <2>1
    <3> QED BY <1>1, <1>6, <2>1, <2>6, <2>7, <2>8, <3>1, <3>2, Finds
  <2>9. I("loada", t, e.x).op = "loada"
    BY InstrHas
  <2> QED BY <1>4, <2>1, <2>5, <2>8, <2>9, AtInstr
<1> QED BY <1>8, <1>9, <1>10

-----------------------------------------------------------------------------
(* What an operator leaves.                                                *)
LEMMA OpIsBit ==
  ASSUME NEW t \in Basic, NEW op \in Arith \cup Order \cup Equality, NEW a, NEW b, ResultType(op, t) = "bool"
  PROVE  OpOf(t, op, a, b) \in {0, 1}
<1>1. CASE t = "bool"
  BY <1>1, TruthIsBit DEF OpOf, BoolOp
<1>2. CASE t \in Numeric
  <2>1. op \notin Arith
    BY <1>2 DEF ResultType, Numeric
  <2>2. OpOf(t, op, a, b) = Compared(op, a, b)
    BY <1>2, <2>1 DEF OpOf, IntOp, FloatOp, Arith, Numeric
  <2> QED BY <2>2, ComparedIsBit
<1> QED BY <1>1, <1>2 DEF Basic

OpMeans(op, t, a, b, w) ==
  IF NoValue(t, op, a, b) THEN Nothing(w) ELSE Means(ResultType(op, t), OpOf(t, op, a, b), w)

(* An operator, given what its operands mean.                              *)
LEMMA MeaningOfOp ==
  ASSUME NEW op, op \notin {"and", "or"}, NEW t, NEW a, NEW b, NEW u, NEW w
  PROVE  MeaningOfBinop(op, Means(t, a, u), Means(t, b, w)) = OpMeans(op, t, a, b, w)
BY DEF MeaningOfBinop, Means, OpMeans

(* What the operands of an operator are when it is reached.                *)
BothThere(m, e, q, u) ==
  /\ Len(m.stack) = q.h + 2 /\ Under(m) = Value(Under(m).t, Under(m).v) /\ Last(m) = Value(Last(m).t, Last(m).v)
  /\ (Under(m).t = TYC[e.l].t /\ Last(m).t = TYC[e.l].t) \/ BoolToFloat(e)
  /\ Exact(e) => /\ Meaning(m.held, m.calls)[e.l][q.k] = Means(TYC[e.l].t, Under(m).v, u)
                 /\ Meaning(m.held, m.calls)[e.r][u] = Means(TYC[e.l].t, Last(m).v, Len(m.calls))

(* The operator itself.                                                    *)
LEMMA OperatorRuns ==
  ASSUME NEW c, NEW m, NEW e, NEW q, Here(c, m, e, q), e.is = "binop", e.op \notin {"and", "or"},
         NEW u \in Nat, BothThere(m, e, q, u),
         NEW arg, Is(c, m.pc, I(e.op, TYC[e.l].t, arg)), m.pc + 1 = q.b + Size(e, q.n)
  PROVE  Runs(c, m, e, q)
<1>1. /\ Setting(c, m) /\ IsSeq(c) /\ Sound(e) /\ e \in Expr /\ TYC[e].ok /\ q \in Spots
      /\ HasShape(e) /\ TdRule(e) /\ q.h \in Nat /\ q.b \in Nat /\ q.n \in Nat /\ q.k \in Nat
  BY Shape, TdOf, SpotFields DEF Here, Setting, Sound
<1> DEFINE t == TYC[e.l].t
           a == Under(m).v
           b == Last(m).v
           o == e.op
<1>2. o \in Arith \cup Order \cup Equality /\ o # "take" /\ o # "jsr" /\ o \notin {"and", "or"}
  BY <1>1 DEF HasShape, Arith, Order, Equality
<1>3. TYC[e].t = ResultType(o, t) /\ TYC[e].d = 0 /\ t \in Basic
  <2>1. e.l \in Parts(e)
    BY <1>1 DEF HasShape
  <2>2. t \in Basic
    BY <1>1, <2>1, PartFacts DEF Sound
  <2> QED BY <1>1, <2>2 DEF TdRule, HasType
<1>4. Len(m.stack) >= 2 /\ (Has(m, <<t, t>>) \/ BoolToFloat(e))
  <2>0. Len(m.stack) = q.h + 2 /\ q.h \in Nat
    BY <1>1 DEF BothThere
  <2>l. Len(m.stack) \in Nat
    BY <2>0
  <2>1. Len(m.stack) >= 2
    BY <2>0, <2>l
  <2>2. Under(m).t = t /\ Last(m).t = t => Has(m, <<t, t>>)
    BY <1>1, <2>1, HasTwo
  <2> QED BY <2>1, <2>2 DEF BothThere
<1>5. MeaningRule(e, Meaning(m.held, m.calls), m.held, m.calls, q.k)
  BY <1>1, MeaningOf
<1>6. ASSUME Exact(e)
      PROVE  Meaning(m.held, m.calls)[e][q.k] = OpMeans(o, t, a, b, Len(m.calls))
  <2>1. PICK M : M = Meaning(m.held, m.calls)
    OBVIOUS
  <2>2. PICK l : l = M[e.l][q.k]
    OBVIOUS
  <2>3. l = Means(t, a, u) /\ M[e.r][u] = Means(t, b, Len(m.calls))
    BY <1>6, <2>1, <2>2 DEF BothThere
  <2>4. l.used = u
    BY <2>3 DEF Means
  <2>5. M[e][q.k] = MeaningOfBinop(o, l, M[e.r][l.used])
    BY <1>5, <2>1, <2>2 DEF MeaningRule
  <2>6. M[e][q.k] = MeaningOfBinop(o, Means(t, a, u), Means(t, b, Len(m.calls)))
    BY <2>3, <2>4, <2>5
  <2>7. MeaningOfBinop(o, Means(t, a, u), Means(t, b, Len(m.calls))) = OpMeans(o, t, a, b, Len(m.calls))
    <3>1. o \notin {"and", "or"}
      BY <1>2
    <3> HIDE DEF o, t, a, b
    <3> QED BY <3>1, MeaningOfOp
  <2> QED BY <2>1, <2>6, <2>7
<1>7. Is(c, m.pc, I(o, t, arg))
  OBVIOUS
<1>7a. Len(m.stack) = q.h + 2
  BY DEF BothThere
<1> HIDE DEF a, b, t, o
<1>8. PICK i : i = I(o, t, arg)
  OBVIOUS
<1>9. i.op = o /\ i.t = t /\ Takes(i) = <<t, t>> /\ m.pc \in 1..Len(c) /\ c[m.pc] = i
  <2>1. i.op = o /\ i.t = t /\ m.pc \in 1..Len(c) /\ c[m.pc] = i
    <3>0. I(o, t, arg).op = o /\ I(o, t, arg).t = t
      BY InstrHas
    <3>1. i.op = o /\ i.t = t
      BY <1>8, <3>0
    <3> QED BY <1>7, <1>8, <3>1 DEF Is
  <2>2. Takes(I(o, t, arg)) = <<t, t>>
    BY <1>2, TakesWhat
  <2> QED BY <1>8, <2>1, <2>2
<1>10. Fit(c, m, e)
  BY <1>2, <1>4, <1>9 DEF Fit
<1>11. Worthless(c, m, e, q)
  <2> SUFFICES ASSUME Blocked(c, m), Exact(e) PROVE Void(m, e, q)
    BY DEF Worthless
  <2>1. NoValue(t, o, a, b)
    BY <1>9 DEF Blocked, a, b
  <2>2. Meaning(m.held, m.calls)[e][q.k] = Nothing(Len(m.calls))
    BY <1>6, <2>1 DEF OpMeans
  <2>3. ~Nothing(Len(m.calls)).ok /\ Nothing(Len(m.calls)).used = Len(m.calls)
    BY DEF Nothing
  <2> QED BY <2>2, <2>3 DEF Void
<1>12. Moves(c, m, e, q)
  <2> SUFFICES ASSUME NEW m2, StepRule(c, m, m2) PROVE Within(m2, e, q) /\ Framed(m, m2, q.h)
    BY DEF Moves
  <2>1. ~NoValue(t, o, a, b) /\ Gives(m, m2, 2, Value(ResultType(o, t), OpOf(t, o, a, b)))
    BY <1>1, <1>2, <1>7, StepOp DEF a, b
  <2> DEFINE T == ResultType(o, t)
             v == OpOf(t, o, a, b)
  <2>2. T = "bool" => v \in {0, 1}
    BY <1>2, <1>3, OpIsBit
  <2>3. Exact(e) => Meaning(m.held, m.calls)[e][q.k] = Means(T, v, Len(m.calls))
    BY <1>6, <2>1 DEF OpMeans
  <2>4. T = TYC[e].t /\ Gives(m, m2, 2, Value(T, v))
    BY <1>3, <2>1
  <2> HIDE DEF T, v
  <2> QED BY <1>1, <1>3, <1>7a, <2>2, <2>3, <2>4, Finds
<1> QED BY <1>10, <1>11, <1>12 DEF Runs

-----------------------------------------------------------------------------
(* The operator behind its operands.                                       *)
OperatorAt(c, b, e, n) ==
  LET x == b + Size(e.l, n)
      y == x + Size(e.r, After(e.l, n))
  IN  /\ LaidOut(c, b, e.l, n) /\ LaidOut(c, x, e.r, After(e.l, n)) /\ b + Size(e, n) = y + 1
      /\ \E arg : Is(c, y, I(e.op, TYC[e.l].t, arg))

(* It is where the second operand ends.                                    *)
LEMMA OperatorLaid ==
  ASSUME NEW c, IsSeq(c), NEW b \in Nat, NEW e, Sound(e), e.is = "binop", e.op \notin {"and", "or"},
         NEW n \in Nat, LaidOut(c, b, e, n)
  PROVE  OperatorAt(c, b, e, n)
<1>1. e \in Expr /\ TYC[e].ok /\ OkRule(e) /\ ~Unruly(e)
  BY OkOf, RulyParts DEF Sound
<1>2. LaidBinop(c, b, e, n)
  BY <1>1, BinopLaid
<1>3. e.op = "mod" => TYC[e.l].t = "int"
  BY <1>1 DEF OkRule, Unruly, Arith, Numeric
<1>4. (IF e.op = "mod" THEN "int" ELSE TYC[e.l].t) = TYC[e.l].t
  BY <1>3
<1>5. PICK arg, t : arg = "" /\ t = IF e.op = "mod" THEN "int" ELSE TYC[e.l].t
  OBVIOUS
<1>6. Is(c, b + Size(e.l, n) + Size(e.r, After(e.l, n)), I(e.op, t, arg))
  BY <1>2, <1>5, Zenon DEF LaidBinop
<1>7. /\ LaidOut(c, b, e.l, n) /\ LaidOut(c, b + Size(e.l, n), e.r, After(e.l, n))
      /\ b + Size(e, n) = b + Size(e.l, n) + Size(e.r, After(e.l, n)) + 1
  BY <1>2, Zenon DEF LaidBinop
<1>8. t = TYC[e.l].t
  BY <1>4, <1>5
<1> HIDE <1>5
<1> QED BY <1>6, <1>7, <1>8, Zenon DEF OperatorAt

(* An operand without a value leaves the operation without one.            *)
LEMMA NoOperand ==
  ASSUME NEW op, op \notin {"and", "or"}, NEW l, NEW r
  PROVE  /\ ~l.ok => MeaningOfBinop(op, l, r) = l
         /\ l.ok /\ ~r.ok => MeaningOfBinop(op, l, r) = r
BY DEF MeaningOfBinop

(* The left operand is there and the right one is being computed.          *)
AtRight(m, e, q, u) ==
  /\ u \in 0..Len(m.calls)
  /\ In(m, e.r, RightOf(e, q, u)) \/ Arrived(m, e.r, RightOf(e, q, u))
  /\ Result(m, e.l, q.k, m.stack[q.h + 1], u)

(* The stages of an operator: left, right, the operator.                   *)
LEMMA BinopStages ==
  ASSUME NEW m, NEW e \in Expr, e.is = "binop", e.op \notin {"and", "or"}, NEW q \in Spots
  PROVE  In(m, e, q) <=> /\ Len(m.stack) >= q.h
                         /\ In(m, e.l, q) \/ \E u : AtRight(m, e, q, u)
<1>1. In(m, e, q) <=> Len(m.stack) >= q.h /\ InBinop(m, e, q, Open(m))
  BY OpenOf DEF OpenRule, Stage
<1>2. InBinop(m, e, q, Open(m)) <=> In(m, e.l, q) \/ \E u : AtRight(m, e, q, u)
  BY DEF InBinop, AtRight, In
<1> QED BY <1>1, <1>2

(* An operator on two operands, both evaluated.                            *)
LEMMA BinopRuns ==
  ASSUME NEW c, NEW m, NEW e, NEW q, Here(c, m, e, q), e.is = "binop", e.op \notin {"and", "or"},
         PartsRun(c, m, e)
  PROVE  Runs(c, m, e, q)
<1>1. /\ Setting(c, m) /\ IsSeq(c) /\ Sound(e) /\ e \in Expr /\ TYC[e].ok /\ q \in Spots
      /\ HasShape(e) /\ OkRule(e) /\ q.h \in Nat /\ q.b \in Nat /\ q.n \in Nat /\ q.k \in Nat
  BY Shape, OkOf, SpotFields DEF Here, Setting, Sound
<1>2. e.l \in Parts(e) /\ e.r \in Parts(e) /\ e.l \in Expr /\ e.r \in Expr /\ TYC[e.r].t = TYC[e.l].t
  BY <1>1 DEF HasShape, OkRule
<1>3. /\ TYC[e.l].d = 0 /\ Size(e.l, q.n) \in Nat /\ After(e.l, q.n) \in Nat
      /\ (BoolToFloat(e.l) => BoolToFloat(e)) /\ (Exact(e) => Exact(e.l))
  BY <1>1, <1>2, PartFacts
<1>4. /\ TYC[e.r].d = 0 /\ Size(e.r, After(e.l, q.n)) \in Nat /\ Sound(e.r)
      /\ (BoolToFloat(e.r) => BoolToFloat(e)) /\ (Exact(e) => Exact(e.r))
  BY <1>1, <1>2, <1>3, PartFacts
<1> DEFINE x == q.b + Size(e.l, q.n)
           y == x + Size(e.r, After(e.l, q.n))
<1>5. /\ LaidOut(c, q.b, e.l, q.n) /\ LaidOut(c, x, e.r, After(e.l, q.n)) /\ q.b + Size(e, q.n) = y + 1
      /\ \E arg : Is(c, y, I(e.op, TYC[e.l].t, arg))
  BY <1>1, OperatorLaid DEF Here, OperatorAt
<1>6. MeaningRule(e, Meaning(m.held, m.calls), m.held, m.calls, q.k)
  BY <1>1, MeaningOf
<1>x. x \in Nat /\ y \in Nat
  BY <1>1, <1>3, <1>4
<1>7. \A u \in Nat : /\ RightOf(e, q, u) \in Spots /\ RightOf(e, q, u).b = x /\ RightOf(e, q, u).h = q.h + 1
                     /\ RightOf(e, q, u).k = u /\ RightOf(e, q, u).n = After(e.l, q.n)
  <2> SUFFICES ASSUME NEW u \in Nat
               PROVE  /\ RightOf(e, q, u) \in Spots /\ RightOf(e, q, u).b = x /\ RightOf(e, q, u).h = q.h + 1
                      /\ RightOf(e, q, u).k = u /\ RightOf(e, q, u).n = After(e.l, q.n)
    OBVIOUS
  <2>1. q.h + 1 \in Nat
    BY <1>1
  <2> DEFINE n == After(e.l, q.n)
             h == q.h + 1
  <2>2. n \in Nat /\ h \in Nat /\ x \in Nat
    BY <1>3, <1>x, <2>1
  <2>3. RightOf(e, q, u) = Spot(n, x, h, u)
    BY DEF RightOf, x
  <2> HIDE DEF n, h, x
  <2>4. /\ Spot(n, x, h, u) \in Spots /\ Spot(n, x, h, u).b = x /\ Spot(n, x, h, u).h = h
        /\ Spot(n, x, h, u).k = u /\ Spot(n, x, h, u).n = n
    BY <2>2, SpotOf
  <2> QED BY <2>3, <2>4 DEF n, h
<1> HIDE DEF x, y
<1>8. CASE In(m, e.l, q)
  <2>1. Runs(c, m, e.l, q)
    BY <1>1, <1>2, <1>5, <1>8 DEF PartsRun
  <2>2. Void(m, e.l, q) => Void(m, e, q)
    <3>1. PICK M : M = Meaning(m.held, m.calls)
      OBVIOUS
    <3>2. ~M[e.l][q.k].ok => M[e][q.k] = M[e.l][q.k]
      BY <1>6, <3>1, NoOperand DEF MeaningRule
    <3> QED BY <3>1, <3>2 DEF Void
  <2>3. ASSUME NEW m2, StepRule(c, m, m2), Within(m2, e.l, q), Framed(m, m2, q.h) PROVE Within(m2, e, q)
    <3>1. Len(m2.stack) >= q.h
      BY <2>3 DEF Framed
    <3>2. CASE In(m2, e.l, q)
      BY <1>1, <3>1, <3>2, BinopStages DEF Within
    <3>3. CASE Arrived(m2, e.l, q)
      <4>1. PICK u : u = Len(m2.calls)
        OBVIOUS
      <4>2. u \in Nat
        BY <1>1, <1>2, <2>3, <4>1, KeepsResult
      <4>3. m2.pc = x /\ Len(m2.stack) = q.h + 1 /\ Result(m2, e.l, q.k, m2.stack[q.h + 1], u)
        BY <1>3, <3>3, <4>1 DEF Arrived, Found, x
      <4>4. Entered(m2, RightOf(e, q, u))
        BY <1>7, <4>1, <4>2, <4>3 DEF Entered
      <4>5. In(m2, e.r, RightOf(e, q, u))
        BY <1>2, <1>4, <1>7, <4>2, <4>4, EnteredIsIn
      <4>6. u \in 0..Len(m2.calls)
        BY <4>1, <4>2
      <4>7. AtRight(m2, e, q, u)
        BY <4>3, <4>5, <4>6 DEF AtRight
      <4> QED BY <1>1, <3>1, <4>7, BinopStages DEF Within
    <3> QED BY <2>3, <3>2, <3>3 DEF Within
  <2> QED BY <1>1, <1>2, <2>1, <2>2, <2>3, InPart
<1>9. ASSUME NEW u, AtRight(m, e, q, u) PROVE Runs(c, m, e, q)
  <2>0. Len(m.calls) \in Nat
    BY <1>1, SeqFacts DEF Setting
  <2>1. u \in Nat /\ Result(m, e.l, q.k, m.stack[q.h + 1], u)
    BY <1>9, <2>0 DEF AtRight
  <2>2. PICK r : r = RightOf(e, q, u)
    OBVIOUS
  <2>3. r \in Spots /\ r.b = x /\ r.h = q.h + 1 /\ r.k = u /\ r.n = After(e.l, q.n)
    BY <1>7, <2>1, <2>2
  <2>4. Exact(e) => /\ Meaning(m.held, m.calls)[e.l][q.k].ok
                    /\ Meaning(m.held, m.calls)[e.l][q.k].used = u
    <3>1. PICK w : w = m.stack[q.h + 1]
      OBVIOUS
    <3>2. Exact(e) => Meaning(m.held, m.calls)[e.l][q.k] = Means(w.t, w.v, u)
      BY <1>3, <2>1, <3>1 DEF Result, Worth
    <3>3. Means(w.t, w.v, u).ok /\ Means(w.t, w.v, u).used = u
      BY DEF Means
    <3> QED BY <3>2, <3>3
  <2>5. CASE In(m, e.r, r)
    <3>1. Runs(c, m, e.r, r)
      BY <1>2, <1>5, <2>3, <2>5 DEF PartsRun
    <3>2. Exact(e) /\ Void(m, e.r, r) => Void(m, e, q)
      <4> SUFFICES ASSUME Exact(e), Void(m, e.r, r) PROVE Void(m, e, q)
        OBVIOUS
      <4>1. PICK M : M = Meaning(m.held, m.calls)
        OBVIOUS
      <4>2. M[e][q.k] = MeaningOfBinop(e.op, M[e.l][q.k], M[e.r][u])
        BY <1>6, <2>4, <4>1 DEF MeaningRule
      <4>3. ~M[e.r][u].ok /\ M[e.r][u].used = Len(m.calls)
        BY <2>3, <4>1 DEF Void
      <4>4. M[e][q.k] = M[e.r][u]
        BY <2>4, <4>1, <4>2, <4>3, NoOperand
      <4> QED BY <4>1, <4>3, <4>4 DEF Void
    <3>3. r.h >= q.h
      BY <1>1, <2>3
    <3>4. ASSUME NEW m2, StepRule(c, m, m2), Within(m2, e.r, r), Framed(m, m2, r.h) PROVE Within(m2, e, q)
      <4>1. r.h \in Nat /\ q.h \in 0..r.h /\ r.h >= q.h + 1
        BY <1>1, <2>3
      <4>2. m2.stack[q.h + 1] = m.stack[q.h + 1] /\ Len(m2.stack) >= q.h
        BY <3>4, <4>1, FrameLess
      <4>3. Result(m2, e.l, q.k, m2.stack[q.h + 1], u) /\ Len(m2.calls) \in Nat /\ Len(m2.calls) >= Len(m.calls)
        BY <1>1, <1>2, <2>1, <3>4, <4>2, KeepsResult
      <4>4. u \in 0..Len(m2.calls)
        BY <1>9, <2>0, <4>3 DEF AtRight
      <4>5. AtRight(m2, e, q, u)
        BY <2>2, <3>4, <4>3, <4>4 DEF AtRight, Within
      <4> QED BY <1>1, <4>2, <4>5, BinopStages DEF Within
    <3> QED BY <1>1, <1>2, <2>3, <3>1, <3>2, <3>3, <3>4, InPart
  <2>6. CASE Arrived(m, e.r, r)
    <3>1. m.pc = y /\ Len(m.stack) = r.h + 1 /\ Result(m, e.r, u, m.stack[r.h + 1], Len(m.calls))
      BY <1>4, <2>3, <2>6 DEF Arrived, Found, y
    <3>2. Len(m.stack) = q.h + 2 /\ r.h + 1 = q.h + 2
      BY <1>1, <2>3, <3>1
    <3>3. Last(m) = m.stack[q.h + 2] /\ Under(m) = m.stack[q.h + 1]
      BY <1>1, <3>2, Tops
    <3>4. Result(m, e.l, q.k, Under(m), u) /\ Result(m, e.r, u, Last(m), Len(m.calls))
      BY <2>1, <3>1, <3>2, <3>3
    <3>5. BothThere(m, e, q, u)
      <4>1. Under(m) = Value(Under(m).t, Under(m).v) /\ Last(m) = Value(Last(m).t, Last(m).v)
        BY <3>4 DEF Result
      <4>2. (Under(m).t = TYC[e.l].t \/ BoolToFloat(e.l)) /\ (Last(m).t = TYC[e.r].t \/ BoolToFloat(e.r))
        BY <3>4 DEF Result
      <4>3. (Under(m).t = TYC[e.l].t /\ Last(m).t = TYC[e.l].t) \/ BoolToFloat(e)
        BY <1>2, <1>3, <1>4, <4>2
      <4>4. ASSUME Exact(e)
            PROVE  /\ Meaning(m.held, m.calls)[e.l][q.k] = Means(TYC[e.l].t, Under(m).v, u)
                   /\ Meaning(m.held, m.calls)[e.r][u] = Means(TYC[e.l].t, Last(m).v, Len(m.calls))
        <5>1. Exact(e.l) /\ Exact(e.r) /\ ~BoolToFloat(e)
          BY <1>3, <1>4, <4>4 DEF Exact
        <5>2. Under(m).t = TYC[e.l].t /\ Last(m).t = TYC[e.l].t
          BY <4>3, <5>1
        <5> QED BY <3>4, <5>1, <5>2 DEF Result, Worth
      <4> QED BY <3>2, <4>1, <4>3, <4>4 DEF BothThere
    <3>6. PICK arg : Is(c, m.pc, I(e.op, TYC[e.l].t, arg))
      BY <1>5, <3>1
    <3>7. m.pc + 1 = q.b + Size(e, q.n)
      BY <1>5, <1>x, <3>1
    <3> QED BY <2>1, <3>5, <3>6, <3>7, OperatorRuns
  <2> QED BY <1>9, <2>2, <2>5, <2>6 DEF AtRight
<1>10. In(m, e.l, q) \/ \E u : AtRight(m, e, q, u)
  BY <1>1, BinopStages DEF Here
<1> QED BY <1>8, <1>9, <1>10

-----------------------------------------------------------------------------
(* The operator behind its one operand.                                    *)
LEMMA MonopAt ==
  ASSUME NEW c, IsSeq(c), NEW b \in Nat, NEW e, Sound(e), e.is = "monop", NEW n \in Nat, LaidOut(c, b, e, n)
  PROVE  /\ LaidOut(c, b, e.e, n) /\ b + Size(e, n) = b + Size(e.e, n) + 1
         /\ \E arg : Is(c, b + Size(e.e, n), I(e.op, TYC[e.e].t, arg))
<1>1. e \in Expr /\ TYC[e].ok /\ OkRule(e) /\ HasShape(e)
  BY OkOf, Shape DEF Sound
<1>2. LaidMonop(c, b, e, n)
  BY <1>1, MonopLaid
<1>3. e.op \in {"neg", "not"} /\ (e.op = "not" => TYC[e.e].t = "bool")
  BY <1>1 DEF OkRule, HasShape
<1>4. PICK arg : arg = ""
  OBVIOUS
<1>5. /\ LaidOut(c, b, e.e, n) /\ b + Size(e, n) = b + Size(e.e, n) + 1
      /\ e.op = "neg" => Is(c, b + Size(e.e, n), I("neg", TYC[e.e].t, arg))
      /\ e.op = "not" => Is(c, b + Size(e.e, n), I("not", "bool", arg))
  BY <1>2, <1>4, Zenon DEF LaidMonop
<1> HIDE <1>4
<1>6. Is(c, b + Size(e.e, n), I(e.op, TYC[e.e].t, arg))
  BY <1>3, <1>5, Zenon
<1> QED BY <1>5, <1>6

(* An operator on one operand.                                             *)
LEMMA MonopRuns ==
  ASSUME NEW c, NEW m, NEW e, NEW q, Here(c, m, e, q), e.is = "monop", PartsRun(c, m, e)
  PROVE  Runs(c, m, e, q)
<1>1. /\ Setting(c, m) /\ IsSeq(c) /\ Sound(e) /\ e \in Expr /\ TYC[e].ok /\ q \in Spots
      /\ HasShape(e) /\ OkRule(e) /\ TdRule(e) /\ q.h \in Nat /\ q.b \in Nat /\ q.n \in Nat /\ q.k \in Nat
  BY Shape, OkOf, TdOf, SpotFields DEF Here, Setting, Sound
<1>2. e.e \in Parts(e) /\ e.e \in Expr /\ e.op \in {"neg", "not"}
  BY <1>1 DEF HasShape
<1>3. /\ TYC[e.e].d = 0 /\ Size(e.e, q.n) \in Nat
      /\ (BoolToFloat(e.e) => BoolToFloat(e)) /\ (Exact(e) => Exact(e.e))
  BY <1>1, <1>2, PartFacts
<1> DEFINE x == q.b + Size(e.e, q.n)
           t == TYC[e.e].t
<1>5. /\ LaidOut(c, q.b, e.e, q.n) /\ q.b + Size(e, q.n) = x + 1
      /\ \E arg : Is(c, x, I(e.op, t, arg))
  BY <1>1, MonopAt DEF Here
<1>6. MeaningRule(e, Meaning(m.held, m.calls), m.held, m.calls, q.k)
  BY <1>1, MeaningOf
<1>7. In(m, e.e, q) \/ Arrived(m, e.e, q)
  BY <1>1, OpenOf DEF Here, OpenRule, Stage, InMonop, In
<1>8. /\ (e.op = "not" => t = "bool" /\ TYC[e].t = "bool") /\ (e.op = "neg" => t \in Numeric /\ TYC[e].t = t)
      /\ TYC[e].d = 0
  BY <1>1, <1>2 DEF OkRule, TdRule, HasType
<1>x. x \in Nat
  BY <1>1, <1>3
<1> HIDE DEF x, t
<1>9. CASE In(m, e.e, q)
  <2>1. Runs(c, m, e.e, q)
    BY <1>1, <1>2, <1>5, <1>9 DEF PartsRun
  <2>2. Void(m, e.e, q) => Void(m, e, q)
    BY <1>1, <1>6 DEF Void, MeaningRule, MeaningOfMonop
  <2>3. ASSUME NEW m2, Within(m2, e.e, q), Framed(m, m2, q.h) PROVE Within(m2, e, q)
    <3>1. InMonop(m2, e, q, Open(m2)) /\ Len(m2.stack) >= q.h
      BY <2>3 DEF Within, In, InMonop, Framed
    <3>2. In(m2, e, q)
      BY <1>1, <3>1, OpenOf DEF OpenRule, Stage
    <3> QED BY <3>2 DEF Within
  <2> QED BY <1>1, <1>2, <2>1, <2>2, <2>3, InPart
<1>10. CASE Arrived(m, e.e, q)
  <2>1. m.pc = x /\ Len(m.stack) = q.h + 1 /\ Result(m, e.e, q.k, Last(m), Len(m.calls))
    BY <1>1, <1>3, <1>10, Tops DEF Arrived, Found, x
  <2>2. PICK arg : Is(c, m.pc, I(e.op, t, arg))
    BY <1>5, <2>1
  <2>3. Last(m).t = t \/ BoolToFloat(e)
    BY <1>3, <2>1 DEF Result, t
  <2>4. Has(m, Takes(I(e.op, t, arg))) \/ BoolToFloat(e)
    <3>1. Takes(I(e.op, t, arg)) = <<t>>
      BY <1>2, TakesWhat
    <3>2. Len(m.stack) >= 1
      BY <1>1, <2>1
    <3>3. Last(m).t = t => Has(m, <<t>>)
      BY <1>1, <3>2, HasOne
    <3> QED BY <2>3, <3>1, <3>3
  <2> DEFINE v == IF e.op = "not" THEN 1 - Last(m).v
                  ELSE IF t = "int" THEN Wrap(0 - Last(m).v) ELSE 0 - Last(m).v
             T == TYC[e].t
  <2>5. ASSUME Exact(e) PROVE Meaning(m.held, m.calls)[e][q.k] = Means(T, v, Len(m.calls))
    <3>1. PICK n, w : n = Meaning(m.held, m.calls)[e.e][q.k] /\ w = Last(m).v
      OBVIOUS
    <3>2. n = Means(t, w, Len(m.calls))
      BY <1>3, <2>1, <2>3, <2>5, <3>1 DEF Result, Worth, Exact
    <3>3. n.ok /\ n.t = t /\ n.v = w /\ n.used = Len(m.calls)
      BY <3>2 DEF Means
    <3>4. Meaning(m.held, m.calls)[e][q.k] = MeaningOfMonop(e.op, n)
      BY <1>1, <1>6, <3>1 DEF MeaningRule
    <3>5. CASE e.op = "not"
      BY <1>8, <3>1, <3>3, <3>4, <3>5 DEF MeaningOfMonop
    <3>6. CASE e.op = "neg"
      BY <1>8, <3>1, <3>3, <3>4, <3>6 DEF MeaningOfMonop
    <3> QED BY <1>2, <3>5, <3>6
  <2>6. ASSUME NEW m2, StepRule(c, m, m2) PROVE Within(m2, e, q) /\ Framed(m, m2, q.h)
    <3>1. Gives(m, m2, 1, Value(T, v)) /\ (T = "bool" => v \in {0, 1})
      <4>1. CASE e.op = "not"
        <5>1. Is(c, m.pc, I("not", "bool", arg))
          BY <1>8, <2>2, <4>1
        <5>2. Last(m).t = "bool" /\ Gives(m, m2, 1, Value("bool", 1 - Last(m).v))
          BY <1>1, <2>6, <5>1, StepNot
        <5>3. Last(m).v \in {0, 1}
          BY <2>1, <5>2 DEF Result
        <5> QED BY <1>8, <4>1, <5>2, <5>3
      <4>2. CASE e.op = "neg"
        <5>1. Is(c, m.pc, I("neg", t, arg))
          BY <2>2, <4>2
        <5>2. Gives(m, m2, 1, Value(t, IF t = "int" THEN Wrap(0 - Last(m).v) ELSE 0 - Last(m).v))
          BY <1>1, <2>6, <5>1, StepNeg
        <5> QED BY <1>8, <4>2, <5>2 DEF Numeric
      <4> QED BY <1>2, <4>1, <4>2
    <3>2. T = TYC[e].t /\ m.pc + 1 = q.b + Size(e, q.n)
      BY <1>5, <1>x, <2>1
    <3> HIDE DEF T, v
    <3> QED BY <1>1, <1>8, <2>1, <2>5, <2>6, <3>1, <3>2, Finds
  <2>7. I(e.op, t, arg).op = e.op
    BY InstrHas
  <2>8. e.op \notin {"div", "mod", "take", "jsr"}
    BY <1>2
  <2> QED BY <2>2, <2>4, <2>6, <2>7, <2>8, AtInstr
<1> QED BY <1>7, <1>9, <1>10

-----------------------------------------------------------------------------
(* A spot, by name.                                                        *)
IsSpot(r, n, b, h, k) == r \in Spots /\ r.n = n /\ r.b = b /\ r.h = h /\ r.k = k
LEMMA SpotIs ==
  ASSUME NEW n \in Nat, NEW b \in Nat, NEW h \in Nat, NEW k \in Nat
  PROVE  IsSpot(Spot(n, b, h, k), n, b, h, k)
BY SpotOf DEF IsSpot

WentTo(m, m2, h, to) == Len(m2.stack) = h /\ Framed(m, m2, h) /\ m2.pc = to /\ m2.calls = m.calls

(* Where a jump goes.                                                      *)
LEMMA Went ==
  ASSUME NEW c, NEW m, NEW m2, Setting(c, m), NEW n \in Nat, NEW to, Goes(m, m2, n, to),
         NEW h \in Nat, Len(m.stack) = h + n
  PROVE  WentTo(m, m2, h, to)
BY LandsAt DEF WentTo

PutAt(m, m2, h, v) == Len(m2.stack) = h + 1 /\ m2.stack[h + 1] = v /\ Framed(m, m2, h)

(* Where an operand is put.                                                *)
LEMMA PutsAt ==
  ASSUME NEW c, NEW m, NEW m2, Setting(c, m), NEW n \in Nat, NEW v, Puts(m, m2, n, v),
         NEW h \in Nat, Len(m.stack) = h + n
  PROVE  PutAt(m, m2, h, v)
BY Lands DEF PutAt

(* The right operand of && and || is being computed; it was jumped over;   *)
(* the value is there and the last label is to come.                       *)
AtElse(m, e, q, u) ==
  /\ u \in 0..Len(m.calls)
  /\ In(m, e.r, ElseOf(e, q, u)) \/ Arrived(m, e.r, ElseOf(e, q, u))
  /\ Worth(m, e.l, q.k, Value("bool", Truth(e.op = "and")), u)
JumpedOver(m, e, q) ==
  /\ m.pc \in {JumpOf(e, q) + 1, JumpOf(e, q) + 2} /\ Len(m.stack) = q.h
  /\ Worth(m, e.l, q.k, Value("bool", Truth(e.op = "or")), Len(m.calls))
AtEnd(m, e, q) == m.pc = JumpOf(e, q) + 3 /\ Found(m, e, q)

(* The stages of && and ||.                                                *)
LEMMA ShortStages ==
  ASSUME NEW m, NEW e \in Expr, e.is = "binop", e.op \in {"and", "or"}, NEW q \in Spots
  PROVE  In(m, e, q) <=> /\ Len(m.stack) >= q.h
                         /\ \/ In(m, e.l, LeftOf(q)) \/ Arrived(m, e.l, LeftOf(q))
                            \/ \E u : AtElse(m, e, q, u)
                            \/ JumpedOver(m, e, q) \/ AtEnd(m, e, q)
<1>1. In(m, e, q) <=> Len(m.stack) >= q.h /\ InShort(m, e, q, Open(m))
  BY OpenOf DEF OpenRule, Stage
<1>2. InShort(m, e, q, Open(m)) <=> \/ In(m, e.l, LeftOf(q)) \/ Arrived(m, e.l, LeftOf(q))
                                    \/ \E u : AtElse(m, e, q, u)
                                    \/ JumpedOver(m, e, q) \/ AtEnd(m, e, q)
  BY DEF InShort, AtElse, JumpedOver, AtEnd, In
<1> QED BY <1>1, <1>2

(* What && and || mean.                                                    *)
LEMMA ShortMeans ==
  ASSUME NEW op \in {"and", "or"}, NEW a, NEW u, NEW r
  PROVE  /\ a = Truth(op = "or") => MeaningOfBinop(op, Means("bool", a, u), r) = Means("bool", a, u)
         /\ a = Truth(op = "and") => MeaningOfBinop(op, Means("bool", a, u), r) = r
<1>1. Truth(op = "or") # Truth(op = "and")
  BY DEF Truth
<1> QED BY <1>1 DEF MeaningOfBinop, Means

(* What is known of && and || and of where their code is.                  *)
ShortSet(c, e, q) ==
  LET x == q.b + Size(e.l, q.n + 2)
      y == JumpOf(e, q)
  IN  /\ e.l \in Parts(e) /\ e.r \in Parts(e) /\ e.l \in Expr /\ e.r \in Expr /\ Sound(e.l) /\ Sound(e.r)
      /\ TYC[e.l].t = "bool" /\ TYC[e.r].t = "bool" /\ TYC[e].t = "bool"
      /\ TYC[e.l].d = 0 /\ TYC[e.r].d = 0 /\ TYC[e].d = 0
      /\ (BoolToFloat(e.l) => BoolToFloat(e)) /\ (Exact(e) => Exact(e.l))
      /\ (BoolToFloat(e.r) => BoolToFloat(e)) /\ (Exact(e) => Exact(e.r))
      /\ x \in Nat /\ y \in Nat
      /\ LeftOf(q) \in Spots /\ LeftOf(q).n = q.n + 2 /\ LeftOf(q).b = q.b /\ LeftOf(q).h = q.h /\ LeftOf(q).k = q.k
      /\ LaidOut(c, q.b, e.l, q.n + 2)
      /\ \A u \in Nat : LET r == ElseOf(e, q, u)
                        IN  /\ r \in Spots /\ r.b = x + 1 /\ r.h = q.h /\ r.k = u
                            /\ LaidOut(c, r.b, e.r, r.n) /\ r.b + Size(e.r, r.n) = y
      /\ q.b + Size(e, q.n) = y + 4
      /\ Is(c, x, To(IF e.op = "and" THEN "branch_f" ELSE "branch_t", e.op, q.n))
      /\ Is(c, y, To("jump", "end", q.n + 1)) /\ Is(c, y + 1, Label(e.op, q.n))
      /\ Is(c, y + 2, I("const", "bool", Truth(e.op = "or"))) /\ Is(c, y + 3, Label("end", q.n + 1))

(* Where their code is.                                                    *)
LEMMA ShortIsSet ==
  ASSUME NEW c, NEW m, NEW e, NEW q, Here(c, m, e, q), e.is = "binop", e.op \in {"and", "or"}
  PROVE  ShortSet(c, e, q)
<1>1. /\ IsSeq(c) /\ Sound(e) /\ e \in Expr /\ TYC[e].ok /\ q \in Spots /\ LaidOut(c, q.b, e, q.n)
      /\ HasShape(e) /\ OkRule(e) /\ TdRule(e) /\ q.h \in Nat /\ q.b \in Nat /\ q.n \in Nat /\ q.k \in Nat
  BY Shape, OkOf, TdOf, SpotFields DEF Here, Setting, Sound
<1>2. e.l \in Parts(e) /\ e.r \in Parts(e) /\ e.l \in Expr /\ e.r \in Expr
  BY <1>1 DEF HasShape
<1>3. /\ TYC[e.l].t = "bool" /\ TYC[e.r].t = "bool" /\ TYC[e].t = "bool"
      /\ TYC[e.l].d = 0 /\ TYC[e.r].d = 0 /\ TYC[e].d = 0
  BY <1>1 DEF OkRule, TdRule, HasType, ResultType, Arith
<1>4. /\ Size(e.l, q.n + 2) \in Nat /\ After(e.l, q.n + 2) \in Nat /\ Sound(e.l)
      /\ (BoolToFloat(e.l) => BoolToFloat(e)) /\ (Exact(e) => Exact(e.l))
  <2>1. q.n + 2 \in Nat
    BY <1>1
  <2> QED BY <1>1, <1>2, <2>1, PartFacts
<1>5. /\ Size(e.r, After(e.l, q.n + 2)) \in Nat /\ Sound(e.r)
      /\ (BoolToFloat(e.r) => BoolToFloat(e)) /\ (Exact(e) => Exact(e.r))
  BY <1>1, <1>2, <1>4, PartFacts
<1> DEFINE x == q.b + Size(e.l, q.n + 2)
           y == x + 1 + Size(e.r, After(e.l, q.n + 2))
           n == After(e.l, q.n + 2)
<1>6. /\ LaidOut(c, q.b, e.l, q.n + 2) /\ LaidOut(c, x + 1, e.r, n) /\ q.b + Size(e, q.n) = y + 4
      /\ Is(c, x, To(IF e.op = "and" THEN "branch_f" ELSE "branch_t", e.op, q.n))
      /\ Is(c, y, To("jump", "end", q.n + 1)) /\ Is(c, y + 1, Label(e.op, q.n))
      /\ Is(c, y + 2, I("const", "bool", Truth(e.op = "or"))) /\ Is(c, y + 3, Label("end", q.n + 1))
  <2>1. LaidShort(c, q.b, e, q.n)
    BY <1>1, ShortLaid
  <2> QED BY <2>1, Zenon DEF LaidShort
<1>7. x \in Nat /\ y \in Nat /\ y = JumpOf(e, q) /\ x + 1 \in Nat /\ n \in Nat
      /\ x + 1 + Size(e.r, n) = y
  BY <1>1, <1>4, <1>5 DEF JumpOf
<1>8. /\ LeftOf(q) \in Spots /\ LeftOf(q).n = q.n + 2 /\ LeftOf(q).b = q.b /\ LeftOf(q).h = q.h /\ LeftOf(q).k = q.k
  <2> DEFINE a == q.n + 2
  <2>1. a \in Nat
    BY <1>1
  <2>2. LeftOf(q) = Spot(a, q.b, q.h, q.k)
    BY DEF LeftOf
  <2> HIDE DEF a
  <2>3. IsSpot(Spot(a, q.b, q.h, q.k), a, q.b, q.h, q.k)
    BY <1>1, <2>1, SpotIs
  <2> QED BY <2>2, <2>3 DEF a, IsSpot
<1>9. ASSUME NEW u \in Nat
      PROVE  LET r == ElseOf(e, q, u)
             IN  /\ r \in Spots /\ r.b = x + 1 /\ r.h = q.h /\ r.k = u
                 /\ LaidOut(c, r.b, e.r, r.n) /\ r.b + Size(e.r, r.n) = y
  <2> DEFINE b == x + 1
  <2>1. ElseOf(e, q, u) = Spot(n, b, q.h, u)
    BY DEF ElseOf
  <2>2. LaidOut(c, b, e.r, n) /\ b + Size(e.r, n) = y /\ b \in Nat /\ n \in Nat
    BY <1>6, <1>7
  <2> HIDE DEF b, n, y, x
  <2>3. PICK r : r = Spot(n, b, q.h, u)
    OBVIOUS
  <2>4. r \in Spots /\ r.b = b /\ r.h = q.h /\ r.k = u /\ r.n = n
    <3>1. IsSpot(Spot(n, b, q.h, u), n, b, q.h, u)
      BY <1>1, <2>2, SpotIs
    <3> QED BY <2>3, <3>1 DEF IsSpot
  <2> QED BY <2>1, <2>2, <2>3, <2>4 DEF b
<1>10. y = JumpOf(e, q)
  BY <1>7
<1> HIDE DEF y, n
<1> QED BY <1>2, <1>3, <1>4, <1>5, <1>6, <1>7, <1>8, <1>9, <1>10, Zenon DEF ShortSet

-----------------------------------------------------------------------------
(* What is known of && and || and of where their code is.                  *)
ShortHere(c, m, e, q) ==
  /\ Setting(c, m) /\ IsSeq(c) /\ Sound(e) /\ e \in Expr /\ e.is = "binop" /\ e.op \in {"and", "or"}
  /\ q \in Spots /\ q.h \in Nat /\ q.n \in Nat /\ q.k \in Nat /\ ShortSet(c, e, q)
  /\ MeaningRule(e, Meaning(m.held, m.calls), m.held, m.calls, q.k)

(* The left operand.                                                       *)
LEMMA ShortLeft ==
  ASSUME NEW c, NEW m, NEW e, NEW q, ShortHere(c, m, e, q), PartsRun(c, m, e), In(m, e.l, LeftOf(q))
  PROVE  Runs(c, m, e, q)
<1>1. PICK L : L = LeftOf(q)
  OBVIOUS
<1>2. e.l \in Parts(e) /\ L \in Spots /\ L.n = q.n + 2 /\ L.b = q.b /\ L.h = q.h /\ L.k = q.k
      /\ LaidOut(c, q.b, e.l, q.n + 2)
  BY <1>1 DEF ShortHere, ShortSet
<1>3. Runs(c, m, e.l, L)
  BY <1>1, <1>2 DEF PartsRun
<1>4. Void(m, e.l, L) => Void(m, e, q)
  <2>1. PICK M : M = Meaning(m.held, m.calls)
    OBVIOUS
  <2>2. ~M[e.l][q.k].ok => M[e][q.k] = M[e.l][q.k]
    BY <2>1 DEF ShortHere, MeaningRule, MeaningOfBinop
  <2> QED BY <1>2, <2>1, <2>2 DEF Void
<1>5. ASSUME NEW m2, Within(m2, e.l, L), Framed(m, m2, L.h) PROVE Within(m2, e, q)
  <2>1. Len(m2.stack) >= q.h
    BY <1>2, <1>5 DEF Framed
  <2> QED BY <1>1, <1>5, <2>1, ShortStages DEF Within, ShortHere
<1>6. L.h >= q.h /\ q \in Spots /\ Sound(e)
  BY <1>2 DEF ShortHere
<1> QED BY <1>2, <1>3, <1>4, <1>5, <1>6, InPart

(* The branch behind it.                                                   *)
LEMMA ShortBranch ==
  ASSUME NEW c, NEW m, NEW e, NEW q, ShortHere(c, m, e, q), Arrived(m, e.l, LeftOf(q))
  PROVE  Runs(c, m, e, q)
<1> DEFINE x == q.b + Size(e.l, q.n + 2)
           y == JumpOf(e, q)
           op == IF e.op = "and" THEN "branch_f" ELSE "branch_t"
           l == <<e.op, q.n>>
<1>1. /\ Setting(c, m) /\ e \in Expr /\ e.l \in Expr /\ q \in Spots /\ q.h \in Nat /\ q.k \in Nat
      /\ e.is = "binop" /\ e.op \in {"and", "or"} /\ x \in Nat /\ y \in Nat
      /\ e.r \in Expr /\ Sound(e.r) /\ TYC[e.l].t = "bool" /\ (BoolToFloat(e.l) => BoolToFloat(e))
  BY DEF ShortHere, ShortSet
<1>2. m.pc = x /\ Len(m.stack) = q.h + 1 /\ Result(m, e.l, q.k, Last(m), Len(m.calls))
  <2>1. PICK L : L = LeftOf(q)
    OBVIOUS
  <2>2. L.n = q.n + 2 /\ L.b = q.b /\ L.h = q.h /\ L.k = q.k /\ TYC[e.l].d = 0
    BY <2>1 DEF ShortHere, ShortSet
  <2>3. m.pc = x /\ Len(m.stack) = q.h + 1 /\ Result(m, e.l, q.k, m.stack[q.h + 1], Len(m.calls))
    BY <2>1, <2>2 DEF Arrived, Found
  <2> QED BY <1>1, <2>3, Tops
<1>3. Is(c, m.pc, I(op, "bool", l)) /\ At(c, l) = y + 1
  <2>1. Is(c, x, To(op, e.op, q.n)) /\ Is(c, y + 1, Label(e.op, q.n))
    BY Zenon DEF ShortHere, ShortSet
  <2>2. At(c, l) = y + 1
    BY <1>1, <2>1, LabelAt
  <2> QED BY <1>2, <2>1, <2>2 DEF To
<1>4. op \in {"branch_t", "branch_f"} /\ (op = "branch_t" <=> e.op = "or")
  BY <1>1
<1>x. \A u \in Nat : LET r == ElseOf(e, q, u) IN r \in Spots /\ r.b = x + 1 /\ r.h = q.h /\ r.k = u
  BY DEF ShortHere, ShortSet
<1> HIDE DEF x, y, op, l
<1>5. Has(m, Takes(I(op, "bool", l))) \/ BoolToFloat(e)
  <2>1. Takes(I(op, "bool", l)) = <<"bool">>
    BY <1>4, TakesWhat
  <2>2. Len(m.stack) >= 1
    BY <1>1, <1>2
  <2>3. Last(m).t = "bool" => Has(m, <<"bool">>)
    BY <1>1, <2>2, HasOne
  <2>4. Last(m).t = "bool" \/ BoolToFloat(e)
    BY <1>1, <1>2 DEF Result
  <2> QED BY <2>1, <2>3, <2>4
<1>6. ASSUME NEW m2, StepRule(c, m, m2) PROVE Within(m2, e, q) /\ Framed(m, m2, q.h)
  <2>1. PICK v : v = Last(m).v
    OBVIOUS
  <2>2. /\ Last(m).t = "bool"
        /\ Goes(m, m2, 1, IF (v = 1) = (op = "branch_t") THEN At(c, l) ELSE m.pc + 1)
    BY <1>1, <1>3, <1>4, <1>6, <2>1, StepBranch
  <2>3. v \in {0, 1} /\ Last(m) = Value("bool", v) /\ Worth(m, e.l, q.k, Value("bool", v), Len(m.calls))
    <3>1. PICK w : w = Last(m)
      OBVIOUS
    <3>2. w = Value(w.t, w.v) /\ w.t = "bool" /\ w.v = v /\ w.v \in {0, 1} /\ Worth(m, e.l, q.k, w, Len(m.calls))
      BY <1>2, <2>1, <2>2, <3>1 DEF Result
    <3>3. w = Value("bool", v)
      BY <3>2
    <3> QED BY <3>1, <3>2, <3>3
  <2> DEFINE to == IF (v = 1) = (op = "branch_t") THEN At(c, l) ELSE m.pc + 1
  <2>4. Len(m2.stack) = q.h /\ Framed(m, m2, q.h) /\ m2.pc = to /\ m2.calls = m.calls
    <3>1. Goes(m, m2, 1, to)
      BY <2>2
    <3> HIDE DEF to
    <3>2. WentTo(m, m2, q.h, to)
      BY <1>1, <1>2, <3>1, Went
    <3> QED BY <3>2 DEF WentTo
  <2>5. Worth(m2, e.l, q.k, Value("bool", v), Len(m2.calls)) /\ Len(m2.calls) \in Nat /\ Len(m2.stack) >= q.h
    <3>1. Worth(m2, e.l, q.k, Value("bool", v), Len(m.calls)) /\ Len(m2.calls) \in Nat
      BY <1>1, <1>6, <2>3, KeepsResult
    <3> QED BY <1>1, <2>4, <3>1
  <2>6. CASE (v = 1) = (op = "branch_t")
    <3>1. m2.pc = y + 1 /\ v = Truth(e.op = "or")
      BY <1>1, <1>3, <1>4, <2>3, <2>4, <2>6 DEF Truth
    <3>2. JumpedOver(m2, e, q)
      BY <2>4, <2>5, <3>1 DEF JumpedOver, y
    <3> QED BY <1>1, <2>4, <2>5, <3>2, ShortStages DEF Within
  <2>7. CASE (v = 1) # (op = "branch_t")
    <3>1. m2.pc = x + 1 /\ v = Truth(e.op = "and")
      BY <1>1, <1>2, <1>4, <2>3, <2>4, <2>7 DEF Truth
    <3>2. PICK u, r : u = Len(m2.calls) /\ r = ElseOf(e, q, u)
      OBVIOUS
    <3>3. u \in Nat /\ u \in 0..Len(m2.calls)
      BY <2>5, <3>2
    <3>4. r \in Spots /\ r.b = x + 1 /\ r.h = q.h /\ r.k = u
      BY <1>x, <3>2, <3>3
    <3>5. Entered(m2, r)
      BY <2>4, <3>1, <3>2, <3>4 DEF Entered
    <3>6. In(m2, e.r, r)
      BY <1>1, <3>4, <3>5, EnteredIsIn
    <3>7. AtElse(m2, e, q, u)
      BY <2>5, <3>1, <3>2, <3>3, <3>6 DEF AtElse
    <3> QED BY <1>1, <2>4, <2>5, <3>7, ShortStages DEF Within
  <2> QED BY <2>6, <2>7
<1>7. I(op, "bool", l).op = op
  BY InstrHas
<1>8. op \notin {"div", "mod", "take", "jsr"}
  BY <1>4
<1> QED BY <1>3, <1>5, <1>6, <1>7, <1>8, AtInstr

-----------------------------------------------------------------------------
(* The right operand, and the jump behind it.                              *)
LEMMA ShortRight ==
  ASSUME NEW c, NEW m, NEW e, NEW q, ShortHere(c, m, e, q), PartsRun(c, m, e), NEW u, AtElse(m, e, q, u)
  PROVE  Runs(c, m, e, q)
<1> DEFINE y == JumpOf(e, q)
<1>1. /\ Setting(c, m) /\ e \in Expr /\ e.l \in Expr /\ q \in Spots /\ q.h \in Nat /\ q.k \in Nat
      /\ e.is = "binop" /\ e.op \in {"and", "or"} /\ y \in Nat /\ Sound(e)
      /\ e.r \in Parts(e) /\ e.r \in Expr /\ Sound(e.r) /\ TYC[e.r].t = "bool" /\ TYC[e.r].d = 0
      /\ TYC[e].t = "bool" /\ TYC[e].d = 0
      /\ (BoolToFloat(e.r) => BoolToFloat(e)) /\ (Exact(e) => Exact(e.r)) /\ (Exact(e) => Exact(e.l))
  BY DEF ShortHere, ShortSet
<1>2. PICK r : r = ElseOf(e, q, u)
  OBVIOUS
<1>3. Len(m.calls) \in Nat /\ u \in Nat /\ u \in 0..Len(m.calls)
  <2>1. Len(m.calls) \in Nat
    BY <1>1, SeqFacts DEF Setting
  <2> QED BY <2>1 DEF AtElse
<1>4. r \in Spots /\ r.h = q.h /\ r.k = u /\ LaidOut(c, r.b, e.r, r.n) /\ r.b + Size(e.r, r.n) = y
  BY <1>2, <1>3 DEF ShortHere, ShortSet
<1>5. Worth(m, e.l, q.k, Value("bool", Truth(e.op = "and")), u)
  BY DEF AtElse
<1>6. Exact(e) => Meaning(m.held, m.calls)[e][q.k] = Meaning(m.held, m.calls)[e.r][u]
  <2>1. PICK M, l : M = Meaning(m.held, m.calls) /\ l = M[e.l][q.k]
    OBVIOUS
  <2>2. Exact(e) => l = Means("bool", Truth(e.op = "and"), u)
    BY <1>1, <1>5, <2>1 DEF Worth, Value
  <2>3. M[e][q.k] = MeaningOfBinop(e.op, l, M[e.r][l.used])
    BY <1>1, <2>1 DEF ShortHere, MeaningRule
  <2>4. Means("bool", Truth(e.op = "and"), u).used = u
    BY DEF Means
  <2>5. MeaningOfBinop(e.op, Means("bool", Truth(e.op = "and"), u), M[e.r][u]) = M[e.r][u]
    BY <1>1, ShortMeans
  <2> QED BY <2>1, <2>2, <2>3, <2>4, <2>5
<1>7. CASE In(m, e.r, r)
  <2>1. Runs(c, m, e.r, r)
    BY <1>1, <1>4, <1>7 DEF PartsRun
  <2>2. Exact(e) /\ Void(m, e.r, r) => Void(m, e, q)
    BY <1>4, <1>6 DEF Void
  <2>3. r.h >= q.h
    BY <1>1, <1>4
  <2>4. ASSUME NEW m2, StepRule(c, m, m2), Within(m2, e.r, r), Framed(m, m2, r.h) PROVE Within(m2, e, q)
    <3>1. Len(m2.stack) >= q.h
      BY <1>4, <2>4 DEF Framed
    <3>2. /\ Worth(m2, e.l, q.k, Value("bool", Truth(e.op = "and")), u)
          /\ Len(m2.calls) \in Nat /\ Len(m2.calls) >= Len(m.calls)
      BY <1>1, <1>5, <2>4, KeepsResult
    <3>3. u \in 0..Len(m2.calls)
      BY <1>3, <3>2
    <3>4. AtElse(m2, e, q, u)
      BY <1>2, <2>4, <3>2, <3>3 DEF AtElse, Within
    <3> QED BY <1>1, <3>1, <3>4, ShortStages DEF Within
  <2> QED BY <1>1, <1>4, <2>1, <2>2, <2>3, <2>4, InPart
<1>8. CASE Arrived(m, e.r, r)
  <2> DEFINE l == <<"end", q.n + 1>>
  <2>1. m.pc = y /\ Len(m.stack) = q.h + 1 /\ Result(m, e.r, u, m.stack[q.h + 1], Len(m.calls))
    BY <1>1, <1>4, <1>8 DEF Arrived, Found
  <2>2. Is(c, m.pc, I("jump", "bool", l)) /\ At(c, l) = y + 3
    <3>1. Is(c, y, To("jump", "end", q.n + 1)) /\ Is(c, y + 3, Label("end", q.n + 1))
      BY Zenon DEF ShortHere, ShortSet
    <3>2. At(c, l) = y + 3
      BY <1>1, <3>1, LabelAt
    <3> QED BY <2>1, <3>1, <3>2 DEF To
  <2> HIDE DEF l
  <2>3. Has(m, Takes(I("jump", "bool", l)))
    BY <1>1, HasNone, TakesWhat
  <2>4. ASSUME NEW m2, StepRule(c, m, m2) PROVE Within(m2, e, q) /\ Framed(m, m2, q.h)
    <3>1. Goes(m, m2, 0, y + 3)
      BY <1>1, <2>2, <2>4, StepJump
    <3> DEFINE h == q.h + 1
    <3>2. h \in Nat /\ Len(m.stack) = h + 0 /\ q.h \in 0..h /\ h >= q.h + 1
      BY <1>1, <2>1
    <3>3. WentTo(m, m2, h, y + 3)
      <4> HIDE DEF h
      <4> QED BY <1>1, <3>1, <3>2, Went
    <3>4. Framed(m, m2, q.h) /\ Len(m2.stack) >= q.h /\ m2.stack[q.h + 1] = m.stack[q.h + 1]
      <4>1. Framed(m, m2, h)
        BY <3>3 DEF WentTo
      <4> HIDE DEF h
      <4> QED BY <1>1, <3>2, <4>1, FrameLess
    <3>5. PICK w : w = m.stack[q.h + 1]
      OBVIOUS
    <3>6. m2.held = m.held /\ m2.calls = m.calls
      BY <2>4, <3>3 DEF WentTo, StepRule, Grows
    <3>7. Result(m2, e, q.k, w, Len(m2.calls))
      <4>1. w = Value(w.t, w.v) /\ (w.t = "bool" \/ BoolToFloat(e)) /\ (w.t = "bool" => w.v \in {0, 1})
        BY <1>1, <2>1, <3>5 DEF Result
      <4>2. Exact(e) => Meaning(m2.held, m2.calls)[e][q.k] = Means(w.t, w.v, Len(m2.calls))
        BY <1>1, <1>6, <2>1, <3>5, <3>6 DEF Result, Worth
      <4> QED BY <1>1, <4>1, <4>2 DEF Result, Worth
    <3>8. AtEnd(m2, e, q)
      BY <3>3, <3>4, <3>5, <3>7 DEF AtEnd, Found, WentTo
    <3> QED BY <1>1, <3>4, <3>8, ShortStages DEF Within
  <2>5. I("jump", "bool", l).op = "jump"
    BY InstrHas
  <2> QED BY <2>2, <2>3, <2>4, <2>5, AtInstr
<1> QED BY <1>2, <1>7, <1>8 DEF AtElse

(* The value when the left operand decides.                                *)
LEMMA ShortOver ==
  ASSUME NEW c, NEW m, NEW e, NEW q, ShortHere(c, m, e, q), JumpedOver(m, e, q)
  PROVE  Runs(c, m, e, q)
<1> DEFINE y == JumpOf(e, q)
           v == Truth(e.op = "or")
<1>1. /\ Setting(c, m) /\ e \in Expr /\ e.l \in Expr /\ q \in Spots /\ q.h \in Nat /\ q.k \in Nat
      /\ e.is = "binop" /\ e.op \in {"and", "or"} /\ y \in Nat /\ (Exact(e) => Exact(e.l))
      /\ TYC[e].t = "bool" /\ TYC[e].d = 0
  BY DEF ShortHere, ShortSet
<1>2. Len(m.stack) = q.h + 0 /\ Worth(m, e.l, q.k, Value("bool", v), Len(m.calls))
  BY <1>1 DEF JumpedOver
<1>3. CASE m.pc = y + 1
  <2>1. Is(c, m.pc, Label(e.op, q.n))
    BY <1>3, Zenon DEF ShortHere, ShortSet
  <2>2. PICK t, l : Label(e.op, q.n) = I("label", t, l)
    BY DEF Label
  <2>3. Has(m, Takes(I("label", t, l)))
    BY <1>1, HasNone, TakesWhat
  <2>4. ASSUME NEW m2, StepRule(c, m, m2) PROVE Within(m2, e, q) /\ Framed(m, m2, q.h)
    <3>1. Goes(m, m2, 0, m.pc + 1)
      BY <1>1, <2>1, <2>2, <2>4, StepLabel
    <3>2. WentTo(m, m2, q.h, m.pc + 1)
      BY <1>1, <1>2, <3>1, Went
    <3>3. Worth(m2, e.l, q.k, Value("bool", v), Len(m.calls)) /\ m2.calls = m.calls
      BY <1>1, <1>2, <2>4, <3>2, KeepsResult DEF WentTo
    <3>4. m2.pc = y + 2 /\ Len(m2.stack) = q.h /\ Len(m2.stack) >= q.h /\ Framed(m, m2, q.h)
      BY <1>1, <1>3, <3>2 DEF WentTo
    <3>5. JumpedOver(m2, e, q)
      BY <3>3, <3>4 DEF JumpedOver
    <3> QED BY <1>1, <3>4, <3>5, ShortStages DEF Within
  <2>5. I("label", t, l).op = "label"
    BY InstrHas
  <2> QED BY <2>1, <2>2, <2>3, <2>4, <2>5, AtInstr
<1>4. CASE m.pc = y + 2
  <2>1. Is(c, m.pc, I("const", "bool", v))
    BY <1>4, Zenon DEF ShortHere, ShortSet
  <2>2. v \in {0, 1}
    BY TruthIsBit
  <2>w. Worth(m, e.l, q.k, Value("bool", v), Len(m.calls))
    BY <1>2
  <2>3. Exact(e) => Meaning(m.held, m.calls)[e][q.k] = Means("bool", v, Len(m.calls))
    <3>1. PICK M, l : M = Meaning(m.held, m.calls) /\ l = M[e.l][q.k]
      OBVIOUS
    <3>2. Exact(e) => l = Means("bool", v, Len(m.calls))
      BY <1>1, <2>w, <3>1 DEF Worth, Value
    <3>3. M[e][q.k] = MeaningOfBinop(e.op, l, M[e.r][l.used])
      BY <1>1, <3>1 DEF ShortHere, MeaningRule
    <3>4. \A r : MeaningOfBinop(e.op, Means("bool", v, Len(m.calls)), r) = Means("bool", v, Len(m.calls))
      BY <1>1, ShortMeans
    <3> QED BY <3>1, <3>2, <3>3, <3>4
  <2> HIDE DEF v
  <2>4. Has(m, Takes(I("const", "bool", v)))
    BY <1>1, HasNone, TakesWhat
  <2>5. ASSUME NEW m2, StepRule(c, m, m2) PROVE Within(m2, e, q) /\ Framed(m, m2, q.h)
    <3>1. Gives(m, m2, 0, Value("bool", v))
      BY <1>1, <2>1, <2>5, StepConst
    <3>2. Len(m2.stack) = q.h + 1 /\ m2.stack[q.h + 1] = Value("bool", v) /\ Framed(m, m2, q.h)
      <4>1. Puts(m, m2, 0, Value("bool", v))
        BY <3>1 DEF Gives
      <4>2. PutAt(m, m2, q.h, Value("bool", v))
        BY <1>1, <1>2, <4>1, PutsAt
      <4> QED BY <4>2 DEF PutAt
    <3>3. m2.held = m.held /\ m2.calls = m.calls /\ m2.pc = y + 3
      BY <1>1, <1>4, <2>5, <3>1 DEF Gives, StepRule, Grows
    <3>4. Result(m2, e, q.k, Value("bool", v), Len(m2.calls))
      BY <1>1, <2>2, <2>3, <3>3, MakesResult
    <3>5. AtEnd(m2, e, q)
      BY <3>2, <3>3, <3>4 DEF AtEnd, Found
    <3>6. Len(m2.stack) >= q.h
      BY <1>1, <3>2
    <3> QED BY <1>1, <3>2, <3>5, <3>6, ShortStages DEF Within
  <2>6. I("const", "bool", v).op = "const"
    BY InstrHas
  <2> QED BY <2>1, <2>4, <2>5, <2>6, AtInstr
<1> QED BY <1>3, <1>4 DEF JumpedOver

(* The last label.                                                         *)
LEMMA ShortLast ==
  ASSUME NEW c, NEW m, NEW e, NEW q, ShortHere(c, m, e, q), AtEnd(m, e, q)
  PROVE  Runs(c, m, e, q)
<1> DEFINE y == JumpOf(e, q)
<1>1. /\ Setting(c, m) /\ e \in Expr /\ q \in Spots /\ q.h \in Nat /\ q.k \in Nat
      /\ y \in Nat /\ TYC[e].d = 0 /\ q.b + Size(e, q.n) = y + 4
  BY DEF ShortHere, ShortSet
<1>2. m.pc = y + 3 /\ Found(m, e, q)
  BY DEF AtEnd
<1>3. Is(c, m.pc, Label("end", q.n + 1))
  BY <1>2, Zenon DEF ShortHere, ShortSet
<1>4. PICK t, l : Label("end", q.n + 1) = I("label", t, l)
  BY DEF Label
<1>5. Has(m, Takes(I("label", t, l)))
  BY <1>1, HasNone, TakesWhat
<1>6. ASSUME NEW m2, StepRule(c, m, m2) PROVE Within(m2, e, q) /\ Framed(m, m2, q.h)
  <2>1. Goes(m, m2, 0, m.pc + 1)
    BY <1>1, <1>3, <1>4, <1>6, StepLabel
  <2> DEFINE h == q.h + 1
  <2>2. h \in Nat /\ Len(m.stack) = h + 0 /\ q.h \in 0..h /\ h >= q.h + 1
    BY <1>1, <1>2 DEF Found
  <2>3. WentTo(m, m2, h, m.pc + 1)
    <3> HIDE DEF h
    <3> QED BY <1>1, <2>1, <2>2, Went
  <2>4. Framed(m, m2, q.h) /\ m2.stack[q.h + 1] = m.stack[q.h + 1]
    <3>1. Framed(m, m2, h)
      BY <2>3 DEF WentTo
    <3> HIDE DEF h
    <3> QED BY <1>1, <2>2, <3>1, FrameLess
  <2>5. m2.held = m.held /\ m2.calls = m.calls /\ m2.pc = y + 4 /\ Len(m2.stack) = q.h + 1
    BY <1>1, <1>2, <1>6, <2>3 DEF WentTo, StepRule, Grows
  <2>6. PICK w : w = m.stack[q.h + 1]
    OBVIOUS
  <2>7. Result(m2, e, q.k, w, Len(m2.calls))
    BY <1>2, <2>5, <2>6 DEF Found, Result, Worth
  <2>8. Arrived(m2, e, q)
    BY <1>1, <2>4, <2>5, <2>6, <2>7 DEF Arrived, Found
  <2> QED BY <2>4, <2>8 DEF Within
<1>7. I("label", t, l).op = "label"
  BY InstrHas
<1> QED BY <1>3, <1>4, <1>5, <1>6, <1>7, AtInstr

(* && and ||, jumping over the right operand or not.                       *)
LEMMA ShortRuns ==
  ASSUME NEW c, NEW m, NEW e, NEW q, Here(c, m, e, q), e.is = "binop", e.op \in {"and", "or"},
         PartsRun(c, m, e)
  PROVE  Runs(c, m, e, q)
<1>1. ShortHere(c, m, e, q)
  <2>1. /\ Setting(c, m) /\ IsSeq(c) /\ Sound(e) /\ e \in Expr
        /\ q \in Spots /\ q.h \in Nat /\ q.n \in Nat /\ q.k \in Nat
    BY SpotFields DEF Here, Setting, Sound
  <2>2. ShortSet(c, e, q) /\ MeaningRule(e, Meaning(m.held, m.calls), m.held, m.calls, q.k)
    BY <2>1, ShortIsSet, MeaningOf
  <2> QED BY <2>1, <2>2 DEF ShortHere
<1>2. \/ In(m, e.l, LeftOf(q)) \/ Arrived(m, e.l, LeftOf(q))
      \/ \E u : AtElse(m, e, q, u)
      \/ JumpedOver(m, e, q) \/ AtEnd(m, e, q)
  BY <1>1, ShortStages DEF Here, ShortHere
<1> QED BY <1>1, <1>2, ShortLeft, ShortBranch, ShortRight, ShortOver, ShortLast

-----------------------------------------------------------------------------
(* What is known of a cast and of where its code is.                       *)
CastSet(c, e, q) ==
  LET x == q.b + Size(e.e, q.n)
      k == After(e.e, q.n)
      from == TYC[e.e].t
  IN  /\ e.e \in Parts(e) /\ e.e \in Expr /\ e.t \in Basic /\ from \in Basic
      /\ TYC[e].t = e.t /\ TYC[e].d = 0 /\ TYC[e.e].d = 0 /\ x \in Nat
      /\ (BoolToFloat(e.e) => BoolToFloat(e)) /\ (Exact(e) => Exact(e.e))
      /\ (e.t = "float" /\ from = "bool" => BoolToFloat(e))
      /\ LaidOut(c, q.b, e.e, q.n)
      /\ from = e.t \/ (e.t = "float" /\ from = "bool") => q.b + Size(e, q.n) = x
      /\ e.t = "float" /\ from = "int" => /\ q.b + Size(e, q.n) = x + 1
                                          /\ \E arg : Is(c, x, I("i2f", "int", arg))
      /\ e.t = "int" /\ from = "float" => /\ q.b + Size(e, q.n) = x + 1
                                          /\ \E arg : Is(c, x, I("f2i", "float", arg))
      /\ e.t = "bool" /\ from # "bool" => /\ q.b + Size(e, q.n) = x + 2 /\ Is(c, x, I("const", from, 0))
                                          /\ \E arg : Is(c, x + 1, I("ne", from, arg))
      /\ e.t = "int" /\ from = "bool" =>
           /\ q.b + Size(e, q.n) = x + 6
           /\ Is(c, x, To("branch_t", "true", k)) /\ Is(c, x + 1, I("const", "int", 0))
           /\ Is(c, x + 2, To("jump", "cast", k + 1)) /\ Is(c, x + 3, Label("true", k))
           /\ Is(c, x + 4, I("const", "int", 1)) /\ Is(c, x + 5, Label("cast", k + 1))

(* Where its code is.                                                      *)
LEMMA CastIsSet ==
  ASSUME NEW c, NEW m, NEW e, NEW q, Here(c, m, e, q), e.is = "typecast"
  PROVE  CastSet(c, e, q)
<1>1. /\ IsSeq(c) /\ Sound(e) /\ e \in Expr /\ TYC[e].ok /\ q \in Spots /\ LaidOut(c, q.b, e, q.n)
      /\ HasShape(e) /\ TdRule(e) /\ q.b \in Nat /\ q.n \in Nat
  BY Shape, TdOf, SpotFields DEF Here, Setting, Sound
<1>2. e.e \in Parts(e) /\ e.e \in Expr /\ e.t \in Basic
  BY <1>1 DEF HasShape
<1>3. /\ TYC[e.e].d = 0 /\ Size(e.e, q.n) \in Nat /\ TYC[e.e].t \in Basic
      /\ (BoolToFloat(e.e) => BoolToFloat(e)) /\ (Exact(e) => Exact(e.e))
  <2>1. Sound(e.e) /\ TYC[e.e].d = 0 /\ Size(e.e, q.n) \in Nat
        /\ (BoolToFloat(e.e) => BoolToFloat(e)) /\ (Exact(e) => Exact(e.e))
    BY <1>1, <1>2, PartFacts
  <2> QED BY <2>1 DEF Sound
<1>4. TYC[e].t = e.t /\ TYC[e].d = 0
  BY <1>1 DEF TdRule, HasType
<1>5. e.t = "float" /\ TYC[e.e].t = "bool" => BoolToFloat(e)
  BY <1>1, NodesOf DEF BoolToFloat
<1>6. PICK arg : arg = ""
  OBVIOUS
<1> DEFINE x == q.b + Size(e.e, q.n)
           k == After(e.e, q.n)
           from == TYC[e.e].t
<1>7. /\ LaidOut(c, q.b, e.e, q.n)
      /\ from = e.t \/ (e.t = "float" /\ from = "bool") => q.b + Size(e, q.n) = x
      /\ e.t = "float" /\ from = "int" => q.b + Size(e, q.n) = x + 1 /\ Is(c, x, I("i2f", "int", arg))
      /\ e.t = "int" /\ from = "float" => q.b + Size(e, q.n) = x + 1 /\ Is(c, x, I("f2i", "float", arg))
      /\ e.t = "bool" /\ from # "bool" => /\ q.b + Size(e, q.n) = x + 2 /\ Is(c, x, I("const", from, 0))
                                          /\ Is(c, x + 1, I("ne", from, arg))
      /\ e.t = "int" /\ from = "bool" =>
           /\ q.b + Size(e, q.n) = x + 6
           /\ Is(c, x, To("branch_t", "true", k)) /\ Is(c, x + 1, I("const", "int", 0))
           /\ Is(c, x + 2, To("jump", "cast", k + 1)) /\ Is(c, x + 3, Label("true", k))
           /\ Is(c, x + 4, I("const", "int", 1)) /\ Is(c, x + 5, Label("cast", k + 1))
  <2>1. LaidCast(c, q.b, e, q.n)
    BY <1>1, CastLaid
  <2> QED BY <1>6, <2>1, Zenon DEF LaidCast
<1> HIDE <1>6
<1>x. x \in Nat
  BY <1>1, <1>3
<1> HIDE DEF k
<1>8. /\ e.t = "float" /\ from = "int" => /\ q.b + Size(e, q.n) = x + 1
                                          /\ \E a : Is(c, x, I("i2f", "int", a))
      /\ e.t = "int" /\ from = "float" => /\ q.b + Size(e, q.n) = x + 1
                                          /\ \E a : Is(c, x, I("f2i", "float", a))
      /\ e.t = "bool" /\ from # "bool" => /\ q.b + Size(e, q.n) = x + 2 /\ Is(c, x, I("const", from, 0))
                                          /\ \E a : Is(c, x + 1, I("ne", from, a))
  BY <1>7, Zenon
<1> HIDE DEF x, from
<1>9. /\ from = e.t \/ (e.t = "float" /\ from = "bool") => q.b + Size(e, q.n) = x
      /\ e.t = "int" /\ from = "bool" =>
           /\ q.b + Size(e, q.n) = x + 6
           /\ Is(c, x, To("branch_t", "true", k)) /\ Is(c, x + 1, I("const", "int", 0))
           /\ Is(c, x + 2, To("jump", "cast", k + 1)) /\ Is(c, x + 3, Label("true", k))
           /\ Is(c, x + 4, I("const", "int", 1)) /\ Is(c, x + 5, Label("cast", k + 1))
      /\ LaidOut(c, q.b, e.e, q.n)
  BY <1>7
<1> QED BY <1>2, <1>3, <1>4, <1>5, <1>8, <1>9, <1>x, Zenon DEF CastSet, x, k, from

-----------------------------------------------------------------------------
(* The stages of a cast: the comparison with zero; a false bool, a true    *)
(* one, the int that was put for it.                                       *)
CastStart(e, q) == q.b + Size(e.e, q.n)
AtNe(m, e, q) ==
  /\ e.t = "bool" /\ TYC[e.e].t # "bool" /\ m.pc = CastStart(e, q) + 1 /\ Len(m.stack) = q.h + 2
  /\ m.stack[q.h + 2] = Value(TYC[e.e].t, 0) /\ Result(m, e.e, q.k, m.stack[q.h + 1], Len(m.calls))
FromBool(e) == e.t = "int" /\ TYC[e.e].t = "bool"
AtBit(m, e, q, places, v) == /\ m.pc \in places /\ Len(m.stack) = q.h
                             /\ Worth(m, e.e, q.k, Value("bool", v), Len(m.calls))
AtInt(m, e, q) == m.pc \in {CastStart(e, q) + 2, CastStart(e, q) + 5} /\ Found(m, e, q)

(* The stages, one by one.                                                 *)
LEMMA CastStages ==
  ASSUME NEW m, NEW e \in Expr, e.is = "typecast", NEW q \in Spots
  PROVE  In(m, e, q) <=>
           /\ Len(m.stack) >= q.h
           /\ \/ In(m, e.e, q)
              \/ ~Silent(e.t, TYC[e.e].t) /\ Arrived(m, e.e, q)
              \/ AtNe(m, e, q)
              \/ FromBool(e) /\ \/ AtBit(m, e, q, {CastStart(e, q) + 1}, 0)
                                \/ AtBit(m, e, q, {CastStart(e, q) + 3, CastStart(e, q) + 4}, 1)
                                \/ AtInt(m, e, q)
<1>1. In(m, e, q) <=> Len(m.stack) >= q.h /\ InCast(m, e, q, Open(m))
  BY OpenOf DEF OpenRule, Stage
<1>2. InCast(m, e, q, Open(m)) <=>
              \/ In(m, e.e, q)
              \/ ~Silent(e.t, TYC[e.e].t) /\ Arrived(m, e.e, q)
              \/ AtNe(m, e, q)
              \/ FromBool(e) /\ \/ AtBit(m, e, q, {CastStart(e, q) + 1}, 0)
                                \/ AtBit(m, e, q, {CastStart(e, q) + 3, CastStart(e, q) + 4}, 1)
                                \/ AtInt(m, e, q)
  BY Zenon DEF InCast, AtNe, AtBit, AtInt, FromBool, In, CastStart
<1> QED BY <1>1, <1>2

CastHere(c, m, e, q) ==
  /\ Setting(c, m) /\ IsSeq(c) /\ Sound(e) /\ e \in Expr /\ e.is = "typecast"
  /\ q \in Spots /\ q.h \in Nat /\ q.n \in Nat /\ q.k \in Nat /\ CastSet(c, e, q)
  /\ MeaningRule(e, Meaning(m.held, m.calls), m.held, m.calls, q.k)

(* What a cast comes to when its operand comes to v.                       *)
LEMMA CastMeans ==
  ASSUME NEW c, NEW m, NEW e, NEW q, CastHere(c, m, e, q), NEW v, NEW u,
         Worth(m, e.e, q.k, Value(TYC[e.e].t, v), u), Exact(e)
  PROVE  Meaning(m.held, m.calls)[e][q.k] = Means(e.t, Converted(TYC[e.e].t, e.t, v), u)
<1>1. PICK n : n = Meaning(m.held, m.calls)[e.e][q.k]
  OBVIOUS
<1>2. Exact(e.e)
  BY DEF CastHere, CastSet
<1>3. n = Means(TYC[e.e].t, v, u)
  BY <1>1, <1>2 DEF Worth, Value
<1>4. n.ok /\ n.t = TYC[e.e].t /\ n.v = v /\ n.used = u
  BY <1>3 DEF Means
<1> QED BY <1>1, <1>4 DEF CastHere, MeaningRule

(* The operand.                                                            *)
LEMMA CastOperand ==
  ASSUME NEW c, NEW m, NEW e, NEW q, CastHere(c, m, e, q), PartsRun(c, m, e), In(m, e.e, q)
  PROVE  Runs(c, m, e, q)
<1>1. e.e \in Parts(e) /\ e.e \in Expr /\ LaidOut(c, q.b, e.e, q.n) /\ q \in Spots /\ Sound(e)
      /\ e \in Expr /\ e.is = "typecast" /\ q.h \in Nat /\ q.n \in Nat /\ q.k \in Nat /\ Setting(c, m)
      /\ TYC[e].t = e.t /\ TYC[e].d = 0 /\ TYC[e.e].d = 0
      /\ (BoolToFloat(e.e) => BoolToFloat(e)) /\ (Exact(e) => Exact(e.e))
      /\ (e.t = "float" /\ TYC[e.e].t = "bool" => BoolToFloat(e))
      /\ e.t \in Basic /\ TYC[e.e].t \in Basic
  BY DEF CastHere, CastSet
<1>2. Runs(c, m, e.e, q)
  BY <1>1 DEF PartsRun
<1>3. Void(m, e.e, q) => Void(m, e, q)
  BY <1>1 DEF Void, MeaningRule, CastHere
<1>4. ASSUME NEW m2, StepRule(c, m, m2), Within(m2, e.e, q), Framed(m, m2, q.h) PROVE Within(m2, e, q)
  <2>1. Len(m2.stack) >= q.h
    BY <1>4 DEF Framed
  <2>2. CASE In(m2, e.e, q)
    BY <1>1, <2>1, <2>2, CastStages DEF Within
  <2>3. CASE Arrived(m2, e.e, q) /\ ~Silent(e.t, TYC[e.e].t)
    BY <1>1, <2>1, <2>3, CastStages DEF Within
  <2>4. CASE Arrived(m2, e.e, q) /\ Silent(e.t, TYC[e.e].t)
    <3>1. TYC[e.e].t = e.t \/ (e.t = "float" /\ TYC[e.e].t = "bool")
      BY <1>1, <2>4 DEF Silent, Basic, Numeric
    <3>2. q.b + Size(e, q.n) = q.b + Size(e.e, q.n)
      BY <3>1 DEF CastHere, CastSet
    <3>3. PICK w, u : w = m2.stack[q.h + 1] /\ u = Len(m2.calls)
      OBVIOUS
    <3>4. Result(m2, e.e, q.k, w, u) /\ m2.pc = q.b + Size(e, q.n) /\ Len(m2.stack) = q.h + 1
      BY <1>1, <2>4, <3>2, <3>3 DEF Arrived, Found
    <3>5. w.t = TYC[e].t \/ BoolToFloat(e)
      BY <1>1, <3>1, <3>4 DEF Result
    <3>6. ASSUME Exact(e) PROVE Meaning(m2.held, m2.calls)[e][q.k] = Means(w.t, w.v, u)
      <4>1. TYC[e.e].t = e.t /\ w.t = e.t
        BY <1>1, <3>1, <3>5, <3>6 DEF Exact
      <4>2. PICK M, n : M = Meaning(m2.held, m2.calls) /\ n = M[e.e][q.k]
        OBVIOUS
      <4>3. n = Means(e.t, w.v, u)
        BY <1>1, <3>4, <3>6, <4>1, <4>2 DEF Result, Worth
      <4>4. n.ok /\ n.t = e.t /\ n.v = w.v /\ n.used = u
        BY <4>3 DEF Means
      <4>5. MeaningRule(e, M, m2.held, m2.calls, q.k)
        BY <1>1, <4>2, MeaningOf
      <4>6. M[e][q.k] = Means(e.t, Converted(e.t, e.t, w.v), u)
        BY <1>1, <4>2, <4>4, <4>5 DEF MeaningRule
      <4>7. Converted(e.t, e.t, w.v) = w.v
        BY <1>1 DEF Converted, Basic, Numeric
      <4> QED BY <4>1, <4>2, <4>6, <4>7
    <3>7. Result(m2, e, q.k, w, u)
      BY <3>4, <3>5, <3>6 DEF Result, Worth
    <3>8. Arrived(m2, e, q)
      BY <1>1, <3>3, <3>4, <3>7 DEF Arrived, Found
    <3> QED BY <3>8 DEF Within
  <2> QED BY <1>4, <2>2, <2>3, <2>4 DEF Within
<1> QED BY <1>1, <1>2, <1>3, <1>4, InPart

(* From a number to the other type of numbers.                             *)
LEMMA CastNumber ==
  ASSUME NEW c, NEW m, NEW e, NEW q, CastHere(c, m, e, q), Arrived(m, e.e, q), NEW op, NEW arg,
         \/ op = "i2f" /\ TYC[e.e].t = "int" /\ e.t = "float"
         \/ op = "f2i" /\ TYC[e.e].t = "float" /\ e.t = "int",
         Is(c, q.b + Size(e.e, q.n), I(op, TYC[e.e].t, arg)), q.b + Size(e, q.n) = q.b + Size(e.e, q.n) + 1
  PROVE  Runs(c, m, e, q)
<1> DEFINE x == q.b + Size(e.e, q.n)
           from == TYC[e.e].t
<1>1. /\ q \in Spots /\ e \in Expr /\ q.h \in Nat /\ q.k \in Nat /\ Setting(c, m) /\ x \in Nat
      /\ TYC[e].t = e.t /\ TYC[e].d = 0 /\ TYC[e.e].d = 0 /\ (BoolToFloat(e.e) => BoolToFloat(e))
  BY DEF CastHere, CastSet
<1>2. m.pc = x /\ Len(m.stack) = q.h + 1 /\ Result(m, e.e, q.k, Last(m), Len(m.calls))
  BY <1>1, Tops DEF Arrived, Found
<1>3. Is(c, m.pc, I(op, from, arg)) /\ m.pc + 1 = q.b + Size(e, q.n)
  BY <1>2
<1>4. op \in {"i2f", "f2i"}
  OBVIOUS
<1>4a. e.t # "bool"
  OBVIOUS
<1>5. Has(m, Takes(I(op, from, arg))) \/ BoolToFloat(e)
  <2>1. Takes(I(op, from, arg)) = <<from>>
    BY <1>4, TakesWhat
  <2>2. Len(m.stack) >= 1
    BY <1>1, <1>2
  <2>3. Last(m).t = from => Has(m, <<from>>)
    BY <1>1, <2>2, HasOne
  <2>4. Last(m).t = from \/ BoolToFloat(e)
    BY <1>1, <1>2 DEF Result
  <2> QED BY <2>1, <2>3, <2>4
<1> DEFINE v == Converted(from, e.t, Last(m).v)
<1>6. ASSUME NEW m2, StepRule(c, m, m2) PROVE Within(m2, e, q) /\ Framed(m, m2, q.h)
  <2>1. Last(m).t = from /\ Gives(m, m2, 1, Value(e.t, v))
    <3>1. CASE op = "i2f"
      BY <1>1, <1>3, <1>6, <3>1, StepI2f
    <3>2. CASE op = "f2i"
      BY <1>1, <1>3, <1>6, <3>2, StepF2i
    <3> QED BY <1>4, <3>1, <3>2
  <2>2. Worth(m, e.e, q.k, Value(from, Last(m).v), Len(m.calls))
    <3>1. PICK w : w = Last(m)
      OBVIOUS
    <3>2. w = Value(w.t, w.v) /\ Worth(m, e.e, q.k, w, Len(m.calls)) /\ w.t = from
      BY <1>2, <2>1, <3>1 DEF Result
    <3> QED BY <3>1, <3>2
  <2>3. Exact(e) => Meaning(m.held, m.calls)[e][q.k] = Means(e.t, v, Len(m.calls))
    BY <2>2, CastMeans
  <2> HIDE DEF v
  <2> QED BY <1>1, <1>2, <1>3, <1>4a, <1>6, <2>1, <2>3, Finds
<1>7. I(op, from, arg).op = op
  BY InstrHas
<1>8. op \notin {"div", "mod", "take"}
  BY <1>4
<1> QED BY <1>3, <1>5, <1>6, <1>7, <1>8, AtInstr

-----------------------------------------------------------------------------
(* From a number to a bool: the zero it is compared with, the comparison.  *)
LEMMA CastZero ==
  ASSUME NEW c, NEW m, NEW e, NEW q, CastHere(c, m, e, q), Arrived(m, e.e, q),
         e.t = "bool", TYC[e.e].t # "bool"
  PROVE  Runs(c, m, e, q)
<1> DEFINE x == q.b + Size(e.e, q.n)
           from == TYC[e.e].t
<1>1. /\ q \in Spots /\ e \in Expr /\ e.e \in Expr /\ q.h \in Nat /\ q.k \in Nat /\ Setting(c, m)
      /\ x \in Nat /\ TYC[e.e].d = 0 /\ Is(c, x, I("const", from, 0)) /\ e.is = "typecast"
  BY DEF CastHere, CastSet
<1>2. m.pc = x /\ Len(m.stack) = q.h + 1 /\ Result(m, e.e, q.k, m.stack[q.h + 1], Len(m.calls))
  BY <1>1 DEF Arrived, Found
<1> HIDE DEF x, from
<1>3. Has(m, Takes(I("const", from, 0)))
  BY <1>1, HasNone, TakesWhat
<1>4. ASSUME NEW m2, StepRule(c, m, m2) PROVE Within(m2, e, q) /\ Framed(m, m2, q.h)
  <2>1. Gives(m, m2, 0, Value(from, 0))
    BY <1>1, <1>2, <1>4, StepConst
  <2>2. Puts(m, m2, 0, Value(from, 0)) /\ m2.pc = x + 1 /\ m2.calls = m.calls
    BY <1>2, <2>1 DEF Gives
  <2>3. LandedOn(m, m2, q.h, Value(from, 0))
    BY <1>1, <1>2, <2>2, LandsOn
  <2>4. Result(m2, e.e, q.k, m.stack[q.h + 1], Len(m.calls))
    BY <1>1, <1>2, <1>4, KeepsResult
  <2>5. AtNe(m2, e, q)
    BY <2>2, <2>3, <2>4 DEF LandedOn, AtNe, CastStart, x, from
  <2>6. Len(m2.stack) >= q.h /\ Framed(m, m2, q.h)
    BY <2>3 DEF LandedOn
  <2> QED BY <1>1, <2>5, <2>6, CastStages DEF Within
<1>5. I("const", from, 0).op = "const"
  BY InstrHas
<1> QED BY <1>1, <1>2, <1>3, <1>4, <1>5, AtInstr

(* The comparison with zero is the conversion.                             *)
LEMMA NotZero ==
  ASSUME NEW t \in Numeric, NEW v
  PROVE  OpOf(t, "ne", v, 0) = Converted(t, "bool", v) /\ ResultType("ne", t) = "bool"
         /\ Converted(t, "bool", v) \in {0, 1}
<1>1. t = "int" \/ t = "float"
  BY DEF Numeric
<1>2. Compared("ne", v, 0) = Truth(v # 0)
  BY DEF Compared
<1>3. OpOf(t, "ne", v, 0) = Compared("ne", v, 0)
  BY <1>1 DEF OpOf, IntOp, FloatOp
<1>4. Converted(t, "bool", v) = Truth(v # 0)
  BY <1>1 DEF Converted
<1>5. ResultType("ne", t) = "bool"
  BY DEF ResultType, Arith
<1> QED BY <1>2, <1>3, <1>4, <1>5, TruthIsBit

(* The comparison itself.                                                  *)
LEMMA CastNe ==
  ASSUME NEW c, NEW m, NEW e, NEW q, CastHere(c, m, e, q), AtNe(m, e, q)
  PROVE  Runs(c, m, e, q)
<1> DEFINE x == q.b + Size(e.e, q.n)
           from == TYC[e.e].t
<1>1. /\ q \in Spots /\ e \in Expr /\ e.e \in Expr /\ q.h \in Nat /\ q.k \in Nat /\ Setting(c, m)
      /\ x \in Nat /\ TYC[e].d = 0 /\ TYC[e].t = e.t /\ e.t = "bool" /\ from \in Numeric
      /\ q.b + Size(e, q.n) = x + 2 /\ (BoolToFloat(e.e) => BoolToFloat(e))
  <2>1. from \in Basic /\ from # "bool"
    BY DEF CastHere, CastSet, AtNe
  <2>2. from \in Numeric
    BY <2>1 DEF Basic
  <2> QED BY <2>2 DEF CastHere, CastSet, AtNe
<1>2. /\ m.pc = x + 1 /\ Len(m.stack) = q.h + 2
      /\ m.stack[q.h + 2] = Value(from, 0) /\ Result(m, e.e, q.k, m.stack[q.h + 1], Len(m.calls))
  BY DEF AtNe, CastStart
<1>3. PICK arg : Is(c, m.pc, I("ne", from, arg))
  <2>1. \E arg : Is(c, x + 1, I("ne", from, arg))
    BY <1>1 DEF CastHere, CastSet, AtNe
  <2> QED BY <1>2, <2>1
<1> HIDE DEF x, from
<1>4. /\ Last(m) = Value(from, 0) /\ Result(m, e.e, q.k, Under(m), Len(m.calls)) /\ Len(m.stack) >= 2
      /\ Last(m).t = from /\ Last(m).v = 0
  <2>1. Last(m) = m.stack[q.h + 2] /\ Under(m) = m.stack[q.h + 1]
    BY <1>1, <1>2, Tops
  <2>2. Len(m.stack) >= 2
    BY <1>1, <1>2
  <2> QED BY <1>2, <2>1, <2>2 DEF Value
<1>5. Has(m, Takes(I("ne", from, arg))) \/ BoolToFloat(e)
  <2>1. Takes(I("ne", from, arg)) = <<from, from>>
    BY TakesWhat DEF Equality
  <2>3. Under(m).t = from => Has(m, <<from, from>>)
    BY <1>1, <1>4, HasTwo
  <2>4. Under(m).t = from \/ BoolToFloat(e)
    BY <1>1, <1>4 DEF Result, from
  <2> QED BY <2>1, <2>3, <2>4
<1> DEFINE v == Converted(from, "bool", Under(m).v)
<1>6. ASSUME NEW m2, StepRule(c, m, m2) PROVE Within(m2, e, q) /\ Framed(m, m2, q.h)
  <2>1. Under(m).t = from /\ Gives(m, m2, 2, Value(ResultType("ne", from), OpOf(from, "ne", Under(m).v, 0)))
    <3>1. "ne" \in Arith \cup Order \cup Equality
      BY DEF Equality
    <3> QED BY <1>1, <1>3, <1>4, <1>6, <3>1, StepOp
  <2>2. Gives(m, m2, 2, Value("bool", v)) /\ v \in {0, 1}
    BY <1>1, <2>1, NotZero
  <2>3. Worth(m, e.e, q.k, Value(from, Under(m).v), Len(m.calls))
    <3>1. PICK w : w = Under(m)
      OBVIOUS
    <3>2. w = Value(w.t, w.v) /\ Worth(m, e.e, q.k, w, Len(m.calls)) /\ w.t = from
      BY <1>4, <2>1, <3>1 DEF Result
    <3> QED BY <3>1, <3>2
  <2>4. Exact(e) => Meaning(m.held, m.calls)[e][q.k] = Means("bool", v, Len(m.calls))
    BY <1>1, <2>3, CastMeans DEF from
  <2>5. m.pc + 1 = q.b + Size(e, q.n)
    BY <1>1, <1>2
  <2> HIDE DEF v
  <2> QED BY <1>1, <1>2, <1>6, <2>2, <2>4, <2>5, Finds
<1>7. I("ne", from, arg).op = "ne"
  BY InstrHas
<1> QED BY <1>3, <1>5, <1>6, <1>7, AtInstr

-----------------------------------------------------------------------------
(* From a bool to an int: a branch, two constants, a jump and two labels.  *)
BitSet(c, m, e, q, x) ==
  /\ q \in Spots /\ e \in Expr /\ e.e \in Expr /\ q.h \in Nat /\ q.k \in Nat /\ Setting(c, m)
  /\ e.is = "typecast" /\ FromBool(e) /\ x \in Nat /\ x = CastStart(e, q)
  /\ TYC[e].d = 0 /\ TYC[e].t = "int" /\ e.t = "int" /\ TYC[e.e].d = 0 /\ TYC[e.e].t = "bool"
  /\ (BoolToFloat(e.e) => BoolToFloat(e)) /\ q.b + Size(e, q.n) = x + 6
BitCode(c, x, k) ==
  /\ Is(c, x, To("branch_t", "true", k)) /\ Is(c, x + 1, I("const", "int", 0))
  /\ Is(c, x + 2, To("jump", "cast", k + 1)) /\ Is(c, x + 3, Label("true", k))
  /\ Is(c, x + 4, I("const", "int", 1)) /\ Is(c, x + 5, Label("cast", k + 1))

(* Where the two constants are.                                            *)
LEMMA BitIsSet ==
  ASSUME NEW c, NEW m, NEW e, NEW q, CastHere(c, m, e, q), FromBool(e)
  PROVE  BitSet(c, m, e, q, CastStart(e, q)) /\ BitCode(c, CastStart(e, q), After(e.e, q.n))
<1>1. e.t = "int" /\ TYC[e.e].t = "bool"
  BY DEF FromBool
<1>2. BitCode(c, CastStart(e, q), After(e.e, q.n))
  BY <1>1, Zenon DEF CastHere, CastSet, BitCode, CastStart
<1>3. CastStart(e, q) \in Nat
  BY DEF CastHere, CastSet, CastStart
<1>4. q.b + Size(e, q.n) = CastStart(e, q) + 6
  BY <1>1 DEF CastHere, CastSet, CastStart
<1>5. BitSet(c, m, e, q, CastStart(e, q))
  BY <1>1, <1>3, <1>4 DEF CastHere, CastSet, BitSet
<1> QED BY <1>2, <1>5

(* The branch on the bool.                                                 *)
LEMMA BitBranch ==
  ASSUME NEW c, NEW m, NEW e, NEW q, NEW x, NEW k, BitSet(c, m, e, q, x), BitCode(c, x, k), Arrived(m, e.e, q)
  PROVE  Runs(c, m, e, q)
<1> DEFINE l == <<"true", k>>
<1>1. m.pc = x /\ Len(m.stack) = q.h + 1 /\ Result(m, e.e, q.k, Last(m), Len(m.calls))
  <2>1. m.pc = x /\ Len(m.stack) = q.h + 1 /\ Result(m, e.e, q.k, m.stack[q.h + 1], Len(m.calls)) /\ q.h \in Nat
    BY DEF BitSet, Arrived, Found, CastStart
  <2> QED BY <2>1, Tops
<1>2. Is(c, m.pc, I("branch_t", "bool", l)) /\ At(c, l) = x + 3
  <2>1. At(c, l) = x + 3
    BY LabelAt DEF BitSet, BitCode
  <2> QED BY <1>1, <2>1 DEF BitCode, To
<1> HIDE DEF l
<1>3. Setting(c, m) /\ q.h \in Nat /\ e.e \in Expr /\ e \in Expr /\ q.k \in Nat /\ q \in Spots /\ e.is = "typecast"
      /\ FromBool(e) /\ x \in Nat
  BY DEF BitSet
<1>4. Has(m, Takes(I("branch_t", "bool", l))) \/ BoolToFloat(e)
  <2>1. Takes(I("branch_t", "bool", l)) = <<"bool">>
    BY TakesWhat
  <2>2. Len(m.stack) >= 1
    BY <1>1, <1>3
  <2>3. Last(m).t = "bool" => Has(m, <<"bool">>)
    BY <1>3, <2>2, HasOne
  <2>4. Last(m).t = "bool" \/ BoolToFloat(e)
    BY <1>1 DEF Result, BitSet
  <2> QED BY <2>1, <2>3, <2>4
<1>5. ASSUME NEW m2, StepRule(c, m, m2) PROVE Within(m2, e, q) /\ Framed(m, m2, q.h)
  <2>1. PICK v : v = Last(m).v
    OBVIOUS
  <2> DEFINE to == IF (v = 1) = ("branch_t" = "branch_t") THEN At(c, l) ELSE m.pc + 1
  <2>2. Last(m).t = "bool" /\ Goes(m, m2, 1, to)
    BY <1>2, <1>3, <1>5, <2>1, StepBranch
  <2>3. v \in {0, 1} /\ Worth(m, e.e, q.k, Value("bool", v), Len(m.calls))
    <3>1. PICK w : w = Last(m)
      OBVIOUS
    <3>2. w = Value(w.t, w.v) /\ w.t = "bool" /\ w.v = v /\ w.v \in {0, 1} /\ Worth(m, e.e, q.k, w, Len(m.calls))
      BY <1>1, <2>1, <2>2, <3>1 DEF Result
    <3> QED BY <3>2
  <2>4. Len(m2.stack) = q.h /\ Framed(m, m2, q.h) /\ m2.pc = to /\ m2.calls = m.calls
    <3> HIDE DEF to
    <3>2. WentTo(m, m2, q.h, to)
      BY <1>1, <1>3, <2>2, Went
    <3> QED BY <3>2 DEF WentTo
  <2>5. Worth(m2, e.e, q.k, Value("bool", v), Len(m2.calls)) /\ Len(m2.stack) >= q.h
    <3>1. Worth(m2, e.e, q.k, Value("bool", v), Len(m.calls))
      BY <1>3, <1>5, <2>3, KeepsResult
    <3> QED BY <1>3, <2>4, <3>1
  <2>6. CASE v = 1
    <3>1. m2.pc = x + 3
      BY <1>2, <2>4, <2>6
    <3>2. AtBit(m2, e, q, {CastStart(e, q) + 3, CastStart(e, q) + 4}, 1)
      BY <2>4, <2>5, <2>6, <3>1 DEF AtBit, BitSet
    <3> QED BY <1>3, <2>4, <2>5, <3>2, CastStages DEF Within
  <2>7. CASE v = 0
    <3>1. m2.pc = x + 1
      BY <1>1, <2>4, <2>7
    <3>2. AtBit(m2, e, q, {CastStart(e, q) + 1}, 0)
      BY <2>4, <2>5, <2>7, <3>1 DEF AtBit, BitSet
    <3> QED BY <1>3, <2>4, <2>5, <3>2, CastStages DEF Within
  <2> QED BY <2>3, <2>6, <2>7
<1>6. I("branch_t", "bool", l).op = "branch_t"
  BY InstrHas
<1> QED BY <1>2, <1>4, <1>5, <1>6, AtInstr

(* The constant that is put for the bool v.                                *)
LEMMA BitConst ==
  ASSUME NEW c, NEW m, NEW e, NEW q, NEW x, BitSet(c, m, e, q, x), CastHere(c, m, e, q), NEW v \in {0, 1},
         Len(m.stack) = q.h, Worth(m, e.e, q.k, Value("bool", v), Len(m.calls)),
         Is(c, m.pc, I("const", "int", v)), m.pc \in {x + 1, x + 4}
  PROVE  Runs(c, m, e, q)
<1>3. Setting(c, m) /\ q.h \in Nat /\ e.e \in Expr /\ e \in Expr /\ q.k \in Nat /\ q \in Spots /\ e.is = "typecast"
      /\ FromBool(e) /\ x \in Nat /\ e.t = "int" /\ TYC[e].t = "int" /\ TYC[e.e].t = "bool" /\ x = CastStart(e, q)
  BY DEF BitSet
<1>4. Has(m, Takes(I("const", "int", v)))
  BY <1>3, HasNone, TakesWhat
<1>5. ASSUME NEW m2, StepRule(c, m, m2) PROVE Within(m2, e, q) /\ Framed(m, m2, q.h)
  <2>1. Gives(m, m2, 0, Value("int", v))
    BY <1>3, <1>5, StepConst
  <2>2. Puts(m, m2, 0, Value("int", v)) /\ m2.pc = m.pc + 1 /\ m2.calls = m.calls /\ m2.held = m.held
    BY <1>5, <2>1 DEF Gives, StepRule, Grows
  <2>3. Len(m.stack) = q.h + 0
    BY <1>3
  <2>4. PutAt(m, m2, q.h, Value("int", v))
    BY <1>3, <2>2, <2>3, PutsAt
  <2>5. ASSUME Exact(e) PROVE Meaning(m.held, m.calls)[e][q.k] = Means("int", v, Len(m.calls))
    <3>1. Converted("bool", "int", v) = v
      BY DEF Converted
    <3>2. Worth(m, e.e, q.k, Value(TYC[e.e].t, v), Len(m.calls))
      BY <1>3
    <3>3. Meaning(m.held, m.calls)[e][q.k] = Means(e.t, Converted(TYC[e.e].t, e.t, v), Len(m.calls))
      BY <2>5, <3>2, CastMeans
    <3> QED BY <1>3, <3>1, <3>3
  <2>6. Result(m2, e, q.k, Value("int", v), Len(m2.calls))
    BY <1>3, <2>2, <2>5, MakesResult
  <2>7. AtInt(m2, e, q)
    <3>1. m2.pc \in {x + 2, x + 5}
      BY <1>3, <2>2
    <3> QED BY <1>3, <2>4, <2>6, <3>1 DEF AtInt, Found, PutAt
  <2>8. Len(m2.stack) >= q.h /\ Framed(m, m2, q.h)
    BY <2>4 DEF PutAt, Framed
  <2> QED BY <1>3, <2>7, <2>8, CastStages DEF Within
<1>6. I("const", "int", v).op = "const"
  BY InstrHas
<1> QED BY <1>4, <1>5, <1>6, AtInstr

(* The label before the second constant.                                   *)
LEMMA BitLabel ==
  ASSUME NEW c, NEW m, NEW e, NEW q, NEW x, NEW k, BitSet(c, m, e, q, x), BitCode(c, x, k),
         Len(m.stack) = q.h, Worth(m, e.e, q.k, Value("bool", 1), Len(m.calls)), m.pc = x + 3
  PROVE  Runs(c, m, e, q)
<1>3. Setting(c, m) /\ q.h \in Nat /\ e.e \in Expr /\ e \in Expr /\ q.k \in Nat /\ q \in Spots /\ e.is = "typecast"
      /\ FromBool(e) /\ x \in Nat /\ x = CastStart(e, q)
  BY DEF BitSet
<1>1. Is(c, m.pc, Label("true", k))
  BY DEF BitCode
<1>2. PICK t, l : Label("true", k) = I("label", t, l)
  BY DEF Label
<1>4. Has(m, Takes(I("label", t, l)))
  BY <1>3, HasNone, TakesWhat
<1>5. ASSUME NEW m2, StepRule(c, m, m2) PROVE Within(m2, e, q) /\ Framed(m, m2, q.h)
  <2>1. Goes(m, m2, 0, m.pc + 1)
    BY <1>1, <1>2, <1>3, <1>5, StepLabel
  <2>2. Len(m.stack) = q.h + 0
    BY <1>3
  <2>3. WentTo(m, m2, q.h, m.pc + 1)
    BY <1>3, <2>1, <2>2, Went
  <2>4. Worth(m2, e.e, q.k, Value("bool", 1), Len(m.calls))
    BY <1>3, <1>5, KeepsResult
  <2>5. m2.pc = x + 4
    BY <1>3, <2>3 DEF WentTo
  <2>6. AtBit(m2, e, q, {CastStart(e, q) + 3, CastStart(e, q) + 4}, 1)
    BY <1>3, <2>3, <2>4, <2>5 DEF AtBit, WentTo
  <2>7. Len(m2.stack) >= q.h /\ Framed(m, m2, q.h)
    BY <2>3 DEF WentTo, Framed
  <2> QED BY <1>3, <2>6, <2>7, CastStages DEF Within
<1>6. I("label", t, l).op = "label"
  BY InstrHas
<1> QED BY <1>1, <1>2, <1>4, <1>5, <1>6, AtInstr

(* The int is there: the jump over the other constant, the last label.     *)
LEMMA BitDone ==
  ASSUME NEW c, NEW m, NEW e, NEW q, NEW x, NEW k, BitSet(c, m, e, q, x), BitCode(c, x, k), AtInt(m, e, q)
  PROVE  Runs(c, m, e, q)
<1>3. Setting(c, m) /\ q.h \in Nat /\ e.e \in Expr /\ e \in Expr /\ q.k \in Nat /\ q \in Spots /\ e.is = "typecast"
      /\ FromBool(e) /\ x \in Nat /\ x = CastStart(e, q) /\ TYC[e].d = 0 /\ q.b + Size(e, q.n) = x + 6
  BY DEF BitSet
<1>1. m.pc \in {x + 2, x + 5} /\ Found(m, e, q)
  BY <1>3 DEF AtInt
<1> DEFINE h == q.h + 1
<1>2. h \in Nat /\ Len(m.stack) = h + 0 /\ q.h \in 0..h /\ h >= q.h + 1
  BY <1>1, <1>3 DEF Found
<1>4. ASSUME NEW m2, StepRule(c, m, m2), NEW to, Goes(m, m2, 0, to)
      PROVE  Found(m2, e, q) /\ m2.pc = to /\ Framed(m, m2, q.h) /\ Len(m2.stack) >= q.h
  <2>3. WentTo(m, m2, h, to)
    <3> HIDE DEF h
    <3> QED BY <1>2, <1>3, <1>4, Went
  <2>4. Framed(m, m2, q.h) /\ m2.stack[q.h + 1] = m.stack[q.h + 1]
    <3>1. Framed(m, m2, h)
      BY <2>3 DEF WentTo
    <3> HIDE DEF h
    <3> QED BY <1>2, <1>3, <3>1, FrameLess
  <2>5. m2.held = m.held /\ m2.calls = m.calls /\ m2.pc = to /\ Len(m2.stack) = q.h + 1
    BY <1>4, <2>3 DEF WentTo, StepRule, Grows
  <2>6. PICK w : w = m.stack[q.h + 1]
    OBVIOUS
  <2>7. Result(m2, e, q.k, w, Len(m2.calls))
    BY <1>1, <2>5, <2>6 DEF Found, Result, Worth
  <2>8. Found(m2, e, q)
    BY <2>4, <2>5, <2>6, <2>7 DEF Found
  <2>9. Len(m2.stack) >= q.h
    BY <2>4 DEF Framed
  <2> QED BY <2>4, <2>5, <2>8, <2>9
<1>5. CASE m.pc = x + 2
  <2> DEFINE l == <<"cast", k + 1>>
  <2>1. Is(c, m.pc, I("jump", "bool", l)) /\ At(c, l) = x + 5
    <3>1. At(c, l) = x + 5
      BY <1>3, LabelAt DEF BitCode
    <3> QED BY <1>5, <3>1 DEF BitCode, To
  <2> HIDE DEF l
  <2>2. Has(m, Takes(I("jump", "bool", l)))
    BY <1>3, HasNone, TakesWhat
  <2>3. ASSUME NEW m2, StepRule(c, m, m2) PROVE Within(m2, e, q) /\ Framed(m, m2, q.h)
    <3>1. Goes(m, m2, 0, x + 5)
      BY <1>3, <2>1, <2>3, StepJump
    <3>2. Found(m2, e, q) /\ m2.pc = x + 5 /\ Framed(m, m2, q.h) /\ Len(m2.stack) >= q.h
      BY <1>4, <2>3, <3>1
    <3>3. AtInt(m2, e, q)
      BY <1>3, <3>2 DEF AtInt
    <3> QED BY <1>3, <3>2, <3>3, CastStages DEF Within
  <2>4. I("jump", "bool", l).op = "jump"
    BY InstrHas
  <2> QED BY <2>1, <2>2, <2>3, <2>4, AtInstr
<1>6. CASE m.pc = x + 5
  <2>1. Is(c, m.pc, Label("cast", k + 1))
    BY <1>6 DEF BitCode
  <2>2. PICK t, l : Label("cast", k + 1) = I("label", t, l)
    BY DEF Label
  <2>3. Has(m, Takes(I("label", t, l)))
    BY <1>3, HasNone, TakesWhat
  <2>4. ASSUME NEW m2, StepRule(c, m, m2) PROVE Within(m2, e, q) /\ Framed(m, m2, q.h)
    <3>1. Goes(m, m2, 0, m.pc + 1)
      BY <1>3, <2>1, <2>2, <2>4, StepLabel
    <3>2. Found(m2, e, q) /\ m2.pc = m.pc + 1 /\ Framed(m, m2, q.h)
      BY <1>4, <2>4, <3>1
    <3>3. m2.pc = q.b + Size(e, q.n)
      BY <1>3, <1>6, <3>2
    <3> QED BY <1>3, <3>2, <3>3 DEF Within, Arrived
  <2>5. I("label", t, l).op = "label"
    BY InstrHas
  <2> QED BY <2>1, <2>2, <2>3, <2>4, <2>5, AtInstr
<1> QED BY <1>1, <1>5, <1>6

(* A cast, by its types.                                                   *)
LEMMA CastRuns ==
  ASSUME NEW c, NEW m, NEW e, NEW q, Here(c, m, e, q), e.is = "typecast", PartsRun(c, m, e)
  PROVE  Runs(c, m, e, q)
<1>1. CastHere(c, m, e, q)
  <2>1. /\ Setting(c, m) /\ IsSeq(c) /\ Sound(e) /\ e \in Expr
        /\ q \in Spots /\ q.h \in Nat /\ q.n \in Nat /\ q.k \in Nat
    BY SpotFields DEF Here, Setting, Sound
  <2>2. CastSet(c, e, q) /\ MeaningRule(e, Meaning(m.held, m.calls), m.held, m.calls, q.k)
    BY <2>1, CastIsSet, MeaningOf
  <2> QED BY <2>1, <2>2 DEF CastHere
<1> DEFINE x == CastStart(e, q)
           k == After(e.e, q.n)
<1>2. \/ In(m, e.e, q)
      \/ ~Silent(e.t, TYC[e.e].t) /\ Arrived(m, e.e, q)
      \/ AtNe(m, e, q)
      \/ FromBool(e) /\ \/ AtBit(m, e, q, {x + 1}, 0)
                        \/ AtBit(m, e, q, {x + 3, x + 4}, 1)
                        \/ AtInt(m, e, q)
  BY <1>1, CastStages DEF Here, CastHere
<1>3. CASE In(m, e.e, q)
  BY <1>1, <1>3, CastOperand
<1>4. CASE AtNe(m, e, q)
  BY <1>1, <1>4, CastNe
<1>5. CASE FromBool(e) /\ \/ AtBit(m, e, q, {x + 1}, 0) \/ AtBit(m, e, q, {x + 3, x + 4}, 1) \/ AtInt(m, e, q)
  <2>1. BitSet(c, m, e, q, x) /\ BitCode(c, x, k)
    BY <1>1, <1>5, BitIsSet
  <2> HIDE DEF x, k
  <2>2. CASE AtBit(m, e, q, {x + 1}, 0)
    <3>1. Is(c, m.pc, I("const", "int", 0)) /\ m.pc \in {x + 1, x + 4} /\ Len(m.stack) = q.h
          /\ Worth(m, e.e, q.k, Value("bool", 0), Len(m.calls))
      BY <2>1, <2>2 DEF AtBit, BitCode
    <3> QED BY <1>1, <2>1, <3>1, BitConst
  <2>3. CASE AtBit(m, e, q, {x + 3, x + 4}, 1)
    <3>0. Len(m.stack) = q.h /\ Worth(m, e.e, q.k, Value("bool", 1), Len(m.calls)) /\ m.pc \in {x + 3, x + 4}
      BY <2>3 DEF AtBit
    <3>1. CASE m.pc = x + 3
      BY <2>1, <3>0, <3>1, BitLabel
    <3>2. CASE m.pc = x + 4
      <4>1. Is(c, m.pc, I("const", "int", 1)) /\ m.pc \in {x + 1, x + 4}
        BY <2>1, <3>2 DEF BitCode
      <4> QED BY <1>1, <2>1, <3>0, <4>1, BitConst
    <3> QED BY <3>0, <3>1, <3>2
  <2>4. CASE AtInt(m, e, q)
    BY <2>1, <2>4, BitDone
  <2> QED BY <1>5, <2>2, <2>3, <2>4
<1>6. CASE ~Silent(e.t, TYC[e.e].t) /\ Arrived(m, e.e, q)
  <2>0. e.t \in Basic /\ TYC[e.e].t \in Basic
    BY <1>1 DEF CastHere, CastSet
  <2>1. CASE e.t = "bool" /\ TYC[e.e].t # "bool"
    BY <1>1, <1>6, <2>1, CastZero
  <2>2. CASE FromBool(e)
    <3>1. BitSet(c, m, e, q, x) /\ BitCode(c, x, k)
      BY <1>1, <2>2, BitIsSet
    <3> HIDE DEF x, k
    <3> QED BY <1>6, <3>1, BitBranch
  <2>3. CASE e.t = "float" /\ TYC[e.e].t = "int"
    <3>1. q.b + Size(e, q.n) = q.b + Size(e.e, q.n) + 1
      BY <1>1, <2>3 DEF CastHere, CastSet
    <3>2. PICK arg : Is(c, q.b + Size(e.e, q.n), I("i2f", "int", arg))
      BY <1>1, <2>3 DEF CastHere, CastSet
    <3> QED BY <1>1, <1>6, <2>3, <3>1, <3>2, CastNumber
  <2>4. CASE e.t = "int" /\ TYC[e.e].t = "float"
    <3>1. q.b + Size(e, q.n) = q.b + Size(e.e, q.n) + 1
      BY <1>1, <2>4 DEF CastHere, CastSet
    <3>2. PICK arg : Is(c, q.b + Size(e.e, q.n), I("f2i", "float", arg))
      BY <1>1, <2>4 DEF CastHere, CastSet
    <3> QED BY <1>1, <1>6, <2>4, <3>1, <3>2, CastNumber
  <2> QED BY <1>6, <2>0, <2>1, <2>2, <2>3, <2>4 DEF Silent, FromBool, Basic, Numeric
<1> QED BY <1>2, <1>3, <1>4, <1>5, <1>6

-----------------------------------------------------------------------------
(* What is known of a call and of where its code is.                       *)
CallHere(c, m, e, q) ==
  LET L == Len(e.args)
      P == FunType[e.f].params
  IN  /\ Setting(c, m) /\ IsSeq(c) /\ Sound(e) /\ e \in Expr /\ e.is = "funcall" /\ e.f \in Funs
      /\ q \in Spots /\ q.h \in Nat /\ q.n \in Nat /\ q.b \in Nat /\ q.k \in Nat
      /\ L \in Nat /\ L = Len(P) /\ LaidCall(c, q.b, e, q.n) /\ SlotsOk(e.f)
      /\ \A k \in 1..L : /\ e.args[k] \in Parts(e) /\ e.args[k] \in Expr /\ Sound(e.args[k])
                         /\ TYC[e.args[k]].t = P[k].type /\ TYC[e.args[k]].d = P[k].dim
                         /\ (BoolToFloat(e.args[k]) => BoolToFloat(e)) /\ (Exact(e) => Exact(e.args[k]))
                         /\ \A n \in Nat : Size(e.args[k], n) \in Nat
      /\ TYC[e].t = FunType[e.f].type /\ TYC[e].d = 0 /\ TYC[e].t \in Basic
      /\ MeaningRule(e, Meaning(m.held, m.calls), m.held, m.calls, q.k)

(* Where its code is.                                                      *)
LEMMA CallIsSet ==
  ASSUME NEW c, NEW m, NEW e, NEW q, Here(c, m, e, q), e.is = "funcall"
  PROVE  CallHere(c, m, e, q)
<1>1. /\ Setting(c, m) /\ IsSeq(c) /\ Sound(e) /\ e \in Expr /\ TYC[e].ok /\ q \in Spots /\ LaidOut(c, q.b, e, q.n)
      /\ HasShape(e) /\ OkRule(e) /\ TdRule(e) /\ q.h \in Nat /\ q.b \in Nat /\ q.n \in Nat /\ q.k \in Nat
      /\ TYC[e].t \in Basic
  BY Shape, OkOf, TdOf, SpotFields DEF Here, Setting, Sound
<1>2. LaidCall(c, q.b, e, q.n)
  BY <1>1, CallLaid
<1>3. Len(e.args) \in Nat /\ DOMAIN e.args = 1..Len(e.args)
  BY <1>2 DEF LaidCall
<1>4. SlotsOk(e.f) /\ e.f \in Funs
  BY <1>1, SlotsAreOk DEF HasShape
<1>5. SuitsCall(e)
  BY <1>1, CallSuits
<1>6. ASSUME NEW k \in 1..Len(e.args)
      PROVE  /\ e.args[k] \in Parts(e) /\ e.args[k] \in Expr /\ Sound(e.args[k])
             /\ (BoolToFloat(e.args[k]) => BoolToFloat(e)) /\ (Exact(e) => Exact(e.args[k]))
             /\ \A n \in Nat : Size(e.args[k], n) \in Nat
  <2>1. k \in DOMAIN e.args
    BY <1>3
  <2>2. PICK p : p = e.args[k]
    OBVIOUS
  <2>3. p \in Parts(e)
    BY <1>1, <2>1, <2>2 DEF HasShape
  <2>4. \A n \in Nat : /\ Sound(p) /\ p \in Expr /\ Size(p, n) \in Nat
                       /\ (BoolToFloat(p) => BoolToFloat(e)) /\ (Exact(e) => Exact(p))
    BY <1>1, <2>3, PartFacts
  <2>5. 0 \in Nat
    OBVIOUS
  <2> QED BY <2>2, <2>3, <2>4, <2>5
<1>7. \A k \in 1..Len(e.args) : /\ TYC[e.args[k]].t = FunType[e.f].params[k].type
                                /\ TYC[e.args[k]].d = FunType[e.f].params[k].dim
  BY <1>3, <1>5 DEF SuitsCall
<1>8. TYC[e].t = FunType[e.f].type /\ TYC[e].d = 0
  BY <1>1 DEF TdRule, HasType
<1>9. MeaningRule(e, Meaning(m.held, m.calls), m.held, m.calls, q.k)
  BY <1>1, MeaningOf
<1>10. Len(e.args) = Len(FunType[e.f].params)
  BY <1>5 DEF SuitsCall
<1> QED BY <1>1, <1>2, <1>3, <1>4, <1>6, <1>7, <1>8, <1>9, <1>10 DEF CallHere

Slot(e, j) == Len(SlotsUpTo(e.f)[j])

(* Where an argument is entered.                                           *)
LEMMA ArgSpotIs ==
  ASSUME NEW c, NEW m, NEW e, NEW q, CallHere(c, m, e, q), NEW j \in 0..Len(e.args), NEW u \in Nat
  PROVE  /\ IsSpot(ArgSpot(e, q, j, u), ArgNext(e, q.n, j), q.b + 1 + ArgSize(e, q.n, j), q.h + 1 + Slot(e, j), u)
         /\ Slot(e, j) \in Nat
<1> DEFINE n == ArgNext(e, q.n, j)
           b == q.b + 1 + ArgSize(e, q.n, j)
           h == q.h + 1 + Slot(e, j)
<1>1. ArgNext(e, q.n, j) \in Nat /\ ArgSize(e, q.n, j) \in Nat
  BY DEF CallHere, LaidCall
<1>2. Slot(e, j) \in Nat
  BY DEF CallHere, SlotsOk, Slot
<1>3. q.b \in Nat /\ q.h \in Nat
  BY DEF CallHere
<1>4. n \in Nat /\ b \in Nat /\ h \in Nat
  BY <1>1, <1>2, <1>3
<1>5. ArgSpot(e, q, j, u) = Spot(n, b, h, u)
  BY DEF ArgSpot, Slot
<1> HIDE DEF n, b, h
<1>6. IsSpot(Spot(n, b, h, u), n, b, h, u)
  BY <1>4, SpotIs
<1> QED BY <1>2, <1>5, <1>6 DEF n, b, h

(* The stages of a call: an argument is computed, or the call is next.     *)
AtArg(m, e, q, j, u) ==
  /\ j \in 0..Len(e.args) /\ u \in 0..Len(m.calls) /\ ArgsDone(m, e, q, j, u)
  /\ IF j < Len(e.args) THEN In(m, e.args[j + 1], ArgSpot(e, q, j, u)) ELSE Entered(m, ArgSpot(e, q, j, u))

(* The stages of a call: an argument, or all are there.                    *)
LEMMA CallStages ==
  ASSUME NEW m, NEW e \in Expr, e.is = "funcall", NEW q \in Spots
  PROVE  In(m, e, q) <=> Len(m.stack) >= q.h /\ (Entered(m, q) \/ \E j, u : AtArg(m, e, q, j, u))
<1>1. In(m, e, q) <=> Len(m.stack) >= q.h /\ InCall(m, e, q, Open(m))
  BY OpenOf DEF OpenRule, Stage
<1>2. InCall(m, e, q, Open(m)) <=> Entered(m, q) \/ \E j, u : AtArg(m, e, q, j, u)
  BY DEF InCall, AtArg, In
<1> QED BY <1>1, <1>2

(* Where the arguments so far are there, the next one begins.              *)
LEMMA NextArg ==
  ASSUME NEW c, NEW m0, NEW m, NEW e, NEW q, CallHere(c, m0, e, q), NEW j \in 0..Len(e.args), NEW u \in Nat,
         u = Len(m.calls), ArgsDone(m, e, q, j, u), Entered(m, ArgSpot(e, q, j, u))
  PROVE  Within(m, e, q)
<1>1. PICK s : s = ArgSpot(e, q, j, u)
  OBVIOUS
<1>2. s \in Spots /\ s.h = q.h + 1 + Slot(e, j) /\ Slot(e, j) \in Nat
  BY <1>1, ArgSpotIs DEF IsSpot
<1>3. Len(m.stack) >= q.h /\ u \in 0..Len(m.calls)
  <2>1. q.h \in Nat
    BY DEF CallHere
  <2>2. Len(m.stack) = q.h + 1 + Slot(e, j)
    BY <1>1, <1>2 DEF Entered
  <2> QED BY <1>2, <2>1, <2>2
<1>4. j < Len(e.args) => In(m, e.args[j + 1], s)
  <2> SUFFICES ASSUME j < Len(e.args) PROVE In(m, e.args[j + 1], s)
    OBVIOUS
  <2>1. j + 1 \in 1..Len(e.args)
    BY DEF CallHere
  <2>2. e.args[j + 1] \in Expr /\ Sound(e.args[j + 1])
    BY <2>1 DEF CallHere
  <2> QED BY <1>1, <1>2, <2>2, EnteredIsIn
<1>5. AtArg(m, e, q, j, u)
  BY <1>1, <1>3, <1>4 DEF AtArg
<1>6. e \in Expr /\ e.is = "funcall" /\ q \in Spots
  BY DEF CallHere
<1> QED BY <1>3, <1>5, <1>6, CallStages DEF Within

-----------------------------------------------------------------------------
(* What the arguments mean, one after the other, and that it stays.        *)
LEMMA ArgsMeanIs ==
  ASSUME NEW m, NEW e \in Expr, e.is = "funcall", NEW k
  PROVE  /\ ArgsMean(m, e, k)[0] = Means("args", <<>>, k)
         /\ \A i \in 1..Len(e.args) :
              ArgsMean(m, e, k)[i] =
                MeaningOfArg(e.args[i], Meaning(m.held, m.calls)[e.args[i]], ArgsMean(m, e, k)[i - 1])
<1>0. HasShape(e)
  BY Shape
<1>1. PICK M : M = Meaning(m.held, m.calls)
  OBVIOUS
<1> DEFINE mean == [i \in DOMAIN e.args |-> M[e.args[i]]]
<1>2. e.args \in Seq(Expr) /\ Len(e.args) \in Nat /\ \A i \in 1..Len(e.args) : mean[i] = M[e.args[i]]
  BY <1>0 DEF HasShape
<1>3. ArgsMean(m, e, k) = MeaningOfArgs(e.args, mean, k)
  BY <1>1 DEF ArgsMean
<1> HIDE DEF mean
<1>4. ArgsRule(e.args, mean, k, MeaningOfArgs(e.args, mean, k))
  BY <1>2, ArgsLoop
<1>5. ArgsRule(e.args, mean, k, ArgsMean(m, e, k))
  BY <1>3, <1>4
<1> QED BY <1>1, <1>2, <1>5 DEF ArgsRule

(* What they mean stays when more calls are made.                          *)
LEMMA ArgsMeanStays ==
  ASSUME NEW c, NEW m, NEW m2, Setting(c, m), Grows(m, m2), NEW e \in Expr, e.is = "funcall", NEW k \in Nat
  PROVE  \A j \in 0..Len(e.args) :
           ArgsMean(m, e, k)[j].ok => ArgsMean(m2, e, k)[j] = ArgsMean(m, e, k)[j]
<1>1. CASE m2.calls = m.calls
  BY <1>1 DEF Grows, ArgsMean
<1>2. CASE \E x : m2.calls = Append(m.calls, x)
  <2>1. PICK x : m2.calls = Append(m.calls, x)
    BY <1>2
  <2>2. PICK M, N : M = Meaning(m.held, m.calls) /\ N = Meaning(m.held, Append(m.calls, x))
    OBVIOUS
  <2>3. \A p \in Expr : Stays(p, M, N)
    BY <2>2, MeaningStays DEF Setting
  <2>4. Parts(e) \subseteq Expr
    BY Shape DEF HasShape
  <2>5. ArgsKept(e, M, N, k)
    BY <2>2, <2>3, <2>4, ArgsStay
  <2>6. ArgsMean(m, e, k) = ArgsFrom(e, M, k) /\ ArgsMean(m2, e, k) = ArgsFrom(e, N, k)
    BY <2>1, <2>2 DEF ArgsMean, ArgsFrom, Grows
  <2> QED BY <2>5, <2>6 DEF ArgsKept
<1> QED BY <1>1, <1>2 DEF Grows

(* A call begins with the links of the function.                           *)
LEMMA CallBegins ==
  ASSUME NEW c, NEW m, NEW e, NEW q, CallHere(c, m, e, q), Entered(m, q)
  PROVE  Runs(c, m, e, q)
<1>1. /\ Setting(c, m) /\ e \in Expr /\ e.is = "funcall" /\ q \in Spots /\ q.h \in Nat /\ q.b \in Nat /\ q.k \in Nat
      /\ Is(c, m.pc, I("isrg", "links", e.f)) /\ m.pc = q.b /\ Len(m.stack) = q.h + 0
      /\ Len(m.calls) = q.k /\ ArgSize(e, q.n, 0) = 0 /\ 0 \in 0..Len(e.args)
  BY DEF CallHere, Entered, LaidCall
<1>2. Has(m, Takes(I("isrg", "links", e.f))) /\ I("isrg", "links", e.f).op = "isrg"
  BY <1>1, HasNone, TakesWhat, InstrHas
<1>3. ASSUME NEW m2, StepRule(c, m, m2) PROVE Within(m2, e, q) /\ Framed(m, m2, q.h)
  <2>1. Gives(m, m2, 0, Value("links", 0))
    BY <1>1, <1>3, StepIsrg
  <2>2. PutAt(m, m2, q.h, Value("links", 0))
    BY <1>1, <2>1, PutsAt DEF Gives
  <2>3. PICK u : u = Len(m2.calls)
    OBVIOUS
  <2>4. u = q.k /\ m2.pc = q.b + 1 /\ u \in Nat
    BY <1>1, <2>1, <2>3 DEF Gives
  <2>5. PICK s : s = ArgSpot(e, q, 0, u)
    OBVIOUS
  <2>6. Slot(e, 0) = 0
    BY DEF CallHere, SlotsOk, Slot
  <2>7. s.b = q.b + 1 /\ s.h = q.h + 1 /\ s.k = u
    <3>1. /\ IsSpot(s, ArgNext(e, q.n, 0), q.b + 1 + ArgSize(e, q.n, 0), q.h + 1 + Slot(e, 0), u)
      BY <1>1, <2>4, <2>5, ArgSpotIs
    <3> QED BY <1>1, <2>6, <3>1 DEF IsSpot
  <2>8. Entered(m2, s)
    BY <2>2, <2>3, <2>4, <2>7 DEF Entered, PutAt
  <2>9. ArgsDone(m2, e, q, 0, u)
    <3>1. PICK z : z = <<>>
      OBVIOUS
    <3>2. IsSeq(z) /\ Len(z) = 0
      BY <3>1, SeqNone
    <3>3. PICK done : done = ArgsMean(m2, e, q.k)[0]
      OBVIOUS
    <3>4. done = Means("args", z, u)
      BY <1>1, <2>4, <3>1, <3>3, ArgsMeanIs
    <3>5. done.v = z
      BY <3>4 DEF Means
    <3>6. PICK slots : slots = SlotsUpTo(e.f)[0]
      OBVIOUS
    <3>7. Len(slots) = 0
      BY <2>6, <3>6 DEF Slot
    <3>8. m2.stack[q.h + 1].t = "links" /\ Len(m2.stack) >= q.h + 1 + Len(slots)
      BY <1>1, <2>2, <3>7 DEF PutAt, Value
    <3>9. 1..Len(slots) = {}
      BY <3>7
    <3> QED BY <3>2, <3>3, <3>4, <3>5, <3>6, <3>7, <3>8, <3>9 DEF ArgsDone
  <2>10. Within(m2, e, q)
    BY <1>1, <2>3, <2>4, <2>5, <2>8, <2>9, NextArg
  <2> QED BY <2>2, <2>10 DEF PutAt
<1> QED BY <1>1, <1>2, <1>3, AtInstr

-----------------------------------------------------------------------------
(* Sequences with the same elements are the same.                          *)
LEMMA SameSeq ==
  ASSUME NEW s, IsSeq(s), NEW n \in Nat, Len(s) = n, NEW g, g = [k \in 1..n |-> g[k]],
         \A k \in 1..n : s[k] = g[k]
  PROVE  s = g
<1>1. PICK S : s \in Seq(S)
  BY DEF IsSeq
<1>2. s = [k \in 1..n |-> s[k]]
  BY <1>1
<1>3. s = [k \in 1..n |-> g[k]]
  BY <1>2
<1> QED BY <1>3

(* What a call takes: the links, and the arguments.                        *)
Given(e, m, q, n) ==
  /\ Len(m.stack) = q.h + (1 + n) /\ m.stack[q.h + 1].t = "links"
  /\ \A i \in 1..n : m.stack[q.h + 1 + i].t = Slots(e.f)[i] \/ BoolToFloat(e)

(* The operands of the call are its arguments.                             *)
LEMMA HasGiven ==
  ASSUME NEW c, NEW m, NEW e, NEW q, CallHere(c, m, e, q), NEW n \in Nat, n = Len(Slots(e.f)),
         Given(e, m, q, n)
  PROVE  /\ Len(<<"links">> \o Slots(e.f)) = 1 + n
         /\ Has(m, <<"links">> \o Slots(e.f)) \/ BoolToFloat(e)
<1>1. PICK s, a : s = Slots(e.f) /\ a = <<"links">>
  OBVIOUS
<1>2. IsSeq(s) /\ IsSeq(a) /\ Len(a) = 1 /\ a[1] = "links" /\ Len(s) = n
  <2>1. IsSeq(s)
    <3>1. Len(FunType[e.f].params) \in 0..Len(FunType[e.f].params)
      BY DEF CallHere
    <3> QED BY <1>1, <3>1 DEF CallHere, SlotsOk, Slots
  <2>2. IsSeq(a) /\ Len(a) = 1 /\ a[1] = "links"
    BY <1>1, SeqOne
  <2> QED BY <1>1, <2>1, <2>2
<1>3. PICK t : t = a \o s
  OBVIOUS
<1>4. Joined(a, s, t)
  BY <1>2, <1>3, ConcatJoined
<1>5. /\ Len(t) = 1 + n /\ t[1] = "links" /\ \A i \in 1..n : t[1 + i] = s[i]
  <2>1. 1 \in 1..Len(a)
    BY <1>2
  <2> QED BY <1>2, <1>4, <2>1 DEF Joined
<1>6. q.h \in Nat
  BY DEF CallHere
<1>7. ASSUME ~BoolToFloat(e) PROVE Has(m, t)
  <2>1. ASSUME NEW k \in 1..Len(t) PROVE m.stack[Len(m.stack) - Len(t) + k].t = t[k]
    <3>1. Len(m.stack) - Len(t) + k = q.h + k
      BY <1>5, <1>6 DEF Given
    <3>2. CASE k = 1
      BY <1>5, <3>1, <3>2 DEF Given
    <3>3. CASE k # 1
      <4>1. PICK i : i = k - 1
        OBVIOUS
      <4>2. i \in 1..n /\ k = 1 + i /\ q.h + k = q.h + 1 + i
        <5>1. k \in 1..(1 + n)
          BY <1>5
        <5> QED BY <1>6, <3>3, <4>1, <5>1
      <4>3. m.stack[q.h + 1 + i].t = s[i]
        BY <1>1, <1>7, <4>2 DEF Given
      <4> QED BY <1>5, <3>1, <4>2, <4>3
    <3> QED BY <3>2, <3>3
  <2>2. Len(m.stack) >= Len(t)
    BY <1>5, <1>6 DEF Given
  <2> QED BY <2>1, <2>2 DEF Has
<1> QED BY <1>1, <1>3, <1>5, <1>7

(* The call is made: its answer is what it comes to.                       *)
Made(m, m2, f, n, v) == m2.calls = Append(m.calls, <<f, Lasts(m, n), v>>)

(* The answer is what the call means.                                      *)
LEMMA CallAnswers ==
  ASSUME NEW c, NEW m, NEW m2, NEW e, NEW q, CallHere(c, m, e, q), StepRule(c, m, m2),
         NEW n \in Nat, n = Len(Slots(e.f)), NEW v,
         Made(m, m2, e.f, n, v),
         ArgsDone(m, e, q, Len(e.args), Len(m.calls)), Given(e, m, q, n), Exact(e)
  PROVE  Meaning(m2.held, m2.calls)[e][q.k] = Means(TYC[e].t, v, Len(m2.calls))
<1>1. /\ Setting(c, m) /\ Grows(m, m2) /\ e \in Expr /\ e.is = "funcall" /\ q.k \in Nat /\ q.h \in Nat
      /\ Len(e.args) \in Nat /\ Len(e.args) = Len(FunType[e.f].params) /\ Len(e.args) \in 0..Len(e.args)
      /\ TYC[e].t = FunType[e.f].type
  BY DEF CallHere, StepRule
<1>2. PICK L, u : L = Len(e.args) /\ u = Len(m.calls)
  OBVIOUS
<1>3. PICK a : a = ArgsMean(m, e, q.k)[L]
  OBVIOUS
<1>4. /\ a = Means("args", a.v, u) /\ IsSeq(a.v) /\ Len(a.v) = n
      /\ \A i \in 1..n : a.v[i] = m.stack[q.h + 1 + i].v
  BY <1>1, <1>2, <1>3 DEF ArgsDone, Slots
<1>5. a.ok /\ a.used = u
  BY <1>4 DEF Means
<1>6. a.v = Lasts(m, n)
  <2>1. \A i \in 1..n : Len(m.stack) - n + i = q.h + 1 + i
    BY <1>1 DEF Given
  <2>2. \A i \in 1..n : a.v[i] = m.stack[Len(m.stack) - n + i].v
    BY <1>4, <2>1
  <2>3. PICK g : g = Lasts(m, n)
    OBVIOUS
  <2>4. g = [i \in 1..n |-> g[i]] /\ \A i \in 1..n : a.v[i] = g[i]
    BY <2>2, <2>3 DEF Lasts
  <2>5. a.v = g
    BY <1>4, <2>4, SameSeq
  <2> QED BY <2>3, <2>5
<1>7. ArgsMean(m2, e, q.k)[L] = a
  BY <1>1, <1>2, <1>3, <1>5, ArgsMeanStays
<1>8. PICK x : x = <<e.f, Lasts(m, n), v>>
  OBVIOUS
<1>9. x[1] = e.f /\ x[2] = a.v /\ x[3] = v
  BY <1>6, <1>8
<1>10. u \in Nat /\ Len(m2.calls) = u + 1 /\ m2.calls[u + 1] = x
  <2>1. IsSeq(m.calls) /\ m2.calls = Append(m.calls, x)
    BY <1>1, <1>8 DEF Setting, Made
  <2> QED BY <1>2, <2>1, AppendSeq
<1>11. Meaning(m2.held, m2.calls)[e][q.k] = MeaningOfCall(e.f, a, m2.calls)
  <2>1. PICK M : M = Meaning(m2.held, m2.calls)
    OBVIOUS
  <2>2. MeaningRule(e, M, m2.held, m2.calls, q.k)
    BY <1>1, <2>1, MeaningOf
  <2>3. M[e][q.k] = MeaningOfCall(e.f, ArgsMean(m2, e, q.k)[L], m2.calls)
    BY <1>1, <1>2, <2>1, <2>2 DEF MeaningRule, ArgsMean
  <2> QED BY <1>7, <2>1, <2>3
<1>12. ~(u >= Len(m2.calls))
  BY <1>10
<1> QED BY <1>1, <1>5, <1>9, <1>10, <1>11, <1>12 DEF MeaningOfCall

(* The call itself.                                                        *)
LEMMA CallIsMade ==
  ASSUME NEW c, NEW m, NEW e, NEW q, CallHere(c, m, e, q),
         NEW u \in Nat, ArgsDone(m, e, q, Len(e.args), u), Entered(m, ArgSpot(e, q, Len(e.args), u))
  PROVE  Runs(c, m, e, q)
<1>1. /\ Setting(c, m) /\ e \in Expr /\ e.is = "funcall" /\ q \in Spots /\ q.h \in Nat /\ q.b \in Nat /\ q.k \in Nat
      /\ Len(e.args) \in Nat /\ Len(e.args) = Len(FunType[e.f].params) /\ Len(e.args) \in 0..Len(e.args)
      /\ TYC[e].t = FunType[e.f].type /\ TYC[e].t \in Basic /\ TYC[e].d = 0
  BY DEF CallHere
<1>2. PICK n : n = Len(Slots(e.f))
  OBVIOUS
<1>3. PICK s : s = ArgSpot(e, q, Len(e.args), u)
  OBVIOUS
<1>4. PICK x : x = q.b + 1 + ArgSize(e, q.n, Len(e.args))
  OBVIOUS
<1>5. n \in Nat /\ s.b = x /\ s.h = q.h + 1 + n /\ s.k = u
  <2>1. IsSpot(s, ArgNext(e, q.n, Len(e.args)), x, q.h + 1 + Slot(e, Len(e.args)), u) /\ Slot(e, Len(e.args)) \in Nat
    BY <1>1, <1>3, <1>4, ArgSpotIs
  <2>2. n = Slot(e, Len(e.args))
    BY <1>1, <1>2 DEF Slot, Slots
  <2> QED BY <2>1, <2>2 DEF IsSpot
<1>6. m.pc = x /\ Len(m.stack) = q.h + (1 + n) /\ Len(m.calls) = u
  <2>1. Entered(m, s)
    BY <1>3
  <2>2. q.h + 1 + n = q.h + (1 + n)
    BY <1>1, <1>5
  <2> QED BY <1>5, <2>1, <2>2 DEF Entered
<1>7. Given(e, m, q, n)
  BY <1>1, <1>2, <1>6 DEF Given, ArgsDone, Slots
<1> DEFINE t == FunType[e.f].type
<1>8. Is(c, m.pc, I("jsr", t, e.f)) /\ q.b + Size(e, q.n) = m.pc + 1
  BY <1>4, <1>6 DEF CallHere, LaidCall
<1>9. t # "void" /\ t \in Basic /\ TYC[e].t = t
  BY <1>1 DEF Basic, Numeric
<1> HIDE DEF t
<1>10. Len(<<"links">> \o Slots(e.f)) = 1 + n /\ (Has(m, <<"links">> \o Slots(e.f)) \/ BoolToFloat(e))
  BY <1>2, <1>5, <1>7, HasGiven
<1>11. Has(m, Takes(I("jsr", t, e.f))) \/ BoolToFloat(e)
  BY <1>10, TakesWhat
<1>12. I("jsr", t, e.f).op = "jsr" /\ I("jsr", t, e.f).arg \in Funs
  <2>1. I("jsr", t, e.f).op = "jsr" /\ I("jsr", t, e.f).arg = e.f
    BY InstrHas
  <2> QED BY <2>1 DEF CallHere
<1>13. ASSUME NEW m2, StepRule(c, m, m2) PROVE Within(m2, e, q) /\ Framed(m, m2, q.h)
  <2>0. PICK w : w = 1 + n
    OBVIOUS
  <2>1. Calls(m, m2, w, t, e.f)
    BY <1>1, <1>8, <1>9, <1>10, <1>13, <2>0, StepJsr
  <2>2. w - 1 = n /\ w \in Nat /\ Len(m.stack) = q.h + w
    BY <1>5, <1>6, <2>0
  <2>3. PICK v \in Held[t] : /\ m2.calls = Append(m.calls, <<e.f, Lasts(m, n), v>>)
                             /\ Puts(m, m2, w, Value(t, v))
    <3>1. \E v \in Held[t] : /\ m2.calls = Append(m.calls, <<e.f, Lasts(m, w - 1), v>>)
                              /\ Puts(m, m2, w, Value(t, v))
      BY <2>1, Zenon DEF Calls
    <3> QED BY <2>2, <3>1, Zenon
  <2>4. m2.pc = q.b + Size(e, q.n)
    BY <1>8, <2>1 DEF Calls
  <2>5. PutAt(m, m2, q.h, Value(t, v))
    BY <1>1, <2>2, <2>3, PutsAt
  <2>6. t = "bool" => v \in {0, 1}
    BY <2>3, HeldAssumption
  <2>7. Exact(e) => Meaning(m2.held, m2.calls)[e][q.k] = Means(TYC[e].t, v, Len(m2.calls))
    <3>1. ArgsDone(m, e, q, Len(e.args), Len(m.calls))
      BY <1>6
    <3>2. ASSUME Exact(e) PROVE Meaning(m2.held, m2.calls)[e][q.k] = Means(TYC[e].t, v, Len(m2.calls))
      <4>1. Made(m, m2, e.f, n, v)
        BY <2>3, Zenon DEF Made
      <4>2. CallHere(c, m, e, q) /\ StepRule(c, m, m2) /\ n \in Nat /\ n = Len(Slots(e.f))
        BY <1>2, <1>5, <1>13
      <4>3. Given(e, m, q, n) /\ Exact(e)
        BY <1>7, <3>2
      <4>4. ArgsDone(m, e, q, Len(e.args), Len(m.calls))
        BY <3>1
      <4> HIDE <1>2, <1>5
      <4> QED BY <3>1, <4>1, <4>2, <4>3, CallAnswers
    <3> QED BY <3>2
  <2>8. Result(m2, e, q.k, Value(t, v), Len(m2.calls))
    BY <1>9, <2>6, <2>7, MakesResult
  <2>9. Arrived(m2, e, q)
    BY <1>1, <2>4, <2>5, <2>8 DEF Arrived, Found, PutAt
  <2> QED BY <2>5, <2>9 DEF Within, PutAt
<1> QED BY <1>8, <1>11, <1>12, <1>13, AtInstr

-----------------------------------------------------------------------------
(* An argument without a meaning leaves the call without one.              *)
LEMMA ArgsStuck ==
  ASSUME NEW m, NEW e \in Expr, e.is = "funcall", NEW k, NEW j \in 0..Len(e.args), ~ArgsMean(m, e, k)[j].ok
  PROVE  ArgsMean(m, e, k)[Len(e.args)] = ArgsMean(m, e, k)[j]
<1>1. PICK up : up = ArgsMean(m, e, k)
  OBVIOUS
<1>2. Len(e.args) \in Nat
  BY Shape DEF HasShape
<1>3. \A i \in 1..Len(e.args) : ~up[i - 1].ok => up[i] = up[i - 1]
  BY <1>1, ArgsMeanIs DEF MeaningOfArg
<1>4. PICK L : L = Len(e.args)
  OBVIOUS
<1> DEFINE B == {i \in 0..L : i >= j => up[i] = up[j]}
<1>5. 0 \in B
  BY <1>2, <1>4
<1>6. ASSUME NEW i \in 1..L, i - 1 \in B PROVE i \in B
  <2>1. CASE i > j
    <3>1. i - 1 >= j /\ i \in 0..L
      BY <1>2, <1>4, <2>1
    <3>2. up[i - 1] = up[j]
      BY <1>6, <3>1
    <3> QED BY <1>1, <1>3, <1>4, <3>1, <3>2
  <2>2. CASE ~(i > j)
    BY <1>2, <1>4, <2>2
  <2> QED BY <2>1, <2>2
<1> HIDE DEF B
<1>7. 0..L \subseteq B
  BY <1>2, <1>4, <1>5, <1>6, RoundInduction
<1>8. L \in B
  BY <1>2, <1>4, <1>7
<1> QED BY <1>1, <1>2, <1>4, <1>8 DEF B

(* The arguments there stay as they are while the next one is computed.    *)
LEMMA ArgsDoneStays ==
  ASSUME NEW c, NEW m, NEW m2, NEW e, NEW q, CallHere(c, m, e, q), StepRule(c, m, m2),
         NEW j \in 0..Len(e.args), NEW u \in Nat, ArgsDone(m, e, q, j, u), Framed(m, m2, q.h + 1 + Slot(e, j))
  PROVE  ArgsDone(m2, e, q, j, u)
<1>1. Setting(c, m) /\ Grows(m, m2) /\ e \in Expr /\ e.is = "funcall" /\ q.k \in Nat /\ q.h \in Nat
  BY DEF CallHere, StepRule
<1>2. PICK slots, n : slots = SlotsUpTo(e.f)[j] /\ n = Len(slots)
  OBVIOUS
<1>3. n = Slot(e, j) /\ n \in Nat
  BY <1>2 DEF Slot, CallHere, SlotsOk
<1>4. PICK top : top = q.h + 1
  OBVIOUS
<1>5. /\ Len(m2.stack) >= top + n /\ m2.stack[top] = m.stack[top]
      /\ \A i \in 1..n : m2.stack[top + i] = m.stack[top + i]
  <2>1. top \in 1..(top + n) /\ \A i \in 1..n : top + i \in 1..(top + n)
    BY <1>1, <1>3, <1>4
  <2>2. Framed(m, m2, top + n)
    BY <1>3, <1>4
  <2> QED BY <2>1, <2>2 DEF Framed
<1>6. PICK a, b : a = ArgsMean(m, e, q.k)[j] /\ b = ArgsMean(m2, e, q.k)[j]
  OBVIOUS
<1>7. a.ok => b = a
  BY <1>1, <1>6, ArgsMeanStays
<1>8. /\ m.stack[top].t = "links" /\ \A i \in 1..n : m.stack[top + i].t = slots[i] \/ BoolToFloat(e)
      /\ Exact(e) => /\ a = Means("args", a.v, u) /\ IsSeq(a.v) /\ Len(a.v) = n
                     /\ \A i \in 1..n : a.v[i] = m.stack[top + i].v
  BY <1>2, <1>4, <1>6 DEF ArgsDone
<1>9. Exact(e) => b = a
  BY <1>7, <1>8 DEF Means
<1> QED BY <1>2, <1>4, <1>5, <1>6, <1>8, <1>9 DEF ArgsDone

(* What the parameter of the next argument adds.                           *)
LEMMA NextSlot ==
  ASSUME NEW c, NEW m, NEW e, NEW q, CallHere(c, m, e, q), NEW j \in 0..Len(e.args), j < Len(e.args),
         NEW p, p = e.args[j + 1], NEW S, S = SlotsUpTo(e.f), NEW n, n = Slot(e, j)
  PROVE  /\ n \in Nat /\ n = Len(S[j]) /\ TYC[p].d \in {0, 1} /\ \A i \in 1..n : S[j + 1][i] = S[j][i]
         /\ TYC[p].d = 0 => Slot(e, j + 1) = n + 1 /\ S[j + 1][n + 1] = TYC[p].t
         /\ TYC[p].d = 1 => /\ Slot(e, j + 1) = n + 2
                            /\ S[j + 1][n + 1] = "ref" /\ S[j + 1][n + 2] = "int"
<1>1. PICK k : k = j + 1
  OBVIOUS
<1>2. k \in 1..Len(e.args) /\ k - 1 = j /\ Len(e.args) = Len(FunType[e.f].params)
  BY <1>1 DEF CallHere
<1>3. PICK P : P = FunType[e.f].params
  OBVIOUS
<1>4. TYC[p].t = P[k].type /\ TYC[p].d = P[k].dim
  BY <1>1, <1>2, <1>3 DEF CallHere
<1>5. Slot(e, k) = Len(S[k]) /\ n = Len(S[j]) /\ n \in Nat
  BY <1>2 DEF Slot, CallHere, SlotsOk
<1>6. /\ P[k].dim \in {0, 1} /\ \A i \in 1..Len(S[k - 1]) : S[k][i] = S[k - 1][i]
      /\ P[k].dim = 0 => Len(S[k]) = Len(S[k - 1]) + 1 /\ S[k][Len(S[k - 1]) + 1] = P[k].type
      /\ P[k].dim = 1 => /\ Len(S[k]) = Len(S[k - 1]) + 2
                         /\ S[k][Len(S[k - 1]) + 1] = "ref" /\ S[k][Len(S[k - 1]) + 2] = "int"
  <2>1. SlotsOk(e.f) /\ k \in 1..Len(P)
    BY <1>2, <1>3 DEF CallHere
  <2> QED BY <1>3, <2>1, Zenon DEF SlotsOk
<1> QED BY <1>1, <1>2, <1>4, <1>5, <1>6

(* More arguments are there: those of before, and what the next one left.  *)
Fitting(m, e, q, j, n, x) ==
  \A i \in 1..x : m.stack[q.h + 1 + n + i].t = SlotsUpTo(e.f)[j + 1][n + i] \/ BoolToFloat(e)
Adding(m, e, q, j, n, x, s, w) ==
  Exact(e) => /\ ArgsMean(m, e, q.k)[j + 1] = Means("args", ArgsMean(m, e, q.k)[j].v \o s, w)
              /\ IsSeq(s) /\ Len(s) = x /\ \A i \in 1..x : s[i] = m.stack[q.h + 1 + n + i].v

(* With it one more argument is there.                                     *)
LEMMA MoreDone ==
  ASSUME NEW c, NEW m0, NEW m, NEW e, NEW q, CallHere(c, m0, e, q), NEW j \in 0..Len(e.args), j < Len(e.args),
         NEW u \in Nat, ArgsDone(m, e, q, j, u), NEW n, n = Slot(e, j), NEW x \in Nat, Slot(e, j + 1) = n + x,
         Len(m.stack) = q.h + 1 + n + x,
         Fitting(m, e, q, j, n, x), NEW s, NEW w, Adding(m, e, q, j, n, x, s, w)
  PROVE  ArgsDone(m, e, q, j + 1, w)
<1>0. PICK a : a = ArgsMean(m, e, q.k)[j]
  OBVIOUS
<1>a. Exact(e) => /\ ArgsMean(m, e, q.k)[j + 1] = Means("args", a.v \o s, w)
                  /\ IsSeq(s) /\ Len(s) = x /\ \A i \in 1..x : s[i] = m.stack[q.h + 1 + n + i].v
  BY <1>0 DEF Adding
<1>1. PICK S, top : S = SlotsUpTo(e.f) /\ top = q.h + 1
  OBVIOUS
<1>2. /\ n \in Nat /\ n = Len(S[j]) /\ \A i \in 1..n : S[j + 1][i] = S[j][i]
  <2>1. PICK p : p = e.args[j + 1]
    OBVIOUS
  <2>2. n \in Nat /\ n = Len(S[j]) /\ \A i \in 1..n : S[j + 1][i] = S[j][i]
    BY <1>1, <2>1, NextSlot
  <2> QED BY <2>2
<1>3. q.h \in Nat /\ top \in Nat
  BY <1>1 DEF CallHere
<1>4. /\ m.stack[top].t = "links" /\ \A i \in 1..n : m.stack[top + i].t = S[j][i] \/ BoolToFloat(e)
      /\ Exact(e) => /\ a = Means("args", a.v, u) /\ IsSeq(a.v) /\ Len(a.v) = n
                     /\ \A i \in 1..n : a.v[i] = m.stack[top + i].v
  BY <1>0, <1>1, <1>2 DEF ArgsDone
<1>5. Len(S[j + 1]) = n + x
  BY <1>1 DEF Slot
<1>6. Len(m.stack) >= top + (n + x)
  BY <1>1, <1>2, <1>3
<1>7. ASSUME NEW i \in 1..(n + x), ~(i \in 1..n)
      PROVE  i - n \in 1..x /\ n + (i - n) = i /\ q.h + 1 + n + (i - n) = top + i
  BY <1>1, <1>2, <1>3, <1>7
<1>8. ASSUME NEW i \in 1..(n + x) PROVE m.stack[top + i].t = S[j + 1][i] \/ BoolToFloat(e)
  <2>1. CASE i \in 1..n
    BY <1>2, <1>4, <2>1
  <2>2. CASE ~(i \in 1..n)
    <3>1. PICK l : l = i - n
      OBVIOUS
    <3>2. l \in 1..x /\ n + l = i /\ q.h + 1 + n + l = top + i
      BY <1>7, <2>2, <3>1
    <3>3. m.stack[q.h + 1 + n + l].t = S[j + 1][n + l] \/ BoolToFloat(e)
      BY <1>1, <3>2 DEF Fitting
    <3> QED BY <3>2, <3>3
  <2> QED BY <2>1, <2>2
<1>9. PICK b : b = ArgsMean(m, e, q.k)[j + 1]
  OBVIOUS
<1>10. ASSUME Exact(e)
       PROVE  /\ b = Means("args", b.v, w) /\ IsSeq(b.v) /\ Len(b.v) = n + x
              /\ \A i \in 1..(n + x) : b.v[i] = m.stack[top + i].v
  <2>1. PICK y, z : y = a.v /\ z = y \o s
    OBVIOUS
  <2>2. IsSeq(y) /\ IsSeq(s) /\ Len(y) = n /\ Len(s) = x
    BY <1>4, <1>10, <1>a, <2>1
  <2>3. Joined(y, s, z)
    BY <2>1, <2>2, ConcatJoined
  <2>4. b = Means("args", z, w)
    BY <1>9, <1>10, <1>a, <2>1
  <2>5. b.v = z
    BY <2>4 DEF Means
  <2>6. ASSUME NEW i \in 1..(n + x) PROVE z[i] = m.stack[top + i].v
    <3>1. CASE i \in 1..n
      BY <1>4, <1>10, <2>1, <2>2, <2>3, <3>1 DEF Joined
    <3>2. CASE ~(i \in 1..n)
      <4>1. PICK l : l = i - n
        OBVIOUS
      <4>2. l \in 1..x /\ n + l = i /\ q.h + 1 + n + l = top + i
        BY <1>7, <3>2, <4>1
      <4>3. z[n + l] = s[l]
        BY <2>2, <2>3, <4>2 DEF Joined
      <4>4. s[l] = m.stack[q.h + 1 + n + l].v
        BY <1>10, <1>a, <4>2
      <4> QED BY <4>2, <4>3, <4>4
    <3> QED BY <3>1, <3>2
  <2>7. IsSeq(z) /\ Len(z) = n + x
    BY <2>2, <2>3 DEF Joined
  <2> QED BY <2>4, <2>5, <2>6, <2>7
<1> QED BY <1>1, <1>4, <1>5, <1>6, <1>8, <1>9, <1>10 DEF ArgsDone

-----------------------------------------------------------------------------
(* Appending is concatenation with one element.                            *)
LEMMA AppendOne ==
  ASSUME NEW s, IsSeq(s), NEW x
  PROVE  Append(s, x) = s \o <<x>>
<1>1. PICK t, a, b : t = <<x>> /\ a = Append(s, x) /\ b = s \o t
  OBVIOUS
<1>2. IsSeq(t) /\ Len(t) = 1 /\ t[1] = x
  BY <1>1, SeqOne
<1>3. Joined(s, t, b)
  BY <1>1, <1>2, ConcatJoined
<1>4. IsSeq(a) /\ Len(s) \in Nat /\ Len(a) = Len(s) + 1 /\ a[Len(s) + 1] = x
      /\ \A k \in 1..Len(s) : a[k] = s[k]
  BY <1>1, AppendSeq
<1>5. ASSUME NEW k \in 1..(Len(s) + 1) PROVE a[k] = b[k]
  <2>1. CASE k \in 1..Len(s)
    BY <1>3, <1>4, <2>1 DEF Joined
  <2>2. CASE ~(k \in 1..Len(s))
    <3>1. k = Len(s) + 1 /\ 1 \in 1..Len(t)
      BY <1>2, <1>4, <2>2
    <3> QED BY <1>2, <1>3, <1>4, <3>1 DEF Joined
  <2> QED BY <2>1, <2>2
<1>6. Len(b) = Len(s) + 1 /\ IsSeq(b)
  BY <1>2, <1>3 DEF Joined
<1>7. b = [k \in 1..(Len(s) + 1) |-> b[k]]
  <2>1. PICK S : b \in Seq(S)
    BY <1>6 DEF IsSeq
  <2> QED BY <1>6, <2>1
<1>8. a = b
  <2>1. PICK n : n = Len(s) + 1
    OBVIOUS
  <2>2. n \in Nat /\ Len(a) = n
    BY <1>4, <2>1
  <2> QED BY <1>4, <1>5, <1>7, <2>1, <2>2, SameSeq
<1> QED BY <1>1, <1>8

(* The argument that is there: what its code leaves on the stack.          *)
Standing(e, q, j, p, h) == j < Len(e.args) /\ p = e.args[j + 1] /\ h = q.h + 1 + Slot(e, j)
Atop(m, h, w) == Len(m.stack) = h + 1 /\ w = m.stack[h + 1]
Whole(p) == TYC[p].d # 0
AtopTwo(m, h) == Len(m.stack) = h + 2 /\ m.stack[h + 1] = Value("ref", 0) /\ m.stack[h + 2] = Value("int", 1)

(* A scalar argument.                                                      *)
LEMMA ScalarDone ==
  ASSUME NEW c, NEW m0, NEW m, NEW e, NEW q, CallHere(c, m0, e, q), NEW j \in 0..Len(e.args),
         NEW u \in Nat, ArgsDone(m, e, q, j, u), NEW p, TYC[p].d = 0, NEW h, Standing(e, q, j, p, h),
         NEW w, Atop(m, h, w), NEW v, Result(m, p, u, w, v)
  PROVE  ArgsDone(m, e, q, j + 1, v) /\ Slot(e, j + 1) = Slot(e, j) + 1
<1>0. j < Len(e.args) /\ p = e.args[j + 1] /\ h = q.h + 1 + Slot(e, j)
  BY DEF Standing
<1>a. Len(m.stack) = h + 1 /\ w = m.stack[h + 1]
  BY DEF Atop
<1>1. j + 1 \in 1..Len(e.args) /\ j + 1 - 1 = j /\ e \in Expr /\ e.is = "funcall"
  BY <1>0 DEF CallHere
<1>2. p \in Expr /\ (BoolToFloat(p) => BoolToFloat(e)) /\ (Exact(e) => Exact(p))
  BY <1>0, <1>1 DEF CallHere
<1>3. PICK n : n = Slot(e, j)
  OBVIOUS
<1>4. n \in Nat /\ Slot(e, j + 1) = n + 1 /\ SlotsUpTo(e.f)[j + 1][n + 1] = TYC[p].t
  <2>1. PICK S : S = SlotsUpTo(e.f)
    OBVIOUS
  <2>2. n \in Nat /\ Slot(e, j + 1) = n + 1 /\ S[j + 1][n + 1] = TYC[p].t
    BY <1>0, <1>3, <2>1, NextSlot
  <2> QED BY <2>1, <2>2
<1>5. PICK s, a : s = <<w.v>> /\ a = ArgsMean(m, e, q.k)[j]
  OBVIOUS
<1>6. IsSeq(s) /\ Len(s) = 1 /\ s[1] = w.v
  BY <1>5, SeqOne
<1>7. ASSUME Exact(e) PROVE ArgsMean(m, e, q.k)[j + 1] = Means("args", a.v \o s, v)
  <2>1. a = Means("args", a.v, u) /\ IsSeq(a.v)
    BY <1>5, <1>7 DEF ArgsDone
  <2>2. a.ok /\ a.used = u
    BY <2>1 DEF Means
  <2>3. PICK M : M = Meaning(m.held, m.calls)
    OBVIOUS
  <2>4. ArgsMean(m, e, q.k)[j + 1] = MeaningOfArg(p, M[p], a)
    <3>1. PICK k : k = j + 1
      OBVIOUS
    <3>2. k \in 1..Len(e.args) /\ k - 1 = j /\ p = e.args[k]
      BY <1>0, <1>1, <3>1
    <3>3. ArgsMean(m, e, q.k)[k] = MeaningOfArg(e.args[k], M[e.args[k]], ArgsMean(m, e, q.k)[k - 1])
      BY <1>1, <2>3, <3>2, ArgsMeanIs, SMTT(20)
    <3> QED BY <1>5, <3>1, <3>2, <3>3
  <2>5. M[p][u] = Means(w.t, w.v, v)
    BY <1>2, <1>7, <2>3 DEF Result, Worth
  <2>6. PICK g : g = M[p][u]
    OBVIOUS
  <2>7. g.ok /\ g.v = w.v /\ g.used = v
    BY <2>5, <2>6 DEF Means
  <2>8. ~(p.is = "varref" /\ VarType[p.x].dim > 0)
    BY <1>2, TdOf DEF TdRule, HasType
  <2>9. MeaningOfArg(p, M[p], a) = Means("args", Append(a.v, w.v), v)
    BY <2>2, <2>6, <2>7, <2>8 DEF MeaningOfArg
  <2>10. Append(a.v, w.v) = a.v \o s
    BY <1>5, <2>1, AppendOne
  <2> QED BY <2>4, <2>9, <2>10
<1>8. w.t = TYC[p].t \/ BoolToFloat(e)
  BY <1>2 DEF Result
<1>9. q.h \in Nat
  BY DEF CallHere
<1>10. ArgsDone(m, e, q, j + 1, v)
  <2> DEFINE x == 1
  <2>1. Len(m.stack) = q.h + 1 + n + x /\ q.h + 1 + n + 1 = h + 1
    BY <1>0, <1>a, <1>3, <1>4, <1>9
  <2>2. \A i \in 1..x : i = 1
    OBVIOUS
  <2>3. Fitting(m, e, q, j, n, x)
    BY <1>4, <1>8, <1>a, <2>1, <2>2 DEF Fitting
  <2>4. \A i \in 1..x : s[i] = m.stack[q.h + 1 + n + i].v
    BY <1>6, <1>a, <2>1, <2>2
  <2>5. x \in Nat /\ Slot(e, j + 1) = n + x /\ Len(s) = x
    BY <1>4, <1>6
  <2> HIDE DEF x
  <2>6. Adding(m, e, q, j, n, x, s, v)
    BY <1>5, <1>6, <1>7, <2>4, <2>5 DEF Adding
  <2> QED BY <1>0, <1>3, <2>1, <2>3, <2>5, <2>6, MoreDone
<1> QED BY <1>3, <1>4, <1>10

(* An array argument.                                                      *)
LEMMA ArrayDone ==
  ASSUME NEW c, NEW m0, NEW m, NEW e, NEW q, CallHere(c, m0, e, q), NEW j \in 0..Len(e.args),
         NEW u \in Nat, ArgsDone(m, e, q, j, u), NEW p, Whole(p), NEW h, Standing(e, q, j, p, h),
         AtopTwo(m, h)
  PROVE  ArgsDone(m, e, q, j + 1, u) /\ Slot(e, j + 1) = Slot(e, j) + 2
<1>0. j < Len(e.args) /\ p = e.args[j + 1] /\ h = q.h + 1 + Slot(e, j)
  BY DEF Standing
<1>a. Len(m.stack) = h + 2 /\ m.stack[h + 1] = Value("ref", 0) /\ m.stack[h + 2] = Value("int", 1)
  BY DEF AtopTwo
<1>b. TYC[p].d # 0
  BY DEF Whole
<1>1. j + 1 \in 1..Len(e.args) /\ j + 1 - 1 = j /\ e \in Expr /\ e.is = "funcall"
  BY <1>0 DEF CallHere
<1>2. p \in Expr
  BY <1>0, <1>1 DEF CallHere
<1>3. PICK n : n = Slot(e, j)
  OBVIOUS
<1>4. /\ n \in Nat /\ Slot(e, j + 1) = n + 2 /\ TYC[p].d = 1
      /\ SlotsUpTo(e.f)[j + 1][n + 1] = "ref" /\ SlotsUpTo(e.f)[j + 1][n + 2] = "int"
  <2>1. PICK S : S = SlotsUpTo(e.f)
    OBVIOUS
  <2>2. /\ n \in Nat /\ TYC[p].d = 1 /\ Slot(e, j + 1) = n + 2
        /\ S[j + 1][n + 1] = "ref" /\ S[j + 1][n + 2] = "int"
    BY <1>0, <1>b, <1>3, <2>1, NextSlot
  <2> QED BY <2>1, <2>2
<1>5. PICK s, a : s = <<0, 1>> /\ a = ArgsMean(m, e, q.k)[j]
  OBVIOUS
<1>6. IsSeq(s) /\ Len(s) = 2 /\ s[1] = 0 /\ s[2] = 1
  BY <1>5, SeqTwo
<1>7. ASSUME Exact(e) PROVE ArgsMean(m, e, q.k)[j + 1] = Means("args", a.v \o s, u)
  <2>1. a = Means("args", a.v, u) /\ IsSeq(a.v)
    BY <1>5, <1>7 DEF ArgsDone
  <2>2. a.ok /\ a.used = u
    BY <2>1 DEF Means
  <2>3. PICK M : M = Meaning(m.held, m.calls)
    OBVIOUS
  <2>4. ArgsMean(m, e, q.k)[j + 1] = MeaningOfArg(p, M[p], a)
    <3>1. PICK k : k = j + 1
      OBVIOUS
    <3>2. k \in 1..Len(e.args) /\ k - 1 = j /\ p = e.args[k]
      BY <1>0, <1>1, <3>1
    <3>3. ArgsMean(m, e, q.k)[k] = MeaningOfArg(e.args[k], M[e.args[k]], ArgsMean(m, e, q.k)[k - 1])
      BY <1>1, <2>3, <3>2, ArgsMeanIs
    <3> QED BY <1>5, <3>1, <3>2, <3>3
  <2>5. p.is = "varref" /\ VarType[p.x].dim > 0
    <3>1. p.is = "varref"
      BY <1>2, <1>b, ArraysAreVars
    <3>2. VarType[p.x].dim = 1
      BY <1>2, <1>4, <3>1, TdOf DEF TdRule, HasType
    <3> QED BY <3>1, <3>2
  <2>6. MeaningOfArg(p, M[p], a) = Means("args", a.v \o s, u)
    BY <1>5, <2>2, <2>5, Zenon DEF MeaningOfArg
  <2> QED BY <2>4, <2>6
<1>8. q.h \in Nat
  BY DEF CallHere
<1>9. ArgsDone(m, e, q, j + 1, u)
  <2> DEFINE x == 2
  <2>1. Len(m.stack) = q.h + 1 + n + x /\ q.h + 1 + n + 1 = h + 1 /\ q.h + 1 + n + 2 = h + 2
    BY <1>0, <1>a, <1>3, <1>4, <1>8
  <2>2. \A i \in 1..x : i = 1 \/ i = 2
    OBVIOUS
  <2>3. Fitting(m, e, q, j, n, x)
    BY <1>4, <1>a, <2>1, <2>2 DEF Value, Fitting
  <2>4. \A i \in 1..x : s[i] = m.stack[q.h + 1 + n + i].v
    BY <1>6, <1>a, <2>1, <2>2 DEF Value
  <2>5. x \in Nat /\ Slot(e, j + 1) = n + x /\ Len(s) = x
    BY <1>4, <1>6
  <2> HIDE DEF x
  <2>6. Adding(m, e, q, j, n, x, s, u)
    BY <1>5, <1>6, <1>7, <2>4, <2>5 DEF Adding
  <2> QED BY <1>0, <1>3, <2>1, <2>3, <2>5, <2>6, MoreDone
<1> QED BY <1>3, <1>4, <1>9

-----------------------------------------------------------------------------
(* The next argument is there: the one after it begins, or the call.       *)
LEMMA ArgumentDone ==
  ASSUME NEW c, NEW m0, NEW m, NEW e, NEW q, CallHere(c, m0, e, q), NEW j \in 0..Len(e.args), j < Len(e.args),
         NEW u \in Nat, ArgsDone(m, e, q, j, u), NEW p, p = e.args[j + 1], NEW s, s = ArgSpot(e, q, j, u),
         Arrived(m, p, s), Len(m.calls) \in Nat
  PROVE  Within(m, e, q)
<1>1. /\ e \in Expr /\ e.is = "funcall" /\ q.h \in Nat /\ q.b \in Nat /\ q.n \in Nat
      /\ LaidCall(c, q.b, e, q.n) /\ Len(e.args) \in Nat
  BY DEF CallHere
<1>2. PICK k, v : k = j + 1 /\ v = Len(m.calls)
  OBVIOUS
<1>3. k \in 0..Len(e.args) /\ k \in 1..Len(e.args) /\ k - 1 = j /\ v \in Nat
  BY <1>1, <1>2
<1>4. PICK n, a, b, h : n = ArgNext(e, q.n, j) /\ a = ArgSize(e, q.n, j) /\ b = q.b + 1 + a /\ h = q.h + 1 + Slot(e, j)
  OBVIOUS
<1>5. IsSpot(s, n, b, h, u) /\ Slot(e, j) \in Nat
  BY <1>4, ArgSpotIs
<1>6. s.n = n /\ s.b = b /\ s.h = h /\ s.k = u /\ h \in Nat
  BY <1>1, <1>4, <1>5 DEF IsSpot
<1>7. ArgSize(e, q.n, k) = a + Size(p, n) /\ Size(p, n) \in Nat /\ a \in Nat
  <2>1. ArgSize(e, q.n, k) = ArgSize(e, q.n, k - 1) + Size(e.args[k], ArgNext(e, q.n, k - 1)) /\ n \in Nat /\ a \in Nat
    BY <1>1, <1>3, <1>4 DEF LaidCall
  <2>2. \A i \in Nat : Size(e.args[k], i) \in Nat
    BY <1>3 DEF CallHere
  <2> QED BY <1>2, <1>3, <1>4, <2>1, <2>2
<1>8. m.pc = q.b + 1 + ArgSize(e, q.n, k)
  <2>1. m.pc = s.b + Size(p, s.n)
    BY DEF Arrived
  <2> QED BY <1>1, <1>4, <1>6, <1>7, <2>1
<1>9. PICK x \in Nat : Len(m.stack) = h + x /\ ArgsDone(m, e, q, k, v) /\ Slot(e, k) = Slot(e, j) + x
  <2>1. CASE TYC[p].d = 0
    <3>1. Found(m, p, s)
      BY <2>1 DEF Arrived
    <3>2. PICK w : w = m.stack[h + 1]
      OBVIOUS
    <3>3. Len(m.stack) = h + 1 /\ Result(m, p, u, w, v)
      BY <1>2, <1>6, <3>1, <3>2 DEF Found
    <3>4. ArgsDone(m, e, q, j + 1, v) /\ Slot(e, j + 1) = Slot(e, j) + 1
      <4>1. Standing(e, q, j, p, h) /\ Atop(m, h, w)
        BY <1>4, <3>2, <3>3 DEF Standing, Atop
      <4> QED BY <2>1, <3>3, <4>1, ScalarDone
    <3> QED BY <1>2, <3>3, <3>4
  <2>2. CASE TYC[p].d # 0
    <3>1. Passed(m, s)
      BY <2>2 DEF Arrived
    <3>2. Len(m.stack) = h + 2 /\ v = u /\ m.stack[h + 1] = Value("ref", 0) /\ m.stack[h + 2] = Value("int", 1)
      BY <1>2, <1>6, <3>1 DEF Passed
    <3>3. ArgsDone(m, e, q, j + 1, u) /\ Slot(e, j + 1) = Slot(e, j) + 2
      <4>1. Standing(e, q, j, p, h) /\ AtopTwo(m, h) /\ Whole(p)
        BY <1>4, <2>2, <3>2 DEF Standing, AtopTwo, Whole
      <4> QED BY <4>1, ArrayDone
    <3> QED BY <1>2, <3>2, <3>3
  <2> QED BY <2>1, <2>2
<1>10. Entered(m, ArgSpot(e, q, k, v))
  <2>1. PICK r : r = ArgSpot(e, q, k, v)
    OBVIOUS
  <2>2. IsSpot(r, ArgNext(e, q.n, k), q.b + 1 + ArgSize(e, q.n, k), q.h + 1 + Slot(e, k), v)
    BY <1>3, <2>1, ArgSpotIs
  <2>3. Len(m.stack) = q.h + 1 + Slot(e, k)
    BY <1>1, <1>4, <1>5, <1>9
  <2> QED BY <1>2, <1>8, <2>1, <2>2, <2>3 DEF Entered, IsSpot
<1> QED BY <1>2, <1>3, <1>9, <1>10, NextArg

(* A call whose argument has no value has none.                            *)
LEMMA ArgumentVoid ==
  ASSUME NEW c, NEW m, NEW e, NEW q, CallHere(c, m, e, q), NEW j \in 0..Len(e.args), j < Len(e.args),
         NEW u \in Nat, ArgsDone(m, e, q, j, u), NEW p, p = e.args[j + 1], NEW s, s.k = u,
         Exact(e), Void(m, p, s)
  PROVE  Void(m, e, q)
<1>1. /\ e \in Expr /\ e.is = "funcall" /\ q.k \in Nat /\ Len(e.args) \in Nat
      /\ MeaningRule(e, Meaning(m.held, m.calls), m.held, m.calls, q.k)
  BY DEF CallHere
<1>2. PICK k : k = j + 1
  OBVIOUS
<1>3. k \in 0..Len(e.args) /\ k \in 1..Len(e.args) /\ k - 1 = j /\ p = e.args[k]
  BY <1>1, <1>2
<1>4. PICK M, up : M = Meaning(m.held, m.calls) /\ up = ArgsMean(m, e, q.k)
  OBVIOUS
<1>5. up[j].ok /\ up[j].used = u
  <2>1. up[j] = Means("args", up[j].v, u)
    BY <1>4 DEF ArgsDone
  <2>2. PICK v : v = up[j].v
    OBVIOUS
  <2>3. up[j] = Means("args", v, u)
    BY <2>1, <2>2
  <2> QED BY <2>3 DEF Means
<1>6. up[k] = MeaningOfArg(p, M[p], up[j])
  BY <1>1, <1>3, <1>4, ArgsMeanIs
<1>7. ~M[p][u].ok /\ M[p][u].used = Len(m.calls)
  BY <1>4 DEF Void
<1>8. p.is # "varref"
  <2>1. p \in Expr
    BY <1>3 DEF CallHere
  <2>2. MeaningRule(p, M, m.held, m.calls, u)
    BY <1>4, <2>1, MeaningOf
  <2> QED BY <1>7, <2>2, SMTT(20) DEF MeaningRule, Means
<1>9. up[k] = M[p][u]
  BY <1>5, <1>6, <1>7, <1>8 DEF MeaningOfArg
<1>10. up[Len(e.args)] = M[p][u]
  <2>1. ~ArgsMean(m, e, q.k)[k].ok
    BY <1>4, <1>7, <1>9
  <2>2. ArgsMean(m, e, q.k)[Len(e.args)] = ArgsMean(m, e, q.k)[k]
    BY <1>1, <1>3, <2>1, ArgsStuck
  <2> QED BY <1>4, <1>9, <2>2
<1>11. M[e][q.k] = MeaningOfCall(e.f, up[Len(e.args)], m.calls)
  BY <1>1, <1>4 DEF MeaningRule, ArgsMean
<1>12. M[e][q.k] = M[p][u]
  BY <1>7, <1>10, <1>11 DEF MeaningOfCall
<1> QED BY <1>4, <1>7, <1>12 DEF Void

(* While an argument is evaluated.                                         *)
LEMMA CallArgument ==
  ASSUME NEW c, NEW m, NEW e, NEW q, CallHere(c, m, e, q), PartsRun(c, m, e), NEW j, NEW u,
         AtArg(m, e, q, j, u), j < Len(e.args)
  PROVE  Runs(c, m, e, q)
<1>1. /\ Setting(c, m) /\ Sound(e) /\ e \in Expr /\ e.is = "funcall" /\ q \in Spots
      /\ q.h \in Nat /\ q.b \in Nat /\ q.n \in Nat /\ q.k \in Nat
      /\ LaidCall(c, q.b, e, q.n) /\ Len(e.args) \in Nat
  BY DEF CallHere
<1>2. /\ j \in 0..Len(e.args) /\ ArgsDone(m, e, q, j, u) /\ u \in 0..Len(m.calls)
      /\ In(m, e.args[j + 1], ArgSpot(e, q, j, u))
  BY DEF AtArg
<1>3. u \in Nat /\ Len(m.calls) \in Nat
  <2>1. Len(m.calls) \in Nat
    BY <1>1, SeqFacts DEF Setting
  <2> QED BY <1>2, <2>1
<1>4. PICK p, s : p = e.args[j + 1] /\ s = ArgSpot(e, q, j, u)
  OBVIOUS
<1>5. PICK n, b, h : n = ArgNext(e, q.n, j) /\ b = q.b + 1 + ArgSize(e, q.n, j) /\ h = q.h + 1 + Slot(e, j)
  OBVIOUS
<1>6. IsSpot(s, n, b, h, u) /\ Slot(e, j) \in Nat
  BY <1>2, <1>3, <1>4, <1>5, ArgSpotIs
<1>7. s \in Spots /\ s.n = n /\ s.b = b /\ s.h = h /\ s.k = u /\ h \in Nat /\ h >= q.h /\ q.h \in 0..h
  BY <1>1, <1>5, <1>6 DEF IsSpot
<1>8. p \in Parts(e) /\ p \in Expr /\ LaidOut(c, b, p, n)
  <2>1. PICK k : k = j + 1
    OBVIOUS
  <2>2. k \in 1..Len(e.args) /\ k - 1 = j
    BY <1>1, <1>2, <2>1
  <2>3. p \in Parts(e) /\ p \in Expr
    BY <1>4, <2>1, <2>2 DEF CallHere
  <2>4. LaidOut(c, q.b + 1 + ArgSize(e, q.n, k - 1), e.args[k], ArgNext(e, q.n, k - 1))
    BY <1>1, <2>2 DEF LaidCall
  <2> QED BY <1>4, <1>5, <2>1, <2>2, <2>3, <2>4
<1>9. Runs(c, m, p, s)
  BY <1>2, <1>4, <1>7, <1>8 DEF PartsRun
<1>10. Exact(e) /\ Void(m, p, s) => Void(m, e, q)
  BY <1>2, <1>3, <1>4, <1>7, ArgumentVoid
<1>11. ASSUME NEW m2, StepRule(c, m, m2), Within(m2, p, s), Framed(m, m2, s.h) PROVE Within(m2, e, q)
  <2>1. Len(m2.calls) \in Nat /\ Len(m2.calls) >= Len(m.calls)
    <3>1. 0 \in Nat
      OBVIOUS
    <3> QED BY <1>1, <1>11, <3>1, KeepsResult
  <2>2. ArgsDone(m2, e, q, j, u)
    <3>1. Framed(m, m2, q.h + 1 + Slot(e, j))
      BY <1>5, <1>7, <1>11
    <3> QED BY <1>2, <1>3, <1>11, <3>1, ArgsDoneStays
  <2>3. CASE In(m2, p, s)
    <3>1. u \in 0..Len(m2.calls)
      BY <1>2, <1>3, <2>1
    <3>2. AtArg(m2, e, q, j, u)
      BY <1>2, <1>4, <2>2, <2>3, <3>1 DEF AtArg
    <3>3. Len(m2.stack) >= q.h
      BY <1>7, <1>11, FrameLess
    <3>4. In(m2, e, q)
      BY <1>1, <3>2, <3>3, CallStages
    <3> QED BY <3>4 DEF Within
  <2>4. CASE Arrived(m2, p, s)
    BY <1>2, <1>3, <1>4, <2>1, <2>2, <2>4, ArgumentDone
  <2> QED BY <1>11, <2>3, <2>4 DEF Within
<1> QED BY <1>1, <1>7, <1>8, <1>9, <1>10, <1>11, InPart

(* A call, its arguments from left to right.                               *)
LEMMA CallRuns ==
  ASSUME NEW c, NEW m, NEW e, NEW q, Here(c, m, e, q), e.is = "funcall", PartsRun(c, m, e)
  PROVE  Runs(c, m, e, q)
<1>1. CallHere(c, m, e, q)
  BY CallIsSet
<1>2. e \in Expr /\ q \in Spots /\ Len(e.args) \in Nat
  BY <1>1 DEF CallHere
<1>3. Entered(m, q) \/ \E j, u : AtArg(m, e, q, j, u)
  BY <1>2, CallStages DEF Here
<1>4. CASE Entered(m, q)
  BY <1>1, <1>4, CallBegins
<1>5. ASSUME NEW j, NEW u, AtArg(m, e, q, j, u) PROVE Runs(c, m, e, q)
  <2>1. CASE j < Len(e.args)
    BY <1>1, <1>5, <2>1, CallArgument
  <2>2. CASE ~(j < Len(e.args))
    <3>1. j = Len(e.args)
      BY <1>2, <1>5, <2>2 DEF AtArg
    <3>2. ArgsDone(m, e, q, Len(e.args), u) /\ Entered(m, ArgSpot(e, q, Len(e.args), u)) /\ u \in 0..Len(m.calls)
      BY <1>5, <2>2, <3>1 DEF AtArg
    <3>3. u \in Nat
      <4>1. Len(m.calls) \in Nat
        BY SeqFacts DEF Here, Setting
      <4> QED BY <3>2, <4>1
    <3> QED BY <1>1, <3>2, <3>3, CallIsMade
  <2> QED BY <2>1, <2>2
<1> QED BY <1>3, <1>4, <1>5

-----------------------------------------------------------------------------
(* The machine runs the code of every expression that keeps the rules.     *)
LEMMA AllRun ==
  \A e \in Expr : \A c, m, q : Here(c, m, e, q) => Runs(c, m, e, q)
<1> DEFINE S == {e \in Expr : \A c, m, q : Here(c, m, e, q) => Runs(c, m, e, q)}
<1>1. ASSUME NEW e \in Expr, Parts(e) \subseteq S PROVE e \in S
  <2> SUFFICES ASSUME NEW c, NEW m, NEW q, Here(c, m, e, q) PROVE Runs(c, m, e, q)
    OBVIOUS
  <2>0. HasShape(e)
    BY Shape
  <2>1. PartsRun(c, m, e)
    <3> SUFFICES ASSUME NEW p \in Parts(e), NEW r \in Spots, LaidOut(c, r.b, p, r.n), In(m, p, r)
                 PROVE  Runs(c, m, p, r)
      BY DEF PartsRun
    <3>1. Sound(p)
      BY SoundParts DEF Here
    <3>2. Here(c, m, p, r)
      BY <3>1 DEF Here
    <3> QED BY <1>1, <3>2
  <2> HIDE DEF S
  <2>2. CASE e.is = "crash"
    <3>1. Crash \in Nodes[e]
      BY <2>0, <2>2, NodesOf DEF HasShape
    <3> QED BY <3>1 DEF Here, Sound
  <2>3. CASE e.is = "lit"
    BY <2>3, LitRuns
  <2>4. CASE e.is = "varref"
    BY <2>4, VarRuns
  <2>5. CASE e.is = "element"
    BY <2>1, <2>5, ElementRuns
  <2>6. CASE e.is = "funcall"
    BY <2>1, <2>6, CallRuns
  <2>7. CASE e.is = "binop"
    BY <2>1, <2>7, BinopRuns, ShortRuns
  <2>8. CASE e.is = "monop"
    BY <2>1, <2>8, MonopRuns
  <2>9. CASE e.is = "typecast"
    BY <2>1, <2>9, CastRuns
  <2> QED BY <2>0, <2>2, <2>3, <2>4, <2>5, <2>6, <2>7, <2>8, <2>9 DEF HasShape
<1> HIDE DEF S
<1>2. Expr \subseteq S
  BY <1>1, ExprInduction
<1> QED BY <1>2 DEF S

-----------------------------------------------------------------------------
(* The machine of the specification.                                       *)
Now == [pc |-> pc, stack |-> stack, calls |-> calls, held |-> held]

(* Its fields are the variables.                                           *)
LEMMA NowHas == /\ Now.pc = pc /\ Now.stack = stack /\ Now.calls = calls /\ Now.held = held
                /\ Now'.pc = pc' /\ Now'.stack = stack' /\ Now'.calls = calls' /\ Now'.held = held'
BY DEF Now

(* The operands an instruction takes.                                      *)
LEMMA TopOfStack ==
  ASSUME IsSeq(stack), NEW n \in Nat, Len(stack) >= n
  PROVE  \A k \in 1..n : Top(n)[k] = stack[Len(stack) - n + k]
<1>1. PICK S : stack \in Seq(S)
  BY DEF IsSeq
<1>2. Len(stack) \in Nat
  BY SeqFacts
<1>3. PICK a : a = Len(stack) - n + 1
  OBVIOUS
<1>4. a \in 1..Len(stack) + 1 /\ Len(stack) \in a - 1..Len(stack) /\ Len(stack) - a + 1 = n
  BY <1>2, <1>3
<1>5. \A k \in 1..n : SubSeq(stack, a, Len(stack))[k] = stack[a + k - 1]
  BY <1>1, <1>4, SubSeqProperties
<1>6. \A k \in 1..n : a + k - 1 = Len(stack) - n + k
  BY <1>2, <1>3
<1> QED BY <1>3, <1>5, <1>6 DEF Top

(* Those it leaves.                                                        *)
LEMMA BelowTop ==
  ASSUME IsSeq(stack), NEW n \in Nat, Len(stack) >= n
  PROVE  /\ IsSeq(Below(n)) /\ Len(Below(n)) = Len(stack) - n
         /\ \A k \in 1..Len(stack) - n : Below(n)[k] = stack[k]
<1>1. PICK S : stack \in Seq(S)
  BY DEF IsSeq
<1>2. Len(stack) \in Nat
  BY SeqFacts
<1>3. PICK b : b = Len(stack) - n
  OBVIOUS
<1>4. 1 \in 1..Len(stack) + 1 /\ b \in 1 - 1..Len(stack) /\ b - 1 + 1 = b
  BY <1>2, <1>3
<1>5. SubSeq(stack, 1, b) \in Seq(S) /\ Len(SubSeq(stack, 1, b)) = b
  BY <1>1, <1>4, SubSeqProperties
<1>6. \A k \in 1..b : SubSeq(stack, 1, b)[k] = stack[1 + k - 1]
  BY <1>1, <1>4, SubSeqProperties
<1>7. \A k \in 1..b : 1 + k - 1 = k
  OBVIOUS
<1> QED BY <1>3, <1>5, <1>6, <1>7 DEF Below, IsSeq

(* They have the types asked for.                                          *)
LEMMA TypesFit ==
  ASSUME IsSeq(stack), NEW s, IsSeq(s)
  PROVE  Types(s) <=> Has(Now, s)
<1>1. Len(s) \in Nat /\ DOMAIN s = 1..Len(s)
  BY SeqFacts
<1>2. Now.stack = stack
  BY NowHas
<1>3. Len(stack) >= Len(s) => \A k \in 1..Len(s) : Top(Len(s))[k] = stack[Len(stack) - Len(s) + k]
  BY <1>1, TopOfStack
<1> QED BY <1>1, <1>2, <1>3 DEF Types, Has

(* A new operand in the place of those taken.                              *)
LEMMA Pushed ==
  ASSUME IsSeq(stack), IsSeq(Operands), Types(Operands), NEW v, Push(v)
  PROVE  Puts(Now, Now', Len(Operands), v) /\ IsSeq(stack')
<1>1. PICK n : n = Len(Operands)
  OBVIOUS
<1>2. n \in Nat /\ Len(stack) >= n /\ Len(stack) \in Nat
  BY <1>1, SeqFacts DEF Types
<1>3. PICK b : b = Below(n)
  OBVIOUS
<1>4. IsSeq(b) /\ Len(b) = Len(stack) - n /\ \A k \in 1..Len(stack) - n : b[k] = stack[k]
  BY <1>2, <1>3, BelowTop
<1>5. stack' = Append(b, v)
  BY <1>1, <1>3 DEF Push
<1>6. /\ IsSeq(stack') /\ Len(stack') = Len(b) + 1 /\ stack'[Len(b) + 1] = v
      /\ \A k \in 1..Len(b) : stack'[k] = b[k]
  BY <1>4, <1>5, AppendSeq
<1>7. /\ Len(stack') = Len(stack) - n + 1 /\ stack'[Len(stack')] = v
      /\ \A k \in 1..Len(stack) - n : stack'[k] = stack[k]
  BY <1>2, <1>4, <1>6
<1>8. Now.stack = stack /\ Now'.stack = stack'
  BY NowHas
<1> QED BY <1>1, <1>2, <1>6, <1>7, <1>8 DEF Puts, Last, Kept

(* Operands taken without a new one.                                       *)
LEMMA Dropped ==
  ASSUME IsSeq(stack), NEW n \in Nat, Len(stack) >= n, stack' = Below(n), calls' = calls
  PROVE  Goes(Now, Now', n, pc') /\ IsSeq(stack')
<1>1. /\ IsSeq(Below(n)) /\ Len(Below(n)) = Len(stack) - n
      /\ \A k \in 1..Len(stack) - n : Below(n)[k] = stack[k]
  BY BelowTop
<1> QED BY <1>1, NowHas DEF Goes, Kept

-----------------------------------------------------------------------------
(* The instructions take sequences of operands; a call is a call of a      *)
(* function.                                                               *)
LEMMA TakesSeq ==
  ASSUME NEW i, i.op = "jsr" => i.arg \in Funs
  PROVE  IsSeq(Takes(i))
<1>1. CASE i.op = "jsr"
  <2>1. PICK t : t = Slots(i.arg)
    OBVIOUS
  <2>2. IsSeq(t)
    <3>1. SlotsOk(i.arg)
      BY <1>1, SlotsAreOk
    <3>2. Len(FunType[i.arg].params) \in 0..Len(FunType[i.arg].params)
      BY <3>1 DEF SlotsOk
    <3> QED BY <2>1, <3>1, <3>2 DEF SlotsOk, Slots
  <2>3. IsSeq(<<"links">> \o t)
    BY <2>2, SeqOne, ConcatSeq
  <2>4. i.op \notin Arith \cup Order \cup Equality /\ i.op \notin {"neg", "not", "i2f", "f2i", "take"}
        /\ i.op \notin {"branch_t", "branch_f"} /\ i.op # "loada"
    BY <1>1 DEF Arith, Order, Equality
  <2>5. Takes(i) = <<"links">> \o t
    BY <1>1, <2>1, <2>4 DEF Takes
  <2> QED BY <2>3, <2>5
<1>2. CASE i.op # "jsr"
  <2>1. Takes(i) = <<i.t, i.t>> \/ Takes(i) = <<i.t>> \/ Takes(i) = <<"bool">> \/ Takes(i) = <<"int", "ref">> \/ Takes(i) = <<>>
    BY <1>2 DEF Takes
  <2> QED BY <2>1, SeqNone, SeqOne, SeqTwo
<1> QED BY <1>1, <1>2

(* The machine is ready when it has sequences, and calls functions.        *)
Ready == /\ IsSeq(stack) /\ IsSeq(calls) /\ IsSeq(code)
         /\ Instr.op = "jsr" => Instr.arg \in Funs

(* A machine that is ready has what its instruction takes, or does not     *)
(* fit.                                                                    *)
LEMMA ReadyFacts ==
  ASSUME Ready
  PROVE  /\ IsSeq(stack) /\ IsSeq(calls) /\ IsSeq(Operands) /\ Len(Operands) \in Nat
         /\ DOMAIN Operands = 1..Len(Operands) /\ Len(stack) \in Nat
         /\ Types(Operands) => Has(Now, Takes(code[Now.pc])) /\ Len(stack) >= Len(Operands)
         /\ Has(Now, Takes(code[Now.pc])) => Types(Operands)
<1>1. IsSeq(Operands)
  BY TakesSeq DEF Ready, Operands
<1>2. Operands = Takes(code[Now.pc])
  BY NowHas DEF Operands, Instr
<1>3. IsSeq(stack) /\ IsSeq(calls)
  BY DEF Ready
<1>4. Types(Operands) <=> Has(Now, Operands)
  BY <1>1, <1>3, TypesFit
<1> QED BY <1>1, <1>2, <1>3, <1>4, SeqFacts DEF Types

(* The values of the operands.                                             *)
LEMMA ArgValues ==
  ASSUME Ready, Types(Operands)
  PROVE  \A k \in 1..Len(Operands) : Args[k] = stack[Len(stack) - Len(Operands) + k].v
<1>1. \A k \in 1..Len(Operands) : Top(Len(Operands))[k] = stack[Len(stack) - Len(Operands) + k]
  BY ReadyFacts, TopOfStack
<1> QED BY <1>1, ReadyFacts DEF Args

(* The one operand.                                                        *)
LEMMA OneArg ==
  ASSUME Ready, Types(Operands), Len(Operands) = 1
  PROVE  Args[1] = Last(Now).v
<1>1. Len(stack) - 1 + 1 = Len(stack) /\ 1 \in 1..Len(Operands)
  BY ReadyFacts
<1>2. Args[1] = stack[Len(stack) - 1 + 1].v
  BY <1>1, ArgValues
<1> QED BY <1>1, <1>2, NowHas DEF Last

(* The two operands.                                                       *)
LEMMA TwoArgs ==
  ASSUME Ready, Types(Operands), Len(Operands) = 2
  PROVE  Args[1] = Under(Now).v /\ Args[2] = Last(Now).v
<1>1. Len(stack) - 2 + 1 = Len(stack) - 1 /\ Len(stack) - 2 + 2 = Len(stack) /\ 1 \in 1..Len(Operands) /\ 2 \in 1..Len(Operands)
  BY ReadyFacts
<1>2. Args[1] = stack[Len(stack) - 2 + 1].v /\ Args[2] = stack[Len(stack) - 2 + 2].v
  BY <1>1, ArgValues
<1> QED BY <1>1, <1>2, NowHas DEF Last, Under

(* What is behind the link of a call.                                      *)
LEMMA TailOfArgs ==
  ASSUME Ready, Types(Operands), Len(Operands) >= 1
  PROVE  Tail(Args) = Lasts(Now, Len(Operands) - 1)
<1>1. PICK n : n = Len(Operands)
  OBVIOUS
<1>2. n \in Nat /\ n >= 1 /\ Len(stack) \in Nat
  BY <1>1, ReadyFacts
<1>3. PICK a : a = Args
  OBVIOUS
<1>4. a = [k \in 1..n |-> a[k]] /\ \A k \in 1..n : a[k] = stack[Len(stack) - n + k].v
  BY <1>1, <1>3, ReadyFacts, ArgValues DEF Args
<1>5. PICK S : S = {a[k] : k \in 1..n}
  OBVIOUS
<1>6. a \in Seq(S) /\ Len(a) = n /\ a # <<>>
  BY <1>2, <1>4, <1>5
<1>7. Tail(a) \in Seq(S) /\ Len(Tail(a)) = n - 1 /\ \A k \in 1..n - 1 : Tail(a)[k] = a[k + 1]
  BY <1>2, <1>6, HeadTailProperties
<1>8. PICK t : t = Tail(a)
  OBVIOUS
<1>9. \A k \in 1..n - 1 : t[k] = stack[Len(stack) - (n - 1) + k].v
  <2> SUFFICES ASSUME NEW k \in 1..n - 1 PROVE t[k] = stack[Len(stack) - (n - 1) + k].v
    OBVIOUS
  <2>1. k + 1 \in 1..n /\ Len(stack) - n + (k + 1) = Len(stack) - (n - 1) + k
    BY <1>2
  <2> QED BY <1>4, <1>7, <1>8, <2>1
<1>10. t \in Seq(S) /\ Len(t) = n - 1
  BY <1>7, <1>8
<1>11. t = [k \in 1..n - 1 |-> t[k]]
  BY <1>10
<1>12. Lasts(Now, n - 1) = [k \in 1..n - 1 |-> stack[Len(stack) - (n - 1) + k].v]
  BY NowHas DEF Lasts
<1>13. t = Lasts(Now, n - 1)
  BY <1>9, <1>11, <1>12, Zenon
<1> QED BY <1>1, <1>3, <1>8, <1>13

-----------------------------------------------------------------------------
(* What a step of the specification is: a step of the machine, that leaves *)
(* the program alone and the sequences sequences.                          *)
KeepsRest == UNCHANGED <<program, folds, status, code, held>>
KeepsSeqs == IsSeq(stack') /\ IsSeq(calls')

(* Loads.                                                                  *)
LEMMA LoadSteps ==
  ASSUME Ready, Load
  PROVE  StepRule(code, Now, Now') /\ KeepsRest /\ KeepsSeqs
<1>1. PICK m, m2, i : m = Now /\ m2 = Now' /\ i = Instr
  OBVIOUS
<1>2. /\ m.pc = pc /\ m.stack = stack /\ m.calls = calls /\ m.held = held
      /\ m2.pc = pc' /\ m2.stack = stack' /\ m2.calls = calls' /\ m2.held = held'
  BY <1>1, NowHas
<1>3. i = code[m.pc] /\ Operands = Takes(i)
  BY <1>1, <1>2 DEF Instr, Operands
<1>4. Types(Operands) /\ Has(m, Takes(i)) /\ Len(stack) \in Nat /\ Len(Operands) \in Nat
  BY <1>1, <1>2, ReadyFacts DEF Load, Fits, Instr
<1>5. pc' = pc + 1 /\ calls' = calls /\ held' = held /\ KeepsRest
  BY DEF Load, Go, KeepsRest
<1>6. Grows(m, m2)
  BY <1>2, <1>5 DEF Grows
<1>7. ASSUME NEW v, Push(v) PROVE Gives(m, m2, Len(Operands), v) /\ KeepsSeqs
  <2>1. Puts(m, m2, Len(Operands), v) /\ IsSeq(stack')
    BY <1>1, <1>4, <1>7, Pushed, ReadyFacts
  <2> QED BY <1>2, <1>5, <2>1 DEF Gives, KeepsSeqs, Ready
<1>8. \/ i.op = "const" /\ Push(Value(i.t, i.arg))
      \/ i.op = "isrg" /\ Push(Value("links", 0))
      \/ i.op = "load" /\ Push(Value(i.t, IF i.t = "ref" THEN 0 ELSE held[i.arg]))
      \/ i.op = "loaddim" /\ Push(Value("int", 1))
      \/ i.op = "loada" /\ Push(Value(i.t, held[i.arg]))
  BY <1>1 DEF Load
<1>9. i.op \in {"const", "isrg", "load", "loaddim", "loada"}
  BY <1>8
<1>10. Computes(m, m2, i) /\ Jumps(code, m, m2, i) /\ i.op # "jsr"
  BY <1>9 DEF Computes, Jumps, Arith, Order, Equality
<1>11. Loads(m, m2, i) /\ KeepsSeqs
  <2>1. i.op \in {"const", "isrg", "load", "loaddim"} => Len(Operands) = 0
    <3>1. i.op \in {"const", "isrg", "load", "loaddim"} => Takes(i) = <<>>
      BY DEF Takes, Arith, Order, Equality
    <3> QED BY <1>3, <3>1
  <2>2. i.op = "loada" => Len(Operands) = 2
    <3>1. i.op = "loada" => Takes(i) = <<"int", "ref">>
      BY DEF Takes, Arith, Order, Equality
    <3> QED BY <1>3, <3>1
  <2>3. CASE i.op = "const" /\ Push(Value(i.t, i.arg))
    BY <1>7, <2>1, <2>3 DEF Loads
  <2>4. CASE i.op = "isrg" /\ Push(Value("links", 0))
    BY <1>7, <2>1, <2>4 DEF Loads
  <2>5. CASE i.op = "load" /\ Push(Value(i.t, IF i.t = "ref" THEN 0 ELSE held[i.arg]))
    BY <1>2, <1>7, <2>1, <2>5 DEF Loads
  <2>6. CASE i.op = "loaddim" /\ Push(Value("int", 1))
    BY <1>7, <2>1, <2>6 DEF Loads
  <2>7. CASE i.op = "loada" /\ Push(Value(i.t, held[i.arg]))
    BY <1>2, <1>7, <2>2, <2>7 DEF Loads
  <2> QED BY <1>8, <2>3, <2>4, <2>5, <2>6, <2>7
<1>12. StepRule(code, m, m2)
  BY <1>3, <1>4, <1>6, <1>10, <1>11 DEF StepRule
<1> QED BY <1>1, <1>5, <1>11, <1>12

(* Operators.                                                              *)
LEMMA ComputeSteps ==
  ASSUME Ready, Compute
  PROVE  StepRule(code, Now, Now') /\ KeepsRest /\ KeepsSeqs
<1>1. PICK m, m2, i : m = Now /\ m2 = Now' /\ i = Instr
  OBVIOUS
<1>2. /\ m.pc = pc /\ m.stack = stack /\ m.calls = calls /\ m.held = held
      /\ m2.pc = pc' /\ m2.stack = stack' /\ m2.calls = calls' /\ m2.held = held'
  BY <1>1, NowHas
<1>3. i = code[m.pc] /\ Operands = Takes(i)
  BY <1>1, <1>2 DEF Instr, Operands
<1>4. Types(Operands) /\ Has(m, Takes(i)) /\ Len(stack) \in Nat /\ Len(Operands) \in Nat
  BY <1>1, <1>2, ReadyFacts DEF Compute, Fits, Instr
<1>5. pc' = pc + 1 /\ calls' = calls /\ held' = held /\ KeepsRest
  BY DEF Compute, Go, KeepsRest
<1>6. Grows(m, m2)
  BY <1>2, <1>5 DEF Grows
<1>7. ASSUME NEW v, Push(v) PROVE Gives(m, m2, Len(Operands), v) /\ KeepsSeqs
  <2>1. Puts(m, m2, Len(Operands), v) /\ IsSeq(stack')
    BY <1>1, <1>4, <1>7, Pushed, ReadyFacts
  <2> QED BY <1>2, <1>5, <2>1 DEF Gives, KeepsSeqs, Ready
<1>8. \/ /\ i.op \in Arith \cup Order \cup Equality
         /\ ~NoValue(i.t, i.op, Args[1], Args[2])
         /\ Push(Value(ResultType(i.op, i.t), OpOf(i.t, i.op, Args[1], Args[2])))
      \/ /\ i.op = "neg"
         /\ Push(Value(i.t, IF i.t = "int" THEN Wrap(0 - Args[1]) ELSE 0 - Args[1]))
      \/ i.op = "not" /\ Push(Value("bool", 1 - Args[1]))
      \/ i.op = "i2f" /\ Push(Value("float", Converted("int", "float", Args[1])))
      \/ i.op = "f2i" /\ Push(Value("int", Converted("float", "int", Args[1])))
  BY <1>1 DEF Compute
<1>9. i.op \in Arith \cup Order \cup Equality \cup {"neg", "not", "i2f", "f2i"}
  BY <1>8
<1>10. Loads(m, m2, i) /\ Jumps(code, m, m2, i) /\ i.op # "jsr"
  BY <1>9 DEF Loads, Jumps, Arith, Order, Equality
<1>11. Computes(m, m2, i) /\ KeepsSeqs
  <2>1. i.op \in {"neg", "not", "i2f", "f2i"} => Len(Operands) = 1 /\ i.op \notin Arith \cup Order \cup Equality
    <3>1. i.op \in {"neg", "not", "i2f", "f2i"} => Takes(i) = <<i.t>> /\ i.op \notin Arith \cup Order \cup Equality
      BY DEF Takes, Arith, Order, Equality
    <3> QED BY <1>3, <3>1
  <2>2. i.op \in Arith \cup Order \cup Equality => Len(Operands) = 2 /\ i.op \notin {"neg", "not", "i2f", "f2i"}
    <3>1. i.op \in Arith \cup Order \cup Equality => Takes(i) = <<i.t, i.t>> /\ i.op \notin {"neg", "not", "i2f", "f2i"}
      BY DEF Takes, Arith, Order, Equality
    <3> QED BY <1>3, <3>1
  <2>3. Len(Operands) = 1 => Args[1] = Last(m).v
    BY <1>1, <1>4, OneArg
  <2>4. Len(Operands) = 2 => Args[1] = Under(m).v /\ Args[2] = Last(m).v
    BY <1>1, <1>4, TwoArgs
  <2>5. PICK a, b : a = Args[1] /\ b = Args[2]
    OBVIOUS
  <2>6. CASE /\ i.op \in Arith \cup Order \cup Equality
             /\ ~NoValue(i.t, i.op, a, b)
             /\ Push(Value(ResultType(i.op, i.t), OpOf(i.t, i.op, a, b)))
    BY <1>7, <2>2, <2>4, <2>5, <2>6 DEF Computes
  <2>7. CASE i.op = "neg" /\ Push(Value(i.t, IF i.t = "int" THEN Wrap(0 - a) ELSE 0 - a))
    BY <1>7, <2>1, <2>3, <2>5, <2>7 DEF Computes
  <2>8. CASE i.op = "not" /\ Push(Value("bool", 1 - a))
    BY <1>7, <2>1, <2>3, <2>5, <2>8 DEF Computes
  <2>9. CASE i.op = "i2f" /\ Push(Value("float", Converted("int", "float", a)))
    BY <1>7, <2>1, <2>3, <2>5, <2>9 DEF Computes
  <2>10. CASE i.op = "f2i" /\ Push(Value("int", Converted("float", "int", a)))
    BY <1>7, <2>1, <2>3, <2>5, <2>10 DEF Computes
  <2> QED BY <1>8, <2>5, <2>6, <2>7, <2>8, <2>9, <2>10
<1>12. StepRule(code, m, m2)
  BY <1>3, <1>4, <1>6, <1>10, <1>11 DEF StepRule
<1> QED BY <1>1, <1>5, <1>11, <1>12

-----------------------------------------------------------------------------
(* Jumps and calls.                                                        *)
LEMMA JumpSteps ==
  ASSUME Ready, Jump
  PROVE  StepRule(code, Now, Now') /\ KeepsRest /\ KeepsSeqs
<1>1. PICK m, m2, i : m = Now /\ m2 = Now' /\ i = Instr
  OBVIOUS
<1>2. /\ m.pc = pc /\ m.stack = stack /\ m.calls = calls /\ m.held = held
      /\ m2.pc = pc' /\ m2.stack = stack' /\ m2.calls = calls' /\ m2.held = held'
  BY <1>1, NowHas
<1>3. i = code[m.pc] /\ Operands = Takes(i)
  BY <1>1, <1>2 DEF Instr, Operands
<1>4. Types(Operands) /\ Has(m, Takes(i)) /\ Len(stack) \in Nat /\ Len(Operands) \in Nat /\ Len(stack) >= Len(Operands)
  BY <1>1, <1>2, ReadyFacts DEF Jump, Fits, Instr
<1>5. calls' = calls /\ held' = held /\ KeepsRest
  BY DEF Jump, KeepsRest
<1>6. Grows(m, m2)
  BY <1>2, <1>5 DEF Grows
<1>7. \/ i.op = "jump" /\ pc' = Place(i.arg) /\ UNCHANGED stack
      \/ i.op = "label" /\ pc' = pc + 1 /\ UNCHANGED stack
      \/ /\ i.op \in {"branch_t", "branch_f"} /\ stack' = Below(1)
         /\ pc' = IF (Args[1] = 1) = (i.op = "branch_t") THEN Place(i.arg) ELSE pc + 1
  BY <1>1 DEF Jump
<1>8. \A l : Place(l) = At(code, l)
  BY DEF Place, At
<1>9. i.op \in {"jump", "label", "branch_t", "branch_f"}
  BY <1>7
<1>10. Computes(m, m2, i) /\ Loads(m, m2, i) /\ i.op # "jsr"
  BY <1>9 DEF Computes, Loads, Arith, Order, Equality
<1>11. Jumps(code, m, m2, i) /\ KeepsSeqs
  <2>1. CASE i.op \in {"jump", "label"}
    <3>1. stack' = stack
      BY <1>7, <2>1
    <3>2. Goes(m, m2, 0, pc')
      BY <1>2, <1>4, <1>5, <3>1 DEF Goes, Kept
    <3>3. pc' = IF i.op = "jump" THEN At(code, i.arg) ELSE pc + 1
      BY <1>7, <1>8, <2>1
    <3>4. KeepsSeqs
      BY <1>5, <3>1 DEF KeepsSeqs, Ready
    <3> QED BY <1>2, <2>1, <3>2, <3>3, <3>4 DEF Jumps
  <2>2. CASE i.op \in {"branch_t", "branch_f"}
    <3>1. Len(Operands) = 1
      <4>1. Takes(i) = <<"bool">>
        BY <2>2 DEF Takes, Arith, Order, Equality
      <4> QED BY <1>3, <4>1
    <3>2. PICK a : a = Args[1]
      OBVIOUS
    <3>3. a = Last(m).v
      BY <1>1, <1>4, <3>1, <3>2, OneArg
    <3>4. stack' = Below(1) /\ pc' = IF (a = 1) = (i.op = "branch_t") THEN At(code, i.arg) ELSE pc + 1
      BY <1>7, <1>8, <2>2, <3>2
    <3>5. Goes(Now, Now', 1, pc') /\ IsSeq(stack')
      BY <1>4, <1>5, <3>1, <3>4, Dropped DEF Ready
    <3>6. KeepsSeqs
      BY <1>5, <3>5 DEF KeepsSeqs, Ready
    <3>7. Goes(m, m2, 1, pc')
      BY <1>1, <3>5
    <3> QED BY <1>2, <2>2, <3>3, <3>4, <3>6, <3>7 DEF Jumps
  <2> QED BY <1>9, <2>1, <2>2
<1>12. StepRule(code, m, m2)
  BY <1>3, <1>4, <1>6, <1>10, <1>11 DEF StepRule
<1> QED BY <1>1, <1>5, <1>11, <1>12

(* Calls.                                                                  *)
LEMMA JsrSteps ==
  ASSUME Ready, Jsr
  PROVE  StepRule(code, Now, Now') /\ KeepsRest /\ KeepsSeqs
<1>1. PICK m, m2, i : m = Now /\ m2 = Now' /\ i = Instr
  OBVIOUS
<1>2. /\ m.pc = pc /\ m.stack = stack /\ m.calls = calls /\ m.held = held
      /\ m2.pc = pc' /\ m2.stack = stack' /\ m2.calls = calls' /\ m2.held = held'
  BY <1>1, NowHas
<1>3. i = code[m.pc] /\ Operands = Takes(i)
  BY <1>1, <1>2 DEF Instr, Operands
<1>4. Types(Operands) /\ Has(m, Takes(i)) /\ Len(stack) \in Nat /\ Len(Operands) \in Nat /\ Len(stack) >= Len(Operands)
  BY <1>1, <1>2, ReadyFacts DEF Jsr, Fits, Instr
<1>5. held' = held /\ KeepsRest /\ pc' = pc + 1 /\ i.op = "jsr"
  BY <1>1 DEF Jsr, KeepsRest
<1>6. PICK v : /\ v \in IF i.t = "void" THEN {0} ELSE Held[i.t]
               /\ calls' = Append(calls, <<i.arg, Tail(Args), v>>)
               /\ IF i.t = "void" THEN stack' = Below(Len(Operands)) ELSE Push(Value(i.t, v))
  BY <1>1 DEF Jsr
<1>7. Grows(m, m2)
  BY <1>2, <1>5, <1>6 DEF Grows
<1>8. Computes(m, m2, i) /\ Loads(m, m2, i) /\ Jumps(code, m, m2, i)
  BY <1>5 DEF Computes, Loads, Jumps, Arith, Order, Equality
<1>9. Len(Operands) >= 1
  <2>1. i.arg \in Funs
    BY <1>1, <1>5 DEF Ready
  <2>2. PICK t : t = Slots(i.arg)
    OBVIOUS
  <2>3. IsSeq(t)
    <3>1. SlotsOk(i.arg)
      BY <2>1, SlotsAreOk
    <3>2. Len(FunType[i.arg].params) \in 0..Len(FunType[i.arg].params)
      BY <3>1 DEF SlotsOk
    <3> QED BY <2>2, <3>1, <3>2 DEF SlotsOk, Slots
  <2>4. PICK l : l = <<"links">>
    OBVIOUS
  <2>5. IsSeq(l) /\ Len(l) = 1
    BY <2>4, SeqOne
  <2>6. Len(l \o t) = Len(l) + Len(t) /\ Len(t) \in Nat
    BY <2>3, <2>5, ConcatSeq
  <2>7. Operands = l \o t
    BY <1>3, <1>5, <2>2, <2>4 DEF Takes, Arith, Order, Equality
  <2> QED BY <2>5, <2>6, <2>7
<1>10. IsSeq(calls')
  BY <1>6, AppendSeq DEF Ready
<1>11. IsSeq(stack') /\ (i.t # "void" => Calls(m, m2, Len(Takes(i)), i.t, i.arg))
  <2>1. CASE i.t = "void"
    <3>1. stack' = Below(Len(Operands))
      BY <1>6, <2>1
    <3> QED BY <1>4, <2>1, <3>1, BelowTop DEF Ready
  <2>2. CASE i.t # "void"
    <3>1. v \in Held[i.t] /\ Push(Value(i.t, v))
      BY <1>6, <2>2
    <3>2. Puts(m, m2, Len(Operands), Value(i.t, v)) /\ IsSeq(stack')
      BY <1>1, <1>4, <3>1, Pushed, ReadyFacts
    <3>3. Tail(Args) = Lasts(m, Len(Operands) - 1)
      BY <1>1, <1>4, <1>9, TailOfArgs
    <3>4. calls' = Append(calls, <<i.arg, Lasts(m, Len(Operands) - 1), v>>)
      BY <1>6, <3>3
    <3> QED BY <1>2, <1>3, <1>4, <1>5, <3>1, <3>2, <3>4 DEF Calls
  <2> QED BY <2>1, <2>2
<1>12. StepRule(code, m, m2)
  BY <1>3, <1>4, <1>7, <1>8, <1>11 DEF StepRule
<1> QED BY <1>1, <1>5, <1>10, <1>11, <1>12 DEF KeepsSeqs

-----------------------------------------------------------------------------
(* The machine starts at the first instruction, with nothing on the stack  *)
(* and no call made; the code is that of the expression, and behind it the *)
(* value is taken.                                                         *)
Start == Spot(0, 1, 0, 0)
Translated == Optimized(program.e)
TakeIt == I("take", program.type, program.use)

LEMMA StartFacts == Start \in Spots /\ Start.n = 0 /\ Start.b = 1 /\ Start.h = 0 /\ Start.k = 0
BY SpotOf DEF Start

(* What CodeGen is given keeps the rules, and has the type asked for.      *)
LEMMA GivenIsSound ==
  ASSUME program \in Programs, Accepted(program), FollowsRules(program), Crash \notin Nodes[Translated]
  PROVE  /\ Sound(Translated) /\ TYC[Translated].t = program.type /\ TYC[Translated].d = 0
         /\ program.e \in Expr /\ TYC[program.e].ok /\ Ruly(program.e)
<1>1. /\ program.e \in Expr /\ TYC[program.e].ok /\ TYC[program.e].t = program.type
      /\ program.type \in Basic
  BY WellTypedIsAccepted, ProgramsAssumption
<1>2. Ruly(program.e) /\ TYC[program.e].d = 0
  BY DEF FollowsRules, Ruly, Scalar
<1>3. CASE folds
  <2>1. Translated = CF[program.e]
    BY <1>3 DEF Translated, Optimized
  <2>2. CF[program.e] \in Expr /\ SameType(program.e, CF[program.e]) /\ Ruly(CF[program.e])
    BY <1>1, <1>2, FoldedInExpr, FoldKeepsTypes, FoldKeepsRules
  <2> QED BY <1>1, <1>2, <2>1, <2>2 DEF Sound, SameType
<1>4. CASE ~folds
  <2>1. Translated = program.e
    BY <1>4 DEF Translated, Optimized
  <2> QED BY <1>1, <1>2, <2>1 DEF Sound
<1> QED BY <1>1, <1>2, <1>3, <1>4

Coded(e) ==
  /\ IsSeq(code) /\ (\E L : Labelled(code, L)) /\ LaidOut(code, 1, e, 0)
  /\ Size(e, 0) \in Nat /\ Len(code) = Size(e, 0) + 1 /\ code[Size(e, 0) + 1] = TakeIt

(* It is where the machine starts.                                         *)
LEMMA CodeIsLaidOut ==
  ASSUME NEW e, Sound(e), code = Append(CGN[e][0].code, TakeIt)
  PROVE  Coded(e)
<1>1. PICK g : g = CGN[e][0]
  OBVIOUS
<1>2. IsSeq(g.code) /\ IsCode(g, 0) /\ Len(g.code) = Size(e, 0) /\ Len(g.code) \in Nat
  BY <1>1, SizeFacts DEF Sound, Size
<1>3. PICK s : s = g.code
  OBVIOUS
<1>4. /\ IsSeq(code) /\ Len(code) = Len(s) + 1 /\ code[Len(s) + 1] = TakeIt
      /\ \A k \in 1..Len(s) : code[k] = s[k]
  BY <1>1, <1>2, <1>3, AppendSeq
<1>5. PICK L : Labelled(s, L)
  BY <1>2, <1>3 DEF IsCode
<1>6. TakeIt.op # "label"
  BY InstrHas DEF TakeIt
<1>7. Len(s) \in Nat /\ Len(s) = Size(e, 0)
  BY <1>2, <1>3
<1>8. Labelled(code, L)
  <2>1. ASSUME NEW j \in 1..Len(code), code[j].op = "label" PROVE j \in 1..Len(s) /\ code[j] = s[j]
    <3>1. j # Len(s) + 1
      BY <1>4, <1>6, <2>1
    <3>2. j \in 1..Len(s)
      BY <1>4, <1>7, <3>1
    <3> QED BY <1>4, <3>2
  <2> QED BY <1>5, <2>1 DEF Labelled
<1>9. LaidOut(code, 1, e, 0)
  <2>1. 1 >= 1 /\ 1 + Len(s) <= Len(code) + 1
    BY <1>4, <1>7
  <2>2. \A k \in 1..Len(s) : 1 + k - 1 = k
    OBVIOUS
  <2> QED BY <1>1, <1>3, <1>4, <2>1, <2>2 DEF LaidOut, Holds
<1> QED BY <1>4, <1>7, <1>8, <1>9 DEF Coded

(* What is held by the variables that the code loads.                      *)
LEMMA HeldIsHeld ==
  ASSUME Init, IsSeq(code)
  PROVE  BoolsHeld(code, held)
<1> DEFINE used == {k \in {code[j] : j \in DOMAIN code} : (k.op = "load" /\ k.t # "ref") \/ k.op = "loada"}
<1>1. held \in {h \in [{k.arg : k \in used} -> UNION {Held[k.t] : k \in used}] :
                     \A x \in DOMAIN h : h[x] \in Held[VarType[x].type]}
  BY DEF Init
<1>2. DOMAIN held = {k.arg : k \in used} /\ \A x \in DOMAIN held : held[x] \in Held[VarType[x].type]
  BY <1>1
<1>3. DOMAIN code = 1..Len(code)
  BY SeqFacts
<1>4. ASSUME NEW j \in 1..Len(code), (code[j].op = "load" /\ code[j].t # "ref") \/ code[j].op = "loada"
      PROVE  code[j].arg \in DOMAIN held
  <2>1. code[j] \in used
    BY <1>3, <1>4
  <2> QED BY <1>2, <2>1
<1> HIDE DEF used
<1> QED BY <1>2, <1>4, HeldAssumption DEF BoolsHeld

-----------------------------------------------------------------------------
(* The invariant: while it runs the machine is inside the code of the      *)
(* expression or has its value; it stops with the value, where there is    *)
(* none, or where a bool was taken for a float.                            *)
Keeps == FollowsRules(program) /\ status \notin {"rejected", "crashed"}
Runnable == /\ IsSeq(stack) /\ IsSeq(calls) /\ Coded(Translated) /\ BoolsHeld(code, held)
Simulates ==
  Keeps => /\ Runnable
           /\ status \in {"running", "done", "undefined", "misfit"}
           /\ status = "running" => Within(Now, Translated, Start)
           /\ status = "done" => Arrived(Now, Translated, Start)
           /\ status = "undefined" => (Exact(Translated) => Void(Now, Translated, Start))
           /\ status = "misfit" => BoolToFloat(Translated)

(* The machine starts inside the code.                                     *)
LEMMA StartsInside == Init => Simulates
<1> SUFFICES ASSUME Init, Keeps PROVE Simulates
  BY DEF Simulates
<1>1. program \in Programs /\ Accepted(program) /\ Crash \notin Nodes[Translated] /\ status = "running"
  BY DEF Init, Keeps, Translated
<1>2. Sound(Translated)
  BY <1>1, GivenIsSound DEF Keeps
<1>3. code = Append(CGN[Translated][0].code, TakeIt)
  BY <1>1 DEF Init, Compiled, Translated, TakeIt
<1>4. Coded(Translated)
  BY <1>2, <1>3, CodeIsLaidOut
<1>5. IsSeq(code)
  BY <1>4 DEF Coded
<1>6. BoolsHeld(code, held)
  BY <1>5, HeldIsHeld
<1>7. pc = 1 /\ stack = <<>> /\ calls = <<>>
  BY DEF Init
<1>8. IsSeq(stack) /\ IsSeq(calls) /\ Len(stack) = 0 /\ Len(calls) = 0
  BY <1>7, SeqNone
<1>9. Entered(Now, Start)
  BY <1>7, <1>8, NowHas, StartFacts DEF Entered
<1>10. In(Now, Translated, Start)
  BY <1>2, <1>9, StartFacts, EnteredIsIn DEF Sound
<1> QED BY <1>1, <1>4, <1>6, <1>8, <1>10 DEF Simulates, Runnable, Within

(* Where the machine is while it runs.                                     *)
LEMMA WhereItIs ==
  ASSUME Decided, Simulates, Keeps, status = "running"
  PROVE  /\ Runnable /\ Ready /\ Sound(Translated) /\ TYC[Translated].d = 0
         /\ \/ Runs(code, Now, Translated, Start)
            \/ /\ Instr = TakeIt /\ Instr.op = "take" /\ Arrived(Now, Translated, Start)
               /\ Has(Now, Takes(Instr)) \/ BoolToFloat(Translated)
<1>1. program \in Programs /\ Accepted(program) /\ Crash \notin Nodes[Translated]
  BY DEF Decided, Keeps, Translated
<1>2. Sound(Translated) /\ TYC[Translated].t = program.type /\ TYC[Translated].d = 0
  BY <1>1, GivenIsSound DEF Keeps
<1>3. Runnable /\ Within(Now, Translated, Start)
  BY DEF Simulates
<1>4. Setting(code, Now)
  BY <1>3, NowHas DEF Runnable, Coded, Setting
<1>5. CASE In(Now, Translated, Start)
  <2>1. LaidOut(code, Start.b, Translated, Start.n)
    BY <1>3, StartFacts DEF Runnable, Coded
  <2>2. Here(code, Now, Translated, Start)
    BY <1>2, <1>4, <1>5, <2>1, StartFacts DEF Here
  <2>3. Runs(code, Now, Translated, Start)
    BY <1>2, <2>2, AllRun DEF Sound
  <2>4. code[pc].op = "jsr" => code[pc].arg \in Funs
    BY <2>3, NowHas DEF Runs, Fit
  <2> QED BY <1>2, <1>3, <2>3, <2>4 DEF Ready, Runnable, Coded, Instr
<1>6. CASE Arrived(Now, Translated, Start)
  <2>1. pc = Size(Translated, 0) + 1 /\ Found(Now, Translated, Start)
    BY <1>2, <1>3, <1>6, NowHas, StartFacts DEF Arrived, Runnable, Coded
  <2>2. Instr = TakeIt
    BY <1>3, <2>1 DEF Instr, Runnable, Coded
  <2>3. Instr.op = "take"
    BY <2>2, InstrHas DEF TakeIt
  <2>4. PICK t : t = program.type
    OBVIOUS
  <2>5. Takes(Instr) = <<t>>
    BY <2>2, <2>4, TakesWhat DEF TakeIt
  <2>6. Len(Now.stack) = 1 /\ Last(Now) = Now.stack[0 + 1]
    BY <2>1, StartFacts DEF Found, Last
  <2>7. Last(Now).t = t \/ BoolToFloat(Translated)
    BY <1>2, <2>1, <2>4, <2>6, StartFacts DEF Found, Result
  <2>8. Has(Now, <<t>>) \/ BoolToFloat(Translated)
    BY <1>4, <2>6, <2>7, HasOne
  <2> QED BY <1>2, <1>3, <1>6, <2>2, <2>3, <2>5, <2>8 DEF Ready, Runnable, Coded
<1> QED BY <1>3, <1>5, <1>6 DEF Within

-----------------------------------------------------------------------------
(* A step of the specification is one of the machine, on the same program. *)
LEMMA MachineSteps ==
  ASSUME Ready, Load \/ Compute \/ Jump \/ Jsr
  PROVE  StepRule(code, Now, Now') /\ KeepsRest /\ KeepsSeqs
BY LoadSteps, ComputeSteps, JumpSteps, JsrSteps

(* Where the value is taken the machine can only stop.                     *)
LEMMA NoStepAtTake ==
  ASSUME Instr.op = "take"
  PROVE  ~(Load \/ Compute \/ Jump \/ Jsr)
BY DEF Load, Compute, Jump, Jsr, Arith, Order, Equality

(* A step leads on inside the code, or to its end.                         *)
LEMMA StepsStayInside ==
  ASSUME Decided, Simulates, Load \/ Compute \/ Jump \/ Jsr
  PROVE  Simulates'
<1>1. UNCHANGED <<program, folds, status>> /\ status = "running"
  BY DEF Load, Compute, Jump, Jsr, Go, Fits, Running
<1>2. Keeps' <=> Keeps
  BY <1>1 DEF Keeps, FollowsRules, Unruly, Scalar, Array
<1>3. ASSUME Keeps PROVE Simulates'
  <2>1. /\ Runnable /\ Ready /\ Sound(Translated) /\ TYC[Translated].d = 0
        /\ Runs(code, Now, Translated, Start) \/ Instr.op = "take"
    BY <1>1, <1>3, WhereItIs
  <2>2. Runs(code, Now, Translated, Start)
    BY <2>1, NoStepAtTake
  <2>3. StepRule(code, Now, Now') /\ KeepsRest /\ KeepsSeqs
    BY <2>1, MachineSteps
  <2>4. Within(Now', Translated, Start)
    BY <2>2, <2>3 DEF Runs, Moves
  <2>5. Translated' = Translated
    BY <1>1 DEF Translated, Optimized
  <2>6. Within(Now, Translated, Start)'
    BY <2>4, <2>5 DEF Start
  <2>7. Runnable'
    <3>1. code' = code /\ held' = held /\ program' = program
      BY <2>3 DEF KeepsRest
    <3>2. Coded(Translated)'
      BY <2>1, <2>5, <3>1 DEF Runnable, Coded, TakeIt
    <3> QED BY <2>1, <2>3, <3>1, <3>2 DEF Runnable, KeepsSeqs
  <2> QED BY <1>1, <2>6, <2>7 DEF Simulates
<1> QED BY <1>2, <1>3 DEF Simulates

(* It stops for the reasons it should.                                     *)
LEMMA StopsRight ==
  ASSUME Decided, Simulates, Stop
  PROVE  Simulates'
<1>1. /\ UNCHANGED <<program, folds, code, pc, stack, held, calls>> /\ status = "running"
      /\ status' \in {"misfit", "done", "undefined"}
  BY DEF Stop, Running
<1>2. Keeps' <=> Keeps
  BY <1>1 DEF Keeps, FollowsRules, Unruly, Scalar, Array
<1>3. ASSUME Keeps PROVE Simulates'
  <2>1. /\ Runnable /\ Ready /\ Sound(Translated)
        /\ \/ Runs(code, Now, Translated, Start)
           \/ /\ Instr.op = "take" /\ Arrived(Now, Translated, Start)
              /\ Has(Now, Takes(Instr)) \/ BoolToFloat(Translated)
    BY <1>1, <1>3, WhereItIs
  <2>2. Instr = code[Now.pc]
    BY NowHas DEF Instr
  <2>3. Types(Operands) <=> Has(Now, Takes(Instr))
    BY <2>1, <2>2, ReadyFacts
  <2>4. Translated' = Translated /\ Now' = Now
    BY <1>1 DEF Translated, Optimized, Now
  <2>5. Runnable'
    BY <1>1, <2>1, <2>4 DEF Runnable, Coded, TakeIt
  <2>6. status' = "misfit" => BoolToFloat(Translated)
    <3>1. status' = "misfit" => ~Types(Operands)
      BY DEF Stop
    <3> QED BY <2>1, <2>2, <2>3, <3>1 DEF Runs, Fit
  <2>7. status' = "done" => Arrived(Now, Translated, Start)
    <3>1. status' = "done" => Instr.op = "take"
      BY DEF Stop
    <3> QED BY <2>1, <2>2, <3>1 DEF Runs, Fit
  <2>8. status' = "undefined" => (Exact(Translated) => Void(Now, Translated, Start))
    <3>1. SUFFICES ASSUME status' = "undefined" PROVE Exact(Translated) => Void(Now, Translated, Start)
      OBVIOUS
    <3>2. Types(Operands) /\ Instr.op \in {"div", "mod"} /\ NoValue(Instr.t, Instr.op, Args[1], Args[2])
      BY <3>1 DEF Stop
    <3>3. Len(Operands) = 2
      <4>1. Takes(Instr) = <<Instr.t, Instr.t>>
        BY <3>2 DEF Takes, Arith
      <4> QED BY <4>1 DEF Operands
    <3>4. NoValue(Instr.t, Instr.op, Under(Now).v, Last(Now).v)
      BY <2>1, <3>2, <3>3, TwoArgs
    <3>5. Blocked(code, Now)
      BY <2>2, <2>3, <3>2, <3>4 DEF Blocked
    <3> QED BY <2>1, <3>2, <3>5 DEF Runs, Worthless
  <2>9. /\ status' = "done" => Arrived(Now', Translated', Start)
        /\ status' = "undefined" => (Exact(Translated') => Void(Now', Translated', Start))
        /\ status' = "misfit" => BoolToFloat(Translated')
    BY <2>4, <2>6, <2>7, <2>8
  <2> QED BY <1>1, <2>5, <2>9 DEF Simulates, Start
<1> QED BY <1>2, <1>3 DEF Simulates

(* Simulates holds in every state.                                         *)
LEMMA SimulatesInvariant == Spec => []Simulates
<1>1. Decided /\ Simulates /\ [Next]_vars => Simulates'
  <2> SUFFICES ASSUME Decided, Simulates, [Next]_vars PROVE Simulates'
    OBVIOUS
  <2>1. CASE UNCHANGED vars
    <3>1. UNCHANGED <<program, folds, status, code, pc, stack, held, calls>>
      BY <2>1 DEF vars
    <3>2. Translated' = Translated /\ Now' = Now /\ (Keeps' <=> Keeps)
      BY <3>1 DEF Translated, Optimized, Now, Keeps, FollowsRules, Unruly, Scalar, Array
    <3>3. Keeps => Runnable'
      BY <3>1, <3>2 DEF Simulates, Runnable, Coded, TakeIt
    <3>4. Keeps => /\ status' = "running" => Within(Now', Translated', Start)
                   /\ status' = "done" => Arrived(Now', Translated', Start)
                   /\ status' = "undefined" => (Exact(Translated') => Void(Now', Translated', Start))
                   /\ status' = "misfit" => BoolToFloat(Translated')
                   /\ status' \in {"running", "done", "undefined", "misfit"}
      BY <3>1, <3>2 DEF Simulates
    <3> QED BY <3>2, <3>3, <3>4 DEF Simulates, Start
  <2>2. CASE Load \/ Compute \/ Jump \/ Jsr
    BY <2>2, StepsStayInside
  <2>3. CASE Stop
    BY <2>3, StopsRight
  <2> QED BY <2>1, <2>2, <2>3 DEF Next
<1> QED BY <1>1, StartsInside, DecidedInvariant, PTL DEF Spec

(* What TypeCheck lets through is what the code of CodeGen can run.        *)
THEOREM TypesAreAlwaysChecked == Spec => []TypesAreChecked
<1>1. Simulates /\ Decided => OperandsFit
  <2> SUFFICES ASSUME Simulates, Decided PROVE OperandsFit
    OBVIOUS
  <2>1. ASSUME FollowsRules(program), status = "misfit" PROVE BoolToFloat(Optimized(program.e))
    BY <2>1 DEF Simulates, Keeps, Translated
  <2>2. ASSUME FollowsRules(program), status = "done" PROVE Len(stack) = 1
    <3>1. Arrived(Now, Translated, Start)
      BY <2>2 DEF Simulates, Keeps
    <3>2. TYC[Translated].d = 0
      BY <2>2, GivenIsSound DEF Decided, Translated
    <3> QED BY <3>1, <3>2, NowHas, StartFacts DEF Arrived, Found
  <2> QED BY <2>1, <2>2 DEF OperandsFit
<1> QED BY <1>1, TypeCheckAlwaysFollowsRules, SimulatesInvariant, DecidedInvariant, PTL DEF TypesAreChecked

(* Folded or not, the value taken is the one the expression has as it is   *)
(* written, after the same calls.                                          *)
THEOREM ValueIsAlwaysAsWritten == Spec => []ValueIsAsWritten
<1>1. Simulates /\ Decided => ValueIsAsWritten
  <2> SUFFICES ASSUME Simulates, Decided, FollowsRules(program), status \in {"done", "undefined"},
                      PrintedExactly(program.e), PrintedExactly(Optimized(program.e)),
                      ~BoolToFloat(Optimized(program.e))
               PROVE  LET m == Meaning(held, calls)[program.e][0]
                      IN  /\ m.used = Len(calls) /\ m.ok = (status = "done")
                          /\ m.ok => stack = <<Value(m.t, m.v)>>
    BY DEF ValueIsAsWritten
  <2>1. program \in Programs /\ Accepted(program) /\ Crash \notin Nodes[Translated] /\ Keeps
    BY DEF Decided, Translated, Keeps
  <2>2. /\ Sound(Translated) /\ TYC[Translated].d = 0 /\ program.e \in Expr /\ TYC[program.e].ok /\ Ruly(program.e)
    BY <2>1, GivenIsSound
  <2>3. Exact(Translated)
    BY DEF Exact, Translated
  <2>4. Meaning(held, calls)[Translated][0] = Meaning(held, calls)[program.e][0]
    <3>1. CASE folds
      <4>1. Translated = CF[program.e]
        BY <3>1 DEF Translated, Optimized
      <4>2. 0 \in Nat
        OBVIOUS
      <4> QED BY <2>1, <2>2, <4>1, <4>2, FoldKeepsMeaning
    <3>2. CASE ~folds
      BY <3>2 DEF Translated, Optimized
    <3> QED BY <3>1, <3>2
  <2>5. PICK m : m = Meaning(held, calls)[program.e][0]
    OBVIOUS
  <2>6. m = Meaning(Now.held, Now.calls)[Translated][Start.k]
    BY <2>4, <2>5, NowHas, StartFacts
  <2>7. CASE status = "done"
    <3>1. Arrived(Now, Translated, Start) /\ IsSeq(stack)
      BY <2>1, <2>7 DEF Simulates, Runnable
    <3>2. Len(stack) = 1 /\ Result(Now, Translated, Start.k, stack[1], Len(calls))
      <4>1. Found(Now, Translated, Start)
        BY <2>2, <3>1 DEF Arrived
      <4>2. Start.h + 1 = 1
        BY StartFacts
      <4> QED BY <4>1, <4>2, NowHas DEF Found
    <3>3. PICK w : w = stack[1]
      OBVIOUS
    <3>4. w = Value(w.t, w.v) /\ m = Means(w.t, w.v, Len(calls))
      BY <2>3, <2>6, <3>2, <3>3 DEF Result, Worth
    <3>5. m.used = Len(calls) /\ m.ok = TRUE /\ m.t = w.t /\ m.v = w.v
      BY <3>4 DEF Means
    <3>6. stack = <<w>>
      <4>1. PICK S : stack \in Seq(S)
        BY <3>1 DEF IsSeq
      <4> QED BY <3>2, <3>3, <4>1
    <3>7. stack = <<Value(m.t, m.v)>>
      BY <3>4, <3>5, <3>6
    <3> QED BY <2>5, <2>7, <3>5, <3>7
  <2>8. CASE status = "undefined"
    <3>1. Void(Now, Translated, Start)
      BY <2>1, <2>3, <2>8 DEF Simulates
    <3>2. ~m.ok /\ m.used = Len(calls)
      BY <2>6, <3>1, NowHas DEF Void
    <3>3. m.ok = FALSE
      <4>1. 0 \in Nat
        OBVIOUS
      <4>2. Says(Meaning(held, calls)[program.e][0])
        BY <2>2, <4>1, MeaningSays
      <4>3. m.ok \in BOOLEAN
        BY <2>5, <4>2 DEF Says
      <4> QED BY <3>2, <4>3
    <3> QED BY <2>5, <2>8, <3>2, <3>3
  <2> QED BY <2>7, <2>8
<1> QED BY <1>1, SimulatesInvariant, DecidedInvariant, PTL
=============================================================================
