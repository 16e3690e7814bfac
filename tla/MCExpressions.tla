--------------------------- MODULE MCExpressions ---------------------------
(* Instances for TLC: all operators on all leaves, and nests of two where  *)
(* folding, evaluation order or types make a difference.                   *)
EXTENDS Expressions
CONSTANTS i, x, b, a, f, g, h, p
MCVarType == [v \in {i, x, b, a} |->
  CASE v = i -> [type |-> "int", dim |-> 0] [] v = x -> [type |-> "float", dim |-> 0]
    [] v = b -> [type |-> "bool", dim |-> 0] [] v = a -> [type |-> "int", dim |-> 1]]
Params(types) == [k \in DOMAIN types |-> [type |-> types[k][1], dim |-> types[k][2]]]
MCFunType == [n \in {f, g, h, p} |->
  CASE n = f -> [type |-> "int", params |-> Params(<<<<"int", 0>>>>)]
    [] n = g -> [type |-> "bool", params |-> <<>>]
    [] n = h -> [type |-> "void", params |-> <<>>]
    [] n = p -> [type |-> "float", params |-> Params(<<<<"int", 1>>, <<"float", 0>>>>)]]
MCHeld == [t \in {"int", "float", "bool"} |->
  CASE t = "int" -> {-2, 0, 3} [] t = "float" -> {-3, 0, 2} [] t = "bool" -> {0, 1}]

Literals3 == {Lit("int", 0), Lit("int", 1), Lit("int", 3), Lit("float", 0), Lit("float", 1),
              Lit("float", 2), Lit("bool", 0), Lit("bool", 1)}
CallG == FunCall(g, <<>>)
CallF(e) == FunCall(f, <<e>>)
Leaves == Literals3 \cup {VarRef(v) : v \in {i, x, b, a}} \cup
          {Element(a, VarRef(i)), CallG, FunCall(h, <<>>), CallF(Lit("int", 1))}
Ops == Arith \cup Order \cup Equality \cup {"and", "or"}
Flat == {Binop(op, l, r) : op \in Ops, l \in Leaves, r \in Leaves}
        \cup {Monop(op, e) : op \in {"neg", "not"}, e \in Leaves}
        \cup {TypeCast(t, e) : t \in {"int", "float", "bool"}, e \in Leaves}
        \cup {CallF(e) : e \in Leaves} \cup {Element(a, e) : e \in Leaves}
        \cup {FunCall(p, <<l, r>>) : l \in {VarRef(a), VarRef(i)}, r \in Leaves}
        \cup {FunCall(g, <<VarRef(i)>>)}

\* Operands worth nesting: constants that fold, calls, what has no value.
Minus(n) == Monop("neg", Lit("int", n))
Nestable == {Binop("div", Lit("int", 1), Lit("int", 0)), Binop("sub", Minus(3), Lit("int", 1)),
             Binop("sub", Minus(7), Lit("int", 1)), Minus(1),
             Binop("lt", VarRef(i), CallF(VarRef(i))), Binop("and", CallG, VarRef(b)),
             Binop("or", VarRef(b), CallG), Monop("not", CallG), Monop("not", Lit("bool", 1)),
             Binop("mul", VarRef(x), Lit("float", 1)), Binop("mul", Lit("float", 3), Lit("float", 3)),
             Binop("mod", VarRef(x), Lit("float", 2)), TypeCast("int", Lit("float", 3)),
             TypeCast("int", VarRef(b)), TypeCast("float", VarRef(b)), TypeCast("float", VarRef(i)),
             TypeCast("float", Lit("bool", 1)), TypeCast("int", CallG), TypeCast("bool", VarRef(x)),
             TypeCast("bool", CallF(VarRef(i))), CallF(Element(a, Minus(1)))}
Deep == {Binop(op, l, r) : op \in Ops, l \in Nestable, r \in Nestable}
        \cup {Binop(op, l, r) : op \in {"and", "or", "add", "div"}, l \in Nestable, r \in Leaves}
        \cup {Monop(op, e) : op \in {"neg", "not"}, e \in Nestable}
        \cup {TypeCast(t, e) : t \in {"int", "float", "bool"}, e \in Nestable}
        \cup {CallF(e) : e \in Nestable} \cup {FunCall(p, <<VarRef(a), e>>) : e \in Nestable}

MCUses == {<<"vardef", "int">>, <<"vardef", "float">>, <<"assign", "int">>, <<"assign", "bool">>,
           <<"condition", "bool">>, <<"bound", "int">>, <<"return", "float">>, <<"return", "int">>}
Taken(use, type, e) == [use |-> use, type |-> type, e |-> e]
MCPrograms == {Taken("assign", TYC[e].t, e) : e \in {n \in Flat \cup Deep : TYC[n].t # "void"}}
              \cup {Taken(u[1], u[2], e) : u \in MCUses, e \in Leaves \cup Nestable}
=============================================================================
