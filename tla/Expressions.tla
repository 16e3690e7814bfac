---------------------------- MODULE Expressions ----------------------------
(***************************************************************************)
(* The way of an expression through the compiler: TypeCheck accepts or     *)
(* rejects it, ConstantsFolding computes what is constant (unless the      *)
(* optimization phase is skipped), CodeGen emits instructions, and the     *)
(* virtual machine, modelled from the way CodeGen uses it, executes them   *)
(* on typed operands.  Meaning says what the expression is worth as it is  *)
(* written; a run carries the answers of the calls made so far, so that    *)
(* the two can be compared whatever the functions answer.                  *)
(*                                                                         *)
(* Integers have Width bits.  A float is a multiple of 1/Unit; what "%f"   *)
(* prints of one is a multiple of PrintStep / Unit.  Arrays have one       *)
(* dimension (ArrayFlatten leaves no other index).                         *)
(***************************************************************************)
EXTENDS Integers, Sequences

CONSTANTS Depth,      \* bound: how deep expressions are nested
          Programs,   \* records [use, type, e]: an expression and what takes its value
          VarType,    \* [type, dim] of each variable
          FunType,    \* [type, params] of each function
          Width, Unit, PrintStep,
          Held        \* Held[t]: what a variable of type t may hold, a call answer

VARIABLES program, folds,   \* the expression, and whether it is optimized
          status,           \* rejected, crashed, running, done, undefined, misfit
          code, pc, stack,
          held,             \* value of each variable
          calls             \* calls made: <<function, arguments, answer>>

vars == <<program, folds, status, code, pc, stack, held, calls>>
-----------------------------------------------------------------------------
(* Nodes.                                                                  *)
Lit(t, v) == [is |-> "lit", t |-> t, v |-> v]
VarRef(x) == [is |-> "varref", x |-> x]
Element(x, i) == [is |-> "element", x |-> x, i |-> i]
FunCall(f, args) == [is |-> "funcall", f |-> f, args |-> args]
Binop(op, l, r) == [is |-> "binop", op |-> op, l |-> l, r |-> r]
Monop(op, e) == [is |-> "monop", op |-> op, e |-> e]
TypeCast(t, e) == [is |-> "typecast", t |-> t, e |-> e]

Arith == {"add", "sub", "mul", "div", "mod"}
Order == {"lt", "le", "gt", "ge"}
Equality == {"eq", "ne"}
Numeric == {"int", "float"}
Basic == Numeric \cup {"bool"}
Vars == DOMAIN VarType
Funs == DOMAIN FunType

(* Where CF ended the compiler, in a division of ints.                     *)
Crash == [is |-> "crash", t |-> "int"]

(* Expressions: over nothing, over the expressions of a set, and all of a  *)
(* depth.                                                                  *)
Leaf == [is : {"lit"}, t : Numeric, v : Int] \cup [is : {"lit"}, t : {"bool"}, v : {0, 1}]
        \cup [is : {"varref"}, x : Vars] \cup {Crash}
Over(S) ==
  [is : {"element"}, x : Vars, i : S] \cup [is : {"funcall"}, f : Funs, args : Seq(S)]
  \cup [is : {"binop"}, op : Arith \cup Order \cup Equality \cup {"and", "or"}, l : S, r : S]
  \cup [is : {"monop"}, op : {"neg", "not"}, e : S] \cup [is : {"typecast"}, t : Basic, e : S]
Nested[n \in 0..Depth] == IF n = 0 THEN Leaf ELSE Leaf \cup Over(Nested[n - 1])
Expr == Nested[Depth]

Parts(e) == CASE e.is = "element" -> {e.i}
              [] e.is = "funcall" -> {e.args[k] : k \in DOMAIN e.args}
              [] e.is = "binop" -> {e.l, e.r}
              [] e.is \in {"monop", "typecast"} -> {e.e}
              [] OTHER -> {}
Nodes[e \in Expr] == {e} \cup UNION {Nodes[c] : c \in Parts(e)}

Uses == {"vardef", "assign", "condition", "bound", "return"}
ASSUME DepthAssumption == Depth \in Nat
ASSUME VarAssumption == VarType \in [Vars -> [type : Basic, dim : {0, 1}]]
ASSUME FunAssumption ==
  FunType \in [Funs -> [type : Basic \cup {"void"}, params : Seq([type : Basic, dim : {0, 1}])]]
ASSUME NumberAssumption ==
  /\ Unit \in Nat \ {0} /\ PrintStep \in Nat \ {0}
  /\ 2 ^ (Width - 1) \in Nat \ {0} /\ 2 ^ Width \in Nat \ {0}
ASSUME HeldAssumption == Held["bool"] \subseteq {0, 1}
(* The parser made the expression; what takes its value has a type.        *)
ASSUME ProgramsAssumption ==
  \A p \in Programs :
    /\ p.e \in Expr /\ Crash \notin Nodes[p.e] /\ p.use \in Uses /\ p.type \in Basic
    /\ p.use = "condition" => p.type = "bool"
    /\ p.use = "bound" => p.type = "int"
-----------------------------------------------------------------------------
(* TYC: type, dimensions and whether an error was reported.                *)
Typed(t, d, ok) == [t |-> t, d |-> d, ok |-> ok]

(* Mutation: the operands of && and || may be anything.                    *)
TYCbinopAnyLogic(op, l, r) ==
  Typed(IF op \in Arith THEN l.t ELSE "bool", 0,
        /\ l.ok /\ r.ok /\ l.t = r.t /\ l.d = 0 /\ r.d = 0
        /\ op \in Arith \cup Order => l.t \in Numeric \/ (op \in {"add", "mul"} /\ l.t = "bool"))
TYCbinop(op, l, r) ==
  Typed(IF op \in Arith THEN l.t ELSE "bool", 0,
        /\ l.ok /\ r.ok /\ l.t = r.t /\ l.d = 0 /\ r.d = 0
        /\ op \in Arith \cup Order => l.t \in Numeric \/ (op \in {"add", "mul"} /\ l.t = "bool")
        /\ op \in {"and", "or"} => l.t = "bool")
TYCmonop(op, e) ==
  Typed(IF op = "not" THEN "bool" ELSE e.t, 0,
        e.ok /\ e.d = 0 /\ IF op = "not" THEN e.t = "bool" ELSE e.t \in Numeric)
TYCfuncall(f, args) ==
  LET params == FunType[f].params
  IN  Typed(FunType[f].type, 0,
            /\ \A k \in DOMAIN args : args[k].ok
            /\ Len(args) = Len(params)
            /\ \A k \in DOMAIN args : args[k].t = params[k].type /\ args[k].d = params[k].dim)
TYCtypecast(t, e) == Typed(t, 0, e.ok /\ e.t # "void")
TYCvarref(x) == Typed(VarType[x].type, VarType[x].dim, TRUE)
TYCelement(x, i) == Typed(VarType[x].type, 0, i.ok /\ i.t = "int" /\ VarType[x].dim = 1)

(* A node, given the types of its parts.                                   *)
TYCnode(e, typed) ==
  CASE e.is \in {"lit", "crash"} -> Typed(e.t, 0, TRUE)
    [] e.is = "varref" -> TYCvarref(e.x)
    [] e.is = "element" -> TYCelement(e.x, typed[e.i])
    [] e.is = "funcall" -> TYCfuncall(e.f, [k \in DOMAIN e.args |-> typed[e.args[k]]])
    [] e.is = "binop" -> TYCbinop(e.op, typed[e.l], typed[e.r])
    [] e.is = "monop" -> TYCmonop(e.op, typed[e.e])
    [] e.is = "typecast" -> TYCtypecast(e.t, typed[e.e])
TYC[e \in Expr] == TYCnode(e, TYC)

(* What a statement asks of the type of its expression.  TYCassign does   *)
(* not look at the dimensions of the value, nor do conditions and bounds.  *)
TYCvardef(type, e) == e.ok /\ e.t = type /\ e.d = 0
TYCassign(type, e) == e.ok /\ e.t = type
TYCcondition(e) == e.ok /\ e.t = "bool"        \* if, while, do
TYCforstatement(e) == e.ok /\ e.t = "int"      \* init, until, step
TYCreturnstatement(type, e) == e.ok /\ e.t = type /\ e.d = 0
Accepted(p) ==
  LET e == TYC[p.e]
  IN  CASE p.use = "vardef" -> TYCvardef(p.type, e)
        [] p.use = "assign" -> TYCassign(p.type, e)
        [] p.use = "condition" -> TYCcondition(e)
        [] p.use = "bound" -> TYCforstatement(e)
        [] p.use = "return" -> TYCreturnstatement(p.type, e)
-----------------------------------------------------------------------------
(* C's arithmetic.  The machine's is the same.                             *)
Wrap(n) == ((n + 2 ^ (Width - 1)) % (2 ^ Width)) - 2 ^ (Width - 1)
MinInt == 0 - 2 ^ (Width - 1)
Quotient(a, b) ==     \* towards zero
  LET Size(n) == IF n < 0 THEN 0 - n ELSE n
      q == Size(a) \div Size(b)
  IN  IF (a < 0) = (b < 0) THEN q ELSE 0 - q
Truth(b) == IF b THEN 1 ELSE 0

Compared(op, a, b) == Truth(CASE op = "lt" -> a < b [] op = "le" -> a <= b
                              [] op = "gt" -> a > b [] op = "ge" -> a >= b
                              [] op = "eq" -> a = b [] op = "ne" -> a # b)
IntOp(op, a, b) == CASE op = "add" -> Wrap(a + b) [] op = "sub" -> Wrap(a - b)
                     [] op = "mul" -> Wrap(a * b) [] op = "div" -> Quotient(a, b)
                     [] op = "mod" -> a - b * Quotient(a, b)
                     [] OTHER -> Compared(op, a, b)
FloatOp(op, a, b) == CASE op = "add" -> a + b [] op = "sub" -> a - b
                       [] op = "mul" -> Quotient(a * b, Unit)
                       [] op = "div" -> Quotient(a * Unit, b)
                       [] OTHER -> Compared(op, a, b)
BoolOp(op, a, b) == Truth(CASE op \in {"and", "mul"} -> a = 1 /\ b = 1
                            [] op \in {"or", "add"} -> a = 1 \/ b = 1
                            [] op = "eq" -> a = b [] op = "ne" -> a # b)
OpOf(t, op, a, b) == CASE t = "int" -> IntOp(op, a, b) [] t = "float" -> FloatOp(op, a, b)
                       [] t = "bool" -> BoolOp(op, a, b)
ResultType(op, t) == IF op \in Arith THEN t ELSE "bool"
(* Dividing by zero has no value, nor has the least integer by -1.         *)
NoValue(t, op, a, b) == /\ op \in {"div", "mod"} /\ t \in Numeric
                        /\ b = 0 \/ (t = "int" /\ a = MinInt /\ b = 0 - 1)
Converted(from, to, v) ==
  CASE from = to \/ (from = "bool" /\ to = "int") -> v
    [] from # "bool" /\ to = "bool" -> Truth(v # 0)
    [] from # "float" /\ to = "float" -> v * Unit
    [] from = "float" /\ to = "int" -> Quotient(v, Unit)
-----------------------------------------------------------------------------
(* CF.  Dividing the least integer by -1 ends the compiler.                *)
Foldable(t, op) == CASE t = "int" -> op \notin {"and", "or"}
                     [] t = "float" -> op \notin {"and", "or", "mod"}
                     [] t = "bool" -> op \in {"and", "or", "add", "mul"} \cup Equality
Literals(l, r) == l.is = "lit" /\ r.is = "lit" /\ l.t = r.t
(* Mutation: zero is not asked for.                                        *)
CFbinopByZero(op, l, r) ==
  IF Literals(l, r) /\ Foldable(l.t, op)
  THEN IF NoValue(l.t, op, l.v, r.v) THEN Crash
       ELSE Lit(ResultType(op, l.t), OpOf(l.t, op, l.v, r.v))
  ELSE Binop(op, l, r)
CFbinop(op, l, r) ==
  IF Literals(l, r) /\ Foldable(l.t, op) /\ ~(op \in {"div", "mod"} /\ r.v = 0)
  THEN IF NoValue(l.t, op, l.v, r.v) THEN Crash
       ELSE Lit(ResultType(op, l.t), OpOf(l.t, op, l.v, r.v))
  ELSE Binop(op, l, r)
CFmonop(op, e) ==
  IF e.is # "lit" THEN Monop(op, e)
  ELSE CASE op = "neg" /\ e.t = "int" -> Lit("int", Wrap(0 - e.v))
         [] op = "neg" /\ e.t = "float" -> Lit("float", 0 - e.v)
         [] op = "not" /\ e.t = "bool" -> Lit("bool", 1 - e.v)
         [] OTHER -> Monop(op, e)
(* Mutation: a number becomes one of the other type as it is.              *)
CFtypecastSame(t, e) ==
  IF e.is = "lit" THEN Lit(t, IF t = "bool" THEN Converted(e.t, t, e.v) ELSE e.v) ELSE TypeCast(t, e)
CFtypecast(t, e) ==
  IF e.is = "lit" THEN Lit(t, Converted(e.t, t, e.v)) ELSE TypeCast(t, e)

CFnode(e, folded) ==
  CASE e.is \in {"lit", "varref", "crash"} -> e
    [] e.is = "element" -> Element(e.x, folded[e.i])
    [] e.is = "funcall" -> FunCall(e.f, [k \in DOMAIN e.args |-> folded[e.args[k]]])
    [] e.is = "binop" -> CFbinop(e.op, folded[e.l], folded[e.r])
    [] e.is = "monop" -> CFmonop(e.op, folded[e.e])
    [] e.is = "typecast" -> CFtypecast(e.t, folded[e.e])
CF[e \in Expr] == CFnode(e, CF)
-----------------------------------------------------------------------------
(* CGN: instructions, and the label counter behind them.                   *)
I(op, t, arg) == [op |-> op, t |-> t, arg |-> arg]
Emitted(instrs, n) == [code |-> instrs, next |-> n]
Label(kind, n) == I("label", "", <<kind, n>>)
To(op, kind, n) == I(op, "bool", <<kind, n>>)
Printed(t, v) == IF t = "float" THEN PrintStep * Quotient(v, PrintStep) ELSE v

CGNlit(t, v, n) == Emitted(<<I("const", t, Printed(t, v))>>, n)
(* A whole array is its reference and its dimension.                       *)
CGNvar(x, n) ==
  Emitted(IF VarType[x].dim = 0 THEN <<I("load", VarType[x].type, x)>>
          ELSE <<I("load", "ref", x), I("loaddim", "int", x)>>, n)
CGNelement(x, i) ==
  Emitted(i.code \o <<I("load", "ref", x), I("loada", VarType[x].type, x)>>, i.next)
CGNfuncall(f, args) ==
  Emitted(<<I("isrg", "links", f)>> \o args.code \o <<I("jsr", FunType[f].type, f)>>, args.next)

(* The right operand of && and || is jumped over when the left one decides. *)
CGNshort(kind, n, l, r) ==
  Emitted(l.code \o <<To(IF kind = "and" THEN "branch_f" ELSE "branch_t", kind, n)>>
          \o r.code \o <<To("jump", "end", n + 1), Label(kind, n),
                         I("const", "bool", Truth(kind = "or")), Label("end", n + 1)>>, r.next)
CGNbinop(op, t, l, r) ==
  Emitted(l.code \o r.code \o <<I(op, IF op = "mod" THEN "int" ELSE t, "")>>, r.next)
CGNmonop(op, t, e) ==
  Emitted(Append(e.code, IF op = "neg" THEN I("neg", t, "") ELSE I("not", "bool", "")), e.next)
(* There is no instruction from bool to int: two constants and a branch.   *)
(* A cast from bool to float emits nothing.                                *)
CGNtypecast(to, from, e) ==
  Emitted(e.code \o
    CASE from = to \/ (to = "float" /\ from # "int") -> <<>>
      [] to = "float" /\ from = "int" -> <<I("i2f", "int", "")>>
      [] to = "int" /\ from = "float" -> <<I("f2i", "float", "")>>
      [] to = "int" /\ from = "bool" ->
           <<To("branch_t", "true", e.next), I("const", "int", 0),
             To("jump", "cast", e.next + 1), Label("true", e.next),
             I("const", "int", 1), Label("cast", e.next + 1)>>
      [] to = "bool" /\ from # "bool" -> <<I("const", from, 0), I("ne", from, "")>>,
    e.next + 2)

(* The arguments up to each one; each continues the labels.                *)
CGNexprs(emit, n) ==
  LET upTo[k \in 0..Len(emit)] ==
        IF k = 0 THEN Emitted(<<>>, n)
        ELSE LET new == emit[k][upTo[k - 1].next]
             IN  Emitted(upTo[k - 1].code \o new.code, new.next)
  IN  upTo
(* A node, given the code of its parts for each value of the counter.      *)
CGNnode(e, emit, n) ==
  CASE e.is = "lit" -> CGNlit(e.t, e.v, n)
    [] e.is = "varref" -> CGNvar(e.x, n)
    [] e.is = "element" -> CGNelement(e.x, emit[e.i][n])
    [] e.is = "funcall" ->
         CGNfuncall(e.f, CGNexprs([k \in DOMAIN e.args |-> emit[e.args[k]]], n)[Len(e.args)])
    [] e.is = "binop" /\ e.op \in {"and", "or"} ->
         LET l == emit[e.l][n + 2] IN CGNshort(e.op, n, l, emit[e.r][l.next])
    [] e.is = "binop" /\ e.op \notin {"and", "or"} ->
         LET l == emit[e.l][n] IN CGNbinop(e.op, TYC[e.l].t, l, emit[e.r][l.next])
    [] e.is = "monop" -> CGNmonop(e.op, TYC[e.e].t, emit[e.e][n])
    [] e.is = "typecast" -> CGNtypecast(e.t, TYC[e.e].t, emit[e.e][n])
    [] e.is = "crash" -> Emitted(<<>>, n)
CGN[e \in Expr] == [n \in Nat |-> CGNnode(e, CGN, n)]
Optimized(e) == IF folds THEN CF[e] ELSE e
Compiled(p) == Append(CGN[Optimized(p.e)][0].code, I("take", p.type, p.use))
-----------------------------------------------------------------------------
(* The compiler, then the machine.                                         *)
Init ==
  /\ program \in Programs /\ folds \in BOOLEAN
  /\ status = IF ~Accepted(program) THEN "rejected"
              ELSE IF Crash \in Nodes[Optimized(program.e)] THEN "crashed" ELSE "running"
  /\ code = IF status = "running" THEN Compiled(program) ELSE <<>>
  /\ LET used == {k \in {code[j] : j \in DOMAIN code} : (k.op = "load" /\ k.t # "ref") \/ k.op = "loada"}
     IN  held \in {h \in [{k.arg : k \in used} -> UNION {Held[k.t] : k \in used}] :
                     \A x \in DOMAIN h : h[x] \in Held[VarType[x].type]}
  /\ pc = 1 /\ stack = <<>> /\ calls = <<>>

Instr == code[pc]
Top(n) == SubSeq(stack, Len(stack) - n + 1, Len(stack))    \* the n last operands
Below(n) == SubSeq(stack, 1, Len(stack) - n)
Types(types) == /\ Len(stack) >= Len(types)
                /\ \A k \in DOMAIN types : Top(Len(types))[k].t = types[k]
Value(t, v) == [t |-> t, v |-> v]
Place(label) == CHOOSE k \in DOMAIN code : code[k] = Label(label[1], label[2])
(* What the parameters up to each one take: an array parameter its         *)
(* reference and its dimension.                                            *)
SlotsUpTo(f) ==
  LET upTo[k \in 0..Len(FunType[f].params)] ==
        IF k = 0 THEN <<>>
        ELSE upTo[k - 1] \o IF FunType[f].params[k].dim = 0 THEN <<FunType[f].params[k].type>>
                            ELSE <<"ref", "int">>
  IN  upTo
Slots(f) == SlotsUpTo(f)[Len(FunType[f].params)]

(* The operands an instruction takes.                                      *)
Takes(i) ==
  CASE i.op \in Arith \cup Order \cup Equality -> <<i.t, i.t>>
    [] i.op \in {"neg", "not", "i2f", "f2i", "take"} -> <<i.t>>
    [] i.op \in {"branch_t", "branch_f"} -> <<"bool">>
    [] i.op = "loada" -> <<"int", "ref">>
    [] i.op = "jsr" -> <<"links">> \o Slots(i.arg)
    [] OTHER -> <<>>
Operands == Takes(Instr)
Running == status = "running"
Fits == Running /\ Types(Operands)

Push(v) == stack' = Append(Below(Len(Operands)), v)
Go == pc' = pc + 1 /\ UNCHANGED <<program, folds, status, code, held, calls>>
Args == [k \in DOMAIN Operands |-> Top(Len(Operands))[k].v]

Load ==
  /\ Fits
  /\ \/ Instr.op = "const" /\ Push(Value(Instr.t, Instr.arg))
     \/ Instr.op = "isrg" /\ Push(Value("links", 0))
     \/ Instr.op = "load" /\ Push(Value(Instr.t, IF Instr.t = "ref" THEN 0 ELSE held[Instr.arg]))
     \/ Instr.op = "loaddim" /\ Push(Value("int", 1))
     \/ Instr.op = "loada" /\ Push(Value(Instr.t, held[Instr.arg]))
  /\ Go
Compute ==
  /\ Fits
  /\ \/ /\ Instr.op \in Arith \cup Order \cup Equality
        /\ ~NoValue(Instr.t, Instr.op, Args[1], Args[2])
        /\ Push(Value(ResultType(Instr.op, Instr.t), OpOf(Instr.t, Instr.op, Args[1], Args[2])))
     \/ /\ Instr.op = "neg"
        /\ Push(Value(Instr.t, IF Instr.t = "int" THEN Wrap(0 - Args[1]) ELSE 0 - Args[1]))
     \/ Instr.op = "not" /\ Push(Value("bool", 1 - Args[1]))
     \/ Instr.op = "i2f" /\ Push(Value("float", Converted("int", "float", Args[1])))
     \/ Instr.op = "f2i" /\ Push(Value("int", Converted("float", "int", Args[1])))
  /\ Go
Jump ==
  /\ Fits
  /\ \/ Instr.op = "jump" /\ pc' = Place(Instr.arg) /\ UNCHANGED stack
     \/ Instr.op = "label" /\ pc' = pc + 1 /\ UNCHANGED stack
     \/ /\ Instr.op \in {"branch_t", "branch_f"} /\ stack' = Below(1)
        /\ pc' = IF (Args[1] = 1) = (Instr.op = "branch_t") THEN Place(Instr.arg) ELSE pc + 1
  /\ UNCHANGED <<program, folds, status, code, held, calls>>
Jsr ==
  /\ Fits /\ Instr.op = "jsr"
  /\ \E v \in IF Instr.t = "void" THEN {0} ELSE Held[Instr.t] :
       /\ calls' = Append(calls, <<Instr.arg, Tail(Args), v>>)
       /\ IF Instr.t = "void" THEN stack' = Below(Len(Operands)) ELSE Push(Value(Instr.t, v))
  /\ pc' = pc + 1 /\ UNCHANGED <<program, folds, status, code, held>>
Stop ==
  /\ Running
  /\ \/ ~Types(Operands) /\ status' = "misfit"
     \/ Types(Operands) /\ Instr.op = "take" /\ status' = "done"
     \/ /\ Types(Operands) /\ Instr.op \in {"div", "mod"}
        /\ NoValue(Instr.t, Instr.op, Args[1], Args[2]) /\ status' = "undefined"
  /\ UNCHANGED <<program, folds, code, pc, stack, held, calls>>

Next == Load \/ Compute \/ Jump \/ Jsr \/ Stop
Spec == Init /\ [][Next]_vars
-----------------------------------------------------------------------------
(* What an expression means as it is written, given the values of the      *)
(* variables and the calls made.  A meaning has the value, if there is     *)
(* one, and how many of the calls were made then; a call that is not the   *)
(* next one made ends it.                                                  *)
Means(t, v, used) == [t |-> t, v |-> v, used |-> used, ok |-> TRUE]
Nothing(used) == [t |-> "none", v |-> 0, used |-> used, ok |-> FALSE]

(* The arguments up to each one, given the meaning of each by the calls    *)
(* made before it.                                                         *)
MeaningOfArg(arg, meant, done) ==
  LET new == meant[done.used]
  IN  IF ~done.ok THEN done
      ELSE IF arg.is = "varref" /\ VarType[arg.x].dim > 0
      THEN Means("args", done.v \o <<0, 1>>, done.used)
      ELSE IF new.ok THEN Means("args", Append(done.v, new.v), new.used)
      ELSE new
MeaningOfArgs(args, meant, used) ==
  LET upTo[k \in 0..Len(args)] ==
        IF k = 0 THEN Means("args", <<>>, used) ELSE MeaningOfArg(args[k], meant[k], upTo[k - 1])
  IN  upTo
MeaningOfCall(f, args, made) ==
  LET next == made[args.used + 1]
  IN  IF ~args.ok THEN args
      ELSE IF args.used >= Len(made) \/ next[1] # f \/ next[2] # args.v THEN Nothing(args.used)
      ELSE Means(FunType[f].type, next[3], args.used + 1)
MeaningOfBinop(op, l, r) ==
  IF ~l.ok THEN l
  ELSE IF op \in {"and", "or"} /\ l.v = Truth(op = "or") THEN l
  ELSE IF ~r.ok \/ op \in {"and", "or"} THEN r
  ELSE IF NoValue(l.t, op, l.v, r.v) THEN Nothing(r.used)
  ELSE Means(ResultType(op, l.t), OpOf(l.t, op, l.v, r.v), r.used)
MeaningOfMonop(op, e) ==
  IF ~e.ok THEN e
  ELSE IF op = "not" THEN Means("bool", 1 - e.v, e.used)
  ELSE Means(e.t, IF e.t = "int" THEN Wrap(0 - e.v) ELSE 0 - e.v, e.used)
MeaningOfNode(e, meant, values, made, used) ==
  CASE e.is = "lit" -> Means(e.t, e.v, used)
    [] e.is = "varref" -> Means(VarType[e.x].type, values[e.x], used)
    [] e.is = "element" ->
         LET index == meant[e.i][used]
         IN  IF index.ok THEN Means(VarType[e.x].type, values[e.x], index.used) ELSE index
    [] e.is = "funcall" ->
         MeaningOfCall(e.f, MeaningOfArgs(e.args, [k \in DOMAIN e.args |-> meant[e.args[k]]], used)
                              [Len(e.args)], made)
    [] e.is = "binop" ->
         LET l == meant[e.l][used] IN MeaningOfBinop(e.op, l, meant[e.r][l.used])
    [] e.is = "monop" -> MeaningOfMonop(e.op, meant[e.e][used])
    [] e.is = "typecast" ->
         LET v == meant[e.e][used]
         IN  IF v.ok THEN Means(e.t, Converted(v.t, e.t, v.v), v.used) ELSE v
    [] e.is = "crash" -> Nothing(used)
Meaning(values, made) ==
  LET meant[e \in Expr] == [used \in Nat |-> MeaningOfNode(e, meant, values, made, used)]
  IN  meant

(* The rules of the language: an array is an argument or is indexed, an    *)
(* operator has operands of one type it is made for.                       *)
Scalar(e) == TYC[e].d = 0
Array(e) == TYC[e].d > 0
Unruly(e) ==
  \/ e.is = "element" /\ Array(e.i)
  \/ e.is = "typecast" /\ Array(e.e)
  \/ e.is = "binop" /\ e.op = "mod" /\ TYC[e.l].t = "float"
  \/ e.is = "binop" /\ e.op \in Equality /\ TYC[e.l].t = "void"
FollowsRules(p) == /\ \A e \in Nodes[p.e] : ~Unruly(e)
                   /\ Scalar(p.e)
Suits(e) ==
  CASE e.is = "element" -> TYC[e.i].t = "int" /\ VarType[e.x].dim = 1
    [] e.is = "funcall" -> TYCfuncall(e.f, [k \in DOMAIN e.args |-> [TYC[e.args[k]] EXCEPT !.ok = TRUE]]).ok
    [] e.is = "binop" ->
         /\ TYC[e.l].t = TYC[e.r].t /\ Scalar(e.l) /\ Scalar(e.r)
         /\ <<e.op, TYC[e.l].t>> \in
              (Arith \cup Order \cup Equality) \X {"int"}
              \cup (((Arith \ {"mod"}) \cup Order \cup Equality) \X {"float"})
              \cup (({"add", "mul", "and", "or"} \cup Equality) \X {"bool"})
    [] e.is = "monop" -> Scalar(e.e) /\ <<e.op, TYC[e.e].t>> \in
                           {<<"neg", "int">>, <<"neg", "float">>, <<"not", "bool">>}
    [] e.is = "typecast" -> TYC[e.e].t # "void"
    [] OTHER -> TRUE
WellTyped(p) == /\ FollowsRules(p) /\ TYC[p.e].t = p.type
                /\ \A e \in Nodes[p.e] : Suits(e)
BoolToFloat(e) == \E c \in Nodes[e] : c.is = "typecast" /\ c.t = "float" /\ TYC[c.e].t = "bool"
PrintedExactly(e) == \A c \in Nodes[e] : c.is = "lit" => Printed(c.t, c.v) = c.v
-----------------------------------------------------------------------------
(* TypeCheck accepts every well-typed expression, and what it accepts      *)
(* beyond the rules is only this: an array used as an index, cast, or      *)
(* taken by a statement other than a definition or a return; % of floats;  *)
(* a comparison of two calls of void functions.                            *)
TypeCheckFollowsRules ==
  /\ WellTyped(program) => status # "rejected"
  /\ status # "rejected" => \/ WellTyped(program)
                            \/ (Array(program.e) /\ program.use \notin {"vardef", "return"})
                            \/ \E e \in Nodes[program.e] : Unruly(e)

(* The code of an expression that keeps the rules never finds an operand   *)
(* of a type its instruction is not made for, and leaves on the stack      *)
(* exactly the one value that is taken, unless a cast from bool to float   *)
(* is left for the machine.                                                *)
OperandsFit ==
  /\ FollowsRules(program) /\ status = "misfit" => BoolToFloat(Optimized(program.e))
  /\ FollowsRules(program) /\ status = "done" => Len(stack) = 1

(* What TypeCheck lets through is what the code of CodeGen can run.        *)
TypesAreChecked == TypeCheckFollowsRules /\ OperandsFit

(* Folded or not, the value taken is the one the expression has as it is   *)
(* written, the same calls are made in the same order with the same        *)
(* arguments, and the machine finds no value where there is none.  Only    *)
(* floats the assembly file cannot hold make a difference.                 *)
ValueIsAsWritten ==
  /\ FollowsRules(program) /\ status \in {"done", "undefined"}
  /\ PrintedExactly(program.e) /\ PrintedExactly(Optimized(program.e))
  /\ ~BoolToFloat(Optimized(program.e))
  => LET m == Meaning(held, calls)[program.e][0]
     IN  /\ m.used = Len(calls) /\ m.ok = (status = "done")
         /\ m.ok => stack = <<Value(m.t, m.v)>>

(* Folding leaves no constant operation behind: what contains no variable  *)
(* and no call is a literal in the end, unless it has no value somewhere.  *)
ConstantsAreFolded ==
  status # "rejected" /\ folds /\ FollowsRules(program) =>
    \A e \in Nodes[CF[program.e]] :
      \/ e.is \in {"lit", "varref", "funcall", "element", "crash"}
      \/ \E n \in Nodes[e] : n.is \in {"varref", "funcall", "element", "crash"}
      \/ \E n \in Nodes[e] : n.is = "binop" /\ n.op \in {"div", "mod"} /\ n.r = Lit(TYC[n.r].t, 0)

(* Folding asks for zero before it divides; only the least integer divided *)
(* by -1 ends the compiler.                                                *)
OnlyLeastIntegerCrashes ==
  status = "crashed" => \E e \in Nodes[program.e] :
    /\ e.is = "binop" /\ e.op \in {"div", "mod"}
    /\ CF[e.l] = Lit("int", MinInt) /\ CF[e.r] = Lit("int", 0 - 1)

(* Folding computes everything that is constant, and its own division      *)
(* ends the compiler in one case only.                                     *)
FoldingIsComplete == ConstantsAreFolded /\ OnlyLeastIntegerCrashes
=============================================================================
