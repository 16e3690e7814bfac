------------------------------ MODULE StmtCode ------------------------------
(***************************************************************************)
(* From statements to code that runs.  ForToWhile, WhileToDoWhile and      *)
(* voidReturn rewrite the body of a function, CodeGen emits instructions   *)
(* with labels for what is left: if, do, assignments, calls and return.    *)
(* The traversals are functions on trees; what the code does is seen by    *)
(* running it on the CiviC virtual machine, a binary in the repository     *)
(* (vm/), modelled here from the way CodeGen uses it.                      *)
(*                                                                         *)
(* Each run carries along, in `todo` and `env`, what the body as written   *)
(* has left to do: Structured, run with the same answers.                  *)
(***************************************************************************)
EXTENDS Statements, Integers, SequencesExt

CONSTANTS Programs, LoopVars, Answers, MaxEvents, MaxSilent

VARIABLES body,    \* the body that is compiled
          code,    \* the instructions emitted
          pc,      \* next instruction
          stack,   \* operands
          frame,   \* local variables
          out,     \* calls made
          todo,    \* history: what Structured has left to do
          env      \* history: the variables of Structured

machine == <<body, code, pc, stack, frame, out>>
vars == <<machine, todo, env>>
Source == INSTANCE Structured
-----------------------------------------------------------------------------
(* Nodes the traversals make.                                              *)
Var(x) == [is |-> "var", x |-> x]
Plus(l, r) == [is |-> "plus", l |-> l, r |-> r]
Compare(op, l, r) == [is |-> "compare", op |-> op, l |-> l, r |-> r]
Assign(x, e) == [is |-> "assign", x |-> x, e |-> e]

(* FTWforstatement asks the step's node, not its value: any other          *)
(* expression makes a loop for each direction.                             *)
IsConstant(step) == step.is \in {"num", "neg"}
IsNegative(step) == \/ step.is = "num" /\ step.n < 0
                    \/ step.is = "neg" /\ step.n > 0
(* Mutation: a constant step is taken to count upwards.                    *)
UpwardsAlways(step) == "ilt"
Direction(step) == IF IsNegative(step) THEN "igt" ELSE "ilt"

RECURSIVE FTW(_)
FTWblock(stmts) == FlattenSeq([i \in DOMAIN stmts |-> FTW(stmts[i])])
FTWfor(s) ==
  LET round == Append(FTWblock(s.body), Assign(s.x, Plus(Var(s.x), s.step)))
      Loop(op) == While(Compare(op, Var(s.x), s.until), round)
  IN  <<Assign(s.x, s.init),
        IF IsConstant(s.step) THEN Loop(Direction(s.step))
        ELSE If(Compare("ige", s.step, Num(0)),
                       <<Loop("ilt")>>, <<Loop("igt")>>)>>
FTW(s) == CASE s.is = "for" -> FTWfor(s)
            [] s.is = "if" -> <<[s EXCEPT !.then = FTWblock(@), !.else = FTWblock(@)]>>
            [] s.is \in {"while", "do"} -> <<[s EXCEPT !.body = FTWblock(@)]>>
            [] OTHER -> <<s>>

(* WDWwhilestatement: if (c) do { ... } while (c).                         *)
IfDo(c, round) == If(c, <<Do(round, c)>>, <<>>)
RECURSIVE WDW(_)
WDWblock(stmts) == [i \in DOMAIN stmts |-> WDW(stmts[i])]
WDW(s) == CASE s.is = "while" -> IfDo(s.c, WDWblock(s.body))
            [] s.is = "if" -> [s EXCEPT !.then = WDWblock(@), !.else = WDWblock(@)]
            [] s.is = "do" -> [s EXCEPT !.body = WDWblock(@)]
            [] OTHER -> s

(* VRfundef, for a void function: a return unless the last statement is    *)
(* one.  Mutation: unless there is a return anywhere.                      *)
VRanywhere(stmts) ==
  IF \E i \in DOMAIN stmts : stmts[i].is \in {"return", "if"} THEN stmts
  ELSE Append(stmts, Return)
VR(stmts) == IF stmts # <<>> /\ Last(stmts).is = "return" THEN stmts
             ELSE Append(stmts, Return)
-----------------------------------------------------------------------------
(* CGN: instructions, and the label counter before and after.              *)
Op(op) == <<[op |-> op]>>
Arg(op, a) == <<[op |-> op, arg |-> a]>>
Label(kind, n) == Arg("label", <<kind, n>>)
To(op, kind, n) == Arg(op, <<kind, n>>)

RECURSIVE CGNint(_)
CGNint(e) == CASE e.is = "num" -> Arg("iloadc", e.n)
               [] e.is = "neg" -> Arg("iloadc", e.n) \o Op("ineg")
               [] e.is = "get" -> Arg("get", e.k)
               [] e.is = "var" -> Arg("iload", e.x)
               [] e.is = "plus" -> CGNint(e.l) \o CGNint(e.r) \o Op("iadd")

(* CGNbinop of && and ||: the right operand is jumped over when the left   *)
(* one decides.                                                            *)
ShortCircuit(c, n, l, r) ==
  LET branch == IF c.is = "and" THEN "branch_f" ELSE "branch_t"
      value == IF c.is = "and" THEN "bloadc_f" ELSE "bloadc_t"
  IN  l.code \o To(branch, c.is, n) \o r.code \o To("jump", "sc_end", n + 1)
      \o Label(c.is, n) \o Op(value) \o Label("sc_end", n + 1)
RECURSIVE CGNcond(_, _)
CGNcond(c, n) ==
  CASE c.is = "ask" -> [code |-> Arg("ask", c.k), next |-> n]
    [] c.is = "compare" -> [code |-> CGNint(c.l) \o CGNint(c.r) \o Op(c.op), next |-> n]
    [] c.is = "not" -> [CGNcond(c.c, n) EXCEPT !.code = @ \o Op("bnot")]
    [] c.is \in {"and", "or"} ->
         LET l == CGNcond(c.l, n + 2)
             r == CGNcond(c.r, l.next)
         IN  [code |-> ShortCircuit(c, n, l, r), next |-> r.next]

(* CGNfuncallstmt: a result nobody uses is popped.                         *)
(* Mutation: it is left.                                                   *)
UnusedStays == <<>>
Unused == Op("ipop")

RECURSIVE CGN(_, _)
CGNblock(stmts, n) ==
  FoldLeft(LAMBDA done, s : LET new == CGN(s, done.next)
                            IN  [code |-> done.code \o new.code, next |-> new.next],
           [code |-> <<>>, next |-> n], stmts)
CGNif(s, n) ==
  LET cond == CGNcond(s.c, n + 2)
      then == CGNblock(s.then, cond.next)
      else == CGNblock(s.else, then.next)
  IN  [next |-> else.next,
       code |-> cond.code \o
         IF s.else = <<>>
         THEN To("branch_f", "end", n + 1) \o then.code \o Label("end", n + 1)
         ELSE To("branch_f", "else", n) \o then.code \o To("jump", "end", n + 1)
              \o Label("else", n) \o else.code \o Label("end", n + 1)]
CGNdo(s, n) ==
  LET round == CGNblock(s.body, n + 1)
      cond == CGNcond(s.c, round.next)
  IN  [next |-> cond.next,
       code |-> Label("loop", n) \o round.code \o cond.code \o To("branch_t", "loop", n)]
CGN(s, n) ==
  CASE s.is = "if" -> CGNif(s, n)
    [] s.is = "do" -> CGNdo(s, n)
    [] s.is = "assign" -> [code |-> CGNint(s.e) \o Arg("istore", s.x), next |-> n]
    [] s.is = "call" -> [code |-> Arg("call", s.k), next |-> n]
    [] s.is = "drop" -> [code |-> Arg("get", s.k) \o Unused, next |-> n]
    [] s.is = "show" -> [code |-> Arg("iload", s.x) \o Op("show"), next |-> n]
    [] s.is = "return" -> [code |-> Op("return"), next |-> n]

Compiled(stmts) == CGNblock(VR(WDWblock(FTWblock(stmts))), 0).code
-----------------------------------------------------------------------------
(* The machine.  A call (isrg, arguments, jsr) is one instruction.         *)
Init ==
  /\ body \in Programs
  /\ code = Compiled(body)
  /\ pc = 1 /\ stack = <<>> /\ frame = [x \in LoopVars |-> 0] /\ out = <<>>
  /\ todo = Source!Start(body).todo /\ env = Source!Start(body).env

Running == pc \in DOMAIN code
Instr == code[pc]
Top == Last(stack)
Pop == Front(stack)
Second == Last(Front(stack))
Place(label) == CHOOSE i \in DOMAIN code : code[i] = [op |-> "label", arg |-> label]

Compute ==
  /\ Running
  /\ \/ /\ Instr.op = "iloadc" /\ stack' = Append(stack, Instr.arg)
     \/ /\ Instr.op = "iload" /\ stack' = Append(stack, frame[Instr.arg])
     \/ /\ Instr.op = "bloadc_t" /\ stack' = Append(stack, TRUE)
     \/ /\ Instr.op = "bloadc_f" /\ stack' = Append(stack, FALSE)
     \/ /\ Instr.op = "ineg" /\ stack' = Append(Pop, 0 - Top)
     \/ /\ Instr.op = "bnot" /\ stack' = Append(Pop, ~Top)
     \/ /\ Instr.op = "iadd" /\ stack' = Append(Front(Pop), Second + Top)
     \/ /\ Instr.op = "ilt" /\ stack' = Append(Front(Pop), Second < Top)
     \/ /\ Instr.op = "igt" /\ stack' = Append(Front(Pop), Second > Top)
     \/ /\ Instr.op = "ige" /\ stack' = Append(Front(Pop), Second >= Top)
     \/ /\ Instr.op = "ipop" /\ stack' = Pop
     \/ /\ Instr.op = "label" /\ UNCHANGED stack
  /\ pc' = pc + 1
  /\ UNCHANGED <<body, code, frame, out>>

Store ==
  /\ Running /\ Instr.op = "istore"
  /\ frame' = [frame EXCEPT ![Instr.arg] = Top]
  /\ stack' = Pop /\ pc' = pc + 1
  /\ UNCHANGED <<body, code, out>>

Jump ==
  /\ Running
  /\ \/ /\ Instr.op = "jump" /\ pc' = Place(Instr.arg) /\ UNCHANGED stack
     \/ /\ Instr.op \in {"branch_t", "branch_f"} /\ stack' = Pop
        /\ pc' = IF Top = (Instr.op = "branch_t") THEN Place(Instr.arg) ELSE pc + 1
  /\ UNCHANGED <<body, code, frame, out>>

Makes(event) ==
  /\ Len(out) < MaxEvents
  /\ out' = Append(out, event)
  /\ pc' = pc + 1
  /\ UNCHANGED <<body, code, frame>>
MakeCall ==
  /\ Running
  /\ \/ Instr.op = "call" /\ Makes(<<"call", Instr.arg>>) /\ UNCHANGED stack
     \/ Instr.op = "show" /\ Makes(<<"show", Top>>) /\ stack' = Pop
     \/ /\ Instr.op = "ask"
        /\ \E v \in BOOLEAN : Makes(<<"ask", Instr.arg, v>>) /\ stack' = Append(stack, v)
     \/ /\ Instr.op = "get"
        /\ \E v \in Answers : Makes(<<"get", Instr.arg, v>>) /\ stack' = Append(stack, v)

ReturnToCaller ==
  /\ Running /\ Instr.op = "return"
  /\ pc' = 0
  /\ UNCHANGED <<body, code, stack, frame, out>>

Step == Compute \/ Store \/ Jump \/ MakeCall \/ ReturnToCaller

(* The history: Structured makes the same call, if it is one it may make.  *)
Follow ==
  LET event == Last(out')
      left == IF out' # out /\ todo # <<>> /\ event \in Source!Events(Head(todo), env)
              THEN Source!After(todo, env, event)
              ELSE [todo |-> todo, env |-> env]
  IN  todo' = left.todo /\ env' = left.env

(* The machine goes on while there is an instruction to execute.           *)
Next == Step /\ Follow
Spec == Init /\ [][Next]_vars /\ WF_machine(Step)
-----------------------------------------------------------------------------

(* The code makes exactly the calls the body makes as it is written, in    *)
(* the same order, with the same answers leading to the same calls; and it *)
(* makes every call the body goes on to make.                              *)
SourceSpec == Source!Spec

(* Code runs to its end only where the body ends, and never past the last  *)
(* instruction, behind which the code of local functions stands            *)
(* (CGNfunbody, codegen.c:433-440).                                        *)
EndsWhereTheBodyEnds ==
  /\ pc # Len(code) + 1
  /\ pc = 0 => todo = <<>>

(* Between statements the operand stack is empty: nothing is lost under or *)
(* left above what a statement computes, on whatever way it was reached.   *)
StackIsEmptyBetweenStatements ==
  /\ Running /\ Instr.op \in {"call", "return"} => stack = <<>>
  /\ Running /\ Instr.op = "label" /\ Instr.arg[1] \in {"loop", "else", "end"} =>
       stack = <<>>
  /\ Running /\ Instr.op = "istore" => Len(stack) = 1
=============================================================================
