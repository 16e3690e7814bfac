----------------------------- MODULE Structured -----------------------------
(***************************************************************************)
(* What a CiviC function body promises to do: the statements, executed in  *)
(* the structured way they are written.  No label, jump or operand stack   *)
(* occurs here.  The grammar (scanparse/parser.y) gives the statements;    *)
(* what a for loop does is what ForToWhile says of it: the bound is looked *)
(* at anew before each round, the direction is decided once.               *)
(*                                                                         *)
(* Seen from outside are the calls a body makes: of a void function        *)
(* ("call"), of one that returns a bool ("ask") or an int ("get"), with    *)
(* whatever the function returns, and of one that is given the value of a  *)
(* loop variable ("show").                                                 *)
(***************************************************************************)
EXTENDS Statements, Integers, SequencesExt

CONSTANTS Programs,   \* bodies: sequences of statements
          LoopVars,   \* variables of for loops
          Answers,    \* integers a function may return
          MaxEvents,  \* bound: calls made
          MaxSilent   \* bound: steps between two calls

(* What is left to do besides statements: a condition that decides between *)
(* two continuations, a value to be put into a variable, and the middle    *)
(* and the end of a round of a loop.  Three more values belong to a loop.  *)
Test(c, yes, no) == [is |-> "test", c |-> c, yes |-> yes, no |-> no]
Set(x, e) == [is |-> "set", x |-> x, e |-> e]
Check(loop) == [is |-> "check", loop |-> loop]
Add(loop) == [is |-> "add", loop |-> loop]
Cells == LoopVars \cup (LoopVars \X {"direction", "until", "by"})

Round(loop) == <<Set(<<loop.x, "until">>, loop.until), Check(loop)>>
Within(loop, env) == IF env[<<loop.x, "direction">>] < 0
                     THEN env[loop.x] > env[<<loop.x, "until">>]
                     ELSE env[loop.x] < env[<<loop.x, "until">>]

(* One task, unfolded, if that can be done without a call.                 *)
Silent(task) ==
  \/ task.is \in {"if", "while", "do", "for", "return", "check", "add"}
  \/ task.is = "test" /\ task.c.is # "ask"
  \/ task.is = "set" /\ task.e.is # "get"
Unfold(task, rest, env) ==
  CASE task.is = "if" -> <<Test(task.c, task.then, task.else)>> \o rest
    [] task.is = "while" -> <<Test(task.c, Append(task.body, task), <<>>)>> \o rest
    [] task.is = "do" -> task.body \o <<While(task.c, task.body)>> \o rest
    [] task.is = "return" -> <<>>
    [] task.is = "for" ->
         <<Set(task.x, task.init), Set(<<task.x, "direction">>, task.step)>>
         \o Round(task) \o rest
    [] task.is = "check" ->
         IF Within(task.loop, env)
         THEN task.loop.body \o <<Set(<<task.loop.x, "by">>, task.loop.step), Add(task.loop)>>
              \o Round(task.loop) \o rest
         ELSE rest
    [] task.is = "test" ->
         <<CASE task.c.is = "not" -> Test(task.c.c, task.no, task.yes)
             [] task.c.is = "and" -> Test(task.c.l, <<Test(task.c.r, task.yes, task.no)>>, task.no)
             [] task.c.is = "or" -> Test(task.c.l, task.yes, <<Test(task.c.r, task.yes, task.no)>>)>>
         \o rest
    [] task.is \in {"set", "add"} -> rest
Assigned(task, env) ==
  CASE task.is = "set" /\ task.e.is = "num" -> [env EXCEPT ![task.x] = task.e.n]
    [] task.is = "set" /\ task.e.is = "neg" -> [env EXCEPT ![task.x] = 0 - task.e.n]
    [] task.is = "add" -> [env EXCEPT ![task.loop.x] = @ + env[<<task.loop.x, "by">>]]
    [] OTHER -> env

(* All that can be done without a call.  If MaxSilent is too small, Events *)
(* has no case for what is next and TLC stops.                             *)
Unfolded(s) == IF s.todo # <<>> /\ Silent(Head(s.todo))
               THEN [todo |-> Unfold(Head(s.todo), Tail(s.todo), s.env),
                     env |-> Assigned(Head(s.todo), s.env)]
               ELSE s
Settle(stmts, values) ==
  LET done[k \in 0 .. MaxSilent] ==
        IF k = 0 THEN [todo |-> stmts, env |-> values] ELSE Unfolded(done[k - 1])
  IN  done[MaxSilent]

(* The calls the next task may make, and what is left after one of them.   *)
Events(task, env) ==
  CASE task.is = "call" -> {<<"call", task.k>>}
    [] task.is = "drop" -> {<<"get", task.k, v>> : v \in Answers}
    [] task.is = "show" -> {<<"show", env[task.x]>>}
    [] task.is = "test" -> {<<"ask", task.c.k, v>> : v \in BOOLEAN}
    [] task.is = "set" -> {<<"get", task.e.k, v>> : v \in Answers}
After(todo, env, event) ==
  LET task == Head(todo)
  IN  CASE task.is = "test" ->
             Settle((IF event[3] THEN task.yes ELSE task.no) \o Tail(todo), env)
        [] task.is = "set" -> Settle(Tail(todo), [env EXCEPT ![task.x] = event[3]])
        [] OTHER -> Settle(Tail(todo), env)
Start(stmts) == Settle(stmts, [x \in Cells |-> 0])
-----------------------------------------------------------------------------
VARIABLES body,   \* the statements of the function
          todo,   \* what is left to do
          env,    \* loop variables and the values that belong to their loops
          out     \* the calls made so far

vars == <<body, todo, env, out>>

Init == /\ body \in Programs
        /\ todo = Start(body).todo
        /\ env = Start(body).env
        /\ out = <<>>

Outside == /\ todo # <<>> /\ Len(out) < MaxEvents
         /\ \E event \in Events(Head(todo), env) : out' = Append(out, event)
Continue == /\ todo' = After(todo, env, Last(out')).todo
            /\ env' = After(todo, env, Last(out')).env
            /\ UNCHANGED body
MakeCall == Outside /\ Continue

(* A body goes on to its next call.  (The fairness of MakeCall; Continue    *)
(* never prevents it.)                                                      *)
Spec == Init /\ [][MakeCall]_vars /\ WF_out(Outside)
=============================================================================
