----------------------------- MODULE References -----------------------------
(***************************************************************************)
(* Who owns the references of a body.  Resolve allocates a VarReferenz for *)
(* every variable and a Function for every call (return_varref,            *)
(* funtable_get_function) and the node holds the only pointer to it.       *)
(* CCNcopy copies that pointer and CCNfree leaves it: ForToWhile and       *)
(* WhileToDoWhile, which copy expressions and whole bodies and free the    *)
(* loops they replace, allocate for the copies (fix_mode) and free what    *)
(* they drop (free_mode) themselves; MemFree frees what is left.           *)
(*                                                                         *)
(* A reference is named by the place of the node it was allocated for and  *)
(* the copies made since, so that an allocation always gives a new one.    *)
(* Declarations and the parts of arrays are left out: what is moved there  *)
(* keeps its references (Frame, Adjust).                                   *)
(***************************************************************************)
EXTENDS StmtCode

Subtrees == {"init", "until", "step", "c", "l", "r", "lhs", "e"}
Blocks == {"then", "else", "body"}
(* Loops at different depths may copy the same node. *)
By(what, loop) == <<what, Len(loop.at)>>

(* RSOvar and RSOfuncall.  The argument of Show is a variable.             *)
Holders == {"ask", "get", "call", "drop", "show", "var"}
RECURSIVE RSO(_, _)
RSO(t, place) ==
  LET named == IF t.is = "show" THEN t @@ [e |-> Var(t.x)]
               ELSE t
      own == IF t.is \in Holders THEN [ref |-> place]
             ELSE IF t.is = "for" THEN [at |-> place] ELSE <<>>
  IN  [k \in DOMAIN named |->
         IF k \in Subtrees THEN RSO(named[k], Append(place, <<k, 0>>))
         ELSE IF k \in Blocks
         THEN [i \in DOMAIN named[k] |-> RSO(named[k][i], Append(place, <<k, i>>))]
         ELSE named[k]] @@ own
Resolved(stmts) == [i \in DOMAIN stmts |-> RSO(stmts[i], <<<<"body", i>>>>)]

(* The pointers of a tree, in no particular order.                         *)
RECURSIVE Pointers(_)
PointersOf(stmts) == FlattenSeq([i \in DOMAIN stmts |-> Pointers(stmts[i])])
Pointers(t) ==
  LET parts == SetToSeq(DOMAIN t \cap (Subtrees \cup Blocks))
  IN  (IF "ref" \in DOMAIN t THEN <<t.ref>> ELSE <<>>)
      \o FlattenSeq([i \in DOMAIN parts |->
           IF parts[i] \in Subtrees THEN Pointers(t[parts[i]]) ELSE PointersOf(t[parts[i]])])

(* CCNcopy, and FTWvar, FTWfuncall, WDWvar and WDWfuncall in fix_mode.     *)
RECURSIVE CopyAndFix(_, _)
CopyAndFix(t, copy) ==
  [k \in DOMAIN t |->
     CASE k = "ref" -> Append(t[k], copy)
       [] k \in Subtrees -> CopyAndFix(t[k], copy)
       [] k \in Blocks -> [i \in DOMAIN t[k] |-> CopyAndFix(t[k][i], copy)]
       [] OTHER -> t[k]]

VarOf(loop, what) == [is |-> "var", x |-> loop.x, ref |-> Append(loop.at, By(what, loop))]
AssignTo(var, e) == [is |-> "assign", lhs |-> var, e |-> e]
Once(loop) ==
  While(Compare(Direction(loop.step), VarOf(loop, "cond"), CopyAndFix(loop.until, By("until", loop))),
        loop.body)
BothWays(loop) ==
  LET Loop(op, what, body_) ==
        While(Compare(op, VarOf(loop, what), CopyAndFix(loop.until, By(what, loop))), body_)
      body_copy == [i \in DOMAIN loop.body |-> CopyAndFix(loop.body[i], By("body", loop))]
  IN  If(Compare("ige", CopyAndFix(loop.step, By("dir", loop)), Num(0)),
         <<Loop("ilt", "c1", loop.body)>>, <<Loop("igt", "c2", body_copy)>>)

(* free_attributes, before CCNfree.  Mutation: of the bound alone.         *)
FreeUntil(loop) == Pointers(loop.until)
FreeAttributes(loop) == Pointers(loop.until) \o Pointers(loop.step)

(* FTWstmts and FTWforstatement: the statements made, and what is freed.   *)
RECURSIVE ForToWhile(_)
AllForToWhile(stmts) ==
  [made |-> FlattenSeq([i \in DOMAIN stmts |-> ForToWhile(stmts[i]).made]),
   freed |-> FlattenSeq([i \in DOMAIN stmts |-> ForToWhile(stmts[i]).freed])]
ForToWhile(s) ==
  LET parts == DOMAIN s \cap Blocks
      below == [k \in parts |-> AllForToWhile(s[k])]
      inner == [k \in parts |-> below[k].made] @@ s
      step == AssignTo(VarOf(s, "lhs"), Plus(VarOf(s, "rhs"), CopyAndFix(s.step, By("by", s))))
      loop == [inner EXCEPT !.body = Append(@, step)]
      freed == FlattenSeq([i \in DOMAIN SetToSeq(parts) |-> below[SetToSeq(parts)[i]].freed])
  IN  IF s.is # "for" THEN [made |-> <<inner>>, freed |-> freed]
      ELSE [made |-> <<AssignTo(VarOf(s, "start"), s.init),
                       IF IsConstant(s.step) THEN Once(loop) ELSE BothWays(loop)>>,
            freed |-> freed \o FreeAttributes(s)]

(* WDWwhilestatement: the condition goes to the do, its copy to the if.    *)
RECURSIVE WhileToDo(_)
WhileToDo(s) ==
  LET inner == [k \in DOMAIN s |-> IF k \in Blocks
                                   THEN [i \in DOMAIN s[k] |-> WhileToDo(s[k][i])] ELSE s[k]]
  IN  IF s.is = "while" THEN If(CopyAndFix(s.c, <<"if", 0>>), <<Do(inner.body, s.c)>>, <<>>)
      ELSE inner

(* FREEvar and FREEfuncall.                                                *)
MemFree(stmts) == PointersOf(stmts)
-----------------------------------------------------------------------------
(* From Resolve to MemFree every reference is held by one node at a time,  *)
(* is freed once, and never while a node still holds it: no copy shares    *)
(* the reference of its original, and no reference is lost with a loop     *)
(* that is replaced.                                                       *)
ReferencesHaveOneOwner ==
  pc = 1 /\ out = <<>> =>
    LET resolved == Resolved(body)
        loops == AllForToWhile(resolved)
        dos == [i \in DOMAIN loops.made |-> WhileToDo(loops.made[i])]
        freed == loops.freed \o MemFree(dos)
        all == Range(PointersOf(resolved)) \cup Range(PointersOf(loops.made))
    IN  /\ \A tree \in {resolved, loops.made, dos} : IsInjective(PointersOf(tree))
        /\ Range(loops.freed) \cap Range(PointersOf(loops.made)) = {}
        /\ IsInjective(freed)
        /\ all \subseteq Range(freed)
=============================================================================
