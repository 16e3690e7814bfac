-------------------------- MODULE PhaseDriverProofs --------------------------
(***************************************************************************)
(* A phase in which an action signalled a phase error is never left,       *)
(* however deep the phases are nested: the one phase_error of the driver   *)
(* and the copies CCNdispatchAction keeps on the C stack together remember *)
(* the error of every phase in progress.  A cycle goes on exactly as long  *)
(* as it is notified, up to max_cycles: its rounds are those cycle_iter    *)
(* counts.  The driver stops at the breakpoint it was given and nowhere    *)
(* else: what is left of the path says how far it was followed.  And the   *)
(* number it counts is the one ShowTree lists: a phase that was left has   *)
(* counted what leaving it out would have added.  So the numbers cocogen   *)
(* compiles into the check of a lifetime surround exactly what the         *)
(* lifetime names: what runs at a place of the walk of the tables lies     *)
(* within what runs at the places of the calls around it.                  *)
(***************************************************************************)
EXTENDS Lifetimes, LeastNatural, SequenceTheorems, FiniteSetTheorems, TLAPS

\* Phases and their numbers come from the tables, of which nothing has to be
\* known here; B stands for those seen so far.
Frame(B) == [phase : B, next : Nat, base : B, saved : BOOLEAN, oldBreak : Seq(STRING),
             rounds : Nat, erred : BOOLEAN, notified : BOOLEAN]

Typed ==
  /\ compiler \in DOMAIN Tables
  /\ \E B : stack \in Seq(Frame(B))
  /\ phaseError \in BOOLEAN
  /\ breakpoint \in Seq(STRING)

\* The error of the innermost phase is in phase_error, that of an outer one in
\* the local copy of the call it made.
ErrorsAreKept ==
  \A i \in 1..Len(stack) :
    stack[i].erred => IF i = Len(stack) THEN phaseError ELSE stack[i + 1].saved

KeptInv == Typed /\ ErrorsAreKept

LEMMA InitKept == Init => KeptInv
<1> SUFFICES ASSUME Init PROVE KeptInv
  OBVIOUS
<1>1. stack = << >> /\ stack \in Seq(Frame({})) /\ phaseError = FALSE
      /\ compiler \in DOMAIN Tables
  BY DEF Init
<1>2. breakpoint \in Seq(STRING)
  BY BreakpointsAssumption DEF Init
<1>3. Typed
  <2>1. \E B : stack \in Seq(Frame(B))
    BY <1>1
  <2> QED BY <1>1, <1>2, <2>1 DEF Typed
<1>4. ErrorsAreKept
  BY <1>1 DEF ErrorsAreKept
<1> QED BY <1>3, <1>4 DEF KeptInv

\* Going on in the table of a call.
LEMMA FrameFields ==
  ASSUME NEW B, NEW f \in Frame(B)
  PROVE  /\ f.saved \in BOOLEAN /\ f.erred \in BOOLEAN /\ f.oldBreak \in Seq(STRING)
         /\ LET g == [f EXCEPT !.next = @ + 1]
            IN  g \in Frame(B) /\ g.erred = f.erred /\ g.saved = f.saved
BY DEF Frame

\* A call with the signals of an action noted, and one whose cycle goes on.
NotedFrame(f, a, b) == [f EXCEPT !.erred = @ \/ a, !.notified = @ \/ b]
NextRound(f) == [f EXCEPT !.next = 1, !.rounds = OneMore(@), !.notified = FALSE]

Unnotified(f) == [f EXCEPT !.notified = FALSE]

LEMMA FrameNoted ==
  ASSUME NEW B, NEW f \in Frame(B), NEW a \in BOOLEAN, NEW b \in BOOLEAN
  PROVE  LET g == NotedFrame(f, a, b)
         IN  g \in Frame(B) /\ g.erred = (f.erred \/ a) /\ g.saved = f.saved
<1>1. f.erred \in BOOLEAN /\ f.notified \in BOOLEAN
  BY DEF Frame
<1> DEFINE x == f.erred \/ a
           y == f.notified \/ b
<1>2. x \in BOOLEAN /\ y \in BOOLEAN
  BY <1>1
<1>3. NotedFrame(f, a, b) = [f EXCEPT !.erred = x, !.notified = y]
  BY DEF NotedFrame
<1> HIDE DEF x, y
<1>4. LET g == [f EXCEPT !.erred = x, !.notified = y]
      IN  g \in Frame(B) /\ g.erred = x /\ g.saved = f.saved
  BY <1>2 DEF Frame
<1>5. NotedFrame(f, a, b) \in Frame(B) /\ NotedFrame(f, a, b).erred = x
      /\ NotedFrame(f, a, b).saved = f.saved
  BY <1>3, <1>4
<1> QED BY <1>5 DEF x

LEMMA FrameUnnotified ==
  ASSUME NEW B, NEW f \in Frame(B)
  PROVE  LET g == Unnotified(f)
         IN  g \in Frame(B) /\ g.erred = f.erred /\ g.saved = f.saved
BY DEF Frame, Unnotified

LEMMA FrameAgain ==
  ASSUME NEW B, NEW f \in Frame(B)
  PROVE  LET g == NextRound(f)
         IN  g \in Frame(B) /\ g.erred = f.erred /\ g.saved = f.saved
<1> DEFINE m == OneMore(f.rounds)
           g == [f EXCEPT !.next = 1, !.rounds = m]
<1>1. m \in Nat
  BY DEF Frame, OneMore
<1>2. g \in Frame(B) /\ g.erred = f.erred /\ g.saved = f.saved
  <2> HIDE DEF m
  <2> QED BY <1>1 DEF Frame
<1>3. NextRound(f) = Unnotified(g)
  BY DEF NextRound, Unnotified
<1> HIDE DEF g
<1>4. LET h == Unnotified(g)
      IN  h \in Frame(B) /\ h.erred = g.erred /\ h.saved = g.saved
  BY <1>2, FrameUnnotified
<1> QED BY <1>2, <1>3, <1>4

LEMMA FunctionIsSeq ==
  ASSUME NEW S, NEW n \in Nat, NEW g \in [1..n -> S]
  PROVE  g \in Seq(S) /\ Len(g) = n
OBVIOUS

\* What the return from an action does to the calls in progress.
LEMMA ReturnKept ==
  ASSUME NEW B, NEW calls \in Seq(Frame(B)), NEW x, NEW id, Return(x, id, calls)
  PROVE  /\ stack' \in Seq(Frame(B)) /\ Len(stack') = Len(calls)
         /\ \A i \in 1..Len(calls) : /\ stack'[i].erred = calls[i].erred
                                     /\ stack'[i].saved = calls[i].saved
<1>1. CASE calls = << >>
  BY <1>1 DEF Return
<1>2. CASE calls # << >>
  <2> DEFINE n == Len(calls)
             g == [calls[n] EXCEPT !.next = @ + 1]
  <2>1. n \in Nat \ {0} /\ DOMAIN calls = 1..n /\ calls[n] \in Frame(B)
    BY <1>2
  <2>2. g \in Frame(B) /\ g.erred = calls[n].erred /\ g.saved = calls[n].saved
    BY <2>1, FrameFields
  <2>3. stack' = [calls EXCEPT ![n] = g]
    BY <1>2 DEF Return
  <2> HIDE DEF g
  <2>4. stack' \in Seq(Frame(B)) /\ Len(stack') = n
    BY <2>1, <2>2, <2>3
  <2>5. \A i \in 1..n : stack'[i] = IF i = n THEN g ELSE calls[i]
    BY <2>1, <2>3
  <2> QED BY <2>1, <2>2, <2>4, <2>5
<1> QED BY <1>1, <1>2

\* The calls around the innermost one.
LEMMA FrontFacts ==
  ASSUME NEW S, NEW s \in Seq(S), s # << >>
  PROVE  /\ Len(s) \in Nat \ {0} /\ s[Len(s)] \in S
         /\ Front(s) \in Seq(S) /\ Len(Front(s)) = Len(s) - 1
         /\ \A i \in 1..(Len(s) - 1) : Front(s)[i] = s[i]
<1>1. Len(s) \in Nat \ {0}
  OBVIOUS
<1>2. s[Len(s)] \in S
  BY <1>1, ElementOfSeq
<1> QED BY <1>1, <1>2, SubSeqProperties DEF Front

\* Leaving a phase gives phase_error back to the phase around it.
LEMMA LeaveKept ==
  ASSUME KeptInv, LeavePhase
  PROVE  KeptInv'
<1> PICK B : stack \in Seq(Frame(B))
  BY DEF KeptInv, Typed
<1> DEFINE n == Len(stack)
<1>1. n \in Nat \ {0} /\ Top = stack[n] /\ Top \in Frame(B) /\ Top.saved \in BOOLEAN
      /\ Top.oldBreak \in Seq(STRING)
  <2>1. stack # << >>
    BY DEF LeavePhase, EndOfTable
  <2>2. n \in Nat \ {0} /\ stack[n] \in Frame(B)
    BY <2>1, FrontFacts
  <2> QED BY <2>2, FrameFields DEF Top
<1>2. Front(stack) \in Seq(Frame(B)) /\ Len(Front(stack)) = n - 1
      /\ \A i \in 1..(n - 1) : Front(stack)[i] = stack[i]
  BY FrontFacts DEF LeavePhase, EndOfTable
<1>3. Return(Top.phase, Top.base, Front(stack)) /\ phaseError' = Top.saved
      /\ breakpoint' \in Seq(STRING) /\ compiler' = compiler
  BY <1>1 DEF LeavePhase, KeptInv, Typed, input
<1>4. /\ stack' \in Seq(Frame(B)) /\ Len(stack') = n - 1
      /\ \A i \in 1..(n - 1) : stack'[i].erred = stack[i].erred /\ stack'[i].saved = stack[i].saved
  <2> HIDE DEF n
  <2>1. /\ stack' \in Seq(Frame(B)) /\ Len(stack') = Len(Front(stack))
        /\ \A i \in 1..Len(Front(stack)) : /\ stack'[i].erred = Front(stack)[i].erred
                                          /\ stack'[i].saved = Front(stack)[i].saved
    BY <1>2, <1>3, ReturnKept
  <2> QED BY <1>2, <2>1
<1>5. Typed'
  BY <1>1, <1>3, <1>4 DEF KeptInv, Typed
<1>6. ErrorsAreKept'
  <2> HIDE DEF n
  <2>1. \A i \in 1..n : stack[i].erred => IF i = n THEN phaseError ELSE stack[i + 1].saved
    BY DEF KeptInv, ErrorsAreKept, n
  <2>2. ASSUME NEW i \in 1..(n - 1), stack'[i].erred
        PROVE  IF i = n - 1 THEN phaseError' ELSE stack'[i + 1].saved
    <3>1. i \in 1..n /\ i # n /\ stack[i].erred
      BY <1>1, <1>4, <2>2
    <3>2. stack[i + 1].saved
      BY <2>1, <3>1
    <3>3. CASE i = n - 1
      <4>1. i + 1 = n
        BY <1>1, <3>3
      <4> QED BY <1>1, <1>3, <3>2, <3>3, <4>1
    <3>4. CASE i # n - 1
      <4>1. i + 1 \in 1..(n - 1)
        BY <1>1, <3>4
      <4> QED BY <1>4, <3>2, <3>4, <4>1
    <3> QED BY <3>3, <3>4
  <2> QED BY <1>4, <2>2 DEF ErrorsAreKept
<1> QED BY <1>5, <1>6 DEF KeptInv

LEMMA NewFrame ==
  ASSUME NEW C, NEW x \in C, NEW n \in C, NEW e \in BOOLEAN, NEW o \in Seq(STRING)
  PROVE  LET f == [phase |-> x, next |-> 1, base |-> n, saved |-> e, oldBreak |-> o,
                   rounds |-> 0, erred |-> FALSE, notified |-> FALSE]
         IN  f \in Frame(C) /\ f.erred = FALSE /\ f.saved = e
BY DEF Frame

\* Entering a phase moves phase_error into the call that is made.
LEMMA EnterKept ==
  ASSUME KeptInv, EnterPhase
  PROVE  KeptInv'
<1> PICK B : stack \in Seq(Frame(B))
  BY DEF KeptInv, Typed
<1> DEFINE n == Len(stack)
           x == Current
           f == [phase |-> x, next |-> 1, base |-> actionId + 1, saved |-> phaseError,
                 oldBreak |-> IF InPhase(x) = NoPath THEN NoPath ELSE breakpoint,
                 rounds |-> 0, erred |-> FALSE, notified |-> FALSE]
<1>1. n \in Nat
  OBVIOUS
<1>2. stack' = Append(stack, f) /\ phaseError' = FALSE /\ compiler' = compiler
      /\ breakpoint' = IF InPhase(x) = NoPath THEN breakpoint ELSE InPhase(x)
  BY DEF EnterPhase, input
<1>3. compiler \in DOMAIN Tables /\ phaseError \in BOOLEAN /\ breakpoint \in Seq(STRING)
  BY DEF KeptInv, Typed
<1>4. InPhase(x) \in Seq(STRING) /\ NoPath \in Seq(STRING)
  <2>1. Len(breakpoint) > 1 => Tail(breakpoint) \in Seq(STRING)
    BY <1>3
  <2>2. << >> \in Seq(STRING)
    OBVIOUS
  <2>3. InPhase(x) = << >> \/ (Len(breakpoint) > 1 /\ InPhase(x) = Tail(breakpoint))
    BY DEF InPhase, NoPath
  <2> QED BY <2>1, <2>2, <2>3 DEF NoPath
<1> DEFINE C == B \cup {x, actionId + 1}
<1>5. f \in Frame(C) /\ f.erred = FALSE /\ f.saved = phaseError
  <2>1. (IF InPhase(x) = NoPath THEN NoPath ELSE breakpoint) \in Seq(STRING)
    BY <1>3, <1>4
  <2>2. x \in C /\ actionId + 1 \in C
    OBVIOUS
  <2> QED BY <1>3, <2>1, <2>2, NewFrame
<1>6. stack \in Seq(Frame(C))
  <2>1. Frame(B) \subseteq Frame(C)
    BY DEF Frame
  <2> QED BY <2>1, SeqMonotonic
<1> HIDE DEF f, C
<1>7. /\ stack' \in Seq(Frame(C)) /\ Len(stack') = n + 1
      /\ stack'[n + 1] = f
      /\ \A i \in 1..n : stack'[i] = stack[i]
  BY <1>2, <1>5, <1>6, AppendProperties
<1>8. Typed'
  <2>1. breakpoint' \in Seq(STRING)
    BY <1>2, <1>3, <1>4
  <2>2. phaseError' \in BOOLEAN /\ compiler' \in DOMAIN Tables
    BY <1>2, <1>3
  <2>3. \E D : stack' \in Seq(Frame(D))
    BY <1>7
  <2> QED BY <2>1, <2>2, <2>3 DEF Typed
<1>9. ErrorsAreKept'
  <2> HIDE DEF n
  <2>1. \A i \in 1..n : stack[i].erred => IF i = n THEN phaseError ELSE stack[i + 1].saved
    BY DEF KeptInv, ErrorsAreKept, n
  <2>2. ASSUME NEW i \in 1..(n + 1), stack'[i].erred
        PROVE  IF i = n + 1 THEN phaseError' ELSE stack'[i + 1].saved
    <3>1. i # n + 1 /\ i \in 1..n /\ stack[i].erred
      BY <1>1, <1>5, <1>7, <2>2
    <3>2. CASE i = n
      BY <1>5, <1>7, <2>1, <3>1, <3>2
    <3>3. CASE i # n
      <4>1. i + 1 \in 1..n
        BY <1>1, <3>1, <3>3
      <4> QED BY <1>7, <2>1, <3>1, <3>3, <4>1
    <3> QED BY <3>2, <3>3
  <2> QED BY <1>7, <2>2 DEF ErrorsAreKept
<1> QED BY <1>8, <1>9 DEF KeptInv

\* CCNerrorPhase is noted in phase_error and for the innermost phase alike.
LEMMA RunKept ==
  ASSUME KeptInv, NEW eff \in SUBSET Effects, RunAction(eff)
  PROVE  KeptInv' /\ Len(stack') = Len(stack)
<1> PICK B : stack \in Seq(Frame(B))
  BY DEF KeptInv, Typed
<1> DEFINE n == Len(stack)
           E == "phaseError" \in eff
           noted == [i \in DOMAIN stack |->
                      [stack[i] EXCEPT !.erred = @ \/ (i = n /\ E),
                                       !.notified = @ \/ (i = InnerCycle /\ "notify" \in eff)]]
<1>1. n \in Nat /\ DOMAIN stack = 1..n /\ \A i \in 1..n : stack[i] \in Frame(B)
  BY ElementOfSeq
<1>2. /\ noted \in Seq(Frame(B)) /\ Len(noted) = n
      /\ \A i \in 1..n : /\ noted[i].erred = (stack[i].erred \/ (i = n /\ E))
                          /\ noted[i].saved = stack[i].saved
  <2>1. ASSUME NEW i \in 1..n
        PROVE  /\ noted[i] \in Frame(B)
               /\ noted[i].erred = (stack[i].erred \/ (i = n /\ E))
               /\ noted[i].saved = stack[i].saved
    <3> DEFINE a == i = n /\ E
               b == i = InnerCycle /\ "notify" \in eff
               g == NotedFrame(stack[i], a, b)
    <3>1. noted[i] = g
      BY <1>1 DEF NotedFrame
    <3>2. stack[i] \in Frame(B) /\ a \in BOOLEAN /\ b \in BOOLEAN
      BY <1>1
    <3> HIDE DEF a, b, noted
    <3>3. g \in Frame(B) /\ g.erred = (stack[i].erred \/ a) /\ g.saved = stack[i].saved
      BY <3>2, FrameNoted
    <3> QED BY <3>1, <3>3 DEF a
  <2>2. noted \in [1..n -> Frame(B)]
    BY <1>1, <2>1
  <2>3. noted \in Seq(Frame(B)) /\ Len(noted) = n
    BY <1>1, <2>2, FunctionIsSeq
  <2> QED BY <2>1, <2>3
<1> HIDE DEF noted
<1>3. /\ compiler' = compiler /\ breakpoint' = breakpoint
      /\ phaseError' = (phaseError \/ E)
      /\ UNCHANGED stack \/ Return(Current, actionId', noted)
  BY DEF RunAction, noted, input
<1>4. Typed /\ \A i \in 1..n : stack[i].erred => IF i = n THEN phaseError ELSE stack[i + 1].saved
  BY DEF KeptInv, ErrorsAreKept
<1>5. Typed'
  <2>1. \E C : stack' \in Seq(Frame(C))
    BY <1>2, <1>3, ReturnKept
  <2> QED BY <1>3, <1>4, <2>1 DEF Typed
<1>6. ErrorsAreKept'
  <2>1. CASE UNCHANGED stack
    BY <1>3, <1>4, <2>1 DEF ErrorsAreKept, Typed
  <2>2. CASE Return(Current, actionId', noted)
    <3>1. /\ Len(stack') = n
          /\ \A i \in 1..n : /\ stack'[i].erred = (stack[i].erred \/ (i = n /\ E))
                              /\ stack'[i].saved = stack[i].saved
      BY <1>2, <2>2, ReturnKept
    <3> HIDE DEF n, E
    <3>2. ASSUME NEW i \in 1..n, stack'[i].erred
          PROVE  IF i = n THEN phaseError' ELSE stack'[i + 1].saved
      <4>1. CASE i = n
        BY <1>3, <1>4, <3>1, <3>2, <4>1 DEF Typed
      <4>2. CASE i # n
        <5>1. i + 1 \in 1..n
          BY <1>1, <4>2
        <5>2. stack[i + 1].saved
          BY <1>4, <3>1, <3>2, <4>2
        <5> QED BY <3>1, <4>2, <5>1, <5>2
      <4> QED BY <4>1, <4>2
    <3> QED BY <3>1, <3>2 DEF ErrorsAreKept
  <2> QED BY <1>3, <2>1, <2>2
<1>7. Len(stack') = n
  BY <1>2, <1>3, ReturnKept
<1> QED BY <1>5, <1>6, <1>7 DEF KeptInv

\* The other steps keep phase_error and, but for where a table is read, the
\* calls in progress.
LEMMA OthersKept ==
  ASSUME KeptInv, CheckFails \/ SkipPhase \/ RepeatCycle \/ AbortPhase \/ UNCHANGED vars
  PROVE  KeptInv' /\ Len(stack') = Len(stack)
<1> PICK B : stack \in Seq(Frame(B))
  BY DEF KeptInv, Typed
<1> DEFINE n == Len(stack)
<1>1. phaseError' = phaseError /\ compiler' = compiler /\ breakpoint' = breakpoint
  BY DEF CheckFails, SkipPhase, RepeatCycle, AbortPhase, vars, input
<1>2. /\ stack' \in Seq(Frame(B)) /\ Len(stack') = n
      /\ \A i \in 1..n : stack'[i].erred = stack[i].erred /\ stack'[i].saved = stack[i].saved
  <2>1. CASE UNCHANGED stack
    BY <2>1
  <2>2. CASE SkipPhase
    <3>1. Return(Current, actionId + 1, stack)
      BY <2>2 DEF SkipPhase
    <3> QED BY <3>1, ReturnKept
  <2>3. CASE RepeatCycle
    <3> DEFINE g == NextRound(stack[n])
    <3>1. n \in Nat \ {0} /\ stack[n] \in Frame(B)
      BY <2>3, FrontFacts DEF RepeatCycle, EndOfTable
    <3>2. g \in Frame(B) /\ g.erred = stack[n].erred /\ g.saved = stack[n].saved
      BY <3>1, FrameAgain
    <3>3. stack' = [stack EXCEPT ![n] = g]
      BY <2>3 DEF RepeatCycle, NextRound
    <3> HIDE DEF g
    <3>4. /\ stack' \in Seq(Frame(B)) /\ Len(stack') = n
          /\ \A i \in 1..n : stack'[i] = IF i = n THEN g ELSE stack[i]
      BY <3>1, <3>2, <3>3, ExceptSeq
    <3> QED BY <3>2, <3>4
  <2> QED BY <2>1, <2>2, <2>3 DEF CheckFails, AbortPhase, vars
<1>3. Typed'
  <2>1. \E C : stack' \in Seq(Frame(C))
    BY <1>2
  <2> QED BY <1>1, <2>1 DEF KeptInv, Typed
<1>4. ErrorsAreKept'
  <2> HIDE DEF n
  <2>1. \A i \in 1..n : stack[i].erred => IF i = n THEN phaseError ELSE stack[i + 1].saved
    BY DEF KeptInv, ErrorsAreKept, n
  <2>2. n \in Nat
    BY DEF n
  <2>3. ASSUME NEW i \in 1..n, stack'[i].erred
        PROVE  IF i = n THEN phaseError' ELSE stack'[i + 1].saved
    <3>1. stack[i].erred
      BY <1>2, <2>3
    <3>2. i # n => i + 1 \in 1..n
      BY <2>2
    <3> QED BY <1>1, <1>2, <2>1, <3>1, <3>2
  <2> QED BY <1>2, <2>3 DEF ErrorsAreKept
<1> QED BY <1>2, <1>3, <1>4 DEF KeptInv

LEMMA NextKept == KeptInv /\ [Next]_vars => KeptInv'
BY RunKept, EnterKept, LeaveKept, OthersKept DEF Next

\* The inductive invariant of the driver's error handling holds throughout.
THEOREM ErrorsKept == Spec => []KeptInv
BY InitKept, NextKept, PTL DEF Spec

\* A phase in which an action called CCNerrorPhase is never left, for every
\* set of tables, gates and breakpoints and every bound of the cycles.
THEOREM PhaseErrorsAlwaysStop == Spec => PhaseErrorsStop
<1>1. ASSUME KeptInv, [Next]_vars
      PROVE  [Len(stack') < Len(stack) => ~Top.erred]_vars
  <2> PICK B : stack \in Seq(Frame(B))
    BY <1>1 DEF KeptInv, Typed
  <2>1. Len(stack) \in Nat
    OBVIOUS
  <2>2. CASE LeavePhase
    <3>1. Len(stack) \in Nat \ {0}
      BY <2>2, FrontFacts DEF LeavePhase, EndOfTable
    <3>2. stack[Len(stack)].erred => phaseError
      BY <1>1, <3>1 DEF KeptInv, ErrorsAreKept
    <3> QED BY <2>2, <3>2 DEF LeavePhase, Top
  <2>3. CASE \E eff \in SUBSET Effects : RunAction(eff)
    <3>1. Len(stack') = Len(stack)
      BY <1>1, <2>3, RunKept
    <3> QED BY <2>1, <3>1
  <2>4. CASE EnterPhase
    <3>1. \E f : stack' = Append(stack, f)
      BY <2>4 DEF EnterPhase
    <3>2. Len(stack') = Len(stack) + 1
      BY <3>1
    <3> QED BY <2>1, <3>2
  <2>5. CASE CheckFails \/ SkipPhase \/ RepeatCycle \/ AbortPhase \/ UNCHANGED vars
    <3>1. Len(stack') = Len(stack)
      BY <1>1, <2>5, OthersKept
    <3> QED BY <2>1, <3>1
  <2> QED BY <1>1, <2>2, <2>3, <2>4, <2>5 DEF Next
<1> QED BY <1>1, ErrorsKept, PTL DEF Spec, PhaseErrorsStop

-----------------------------------------------------------------------------
\* Cycles.

\* The next action of a call, and what stays the same while a call lasts.
NextAction(f) == [f EXCEPT !.next = @ + 1]
SameCall(f, g) == g.phase = f.phase /\ g.oldBreak = f.oldBreak /\ g.base = f.base
SameRound(f, g) == g.rounds = f.rounds /\ g.notified = f.notified

LEMMA NextActionFields ==
  ASSUME NEW B, NEW f \in Frame(B)
  PROVE  LET g == NextAction(f)
         IN  /\ g \in Frame(B) /\ SameCall(f, g) /\ SameRound(f, g)
             /\ g.next = f.next + 1 /\ f.next \in Nat
BY DEF Frame, NextAction, SameCall, SameRound

LEMMA NotedFields ==
  ASSUME NEW B, NEW f \in Frame(B), NEW a \in BOOLEAN, NEW b \in BOOLEAN
  PROVE  LET g == NotedFrame(f, a, b)
         IN  /\ SameCall(f, g) /\ g.rounds = f.rounds /\ g.next = f.next
             /\ g.notified = (f.notified \/ b)
<1> DEFINE x == f.erred \/ a
           y == f.notified \/ b
           g == [f EXCEPT !.erred = x, !.notified = y]
<1>1. NotedFrame(f, a, b) = g
  BY DEF NotedFrame
<1>2. SameCall(f, g) /\ g.rounds = f.rounds /\ g.next = f.next /\ g.notified = y
  <2> HIDE DEF x, y
  <2> QED BY DEF Frame, SameCall
<1> QED BY <1>1, <1>2

LEMMA NextRoundFields ==
  ASSUME NEW B, NEW f \in Frame(B)
  PROVE  LET g == NextRound(f)
         IN  /\ SameCall(f, g) /\ g.next = 1 /\ g.rounds = OneMore(f.rounds)
             /\ g.notified = FALSE
<1> DEFINE m == OneMore(f.rounds)
           g == [f EXCEPT !.next = 1, !.rounds = m, !.notified = FALSE]
<1>1. NextRound(f) = g
  BY DEF NextRound
<1>2. SameCall(f, g) /\ g.next = 1 /\ g.rounds = m /\ g.notified = FALSE
  <2> HIDE DEF m
  <2> QED BY DEF Frame, SameCall
<1> QED BY <1>1, <1>2

\* What a return leaves: the calls, the innermost one gone on in its table.
LEMMA ReturnFrames ==
  ASSUME NEW B, NEW calls \in Seq(Frame(B)), NEW x, NEW id, Return(x, id, calls)
  PROVE  /\ Len(stack') = Len(calls)
         /\ \A i \in 1..Len(calls) :
              stack'[i] = IF i = Len(calls) THEN NextAction(calls[i]) ELSE calls[i]
<1>1. CASE calls = << >>
  BY <1>1 DEF Return
<1>2. CASE calls # << >>
  <2> DEFINE n == Len(calls)
             g == NextAction(calls[n])
  <2>1. n \in Nat \ {0} /\ calls[n] \in Frame(B)
    BY <1>2, FrontFacts
  <2>2. g \in Frame(B)
    BY <2>1, NextActionFields
  <2>3. stack' = [calls EXCEPT ![n] = g]
    BY <1>2 DEF Return, NextAction
  <2> HIDE DEF g
  <2>4. Len(stack') = n /\ \A i \in 1..n : stack'[i] = IF i = n THEN g ELSE calls[i]
    BY <2>1, <2>2, <2>3, ExceptSeq
  <2> QED BY <2>4 DEF g
<1> QED BY <1>1, <1>2

\* What the tables of a compiler hold.
LEMMA TablesHold ==
  ASSUME Typed
  PROVE  /\ root \in DOMAIN act
         /\ \A x \in DOMAIN act :
              /\ act[x].table \in Seq(DOMAIN act) /\ Len(act[x].table) \in Nat
              /\ DOMAIN act[x].table = 1..Len(act[x].table)
              /\ \A k \in 1..Len(act[x].table) : act[x].table[k] \in DOMAIN act
<1> DEFINE c == Tables[compiler]
<1>1. IsCompiler(c)
  BY TablesAssumption DEF Typed
<1>2. c.root \in DOMAIN c.act /\ \A x \in DOMAIN c.act : c.act[x].table \in Seq(DOMAIN c.act)
  BY <1>1 DEF IsCompiler
<1>3. ASSUME NEW T, NEW s \in Seq(T)
      PROVE  Len(s) \in Nat /\ DOMAIN s = 1..Len(s) /\ \A k \in 1..Len(s) : s[k] \in T
  BY <1>3
<1> QED BY <1>2, <1>3 DEF root, act

\* The calls in progress are those of phases, each where the table of the one
\* around it names it.
Nested ==
  \A i \in 1..Len(stack) :
    /\ stack[i].phase \in DOMAIN act /\ act[stack[i].phase].kind = "phase"
    /\ stack[i].next \in Nat \ {0}
    /\ i < Len(stack) => /\ stack[i].next \in DOMAIN act[stack[i].phase].table
                         /\ act[stack[i].phase].table[stack[i].next] = stack[i + 1].phase

\* The calls when an action has run.
LEMMA RunFrames ==
  ASSUME Typed, NEW eff \in SUBSET Effects, RunAction(eff),
         outcome' # "aborted" \/ stack' # stack
  PROVE  /\ Len(stack') = Len(stack)
         /\ \A i \in 1..Len(stack) :
              /\ SameCall(stack[i], stack'[i]) /\ stack'[i].rounds = stack[i].rounds
              /\ stack'[i].notified = (stack[i].notified \/ (i = InnerCycle /\ "notify" \in eff))
              /\ stack[i].next \in Nat
              /\ stack'[i].next = IF i = Len(stack) THEN stack[i].next + 1 ELSE stack[i].next
<1> PICK B : stack \in Seq(Frame(B))
  BY DEF Typed
<1> DEFINE n == Len(stack)
           noted == [i \in DOMAIN stack |->
                      [stack[i] EXCEPT !.erred = @ \/ (i = Len(stack) /\ "phaseError" \in eff),
                                       !.notified = @ \/ (i = InnerCycle /\ "notify" \in eff)]]
<1>1. n \in Nat /\ DOMAIN stack = 1..n /\ \A i \in 1..n : stack[i] \in Frame(B)
  BY ElementOfSeq
<1>2. ASSUME NEW i \in 1..n
      PROVE  /\ noted[i] \in Frame(B)
             /\ SameCall(stack[i], noted[i]) /\ noted[i].rounds = stack[i].rounds
             /\ noted[i].notified = (stack[i].notified \/ (i = InnerCycle /\ "notify" \in eff))
             /\ noted[i].next = stack[i].next
  <2> DEFINE a == i = Len(stack) /\ "phaseError" \in eff
             b == i = InnerCycle /\ "notify" \in eff
             g == NotedFrame(stack[i], a, b)
  <2>1. noted[i] = g
    BY <1>1 DEF NotedFrame
  <2>2. stack[i] \in Frame(B) /\ a \in BOOLEAN /\ b \in BOOLEAN
    BY <1>1
  <2> HIDE DEF a, b, noted
  <2>3. g \in Frame(B)
    BY <2>2, FrameNoted
  <2>4. /\ SameCall(stack[i], g) /\ g.rounds = stack[i].rounds /\ g.next = stack[i].next
        /\ g.notified = (stack[i].notified \/ b)
    BY <2>2, NotedFields
  <2> QED BY <2>1, <2>3, <2>4 DEF b
<1>3. noted \in Seq(Frame(B)) /\ Len(noted) = n
  <2>1. noted \in [1..n -> Frame(B)]
    BY <1>1, <1>2
  <2> QED BY <1>1, <2>1, FunctionIsSeq
<1>4. Return(Current, actionId', noted)
  BY DEF RunAction
<1> HIDE DEF noted
<1>5. Len(stack') = n /\ \A i \in 1..n : stack'[i] = IF i = n THEN NextAction(noted[i]) ELSE noted[i]
  BY <1>3, <1>4, ReturnFrames
<1>6. ASSUME NEW i \in 1..n
      PROVE  /\ SameCall(stack[i], stack'[i]) /\ stack'[i].rounds = stack[i].rounds
             /\ stack'[i].notified = (stack[i].notified \/ (i = InnerCycle /\ "notify" \in eff))
             /\ stack[i].next \in Nat
             /\ stack'[i].next = IF i = n THEN stack[i].next + 1 ELSE stack[i].next
  <2>1. LET g == NextAction(noted[i])
        IN  /\ SameCall(noted[i], g) /\ SameRound(noted[i], g)
            /\ g.next = noted[i].next + 1 /\ noted[i].next \in Nat
    BY <1>2, NextActionFields
  <2>2. SameCall(noted[i], stack'[i]) /\ SameRound(noted[i], stack'[i])
        /\ stack'[i].next = IF i = n THEN noted[i].next + 1 ELSE noted[i].next
    BY <1>5, <2>1 DEF SameCall, SameRound
  <2> QED BY <1>2, <2>1, <2>2 DEF SameCall, SameRound
<1> QED BY <1>5, <1>6

LEMMA SkipFrames ==
  ASSUME Typed, SkipPhase
  PROVE  /\ Len(stack') = Len(stack)
         /\ \A i \in 1..Len(stack) :
              /\ SameCall(stack[i], stack'[i]) /\ SameRound(stack[i], stack'[i])
              /\ stack[i].next \in Nat
              /\ stack'[i].next = IF i = Len(stack) THEN stack[i].next + 1 ELSE stack[i].next
<1> PICK B : stack \in Seq(Frame(B))
  BY DEF Typed
<1>1. \A i \in 1..Len(stack) : stack[i] \in Frame(B)
  BY ElementOfSeq
<1>2. Return(Current, actionId + 1, stack)
  BY DEF SkipPhase
<1>3. /\ Len(stack') = Len(stack)
      /\ \A i \in 1..Len(stack) :
           stack'[i] = IF i = Len(stack) THEN NextAction(stack[i]) ELSE stack[i]
  BY <1>2, ReturnFrames
<1>4. ASSUME NEW i \in 1..Len(stack)
      PROVE  /\ SameCall(stack[i], stack'[i]) /\ SameRound(stack[i], stack'[i])
             /\ stack[i].next \in Nat
             /\ stack'[i].next = IF i = Len(stack) THEN stack[i].next + 1 ELSE stack[i].next
  <2>1. LET g == NextAction(stack[i])
        IN  /\ SameCall(stack[i], g) /\ SameRound(stack[i], g)
            /\ g.next = stack[i].next + 1 /\ stack[i].next \in Nat
    BY <1>1, NextActionFields
  <2> QED BY <1>3, <2>1 DEF SameCall, SameRound
<1> QED BY <1>3, <1>4

LEMMA RepeatFrames ==
  ASSUME Typed, RepeatCycle
  PROVE  /\ Len(stack) \in Nat \ {0} /\ Len(stack') = Len(stack)
         /\ \A i \in 1..(Len(stack) - 1) : stack'[i] = stack[i]
         /\ LET n == Len(stack)
            IN  /\ SameCall(stack[n], stack'[n]) /\ stack'[n].next = 1
                /\ stack'[n].rounds = OneMore(stack[n].rounds) /\ stack'[n].notified = FALSE
<1> PICK B : stack \in Seq(Frame(B))
  BY DEF Typed
<1> DEFINE n == Len(stack)
           g == NextRound(stack[n])
<1>1. n \in Nat \ {0} /\ stack[n] \in Frame(B)
  BY FrontFacts DEF RepeatCycle, EndOfTable
<1>2. /\ g \in Frame(B) /\ SameCall(stack[n], g) /\ g.next = 1
      /\ g.rounds = OneMore(stack[n].rounds) /\ g.notified = FALSE
  BY <1>1, NextRoundFields, FrameAgain
<1>3. stack' = [stack EXCEPT ![n] = g]
  BY DEF RepeatCycle, NextRound
<1> HIDE DEF g
<1>4. Len(stack') = n /\ \A i \in 1..n : stack'[i] = IF i = n THEN g ELSE stack[i]
  BY <1>1, <1>2, <1>3, ExceptSeq
<1> QED BY <1>1, <1>2, <1>4

LEMMA EnterFrames ==
  ASSUME Typed, EnterPhase
  PROVE  LET n == Len(stack)
         IN  /\ n \in Nat /\ Len(stack') = n + 1
             /\ \A i \in 1..n : stack'[i] = stack[i]
             /\ stack'[n + 1].phase = Current /\ stack'[n + 1].next = 1
             /\ stack'[n + 1].base = actionId + 1
             /\ stack'[n + 1].rounds = 0 /\ stack'[n + 1].notified = FALSE
             /\ stack'[n + 1].oldBreak = IF InPhase(Current) = NoPath THEN NoPath ELSE breakpoint
<1> PICK B : stack \in Seq(Frame(B))
  BY DEF Typed
<1> DEFINE n == Len(stack)
           o == IF InPhase(Current) = NoPath THEN NoPath ELSE breakpoint
           f == [phase |-> Current, next |-> 1, base |-> actionId + 1, saved |-> phaseError,
                 oldBreak |-> o, rounds |-> 0, erred |-> FALSE, notified |-> FALSE]
<1>1. stack' = Append(stack, f)
  BY DEF EnterPhase
<1>2. /\ f.phase = Current /\ f.next = 1 /\ f.base = actionId + 1 /\ f.rounds = 0 /\ f.notified = FALSE /\ f.oldBreak = o
  OBVIOUS
<1> HIDE DEF f
<1>3. n \in Nat /\ Len(stack') = n + 1 /\ stack'[n + 1] = f /\ \A i \in 1..n : stack'[i] = stack[i]
  <2> DEFINE S == Frame(B) \cup {f}
  <2>1. stack \in Seq(S) /\ f \in S
    BY SeqMonotonic
  <2> HIDE DEF S
  <2> QED BY <1>1, <2>1, AppendProperties
<1> QED BY <1>2, <1>3

LEMMA LeaveFrames ==
  ASSUME Typed, LeavePhase
  PROVE  LET n == Len(stack)
         IN  /\ n \in Nat \ {0} /\ Len(stack') = n - 1
             /\ \A i \in 1..(n - 1) :
                  /\ SameCall(stack[i], stack'[i]) /\ SameRound(stack[i], stack'[i])
                  /\ stack[i].next \in Nat
                  /\ stack'[i].next = IF i = n - 1 THEN stack[i].next + 1 ELSE stack[i].next
<1> PICK B : stack \in Seq(Frame(B))
  BY DEF Typed
<1> DEFINE n == Len(stack)
           calls == Front(stack)
<1>1. /\ n \in Nat \ {0} /\ calls \in Seq(Frame(B)) /\ Len(calls) = n - 1
      /\ \A i \in 1..(n - 1) : calls[i] = stack[i]
  BY FrontFacts DEF LeavePhase, EndOfTable
<1>2. Return(Top.phase, Top.base, calls)
  BY DEF LeavePhase
<1> HIDE DEF n, calls
<1>3. Len(stack') = n - 1
      /\ \A i \in 1..(n - 1) : stack'[i] = IF i = n - 1 THEN NextAction(calls[i]) ELSE calls[i]
  BY <1>1, <1>2, ReturnFrames
<1>4. ASSUME NEW i \in 1..(n - 1)
      PROVE  /\ SameCall(stack[i], stack'[i]) /\ SameRound(stack[i], stack'[i])
             /\ stack[i].next \in Nat
             /\ stack'[i].next = IF i = n - 1 THEN stack[i].next + 1 ELSE stack[i].next
  <2>1. calls[i] \in Frame(B) /\ calls[i] = stack[i]
    BY <1>1, ElementOfSeq
  <2>2. LET g == NextAction(stack[i])
        IN  /\ SameCall(stack[i], g) /\ SameRound(stack[i], g)
            /\ g.next = stack[i].next + 1 /\ stack[i].next \in Nat
    BY <2>1, NextActionFields
  <2> QED BY <1>3, <2>1, <2>2 DEF SameCall, SameRound
<1> QED BY <1>1, <1>3, <1>4 DEF n

\* What CCNdispatchAction is called with.
LEMMA CurrentFound ==
  ASSUME Typed, Nested, Dispatching
  PROVE  /\ Current \in DOMAIN act
         /\ stack # << >> => /\ Top.next \in DOMAIN act[Top.phase].table
                             /\ Current = act[Top.phase].table[Top.next]
<1>1. CASE stack = << >>
  BY <1>1, TablesHold DEF Current
<1>2. CASE stack # << >>
  <2>1. Len(stack) \in Nat \ {0}
    BY <1>2, FrontFacts DEF Typed
  <2>2. Top.phase \in DOMAIN act /\ Top.next \in Nat \ {0}
    BY <2>1 DEF Nested, Top
  <2> DEFINE t == act[Top.phase].table
  <2>3. Top.next <= Len(t) /\ Current = t[Top.next]
    BY <1>2 DEF Dispatching, Current
  <2>4. /\ Len(t) \in Nat /\ DOMAIN t = 1..Len(t)
        /\ \A k \in 1..Len(t) : t[k] \in DOMAIN act
    BY <2>2, TablesHold
  <2> HIDE DEF t
  <2>5. Top.next \in 1..Len(t)
    BY <2>2, <2>3, <2>4
  <2> QED BY <2>3, <2>4, <2>5 DEF t
<1> QED BY <1>1, <1>2

LEMMA NestedKept ==
  ASSUME Typed, Nested, [Next]_vars
  PROVE  Nested' /\ act' = act
<1>1. act' = act
  BY DEF Next, vars, input, CheckFails, RunAction, SkipPhase, EnterPhase, RepeatCycle,
         AbortPhase, LeavePhase, act
<1> DEFINE n == Len(stack)
           Phase(x) == x \in DOMAIN act /\ act[x].kind = "phase"
           At(f, x) == f.next \in DOMAIN act[f.phase].table /\ act[f.phase].table[f.next] = x
<1>2. /\ n \in Nat
      /\ \A i \in 1..n : /\ Phase(stack[i].phase) /\ stack[i].next \in Nat \ {0}
                         /\ i < n => At(stack[i], stack[i + 1].phase)
  BY DEF Nested, Typed
<1>3. SUFFICES \A i \in 1..Len(stack') :
                 /\ Phase(stack'[i].phase) /\ stack'[i].next \in Nat \ {0}
                 /\ i < Len(stack') => At(stack'[i], stack'[i + 1].phase)
  BY <1>1 DEF Nested
<1> HIDE DEF n, Phase
<1>4. CASE stack' = stack
  BY <1>2, <1>4 DEF n
<1>5. CASE stack' # stack /\ ((\E eff \in SUBSET Effects : RunAction(eff)) \/ SkipPhase)
  <2>1. /\ Len(stack') = n
        /\ \A i \in 1..n :
             /\ SameCall(stack[i], stack'[i])
             /\ stack'[i].next = IF i = n THEN stack[i].next + 1 ELSE stack[i].next
    BY <1>5, RunFrames, SkipFrames DEF n
  <2> QED BY <1>2, <2>1 DEF SameCall
<1>6. CASE RepeatCycle
  <2>1. /\ n \in Nat \ {0} /\ Len(stack') = n /\ \A i \in 1..(n - 1) : stack'[i] = stack[i]
        /\ SameCall(stack[n], stack'[n]) /\ stack'[n].next = 1
    BY <1>6, RepeatFrames DEF n
  <2>2. ASSUME NEW i \in 1..n
        PROVE  /\ Phase(stack'[i].phase) /\ stack'[i].next \in Nat \ {0}
               /\ stack'[i].phase = stack[i].phase
               /\ i < n => stack'[i] = stack[i]
    BY <1>2, <2>1 DEF SameCall
  <2>3. ASSUME NEW i \in 1..n, i < n
        PROVE  At(stack'[i], stack'[i + 1].phase)
    <3>1. i + 1 \in 1..n /\ n \in Nat
      BY <2>1, <2>3
    <3> QED BY <1>2, <2>2, <2>3, <3>1
  <2> QED BY <2>1, <2>2, <2>3
<1>7. CASE EnterPhase
  <2>1. /\ n \in Nat /\ Len(stack') = n + 1 /\ \A i \in 1..n : stack'[i] = stack[i]
        /\ stack'[n + 1].phase = Current /\ stack'[n + 1].next = 1
    BY <1>7, EnterFrames DEF n
  <2>2. Phase(Current)
    BY <1>7, CurrentFound DEF EnterPhase, Phase
  <2>3. n > 0 => At(stack[n], Current)
    <3>1. n > 0 => stack # << >>
      BY DEF n
    <3> QED BY <1>7, <3>1, CurrentFound DEF EnterPhase, Top, n
  <2> HIDE DEF At
  <2> QED BY <1>2, <2>1, <2>2, <2>3
<1>8. CASE LeavePhase
  <2>1. /\ n \in Nat \ {0} /\ Len(stack') = n - 1
        /\ \A i \in 1..(n - 1) :
             /\ SameCall(stack[i], stack'[i])
             /\ stack'[i].next = IF i = n - 1 THEN stack[i].next + 1 ELSE stack[i].next
    BY <1>8, LeaveFrames DEF n
  <2>2. ASSUME NEW i \in 1..(n - 1)
        PROVE  /\ i \in 1..n /\ i < n /\ stack'[i].phase = stack[i].phase
               /\ stack'[i].next \in Nat \ {0}
               /\ i < n - 1 => stack'[i].next = stack[i].next
    BY <1>2, <2>1 DEF SameCall
  <2>3. ASSUME NEW i \in 1..(n - 1), i < n - 1
        PROVE  At(stack'[i], stack'[i + 1].phase)
    <3>1. i + 1 \in 1..(n - 1)
      BY <2>1, <2>3
    <3> QED BY <1>2, <2>2, <2>3, <3>1
  <2> QED BY <1>2, <2>1, <2>2, <2>3
<1>9. CASE CheckFails \/ AbortPhase \/ UNCHANGED vars
  BY <1>4, <1>9 DEF CheckFails, AbortPhase, vars
<1> QED BY <1>4, <1>5, <1>6, <1>7, <1>8, <1>9 DEF Next

\* The rounds of a cycle that runs no phase and is run by no cycle are those
\* counted in cycle_iter, and fixed_point tells of its own notifications.
RoundsAreCounted ==
  outcome = "running" =>
    /\ cycleIter \in 0..(MaxCycles - 1)
    /\ (\A i \in 1..Len(stack) : ~act[stack[i].phase].cycle) => cycleIter = 0
    /\ Len(stack) > 0 /\ act[Top.phase].cycle /\ Plain(Len(stack)) =>
         cycleIter = Top.rounds /\ (fixedPoint <=> ~Top.notified)

CycleInv == KeptInv /\ Nested /\ RoundsAreCounted

LEMMA InitCycle == Init => CycleInv
<1> SUFFICES ASSUME Init PROVE CycleInv
  OBVIOUS
<1>1. KeptInv
  BY InitKept
<1>2. stack = << >> /\ Len(stack) = 0 /\ cycleIter = 0
  BY DEF Init
<1>3. Nested
  BY <1>2 DEF Nested
<1>4. RoundsAreCounted
  BY <1>2, MaxCyclesAssumption DEF RoundsAreCounted
<1> QED BY <1>1, <1>3, <1>4 DEF CycleInv

\* A cycle alone on the stack is the one CCNcycleNotify speaks to.
LEMMA AloneIsInner ==
  ASSUME Typed, Len(stack) > 0, act[Top.phase].cycle,
         \A j \in 1..(Len(stack) - 1) : ~act[stack[j].phase].cycle
  PROVE  InnerCycle = Len(stack)
<1> DEFINE n == Len(stack)
<1>1. n \in Nat \ {0} /\ DOMAIN stack = 1..n
  BY DEF Typed
<1>2. act[stack[n].phase].cycle /\ \A j \in 1..(n - 1) : ~act[stack[j].phase].cycle
  BY DEF Top
<1> HIDE DEF n
<1>3. Cycles = {n}
  <2>1. \A i \in 1..n : i = n \/ i \in 1..(n - 1)
    BY <1>1
  <2>2. \A i \in 1..n : act[stack[i].phase].cycle <=> i = n
    BY <1>1, <1>2, <2>1
  <2>3. Cycles = {i \in 1..n : act[stack[i].phase].cycle}
    BY <1>1 DEF Cycles
  <2> QED BY <1>1, <2>2, <2>3
<1>4. Cycles # {} /\ \A i \in Cycles : i = n
  BY <1>3
<1>5. n \in Cycles /\ \A j \in Cycles : j <= n
  BY <1>1, <1>3
<1> QED BY <1>4, <1>5 DEF InnerCycle, n

\* Whether a call is that of such a cycle does not depend on where it is in
\* its table.
LEMMA PlainKept ==
  ASSUME Typed, act' = act, Len(stack') = Len(stack),
         \A i \in 1..Len(stack) : stack'[i].phase = stack[i].phase
  PROVE  /\ (\A i \in 1..Len(stack) : ~act[stack[i].phase].cycle)'
              <=> (\A i \in 1..Len(stack) : ~act[stack[i].phase].cycle)
         /\ Len(stack) > 0 => /\ Top'.phase = Top.phase
                              /\ Plain(Len(stack))' <=> Plain(Len(stack))
<1> DEFINE n == Len(stack)
<1>1. n \in Nat
  BY DEF Typed
<1>2. (\A i \in 1..n : ~act[stack[i].phase].cycle)' <=> (\A i \in 1..n : ~act[stack[i].phase].cycle)
  OBVIOUS
<1>3. ASSUME n > 0
      PROVE  Top'.phase = Top.phase /\ (Plain(n)' <=> Plain(n))
  <2>1. n \in 1..n /\ \A j \in 1..(n - 1) : j \in 1..n
    BY <1>1, <1>3
  <2>2. Top'.phase = Top.phase
    BY <2>1 DEF Top
  <2>3. stack'[n].phase = stack[n].phase
        /\ \A j \in 1..(n - 1) : stack'[j].phase = stack[j].phase
    BY <2>1
  <2>4. n' = n
    OBVIOUS
  <2> HIDE DEF n
  <2>5. Plain(n)' <=> Plain(n)
    BY <2>3, <2>4 DEF Plain, RunsPhase
  <2> QED BY <2>2, <2>5
<1> QED BY <1>2, <1>3

LEMMA CycleKept ==
  ASSUME CycleInv, [Next]_vars
  PROVE  CycleInv'
<1>1. KeptInv' /\ Nested' /\ act' = act
  <2>1. KeptInv'
    BY NextKept DEF CycleInv
  <2>2. Typed /\ Nested
    BY DEF CycleInv, KeptInv
  <2> QED BY <2>1, <2>2, NestedKept DEF KeptInv
<1> DEFINE n == Len(stack)
           NoCycle == \A i \in 1..Len(stack) : ~act[stack[i].phase].cycle
           Alone == Len(stack) > 0 /\ act[Top.phase].cycle /\ Plain(Len(stack))
<1>2. SUFFICES ASSUME outcome' = "running"
               PROVE  /\ cycleIter' \in 0..(MaxCycles - 1)
                      /\ NoCycle' => cycleIter' = 0
                      /\ Alone' => cycleIter' = Top'.rounds /\ (fixedPoint' <=> ~Top'.notified)
  BY <1>1 DEF CycleInv, RoundsAreCounted
<1>3. CASE UNCHANGED vars
  BY <1>2, <1>3 DEF CycleInv, RoundsAreCounted, vars, Top, Plain, RunsPhase, act
<1>4. CASE CheckFails \/ AbortPhase
  BY <1>2, <1>4 DEF CheckFails, AbortPhase
<1>5. /\ MaxCycles \in Nat \ {0} /\ n \in Nat /\ Typed /\ Nested
      /\ \A j \in 1..(n - 1) : j \in 1..n
  BY MaxCyclesAssumption DEF CycleInv, KeptInv, Typed
<1>6. outcome = "running" =>
        /\ cycleIter \in 0..(MaxCycles - 1)
        /\ NoCycle => cycleIter = 0
        /\ Alone => cycleIter = Top.rounds /\ (fixedPoint <=> ~Top.notified)
  BY DEF CycleInv, RoundsAreCounted
<1> HIDE DEF n
<1>7. ASSUME NEW note \in BOOLEAN, outcome = "running", cycleIter' = cycleIter,
             fixedPoint' <=> (fixedPoint /\ ~note), Len(stack') = n,
             \A i \in 1..n : /\ stack'[i].phase = stack[i].phase
                             /\ stack'[i].rounds = stack[i].rounds
                             /\ stack'[i].notified <=> (stack[i].notified \/ (i = InnerCycle /\ note))
      PROVE  /\ cycleIter' \in 0..(MaxCycles - 1)
             /\ NoCycle' => cycleIter' = 0
             /\ Alone' => cycleIter' = Top'.rounds /\ (fixedPoint' <=> ~Top'.notified)
  <2>1. /\ NoCycle' <=> NoCycle
        /\ n > 0 => Top'.phase = Top.phase /\ (Plain(n)' <=> Plain(n))
    BY <1>1, <1>5, <1>7, PlainKept DEF n
  <2>2. Alone' => Alone
    BY <1>1, <1>7, <2>1 DEF n
  <2>3. ASSUME Alone
        PROVE  cycleIter' = Top'.rounds /\ (fixedPoint' <=> ~Top'.notified)
    <3>1. InnerCycle = n /\ n \in 1..n
      BY <1>5, <2>3, AloneIsInner DEF Plain, n
    <3>2. Top' = stack'[n] /\ Top = stack[n]
      BY <1>7 DEF Top, n
    <3>3. cycleIter = Top.rounds /\ (fixedPoint <=> ~Top.notified)
      BY <1>6, <1>7, <2>3
    <3> HIDE DEF Alone
    <3>4. /\ Top'.rounds = Top.rounds
          /\ Top'.notified <=> (Top.notified \/ note)
      BY <1>7, <3>1, <3>2
    <3> QED BY <1>7, <3>3, <3>4
  <2> HIDE DEF NoCycle, Alone
  <2> QED BY <1>6, <1>7, <2>1, <2>2, <2>3
<1>8. CASE \E eff \in SUBSET Effects : RunAction(eff)
  <2> PICK eff \in SUBSET Effects : RunAction(eff)
    BY <1>8
  <2> DEFINE note == "notify" \in eff
  <2>1. /\ outcome = "running" /\ cycleIter' = cycleIter
        /\ fixedPoint' = (fixedPoint /\ ~note)
    BY DEF RunAction, Dispatching
  <2>2. /\ Len(stack') = n
        /\ \A i \in 1..n : /\ stack'[i].phase = stack[i].phase
                           /\ stack'[i].rounds = stack[i].rounds
                           /\ stack'[i].notified = (stack[i].notified \/ (i = InnerCycle /\ note))
    BY <1>2, <1>5, RunFrames DEF SameCall, n
  <2>3. note \in BOOLEAN
    OBVIOUS
  <2> HIDE DEF note, NoCycle, Alone
  <2> QED BY <1>7, <2>1, <2>2, <2>3
<1>9. CASE SkipPhase
  <2>1. outcome = "running" /\ cycleIter' = cycleIter /\ fixedPoint' = fixedPoint
    BY <1>9 DEF SkipPhase, Dispatching
  <2>2. /\ Len(stack') = n
        /\ \A i \in 1..n : /\ stack'[i].phase = stack[i].phase
                           /\ stack'[i].rounds = stack[i].rounds
                           /\ stack'[i].notified = stack[i].notified
    BY <1>5, <1>9, SkipFrames DEF SameCall, SameRound, n
  <2> HIDE DEF NoCycle, Alone
  <2> QED BY <1>7, <2>1, <2>2
<1>10. CASE EnterPhase
  <2>1. /\ outcome = "running" /\ cycleIter' = cycleIter /\ fixedPoint' = TRUE
    BY <1>10 DEF EnterPhase, Dispatching
  <2>2. /\ Len(stack') = n + 1 /\ \A i \in 1..n : stack'[i] = stack[i]
        /\ stack'[n + 1].rounds = 0 /\ stack'[n + 1].notified = FALSE
    BY <1>5, <1>10, EnterFrames DEF n
  <2>3. \A i \in 1..n : i \in 1..(n + 1)
    BY <1>5
  <2>4. NoCycle' => NoCycle
    BY <1>1, <2>2, <2>3 DEF n
  <2>5. Alone' => NoCycle
    <3>1. Alone' => \A j \in 1..((n + 1) - 1) : ~act[stack'[j].phase].cycle
      BY <1>1, <2>2 DEF Plain, RunsPhase
    <3>2. (n + 1) - 1 = n
      BY <1>5
    <3> QED BY <2>2, <3>1, <3>2 DEF n
  <2>6. Top'.rounds = 0 /\ Top'.notified = FALSE
    BY <2>2 DEF Top
  <2> HIDE DEF NoCycle, Alone
  <2> QED BY <1>6, <2>1, <2>4, <2>5, <2>6
<1>11. CASE RepeatCycle
  <2>1. /\ outcome = "running" /\ cycleIter' = cycleIter + 1 /\ fixedPoint' = TRUE
        /\ act[Top.phase].cycle /\ cycleIter + 1 < MaxCycles
    BY <1>11 DEF RepeatCycle, EndOfTable, Again
  <2>2. /\ n \in 1..n /\ Len(stack') = n
        /\ \A i \in 1..n : stack'[i].phase = stack[i].phase
        /\ stack'[n].rounds = OneMore(stack[n].rounds) /\ stack'[n].notified = FALSE
    <3>1. /\ n \in Nat \ {0} /\ Len(stack') = n
          /\ \A i \in 1..(n - 1) : stack'[i] = stack[i]
          /\ SameCall(stack[n], stack'[n])
          /\ stack'[n].rounds = OneMore(stack[n].rounds) /\ stack'[n].notified = FALSE
      BY <1>5, <1>11, RepeatFrames DEF n
    <3>2. \A i \in 1..n : i = n \/ i \in 1..(n - 1)
      BY <3>1
    <3> QED BY <3>1, <3>2 DEF SameCall
  <2>3. /\ NoCycle' <=> NoCycle
        /\ Top'.phase = Top.phase /\ (Plain(n)' <=> Plain(n))
    BY <1>1, <1>5, <2>2, PlainKept DEF n
  <2>4. ~NoCycle
    BY <2>1, <2>2 DEF Top, n
  <2>5. Alone' => Alone
    BY <1>1, <2>2, <2>3 DEF n
  <2>6. Top'.rounds = OneMore(Top.rounds) /\ Top'.notified = FALSE
    BY <2>2 DEF Top, n
  <2>7. cycleIter = Top.rounds => Top'.rounds = Top.rounds + 1
    BY <1>5, <1>6, <2>1, <2>6 DEF OneMore
  <2> HIDE DEF NoCycle, Alone
  <2> QED BY <1>5, <1>6, <2>1, <2>3, <2>4, <2>5, <2>6, <2>7
<1>12. CASE LeavePhase
  <2>1. cycleIter' = 0
    BY <1>12 DEF LeavePhase
  <2>2. /\ n \in Nat \ {0} /\ Len(stack') = n - 1
        /\ \A i \in 1..(n - 1) : stack'[i].phase = stack[i].phase
    BY <1>5, <1>12, LeaveFrames DEF SameCall, n
  <2>3. ASSUME Alone'
        PROVE  FALSE
    <3>1. n - 1 > 0 /\ \A k \in DOMAIN act[stack'[n - 1].phase].table :
                         act[act[stack'[n - 1].phase].table[k]].kind # "phase"
      BY <1>1, <2>2, <2>3 DEF Plain, RunsPhase
    <3>2. n - 1 \in 1..n /\ n - 1 \in 1..(n - 1) /\ n - 1 < n /\ (n - 1) + 1 = n /\ n \in 1..n
      BY <2>2, <3>1
    <3>3. LET f == stack[n - 1]
          IN  /\ f.next \in DOMAIN act[f.phase].table
              /\ act[act[f.phase].table[f.next]].kind = "phase"
      BY <1>5, <3>2 DEF Nested, n
    <3> QED BY <2>2, <3>1, <3>2, <3>3
  <2> HIDE DEF NoCycle, Alone
  <2> QED BY <1>5, <2>1, <2>3
<1> HIDE DEF NoCycle, Alone
<1> QED BY <1>3, <1>4, <1>8, <1>9, <1>10, <1>11, <1>12 DEF Next

\* The rounds of every such cycle are counted throughout.
THEOREM CyclesKept == Spec => []CycleInv
BY InitCycle, CycleKept, PTL DEF Spec

\* A cycle that runs no phase and is run by none goes on exactly when it was
\* notified and max_cycles is not reached, for every set of tables.
THEOREM CyclesRepeatWhenNotified == Spec => NotifiedCyclesRepeat
<1> DEFINE n == Len(stack)
           Goal == /\ Len(stack') < Len(stack) /\ act[Top.phase].cycle /\ Plain(Len(stack))
                        => ~Top.notified \/ Top.rounds + 1 = MaxCycles
                   /\ RepeatCycle /\ Plain(Len(stack)) => Top.notified /\ Top.rounds + 1 < MaxCycles
<1>1. ASSUME CycleInv, [Next]_vars
      PROVE  [Goal]_vars
  <2>1. n \in Nat /\ Typed /\ MaxCycles \in Nat \ {0} /\ KeptInv
    BY <1>1, MaxCyclesAssumption DEF CycleInv, KeptInv, Typed
  <2>2. outcome = "running" =>
          /\ cycleIter \in 0..(MaxCycles - 1)
          /\ n > 0 /\ act[Top.phase].cycle /\ Plain(n) =>
               cycleIter = Top.rounds /\ (fixedPoint <=> ~Top.notified)
    BY <1>1 DEF CycleInv, RoundsAreCounted
  <2>3. CASE LeavePhase
    <3>1. outcome = "running" /\ n > 0 /\ n \in Nat /\ ~Again
      BY <2>1, <2>3, LeaveFrames DEF LeavePhase, EndOfTable
    <3>2. act[Top.phase].cycle => ~(cycleIter + 1 < MaxCycles) \/ fixedPoint
      BY <3>1 DEF Again
    <3>3. ~RepeatCycle
      BY <2>3 DEF RepeatCycle, LeavePhase
    <3> HIDE DEF n
    <3>4. ASSUME act[Top.phase].cycle, Plain(n)
          PROVE  ~Top.notified \/ Top.rounds + 1 = MaxCycles
      BY <2>1, <2>2, <3>1, <3>2, <3>4
    <3> QED BY <3>3, <3>4 DEF n
  <2>4. CASE RepeatCycle
    <3>1. /\ outcome = "running" /\ n > 0 /\ Len(stack') = n
          /\ act[Top.phase].cycle /\ cycleIter + 1 < MaxCycles /\ ~fixedPoint
      BY <2>1, <2>4, RepeatFrames DEF RepeatCycle, EndOfTable, Again
    <3> HIDE DEF n
    <3>2. ASSUME Plain(n)
          PROVE  Top.notified /\ Top.rounds + 1 < MaxCycles
      BY <2>2, <3>1, <3>2
    <3>3. ~(Len(stack') < n)
      BY <2>1, <3>1
    <3> QED BY <3>2, <3>3 DEF n
  <2>5. CASE ~LeavePhase /\ ~RepeatCycle
    <3>1. ~(Len(stack') < n)
      <4>1. CASE \E eff \in SUBSET Effects : RunAction(eff)
        BY <2>1, <4>1, RunKept
      <4>2. CASE EnterPhase
        BY <2>1, <4>2, EnterFrames
      <4>3. CASE CheckFails \/ SkipPhase \/ AbortPhase \/ UNCHANGED vars
        <5>1. Len(stack') = n
          BY <2>1, <4>3, OthersKept
        <5> QED BY <2>1, <5>1
      <4> QED BY <1>1, <2>5, <4>1, <4>2, <4>3 DEF Next
    <3> QED BY <2>5, <3>1
  <2> HIDE DEF Goal
  <2> QED BY <2>3, <2>4, <2>5
<1> QED BY <1>1, CyclesKept, PTL DEF Spec, NotifiedCyclesRepeat

-----------------------------------------------------------------------------
\* Breakpoints.

\* What is left of a breakpoint's path behind its first k names.
Rest(p, k) == SubSeq(p, k + 1, Len(p))

LEMMA RestFacts ==
  ASSUME NEW S, NEW p \in Seq(S), NEW k \in Nat, k = 0 \/ k < Len(p)
  PROVE  /\ Rest(p, k) \in Seq(S) /\ Len(Rest(p, k)) = Len(p) - k
         /\ \A j \in 1..(Len(p) - k) : Rest(p, k)[j] = p[k + j]
         /\ Len(p) - k > 1 => /\ Head(Rest(p, k)) = p[k + 1]
                              /\ Tail(Rest(p, k)) = Rest(p, k + 1)
                              /\ Rest(p, k + 1) # << >>
<1> DEFINE r == Rest(p, k)
           m == Len(p)
<1>1. m \in Nat
  OBVIOUS
<1>2. r \in Seq(S) /\ Len(r) = m - k /\ \A j \in 1..(m - k) : r[j] = p[k + j]
  BY <1>1, SubSeqProperties DEF Rest
<1>3. ASSUME m - k > 1
      PROVE  Head(r) = p[k + 1] /\ Tail(r) = Rest(p, k + 1) /\ Rest(p, k + 1) # << >>
  <2> DEFINE t == Rest(p, k + 1)
  <2>1. t \in Seq(S) /\ Len(t) = m - (k + 1) /\ \A j \in 1..(m - (k + 1)) : t[j] = p[(k + 1) + j]
    BY <1>1, <1>3, SubSeqProperties DEF Rest
  <2> HIDE DEF t, r, m
  <2>2. Head(r) = r[1] /\ Tail(r) \in Seq(S) /\ Len(Tail(r)) = Len(r) - 1
        /\ \A j \in 1..(Len(r) - 1) : Tail(r)[j] = r[j + 1]
    BY <1>1, <1>2, <1>3, HeadTailProperties
  <2>3. r[1] = p[k + 1]
    BY <1>1, <1>2, <1>3
  <2>4. Tail(r) = t
    <3>1. Len(Tail(r)) = Len(t)
      BY <1>1, <1>2, <2>1, <2>2
    <3>2. ASSUME NEW j \in 1..Len(t)
          PROVE  Tail(r)[j] = t[j]
      <4>1. j \in 1..(Len(r) - 1) /\ j + 1 \in 1..(m - k) /\ k + (j + 1) = (k + 1) + j
        BY <1>1, <1>2, <2>1, <3>2
      <4> QED BY <1>2, <2>1, <2>2, <3>2, <4>1
    <3> QED BY <2>1, <2>2, <3>1, <3>2, SeqEqual
  <2>5. t # << >>
    BY <1>1, <1>3, <2>1
  <2> QED BY <2>2, <2>3, <2>4, <2>5 DEF t
<1> QED BY <1>2, <1>3

\* The first k names of p are those of phases around the i-th call, in order.
Followed(s, p, i, k) ==
  \E at \in [1..k -> 1..i] :
    /\ \A j \in 1..k : s[at[j]].phase = p[j]
    /\ \A j \in 1..(k - 1) : at[j] < at[j + 1]

\* d[i] names were behind the driver when the i-th call began: as many as a
\* path that starts like that of the calls allows; old_break brings them back.
Left(s, p, b, d) ==
  /\ d \in [0..Len(s) -> Nat]
  /\ b = Rest(p, d[Len(s)])
  /\ \A i \in 1..Len(s) :
       IF s[i].oldBreak = NoPath THEN d[i] = d[i - 1] ELSE s[i].oldBreak = Rest(p, d[i - 1])
  /\ \A i \in 0..Len(s) :
       /\ d[i] = 0 \/ d[i] < Len(p)
       /\ Followed(s, p, i, d[i])
       /\ i < Len(p) /\ (\A j \in 1..i : s[j].phase = p[j]) => d[i] = i

LEMMA FollowedOn ==
  ASSUME NEW s, NEW t, NEW p, NEW i \in Nat, NEW k \in Nat, Followed(s, p, i, k),
         \A j \in 1..i : t[j].phase = s[j].phase
  PROVE  Followed(t, p, i, k)
BY DEF Followed

\* The calls go on, or the innermost one ends.
LEMMA LeftWithin ==
  ASSUME NEW s, NEW t, NEW p, NEW b, NEW c, NEW d, Left(s, p, b, d), Len(s) \in Nat,
         Len(t) \in 0..Len(s), \A i \in 1..Len(t) : SameCall(s[i], t[i]),
         c = Rest(p, d[Len(t)])
  PROVE  \E e : Left(t, p, c, e)
<1> DEFINE n == Len(t)
           e == [i \in 0..n |-> d[i]]
<1>1. n \in Nat /\ 0..n \subseteq 0..Len(s) /\ 1..n \subseteq 1..Len(s) /\ n \in 0..n
      /\ \A i \in 1..n : i - 1 \in 0..n /\ i \in 0..n
  OBVIOUS
<1>2. d \in [0..Len(s) -> Nat]
  BY DEF Left
<1>3. e \in [0..n -> Nat] /\ \A i \in 0..n : e[i] = d[i]
  BY <1>1, <1>2
<1> HIDE DEF e, n
<1>4. c = Rest(p, e[n])
  BY <1>1, <1>3 DEF n
<1>5. \A i \in 1..n : IF t[i].oldBreak = NoPath THEN e[i] = e[i - 1]
                      ELSE t[i].oldBreak = Rest(p, e[i - 1])
  BY <1>1, <1>3 DEF Left, SameCall, n
<1>6. ASSUME NEW i \in 0..n
      PROVE  /\ e[i] = 0 \/ e[i] < Len(p)
             /\ Followed(t, p, i, e[i])
             /\ i < Len(p) /\ (\A j \in 1..i : t[j].phase = p[j]) => e[i] = i
  <2>1. i \in 0..Len(s) /\ e[i] = d[i] /\ i \in Nat /\ d[i] \in Nat
    BY <1>1, <1>2, <1>3
  <2>2. \A j \in 1..i : j \in 1..n
    BY <1>1, <2>1
  <2>3. \A j \in 1..i : t[j].phase = s[j].phase
    BY <2>2 DEF SameCall, n
  <2>4. /\ d[i] = 0 \/ d[i] < Len(p)
        /\ Followed(s, p, i, d[i])
        /\ i < Len(p) /\ (\A j \in 1..i : s[j].phase = p[j]) => d[i] = i
    BY <2>1 DEF Left
  <2> QED BY <2>1, <2>3, <2>4, FollowedOn
<1>7. Left(t, p, c, e)
  BY <1>3, <1>4, <1>5, <1>6 DEF Left, n
<1> QED BY <1>7

\* A phase is entered.
LEMMA LeftEntered ==
  ASSUME NEW S, NEW p \in Seq(S), NEW s, NEW t, NEW b, NEW c, NEW d, NEW x, Left(s, p, b, d),
         Len(s) \in Nat, Len(t) = Len(s) + 1, \A i \in 1..Len(s) : t[i] = s[i],
         t[Len(s) + 1].phase = x,
         LET sub == IF Len(b) > 1 /\ Head(b) = x THEN Tail(b) ELSE << >>
         IN  /\ t[Len(s) + 1].oldBreak = IF sub = << >> THEN << >> ELSE b
             /\ c = IF sub = << >> THEN b ELSE sub
  PROVE  \E e : Left(t, p, c, e)
<1> DEFINE n == Len(s)
           k == d[n]
           meets == Len(b) > 1 /\ Head(b) = x
           e == [i \in 0..(n + 1) |-> IF i = n + 1 THEN IF meets THEN k + 1 ELSE k ELSE d[i]]
<1>1. /\ n \in Nat /\ n \in 0..n /\ n + 1 \in 0..(n + 1) /\ n + 1 \in 1..(n + 1)
      /\ \A i \in 0..(n + 1) : i = n + 1 \/ i \in 0..n
      /\ \A i \in 1..(n + 1) : i = n + 1 \/ i \in 1..n
      /\ \A i \in 0..n : i # n + 1 /\ i \in 0..(n + 1)
      /\ \A i \in 1..n : i - 1 \in 0..n /\ i \in 0..n
      /\ (n + 1) - 1 = n
  OBVIOUS
<1>2. d \in [0..n -> Nat] /\ k \in Nat /\ b = Rest(p, k)
      /\ (k = 0 \/ k < Len(p)) /\ Followed(s, p, n, k)
      /\ (n < Len(p) /\ (\A j \in 1..n : s[j].phase = p[j]) => k = n)
  BY <1>1 DEF Left
<1>3. /\ Len(b) = Len(p) - k /\ Len(p) \in Nat
      /\ Len(p) - k > 1 => /\ Head(b) = p[k + 1] /\ Tail(b) = Rest(p, k + 1)
                           /\ Rest(p, k + 1) # << >>
  <2> HIDE DEF k, n
  <2>1. k \in Nat /\ (k = 0 \/ k < Len(p)) /\ Len(p) \in Nat
    BY <1>2
  <2>2. Len(Rest(p, k)) = Len(p) - k
    BY <2>1, RestFacts
  <2>3. Len(p) - k > 1 => /\ Head(Rest(p, k)) = p[k + 1]
                          /\ Tail(Rest(p, k)) = Rest(p, k + 1)
                          /\ Rest(p, k + 1) # << >>
    BY <2>1, RestFacts
  <2> QED BY <1>2, <2>1, <2>2, <2>3
<1>4. e \in [0..(n + 1) -> Nat] /\ (\A i \in 0..n : e[i] = d[i])
      /\ e[n + 1] = IF meets THEN k + 1 ELSE k
  <2> DEFINE last == IF meets THEN k + 1 ELSE k
  <2> HIDE DEF meets, k, n
  <2>1. last \in Nat
    BY <1>2
  <2> HIDE DEF last
  <2>2. \A i \in 0..(n + 1) : (IF i = n + 1 THEN last ELSE d[i]) \in Nat
    BY <1>1, <1>2, <2>1
  <2>3. e \in [0..(n + 1) -> Nat]
    BY <2>2 DEF last
  <2> QED BY <1>1, <2>3 DEF last
<1>5. /\ \A i \in 1..n : t[i] = s[i]
      /\ t[n + 1].phase = x
      /\ meets => t[n + 1].oldBreak = b /\ c = Rest(p, k + 1) /\ b # << >> /\ k + 1 < Len(p)
                  /\ x = p[k + 1]
      /\ ~meets => t[n + 1].oldBreak = << >> /\ c = b
  <2>1. meets => Len(p) - k > 1
    BY <1>3
  <2>2. meets => k + 1 < Len(p) /\ b # << >>
    BY <1>2, <1>3, <2>1
  <2> QED BY <1>3, <2>1, <2>2
<1>6. \A i \in 1..n : IF s[i].oldBreak = << >> THEN d[i] = d[i - 1] ELSE s[i].oldBreak = Rest(p, d[i - 1])
  BY DEF Left, NoPath
<1>7. \A i \in 0..n : /\ d[i] = 0 \/ d[i] < Len(p)
                      /\ Followed(s, p, i, d[i])
                      /\ i < Len(p) /\ (\A j \in 1..i : s[j].phase = p[j]) => d[i] = i
  BY DEF Left
<1>8. Len(t) = n + 1
  OBVIOUS
<1> HIDE DEF e, n, k, meets
<1>9. c = Rest(p, e[n + 1])
  BY <1>2, <1>4, <1>5
<1>10. \A i \in 1..(n + 1) :
         IF t[i].oldBreak = << >> THEN e[i] = e[i - 1] ELSE t[i].oldBreak = Rest(p, e[i - 1])
  <2>1. \A i \in 1..n :
         IF t[i].oldBreak = << >> THEN e[i] = e[i - 1] ELSE t[i].oldBreak = Rest(p, e[i - 1])
    BY <1>1, <1>4, <1>5, <1>6
  <2>2. e[(n + 1) - 1] = k
    BY <1>1, <1>4 DEF k
  <2>3. IF t[n + 1].oldBreak = << >> THEN e[n + 1] = e[(n + 1) - 1]
        ELSE t[n + 1].oldBreak = Rest(p, e[(n + 1) - 1])
    BY <1>2, <1>4, <1>5, <2>2
  <2> QED BY <1>1, <2>1, <2>3
<1>11. ASSUME NEW i \in 0..n
       PROVE  /\ e[i] = 0 \/ e[i] < Len(p)
              /\ Followed(t, p, i, e[i])
              /\ i < Len(p) /\ (\A j \in 1..i : t[j].phase = p[j]) => e[i] = i
  <2>1. i \in Nat /\ d[i] \in Nat /\ e[i] = d[i] /\ \A j \in 1..i : j \in 1..n
    BY <1>1, <1>2, <1>4
  <2>2. \A j \in 1..i : t[j].phase = s[j].phase
    BY <1>5, <2>1
  <2>3. /\ d[i] = 0 \/ d[i] < Len(p)
        /\ Followed(s, p, i, d[i])
        /\ i < Len(p) /\ (\A j \in 1..i : s[j].phase = p[j]) => d[i] = i
    BY <1>7
  <2>4. Followed(t, p, i, e[i])
    BY <2>1, <2>2, <2>3, FollowedOn
  <2>5. (\A j \in 1..i : t[j].phase = p[j]) => \A j \in 1..i : s[j].phase = p[j]
    BY <2>2
  <2> QED BY <2>1, <2>3, <2>4, <2>5
<1>12. e[n + 1] = 0 \/ e[n + 1] < Len(p)
  BY <1>2, <1>4, <1>5
<1>13. Followed(t, p, n + 1, e[n + 1])
  <2>1. PICK at \in [1..k -> 1..n] : /\ \A j \in 1..k : s[at[j]].phase = p[j]
                                     /\ \A j \in 1..(k - 1) : at[j] < at[j + 1]
    BY <1>2 DEF Followed
  <2>2. \A j \in 1..k : at[j] \in 1..n /\ at[j] \in 1..(n + 1) /\ t[at[j]].phase = p[j]
    <3>1. \A j \in 1..k : at[j] \in 1..n
      BY <2>1
    <3>2. \A q \in 1..n : t[q] = s[q] /\ q \in 1..(n + 1)
      BY <1>1, <1>5
    <3> QED BY <2>1, <3>1, <3>2
  <2>3. CASE ~meets
    <3>1. at \in [1..k -> 1..(n + 1)]
      BY <2>1, <2>2
    <3>2. Followed(t, p, n + 1, k)
      BY <2>1, <2>2, <3>1 DEF Followed
    <3> QED BY <1>4, <2>3, <3>2
  <2>4. CASE meets
    <3> DEFINE to == [j \in 1..(k + 1) |-> IF j = k + 1 THEN n + 1 ELSE at[j]]
    <3>1. /\ k + 1 \in 1..(k + 1) /\ (k + 1) - 1 = k
          /\ \A j \in 1..(k + 1) : j = k + 1 \/ j \in 1..k
          /\ \A j \in 1..k : /\ j # k + 1 /\ j \in 1..(k + 1) /\ j + 1 \in 1..(k + 1)
                             /\ j + 1 = k + 1 \/ (j \in 1..(k - 1) /\ j + 1 \in 1..k)
      BY <1>2
    <3>2. \A j \in 1..(k + 1) : to[j] \in 1..(n + 1)
      BY <1>1, <2>2, <3>1
    <3>3. to \in [1..(k + 1) -> 1..(n + 1)]
      BY <3>2
    <3>4. to[k + 1] = n + 1 /\ \A j \in 1..k : to[j] = at[j]
      BY <3>1
    <3> HIDE DEF to
    <3>5. \A j \in 1..(k + 1) : t[to[j]].phase = p[j]
      BY <1>5, <2>2, <2>4, <3>1, <3>4
    <3>6. \A j \in 1..((k + 1) - 1) : to[j] < to[j + 1]
      <4>1. \A j \in 1..k : at[j] < n + 1
        BY <1>1, <2>2
      <4>2. ASSUME NEW j \in 1..k
            PROVE  to[j] < to[j + 1]
        <5>1. CASE j + 1 = k + 1
          BY <3>4, <4>1, <5>1
        <5>2. CASE j \in 1..(k - 1) /\ j + 1 \in 1..k
          BY <2>1, <3>4, <5>2
        <5> QED BY <3>1, <5>1, <5>2
      <4> QED BY <3>1, <4>2
    <3>7. Followed(t, p, n + 1, k + 1)
      BY <3>3, <3>5, <3>6 DEF Followed
    <3> QED BY <1>4, <2>4, <3>7
  <2> QED BY <2>3, <2>4
<1>14. n + 1 < Len(p) /\ (\A j \in 1..(n + 1) : t[j].phase = p[j]) => e[n + 1] = n + 1
  <2> SUFFICES ASSUME n + 1 < Len(p), \A j \in 1..(n + 1) : t[j].phase = p[j]
               PROVE  e[n + 1] = n + 1
    OBVIOUS
  <2>1. \A j \in 1..n : j \in 1..(n + 1)
    BY <1>1
  <2>2. k = n
    <3>1. \A j \in 1..n : s[j].phase = p[j]
      BY <1>5, <2>1
    <3>2. n < Len(p)
      BY <1>1, <1>3
    <3> QED BY <1>2, <3>1, <3>2
  <2>3. x = p[n + 1]
    BY <1>1, <1>5
  <2>4. Len(p) - k > 1
    BY <1>1, <1>3, <2>2
  <2>5. meets
    BY <1>3, <2>2, <2>3, <2>4 DEF meets
  <2> QED BY <1>4, <2>2, <2>5
<1>15. Left(t, p, c, e)
  <2>1. e \in [0..Len(t) -> Nat] /\ c = Rest(p, e[Len(t)])
    BY <1>4, <1>8, <1>9
  <2>2. \A i \in 1..Len(t) :
          IF t[i].oldBreak = << >> THEN e[i] = e[i - 1] ELSE t[i].oldBreak = Rest(p, e[i - 1])
    BY <1>8, <1>10
  <2>3. \A i \in 0..Len(t) :
          /\ e[i] = 0 \/ e[i] < Len(p)
          /\ Followed(t, p, i, e[i])
          /\ i < Len(p) /\ (\A j \in 1..i : t[j].phase = p[j]) => e[i] = i
    BY <1>1, <1>8, <1>11, <1>12, <1>13, <1>14
  <2> QED BY <2>1, <2>2, <2>3 DEF Left, NoPath
<1> QED BY <1>15

\* An action whose path is the whole of p finds its name left of it.
LEMMA WholePath ==
  ASSUME NEW S, NEW p \in Seq(S), NEW s, NEW b, NEW d, Left(s, p, b, d), Len(s) \in Nat
  PROVE  \A i \in 0..Len(s) :
           Len(p) = i + 1 /\ (\A j \in 1..i : s[j].phase = p[j])
             => Rest(p, d[i]) = <<p[i + 1]>>
<1> SUFFICES ASSUME NEW i \in 0..Len(s), Len(p) = i + 1, \A j \in 1..i : s[j].phase = p[j]
             PROVE  Rest(p, d[i]) = <<p[i + 1]>>
  OBVIOUS
<1>1. i \in Nat /\ i < Len(p) /\ Len(p) - i = 1
  OBVIOUS
<1>2. d[i] = i
  BY <1>1 DEF Left
<1>3. Rest(p, i) \in Seq(S) /\ Len(Rest(p, i)) = 1 /\ Rest(p, i)[1] = p[i + 1]
  <2>1. Rest(p, i) \in Seq(S) /\ Len(Rest(p, i)) = Len(p) - i
        /\ \A j \in 1..(Len(p) - i) : Rest(p, i)[j] = p[i + j]
    BY <1>1, RestFacts
  <2> QED BY <1>1, <2>1
<1> QED BY <1>2, <1>3

\* The names of p are those of phases around the i-th call and of one below it.
Ended(s, p, i) ==
  \E at \in [1..Len(p) -> 1..(i + 1)] :
    /\ at[Len(p)] = i + 1
    /\ \A j \in 1..(Len(p) - 1) : /\ at[j] \in 1..i /\ s[at[j]].phase = p[j]
                                  /\ at[j] < at[j + 1]

\* An action whose name is all that is left of p ends a path with the names
\* of p in their order.
LEMMA NamedPath ==
  ASSUME NEW S, NEW p \in Seq(S), NEW s, NEW b, NEW d, Left(s, p, b, d), Len(s) \in Nat
  PROVE  \A i \in 0..Len(s) : Len(Rest(p, d[i])) = 1 =>
           Len(p) > 0 /\ Rest(p, d[i])[1] = p[Len(p)] /\ Ended(s, p, i)
<1> SUFFICES ASSUME NEW i \in 0..Len(s), Len(Rest(p, d[i])) = 1
             PROVE  Len(p) > 0 /\ Rest(p, d[i])[1] = p[Len(p)] /\ Ended(s, p, i)
  OBVIOUS
<1> DEFINE k == d[i]
           m == Len(p)
<1>1. k \in Nat /\ m \in Nat /\ i \in Nat /\ (k = 0 \/ k < m) /\ Followed(s, p, i, k)
  BY DEF Left
<1>2. Len(Rest(p, k)) = m - k /\ \A j \in 1..(m - k) : Rest(p, k)[j] = p[k + j]
  BY <1>1, RestFacts
<1>3. m - k = 1
  BY <1>2
<1>4. m = k + 1 /\ Rest(p, k)[1] = p[m]
  <2> HIDE DEF m, k
  <2> QED BY <1>1, <1>2, <1>3
<1>5. PICK at \in [1..k -> 1..i] : /\ \A j \in 1..k : s[at[j]].phase = p[j]
                                   /\ \A j \in 1..(k - 1) : at[j] < at[j + 1]
  BY <1>1 DEF Followed
<1> DEFINE to == [j \in 1..m |-> IF j = m THEN i + 1 ELSE at[j]]
<1> HIDE DEF m, k
<1>6. /\ m \in 1..m /\ m - 1 = k /\ i + 1 \in 1..(i + 1)
      /\ \A j \in 1..m : j = m \/ j \in 1..k
      /\ \A j \in 1..k : /\ j # m /\ j \in 1..m /\ j + 1 \in 1..m
                         /\ j + 1 = m \/ (j \in 1..(k - 1) /\ j + 1 \in 1..k)
  BY <1>1, <1>4
<1>7. \A j \in 1..k : at[j] \in 1..i /\ at[j] \in 1..(i + 1) /\ at[j] < i + 1
  BY <1>1, <1>5
<1>8. \A j \in 1..m : to[j] \in 1..(i + 1)
  BY <1>6, <1>7
<1>9. to \in [1..m -> 1..(i + 1)]
  BY <1>8
<1>10. to[m] = i + 1 /\ \A j \in 1..k : to[j] = at[j]
  BY <1>6
<1> HIDE DEF to
<1>11. ASSUME NEW j \in 1..k
       PROVE  to[j] \in 1..i /\ s[to[j]].phase = p[j] /\ to[j] < to[j + 1]
  <2>1. CASE j + 1 = m
    BY <1>5, <1>7, <1>10, <2>1
  <2>2. CASE j \in 1..(k - 1) /\ j + 1 \in 1..k
    BY <1>5, <1>7, <1>10, <2>2
  <2> QED BY <1>6, <2>1, <2>2
<1>12. m > 0
  BY <1>1, <1>4
<1>13. Ended(s, p, i)
  <2>1. to \in [1..Len(p) -> 1..(i + 1)] /\ to[Len(p)] = i + 1
    BY <1>9, <1>10 DEF m
  <2>2. \A j \in 1..(Len(p) - 1) : /\ to[j] \in 1..i /\ s[to[j]].phase = p[j]
                                   /\ to[j] < to[j + 1]
    BY <1>6, <1>11 DEF m
  <2> QED BY <2>1, <2>2 DEF Ended
<1> QED BY <1>4, <1>12, <1>13 DEF m, k

\* The path that is left is that of the breakpoint behind the names followed.
BreakInv ==
  /\ KeptInv /\ Nested
  /\ given \in Breakpoints
  /\ \E d : Left(stack, given.path, breakpoint, d)

LEMMA InitBreak == Init => BreakInv
<1> SUFFICES ASSUME Init PROVE BreakInv
  OBVIOUS
<1>1. KeptInv /\ Nested
  BY InitCycle DEF CycleInv
<1>2. stack = << >> /\ given \in Breakpoints /\ breakpoint = given.path
  BY DEF Init
<1>3. PICK p : p = given.path
  OBVIOUS
<1>4. p \in Seq(STRING)
  BY <1>2, <1>3, BreakpointsAssumption
<1>5. PICK s : s = stack
  OBVIOUS
<1>6. Len(s) = 0 /\ 1..Len(s) = {} /\ 0..Len(s) = {0}
  BY <1>2, <1>5
<1> DEFINE d == [i \in {0} |-> 0]
<1>7. Rest(p, 0) = p
  <2>1. Rest(p, 0) \in Seq(STRING) /\ Len(Rest(p, 0)) = Len(p) - 0
        /\ \A j \in 1..(Len(p) - 0) : Rest(p, 0)[j] = p[0 + j]
    BY <1>4, RestFacts
  <2>2. Len(p) \in Nat /\ Len(p) - 0 = Len(p) /\ \A j \in 1..Len(p) : 0 + j = j
    BY <1>4
  <2>3. Len(Rest(p, 0)) = Len(p) /\ \A j \in 1..Len(Rest(p, 0)) : Rest(p, 0)[j] = p[j]
    BY <2>1, <2>2
  <2> QED BY <1>4, <2>1, <2>3, SeqEqual
<1>8. Followed(s, p, 0, 0)
  <2> DEFINE at == [j \in 1..0 |-> j]
  <2>1. at \in [1..0 -> 1..0] /\ 1..0 = {} /\ 1..(0 - 1) = {}
    OBVIOUS
  <2> HIDE DEF at
  <2> QED BY <2>1 DEF Followed
<1>9. Left(s, p, p, d)
  <2>1. d \in [{0} -> Nat] /\ d[0] = 0
    OBVIOUS
  <2> HIDE DEF d
  <2>2. d \in [0..Len(s) -> Nat] /\ p = Rest(p, d[Len(s)])
    BY <1>6, <1>7, <2>1
  <2>3. \A i \in 0..Len(s) :
          /\ d[i] = 0 \/ d[i] < Len(p)
          /\ Followed(s, p, i, d[i])
          /\ i < Len(p) /\ (\A j \in 1..i : s[j].phase = p[j]) => d[i] = i
    BY <1>6, <1>8, <2>1
  <2> QED BY <1>6, <2>2, <2>3 DEF Left
<1>10. \E e : Left(stack, given.path, breakpoint, e)
  BY <1>2, <1>3, <1>5, <1>9
<1> QED BY <1>1, <1>2, <1>10 DEF BreakInv

\* Between the start and the end of phases the calls and the breakpoint stay.
LEMMA CallsStay ==
  ASSUME Typed, [Next]_vars, ~EnterPhase, ~LeavePhase
  PROVE  /\ Len(stack') = Len(stack) /\ breakpoint' = breakpoint
         /\ \A i \in 1..Len(stack) : SameCall(stack[i], stack'[i])
<1>1. CASE UNCHANGED vars \/ CheckFails \/ AbortPhase
  <2>1. stack' = stack /\ breakpoint' = breakpoint
    BY <1>1 DEF vars, CheckFails, AbortPhase
  <2> QED BY <2>1 DEF SameCall
<1>2. CASE SkipPhase
  BY <1>2, SkipFrames DEF SkipPhase
<1>3. CASE \E eff \in SUBSET Effects : RunAction(eff)
  <2> PICK eff \in SUBSET Effects : RunAction(eff)
    BY <1>3
  <2>1. breakpoint' = breakpoint
    BY DEF RunAction
  <2>2. CASE stack' = stack
    BY <2>1, <2>2 DEF SameCall
  <2>3. CASE stack' # stack
    BY <2>1, <2>3, RunFrames
  <2> QED BY <2>2, <2>3
<1>4. CASE RepeatCycle
  <2>1. breakpoint' = breakpoint
    BY <1>4 DEF RepeatCycle
  <2> DEFINE n == Len(stack)
  <2>2. /\ n \in Nat \ {0} /\ Len(stack') = n
        /\ \A i \in 1..(n - 1) : stack'[i] = stack[i]
        /\ SameCall(stack[n], stack'[n])
    BY <1>4, RepeatFrames
  <2> HIDE DEF n
  <2>3. \A i \in 1..n : i = n \/ i \in 1..(n - 1)
    BY <2>2
  <2>4. \A i \in 1..n : SameCall(stack[i], stack'[i])
    BY <2>2, <2>3 DEF SameCall
  <2> QED BY <2>1, <2>2, <2>4 DEF n
<1> QED BY <1>1, <1>2, <1>3, <1>4 DEF Next

\* Leaving a phase brings back what was left when it began.
LEMMA LeaveLeft ==
  ASSUME Typed, LeavePhase, NEW p, NEW d, Left(stack, p, breakpoint, d)
  PROVE  breakpoint' = Rest(p, d[Len(stack) - 1])
<1> DEFINE n == Len(stack)
<1>1. n \in Nat \ {0} /\ n \in 1..n
  BY LeaveFrames
<1>2. breakpoint' = IF stack[n].oldBreak = NoPath THEN breakpoint ELSE stack[n].oldBreak
  BY DEF LeavePhase, Top
<1>3. /\ breakpoint = Rest(p, d[n])
      /\ IF stack[n].oldBreak = NoPath THEN d[n] = d[n - 1] ELSE stack[n].oldBreak = Rest(p, d[n - 1])
  BY <1>1 DEF Left
<1> QED BY <1>2, <1>3

LEMMA BreakKept ==
  ASSUME BreakInv, [Next]_vars
  PROVE  BreakInv'
<1>1. KeptInv' /\ Nested'
  <2>1. Typed /\ Nested
    BY DEF BreakInv, KeptInv
  <2> QED BY <2>1, NextKept, NestedKept DEF BreakInv
<1>2. given' = given
  BY DEF Next, vars, input, CheckFails, RunAction, SkipPhase, EnterPhase, RepeatCycle,
         AbortPhase, LeavePhase
<1>3. Typed /\ given \in Breakpoints /\ Len(stack) \in Nat
  BY DEF BreakInv, KeptInv, Typed
<1>4. PICK d : Left(stack, given.path, breakpoint, d)
  BY DEF BreakInv
<1>5. PICK p, s, t, b, c : p = given.path /\ s = stack /\ t = stack' /\ b = breakpoint /\ c = breakpoint'
  OBVIOUS
<1>6. p \in Seq(STRING) /\ Left(s, p, b, d) /\ Len(s) \in Nat
  BY <1>3, <1>4, <1>5, BreakpointsAssumption
<1>7. b = Rest(p, d[Len(s)])
  BY <1>6 DEF Left
<1>8. \E e : Left(t, p, c, e)
  <2>1. CASE EnterPhase
    <3>1. PICK x : x = Current
      OBVIOUS
    <3>2. /\ Len(t) = Len(s) + 1 /\ (\A i \in 1..Len(s) : t[i] = s[i])
          /\ t[Len(s) + 1].phase = x
          /\ t[Len(s) + 1].oldBreak = IF InPhase(x) = NoPath THEN NoPath ELSE b
      BY <1>3, <1>5, <2>1, <3>1, EnterFrames
    <3>3. c = IF InPhase(x) = NoPath THEN b ELSE InPhase(x)
      BY <1>5, <2>1, <3>1 DEF EnterPhase
    <3>4. InPhase(x) = IF Len(b) > 1 /\ Head(b) = x THEN Tail(b) ELSE << >>
      BY <1>5 DEF InPhase, NoPath
    <3>5. LET sub == IF Len(b) > 1 /\ Head(b) = x THEN Tail(b) ELSE << >>
          IN  /\ t[Len(s) + 1].oldBreak = IF sub = << >> THEN << >> ELSE b
              /\ c = IF sub = << >> THEN b ELSE sub
      BY <3>2, <3>3, <3>4 DEF NoPath
    <3> QED BY <1>6, <3>2, <3>5, LeftEntered
  <2>2. CASE LeavePhase
    <3>1. /\ Len(t) = Len(s) - 1 /\ Len(s) \in Nat \ {0}
          /\ \A i \in 1..(Len(s) - 1) : SameCall(s[i], t[i])
      BY <1>3, <1>5, <2>2, LeaveFrames
    <3>2. Len(t) \in 0..Len(s) /\ \A i \in 1..Len(t) : SameCall(s[i], t[i])
      BY <3>1
    <3>3. c = Rest(p, d[Len(t)])
      BY <1>3, <1>4, <1>5, <2>2, <3>1, LeaveLeft
    <3> QED BY <1>6, <3>2, <3>3, LeftWithin
  <2>3. CASE ~EnterPhase /\ ~LeavePhase
    <3>1. Len(t) = Len(s) /\ c = b /\ \A i \in 1..Len(s) : SameCall(s[i], t[i])
      BY <1>3, <1>5, <2>3, CallsStay
    <3>2. Len(t) \in 0..Len(s) /\ c = Rest(p, d[Len(t)])
      BY <1>6, <1>7, <3>1
    <3> QED BY <1>6, <3>1, <3>2, LeftWithin
  <2> QED BY <2>1, <2>2, <2>3
<1>9. \E e : Left(stack', given'.path, breakpoint', e)
  BY <1>2, <1>5, <1>8
<1> QED BY <1>1, <1>2, <1>3, <1>9 DEF BreakInv

\* The two promises about breakpoints, of one step.
StopsThere ==
  Ends /\ (EndedPath = given.path \/ EndedId = given.id)
    => outcome' \in {"breakpoint", "aborted"}
MeantThere ==
  outcome' = "breakpoint" /\ outcome = "running" =>
    \/ EndedId = given.id
    \/ LET n == Len(given.path)
           m == Len(EndedPath)
       IN  n > 0 /\ \E at \in [1..n -> 1..m] :
              /\ at[n] = m
              /\ \A i \in 1..n : EndedPath[at[i]] = given.path[i]
              /\ \A i \in 1..(n - 1) : at[i] < at[i + 1]

\* An action that returns under the i phases around it, named x.
LEMMA ReturnHolds ==
  ASSUME Typed, given \in Breakpoints, NEW d, Left(stack, given.path, breakpoint, d),
         NEW i \in 0..Len(stack), breakpoint' = Rest(given.path, d[i]),
         NEW x, NEW calls, Return(x, EndedId, calls),
         Len(EndedPath) = i + 1, EndedPath[i + 1] = x,
         \A j \in 1..i : EndedPath[j] = stack[j].phase
  PROVE  StopsThere /\ MeantThere
<1>1. PICK p, s, b, r, q : p = given.path /\ s = stack /\ b = breakpoint /\ r = breakpoint' /\ q = EndedPath
  OBVIOUS
<1>2. /\ p \in Seq(STRING) /\ Len(p) \in Nat /\ Len(s) \in Nat /\ Left(s, p, b, d)
      /\ i \in 0..Len(s) /\ i \in Nat /\ r = Rest(p, d[i])
  BY <1>1, BreakpointsAssumption DEF Typed
<1>3. Len(q) = i + 1 /\ q[i + 1] = x /\ \A j \in 1..i : q[j] = s[j].phase
  BY <1>1
<1>4. /\ r = <<x>> \/ given.id = EndedId => outcome' \in {"aborted", "breakpoint"}
      /\ outcome' = "breakpoint" => r = <<x>> \/ given.id = EndedId
  BY <1>1 DEF Return
<1>5. ASSUME q = p
      PROVE  r = <<x>>
  <2>1. Len(p) = i + 1 /\ p[i + 1] = x /\ \A j \in 1..i : s[j].phase = p[j]
    BY <1>3, <1>5
  <2>2. \A k \in 0..Len(s) :
           Len(p) = k + 1 /\ (\A j \in 1..k : s[j].phase = p[j])
             => Rest(p, d[k]) = <<p[k + 1]>>
    BY <1>2, WholePath
  <2>3. Rest(p, d[i]) = <<x>>
    BY <1>2, <2>1, <2>2
  <2> QED BY <1>2, <2>3
<1>6. StopsThere
  BY <1>1, <1>4, <1>5 DEF StopsThere
<1>7. ASSUME r = <<x>>
      PROVE  /\ Len(p) > 0
             /\ \E at \in [1..Len(p) -> 1..Len(q)] :
                  /\ at[Len(p)] = Len(q)
                  /\ \A j \in 1..Len(p) : q[at[j]] = p[j]
                  /\ \A j \in 1..(Len(p) - 1) : at[j] < at[j + 1]
  <2>1. Len(p) > 0 /\ p[Len(p)] = x /\ Ended(s, p, i)
    <3>1. \A k \in 0..Len(s) : Len(Rest(p, d[k])) = 1 =>
             Len(p) > 0 /\ Rest(p, d[k])[1] = p[Len(p)] /\ Ended(s, p, k)
      BY <1>2, NamedPath
    <3>2. Len(Rest(p, d[i])) = 1 /\ Rest(p, d[i])[1] = x
      BY <1>2, <1>7
    <3> QED BY <1>2, <3>1, <3>2
  <2>2. PICK at \in [1..Len(p) -> 1..(i + 1)] :
             /\ at[Len(p)] = i + 1
             /\ \A j \in 1..(Len(p) - 1) : /\ at[j] \in 1..i /\ s[at[j]].phase = p[j]
                                           /\ at[j] < at[j + 1]
    BY <2>1 DEF Ended
  <2>3. \A j \in 1..Len(p) : j = Len(p) \/ j \in 1..(Len(p) - 1)
    BY <1>2
  <2>4. ASSUME NEW j \in 1..Len(p)
        PROVE  q[at[j]] = p[j]
    <3>1. CASE j = Len(p)
      BY <1>3, <2>1, <2>2, <3>1
    <3>2. CASE j \in 1..(Len(p) - 1)
      BY <1>3, <2>2, <3>2
    <3> QED BY <2>3, <3>1, <3>2
  <2> QED BY <1>3, <2>1, <2>2, <2>4
<1>8. MeantThere
  <2>1. ASSUME outcome' = "breakpoint", EndedId # given.id
        PROVE  LET n == Len(given.path)
                   m == Len(EndedPath)
               IN  n > 0 /\ \E at \in [1..n -> 1..m] :
                      /\ at[n] = m
                      /\ \A j \in 1..n : EndedPath[at[j]] = given.path[j]
                      /\ \A j \in 1..(n - 1) : at[j] < at[j + 1]
    BY <1>1, <1>4, <1>7, <2>1
  <2> QED BY <2>1 DEF MeantThere
<1> QED BY <1>6, <1>8

\* At the end of its table a phase dispatches nothing.
LEMMA TableEnds ==
  ASSUME Typed, Nested, EndOfTable
  PROVE  ~Dispatching /\ stack # << >>
<1>1. stack # << >> /\ Top.next > Len(act[Top.phase].table)
  BY DEF EndOfTable
<1>2. Len(stack) \in 1..Len(stack)
  BY <1>1, FrontFacts DEF Typed
<1>3. Top.phase \in DOMAIN act /\ Top.next \in Nat
  BY <1>2 DEF Nested, Top
<1> DEFINE m == Len(act[Top.phase].table)
<1>4. m \in Nat
  BY <1>3, TablesHold
<1> HIDE DEF m
<1>5. ~(Top.next <= m)
  BY <1>1, <1>3, <1>4 DEF m
<1> QED BY <1>1, <1>5 DEF Dispatching, m

LEMMA BreakStep ==
  ASSUME BreakInv, [Next]_vars, ~UNCHANGED vars
  PROVE  StopsThere /\ MeantThere
<1> DEFINE n == Len(stack)
<1>1. /\ Typed /\ Nested /\ given \in Breakpoints /\ n \in Nat /\ DOMAIN stack = 1..n
      /\ n \in 0..n
  BY DEF BreakInv, KeptInv, Typed
<1>2. PICK d : Left(stack, given.path, breakpoint, d)
  BY DEF BreakInv
<1>3. breakpoint = Rest(given.path, d[n])
  BY <1>2 DEF Left
<1>4. /\ Len(PhasePath) = n
      /\ \A j \in 1..n : PhasePath[j] = stack[j].phase
      /\ \A x : /\ Len(Append(PhasePath, x)) = n + 1 /\ Append(PhasePath, x)[n + 1] = x
                /\ \A j \in 1..n : Append(PhasePath, x)[j] = stack[j].phase
  <2>1. PICK B : stack \in Seq(Frame(B))
    BY <1>1 DEF Typed
  <2>2. \A j \in 1..n : stack[j].phase \in B
    <3>1. ASSUME NEW f \in Frame(B) PROVE f.phase \in B
      BY DEF Frame
    <3>2. \A j \in 1..n : stack[j] \in Frame(B)
      BY <2>1, ElementOfSeq
    <3> QED BY <3>1, <3>2
  <2>3. PhasePath \in [1..n -> B] /\ \A j \in 1..n : PhasePath[j] = stack[j].phase
    BY <1>1, <2>2 DEF PhasePath
  <2> HIDE DEF n
  <2>4. PhasePath \in Seq(B) /\ Len(PhasePath) = n
    BY <1>1, <2>3, FunctionIsSeq
  <2>5. ASSUME NEW x
        PROVE  /\ Len(Append(PhasePath, x)) = n + 1 /\ Append(PhasePath, x)[n + 1] = x
               /\ \A j \in 1..n : Append(PhasePath, x)[j] = stack[j].phase
    <3> DEFINE C == B \cup {x}
    <3>1. PhasePath \in Seq(C) /\ x \in C
      BY <2>4, SeqMonotonic
    <3> HIDE DEF C
    <3>2. /\ Len(Append(PhasePath, x)) = n + 1 /\ Append(PhasePath, x)[n + 1] = x
          /\ \A j \in 1..n : Append(PhasePath, x)[j] = PhasePath[j]
      BY <2>4, <3>1, AppendProperties
    <3> QED BY <2>3, <3>2
  <2> QED BY <2>3, <2>4, <2>5
<1>5. CASE SkipPhase \/ \E eff \in SUBSET Effects : RunAction(eff)
  <2>1. breakpoint' = Rest(given.path, d[n]) /\ Dispatching
    BY <1>3, <1>5 DEF SkipPhase, RunAction
  <2>2. EndedPath = Append(PhasePath, Current) /\ EndedId = actionId + 1
    BY <2>1 DEF EndedPath, EndedId
  <2>3. CASE \E calls : Return(Current, EndedId, calls)
    <3>1. /\ Len(EndedPath) = n + 1 /\ EndedPath[n + 1] = Current
          /\ \A j \in 1..n : EndedPath[j] = stack[j].phase
      BY <1>4, <2>2
    <3> QED BY <1>1, <1>2, <2>1, <2>3, <3>1, ReturnHolds
  <2>4. CASE outcome' = "aborted"
    BY <2>4 DEF StopsThere, MeantThere
  <2> QED BY <1>5, <2>2, <2>3, <2>4 DEF SkipPhase, RunAction
<1>6. CASE LeavePhase
  <2>1. n \in Nat \ {0} /\ n - 1 \in 0..n /\ (n - 1) + 1 = n /\ n \in 1..n
        /\ \A j \in 1..(n - 1) : j \in 1..n
    <3>1. n \in Nat \ {0}
      BY <1>1, <1>6, LeaveFrames
    <3> HIDE DEF n
    <3> QED BY <3>1
  <2>2. breakpoint' = Rest(given.path, d[n - 1])
    BY <1>1, <1>2, <1>6, LeaveLeft
  <2>3. ~Dispatching /\ stack # << >>
    BY <1>1, <1>6, TableEnds DEF LeavePhase
  <2>4. EndedPath = PhasePath /\ EndedId = Top.base
    BY <2>3 DEF EndedPath, EndedId
  <2>5. Return(Top.phase, EndedId, Front(stack))
    BY <1>6, <2>4 DEF LeavePhase
  <2>6. /\ Len(EndedPath) = (n - 1) + 1 /\ EndedPath[(n - 1) + 1] = Top.phase
        /\ \A j \in 1..(n - 1) : EndedPath[j] = stack[j].phase
    BY <1>4, <2>1, <2>4 DEF Top
  <2> QED BY <1>1, <1>2, <2>1, <2>2, <2>5, <2>6, ReturnHolds
<1>7. CASE CheckFails \/ AbortPhase
  <2>1. outcome' = "aborted"
    BY <1>7 DEF CheckFails, AbortPhase
  <2> QED BY <2>1 DEF StopsThere, MeantThere
<1>8. CASE EnterPhase \/ RepeatCycle
  <2>1. outcome' # "breakpoint"
    BY <1>8 DEF EnterPhase, RepeatCycle, Dispatching, EndOfTable
  <2>2. ~Ends
    <3>1. CASE EnterPhase
      <4>1. n \in Nat /\ Len(stack') = n + 1 /\ \A i \in 1..n : stack'[i] = stack[i]
        BY <1>1, <3>1, EnterFrames
      <4>2. stack # << >> => n \in 1..n /\ stack[n].next \in Nat
        BY <1>1 DEF Nested
      <4>3. stack # << >> => stack'[n].next # Top.next + 1
        BY <4>1, <4>2 DEF Top
      <4> QED BY <4>1, <4>3 DEF Ends
    <3>2. CASE RepeatCycle
      <4>1. n \in Nat /\ Len(stack') = n
        BY <1>1, <3>2, RepeatFrames
      <4>2. ~Dispatching
        BY <1>1, <3>2, TableEnds DEF RepeatCycle
      <4> QED BY <4>1, <4>2 DEF Ends
    <3> QED BY <1>8, <3>1, <3>2
  <2> QED BY <2>1, <2>2 DEF StopsThere, MeantThere
<1> QED BY <1>5, <1>6, <1>7, <1>8 DEF Next

\* What is left of the breakpoint is right throughout.
THEOREM BreakpointsLeft == Spec => []BreakInv
BY InitBreak, BreakKept, PTL DEF Spec

\* The driver stops at the action the breakpoint names with its full path or
\* its number, and only at one it names, for every set of tables and paths.
THEOREM BreakpointsAlwaysHold == Spec => BreakpointsHold
<1>1. BreakInv /\ [Next]_vars => [StopsThere]_vars /\ [MeantThere]_vars
  BY BreakStep
<1>2. Spec => [][StopsThere]_vars /\ [][MeantThere]_vars
  BY <1>1, BreakpointsLeft, PTL DEF Spec
<1>3. BreakpointsStop <=> [][StopsThere]_vars
  BY DEF BreakpointsStop, StopsThere
<1>4. BreakpointsAreMeant <=> [][MeantThere]_vars
  BY DEF BreakpointsAreMeant, MeantThere
<1> QED BY <1>2, <1>3, <1>4 DEF BreakpointsHold

-----------------------------------------------------------------------------
\* Numbers.

\* Sums of the first counts.
Sums(c, n, g) == g \in [0..n -> Nat] /\ g[0] = 0 /\ \A i \in 1..n : g[i] = g[i - 1] + c[i]

LEMMA SumsExist ==
  ASSUME NEW n \in Nat, NEW c, \A i \in 1..n : c[i] \in Nat
  PROVE  \E g : Sums(c, n, g)
<1> DEFINE Bad == {k \in 0..n : ~\E g : Sums(c, k, g)}
<1>1. SUFFICES ASSUME Bad # {} PROVE FALSE
  OBVIOUS
<1>2. PICK m \in Bad : \A k \in Bad : m <= k
  <2>1. Bad \in SUBSET Nat
    OBVIOUS
  <2> QED BY <1>1, <2>1, LeastNat
<1>3. m \in 0..n /\ ~\E g : Sums(c, m, g)
  OBVIOUS
<1>4. CASE m = 0
  <2> DEFINE g == [i \in 0..0 |-> 0]
  <2>1. g \in [0..0 -> Nat] /\ g[0] = 0 /\ 1..0 = {}
    OBVIOUS
  <2> HIDE DEF g
  <2>2. Sums(c, 0, g)
    BY <2>1 DEF Sums
  <2> QED BY <1>3, <1>4, <2>2
<1>5. CASE m # 0
  <2>1. m - 1 \in 0..n /\ m - 1 \notin Bad /\ m \in 1..n
    BY <1>2, <1>3, <1>5
  <2>2. PICK h : Sums(c, m - 1, h)
    BY <2>1
  <2> DEFINE g == [i \in 0..m |-> IF i = m THEN h[m - 1] + c[m] ELSE h[i]]
  <2>3. h \in [0..(m - 1) -> Nat] /\ h[0] = 0 /\ \A i \in 1..(m - 1) : h[i] = h[i - 1] + c[i]
    BY <2>2 DEF Sums
  <2>4. h[m - 1] \in Nat /\ c[m] \in Nat
    BY <2>1, <2>3
  <2>5. g \in [0..m -> Nat]
    BY <2>1, <2>3, <2>4
  <2>6. g[0] = 0
    BY <1>3, <1>5, <2>3
  <2>7. \A i \in 1..m : g[i] = g[i - 1] + c[i]
    <3> SUFFICES ASSUME NEW i \in 1..m PROVE g[i] = g[i - 1] + c[i]
      OBVIOUS
    <3>1. i \in 0..m /\ i - 1 \in 0..m /\ i - 1 # m
      BY <2>1
    <3>2. g[i - 1] = h[i - 1]
      BY <3>1
    <3>3. CASE i = m
      BY <3>1, <3>2, <3>3
    <3>4. CASE i # m
      BY <2>1, <2>3, <3>1, <3>2, <3>4
    <3> QED BY <3>3, <3>4
  <2> HIDE DEF g
  <2>8. Sums(c, m, g)
    BY <2>5, <2>6, <2>7 DEF Sums
  <2> QED BY <1>3, <2>8
<1> QED BY <1>4, <1>5

\* Equal counts have equal sums.
LEMMA SumsAgree ==
  ASSUME NEW n \in Nat, NEW m \in Nat, NEW c, NEW d, NEW g, NEW h,
         Sums(c, n, g), Sums(d, m, h), NEW k \in 0..n, k \in 0..m,
         \A i \in 1..k : c[i] = d[i]
  PROVE  g[k] = h[k]
<1> DEFINE Bad == {i \in 0..k : g[i] # h[i]}
<1>1. SUFFICES ASSUME Bad # {} PROVE FALSE
  OBVIOUS
<1>2. PICK b \in Bad : \A i \in Bad : b <= i
  <2>1. Bad \in SUBSET Nat
    OBVIOUS
  <2> QED BY <1>1, <2>1, LeastNat
<1>3. b # 0
  BY <1>2 DEF Sums
<1>4. b - 1 \in 0..k /\ b - 1 \notin Bad /\ b \in 1..n /\ b \in 1..m /\ b \in 1..k
  BY <1>2, <1>3
<1>5. g[b - 1] = h[b - 1] /\ g[b] = g[b - 1] + c[b] /\ h[b] = h[b - 1] + d[b] /\ c[b] = d[b]
  BY <1>4 DEF Sums
<1> QED BY <1>2, <1>5

\* The total is the last sum.
LEMMA TotalIsLast ==
  ASSUME NEW c, Len(c) \in Nat, \A i \in 1..Len(c) : c[i] \in Nat
  PROVE  \E g : Sums(c, Len(c), g) /\ Total(c) = g[Len(c)]
<1> DEFINE n == Len(c)
           Eq(g) == g = [i \in 0..n |-> IF i = 0 THEN 0 ELSE g[i - 1] + c[i]]
           u == CHOOSE g : Eq(g)
<1>1. PICK h : Sums(c, n, h)
  BY SumsExist
<1>2. Eq(h)
  BY <1>1 DEF Sums
<1>3. Eq(u)
  BY <1>2
<1>4. Total(c) = u[n]
  BY DEF Total
<1> HIDE DEF u
<1>5. \A i \in 0..n : u[i] = h[i]
  <2> DEFINE Bad == {i \in 0..n : u[i] # h[i]}
  <2>1. SUFFICES ASSUME Bad # {} PROVE FALSE
    OBVIOUS
  <2>2. PICK b \in Bad : \A i \in Bad : b <= i
    <3>1. Bad \in SUBSET Nat
      OBVIOUS
    <3> QED BY <2>1, <3>1, LeastNat
  <2>3. b # 0
    BY <1>2, <1>3, <2>2
  <2>4. b - 1 \in 0..n /\ b - 1 \notin Bad /\ b \in 0..n
    BY <2>2, <2>3
  <2>5. u[b - 1] = h[b - 1] /\ u[b] = u[b - 1] + c[b] /\ h[b] = h[b - 1] + c[b]
    BY <1>2, <1>3, <2>3, <2>4
  <2> QED BY <2>2, <2>5
<1> QED BY <1>1, <1>4, <1>5

LEMMA NoTotal ==
  ASSUME NEW c, Len(c) = 0
  PROVE  Total(c) = 0
<1>1. Len(c) \in Nat /\ 1..Len(c) = {}
  OBVIOUS
<1> QED BY <1>1, TotalIsLast DEF Sums

\* One count more.
LEMMA TotalGrows ==
  ASSUME NEW c, NEW d, Len(c) \in Nat, Len(d) = Len(c) + 1,
         \A i \in 1..Len(d) : d[i] \in Nat, \A i \in 1..Len(c) : c[i] = d[i]
  PROVE  Total(c) \in Nat /\ Total(d) = Total(c) + d[Len(d)]
<1> DEFINE n == Len(c)
           m == n + 1
<1>1. n \in Nat /\ m \in Nat /\ Len(d) = m /\ n \in 0..n /\ n \in 0..m /\ m \in 1..m /\ m - 1 = n
  OBVIOUS
<1>2. \A i \in 1..n : c[i] \in Nat
  BY <1>1
<1>3. PICK g : Sums(c, n, g) /\ Total(c) = g[n]
  BY <1>1, <1>2, TotalIsLast
<1>4. PICK h : Sums(d, m, h) /\ Total(d) = h[m]
  BY <1>1, TotalIsLast
<1> HIDE DEF n, m
<1>5. g[n] = h[n]
  BY <1>1, <1>3, <1>4, SumsAgree DEF n
<1>6. h[m] = h[n] + d[m] /\ g[n] \in Nat
  BY <1>1, <1>3, <1>4 DEF Sums
<1> QED BY <1>1, <1>3, <1>4, <1>5, <1>6

LEMMA TotalsAgree ==
  ASSUME NEW c, NEW d, Len(c) \in Nat, Len(d) = Len(c),
         \A i \in 1..Len(d) : d[i] \in Nat, \A i \in 1..Len(c) : c[i] = d[i]
  PROVE  Total(c) = Total(d) /\ Total(c) \in Nat
<1> DEFINE n == Len(c)
<1>1. n \in Nat /\ n \in 0..n /\ Len(d) = n
  OBVIOUS
<1>2. PICK g : Sums(c, n, g) /\ Total(c) = g[n]
  BY TotalIsLast
<1>3. PICK h : Sums(d, n, h) /\ Total(d) = h[n]
  BY <1>1, TotalIsLast
<1> HIDE DEF n
<1>4. g[n] = h[n]
  BY <1>1, <1>2, <1>3, SumsAgree DEF n
<1> QED BY <1>1, <1>2, <1>3, <1>4 DEF Sums

\* FlattenSeq joins the sequences, so that the lengths add up.
Joins(s, n, g) == \A i \in 1..n : g[i] = IF i = 1 THEN s[i] ELSE g[i - 1] \o s[i]

LEMMA JoinsExist ==
  ASSUME NEW T, NEW s \in Seq(Seq(T)), NEW n \in 0..Len(s)
  PROVE  \E g \in [1..n -> Seq(T)] : Joins(s, n, g)
<1> DEFINE Bad == {k \in 0..n : ~\E g \in [1..k -> Seq(T)] : Joins(s, k, g)}
<1>1. n \in Nat /\ Len(s) \in Nat /\ n <= Len(s)
  OBVIOUS
<1>2. SUFFICES ASSUME Bad # {} PROVE FALSE
  BY <1>1
<1>3. PICK m \in Bad : \A k \in Bad : m <= k
  <2>1. Bad \in SUBSET Nat
    BY <1>1
  <2> QED BY <1>2, <2>1, LeastNat
<1>4. m \in 0..n /\ ~\E g \in [1..m -> Seq(T)] : Joins(s, m, g)
  OBVIOUS
<1>5. m # 0
  <2>1. 1..0 = {}
    OBVIOUS
  <2> DEFINE g == [i \in {} |-> << >>]
  <2>2. g \in [1..0 -> Seq(T)]
    BY <2>1
  <2> HIDE DEF g
  <2>3. Joins(s, 0, g)
    BY <2>1 DEF Joins
  <2> QED BY <1>4, <2>2, <2>3
<1>6. m - 1 \in 0..n /\ m - 1 \notin Bad /\ m \in 1..Len(s)
  <2> HIDE DEF Bad
  <2>1. m - 1 \in 0..n /\ m \in 1..Len(s) /\ ~(m <= m - 1)
    BY <1>1, <1>4, <1>5
  <2>2. m - 1 \notin Bad
    BY <1>3, <2>1
  <2> QED BY <2>1, <2>2
<1>7. PICK h \in [1..(m - 1) -> Seq(T)] : Joins(s, m - 1, h)
  BY <1>6
<1> DEFINE last == IF m = 1 THEN s[m] ELSE h[m - 1] \o s[m]
           g == [i \in 1..m |-> IF i = m THEN last ELSE h[i]]
<1>8. last \in Seq(T)
  <2>1. s[m] \in Seq(T)
    BY <1>6, ElementOfSeq
  <2>2. CASE m = 1
    BY <2>1, <2>2
  <2>3. CASE m # 1
    <3>1. h[m - 1] \in Seq(T)
      BY <1>4, <1>5, <2>3
    <3> QED BY <2>1, <2>3, <3>1, ConcatProperties
  <2> QED BY <2>2, <2>3
<1>9. g \in [1..m -> Seq(T)]
  <2> HIDE DEF last
  <2> QED BY <1>4, <1>8
<1>10. ASSUME NEW i \in 1..m
       PROVE  g[i] = IF i = 1 THEN s[i] ELSE g[i - 1] \o s[i]
  <2>1. i = m \/ i \in 1..(m - 1)
    BY <1>4
  <2>2. i # 1 => i - 1 \in 1..m /\ i - 1 # m
    BY <1>4
  <2>3. i # 1 => g[i - 1] = h[i - 1]
    BY <2>2
  <2>4. CASE i = m
    <3>1. g[i] = last
      BY <2>4
    <3> QED BY <2>3, <2>4, <3>1
  <2>5. CASE i # m
    <3>1. g[i] = h[i] /\ i \in 1..(m - 1)
      BY <2>1, <2>5
    <3>2. h[i] = IF i = 1 THEN s[i] ELSE h[i - 1] \o s[i]
      BY <1>7, <3>1 DEF Joins
    <3> QED BY <2>3, <3>1, <3>2
  <2> QED BY <2>4, <2>5
<1> HIDE DEF g
<1>11. Joins(s, m, g)
  BY <1>10 DEF Joins
<1> QED BY <1>4, <1>9, <1>11

LEMMA FlattenLength ==
  ASSUME NEW T, NEW s \in Seq(Seq(T)), NEW c, Len(c) = Len(s),
         \A k \in 1..Len(s) : c[k] = Len(s[k])
  PROVE  FlattenSeq(s) \in Seq(T) /\ Len(FlattenSeq(s)) = Total(c)
<1> DEFINE n == Len(s)
           Eq(g) == g = [i \in 1..n |-> IF i = 1 THEN s[i] ELSE g[i - 1] \o s[i]]
           u == CHOOSE g : Eq(g)
<1>1. n \in Nat /\ n \in 0..n
  OBVIOUS
<1>2. CASE n = 0
  <2>1. FlattenSeq(s) = s /\ s = << >>
    BY <1>2 DEF FlattenSeq
  <2>2. Total(c) = 0
    BY <1>2, NoTotal
  <2> QED BY <2>1, <2>2
<1>3. CASE n # 0
  <2>1. PICK h \in [1..n -> Seq(T)] : Joins(s, n, h)
    BY <1>1, JoinsExist
  <2>2. Eq(h)
    BY <2>1 DEF Joins
  <2>3. Eq(u)
    BY <2>2
  <2>4. FlattenSeq(s) = u[n]
    BY <1>3 DEF FlattenSeq
  <2> HIDE DEF u
  <2>5. \A k \in 1..n : s[k] \in Seq(T) /\ c[k] \in Nat /\ c[k] = Len(s[k])
    BY ElementOfSeq
  <2>6. PICK t : Sums(c, n, t) /\ Total(c) = t[n]
    BY <1>1, <2>5, TotalIsLast
  <2> DEFINE Good(i) == u[i] \in Seq(T) /\ Len(u[i]) = t[i]
             Bad == {i \in 1..n : ~Good(i)}
  <2>7. Bad = {}
    <3>1. SUFFICES ASSUME Bad # {} PROVE FALSE
      OBVIOUS
    <3>2. PICK b \in Bad : \A i \in Bad : b <= i
      <4>1. Bad \in SUBSET Nat
        OBVIOUS
      <4> HIDE DEF Bad
      <4> QED BY <3>1, <4>1, LeastNat
    <3>3. b \in 1..n /\ ~Good(b)
      BY <3>2
    <3>4. t[b] = t[b - 1] + c[b] /\ t[0] = 0
      BY <2>6, <3>3 DEF Sums
    <3>5. CASE b = 1
      <4>1. u[b] = s[b]
        BY <2>3, <3>3, <3>5
      <4>2. t[1] = c[1] /\ c[1] \in Nat
        BY <1>1, <1>3, <2>5, <3>4, <3>5
      <4> QED BY <2>5, <3>3, <3>5, <4>1, <4>2
    <3>6. CASE b # 1
      <4>1. b - 1 \in 1..n /\ b - 1 \notin Bad
        BY <3>2, <3>3, <3>6
      <4>2. Good(b - 1)
        BY <4>1
      <4>3. u[b] = u[b - 1] \o s[b]
        BY <2>3, <3>3, <3>6
      <4>4. s[b] \in Seq(T) /\ Len(s[b]) = c[b]
        BY <2>5, <3>3
      <4>5. u[b] \in Seq(T) /\ Len(u[b]) = Len(u[b - 1]) + Len(s[b])
        <5>1. PICK x, y : x = u[b - 1] /\ y = s[b]
          OBVIOUS
        <5>2. x \in Seq(T) /\ y \in Seq(T) /\ u[b] = x \o y
          BY <4>2, <4>3, <4>4, <5>1
        <5>3. x \o y \in Seq(T) /\ Len(x \o y) = Len(x) + Len(y)
          BY <5>2, ConcatProperties
        <5> QED BY <5>1, <5>2, <5>3
      <4> QED BY <3>3, <3>4, <4>2, <4>4, <4>5
    <3> QED BY <3>5, <3>6
  <2>8. Good(n)
    BY <1>1, <1>3, <2>7
  <2> QED BY <2>4, <2>6, <2>8
<1> QED BY <1>2, <1>3

\* The tables of a compiler, of which none leads back to itself.
Ordered(a) ==
  /\ \A x \in DOMAIN a : a[x].table \in Seq(DOMAIN a)
  /\ \A S \in SUBSET DOMAIN a :
       S # {} => \E x \in S : \A k \in 1..Len(a[x].table) : a[x].table[k] \notin S

LEMMA TablesOrdered ==
  ASSUME NEW c, IsCompiler(c)
  PROVE  Ordered(c.act)
<1> DEFINE a == c.act
           phases == {x \in DOMAIN a : a[x].kind = "phase"}
<1>1. \A x \in DOMAIN a : /\ a[x].table \in Seq(DOMAIN a)
                          /\ a[x].kind # "phase" => a[x].table = << >>
  BY DEF IsCompiler
<1>2. \A x \in DOMAIN a : DOMAIN a[x].table = 1..Len(a[x].table)
  BY <1>1
<1>3. ASSUME NEW S \in SUBSET DOMAIN a, S # {}
      PROVE  \E x \in S : \A k \in 1..Len(a[x].table) : a[x].table[k] \notin S
  <2>1. CASE S \subseteq phases
    BY <1>2, <1>3, <2>1 DEF IsCompiler, NoPhaseRunsItself
  <2>2. CASE ~(S \subseteq phases)
    <3>1. PICK x \in S : a[x].table = << >>
      BY <1>1, <2>2
    <3>2. 1..Len(a[x].table) = {}
      BY <3>1
    <3> QED BY <3>2
  <2> QED BY <2>1, <2>2
<1> QED BY <1>1, <1>3 DEF Ordered

\* What Walks defines, for some of the actions and all those below them.
WalkFrom(a, g, p) ==
  FlattenSeq([k \in 1..Len(a[p].table) |-> <<<<p, k>>>> \o g[a[p].table[k]]])
IsWalk(a, A, g) ==
  /\ A \subseteq DOMAIN a
  /\ \A p \in A : \A k \in 1..Len(a[p].table) : a[p].table[k] \in A
  /\ g = [p \in A |-> WalkFrom(a, g, p)]

LEMMA SameBelow ==
  ASSUME NEW a, NEW p, NEW g, NEW h,
         \A k \in 1..Len(a[p].table) : g[a[p].table[k]] = h[a[p].table[k]]
  PROVE  WalkFrom(a, g, p) = WalkFrom(a, h, p)
<1>1. [k \in 1..Len(a[p].table) |-> <<<<p, k>>>> \o g[a[p].table[k]]]
      = [k \in 1..Len(a[p].table) |-> <<<<p, k>>>> \o h[a[p].table[k]]]
  OBVIOUS
<1> QED BY <1>1 DEF WalkFrom

LEMMA WalksAgree ==
  ASSUME NEW a, Ordered(a), NEW A, NEW B, NEW g, NEW h, IsWalk(a, A, g), IsWalk(a, B, h)
  PROVE  \A p \in A \cap B : g[p] = h[p]
<1> DEFINE S == {p \in A \cap B : g[p] # h[p]}
<1>1. SUFFICES ASSUME S # {} PROVE FALSE
  OBVIOUS
<1>2. S \in SUBSET DOMAIN a
  BY DEF IsWalk
<1>3. PICK p \in S : \A k \in 1..Len(a[p].table) : a[p].table[k] \notin S
  BY <1>1, <1>2 DEF Ordered
<1>4. \A k \in 1..Len(a[p].table) : g[a[p].table[k]] = h[a[p].table[k]]
  BY <1>3 DEF IsWalk
<1>5. WalkFrom(a, g, p) = WalkFrom(a, h, p)
  BY <1>4, SameBelow
<1>6. g[p] = WalkFrom(a, g, p) /\ h[p] = WalkFrom(a, h, p)
  BY <1>3 DEF IsWalk
<1> QED BY <1>3, <1>5, <1>6

\* What the walk of an action is, if it has one.
HasWalk(a, p, w) == \E A, g : IsWalk(a, A, g) /\ p \in A /\ w = g[p]

LEMMA WalksExist ==
  ASSUME NEW a, Ordered(a)
  PROVE  \E g : IsWalk(a, DOMAIN a, g)
<1> DEFINE D == {p \in DOMAIN a : \E w : HasWalk(a, p, w)}
           h == [p \in D |-> CHOOSE w : HasWalk(a, p, w)]
           table(p) == a[p].table
           below(p) == 1..Len(a[p].table)
<1>1. ASSUME NEW A, NEW g, IsWalk(a, A, g)
      PROVE  A \subseteq D /\ \A p \in A : h[p] = g[p]
  <2>1. \A p \in A : p \in DOMAIN a /\ HasWalk(a, p, g[p])
    BY <1>1 DEF HasWalk, IsWalk
  <2>2. ASSUME NEW p \in A, NEW w, HasWalk(a, p, w)
        PROVE  w = g[p]
    <3>1. PICK B, f : IsWalk(a, B, f) /\ p \in B /\ w = f[p]
      BY <2>2 DEF HasWalk
    <3> QED BY <1>1, <3>1, WalksAgree
  <2>3. \A p \in A : p \in D
    BY <2>1
  <2>4. ASSUME NEW p \in A
        PROVE  h[p] = g[p]
    <3>1. h[p] = CHOOSE w : HasWalk(a, p, w)
      BY <2>3
    <3>2. HasWalk(a, p, CHOOSE w : HasWalk(a, p, w))
      BY <2>1
    <3> QED BY <2>2, <3>1, <3>2
  <2> QED BY <2>3, <2>4
<1> HIDE DEF h
<1>2. ASSUME NEW p \in D
      PROVE  /\ \A k \in below(p) : table(p)[k] \in D
             /\ h[p] = WalkFrom(a, h, p)
  <2>1. PICK A, g : IsWalk(a, A, g) /\ p \in A
    BY DEF HasWalk
  <2>2. \A k \in below(p) : table(p)[k] \in A
    BY <2>1 DEF IsWalk
  <2>3. \A k \in below(p) : table(p)[k] \in D /\ h[table(p)[k]] = g[table(p)[k]]
    BY <1>1, <2>1, <2>2
  <2>4. WalkFrom(a, h, p) = WalkFrom(a, g, p)
    BY <2>3, SameBelow
  <2>5. g[p] = WalkFrom(a, g, p)
    BY <2>1 DEF IsWalk
  <2> QED BY <1>1, <2>1, <2>3, <2>4, <2>5
<1>3. D \subseteq DOMAIN a
  OBVIOUS
<1>4. h = [p \in D |-> h[p]]
  BY DEF h
<1> HIDE DEF D
<1>5. DOMAIN a \subseteq D
  <2> DEFINE S == DOMAIN a \ D
  <2>1. SUFFICES ASSUME S # {} PROVE FALSE
    OBVIOUS
  <2>2. PICK p \in S : \A k \in below(p) : table(p)[k] \notin S
    BY <2>1 DEF Ordered
  <2>3. \A k \in below(p) : table(p)[k] \in D
    BY <2>2, ElementOfSeq DEF Ordered
  <2> DEFINE E == D \cup {p}
             f == [q \in E |-> IF q = p THEN WalkFrom(a, h, p) ELSE h[q]]
  <2>4. \A q \in D : f[q] = h[q]
    BY <2>2
  <2>5. f[p] = WalkFrom(a, h, p) /\ f = [q \in E |-> f[q]]
    OBVIOUS
  <2> HIDE DEF f
  <2>6. ASSUME NEW q \in E
        PROVE  /\ \A k \in below(q) : table(q)[k] \in E
               /\ f[q] = WalkFrom(a, f, q)
    <3>1. \A k \in below(q) : table(q)[k] \in D
      BY <1>2, <2>3
    <3>2. \A k \in below(q) : f[table(q)[k]] = h[table(q)[k]]
      BY <2>4, <3>1
    <3>3. WalkFrom(a, f, q) = WalkFrom(a, h, q)
      BY <3>2, SameBelow
    <3> QED BY <1>2, <2>4, <2>5, <3>1, <3>3
  <2>7. IsWalk(a, E, f)
    <3>1. E \subseteq DOMAIN a
      BY <1>3, <2>2
    <3>2. f = [q \in E |-> WalkFrom(a, f, q)]
      BY <2>5, <2>6
    <3> QED BY <2>6, <3>1, <3>2 DEF IsWalk
  <2>8. p \in DOMAIN a /\ HasWalk(a, p, f[p])
    BY <2>2, <2>7 DEF HasWalk
  <2>9. p \in D
    BY <2>8 DEF D
  <2> QED BY <2>2, <2>9
<1>6. IsWalk(a, DOMAIN a, h)
  BY <1>2, <1>3, <1>4, <1>5 DEF IsWalk
<1> QED BY <1>6

\* The walk of a phase has a place for each action of its table and behind it
\* the walk of that action.
LEMMA WalkLength ==
  ASSUME NEW a, Ordered(a), NEW g, IsWalk(a, DOMAIN a, g)
  PROVE  \A p \in DOMAIN a :
           /\ g[p] \in Seq((DOMAIN a) \X Nat)
           /\ Len(g[p]) = Total([k \in 1..Len(a[p].table) |-> 1 + Len(g[a[p].table[k]])])
<1> DEFINE P == (DOMAIN a) \X Nat
           below(p) == 1..Len(a[p].table)
           s(p) == [k \in below(p) |-> <<<<p, k>>>> \o g[a[p].table[k]]]
           c(p) == [k \in below(p) |-> 1 + Len(g[a[p].table[k]])]
<1>1. ASSUME NEW p \in DOMAIN a, \A k \in below(p) : g[a[p].table[k]] \in Seq(P)
      PROVE  g[p] \in Seq(P) /\ Len(g[p]) = Total(c(p))
  <2>1. Len(a[p].table) \in Nat
    BY DEF Ordered
  <2>2. ASSUME NEW k \in below(p)
        PROVE  s(p)[k] \in Seq(P) /\ Len(s(p)[k]) = c(p)[k]
    <3>1. PICK x, y : x = <<<<p, k>>>> /\ y = g[a[p].table[k]]
      OBVIOUS
    <3>2. <<p, k>> \in P
      BY <2>1
    <3>3. x \in Seq(P) /\ Len(x) = 1 /\ y \in Seq(P)
      BY <1>1, <3>1, <3>2
    <3>4. x \o y \in Seq(P) /\ Len(x \o y) = Len(x) + Len(y)
      BY <3>3, ConcatProperties
    <3>5. s(p)[k] = x \o y /\ c(p)[k] = 1 + Len(y)
      BY <3>1
    <3> QED BY <3>3, <3>4, <3>5
  <2>3. s(p) \in [1..Len(a[p].table) -> Seq(P)]
    BY <2>2
  <2>4. s(p) \in Seq(Seq(P)) /\ Len(s(p)) = Len(a[p].table) /\ Len(c(p)) = Len(a[p].table)
    <3>1. PICK u : u = s(p)
      OBVIOUS
    <3>2. u \in Seq(Seq(P)) /\ Len(u) = Len(a[p].table)
      BY <2>1, <2>3, <3>1, FunctionIsSeq
    <3> QED BY <2>1, <3>1, <3>2
  <2>5. g[p] = FlattenSeq(s(p))
    BY DEF IsWalk, WalkFrom
  <2>6. \A k \in 1..Len(s(p)) : c(p)[k] = Len(s(p)[k])
    BY <2>2, <2>4
  <2>7. PICK u, d : u = s(p) /\ d = c(p)
    OBVIOUS
  <2>8. u \in Seq(Seq(P)) /\ Len(d) = Len(u) /\ \A k \in 1..Len(u) : d[k] = Len(u[k])
    BY <2>4, <2>6, <2>7
  <2>9. FlattenSeq(u) \in Seq(P) /\ Len(FlattenSeq(u)) = Total(d)
    BY <2>8, FlattenLength
  <2> QED BY <2>5, <2>7, <2>9
<1> DEFINE S == {p \in DOMAIN a : g[p] \notin Seq(P)}
<1> HIDE DEF P, s, c
<1>2. S = {}
  <2>1. SUFFICES ASSUME S # {} PROVE FALSE
    OBVIOUS
  <2>2. PICK p \in S : \A k \in below(p) : a[p].table[k] \notin S
    BY <2>1 DEF Ordered
  <2>3. \A k \in below(p) : a[p].table[k] \in DOMAIN a
    BY <2>2, ElementOfSeq DEF Ordered
  <2>4. \A k \in below(p) : g[a[p].table[k]] \in Seq(P)
    BY <2>2, <2>3
  <2> QED BY <1>1, <2>2, <2>4
<1>3. ASSUME NEW p \in DOMAIN a
      PROVE  g[p] \in Seq(P) /\ Len(g[p]) = Total(c(p))
  <2>1. \A k \in below(p) : a[p].table[k] \in DOMAIN a
    BY ElementOfSeq DEF Ordered
  <2>2. \A k \in below(p) : g[a[p].table[k]] \in Seq(P)
    BY <1>2, <2>1
  <2> QED BY <1>1, <2>2
<1> QED BY <1>3 DEF P, c

\* The numbers an action takes, those of what it runs included, and the
\* numbers taken before the next action of a call.
SizeIn(c, x) == 1 + Len(Walks[c][x])
BeforeIn(c, x, next) == 1 + Total([k \in 1..(next - 1) |-> SizeIn(c, Tables[c].act[x].table[k])])
ShownIn(c, s, n) == Total([i \in 1..n |-> BeforeIn(c, s[i].phase, s[i].next)])

\* What Walks defines is the one walk there is.
LEMMA WalksAre ==
  ASSUME NEW c \in DOMAIN Tables
  PROVE  /\ Ordered(Tables[c].act)
         /\ IsWalk(Tables[c].act, DOMAIN Tables[c].act, Walks[c])
         /\ \A p \in DOMAIN Tables[c].act : Walks[c][p] \in Seq((DOMAIN Tables[c].act) \X Nat)
<1> DEFINE a == Tables[c].act
           Eq(g) == g = [p \in DOMAIN a |-> WalkFrom(a, g, p)]
           u == CHOOSE g : Eq(g)
<1>1. IsCompiler(Tables[c]) /\ Ordered(a)
  BY TablesAssumption, TablesOrdered
<1>2. PICK h : IsWalk(a, DOMAIN a, h)
  BY <1>1, WalksExist
<1>3. Eq(h)
  BY <1>2 DEF IsWalk
<1>4. Eq(u)
  BY <1>3
<1>5. Walks[c] = u
  BY DEF Walks, WalkFrom
<1> HIDE DEF u
<1>6. IsWalk(a, DOMAIN a, u)
  BY <1>2, <1>4 DEF IsWalk
<1>7. \A p \in DOMAIN a : u[p] \in Seq((DOMAIN a) \X Nat)
  BY <1>1, <1>6, WalkLength
<1> QED BY <1>1, <1>5, <1>6, <1>7

LEMMA SizeFacts ==
  ASSUME NEW c \in DOMAIN Tables, NEW x \in DOMAIN Tables[c].act
  PROVE  LET t == Tables[c].act[x].table
         IN  /\ t \in Seq(DOMAIN Tables[c].act)
             /\ SizeIn(c, x) \in Nat
             /\ SizeIn(c, x) = 1 + Total([k \in 1..Len(t) |-> SizeIn(c, t[k])])
             /\ Tables[c].act[x].kind # "phase" => SizeIn(c, x) = 1
<1> DEFINE a == Tables[c].act
           t == a[x].table
<1>1. IsCompiler(Tables[c])
  BY TablesAssumption
<1>2. PICK u : u = Walks[c]
  OBVIOUS
<1>3. IsWalk(a, DOMAIN a, u) /\ Ordered(a)
  BY <1>2, WalksAre
<1>4. /\ u[x] \in Seq((DOMAIN a) \X Nat)
      /\ Len(u[x]) = Total([k \in 1..Len(t) |-> 1 + Len(u[t[k]])])
  BY <1>3, WalkLength
<1>5. Len(u[x]) \in Nat
  BY <1>4
<1>6. Len(u[x]) = Total([k \in 1..Len(t) |-> SizeIn(c, t[k])])
  <2>1. [k \in 1..Len(t) |-> SizeIn(c, t[k])] = [k \in 1..Len(t) |-> 1 + Len(u[t[k]])]
    BY <1>2 DEF SizeIn
  <2> QED BY <1>4, <2>1
<1>7. t \in Seq(DOMAIN a) /\ (a[x].kind # "phase" => t = << >>)
  BY <1>1 DEF IsCompiler
<1>8. ASSUME a[x].kind # "phase"
      PROVE  Len(u[x]) = 0
  <2>1. Len(t) = 0
    BY <1>7, <1>8
  <2>2. Len([k \in 1..Len(t) |-> SizeIn(c, t[k])]) = 0
    BY <2>1
  <2> QED BY <1>6, <2>2, NoTotal
<1>9. SizeIn(c, x) = 1 + Len(u[x])
  BY <1>2 DEF SizeIn
<1>10. SizeIn(c, x) \in Nat
  BY <1>5, <1>9
<1>11. a[x].kind # "phase" => SizeIn(c, x) = 1
  BY <1>8, <1>9
<1> QED BY <1>6, <1>7, <1>9, <1>10, <1>11

\* Going on in a table by one action.
LEMMA BeforeFacts ==
  ASSUME NEW c \in DOMAIN Tables, NEW x \in DOMAIN Tables[c].act,
         NEW next \in 1..(Len(Tables[c].act[x].table) + 1)
  PROVE  LET t == Tables[c].act[x].table
         IN  /\ BeforeIn(c, x, next) \in Nat /\ BeforeIn(c, x, next) > 0
             /\ BeforeIn(c, x, 1) = 1
             /\ next <= Len(t) => BeforeIn(c, x, next + 1) = BeforeIn(c, x, next) + SizeIn(c, t[next])
             /\ BeforeIn(c, x, Len(t) + 1) = SizeIn(c, x)
<1> DEFINE t == Tables[c].act[x].table
           m == Len(t)
           d(n) == [k \in 1..(n - 1) |-> SizeIn(c, t[k])]
<1>1. /\ t \in Seq(DOMAIN Tables[c].act) /\ m \in Nat
      /\ SizeIn(c, x) = 1 + Total([k \in 1..m |-> SizeIn(c, t[k])])
  <2>1. t \in Seq(DOMAIN Tables[c].act)
    BY SizeFacts
  <2> QED BY <2>1, SizeFacts
<1>2. \A k \in 1..m : SizeIn(c, t[k]) \in Nat
  BY <1>1, ElementOfSeq, SizeFacts
<1>3. \A n : BeforeIn(c, x, n) = 1 + Total(d(n))
  BY DEF BeforeIn
<1> HIDE DEF t, m
<1>4. \A n \in 1..(m + 1) : Len(d(n)) = n - 1 /\ \A k \in 1..(n - 1) : d(n)[k] \in Nat
  BY <1>1, <1>2
<1>5. \A n \in 1..(m + 1) : Total(d(n)) \in Nat
  <2> TAKE n \in 1..(m + 1)
  <2>1. PICK e : e = d(n)
    OBVIOUS
  <2>2. Len(e) \in Nat /\ \A k \in 1..Len(e) : e[k] \in Nat
    <3> HIDE DEF d
    <3>1. n - 1 \in Nat /\ Len(e) = n - 1
      BY <1>1, <1>4, <2>1
    <3>2. \A k \in 1..(n - 1) : e[k] \in Nat
      BY <1>4, <2>1
    <3> QED BY <3>1, <3>2
  <2>3. Total(e) \in Nat
    BY <2>2, TotalsAgree
  <2> QED BY <2>1, <2>3
<1>6. ASSUME NEW n \in 1..m
      PROVE  Total(d(n + 1)) = Total(d(n)) + SizeIn(c, t[n])
  <2>1. PICK e, f : e = d(n) /\ f = d(n + 1)
    OBVIOUS
  <2>2. n \in 1..(m + 1) /\ n + 1 \in 1..(m + 1) /\ n - 1 \in Nat /\ (n + 1) - 1 = n
    BY <1>1
  <2>3. Len(e) = n - 1 /\ Len(f) = n /\ \A k \in 1..n : f[k] \in Nat
    BY <1>4, <2>1, <2>2
  <2>4. \A k \in 1..(n - 1) : e[k] = f[k]
    BY <2>1, <2>2
  <2>5. f[n] = SizeIn(c, t[n])
    BY <2>1, <2>2
  <2>6. Len(e) \in Nat /\ Len(f) = Len(e) + 1
    BY <2>2, <2>3
  <2>7. Total(f) = Total(e) + f[Len(f)]
    BY <2>3, <2>4, <2>6, TotalGrows
  <2> QED BY <2>1, <2>3, <2>5, <2>7
<1>7. Total(d(1)) = 0
  <2>1. PICK e : e = d(1)
    OBVIOUS
  <2>2. Len(e) = 0
    BY <1>1, <1>4, <2>1
  <2> QED BY <2>1, <2>2, NoTotal
<1>8. d(m + 1) = [k \in 1..m |-> SizeIn(c, t[k])]
  BY <1>1
<1>9. next \in 1..(m + 1)
  BY DEF m, t
<1> HIDE DEF d
<1>10. BeforeIn(c, x, next) \in Nat /\ BeforeIn(c, x, next) > 0
  BY <1>3, <1>5, <1>9
<1>11. BeforeIn(c, x, 1) = 1
  BY <1>3, <1>7
<1>12. next <= m => BeforeIn(c, x, next + 1) = BeforeIn(c, x, next) + SizeIn(c, t[next])
  <2>1. next <= m => next \in 1..m
    BY <1>1, <1>9
  <2>2. next <= m => SizeIn(c, t[next]) \in Nat /\ Total(d(next)) \in Nat
    BY <1>2, <1>5, <1>9, <2>1
  <2> QED BY <1>3, <1>6, <2>1, <2>2
<1>13. BeforeIn(c, x, m + 1) = SizeIn(c, x)
  BY <1>1, <1>3, <1>8
<1> QED BY <1>10, <1>11, <1>12, <1>13 DEF m, t

LEMMA ShownMore ==
  ASSUME NEW c, NEW s, NEW n \in Nat,
         \A i \in 1..(n + 1) : BeforeIn(c, s[i].phase, s[i].next) \in Nat
  PROVE  /\ ShownIn(c, s, n) \in Nat
         /\ ShownIn(c, s, n + 1) = ShownIn(c, s, n) + BeforeIn(c, s[n + 1].phase, s[n + 1].next)
<1> PICK e, f : /\ e = [i \in 1..n |-> BeforeIn(c, s[i].phase, s[i].next)]
                /\ f = [i \in 1..(n + 1) |-> BeforeIn(c, s[i].phase, s[i].next)]
  OBVIOUS
<1>1. Len(e) = n /\ Len(f) = n + 1 /\ n + 1 \in 1..(n + 1)
  OBVIOUS
<1>2. (\A i \in 1..(n + 1) : f[i] \in Nat) /\ \A i \in 1..n : e[i] = f[i]
  OBVIOUS
<1>3. Total(e) \in Nat /\ Total(f) = Total(e) + f[Len(f)]
  BY <1>1, <1>2, TotalGrows
<1>4. f[n + 1] = BeforeIn(c, s[n + 1].phase, s[n + 1].next)
  BY <1>1
<1> QED BY <1>1, <1>3, <1>4 DEF ShownIn

LEMMA NoneShown == \A c, s : ShownIn(c, s, 0) = 0
<1> TAKE c, s
<1> PICK e : e = [i \in 1..0 |-> BeforeIn(c, s[i].phase, s[i].next)]
  OBVIOUS
<1>1. Len(e) = 0
  OBVIOUS
<1> QED BY <1>1, NoTotal DEF ShownIn

LEMMA ShownAlike ==
  ASSUME NEW c, NEW s, NEW t, NEW n,
         \A i \in 1..n : t[i].phase = s[i].phase /\ t[i].next = s[i].next
  PROVE  ShownIn(c, t, n) = ShownIn(c, s, n)
<1>1. [i \in 1..n |-> BeforeIn(c, t[i].phase, t[i].next)]
      = [i \in 1..n |-> BeforeIn(c, s[i].phase, s[i].next)]
  OBVIOUS
<1> QED BY <1>1 DEF ShownIn

\* The number of an action is the one shown for its place; a call remembers
\* that of its phase's first action.
Numbered ==
  /\ \A i \in 1..Len(stack) :
       /\ stack[i].next <= Len(act[stack[i].phase].table) + 1
       /\ stack[i].base = ShownIn(compiler, stack, i - 1) + 1
  /\ outcome = "running" => actionId = ShownIn(compiler, stack, Len(stack))

NumberInv == Typed /\ Nested /\ Numbered

\* Where the calls in progress stand.
LEMMA CallsBefore ==
  ASSUME NumberInv
  PROVE  \A i \in 1..Len(stack) :
           /\ stack[i].phase \in DOMAIN Tables[compiler].act
           /\ stack[i].next \in 1..(Len(Tables[compiler].act[stack[i].phase].table) + 1)
           /\ BeforeIn(compiler, stack[i].phase, stack[i].next) \in Nat
<1> SUFFICES ASSUME NEW i \in 1..Len(stack)
             PROVE  /\ stack[i].phase \in DOMAIN Tables[compiler].act
                    /\ stack[i].next \in 1..(Len(Tables[compiler].act[stack[i].phase].table) + 1)
                    /\ BeforeIn(compiler, stack[i].phase, stack[i].next) \in Nat
  OBVIOUS
<1> PICK c, x, next : c = compiler /\ x = stack[i].phase /\ next = stack[i].next
  OBVIOUS
<1>1. c \in DOMAIN Tables /\ x \in DOMAIN Tables[c].act
  BY DEF NumberInv, Typed, Nested, act
<1>2. Len(Tables[c].act[x].table) \in Nat
  BY TablesHold DEF NumberInv, Nested, act
<1>3. next \in Nat \ {0} /\ next <= Len(Tables[c].act[x].table) + 1
  BY DEF NumberInv, Nested, Numbered, act
<1>4. next \in 1..(Len(Tables[c].act[x].table) + 1)
  BY <1>2, <1>3
<1>5. BeforeIn(c, x, next) \in Nat
  BY <1>1, <1>4, BeforeFacts
<1> QED BY <1>1, <1>4, <1>5

\* What is shown for a call: what is shown for the one around it and what is
\* before its next action.
LEMMA CallsShown ==
  ASSUME NumberInv
  PROVE  /\ ShownIn(compiler, stack, 0) = 0
         /\ \A i \in 0..Len(stack) : ShownIn(compiler, stack, i) \in Nat
         /\ \A i \in 1..Len(stack) :
              ShownIn(compiler, stack, i) = ShownIn(compiler, stack, i - 1)
                + BeforeIn(compiler, stack[i].phase, stack[i].next)
<1> PICK c, s, n : c = compiler /\ s = stack /\ n = Len(stack)
  OBVIOUS
<1>1. n \in Nat /\ \A i \in 1..n : BeforeIn(c, s[i].phase, s[i].next) \in Nat
  BY CallsBefore DEF NumberInv, Typed
<1>2. ASSUME NEW i \in 1..n
      PROVE  /\ ShownIn(c, s, i - 1) \in Nat
             /\ ShownIn(c, s, i) = ShownIn(c, s, i - 1) + BeforeIn(c, s[i].phase, s[i].next)
  <2>1. i - 1 \in Nat /\ (i - 1) + 1 = i /\ \A j \in 1..i : j \in 1..n
    BY <1>1
  <2>2. \A j \in 1..((i - 1) + 1) : BeforeIn(c, s[j].phase, s[j].next) \in Nat
    BY <1>1, <2>1
  <2>3. /\ ShownIn(c, s, i - 1) \in Nat
        /\ ShownIn(c, s, (i - 1) + 1) = ShownIn(c, s, i - 1)
             + BeforeIn(c, s[(i - 1) + 1].phase, s[(i - 1) + 1].next)
    BY <2>1, <2>2, ShownMore
  <2> QED BY <2>1, <2>3
<1>3. ShownIn(c, s, 0) = 0
  BY NoneShown
<1>4. \A i \in 0..n : ShownIn(c, s, i) \in Nat
  <2> TAKE i \in 0..n
  <2>1. CASE i = 0
    BY <1>3, <2>1
  <2>2. CASE i # 0
    <3>1. i \in 1..n
      BY <1>1, <2>2
    <3>2. BeforeIn(c, s[i].phase, s[i].next) \in Nat /\ ShownIn(c, s, i - 1) \in Nat
      BY <1>1, <1>2, <3>1
    <3> QED BY <1>2, <3>1, <3>2
  <2> QED BY <2>1, <2>2
<1> QED BY <1>2, <1>3, <1>4

\* What is shown when the innermost call goes on behind an action.
LEMMA ShownOn ==
  ASSUME NumberInv, NEW n \in 1..Len(stack), NEW t,
         stack[n].next <= Len(act[stack[n].phase].table),
         \A i \in 1..n : t[i].phase = stack[i].phase,
         \A i \in 1..(n - 1) : t[i].next = stack[i].next,
         t[n].next = stack[n].next + 1
  PROVE  ShownIn(compiler, t, n)
           = ShownIn(compiler, stack, n) + SizeIn(compiler, act[stack[n].phase].table[stack[n].next])
<1> PICK c, s, x, next : c = compiler /\ s = stack /\ x = s[n].phase /\ next = s[n].next
  OBVIOUS
<1>1. /\ c \in DOMAIN Tables /\ x \in DOMAIN Tables[c].act
      /\ next \in 1..(Len(Tables[c].act[x].table) + 1)
  BY CallsBefore DEF NumberInv, Typed
<1>2. n \in Nat \ {0} /\ n - 1 \in Nat /\ (n - 1) + 1 = n /\ n - 1 \in 0..Len(stack)
  BY DEF NumberInv, Typed
<1>3. next <= Len(Tables[c].act[x].table)
  BY DEF act
<1>4. /\ BeforeIn(c, x, next) \in Nat
      /\ BeforeIn(c, x, next + 1) = BeforeIn(c, x, next) + SizeIn(c, Tables[c].act[x].table[next])
  BY <1>1, <1>3, BeforeFacts
<1>5. SizeIn(c, Tables[c].act[x].table[next]) \in Nat
  <2>1. Tables[c].act[x].table \in Seq(DOMAIN Tables[c].act)
    BY <1>1, SizeFacts
  <2>2. Tables[c].act[x].table[next] \in DOMAIN Tables[c].act
    BY <1>1, <1>3, <2>1, ElementOfSeq
  <2> QED BY <1>1, <2>2, SizeFacts
<1>6. t[n].phase = x /\ t[n].next = next + 1 /\ t[(n - 1) + 1] = t[n]
  BY <1>2
<1>7. ASSUME NEW i \in 1..((n - 1) + 1)
      PROVE  BeforeIn(c, t[i].phase, t[i].next) \in Nat
  <2>1. CASE i = n
    BY <1>4, <1>5, <1>6, <2>1
  <2>2. CASE i # n
    <3>1. i \in 1..(n - 1) /\ i \in 1..n /\ i \in 1..Len(stack)
      BY <1>2, <2>2
    <3>2. t[i].phase = s[i].phase /\ t[i].next = s[i].next
      BY <3>1
    <3>3. BeforeIn(c, s[i].phase, s[i].next) \in Nat
      BY <3>1, CallsBefore
    <3> QED BY <3>2, <3>3
  <2> QED BY <2>1, <2>2
<1>8. ShownIn(c, t, (n - 1) + 1)
        = ShownIn(c, t, n - 1) + BeforeIn(c, t[(n - 1) + 1].phase, t[(n - 1) + 1].next)
  BY <1>2, <1>7, ShownMore
<1>9. ShownIn(c, t, n - 1) = ShownIn(c, s, n - 1)
  <2>1. \A i \in 1..(n - 1) : t[i].phase = s[i].phase /\ t[i].next = s[i].next
    BY <1>2
  <2> QED BY <2>1, ShownAlike
<1>10. ShownIn(c, s, n) = ShownIn(c, s, n - 1) + BeforeIn(c, x, next) /\ ShownIn(c, s, n - 1) \in Nat
  BY <1>2, CallsShown
<1>11. ShownIn(c, t, n) = ShownIn(c, s, n - 1) + (BeforeIn(c, x, next) + SizeIn(c, Tables[c].act[x].table[next]))
  BY <1>2, <1>4, <1>6, <1>8, <1>9
<1>12. ShownIn(c, t, n) = ShownIn(c, s, n) + SizeIn(c, Tables[c].act[x].table[next])
  <2>1. PICK u, v, w : /\ u = ShownIn(c, s, n - 1) /\ v = BeforeIn(c, x, next)
                       /\ w = SizeIn(c, Tables[c].act[x].table[next])
    OBVIOUS
  <2>2. u \in Nat /\ v \in Nat /\ w \in Nat
    BY <1>4, <1>5, <1>10, <2>1
  <2>3. ShownIn(c, t, n) = u + (v + w) /\ ShownIn(c, s, n) = u + v
    BY <1>10, <1>11, <2>1
  <2>4. u + (v + w) = (u + v) + w
    BY <2>2
  <2> QED BY <2>1, <2>3, <2>4
<1> QED BY <1>12 DEF act

\* Steps that end an action, the calls up to the m-th staying.
LEMMA NumbersGoOn ==
  ASSUME NumberInv, compiler' = compiler, act' = act, NEW m \in 0..Len(stack),
         Len(stack') = m,
         \A i \in 1..m : /\ SameCall(stack[i], stack'[i])
                         /\ stack'[i].next = IF i = m THEN stack[i].next + 1 ELSE stack[i].next,
         m > 0 => stack[m].next <= Len(act[stack[m].phase].table),
         m > 0 /\ outcome' = "running" =>
           actionId' = ShownIn(compiler, stack, m)
                         + SizeIn(compiler, act[stack[m].phase].table[stack[m].next]),
         m = 0 => outcome' # "running"
  PROVE  Numbered'
<1> PICK c, s, t : c = compiler /\ s = stack /\ t = stack'
  OBVIOUS
<1>1. m \in Nat /\ Len(s) \in Nat /\ m <= Len(s) /\ \A i \in 1..m : i \in 1..Len(s)
  BY DEF NumberInv, Typed
<1>2. \A i \in 1..m : t[i].phase = s[i].phase /\ t[i].base = s[i].base
  BY DEF SameCall
<1>3. \A i \in 1..(m - 1) : t[i].next = s[i].next
  BY <1>1
<1>4. ASSUME NEW i \in 1..m
      PROVE  t[i].next <= Len(act[t[i].phase].table) + 1
  <2>1. s[i].next \in Nat /\ s[i].next <= Len(act[s[i].phase].table) + 1
        /\ Len(act[s[i].phase].table) \in Nat
    BY <1>1, TablesHold DEF NumberInv, Numbered, Nested
  <2>2. CASE i = m
    BY <1>2, <2>1, <2>2
  <2>3. CASE i # m
    BY <1>2, <2>1, <2>3
  <2> QED BY <2>2, <2>3
<1>5. ASSUME NEW i \in 1..m
      PROVE  t[i].base = ShownIn(c, t, i - 1) + 1
  <2>1. \A j \in 1..(i - 1) : j \in 1..(m - 1) /\ j \in 1..m
    BY <1>1
  <2>2. \A j \in 1..(i - 1) : t[j].phase = s[j].phase /\ t[j].next = s[j].next
    BY <1>2, <1>3, <2>1
  <2>3. ShownIn(c, t, i - 1) = ShownIn(c, s, i - 1)
    BY <2>2, ShownAlike
  <2>4. s[i].base = ShownIn(c, s, i - 1) + 1
    BY <1>1 DEF NumberInv, Numbered
  <2> QED BY <1>2, <2>3, <2>4
<1>6. ASSUME outcome' = "running"
      PROVE  actionId' = ShownIn(c, t, m)
  <2>1. m \in 1..m /\ m > 0 /\ m \in 1..Len(s)
    BY <1>1, <1>6
  <2>2. ShownIn(compiler, t, m)
          = ShownIn(compiler, stack, m) + SizeIn(compiler, act[stack[m].phase].table[stack[m].next])
    <3>1. t[m].next = stack[m].next + 1
      BY <2>1
    <3>2. \A i \in 1..m : t[i].phase = stack[i].phase
      BY <1>2
    <3>3. \A i \in 1..(m - 1) : t[i].next = stack[i].next
      BY <1>3
    <3> QED BY <2>1, <3>1, <3>2, <3>3, ShownOn
  <2> QED BY <1>6, <2>1, <2>2
<1> QED BY <1>4, <1>5, <1>6 DEF Numbered

LEMMA NumberKept ==
  ASSUME NumberInv, [Next]_vars
  PROVE  Numbered'
<1> PICK n : n = Len(stack)
  OBVIOUS
<1> PICK c, s, t : c = compiler /\ s = stack /\ t = stack'
  OBVIOUS
<1>1. Typed /\ Nested /\ Numbered /\ n \in Nat /\ n \in 0..n /\ c \in DOMAIN Tables
  BY DEF NumberInv, Typed
<1>2. n = 0 => stack = << >>
  <2> PICK B : stack \in Seq(Frame(B))
    BY <1>1 DEF Typed
  <2>1. stack # << >> => Len(stack) \in Nat \ {0}
    BY FrontFacts
  <2> QED BY <2>1
<1>3. act' = act /\ compiler' = compiler
  BY DEF Next, vars, input, CheckFails, RunAction, SkipPhase, EnterPhase, RepeatCycle,
         AbortPhase, LeavePhase, act
<1>4. CASE stack' = stack /\ (outcome' # "running" \/ UNCHANGED vars)
  BY <1>3, <1>4 DEF NumberInv, Numbered, vars
<1>5. ASSUME Dispatching
      PROVE  /\ Current \in DOMAIN Tables[c].act
             /\ n > 0 => /\ stack[n].next <= Len(act[stack[n].phase].table)
                         /\ Current = act[stack[n].phase].table[stack[n].next]
             /\ actionId = ShownIn(c, s, n)
  <2>1. Current \in DOMAIN act
    BY <1>1, <1>5, CurrentFound
  <2>2. n > 0 => stack # << >>
    OBVIOUS
  <2>3. n > 0 => /\ Top.next <= Len(act[Top.phase].table)
                 /\ Current = act[Top.phase].table[Top.next]
    BY <1>1, <1>5, <2>2, CurrentFound DEF Dispatching
  <2> QED BY <1>1, <1>5, <2>1, <2>3 DEF act, Top, Dispatching, Numbered
<1>6. ASSUME NEW eff \in SUBSET Effects, RunAction(eff), outcome' # "aborted" \/ stack' # stack
      PROVE  Numbered'
  <2>1. Dispatching /\ act[Current].kind # "phase" /\ actionId' = actionId + 1
    BY <1>6 DEF RunAction
  <2>2. /\ Len(stack') = n
        /\ \A i \in 1..n : /\ SameCall(stack[i], stack'[i])
                           /\ stack'[i].next = IF i = n THEN stack[i].next + 1 ELSE stack[i].next
    BY <1>1, <1>6, RunFrames
  <2>3. SizeIn(c, Current) = 1
    BY <1>1, <1>5, <2>1, SizeFacts DEF act
  <2>4. n = 0 => outcome' # "running"
    <3>1. SUFFICES ASSUME n = 0 PROVE outcome' # "running"
      OBVIOUS
    <3>2. stack = << >>
      BY <1>2, <3>1
    <3> PICK noted : noted = [i \in DOMAIN stack |->
                       [stack[i] EXCEPT !.erred = @ \/ (i = Len(stack) /\ "phaseError" \in eff),
                                        !.notified = @ \/ (i = InnerCycle /\ "notify" \in eff)]]
      OBVIOUS
    <3>3. noted = << >>
      BY <3>2
    <3>4. outcome' = "aborted" \/ Return(Current, actionId', noted)
      BY <1>6 DEF RunAction
    <3> QED BY <3>3, <3>4 DEF Return
  <2>5. n > 0 => actionId' = ShownIn(compiler, stack, n)
                              + SizeIn(compiler, act[stack[n].phase].table[stack[n].next])
    BY <1>5, <2>1, <2>3
  <2> QED BY <1>1, <1>3, <1>5, <2>1, <2>2, <2>4, <2>5, NumbersGoOn
<1>7. CASE SkipPhase
  <2>1. Dispatching /\ actionId' = actionId + SizeIn(c, Current)
    BY <1>7 DEF SkipPhase, Size, Walk, SizeIn
  <2>2. /\ Len(stack') = n
        /\ \A i \in 1..n : /\ SameCall(stack[i], stack'[i])
                           /\ stack'[i].next = IF i = n THEN stack[i].next + 1 ELSE stack[i].next
    BY <1>1, <1>7, SkipFrames
  <2>3. n = 0 => outcome' # "running"
    <3>1. SUFFICES ASSUME n = 0 PROVE outcome' # "running"
      OBVIOUS
    <3>2. stack = << >>
      BY <1>2, <3>1
    <3>3. Return(Current, actionId + 1, stack)
      BY <1>7 DEF SkipPhase
    <3> QED BY <3>2, <3>3 DEF Return
  <2>4. n > 0 => actionId' = ShownIn(compiler, stack, n)
                              + SizeIn(compiler, act[stack[n].phase].table[stack[n].next])
    BY <1>5, <2>1
  <2> QED BY <1>1, <1>3, <1>5, <2>1, <2>2, <2>3, <2>4, NumbersGoOn
<1>8. CASE EnterPhase
  <2>1. Dispatching /\ actionId' = actionId + 1 /\ outcome' = outcome
    BY <1>8 DEF EnterPhase
  <2>2. /\ Len(t) = n + 1 /\ (\A i \in 1..n : t[i] = s[i])
        /\ t[n + 1].phase = Current /\ t[n + 1].next = 1 /\ t[n + 1].base = actionId + 1
    BY <1>1, <1>8, EnterFrames
  <2>3. \A i \in 0..n : ShownIn(c, t, i) = ShownIn(c, s, i)
    <3> TAKE i \in 0..n
    <3>1. \A j \in 1..i : t[j].phase = s[j].phase /\ t[j].next = s[j].next
      BY <1>1, <2>2
    <3> QED BY <3>1, ShownAlike
  <2>4. actionId = ShownIn(c, s, n) /\ Current \in DOMAIN Tables[c].act
    BY <1>5, <2>1
  <2>5. Len(Tables[c].act[Current].table) \in Nat
    <3>1. Tables[c].act[Current].table \in Seq(DOMAIN Tables[c].act)
      BY <1>1, <2>4, SizeFacts
    <3> QED BY <3>1
  <2>6. BeforeIn(c, Current, 1) = 1
    <3>1. PICK x : x = Current
      OBVIOUS
    <3>2. c \in DOMAIN Tables /\ x \in DOMAIN Tables[c].act
      BY <1>1, <2>4, <3>1
    <3>3. 1 \in 1..(Len(Tables[c].act[x].table) + 1)
      <4>1. PICK l : l = Len(Tables[c].act[x].table)
        OBVIOUS
      <4>2. l \in Nat
        BY <2>5, <3>1, <4>1
      <4>3. 1 \in 1..(l + 1)
        BY <4>2
      <4> QED BY <4>1, <4>3
    <3>4. BeforeIn(c, x, 1) = 1
      BY <3>2, <3>3, BeforeFacts
    <3> QED BY <3>1, <3>4
  <2>7. ShownIn(c, t, n + 1) = ShownIn(c, s, n) + 1
    <3>1. ASSUME NEW i \in 1..(n + 1)
          PROVE  BeforeIn(c, t[i].phase, t[i].next) \in Nat
      <4>1. CASE i = n + 1
        BY <2>2, <2>6, <4>1
      <4>2. CASE i # n + 1
        <5>1. i \in 1..n
          BY <1>1, <4>2
        <5> QED BY <2>2, <5>1, CallsBefore
      <4> QED BY <4>1, <4>2
    <3>2. ShownIn(c, t, n + 1) = ShownIn(c, t, n) + BeforeIn(c, t[n + 1].phase, t[n + 1].next)
      BY <1>1, <3>1, ShownMore
    <3> QED BY <1>1, <2>2, <2>3, <2>6, <3>2
  <2>8. \A i \in 1..(n + 1) : t[i].next <= Len(act[t[i].phase].table) + 1
    <3> TAKE i \in 1..(n + 1)
    <3>1. CASE i = n + 1
      BY <2>2, <2>5, <3>1 DEF act
    <3>2. CASE i # n + 1
      <4>1. i \in 1..n
        BY <1>1, <3>2
      <4> QED BY <1>1, <2>2, <4>1 DEF Numbered
    <3> QED BY <3>1, <3>2
  <2>9. \A i \in 1..(n + 1) : t[i].base = ShownIn(c, t, i - 1) + 1
    <3> TAKE i \in 1..(n + 1)
    <3>1. i - 1 \in 0..n /\ ShownIn(c, t, i - 1) = ShownIn(c, s, i - 1)
      BY <1>1, <2>3
    <3>2. CASE i = n + 1
      <4>1. i - 1 = n
        BY <1>1, <3>2
      <4> QED BY <2>2, <2>4, <3>1, <3>2, <4>1
    <3>3. CASE i # n + 1
      <4>1. i \in 1..n
        BY <1>1, <3>3
      <4> QED BY <1>1, <2>2, <3>1, <4>1 DEF Numbered
    <3> QED BY <3>2, <3>3
  <2> QED BY <1>3, <2>1, <2>2, <2>4, <2>7, <2>8, <2>9 DEF Numbered
<1>9. CASE RepeatCycle
  <2>1. /\ n \in Nat \ {0} /\ Len(t) = n /\ (\A i \in 1..(n - 1) : t[i] = s[i])
        /\ t[n].phase = s[n].phase /\ t[n].base = s[n].base /\ t[n].next = 1
    BY <1>9, <1>1, RepeatFrames DEF SameCall
  <2>2. actionId' = s[n].base /\ s[n].base = ShownIn(c, s, n - 1) + 1
    BY <1>1, <1>9, <2>1 DEF RepeatCycle, Top, Numbered
  <2>3. \A i \in 0..(n - 1) : ShownIn(c, t, i) = ShownIn(c, s, i)
    <3> TAKE i \in 0..(n - 1)
    <3>1. \A j \in 1..i : t[j].phase = s[j].phase /\ t[j].next = s[j].next
      BY <2>1
    <3> QED BY <3>1, ShownAlike
  <2>4. n \in 1..n /\ s[n].phase \in DOMAIN Tables[c].act
        /\ s[n].next \in 1..(Len(Tables[c].act[s[n].phase].table) + 1)
    BY <2>1, CallsBefore
  <2>5. BeforeIn(c, s[n].phase, 1) = 1
    BY <1>1, <2>4, BeforeFacts
  <2>6. ShownIn(c, t, n) = ShownIn(c, s, n - 1) + 1
    <3>1. n - 1 \in Nat /\ (n - 1) + 1 = n /\ n - 1 \in 0..(n - 1)
      BY <2>1
    <3>2. ASSUME NEW i \in 1..((n - 1) + 1)
          PROVE  BeforeIn(c, t[i].phase, t[i].next) \in Nat
      <4>1. CASE i = n
        BY <2>1, <2>5, <4>1
      <4>2. CASE i # n
        <5>1. i \in 1..(n - 1) /\ i \in 1..n
          BY <2>1, <4>2
        <5> QED BY <2>1, <5>1, CallsBefore
      <4> QED BY <4>1, <4>2
    <3>3. ShownIn(c, t, (n - 1) + 1) = ShownIn(c, t, n - 1)
            + BeforeIn(c, t[(n - 1) + 1].phase, t[(n - 1) + 1].next)
      BY <3>1, <3>2, ShownMore
    <3> QED BY <2>1, <2>3, <2>5, <3>1, <3>3
  <2>7. \A i \in 1..n : t[i].next <= Len(act[t[i].phase].table) + 1
    <3> TAKE i \in 1..n
    <3>1. CASE i = n
      <4>1. Len(Tables[c].act[s[n].phase].table) \in Nat
        <5>1. Tables[c].act[s[n].phase].table \in Seq(DOMAIN Tables[c].act)
          BY <1>1, <2>4, SizeFacts
        <5> QED BY <5>1
      <4> QED BY <2>1, <3>1, <4>1 DEF act
    <3>2. CASE i # n
      <4>1. i \in 1..(n - 1)
        BY <2>1, <3>2
      <4> QED BY <1>1, <2>1, <4>1 DEF Numbered
    <3> QED BY <3>1, <3>2
  <2>8. \A i \in 1..n : t[i].base = ShownIn(c, t, i - 1) + 1
    <3> TAKE i \in 1..n
    <3>1. i - 1 \in 0..(n - 1) /\ ShownIn(c, t, i - 1) = ShownIn(c, s, i - 1)
      BY <2>1, <2>3
    <3>2. t[i].base = s[i].base
      <4>1. i = n \/ i \in 1..(n - 1)
        BY <2>1
      <4> QED BY <2>1, <4>1
    <3> QED BY <1>1, <3>1, <3>2 DEF Numbered
  <2> QED BY <1>3, <2>1, <2>2, <2>6, <2>7, <2>8 DEF Numbered
<1>10. CASE LeavePhase
  <2>1. /\ n \in Nat \ {0} /\ Len(stack') = n - 1
        /\ \A i \in 1..(n - 1) :
             /\ SameCall(stack[i], stack'[i])
             /\ stack'[i].next = IF i = n - 1 THEN stack[i].next + 1 ELSE stack[i].next
    BY <1>1, <1>10, LeaveFrames
  <2>2. /\ n \in 1..n /\ s[n].phase \in DOMAIN Tables[c].act
        /\ s[n].next \in 1..(Len(Tables[c].act[s[n].phase].table) + 1)
    BY <2>1, CallsBefore
  <2>3. s[n].next > Len(Tables[c].act[s[n].phase].table) /\ outcome = "running"
    BY <1>10 DEF LeavePhase, EndOfTable, Top, act
  <2>4. Len(Tables[c].act[s[n].phase].table) \in Nat
    <3>1. Tables[c].act[s[n].phase].table \in Seq(DOMAIN Tables[c].act)
      BY <1>1, <2>2, SizeFacts
    <3> QED BY <3>1
  <2>5. s[n].next = Len(Tables[c].act[s[n].phase].table) + 1
    <3>1. PICK k, l : k = s[n].next /\ l = Len(Tables[c].act[s[n].phase].table)
      OBVIOUS
    <3>2. k \in 1..(l + 1) /\ k > l /\ l \in Nat
      BY <2>2, <2>3, <2>4, <3>1
    <3>3. k = l + 1
      BY <3>2
    <3> QED BY <3>1, <3>3
  <2>6. BeforeIn(c, s[n].phase, s[n].next) = SizeIn(c, s[n].phase)
    <3>1. PICK x, k, l : x = s[n].phase /\ k = s[n].next /\ l = Len(Tables[c].act[x].table)
      OBVIOUS
    <3>2. c \in DOMAIN Tables /\ x \in DOMAIN Tables[c].act /\ k \in 1..(l + 1) /\ k = l + 1
      BY <1>1, <2>2, <2>5, <3>1
    <3>3. BeforeIn(c, x, k) = SizeIn(c, x)
      BY <3>1, <3>2, BeforeFacts
    <3> QED BY <3>1, <3>3
  <2>7. actionId' = ShownIn(c, s, n - 1) + SizeIn(c, s[n].phase)
    <3>1. actionId' = actionId /\ actionId = ShownIn(c, s, n)
      BY <1>1, <1>10, <2>3 DEF LeavePhase, Numbered
    <3>2. ShownIn(c, s, n) = ShownIn(c, s, n - 1) + BeforeIn(c, s[n].phase, s[n].next)
      BY <2>2, CallsShown
    <3> QED BY <2>6, <3>1, <3>2
  <2>8. n - 1 > 0 => /\ stack[n - 1].next <= Len(act[stack[n - 1].phase].table)
                     /\ act[stack[n - 1].phase].table[stack[n - 1].next] = stack[n].phase
    <3>1. SUFFICES ASSUME n - 1 > 0
                   PROVE  /\ stack[n - 1].next <= Len(act[stack[n - 1].phase].table)
                          /\ act[stack[n - 1].phase].table[stack[n - 1].next] = stack[n].phase
      OBVIOUS
    <3>2. n - 1 \in 1..n /\ n - 1 < n /\ (n - 1) + 1 = n
      BY <2>1, <3>1
    <3>3. /\ stack[n - 1].phase \in DOMAIN act
          /\ stack[n - 1].next \in DOMAIN act[stack[n - 1].phase].table
          /\ act[stack[n - 1].phase].table[stack[n - 1].next] = stack[(n - 1) + 1].phase
      BY <1>1, <3>2 DEF Nested
    <3>4. /\ Len(act[stack[n - 1].phase].table) \in Nat
          /\ DOMAIN act[stack[n - 1].phase].table = 1..Len(act[stack[n - 1].phase].table)
      BY <1>1, <3>3, TablesHold
    <3> QED BY <3>2, <3>3, <3>4
  <2>9. n - 1 = 0 => outcome' # "running"
    <3>1. SUFFICES ASSUME n - 1 = 0 PROVE outcome' # "running"
      OBVIOUS
    <3>2. Front(stack) = << >>
      <4>1. PICK B : stack \in Seq(Frame(B))
        BY <1>1 DEF Typed
      <4>2. stack # << >>
        BY <1>10 DEF LeavePhase, EndOfTable
      <4>3. Front(stack) \in Seq(Frame(B)) /\ Len(Front(stack)) = 0
        BY <3>1, <4>1, <4>2, FrontFacts
      <4> QED BY <4>3
    <3>3. Return(Top.phase, Top.base, Front(stack))
      BY <1>10 DEF LeavePhase
    <3> QED BY <3>2, <3>3 DEF Return
  <2>10. n - 1 > 0 => actionId' = ShownIn(compiler, stack, n - 1)
                       + SizeIn(compiler, act[stack[n - 1].phase].table[stack[n - 1].next])
    BY <2>7, <2>8
  <2>11. n - 1 \in 0..Len(stack)
    BY <2>1
  <2> QED BY <1>1, <1>3, <2>1, <2>8, <2>9, <2>10, <2>11, NumbersGoOn
<1>11. CASE CheckFails \/ AbortPhase \/ \E eff \in SUBSET Effects :
              RunAction(eff) /\ outcome' = "aborted" /\ stack' = stack
  BY <1>4, <1>11 DEF CheckFails, AbortPhase
<1> QED BY <1>4, <1>6, <1>7, <1>8, <1>9, <1>10, <1>11 DEF Next, vars

LEMMA InitNumbers == Init => Numbered
<1> SUFFICES ASSUME Init PROVE Numbered
  OBVIOUS
<1>1. stack = << >> /\ actionId = 0 /\ Len(stack) = 0 /\ 1..Len(stack) = {}
  BY DEF Init
<1>2. ShownIn(compiler, stack, 0) = 0
  BY NoneShown
<1> QED BY <1>1, <1>2 DEF Numbered

\* The number the driver counts is the one shown for the place of the next
\* action, for any tables.
THEOREM ActionNumbersAreShown == Spec => []ActionIdsAreShown
<1>1. KeptInv /\ NumberInv /\ [Next]_vars => KeptInv' /\ NumberInv'
  BY NextKept, NestedKept, NumberKept DEF NumberInv, KeptInv
<1>2. Init => KeptInv /\ NumberInv
  BY InitCycle, InitNumbers DEF CycleInv, NumberInv, KeptInv
<1>3. NumberInv => ActionIdsAreShown
  <2> SUFFICES ASSUME NumberInv PROVE Shown(stack) = ShownIn(compiler, stack, Len(stack))
    BY DEF NumberInv, Numbered, ActionIdsAreShown
  <2>1. DOMAIN stack = 1..Len(stack)
    BY DEF NumberInv, Typed
  <2>2. \A f : Before(f) = BeforeIn(compiler, f.phase, f.next)
    BY DEF Before, BeforeIn, Size, SizeIn, Walk, act
  <2>3. [i \in DOMAIN stack |-> Before(stack[i])]
        = [i \in 1..Len(stack) |-> BeforeIn(compiler, stack[i].phase, stack[i].next)]
    BY <2>1, <2>2
  <2> QED BY <2>3 DEF Shown, ShownIn
<1> QED BY <1>1, <1>2, <1>3, PTL DEF Spec

-----------------------------------------------------------------------------
\* Places.

\* Every number up to the n-th sum lies behind one of the sums before it.
LEMMA SumsSplit ==
  ASSUME NEW n \in Nat, NEW c, NEW g, Sums(c, n, g), \A k \in 1..n : c[k] \in Nat
  PROVE  \A i \in 1..g[n] : \E k \in 1..n : \E r \in 1..c[k] : i = g[k - 1] + r
<1> TAKE i \in 1..g[n]
<1> DEFINE Over == {k \in 0..n : i <= g[k]}
<1>1. \A k \in 0..n : g[k] \in Nat
  BY DEF Sums
<1>2. n \in Over
  BY <1>1
<1>3. PICK k \in Over : \A j \in Over : k <= j
  <2>1. Over \in SUBSET Nat /\ Over # {}
    BY <1>2
  <2> HIDE DEF Over
  <2> QED BY <2>1, LeastNat
<1>4. k \in 0..n /\ i <= g[k] /\ i \in Nat /\ i > 0
  BY <1>1, <1>3
<1>5. k # 0
  BY <1>4 DEF Sums
<1>6. k \in 1..n /\ k - 1 \in 0..n /\ k - 1 \notin Over
  <2>1. k \in 1..n /\ k - 1 \in 0..n /\ ~(k <= k - 1)
    BY <1>4, <1>5
  <2> HIDE DEF Over
  <2> QED BY <1>3, <2>1
<1>7. g[k] = g[k - 1] + c[k] /\ ~(i <= g[k - 1])
  BY <1>6 DEF Sums
<1>8. PICK x, y, z : x = g[k - 1] /\ y = g[k] /\ z = c[k]
  OBVIOUS
<1>9. x \in Nat /\ y \in Nat /\ z \in Nat /\ y = x + z /\ i <= y /\ ~(i <= x)
  BY <1>1, <1>4, <1>6, <1>7, <1>8
<1>10. i - x \in 1..z /\ i = x + (i - x)
  BY <1>4, <1>9
<1> QED BY <1>6, <1>8, <1>10

LEMMA FlattenJoins ==
  ASSUME NEW T, NEW s \in Seq(Seq(T)), Len(s) # 0
  PROVE  \E u : Joins(s, Len(s), u) /\ FlattenSeq(s) = u[Len(s)]
<1> DEFINE n == Len(s)
           Eq(g) == g = [i \in 1..n |-> IF i = 1 THEN s[i] ELSE g[i - 1] \o s[i]]
           u == CHOOSE g : Eq(g)
<1>1. n \in Nat /\ n \in 0..n
  OBVIOUS
<1>2. PICK h \in [1..n -> Seq(T)] : Joins(s, n, h)
  BY <1>1, JoinsExist
<1>3. Eq(h)
  BY <1>2 DEF Joins
<1>4. Eq(u)
  BY <1>3
<1>5. FlattenSeq(s) = u[n]
  BY DEF FlattenSeq
<1> HIDE DEF u
<1>6. Joins(s, n, u)
  BY <1>4 DEF Joins
<1> QED BY <1>5, <1>6

\* Where the elements of a joined sequence come from.
Pieces(s, c, g) ==
  \A k \in 1..Len(s) : \A r \in 1..c[k] :
    g[k - 1] + r \in 1..g[Len(s)] /\ FlattenSeq(s)[g[k - 1] + r] = s[k][r]

LEMMA FlattenAt ==
  ASSUME NEW T, NEW s \in Seq(Seq(T)), NEW c, NEW g, Sums(c, Len(s), g),
         \A k \in 1..Len(s) : c[k] = Len(s[k])
  PROVE  Pieces(s, c, g)
<1> USE DEF Pieces
<1> DEFINE n == Len(s)
<1>1. CASE n = 0
  BY <1>1
<1>2. CASE n # 0
  <2>1. PICK u : Joins(s, n, u) /\ FlattenSeq(s) = u[n]
    BY <1>2, FlattenJoins
  <2>2. n \in Nat /\ n \in 1..n
    BY <1>2
  <2>3. \A k \in 1..n : s[k] \in Seq(T) /\ c[k] \in Nat /\ c[k] = Len(s[k])
    BY ElementOfSeq
  <2>4. /\ \A k \in 0..n : g[k] \in Nat
        /\ g[0] = 0 /\ \A k \in 1..n : g[k] = g[k - 1] + c[k]
    BY DEF Sums
  <2> HIDE DEF n
  <2> DEFINE Good(m) == /\ u[m] \in Seq(T) /\ Len(u[m]) = g[m]
                        /\ \A k \in 1..m : \A r \in 1..c[k] :
                             g[k - 1] + r \in 1..g[m] /\ u[m][g[k - 1] + r] = s[k][r]
             Bad == {m \in 1..n : ~Good(m)}
  <2>5. Bad = {}
    <3>1. SUFFICES ASSUME Bad # {} PROVE FALSE
      OBVIOUS
    <3>2. PICK m \in Bad : \A i \in Bad : m <= i
      <4>1. Bad \in SUBSET Nat
        BY <2>2
      <4> HIDE DEF Bad
      <4> QED BY <3>1, <4>1, LeastNat
    <3>3. m \in 1..n /\ ~Good(m)
      BY <3>2
    <3> HIDE DEF Good
    <3>4. CASE m = 1
      <4>1. u[1] = s[1] /\ s[1] \in Seq(T) /\ Len(s[1]) = c[1] /\ g[1] = c[1] /\ c[1] \in Nat
        BY <2>1, <2>3, <2>4, <3>3, <3>4 DEF Joins
      <4>2. ASSUME NEW k \in 1..1, NEW r \in 1..c[k]
            PROVE  g[k - 1] + r \in 1..g[1] /\ u[1][g[k - 1] + r] = s[k][r]
        <5>1. k = 1 /\ g[k - 1] = 0 /\ g[k - 1] + r = r /\ r \in 1..g[1]
          BY <2>4, <4>1
        <5> QED BY <4>1, <5>1
      <4> QED BY <3>3, <3>4, <4>1, <4>2 DEF Good
    <3>5. CASE m # 1
      <4>1. m - 1 \in 1..n /\ m - 1 \notin Bad /\ (m - 1) + 1 = m /\ m \in Nat
        <5>1. m - 1 \in 1..n /\ ~(m <= m - 1) /\ (m - 1) + 1 = m /\ m \in Nat
          BY <2>2, <3>3, <3>5
        <5> HIDE DEF Bad
        <5> QED BY <3>2, <5>1
      <4>2. Good(m - 1)
        BY <4>1
      <4>3. PICK x, y, a, b : x = u[m - 1] /\ y = s[m] /\ a = g[m - 1] /\ b = c[m]
        OBVIOUS
      <4>4. x \in Seq(T) /\ y \in Seq(T) /\ Len(x) = a /\ Len(y) = b /\ a \in Nat /\ b \in Nat
        BY <2>3, <2>4, <3>3, <4>1, <4>2, <4>3 DEF Good
      <4>5. u[m] = x \o y /\ g[m] = a + b
        BY <2>1, <2>4, <3>3, <3>5, <4>3 DEF Joins
      <4>6. /\ x \o y \in Seq(T) /\ Len(x \o y) = a + b
            /\ \A i \in 1..(a + b) : (x \o y)[i] = IF i <= a THEN x[i] ELSE y[i - a]
        <5>1. /\ x \o y \in Seq(T) /\ Len(x \o y) = Len(x) + Len(y)
              /\ \A i \in 1..(Len(x) + Len(y)) : (x \o y)[i] = IF i <= Len(x) THEN x[i] ELSE y[i - Len(x)]
          <6>1. x \in Seq(T) /\ y \in Seq(T)
            BY <4>4
          <6> QED BY <6>1, ConcatProperties
        <5> QED BY <4>4, <5>1
      <4>7. ASSUME NEW k \in 1..m, NEW r \in 1..c[k]
            PROVE  g[k - 1] + r \in 1..g[m] /\ u[m][g[k - 1] + r] = s[k][r]
        <5>1. CASE k = m
          <6>1. g[k - 1] = a /\ r \in 1..b /\ s[k] = y
            BY <4>3, <5>1
          <6>2. a + r \in 1..(a + b) /\ ~(a + r <= a) /\ (a + r) - a = r
            BY <4>4, <6>1
          <6>3. (x \o y)[a + r] = y[r]
            BY <4>6, <6>2
          <6> QED BY <4>5, <6>1, <6>2, <6>3
        <5>2. CASE k # m
          <6>1. k \in 1..(m - 1)
            BY <4>1, <5>2
          <6>2. PICK j : j = g[k - 1] + r
            OBVIOUS
          <6>3. j \in 1..a /\ x[j] = s[k][r]
            BY <4>2, <4>3, <6>1, <6>2 DEF Good
          <6>4. j \in 1..(a + b) /\ j <= a
            BY <4>4, <6>3
          <6>5. (x \o y)[j] = x[j]
            BY <4>6, <6>4
          <6> QED BY <4>5, <6>2, <6>3, <6>4, <6>5
        <5> QED BY <5>1, <5>2
      <4> QED BY <3>3, <4>5, <4>6, <4>7 DEF Good
    <3> QED BY <3>4, <3>5
  <2>6. Good(n)
    BY <2>2, <2>5
  <2> QED BY <2>1, <2>6 DEF n
<1> QED BY <1>1, <1>2

\* What is where in a walk: the k-th action of the table, and behind it what
\* that action runs.
LEMMA WalkAt ==
  ASSUME NEW c \in DOMAIN Tables, NEW x \in DOMAIN Tables[c].act
  PROVE  LET t == Tables[c].act[x].table
             w == Walks[c]
         IN  /\ \A k \in 1..Len(t) :
                  /\ BeforeIn(c, x, k) \in DOMAIN w[x] /\ w[x][BeforeIn(c, x, k)] = <<x, k>>
                  /\ \A r \in 1..Len(w[t[k]]) : /\ BeforeIn(c, x, k) + r \in DOMAIN w[x]
                                                /\ w[x][BeforeIn(c, x, k) + r] = w[t[k]][r]
             /\ \A i \in DOMAIN w[x] : \E k \in 1..Len(t) : \E r \in 0..Len(w[t[k]]) :
                  i = BeforeIn(c, x, k) + r
<1> DEFINE a == Tables[c].act
           P == (DOMAIN a) \X Nat
<1>1. PICK t, w : t = a[x].table /\ w = Walks[c]
  OBVIOUS
<1>2. /\ \A p \in DOMAIN a : w[p] \in Seq(P)
      /\ w[x] = WalkFrom(a, w, x)
  BY <1>1, WalksAre DEF IsWalk
<1>3. PICK n : n = Len(t)
  OBVIOUS
<1>4. /\ t \in Seq(DOMAIN a) /\ n \in Nat
      /\ \A k \in 1..n : t[k] \in DOMAIN a
  <2>1. t \in Seq(DOMAIN a)
    BY <1>1, SizeFacts
  <2> QED BY <1>3, <2>1, ElementOfSeq
<1> HIDE DEF P
<1>5. PICK s : s = [k \in 1..n |-> <<<<x, k>>>> \o w[t[k]]]
  OBVIOUS
<1>6. PICK d : d = [k \in 1..n |-> 1 + Len(w[t[k]])]
  OBVIOUS
<1>7. ASSUME NEW k \in 1..n
      PROVE  /\ s[k] \in Seq(P) /\ d[k] = Len(s[k])
             /\ Len(w[t[k]]) \in Nat /\ d[k] = 1 + Len(w[t[k]]) /\ d[k] \in Nat
             /\ s[k][1] = <<x, k>> /\ \A r \in 1..Len(w[t[k]]) : s[k][1 + r] = w[t[k]][r]
  <2>1. PICK e, y : e = <<<<x, k>>>> /\ y = w[t[k]]
    OBVIOUS
  <2>2. <<x, k>> \in P
    BY <1>4 DEF P
  <2>3. e \in Seq(P) /\ Len(e) = 1 /\ e[1] = <<x, k>> /\ y \in Seq(P) /\ Len(y) \in Nat
    BY <1>2, <1>4, <2>1, <2>2
  <2>4. /\ e \o y \in Seq(P) /\ Len(e \o y) = Len(e) + Len(y)
        /\ \A i \in 1..(Len(e) + Len(y)) : (e \o y)[i] = IF i <= Len(e) THEN e[i] ELSE y[i - Len(e)]
    BY <2>3, ConcatProperties
  <2>5. s[k] = e \o y /\ d[k] = 1 + Len(y)
    BY <1>5, <1>6, <2>1
  <2>6. (e \o y)[1] = <<x, k>>
    BY <2>3, <2>4
  <2>7. ASSUME NEW r \in 1..Len(y) PROVE (e \o y)[1 + r] = y[r]
    <3>1. 1 + r \in 1..(1 + Len(y)) /\ ~(1 + r <= 1) /\ (1 + r) - 1 = r
      BY <2>3
    <3> QED BY <2>3, <2>4, <3>1
  <2>8. d[k] \in Nat
    BY <2>3, <2>5
  <2> QED BY <2>1, <2>3, <2>4, <2>5, <2>6, <2>7, <2>8
<1>8. s \in Seq(Seq(P)) /\ Len(s) = n
  <2>1. s \in [1..n -> Seq(P)]
    <3>1. \A k \in 1..n : s[k] \in Seq(P)
      BY <1>7
    <3> QED BY <1>5, <3>1
  <2> QED BY <1>4, <2>1, FunctionIsSeq
<1>9. w[x] = FlattenSeq(s)
  BY <1>2, <1>1, <1>3, <1>5 DEF WalkFrom
<1>10. \A k \in 1..n : Len(w[t[k]]) \in Nat /\ d[k] = 1 + Len(w[t[k]]) /\ d[k] \in Nat /\ d[k] = Len(s[k])
  BY <1>7
<1>11. PICK g : g = [j \in 0..n |-> BeforeIn(c, x, j + 1) - 1]
  OBVIOUS
<1>12. \A k \in 1..n : g[k - 1] = BeforeIn(c, x, k) - 1 /\ BeforeIn(c, x, k) \in Nat
  <2> TAKE k \in 1..n
  <2>1. k - 1 \in 0..n /\ (k - 1) + 1 = k /\ k \in 1..(n + 1)
    BY <1>4
  <2>2. BeforeIn(c, x, k) \in Nat
    BY <1>1, <1>3, <2>1, BeforeFacts
  <2> QED BY <1>11, <2>1, <2>2
<1>13. Sums(d, n, g)
  <2>1. ASSUME NEW j \in 0..n PROVE g[j] \in Nat
    <3>1. PICK b : b = BeforeIn(c, x, j + 1)
      OBVIOUS
    <3>2. j + 1 \in 1..(n + 1)
      BY <1>4
    <3>3. b \in Nat /\ b > 0
      BY <1>1, <1>3, <3>1, <3>2, BeforeFacts
    <3>4. b - 1 \in Nat
      BY <3>3
    <3> QED BY <1>11, <3>1, <3>4
  <2>2. g[0] = 0
    <3>1. 1 \in 1..(n + 1) /\ 0 \in 0..n
      BY <1>4
    <3>2. BeforeIn(c, x, 1) = 1
      BY <1>1, <1>3, <3>1, BeforeFacts
    <3>3. g[0] = BeforeIn(c, x, 0 + 1) - 1
      BY <1>11, <3>1
    <3> QED BY <3>2, <3>3
  <2>3. ASSUME NEW k \in 1..n PROVE g[k] = g[k - 1] + d[k]
    <3>1. PICK b, e, z : b = BeforeIn(c, x, k) /\ e = BeforeIn(c, x, k + 1) /\ z = SizeIn(c, t[k])
      OBVIOUS
    <3>2. k \in 1..(n + 1) /\ k <= n /\ k \in 0..n
      BY <1>4
    <3>3. b \in Nat /\ e = b + z
      BY <1>1, <1>3, <3>1, <3>2, BeforeFacts
    <3>4. z = d[k] /\ z \in Nat
      <4>1. z = 1 + Len(w[t[k]])
        BY <1>1, <3>1 DEF SizeIn
      <4> QED BY <1>10, <4>1
    <3>5. g[k] = e - 1 /\ g[k - 1] = b - 1
      BY <1>12, <1>11, <3>1, <3>2
    <3>6. e - 1 = (b - 1) + z
      BY <3>3, <3>4
    <3> QED BY <3>4, <3>5, <3>6
  <2>4. g = [j \in 0..n |-> g[j]]
    BY <1>11
  <2> QED BY <2>1, <2>2, <2>3, <2>4 DEF Sums
<1>14. g[n] = Len(w[x]) /\ Len(w[x]) \in Nat /\ DOMAIN w[x] = 1..Len(w[x])
  <2>1. w[x] \in Seq(P)
    BY <1>2
  <2>2. Len(w[x]) \in Nat /\ DOMAIN w[x] = 1..Len(w[x])
    BY <2>1
  <2>3. n + 1 \in 1..(n + 1) /\ n \in 0..n
    BY <1>4
  <2>4. BeforeIn(c, x, n + 1) = 1 + Len(w[x])
    BY <1>1, <1>3, <2>3, BeforeFacts DEF SizeIn
  <2>5. PICK l : l = Len(w[x])
    OBVIOUS
  <2>6. g[n] = (1 + l) - 1 /\ l \in Nat
    BY <1>11, <2>2, <2>3, <2>4, <2>5
  <2>7. g[n] = l
    BY <2>6
  <2> QED BY <2>2, <2>5, <2>7
<1>15. \A k \in 1..n : \A r \in 1..d[k] : /\ g[k - 1] + r \in DOMAIN w[x]
                                          /\ w[x][g[k - 1] + r] = s[k][r]
  <2>1. Sums(d, Len(s), g) /\ \A k \in 1..Len(s) : d[k] = Len(s[k])
    BY <1>8, <1>13, <1>10
  <2>2. \A k \in 1..Len(s) : \A r \in 1..d[k] :
          g[k - 1] + r \in 1..g[Len(s)] /\ FlattenSeq(s)[g[k - 1] + r] = s[k][r]
    <3>1. PICK T : s \in Seq(Seq(T))
      BY <1>8
    <3>2. Pieces(s, d, g)
      BY <2>1, <3>1, FlattenAt
    <3> QED BY <3>2 DEF Pieces
  <2> QED BY <1>8, <1>9, <1>14, <2>2
<1>16. ASSUME NEW k \in 1..n
       PROVE  /\ BeforeIn(c, x, k) \in DOMAIN w[x] /\ w[x][BeforeIn(c, x, k)] = <<x, k>>
              /\ \A r \in 1..Len(w[t[k]]) : /\ BeforeIn(c, x, k) + r \in DOMAIN w[x]
                                            /\ w[x][BeforeIn(c, x, k) + r] = w[t[k]][r]
  <2>1. PICK b, l : b = BeforeIn(c, x, k) /\ l = Len(w[t[k]])
    OBVIOUS
  <2>2. b \in Nat /\ l \in Nat /\ d[k] = 1 + l /\ g[k - 1] = b - 1
    BY <1>10, <1>12, <2>1
  <2>3. 1 \in 1..d[k] /\ g[k - 1] + 1 = b
    BY <2>2
  <2>4. b \in DOMAIN w[x] /\ w[x][b] = <<x, k>>
    BY <1>7, <1>15, <2>3
  <2>5. ASSUME NEW r \in 1..l PROVE b + r \in DOMAIN w[x] /\ w[x][b + r] = w[t[k]][r]
    <3>1. 1 + r \in 1..d[k] /\ g[k - 1] + (1 + r) = b + r
      BY <2>2
    <3>2. b + r \in DOMAIN w[x] /\ w[x][b + r] = s[k][1 + r]
      BY <1>15, <3>1
    <3> QED BY <1>7, <2>1, <3>2
  <2> QED BY <2>1, <2>4, <2>5
<1>17. ASSUME NEW i \in DOMAIN w[x]
       PROVE  \E k \in 1..n : \E r \in 0..Len(w[t[k]]) : i = BeforeIn(c, x, k) + r
  <2>1. \A k \in 1..n : d[k] \in Nat
    BY <1>10
  <2>2. n \in Nat /\ i \in 1..g[n]
    BY <1>4, <1>14
  <2>3. \A h \in 1..g[n] : \E k \in 1..n : \E r \in 1..d[k] : h = g[k - 1] + r
    BY <1>13, <2>1, <2>2, SumsSplit
  <2>4. PICK k \in 1..n : \E r \in 1..d[k] : i = g[k - 1] + r
    BY <2>2, <2>3
  <2>5. PICK r \in 1..d[k] : i = g[k - 1] + r
    BY <2>4
  <2>6. PICK b, l : b = BeforeIn(c, x, k) /\ l = Len(w[t[k]])
    OBVIOUS
  <2>7. b \in Nat /\ l \in Nat /\ d[k] = 1 + l /\ g[k - 1] = b - 1
    BY <1>10, <1>12, <2>6
  <2>8. r - 1 \in 0..l /\ i = b + (r - 1)
    BY <2>5, <2>7
  <2> QED BY <2>6, <2>8
<1> QED BY <1>16, <1>17, <1>1, <1>3

\* The place i of a walk is that of an action, and behind it is the walk of
\* what runs there.
RunsAt(c, place) == Tables[c].act[place[1]].table[place[2]]
Inside(c, x, i) ==
  LET a == Tables[c].act
      w == Walks[c]
      p == w[x][i]
      y == RunsAt(c, p)
  IN  /\ p[1] \in DOMAIN a /\ p[2] \in 1..Len(a[p[1]].table) /\ y \in DOMAIN a
      /\ \A r \in 1..Len(w[y]) : i + r \in DOMAIN w[x] /\ w[x][i + r] = w[y][r]

LEMMA WalkNested ==
  ASSUME NEW c \in DOMAIN Tables
  PROVE  \A x \in DOMAIN Tables[c].act : \A i \in DOMAIN Walks[c][x] : Inside(c, x, i)
<1>1. PICK a, w : a = Tables[c].act /\ w = Walks[c]
  OBVIOUS
<1>2. /\ Ordered(a) /\ \A p \in DOMAIN a : w[p] \in Seq((DOMAIN a) \X Nat)
  BY <1>1, WalksAre
<1>3. \A p \in DOMAIN a : Len(w[p]) \in Nat /\ DOMAIN w[p] = 1..Len(w[p])
  BY <1>2
<1>4. \A p \in DOMAIN a : \A k \in 1..Len(a[p].table) : a[p].table[k] \in DOMAIN a
  BY <1>2, ElementOfSeq DEF Ordered
<1> DEFINE S == {x \in DOMAIN a : ~\A i \in DOMAIN w[x] : Inside(c, x, i)}
<1>5. SUFFICES ASSUME S # {} PROVE FALSE
  BY <1>1
<1>6. PICK x \in S : \A k \in 1..Len(a[x].table) : a[x].table[k] \notin S
  BY <1>2, <1>5 DEF Ordered
<1>7. PICK t : t = a[x].table
  OBVIOUS
<1>8. PICK i \in DOMAIN w[x] : ~Inside(c, x, i)
  BY <1>6
<1>9. /\ \A k \in 1..Len(t) :
           /\ BeforeIn(c, x, k) \in DOMAIN w[x] /\ w[x][BeforeIn(c, x, k)] = <<x, k>>
           /\ \A r \in 1..Len(w[t[k]]) : /\ BeforeIn(c, x, k) + r \in DOMAIN w[x]
                                         /\ w[x][BeforeIn(c, x, k) + r] = w[t[k]][r]
      /\ \A j \in DOMAIN w[x] : \E k \in 1..Len(t) : \E r \in 0..Len(w[t[k]]) :
           j = BeforeIn(c, x, k) + r
  <2>1. x \in DOMAIN Tables[c].act /\ w = Walks[c] /\ t = Tables[c].act[x].table
    BY <1>1, <1>7
  <2>2. \A k \in 1..Len(t) :
          /\ BeforeIn(c, x, k) \in DOMAIN w[x] /\ w[x][BeforeIn(c, x, k)] = <<x, k>>
          /\ \A r \in 1..Len(w[t[k]]) : /\ BeforeIn(c, x, k) + r \in DOMAIN w[x]
                                        /\ w[x][BeforeIn(c, x, k) + r] = w[t[k]][r]
    BY <2>1, WalkAt
  <2>3. \A j \in DOMAIN w[x] : \E k \in 1..Len(t) : \E r \in 0..Len(w[t[k]]) :
          j = BeforeIn(c, x, k) + r
    BY <2>1, WalkAt
  <2> QED BY <2>2, <2>3
<1>10. PICK k \in 1..Len(t) : \E r \in 0..Len(w[t[k]]) : i = BeforeIn(c, x, k) + r
  BY <1>8, <1>9
<1>11. PICK r \in 0..Len(w[t[k]]) : i = BeforeIn(c, x, k) + r
  BY <1>10
<1>12. PICK b, z : b = BeforeIn(c, x, k) /\ z = t[k]
  OBVIOUS
<1>13. /\ z \in DOMAIN a /\ Len(w[z]) \in Nat /\ b \in Nat /\ r \in Nat
       /\ \A j \in DOMAIN w[z] : Inside(c, z, j)
  <2>1. z \in DOMAIN a
    BY <1>4, <1>7, <1>12
  <2>2. x \in DOMAIN a /\ b \in DOMAIN w[x]
    BY <1>9, <1>12
  <2>3. b \in Nat
    BY <1>3, <2>2
  <2>4. z \notin S
    BY <1>6, <1>7, <1>12
  <2>5. Len(w[z]) \in Nat
    BY <1>3, <2>1
  <2>6. r \in Nat
    BY <1>12, <2>5
  <2>7. \A j \in DOMAIN w[z] : Inside(c, z, j)
    BY <2>1, <2>4
  <2> QED BY <2>1, <2>3, <2>5, <2>6, <2>7
<1>14. b \in DOMAIN w[x] /\ w[x][b] = <<x, k>>
       /\ \A q \in 1..Len(w[z]) : b + q \in DOMAIN w[x] /\ w[x][b + q] = w[z][q]
  BY <1>9, <1>12
<1>15. CASE r = 0
  <2>1. i = b
    BY <1>11, <1>12, <1>13, <1>15
  <2>2. w[x][i][1] = x /\ w[x][i][2] = k
    BY <1>14, <2>1
  <2>3. RunsAt(c, w[x][i]) = z
    BY <1>1, <1>7, <1>12, <2>2 DEF RunsAt
  <2>4. x \in DOMAIN a
    OBVIOUS
  <2>5. Inside(c, x, i)
    BY <1>1, <1>7, <1>13, <1>14, <2>1, <2>2, <2>3, <2>4 DEF Inside
  <2> QED BY <1>8, <2>5
<1>16. CASE r # 0
  <2>1. r \in 1..Len(w[z]) /\ r \in DOMAIN w[z] /\ i = b + r
    BY <1>3, <1>11, <1>12, <1>13, <1>16
  <2>2. w[x][i] = w[z][r]
    BY <1>14, <2>1
  <2>3. PICK p, y : p = w[z][r] /\ y = RunsAt(c, p)
    OBVIOUS
  <2>4. /\ p[1] \in DOMAIN a /\ p[2] \in 1..Len(a[p[1]].table) /\ y \in DOMAIN a
        /\ \A q \in 1..Len(w[y]) : r + q \in DOMAIN w[z] /\ w[z][r + q] = w[y][q]
    <3>1. Inside(c, z, r)
      BY <1>13, <2>1
    <3> QED BY <1>1, <2>3, <3>1 DEF Inside
  <2>5. ASSUME NEW q \in 1..Len(w[y])
        PROVE  i + q \in DOMAIN w[x] /\ w[x][i + q] = w[y][q]
    <3>1. r + q \in DOMAIN w[z] /\ w[z][r + q] = w[y][q]
      BY <2>4
    <3>2. r + q \in 1..Len(w[z])
      BY <1>3, <1>13, <3>1
    <3>3. q \in Nat
      BY <1>3, <2>4
    <3>4. b + (r + q) = i + q
      BY <1>13, <2>1, <3>3
    <3>5. b + (r + q) \in DOMAIN w[x] /\ w[x][b + (r + q)] = w[z][r + q]
      BY <1>14, <3>2
    <3> QED BY <3>1, <3>4, <3>5
  <2>6. Inside(c, x, i)
    BY <1>1, <2>2, <2>3, <2>4, <2>5 DEF Inside
  <2> QED BY <1>8, <2>6
<1> QED BY <1>13, <1>15, <1>16

LEMMA BeforeMonotone ==
  ASSUME NEW c \in DOMAIN Tables, NEW x \in DOMAIN Tables[c].act,
         NEW k \in 1..(Len(Tables[c].act[x].table) + 1), NEW j \in 1..(k - 1)
  PROVE  LET t == Tables[c].act[x].table
         IN  BeforeIn(c, x, j) + SizeIn(c, t[j]) <= BeforeIn(c, x, k)
<1>1. PICK t, n : t = Tables[c].act[x].table /\ n = Len(t)
  OBVIOUS
<1>2. n \in Nat /\ \A i \in 1..n : SizeIn(c, t[i]) \in Nat
  <2>1. t \in Seq(DOMAIN Tables[c].act)
    BY <1>1, SizeFacts
  <2>2. \A i \in 1..n : t[i] \in DOMAIN Tables[c].act
    BY <1>1, <2>1, ElementOfSeq
  <2>3. \A i \in 1..n : SizeIn(c, t[i]) \in Nat
    BY <2>2, SizeFacts
  <2> QED BY <1>1, <2>1, <2>3
<1>3. \A i \in 1..n : /\ BeforeIn(c, x, i) \in Nat /\ BeforeIn(c, x, i + 1) \in Nat
                      /\ BeforeIn(c, x, i + 1) = BeforeIn(c, x, i) + SizeIn(c, t[i])
  <2> TAKE i \in 1..n
  <2>1. i \in 1..(n + 1) /\ i + 1 \in 1..(n + 1) /\ i <= n
    BY <1>2
  <2> QED BY <1>1, <2>1, BeforeFacts
<1>4. k \in 1..(n + 1) /\ j \in 1..n /\ j \in Nat /\ j < k
  BY <1>1, <1>2
<1> DEFINE e == BeforeIn(c, x, j) + SizeIn(c, t[j])
           Bad == {i \in (j + 1)..(n + 1) : ~(e <= BeforeIn(c, x, i))}
<1>5. e = BeforeIn(c, x, j + 1) /\ e \in Nat
  BY <1>3, <1>4
<1> HIDE DEF e
<1>6. Bad = {}
  <2>1. SUFFICES ASSUME Bad # {} PROVE FALSE
    OBVIOUS
  <2>2. PICK m \in Bad : \A i \in Bad : m <= i
    <3>1. Bad \in SUBSET Nat
      BY <1>2, <1>4
    <3> HIDE DEF Bad
    <3> QED BY <2>1, <3>1, LeastNat
  <2>3. m \in (j + 1)..(n + 1) /\ ~(e <= BeforeIn(c, x, m))
    BY <2>2
  <2>4. m # j + 1
    BY <1>5, <2>3
  <2>5. m - 1 \in 1..n /\ m - 1 \in (j + 1)..(n + 1) /\ ~(m <= m - 1) /\ (m - 1) + 1 = m
    BY <1>2, <1>4, <2>3, <2>4
  <2>6. m - 1 \notin Bad
    <3> HIDE DEF Bad
    <3> QED BY <2>2, <2>5
  <2>7. e <= BeforeIn(c, x, m - 1)
    BY <2>5, <2>6
  <2>8. PICK u, v, z : u = BeforeIn(c, x, m - 1) /\ v = BeforeIn(c, x, m) /\ z = SizeIn(c, t[m - 1])
    OBVIOUS
  <2>9. u \in Nat /\ z \in Nat /\ v = u + z
    BY <1>2, <1>3, <2>5, <2>8
  <2>10. e <= v
    BY <1>5, <2>7, <2>8, <2>9
  <2> QED BY <2>3, <2>8, <2>10
<1>7. k \in (j + 1)..(n + 1)
  BY <1>2, <1>4
<1> QED BY <1>1, <1>6, <1>7 DEF e

\* What an action runs ends before the next one of its table.
LEMMA WalkWithin ==
  ASSUME NEW c \in DOMAIN Tables, NEW x \in DOMAIN Tables[c].act, NEW i \in DOMAIN Walks[c][x]
  PROVE  LET l == Len(Walks[c][RunsAt(c, Walks[c][x][i])])
         IN  /\ i \in Nat /\ l \in Nat /\ i + l \in Nat
             /\ DOMAIN Walks[c][x] = 1..Len(Walks[c][x]) /\ Len(Walks[c][x]) \in Nat
             /\ i + l \in DOMAIN Walks[c][x]
<1>1. PICK a, w, y : a = Tables[c].act /\ w = Walks[c] /\ y = RunsAt(c, w[x][i])
  OBVIOUS
<1>2. y \in DOMAIN a /\ \A r \in 1..Len(w[y]) : i + r \in DOMAIN w[x]
  <2>1. Inside(c, x, i)
    BY WalkNested
  <2> QED BY <1>1, <2>1 DEF Inside
<1>3. \A p \in DOMAIN a : Len(w[p]) \in Nat /\ DOMAIN w[p] = 1..Len(w[p])
  <2>1. \A p \in DOMAIN a : w[p] \in Seq((DOMAIN a) \X Nat)
    BY <1>1, WalksAre
  <2> QED BY <2>1
<1>4. PICK l : l = Len(w[y])
  OBVIOUS
<1>5. l \in Nat /\ i \in Nat /\ i \in DOMAIN w[x] /\ Len(w[x]) \in Nat /\ DOMAIN w[x] = 1..Len(w[x])
  BY <1>1, <1>2, <1>3, <1>4
<1>6. i + l \in DOMAIN w[x]
  <2>1. CASE l = 0
    BY <1>5, <2>1
  <2>2. CASE l # 0
    <3>1. l \in 1..l
      BY <1>5, <2>2
    <3> QED BY <1>2, <1>4, <3>1
  <2> QED BY <2>1, <2>2
<1>7. i + l \in Nat
  BY <1>5
<1> QED BY <1>1, <1>4, <1>5, <1>6, <1>7

LEMMA WalkSpans ==
  ASSUME NEW c \in DOMAIN Tables, NEW x \in DOMAIN Tables[c].act,
         NEW k \in 1..Len(Tables[c].act[x].table),
         NEW i \in DOMAIN Walks[c][x], i < BeforeIn(c, x, k)
  PROVE  i + Len(Walks[c][RunsAt(c, Walks[c][x][i])]) < BeforeIn(c, x, k)
<1>1. PICK a, w, t : a = Tables[c].act /\ w = Walks[c] /\ t = a[x].table
  OBVIOUS
<1>2. PICK j \in 1..Len(t) : \E r \in 0..Len(w[t[j]]) : i = BeforeIn(c, x, j) + r
  BY <1>1, WalkAt
<1>3. PICK r \in 0..Len(w[t[j]]) : i = BeforeIn(c, x, j) + r
  BY <1>2
<1>4. PICK b, e, z : b = BeforeIn(c, x, j) /\ e = BeforeIn(c, x, k) /\ z = t[j]
  OBVIOUS
<1>5. t \in Seq(DOMAIN a) /\ Len(t) \in Nat /\ z \in DOMAIN a /\ j \in Nat /\ k \in Nat
  <2>1. t \in Seq(DOMAIN a)
    BY <1>1, SizeFacts
  <2> QED BY <1>1, <1>4, <2>1, ElementOfSeq
<1>6. b \in Nat /\ e \in Nat
  <2>1. j \in 1..(Len(t) + 1) /\ k \in 1..(Len(t) + 1)
    BY <1>1, <1>5
  <2> QED BY <1>1, <1>4, <2>1, BeforeFacts
<1>7. PICK l : l = Len(w[z])
  OBVIOUS
<1>8. l \in Nat /\ DOMAIN w[z] = 1..l
  <2>1. w[z] \in Seq((DOMAIN a) \X Nat)
    BY <1>1, <1>5, WalksAre
  <2> QED BY <1>7, <2>1
<1>9. r \in 0..l /\ i = b + r /\ i < e
  BY <1>1, <1>3, <1>4, <1>7
<1>10. j < k
  <2> SUFFICES ASSUME ~(j < k) PROVE FALSE
    OBVIOUS
  <2>1. j # k
    BY <1>4, <1>6, <1>8, <1>9
  <2>2. j \in 1..(Len(t) + 1) /\ k \in 1..(j - 1)
    BY <1>1, <1>5, <2>1
  <2>3. BeforeIn(c, x, k) + SizeIn(c, t[k]) <= BeforeIn(c, x, j)
    BY <1>1, <2>2, BeforeMonotone
  <2>4. PICK u : u = SizeIn(c, t[k])
    OBVIOUS
  <2>5. u \in Nat
    <3>1. t[k] \in DOMAIN a
      BY <1>1, <1>5, ElementOfSeq
    <3> QED BY <1>1, <2>4, <3>1, SizeFacts
  <2>6. e + u <= b
    BY <1>4, <2>3, <2>4
  <2> QED BY <1>6, <1>8, <1>9, <2>5, <2>6
<1>11. b + (1 + l) <= e
  <2>1. k \in 1..(Len(t) + 1) /\ j \in 1..(k - 1)
    BY <1>1, <1>5, <1>10
  <2>2. BeforeIn(c, x, j) + SizeIn(c, t[j]) <= BeforeIn(c, x, k)
    BY <1>1, <2>1, BeforeMonotone
  <2>3. SizeIn(c, t[j]) = 1 + l
    BY <1>1, <1>4, <1>7 DEF SizeIn
  <2> QED BY <1>4, <2>2, <2>3
<1>12. /\ w[x][b] = <<x, j>>
       /\ \A q \in 1..l : w[x][b + q] = w[z][q]
  BY <1>1, <1>4, <1>7, WalkAt
<1>13. CASE r = 0
  <2>1. i = b
    BY <1>6, <1>9, <1>13
  <2>2. RunsAt(c, w[x][i]) = z
    BY <1>1, <1>4, <1>12, <2>1 DEF RunsAt
  <2>3. b + l < e
    BY <1>6, <1>8, <1>11
  <2> QED BY <1>1, <1>4, <1>7, <2>1, <2>2, <2>3
<1>14. CASE r # 0
  <2>1. r \in 1..l /\ w[x][i] = w[z][r]
    <3>1. r \in 1..l
      BY <1>8, <1>9, <1>14
    <3> QED BY <1>9, <1>12, <3>1
  <2>2. PICK m : m = Len(w[RunsAt(c, w[z][r])])
    OBVIOUS
  <2>3. m \in Nat /\ r + m \in 1..l
    <3>1. r \in DOMAIN Walks[c][z] /\ z \in DOMAIN Tables[c].act
      BY <1>1, <1>5, <1>8, <2>1
    <3> QED BY <1>1, <1>8, <2>2, <3>1, WalkWithin
  <2>4. i + m < e
    BY <1>6, <1>8, <1>9, <1>11, <2>1, <2>3
  <2> QED BY <1>1, <1>4, <2>1, <2>2, <2>4
<1> QED BY <1>13, <1>14

\* Calls in progress, the m-th one at the place q[m] of the walk of the
\* outermost phase: what runs at that place lies within what runs at those of
\* the calls around it, and at no other place.
IsPath(c, R, s, n, q) ==
  /\ q[0] = 0 /\ n \in Nat
  /\ \A m \in 1..n :
       /\ s[m].phase \in DOMAIN Tables[c].act
       /\ s[m].next \in 1..Len(Tables[c].act[s[m].phase].table)
       /\ s[m].phase = IF m = 1 THEN R ELSE RunsAt(c, <<s[m - 1].phase, s[m - 1].next>>)
       /\ q[m] = q[m - 1] + BeforeIn(c, s[m].phase, s[m].next)
End(c, R, i) == i + Len(Walks[c][RunsAt(c, Walks[c][R][i])])
OnWay(c, R, s, q, m) ==
  /\ q[m] \in Nat
  /\ \A j \in 1..m : /\ q[j] \in DOMAIN Walks[c][R]
                     /\ Walks[c][R][q[j]] = <<s[j].phase, s[j].next>>
                     /\ q[j] <= q[m] /\ End(c, R, q[m]) <= End(c, R, q[j])
  /\ \A i \in DOMAIN Walks[c][R] :
       i <= q[m] /\ q[m] <= End(c, R, i) => \E j \in 1..m : i = q[j]

LEMMA PathStep ==
  ASSUME NEW c \in DOMAIN Tables, NEW R \in DOMAIN Tables[c].act, NEW s, NEW n, NEW q,
         IsPath(c, R, s, n, q), NEW m \in 1..n, OnWay(c, R, s, q, m - 1)
  PROVE  OnWay(c, R, s, q, m)
<1>1. PICK a, w, x, k, p, b : /\ a = Tables[c].act /\ w = Walks[c] /\ x = s[m].phase /\ k = s[m].next
                              /\ p = q[m - 1] /\ b = BeforeIn(c, x, k)
  OBVIOUS
<1>2. PICK W, V : W = w[R] /\ V = w[x]
  OBVIOUS
<1>3. /\ s[m].phase \in DOMAIN Tables[c].act
      /\ s[m].next \in 1..Len(Tables[c].act[s[m].phase].table)
      /\ s[m].phase = IF m = 1 THEN R ELSE RunsAt(c, <<s[m - 1].phase, s[m - 1].next>>)
      /\ q[m] = q[m - 1] + BeforeIn(c, s[m].phase, s[m].next)
  BY DEF IsPath
<1>4. q[0] = 0 /\ n \in Nat
  BY DEF IsPath
<1>5. q[m - 1] \in Nat
  BY DEF OnWay
<1>6. x \in DOMAIN a /\ k \in 1..Len(a[x].table) /\ q[m] = p + b /\ p \in Nat /\ m \in Nat /\ n \in Nat
  <2>1. m \in Nat
    BY <1>4
  <2> QED BY <1>1, <1>3, <1>4, <1>5, <2>1
<1>7. b \in DOMAIN V /\ V[b] = <<x, k>> /\ b \in Nat
  <2>1. b \in DOMAIN V /\ V[b] = <<x, k>>
    BY <1>1, <1>2, <1>6, WalkAt
  <2> QED BY <1>1, <1>2, <1>6, <2>1, WalkWithin
<1>8. DOMAIN V = 1..Len(V) /\ Len(V) \in Nat
  BY <1>1, <1>2, <1>6, <1>7, WalkWithin
<1>9. /\ \A r \in DOMAIN V : p + r \in DOMAIN W /\ W[p + r] = V[r]
      /\ m # 1 => p \in DOMAIN W /\ End(c, R, p) = p + Len(V)
  <2>1. CASE m = 1
    <3>1. p = 0 /\ x = R
      <4>1. m - 1 = 0
        BY <2>1
      <4> QED BY <1>1, <1>3, <1>4, <2>1, <4>1
    <3>2. \A r \in DOMAIN V : p + r = r
      BY <1>8, <3>1
    <3> QED BY <1>2, <2>1, <3>1, <3>2
  <2>2. CASE m # 1
    <3>1. m - 1 \in 1..(m - 1)
      BY <1>6, <2>2
    <3>2. p \in DOMAIN W /\ W[p] = <<s[m - 1].phase, s[m - 1].next>>
      BY <1>1, <1>2, <3>1 DEF OnWay
    <3>3. x = RunsAt(c, W[p])
      BY <1>1, <1>3, <2>2, <3>2
    <3>4. \A r \in 1..Len(V) : p + r \in DOMAIN W /\ W[p + r] = V[r]
      <4>1. Inside(c, R, p)
        BY <1>1, <1>2, <3>2, WalkNested
      <4> QED BY <1>1, <1>2, <3>3, <4>1 DEF Inside
    <3>5. End(c, R, p) = p + Len(V)
      BY <1>1, <1>2, <3>3 DEF End
    <3> QED BY <1>8, <3>2, <3>4, <3>5
  <2> QED BY <2>1, <2>2
<1>10. q[m] \in DOMAIN W /\ W[q[m]] = <<x, k>> /\ q[m] \in Nat
  <2>1. p + b \in DOMAIN W /\ W[p + b] = V[b]
    BY <1>7, <1>9
  <2>2. p + b \in Nat
    BY <1>6, <1>7
  <2> QED BY <1>6, <1>7, <2>1, <2>2
<1>11. PICK l : l = Len(w[RunsAt(c, <<x, k>>)])
  OBVIOUS
<1>12. l \in Nat /\ b + l <= Len(V) /\ End(c, R, q[m]) = q[m] + l
  <2>1. l \in Nat /\ b + l \in DOMAIN V
    BY <1>1, <1>2, <1>6, <1>7, <1>11, WalkWithin
  <2>2. End(c, R, q[m]) = q[m] + l
    BY <1>1, <1>2, <1>10, <1>11 DEF End
  <2> QED BY <1>8, <2>1, <2>2
<1>13. \A i \in DOMAIN W : i \in Nat /\ i > 0 /\ End(c, R, i) \in Nat
  <2> TAKE i \in DOMAIN W
  <2>1. /\ i \in Nat /\ i + Len(w[RunsAt(c, W[i])]) \in Nat
        /\ DOMAIN W = 1..Len(W) /\ Len(W) \in Nat
    BY <1>1, <1>2, WalkWithin
  <2>2. i > 0
    BY <2>1
  <2> QED BY <1>1, <1>2, <2>1, <2>2 DEF End
<1>14. ASSUME NEW j \in 1..m
       PROVE  /\ q[j] \in DOMAIN W /\ W[q[j]] = <<s[j].phase, s[j].next>>
              /\ q[j] <= q[m] /\ End(c, R, q[m]) <= End(c, R, q[j])
  <2>1. CASE j = m
    <3>1. End(c, R, q[m]) \in Nat
      BY <1>10, <1>13
    <3> QED BY <1>1, <1>10, <2>1, <3>1
  <2>2. CASE j # m
    <3>1. j \in 1..(m - 1) /\ m # 1
      BY <1>6, <2>2
    <3>2. PICK d, e : d = q[j] /\ e = End(c, R, q[j])
      OBVIOUS
    <3>3. d \in DOMAIN W /\ W[d] = <<s[j].phase, s[j].next>> /\ d <= p /\ End(c, R, p) <= e
      BY <1>1, <1>2, <3>1, <3>2 DEF OnWay
    <3>4. d \in Nat /\ e \in Nat
      BY <1>13, <3>2, <3>3
    <3>5. End(c, R, p) = p + Len(V)
      BY <1>9, <3>1
    <3>6. d <= p + b /\ (p + b) + l <= e
      BY <1>6, <1>7, <1>8, <1>12, <3>3, <3>4, <3>5
    <3> QED BY <1>6, <1>12, <3>2, <3>3, <3>6
  <2> QED BY <2>1, <2>2
<1>15. ASSUME NEW i \in DOMAIN W, i <= q[m], q[m] <= End(c, R, i)
       PROVE  \E j \in 1..m : i = q[j]
  <2>1. i \in Nat /\ i > 0 /\ i <= p + b /\ p + b <= End(c, R, i) /\ End(c, R, i) \in Nat
    BY <1>6, <1>13, <1>15
  <2>2. CASE i <= p
    <3>1. p <= End(c, R, i)
      BY <1>6, <1>7, <2>1
    <3>2. PICK j \in 1..(m - 1) : i = q[j]
      BY <1>1, <1>2, <2>2, <3>1 DEF OnWay
    <3>3. j \in 1..m
      BY <1>6, <3>2
    <3> QED BY <3>2, <3>3
  <2>3. CASE i = p + b
    <3>1. m \in 1..m
      BY <1>6
    <3> QED BY <1>6, <2>3, <3>1
  <2>4. CASE ~(i <= p) /\ i # p + b
    <3>1. PICK r : r = i - p
      OBVIOUS
    <3>2. r \in 1..Len(V) /\ r < b /\ i = p + r
      BY <1>6, <1>7, <1>8, <2>1, <2>4, <3>1
    <3>3. r \in DOMAIN V /\ W[i] = V[r]
      BY <1>8, <1>9, <3>2
    <3>4. PICK y : y = Len(w[RunsAt(c, V[r])])
      OBVIOUS
    <3>5. r + y < b
      BY <1>1, <1>2, <1>6, <3>2, <3>3, <3>4, WalkSpans
    <3>6. End(c, R, i) = i + y
      BY <1>1, <1>2, <3>3, <3>4 DEF End
    <3>7. y \in Nat
      BY <1>1, <1>2, <1>6, <3>3, <3>4, WalkWithin
    <3> QED BY <1>6, <1>7, <2>1, <3>2, <3>5, <3>6, <3>7
  <2> QED BY <2>2, <2>3, <2>4
<1> QED BY <1>1, <1>2, <1>10, <1>14, <1>15 DEF OnWay

LEMMA PathPlaces ==
  ASSUME NEW c \in DOMAIN Tables, NEW R \in DOMAIN Tables[c].act, NEW s, NEW n, NEW q,
         IsPath(c, R, s, n, q)
  PROVE  OnWay(c, R, s, q, n)
<1> DEFINE Bad == {m \in 0..n : ~OnWay(c, R, s, q, m)}
<1>1. n \in Nat /\ q[0] = 0
  BY DEF IsPath
<1>2. Bad = {}
  <2>1. SUFFICES ASSUME Bad # {} PROVE FALSE
    OBVIOUS
  <2>2. PICK m \in Bad : \A k \in Bad : m <= k
    <3>1. Bad \in SUBSET Nat
      BY <1>1
    <3> HIDE DEF Bad
    <3> QED BY <2>1, <3>1, LeastNat
  <2>3. m \in 0..n /\ ~OnWay(c, R, s, q, m)
    BY <2>2
  <2>4. CASE m = 0
    <3>1. \A i \in DOMAIN Walks[c][R] : ~(i <= 0)
      <4> TAKE i \in DOMAIN Walks[c][R]
      <4>1. i \in 1..Len(Walks[c][R]) /\ Len(Walks[c][R]) \in Nat
        BY WalkWithin
      <4> QED BY <4>1
    <3>2. OnWay(c, R, s, q, 0)
      BY <1>1, <3>1 DEF OnWay
    <3> QED BY <2>3, <2>4, <3>2
  <2>5. CASE m # 0
    <3>1. m \in 1..n /\ m - 1 \in 0..n /\ ~(m <= m - 1)
      BY <1>1, <2>3, <2>5
    <3>2. m - 1 \notin Bad
      <4> HIDE DEF Bad
      <4> QED BY <2>2, <3>1
    <3>3. OnWay(c, R, s, q, m - 1)
      BY <3>1, <3>2
    <3> QED BY <2>3, <3>1, <3>3, PathStep
  <2> QED BY <2>4, <2>5
<1> QED BY <1>1, <1>2

\* The outermost call is that of the root phase.
Rooted == Len(stack) > 0 => stack[1].phase = root

LEMMA RootedKept ==
  ASSUME Typed, Rooted, [Next]_vars
  PROVE  Rooted'
<1>1. root' = root
  BY DEF Next, vars, input, CheckFails, RunAction, SkipPhase, EnterPhase, RepeatCycle,
         AbortPhase, LeavePhase, root
<1>2. Len(stack) \in Nat
  BY DEF Typed
<1>3. CASE stack' = stack
  BY <1>1, <1>3 DEF Rooted
<1>4. CASE stack' # stack /\ ((\E eff \in SUBSET Effects : RunAction(eff)) \/ SkipPhase)
  <2>1. Len(stack') = Len(stack) /\ \A i \in 1..Len(stack) : SameCall(stack[i], stack'[i])
    BY <1>4, RunFrames, SkipFrames
  <2>2. Len(stack) > 0 => 1 \in 1..Len(stack)
    BY <1>2
  <2> QED BY <1>1, <2>1, <2>2 DEF Rooted, SameCall
<1>5. CASE RepeatCycle
  <2>1. /\ Len(stack) \in Nat \ {0} /\ Len(stack') = Len(stack)
        /\ \A i \in 1..(Len(stack) - 1) : stack'[i] = stack[i]
        /\ SameCall(stack[Len(stack)], stack'[Len(stack)])
    BY <1>5, RepeatFrames
  <2>2. Len(stack) = 1 \/ 1 \in 1..(Len(stack) - 1)
    BY <2>1
  <2>3. stack'[1].phase = stack[1].phase
    BY <2>1, <2>2 DEF SameCall
  <2> QED BY <1>1, <2>1, <2>3 DEF Rooted
<1>6. CASE EnterPhase
  <2>1. /\ Len(stack') = Len(stack) + 1 /\ \A i \in 1..Len(stack) : stack'[i] = stack[i]
        /\ stack'[Len(stack) + 1].phase = Current
    BY <1>6, EnterFrames
  <2>2. CASE Len(stack) = 0
    <3>1. stack = << >>
      BY <2>2 DEF Typed
    <3> QED BY <1>1, <2>1, <2>2, <3>1 DEF Rooted, Current
  <2>3. CASE Len(stack) # 0
    <3>1. Len(stack) > 0 /\ 1 \in 1..Len(stack)
      BY <1>2, <2>3
    <3> QED BY <1>1, <2>1, <3>1 DEF Rooted
  <2> QED BY <2>2, <2>3
<1>7. CASE LeavePhase
  <2>1. /\ Len(stack) \in Nat \ {0} /\ Len(stack') = Len(stack) - 1
        /\ \A i \in 1..(Len(stack) - 1) : SameCall(stack[i], stack'[i])
    BY <1>7, LeaveFrames
  <2>2. Len(stack') > 0 => 1 \in 1..(Len(stack) - 1) /\ Len(stack) > 0
    BY <2>1
  <2> QED BY <1>1, <2>1, <2>2 DEF Rooted, SameCall
<1>8. CASE CheckFails \/ AbortPhase \/ UNCHANGED vars
  BY <1>3, <1>8 DEF CheckFails, AbortPhase, vars
<1> QED BY <1>3, <1>4, <1>5, <1>6, <1>7, <1>8 DEF Next

\* The walk of a phase, and what lies behind a place of it.
LEMMA WalkFacts ==
  ASSUME compiler \in DOMAIN Tables
  PROVE  /\ root \in DOMAIN act
         /\ \A p \in DOMAIN act :
              /\ Len(Walk(p)) \in Nat /\ DOMAIN Walk(p) = 1..Len(Walk(p))
              /\ Walk(p) \in [1..Len(Walk(p)) -> {Walk(p)[i] : i \in DOMAIN Walk(p)}]
         /\ \A i \in DOMAIN Walk(root) :
              LET y == RefersTo(Walk(root)[i])
              IN  /\ y \in DOMAIN act
                  /\ \A r \in DOMAIN Walk(y) : Walk(y)[r] \in Places
<1>1. PICK a, w, R : a = act /\ w = Walks[compiler] /\ R = root
  OBVIOUS
<1>2. a = Tables[compiler].act /\ \A p : Walk(p) = w[p]
  BY <1>1 DEF act, Walk
<1>3. R \in DOMAIN a
  BY <1>1, <1>2, TablesAssumption DEF IsCompiler, root
<1>4. \A p \in DOMAIN a : w[p] \in Seq((DOMAIN a) \X Nat)
  BY <1>1, <1>2, WalksAre
<1>5. ASSUME NEW p \in DOMAIN a
      PROVE  /\ Len(w[p]) \in Nat /\ DOMAIN w[p] = 1..Len(w[p])
             /\ w[p] \in [1..Len(w[p]) -> {w[p][i] : i \in DOMAIN w[p]}]
  <2>1. w[p] \in Seq((DOMAIN a) \X Nat)
    BY <1>4
  <2>2. Len(w[p]) \in Nat /\ w[p] \in [1..Len(w[p]) -> (DOMAIN a) \X Nat]
    BY <2>1
  <2> QED BY <2>2
<1>6. ASSUME NEW i \in DOMAIN w[R]
      PROVE  LET y == RefersTo(w[R][i])
             IN  /\ y \in DOMAIN a
                 /\ \A r \in DOMAIN w[y] : w[y][r] \in Places
  <2>1. PICK y : y = RefersTo(w[R][i])
    OBVIOUS
  <2>2. y = RunsAt(compiler, w[R][i])
    BY <2>1 DEF RefersTo, RunsAt, act
  <2>3. y \in DOMAIN a /\ \A r \in 1..Len(w[y]) : i + r \in DOMAIN w[R] /\ w[R][i + r] = w[y][r]
    <3>1. Inside(compiler, R, i)
      BY <1>1, <1>2, <1>3, WalkNested
    <3> QED BY <1>1, <1>2, <2>2, <3>1 DEF Inside
  <2>4. \A r \in DOMAIN w[y] : w[y][r] \in Places
    BY <1>1, <1>2, <1>5, <2>3 DEF Places
  <2> QED BY <2>1, <2>3, <2>4
<1>7. ASSUME NEW p \in DOMAIN act
      PROVE  /\ Len(Walk(p)) \in Nat /\ DOMAIN Walk(p) = 1..Len(Walk(p))
             /\ Walk(p) \in [1..Len(Walk(p)) -> {Walk(p)[i] : i \in DOMAIN Walk(p)}]
  <2>1. PICK v : v = w[p]
    OBVIOUS
  <2>2. Walk(p) = v
    BY <1>2, <2>1
  <2>3. /\ Len(v) \in Nat /\ DOMAIN v = 1..Len(v)
        /\ v \in [1..Len(v) -> {v[i] : i \in DOMAIN v}]
    BY <1>1, <1>5, <2>1
  <2> QED BY <2>2, <2>3
<1>8. ASSUME NEW i \in DOMAIN Walk(root)
      PROVE  LET y == RefersTo(Walk(root)[i])
             IN  /\ y \in DOMAIN act
                 /\ \A r \in DOMAIN Walk(y) : Walk(y)[r] \in Places
  BY <1>1, <1>2, <1>6
<1> QED BY <1>1, <1>3, <1>7, <1>8

\* The first place of a name is one of the walk it is looked for in.
LEMMA FirstFound ==
  ASSUME compiler \in DOMAIN Tables, NEW p \in DOMAIN act, NEW x
  PROVE  FirstIn(p, x) = None \/ \E i \in DOMAIN Walk(p) : FirstIn(p, x) = Walk(p)[i]
<1>1. PICK w : w = Walk(p)
  OBVIOUS
<1> DEFINE at == {i \in DOMAIN w : RefersTo(w[i]) = x}
<1>2. CASE at = {}
  BY <1>1, <1>2 DEF FirstIn
<1>3. CASE at # {}
  <2>1. at \in SUBSET Nat
    BY <1>1, WalkFacts
  <2>2. FirstIn(p, x) = w[CHOOSE i \in at : \A j \in at : i <= j]
    BY <1>1, <1>3 DEF FirstIn
  <2>3. (CHOOSE i \in at : \A j \in at : i <= j) \in at
    <3> HIDE DEF at
    <3>1. \E i \in at : \A j \in at : i <= j
      BY <1>3, <2>1, LeastNat
    <3> QED BY <3>1
  <2> QED BY <1>1, <2>2, <2>3
<1> QED BY <1>2, <1>3

\* Looking up the ids of a target one after the other.
Within(place, x) ==
  IF place # None /\ act[RefersTo(place)].kind = "phase" THEN FirstIn(RefersTo(place), x) ELSE None
Lookups(t, n, g) ==
  \A i \in 1..n : g[i] = IF i = 1 THEN FirstIn(root, t[1]) ELSE Within(g[i - 1], t[i])

LEMMA LookupsExist ==
  ASSUME NEW t, NEW n \in Nat
  PROVE  \E g : g = [i \in 1..n |-> g[i]] /\ Lookups(t, n, g)
<1> DEFINE Has(m) == \E g : g = [i \in 1..m |-> g[i]] /\ Lookups(t, m, g)
           Bad == {m \in 0..n : ~Has(m)}
<1>1. SUFFICES ASSUME Bad # {} PROVE FALSE
  OBVIOUS
<1>2. PICK m \in Bad : \A k \in Bad : m <= k
  <2>1. Bad \in SUBSET Nat
    OBVIOUS
  <2> HIDE DEF Bad
  <2> QED BY <1>1, <2>1, LeastNat
<1>3. m \in 0..n /\ ~Has(m)
  BY <1>2
<1>4. m # 0
  <2>1. PICK g : g = [i \in 1..0 |-> << >>]
    OBVIOUS
  <2>2. g = [i \in 1..0 |-> g[i]] /\ Lookups(t, 0, g)
    BY <2>1 DEF Lookups
  <2> QED BY <1>3, <2>2
<1>5. m - 1 \in 0..n /\ ~(m <= m - 1) /\ m \in Nat
  BY <1>3, <1>4
<1>6. Has(m - 1)
  <2>1. m - 1 \notin Bad
    <3> HIDE DEF Bad
    <3> QED BY <1>2, <1>5
  <2> QED BY <1>5, <2>1
<1>7. PICK h : h = [i \in 1..(m - 1) |-> h[i]] /\ Lookups(t, m - 1, h)
  BY <1>6
<1>8. PICK last : last = IF m = 1 THEN FirstIn(root, t[1]) ELSE Within(h[m - 1], t[m])
  OBVIOUS
<1>9. PICK g : g = [i \in 1..m |-> IF i = m THEN last ELSE h[i]]
  OBVIOUS
<1>10. ASSUME NEW i \in 1..m
       PROVE  g[i] = IF i = 1 THEN FirstIn(root, t[1]) ELSE Within(g[i - 1], t[i])
  <2>1. i # 1 => i - 1 \in 1..m /\ i - 1 # m
    BY <1>5
  <2>2. i # 1 => g[i - 1] = h[i - 1]
    BY <1>9, <2>1
  <2>3. CASE i = m
    BY <1>8, <1>9, <2>2, <2>3
  <2>4. CASE i # m
    <3>1. i \in 1..(m - 1)
      BY <1>5, <2>4
    <3>2. g[i] = h[i]
      BY <1>9, <2>4
    <3>3. h[i] = IF i = 1 THEN FirstIn(root, t[1]) ELSE Within(h[i - 1], t[i])
      BY <1>7, <3>1 DEF Lookups
    <3> QED BY <2>2, <3>2, <3>3
  <2> QED BY <2>3, <2>4
<1>11. Lookups(t, m, g)
  BY <1>10 DEF Lookups
<1>12. g = [i \in 1..m |-> g[i]]
  BY <1>9
<1> QED BY <1>3, <1>11, <1>12

LEMMA ResolvedIsPlace ==
  ASSUME compiler \in DOMAIN Tables, NEW t \in Targets
  PROVE  Resolved(t) \in Places \cup {None}
<1> DEFINE n == Len(t)
           Eq(g) == g = [i \in 1..n |-> IF i = 1 THEN FirstIn(root, t[1]) ELSE Within(g[i - 1], t[i])]
           u == CHOOSE g : Eq(g)
<1>1. n \in Nat /\ n \in 1..n
  <2>1. PICK T : t # << >> /\ t \in Seq(T)
    BY TargetsAssumption
  <2> QED BY <2>1
<1>2. PICK h : h = [i \in 1..n |-> h[i]] /\ Lookups(t, n, h)
  BY <1>1, LookupsExist
<1>3. Eq(h)
  BY <1>2 DEF Lookups
<1>4. Eq(u)
  BY <1>3
<1>5. Resolved(t) = u[n]
  BY DEF Resolved, Within
<1> HIDE DEF u, n
<1>6. \A i \in 1..n : u[i] = IF i = 1 THEN FirstIn(root, t[1]) ELSE Within(u[i - 1], t[i])
  BY <1>4
<1> DEFINE Bad == {i \in 1..n : u[i] \notin Places \cup {None}}
<1>7. Bad = {}
  <2>1. SUFFICES ASSUME Bad # {} PROVE FALSE
    OBVIOUS
  <2>2. PICK m \in Bad : \A k \in Bad : m <= k
    <3>1. Bad \in SUBSET Nat
      BY <1>1
    <3> HIDE DEF Bad
    <3> QED BY <2>1, <3>1, LeastNat
  <2>3. m \in 1..n /\ u[m] \notin Places \cup {None}
    BY <2>2
  <2>4. CASE m = 1
    <3>1. u[m] = FirstIn(root, t[1]) /\ root \in DOMAIN act
      BY <1>6, <2>3, <2>4, WalkFacts
    <3>2. u[m] = None \/ \E i \in DOMAIN Walk(root) : u[m] = Walk(root)[i]
      BY <3>1, FirstFound
    <3> QED BY <2>3, <3>2 DEF Places
  <2>5. CASE m # 1
    <3>1. m - 1 \in 1..n /\ ~(m <= m - 1)
      BY <1>1, <2>3, <2>5
    <3>2. m - 1 \notin Bad
      <4> HIDE DEF Bad
      <4> QED BY <2>2, <3>1
    <3>3. PICK p : p = u[m - 1]
      OBVIOUS
    <3>4. p \in Places \cup {None} /\ u[m] = Within(p, t[m])
      BY <1>6, <2>3, <2>5, <3>1, <3>2, <3>3
    <3>5. p # None /\ u[m] = FirstIn(RefersTo(p), t[m])
      BY <2>3, <3>4 DEF Within
    <3>6. PICK i \in DOMAIN Walk(root) : p = Walk(root)[i]
      BY <3>4, <3>5 DEF Places
    <3>7. PICK y : y = RefersTo(p)
      OBVIOUS
    <3>8. y \in DOMAIN act /\ \A r \in DOMAIN Walk(y) : Walk(y)[r] \in Places
      BY <3>6, <3>7, WalkFacts
    <3>9. u[m] = None \/ \E r \in DOMAIN Walk(y) : u[m] = Walk(y)[r]
      BY <3>5, <3>7, <3>8, FirstFound
    <3> QED BY <2>3, <3>8, <3>9
  <2> QED BY <2>4, <2>5
<1> QED BY <1>1, <1>5, <1>7

\* Where every place has its own number, the number of the i-th one is 1 + i.
LEMMA PlacesNumbered ==
  ASSUME compiler \in DOMAIN Tables, RunOnce
  PROVE  \A i \in DOMAIN Walk(root) : ActionIdOf(Walk(root)[i]) = 1 + i
<1>1. PICK w : w = Walk(root)
  OBVIOUS
<1>2. PICK n : n = Len(w)
  OBVIOUS
<1>3. n \in Nat /\ DOMAIN w = 1..n /\ Places = {w[i] : i \in DOMAIN w} /\ w \in [1..n -> Places]
  BY <1>1, <1>2, WalkFacts DEF Places
<1>4. w \in Surjection(1..n, Places)
  BY <1>3 DEF Surjection
<1>5. IsFiniteSet(1..n) /\ Cardinality(1..n) = n
  <2>1. 1 \in Int /\ n \in Int
    BY <1>3
  <2>2. IsFiniteSet(1..n) /\ Cardinality(1..n) = IF 1 > n THEN 0 ELSE n - 1 + 1
    BY <2>1, FS_Interval
  <2>3. (IF 1 > n THEN 0 ELSE n - 1 + 1) = n
    BY <1>3
  <2> QED BY <2>2, <2>3
<1>6. Cardinality(Places) = n
  BY <1>1, <1>2 DEF RunOnce
<1>7. w \in Injection(1..n, Places)
  BY <1>4, <1>5, <1>6, FS_Surjection
<1>8. SUFFICES ASSUME NEW i \in DOMAIN w PROVE ActionIdOf(w[i]) = 1 + i
  BY <1>1
<1> DEFINE at == {j \in DOMAIN w : w[j] = w[i]}
<1>9. at = {i}
  <2>1. \A j \in 1..n : w[j] = w[i] => j = i
    BY <1>3, <1>7 DEF Injection, IsInjective
  <2> QED BY <1>3, <2>1
<1>10. i <= i
  BY <1>3
<1>11. ActionIdOf(w[i]) = 1 + (CHOOSE k \in at : \A j \in at : j <= k)
  BY <1>1 DEF ActionIdOf
<1> HIDE DEF at
<1>12. (CHOOSE k \in at : \A j \in at : j <= k) = i
  BY <1>9, <1>10
<1> QED BY <1>11, <1>12

\* The last action of a phase, if it is no phase, is where its walk ends.
LEMMA LastPlace ==
  ASSUME NEW c \in DOMAIN Tables, NEW x \in DOMAIN Tables[c].act,
         NEW m, m = Len(Tables[c].act[x].table), m > 0,
         Tables[c].act[Tables[c].act[x].table[m]].kind # "phase"
  PROVE  LET l == Len(Walks[c][x])
         IN  /\ l \in 1..l /\ l \in DOMAIN Walks[c][x] /\ Walks[c][x][l] = <<x, m>>
<1>1. PICK t, z, l, b : /\ t = Tables[c].act[x].table /\ z = t[m] /\ l = Len(Walks[c][x])
                        /\ b = BeforeIn(c, x, m)
  OBVIOUS
<1>2. t \in Seq(DOMAIN Tables[c].act) /\ m \in Nat /\ m \in 1..m /\ z \in DOMAIN Tables[c].act
  <2>1. t \in Seq(DOMAIN Tables[c].act)
    BY <1>1, SizeFacts
  <2>2. m \in Nat /\ m \in 1..m
    BY <1>1, <2>1
  <2> QED BY <1>1, <2>1, <2>2, ElementOfSeq
<1>3. b \in DOMAIN Walks[c][x] /\ Walks[c][x][b] = <<x, m>>
  BY <1>1, <1>2, WalkAt
<1>4. b \in Nat /\ b > 0
  <2>1. m \in 1..(m + 1)
    BY <1>2
  <2> QED BY <1>1, <2>1, BeforeFacts
<1>5. SizeIn(c, x) = b + SizeIn(c, z)
  <2>1. m \in 1..(m + 1) /\ m <= m
    BY <1>2
  <2>2. BeforeIn(c, x, m + 1) = b + SizeIn(c, z)
    BY <1>1, <2>1, BeforeFacts
  <2>3. BeforeIn(c, x, m + 1) = SizeIn(c, x)
    BY <1>1, <2>1, BeforeFacts
  <2> QED BY <2>2, <2>3
<1>6. SizeIn(c, z) = 1
  BY <1>1, <1>2, SizeFacts
<1>7. SizeIn(c, x) = 1 + l /\ l \in Nat
  <2>1. l \in Nat
    BY <1>1, <1>3, WalkWithin
  <2> QED BY <1>1, <2>1 DEF SizeIn
<1>8. b = l
  BY <1>4, <1>5, <1>6, <1>7
<1> QED BY <1>1, <1>3, <1>4, <1>8

\* Where the lifetime of an action or a phase begins and ends.
LEMMA RangeOf ==
  ASSUME compiler \in DOMAIN Tables, RunOnce, NEW i \in DOMAIN Walk(root),
         ~EndsWithPhase(Walk(root)[i])
  PROVE  LET e == End(compiler, root, i)
         IN  /\ i \in Nat /\ i > 0 /\ e \in Nat /\ i <= e
             /\ RangeId(Walk(root)[i]) = 1 + i /\ NextId(Walk(root)[i]) = 2 + e
<1>1. PICK c, a, R, w : c = compiler /\ a = act /\ R = root /\ w = Walks[c]
  OBVIOUS
<1>2. a = Tables[c].act /\ R \in DOMAIN a /\ c \in DOMAIN Tables /\ \A p : Walk(p) = w[p]
  BY <1>1, WalkFacts DEF act, Walk
<1>3. PICK p, x : p = w[R][i] /\ x = RunsAt(c, p)
  OBVIOUS
<1>4. i \in DOMAIN w[R] /\ p = Walk(root)[i] /\ RefersTo(p) = x
  BY <1>1, <1>2, <1>3 DEF RefersTo, RunsAt
<1>5. x \in DOMAIN a /\ \A r \in 1..Len(w[x]) : i + r \in DOMAIN w[R] /\ w[R][i + r] = w[x][r]
  <2>1. Inside(c, R, i)
    BY <1>1, <1>2, <1>4, WalkNested
  <2> QED BY <1>1, <1>2, <1>3, <2>1 DEF Inside
<1>6. PICK l : l = Len(w[x])
  OBVIOUS
<1>7. i \in Nat /\ l \in Nat /\ DOMAIN w[R] = 1..Len(w[R])
  BY <1>1, <1>2, <1>3, <1>4, <1>6, WalkWithin
<1>8. i > 0
  <2>1. i \in 1..Len(w[R])
    BY <1>4, <1>7
  <2> QED BY <1>7, <2>1
<1>9. End(c, R, i) = i + l
  BY <1>1, <1>3, <1>6 DEF End
<1>10. \A j \in DOMAIN w[R] : ActionIdOf(w[R][j]) = 1 + j
  BY <1>1, <1>2, PlacesNumbered
<1>11. RangeId(p) = 1 + i /\ ActionIdOf(p) = 1 + i
  BY <1>3, <1>4, <1>10 DEF RangeId
<1>12. CASE a[x].kind # "phase"
  <2>1. NextId(p) = 1 + (1 + i)
    BY <1>1, <1>4, <1>11, <1>12 DEF NextId
  <2>2. SizeIn(c, x) = 1
    <3>1. x \in DOMAIN Tables[c].act /\ Tables[c].act[x].kind # "phase"
      BY <1>2, <1>5, <1>12
    <3> QED BY <1>2, <3>1, SizeFacts
  <2>3. l = 0
    BY <1>1, <1>6, <1>7, <2>2 DEF SizeIn
  <2>4. i + l \in Nat /\ i <= i + l /\ 1 + (1 + i) = 2 + (i + l)
    BY <1>7, <2>3
  <2> QED BY <1>1, <1>4, <1>7, <1>8, <1>9, <1>11, <2>1, <2>4
<1>13. CASE a[x].kind = "phase"
  <2>1. PICK m, z : m = Len(a[x].table) /\ z = a[x].table[m]
    OBVIOUS
  <2>2. a[x].table \in Seq(DOMAIN a) /\ a[x].table # << >>
    BY <1>1, <1>2, <1>5, <1>13, TablesAssumption DEF IsCompiler
  <2>3. m > 0
    BY <2>1, <2>2
  <2>4. a[z].kind # "phase"
    BY <1>1, <1>4, <1>13, <2>1 DEF EndsWithPhase, Last
  <2>5. l \in 1..l /\ w[x][l] = <<x, m>>
    BY <1>1, <1>2, <1>5, <1>6, <2>1, <2>3, <2>4, LastPlace
  <2>6. i + l \in DOMAIN w[R] /\ w[R][i + l] = <<x, m>>
    BY <1>5, <1>6, <2>5
  <2>7. ActionIdOf(<<x, m>>) = 1 + (i + l)
    BY <1>10, <2>6
  <2>8. NextId(p) = 1 + (1 + (i + l))
    BY <1>1, <1>4, <1>13, <2>1, <2>7 DEF NextId
  <2>9. i + l \in Nat /\ i <= i + l /\ 1 + (1 + (i + l)) = 2 + (i + l)
    BY <1>7
  <2> QED BY <1>1, <1>4, <1>7, <1>8, <1>9, <1>11, <2>8, <2>9
<1> QED BY <1>12, <1>13

\* The calls in progress before an action is dispatched.
LEMMA CallsArePath ==
  ASSUME NumberInv, Rooted, Dispatching, stack # << >>,
         NEW q, q = [m \in 0..Len(stack) |-> ShownIn(compiler, stack, m)]
  PROVE  IsPath(compiler, root, stack, Len(stack), q) /\ actionId = q[Len(stack)]
<1>1. PICK c, a, s, n : c = compiler /\ a = act /\ s = stack /\ n = Len(stack)
  OBVIOUS
<1>2. a = Tables[c].act /\ n \in Nat \ {0} /\ Top = s[n]
  <2>1. n \in Nat \ {0}
    BY <1>1, FrontFacts DEF NumberInv, Typed
  <2> QED BY <1>1, <2>1 DEF act, Top
<1>3. q[0] = 0 /\ \A m \in 1..n : q[m] = q[m - 1] + BeforeIn(c, s[m].phase, s[m].next)
  <2>1. /\ ShownIn(c, s, 0) = 0
        /\ \A m \in 1..n : ShownIn(c, s, m) = ShownIn(c, s, m - 1) + BeforeIn(c, s[m].phase, s[m].next)
    BY <1>1, CallsShown
  <2>2. 0 \in 0..n /\ \A m \in 1..n : m \in 0..n /\ m - 1 \in 0..n
    BY <1>2
  <2>3. \A m \in 0..n : q[m] = ShownIn(c, s, m)
    BY <1>1
  <2> QED BY <2>1, <2>2, <2>3
<1>4. \A m \in 1..n : /\ s[m].phase \in DOMAIN a /\ s[m].next \in Nat \ {0}
                      /\ m < n => /\ s[m].next \in DOMAIN a[s[m].phase].table
                                  /\ a[s[m].phase].table[s[m].next] = s[m + 1].phase
  BY <1>1 DEF NumberInv, Nested
<1>5. ASSUME NEW m \in 1..n
      PROVE  s[m].next \in 1..Len(a[s[m].phase].table)
  <2>1. a[s[m].phase].table \in Seq(DOMAIN a)
    BY <1>1, <1>4, SizeFacts DEF NumberInv, Typed, act
  <2>2. CASE m < n
    BY <1>4, <2>1, <2>2
  <2>3. CASE ~(m < n)
    <3>1. m = n
      BY <1>2, <2>3
    <3>2. s[n].next <= Len(a[s[n].phase].table)
      BY <1>1, <1>2 DEF Dispatching
    <3>3. s[n].next \in Nat \ {0} /\ Len(a[s[n].phase].table) \in Nat
      BY <1>4, <2>1, <3>1
    <3> QED BY <3>1, <3>2, <3>3
  <2> QED BY <2>2, <2>3
<1>6. ASSUME NEW m \in 1..n
      PROVE  s[m].phase = IF m = 1 THEN root ELSE RunsAt(c, <<s[m - 1].phase, s[m - 1].next>>)
  <2>1. CASE m = 1
    <3>1. Len(stack) > 0
      BY <1>1, <1>2
    <3> QED BY <1>1, <2>1, <3>1 DEF Rooted
  <2>2. CASE m # 1
    <3>1. m - 1 \in 1..n /\ m - 1 < n /\ (m - 1) + 1 = m
      BY <1>2, <2>2
    <3>2. a[s[m - 1].phase].table[s[m - 1].next] = s[m].phase
      BY <1>4, <3>1
    <3> QED BY <1>2, <2>2, <3>2 DEF RunsAt
  <2> QED BY <2>1, <2>2
<1>7. IsPath(c, root, s, n, q)
  <2>1. \A m \in 1..n : /\ s[m].phase \in DOMAIN Tables[c].act
                        /\ s[m].next \in 1..Len(Tables[c].act[s[m].phase].table)
    BY <1>2, <1>4, <1>5
  <2> QED BY <1>2, <1>3, <1>6, <2>1 DEF IsPath
<1>8. actionId = q[n]
  <2>1. actionId = ShownIn(c, s, n)
    BY <1>1 DEF NumberInv, Numbered, Dispatching
  <2>2. n \in 0..n
    BY <1>2
  <2> QED BY <1>1, <2>1, <2>2
<1> QED BY <1>1, <1>7, <1>8

LEMMA RunMatches ==
  ASSUME NumberInv, Rooted
  PROVE  LifetimesMatchTheRun
<1> SUFFICES ASSUME Dispatching, RunOnce, NEW t \in Targets,
                    Resolved(t) # None, ~EndsWithPhase(Resolved(t))
             PROVE  InLifetime(actionId + 1, Resolved(t), TRUE, Resolved(t), TRUE)
                      <=> Resolved(t) \in OnPath
  BY DEF LifetimesMatchTheRun
<1>1. PICK p : p = Resolved(t)
  OBVIOUS
<1>2. compiler \in DOMAIN Tables /\ \E B : stack \in Seq(Frame(B))
  BY DEF NumberInv, Typed
<1>3. p # None /\ p \in Places
  BY <1>1, <1>2, ResolvedIsPlace
<1>4. PICK i \in DOMAIN Walk(root) : p = Walk(root)[i]
  BY <1>3 DEF Places
<1>5. PICK e : e = End(compiler, root, i)
  OBVIOUS
<1>6. i \in Nat /\ i > 0 /\ e \in Nat /\ i <= e /\ RangeId(p) = 1 + i /\ NextId(p) = 2 + e
  BY <1>1, <1>2, <1>4, <1>5, RangeOf
<1>7. InLifetime(actionId + 1, p, TRUE, p, TRUE) <=> actionId + 1 >= 1 + i /\ actionId + 1 < 2 + e
  BY <1>3, <1>6 DEF InLifetime
<1>8. CASE stack = << >>
  <2>1. actionId = 0
    BY <1>8 DEF Dispatching
  <2>2. ~(actionId + 1 >= 1 + i)
    BY <1>6, <2>1
  <2>3. OnPath = {}
    BY <1>8 DEF OnPath
  <2> QED BY <1>1, <1>7, <2>2, <2>3
<1>9. CASE stack # << >>
  <2>1. PICK c, R, s, n, W : c = compiler /\ R = root /\ s = stack /\ n = Len(stack) /\ W = Walks[c][R]
    OBVIOUS
  <2>2. PICK q : q = [m \in 0..n |-> ShownIn(c, s, m)]
    OBVIOUS
  <2>3. IsPath(c, R, s, n, q) /\ actionId = q[n]
    BY <1>9, <2>1, <2>2, CallsArePath
  <2>4. R \in DOMAIN Tables[c].act /\ c \in DOMAIN Tables /\ W = Walk(root)
    BY <1>2, <2>1, WalkFacts DEF act, Walk
  <2>5. OnWay(c, R, s, q, n)
    BY <2>3, <2>4, PathPlaces
  <2>6. q[n] \in Nat
    BY <2>5 DEF OnWay
  <2>7. OnPath = {<<s[j].phase, s[j].next>> : j \in 1..n}
    <3>1. DOMAIN stack = 1..n
      BY <1>2, <2>1
    <3> QED BY <2>1, <3>1 DEF OnPath
  <2>8. actionId + 1 >= 1 + i /\ actionId + 1 < 2 + e <=> i <= q[n] /\ q[n] <= e
    BY <1>6, <2>3, <2>6
  <2>9. ASSUME i <= q[n], q[n] <= e PROVE p \in OnPath
    <3>1. PICK j \in 1..n : i = q[j]
      BY <1>4, <1>5, <2>1, <2>4, <2>5, <2>9 DEF OnWay
    <3>2. W[q[j]] = <<s[j].phase, s[j].next>>
      BY <2>1, <2>5 DEF OnWay
    <3> QED BY <1>4, <2>4, <2>7, <3>1, <3>2
  <2>10. ASSUME p \in OnPath PROVE i <= q[n] /\ q[n] <= e
    <3>1. PICK j \in 1..n : p = <<s[j].phase, s[j].next>>
      BY <2>7, <2>10
    <3>2. PICK k : k = q[j]
      OBVIOUS
    <3>3. k \in DOMAIN W /\ W[k] = p /\ k <= q[n] /\ End(c, R, q[n]) <= End(c, R, k)
      BY <2>1, <2>5, <3>1, <3>2 DEF OnWay
    <3>4. i \in DOMAIN W /\ W[i] = p
      BY <1>4, <2>4
    <3>5. 1 + i = 1 + k /\ k \in Nat
      <4>1. 1 + i = 1 + k
        BY <1>2, <2>4, <3>3, <3>4, PlacesNumbered
      <4>2. k \in Nat
        BY <2>1, <2>4, <3>3, WalkWithin
      <4> QED BY <4>1, <4>2
    <3>6. i = k
      BY <1>6, <3>5
    <3>7. q[n] <= End(c, R, q[n]) /\ End(c, R, q[n]) \in Nat
      <4>1. n \in 1..n
        <5>1. n \in Nat \ {0}
          BY <1>9, <2>1, FrontFacts DEF NumberInv, Typed
        <5> QED BY <5>1
      <4>2. q[n] \in DOMAIN W
        BY <2>1, <2>5, <4>1 DEF OnWay
      <4>3. PICK l : l = Len(Walks[c][RunsAt(c, W[q[n]])])
        OBVIOUS
      <4>4. l \in Nat
        BY <2>1, <2>4, <4>2, <4>3, WalkWithin
      <4>5. End(c, R, q[n]) = q[n] + l
        BY <2>1, <4>3 DEF End
      <4> QED BY <2>6, <4>4, <4>5
    <3>8. End(c, R, q[n]) <= e
      BY <1>5, <2>1, <3>3, <3>6
    <3>9. q[n] <= e
      BY <1>6, <2>6, <3>7, <3>8
    <3> QED BY <3>3, <3>6, <3>9
  <2> QED BY <1>1, <1>7, <2>8, <2>9, <2>10
<1> QED BY <1>8, <1>9

\* The generated check of a lifetime finds itself inside exactly while what
\* the lifetime names is running, for any tables and any lifetimes.
THEOREM LifetimesHold == Spec => []LifetimesMatchTheRun
<1>1. KeptInv /\ NumberInv /\ Rooted /\ [Next]_vars => KeptInv' /\ NumberInv' /\ Rooted'
  BY NextKept, NestedKept, NumberKept, RootedKept DEF NumberInv, KeptInv
<1>2. Init => KeptInv /\ NumberInv /\ Rooted
  <2>1. Init => Rooted
    BY DEF Init, Rooted
  <2> QED BY <2>1, InitCycle, InitNumbers DEF CycleInv, NumberInv, KeptInv
<1>3. NumberInv /\ Rooted => LifetimesMatchTheRun
  BY RunMatches
<1> QED BY <1>1, <1>2, <1>3, PTL DEF Spec
=============================================================================
