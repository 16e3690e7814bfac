------------------------------- MODULE Strings -------------------------------
(***************************************************************************)
(* The strings of palm (coconut/palm/src/str.c).  A string is a sequence   *)
(* of characters, or NULL; what a function allocates is the text it leaves *)
(* there and the room it asked for, in which the text and its end have to  *)
(* fit.  A program holds two strings, and takes one of them apart with     *)
(* STRtok, whose copy and place in it are static variables.                *)
(***************************************************************************)
EXTENDS Integers, SequencesExt

CONSTANT NULL

VARIABLES first, second,
          keep_string, \* STRtok: the text its copy was made of, and
          current,     \*         what is left of it; NULL if nothing is
          tokens       \* history: what STRtok returned since the copy was made

tokVars == <<keep_string, current, tokens>>
strVars == <<first, second, tokVars>>

Take(s, n) == SubSeq(s, 1, Min({n, Len(s)}))
Drop(s, n) == SubSeq(s, n + 1, Len(s))
Alloc(text, room) == [text |-> text, room |-> room]
tolower(c) == CASE c = "A" -> "a" [] c = "B" -> "b" [] OTHER -> c
toupper(c) == CASE c = "a" -> "A" [] c = "b" -> "B" [] OTHER -> c

STRlen(s) == IF s = NULL THEN 0 ELSE Len(s)
STRnull == Alloc(<<>>, 1)
STRcpy(s) == IF s = NULL THEN NULL ELSE Alloc(s, STRlen(s) + 1)
STRncpy(s, maxlen) ==
  IF s = NULL THEN NULL
  ELSE LET max == Min({STRlen(s), maxlen}) IN Alloc(Take(s, max), max + 1)

STRsubStr(s, start, len) ==
  LET wanted == IF len < 0 THEN STRlen(s) + len ELSE len
      fits == IF start + wanted > STRlen(s) THEN STRlen(s) - start ELSE wanted
  IN  IF start > STRlen(s) THEN STRnull
      ELSE Alloc(Take(Drop(s, start), fits), fits + 1)

STRcat(a, b) ==
  CASE a = NULL -> STRcpy(b)
    [] a # NULL /\ b = NULL -> STRcpy(a)
    [] OTHER -> Alloc(a \o b, STRlen(a) + STRlen(b) + 1)
STRcatn(strings) ==
  LET length == FoldLeft(LAMBDA n, s : n + STRlen(s), 0, strings)
  IN  IF length = 0 THEN NULL
      ELSE Alloc(FoldLeft(LAMBDA x, s : IF s = NULL THEN x ELSE x \o s, <<>>, strings),
                 length + 1)
STRncat(a, b, len) ==
  LET second_len == Min({len, STRlen(b)})
  IN  CASE a = NULL -> STRncpy(b, second_len)
        [] a # NULL /\ b = NULL -> STRncpy(a, STRlen(a))
        [] OTHER -> Alloc(a \o Take(b, second_len), STRlen(a) + second_len + 1)

(* Comparisons.  strncmp looks no further than the end of either string.   *)
BothOrNone(a, b, equal) == IF a = NULL \/ b = NULL THEN a = b ELSE equal
STReq(a, b) == BothOrNone(a, b, a = b)
STReqci(a, b) ==
  BothOrNone(a, b,
    LET Ends(i) == i > Len(a) \/ i > Len(b)
        stop == Min({i \in 1 .. Len(a) + 1 : Ends(i) \/ tolower(a[i]) # tolower(b[i])})
    IN  stop > Len(a) /\ stop > Len(b))
STReqn(a, b, n) ==
  IF a = NULL \/ b = NULL THEN a = b \/ n = 0 ELSE Take(a, n) = Take(b, n)
STRprefix(prefix, s) ==
  \/ prefix = NULL
  \/ s # NULL /\ STRlen(s) >= STRlen(prefix) /\ Take(s, STRlen(prefix)) = prefix
\* Neither is NULL: strcmp is called with what is left of them.
STRsuffix(suffix, s) ==
  STRlen(suffix) <= STRlen(s) /\ Drop(s, STRlen(s) - STRlen(suffix)) = suffix
\* strstr: where sub is found first, 0 for not at all.
strstr(s, sub) ==
  LET at == {i \in 1 .. Len(s) + 1 : STRprefix(sub, Drop(s, i - 1))}
  IN  IF at = {} THEN 0 ELSE Min(at)
STRsub(sub, s) == sub = NULL \/ (s # NULL /\ strstr(s, sub) # 0)
CharInString(c, s) == s # NULL /\ \E i \in DOMAIN s : s[i] = c

(* STRsubstToken counts with strstr and replaces with STRprefix; the token *)
(* has to have a character.  Mutation: what is found may overlap.          *)
RECURSIVE OverlappingOccurrences(_, _), Occurrences(_, _), Substituted(_, _, _)
OverlappingOccurrences(s, token) ==
  LET found == strstr(s, token)
  IN  IF found = 0 THEN 0 ELSE 1 + OverlappingOccurrences(Drop(s, found), token)
Occurrences(s, token) ==
  LET found == strstr(s, token)
  IN  IF found = 0 THEN 0 ELSE 1 + Occurrences(Drop(s, found - 1 + Len(token)), token)
Substituted(s, token, subst) ==
  IF s = <<>> THEN <<>>
  ELSE IF STRprefix(token, s)
       THEN subst \o Substituted(Drop(s, Len(token)), token, subst)
       ELSE <<Head(s)>> \o Substituted(Tail(s), token, subst)
STRsubstToken(s, token, subst) ==
  Alloc(Substituted(s, token, subst),
        Len(s) + Occurrences(s, token) * (Len(subst) - Len(token)) + 1)

STRtoLower(s) == IF s = NULL THEN NULL ELSE [i \in DOMAIN s |-> tolower(s[i])]
STRtoUpper(s) == IF s = NULL THEN NULL ELSE [i \in DOMAIN s |-> toupper(s[i])]
STRlower(s) == IF s = NULL THEN NULL ELSE Alloc(STRtoLower(s), STRlen(s) + 1)
STRupper(s) == IF s = NULL THEN NULL ELSE Alloc(STRtoUpper(s), STRlen(s) + 1)
-----------------------------------------------------------------------------
StrInit == keep_string = NULL /\ current = NULL /\ tokens = <<>>

(* STRtok(string, second).                                                 *)
RestBehind(s, i) == Drop(s, i)
Token(s, sep, before) ==
  LET ends == {i \in DOMAIN s : CharInString(s[i], sep)}
      end == IF ends = {} THEN Len(s) + 1 ELSE Min(ends)
  IN  /\ tokens' = Append(before, Take(s, end - 1))
      /\ current' = IF ends = {} THEN NULL ELSE RestBehind(s, end)
STRtokFirst ==
  /\ first # NULL
  /\ keep_string' = first
  /\ Token(first, second, <<>>)
  /\ UNCHANGED <<first, second>>
STRtokNext ==
  /\ current # NULL
  /\ Token(current, second, tokens)
  /\ UNCHANGED <<first, second, keep_string>>
StrNext == STRtokFirst \/ STRtokNext
-----------------------------------------------------------------------------
(* A string in enough room. *)
Holds(result, text) ==
  IF text = NULL THEN result = NULL
  ELSE result # NULL /\ result.text = text /\ result.room >= Len(text) + 1
Text(s) == IF s = NULL THEN <<>> ELSE s
Part(s, from, to) == [i \in 1 .. Max({to - from + 1, 0}) |-> s[from + i - 1]]
Occurs(s, sub) == {i \in 1 .. Len(s) - Len(sub) + 1 : Part(s, i, i + Len(sub) - 1) = sub}
\* The occurrences that are met from the left, none inside another.
Met(s, token) ==
  CHOOSE at \in SUBSET Occurs(s, token) :
    \A i \in Occurs(s, token) :
      i \in at <=> \A j \in at : ~(j < i /\ i < j + Len(token))
Replaced(s, token, subst) ==
  LET at == Met(s, token)
      inside == UNION {i .. i + Len(token) - 1 : i \in at}
      Piece(i) == IF i \in at THEN subst ELSE IF i \in inside THEN <<>> ELSE <<s[i]>>
  IN  FlattenSeq([i \in DOMAIN s |-> Piece(i)])
SubstitutesFit ==
  first # NULL /\ second # NULL /\ second # <<>> =>
    \A subst \in {<<>>, first, second, second \o second} :
      Holds(STRsubstToken(first, second, subst), Replaced(first, second, subst))
CopiesFit ==
  /\ Holds(STRcpy(first), first)
  /\ Holds(STRcat(first, second),
           IF first = NULL /\ second = NULL THEN NULL ELSE Text(first) \o Text(second))
  /\ Holds(STRcatn(<<first, second, first>>),
           IF Text(first) \o Text(second) = <<>> THEN NULL
           ELSE Text(first) \o Text(second) \o Text(first))
  /\ \A n \in 0 .. 4 :
       /\ Holds(STRncpy(first, n),
                IF first = NULL THEN NULL ELSE Part(first, 1, Min({n, Len(first)})))
       /\ Holds(STRncat(first, second, n),
                IF first = NULL /\ second = NULL THEN NULL
                ELSE Text(first) \o Part(Text(second), 1, Min({n, STRlen(second)})))
  /\ first # NULL =>
       \A start \in 0 .. 4, len \in (-Len(first)) .. 4 :
         Holds(STRsubStr(first, start, len),
               Part(first, start + 1,
                    Min({Len(first), start + (IF len < 0 THEN Len(first) + len ELSE len)})))
ComparisonsAreMeant ==
  LET Same(a, b, f(_)) == Len(a) = Len(b) /\ \A i \in DOMAIN a : f(a[i]) = f(b[i])
  IN  /\ STReqci(first, second) <=>
           \/ first = NULL /\ second = NULL
           \/ first # NULL /\ second # NULL /\ Same(first, second, tolower)
      /\ first # NULL /\ second # NULL =>
           /\ STReqci(first, second) <=> STReq(STRlower(first).text, STRlower(second).text)
           /\ STReqci(first, second) <=> STReq(STRupper(first).text, STRupper(second).text)
           /\ STRprefix(second, first) <=> 1 \in Occurs(first, second)
           /\ STRsuffix(second, first) <=> Len(first) - Len(second) + 1 \in Occurs(first, second)
           /\ STRsub(second, first) <=> Occurs(first, second) # {}
           /\ \A n \in 0 .. 4 : STReqn(first, second, n) <=>
                STReq(STRncpy(first, n).text, STRncpy(second, n).text)

(* STRtok, called until it returns NULL, returns what is between the       *)
(* characters of sep, in their order and none of it twice; a string        *)
(* without separators, and an empty one, is one token.                     *)
Split(s, seps) ==
  LET cuts == <<0>> \o SetToSortSeq({i \in DOMAIN s : s[i] \in seps}, LAMBDA i, j : i < j)
                    \o <<Len(s) + 1>>
  IN  [k \in 1 .. Len(cuts) - 1 |-> Part(s, cuts[k] + 1, cuts[k + 1] - 1)]
TokensRejoin ==
  keep_string # NULL =>
    LET all == Split(keep_string, ToSet(Text(second)))
    IN  /\ IsPrefix(tokens, all)
        /\ current = NULL <=> tokens = all

(* Every function of str.c returns the string it says, in enough room, and *)
(* leaves no piece of it out; what is meant is said above without the      *)
(* loops of the code.                                                      *)
ResultsAreAsMeant == SubstitutesFit /\ CopiesFit /\ ComparisonsAreMeant /\ TokensRejoin
=============================================================================
