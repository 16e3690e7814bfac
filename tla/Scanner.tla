------------------------------- MODULE Scanner -------------------------------
(***************************************************************************)
(* The scanner of civicc (src/scanparse/lexer.l) with the messages it and  *)
(* the parser print: which characters of the source make a token, which    *)
(* place the token is given, and what yyerror shows for it.  A source is a *)
(* text; of the tokens of one character each, and of the keywords, which   *)
(* differ in nothing here, a few are left.                                 *)
(*                                                                         *)
(* flex takes the rule that matches the most characters, and the first of  *)
(* those.  Before its action it counts the newlines of what is matched     *)
(* (%option yylineno), and YY_USER_ACTION is token_action.                 *)
(***************************************************************************)
EXTENDS Messages

CONSTANT Inputs     \* what the program is given: its source, and two strings

VARIABLES source,
          pos,      \* how much of it is matched
          mode,     \* the start condition: INITIAL or COMMENT
          yylineno, yycolumn,
          yylloc,   \* the place of the last match
          current_line_buf,
          token,    \* the last token, if any: its kind and its first character
          division, \* the place of the last / and where it is (NODE_BLINE, ...)
          shown,    \* what a message with a place shows
          spanned   \* history: the line was begun inside a comment

lexVars == <<source, pos, mode, yylineno, yycolumn, yylloc, current_line_buf, token,
             division, shown, spanned>>
vars == <<strVars, ctiVars, lexVars>>

Letters == {"a"}
Digits == {"1"}
ErrorText == <<"x">>
None == [kind |-> "none", at |-> 0]
Newlines(s) == Cardinality({i \in DOMAIN s : s[i] = "\n"})
Run(s, chars) == Min({i \in DOMAIN s : s[i] \notin chars} \cup {Len(s) + 1}) - 1
LineOf(s) == Take(s, Run(s, ToSet(s) \ {"\n"}))
Rest == Drop(source, pos)

\* The longest text of characters other than *, and of * with one other than / behind.
RECURSIVE CommentLength(_)
CommentLength(s) ==
  IF s = <<>> THEN 0
  ELSE IF s[1] # "*" THEN 1 + CommentLength(Drop(s, 1))
  ELSE IF Len(s) > 1 /\ s[2] # "/" THEN 2 + CommentLength(Drop(s, 2)) ELSE 0
NewlineLength(s) == IF s[1] = "\n" THEN 1 + Len(LineOf(Tail(s))) ELSE 0
Starts(s, chars) == IF STRprefix(chars, s) THEN Len(chars) ELSE 0

(* The rules of a start condition in their order, and how much of s each   *)
(* of them matches; ECHO is flex's own.                                    *)
Rules(s) ==
  IF mode = "INITIAL"
  THEN << <<"SEMICOLON", Starts(s, <<";">>)>>, <<"STAR", Starts(s, <<"*">>)>>,
          <<"SLASH", Starts(s, <<"/">>)>>, <<"EQ", Starts(s, <<"=", "=">>)>>,
          <<"LET", Starts(s, <<"=">>)>>,
          <<"ID", IF s[1] \in Letters THEN Run(s, Letters \cup Digits) ELSE 0>>,
          <<"line comment", IF Starts(s, <<"/", "/">>) > 0 THEN Len(LineOf(s)) ELSE 0>>,
          <<"comment", Starts(s, <<"/", "*">>)>>,
          <<"NUM", Run(s, Digits)>>,
          <<"newline", NewlineLength(s)>>,
          <<"blank", IF s[1] \in {" ", "\t"} THEN 1 ELSE 0>>,
          <<"other", IF s[1] # "\n" THEN 1 ELSE 0>> >>
  ELSE << <<"inside", CommentLength(s)>>, <<"newline", NewlineLength(s)>>,
          <<"end", Starts(s, <<"*", "/">>)>>, <<"echo", 1>> >>
Tokens == {"SEMICOLON", "STAR", "SLASH", "EQ", "LET", "ID", "NUM"}
LongestRule(rules) ==
  LET most == Max({rules[i][2] : i \in DOMAIN rules})
  IN  rules[Min({i \in DOMAIN rules : rules[i][2] = most})]
-----------------------------------------------------------------------------
Init == /\ \E in \in Inputs : source = in.source /\ first = in.first /\ second = in.second
        /\ StrInit /\ CtiInit
        /\ pos = 0 /\ mode = "INITIAL" /\ yylineno = 1 /\ yycolumn = 1
        /\ yylloc = [line |-> 1, first |-> 1, last |-> 1]
        /\ current_line_buf = LineOf(source)          \* lexer_init_first_line
        /\ token = None /\ division = None /\ shown = None /\ spanned = FALSE

(* token_action, and what the newline rules do about the place; yyless(1)  *)
(* gives all but the newline back.  Mutation: the column goes on.          *)
ColumnGoesOn(rule, n) == yycolumn + n
ColumnAfter(rule, n) == IF rule = "newline" THEN 1 ELSE yycolumn + n
Match(rule, n) ==
  /\ yylloc' = [line |-> yylineno + Newlines(Take(Rest, n)),
                first |-> yycolumn, last |-> yycolumn + n - 1]
  /\ yylineno' = yylloc'.line
  /\ yycolumn' = ColumnAfter(rule, n)
  /\ pos' = pos + (IF rule = "newline" THEN 1 ELSE n)
  /\ current_line_buf' = IF rule = "newline" /\ mode = "INITIAL"
                         THEN Take(Tail(Rest), n - 1) ELSE current_line_buf
  /\ spanned' = IF mode = "COMMENT" THEN spanned \/ Newlines(Take(Rest, n)) > 0
                ELSE spanned /\ rule # "newline"

Place(loc, line) == [first_line |-> loc.line, first_column |-> loc.first, last_line |-> loc.line,
                     last_column |-> loc.last, line |-> line]
Shown(loc, line, at, span) ==
  [kind |-> "place", at |-> at, spanned |-> span, line |-> loc.line,
   place |-> PrintInfo(Place(loc, line))]
\* yyerror: CTIobj, then CTIabortOnError finds the error.
yyerror(loc, at) ==
  /\ HandleCtiCall("error") /\ PrintMessage("error", ErrorText, "error")
  /\ current_type' = "error" /\ running' = FALSE
  /\ shown' = Shown(loc, current_line_buf, at, spanned)

Scan ==
  /\ running /\ pos < Len(source)
  /\ LET rule == LongestRule(Rules(Rest))
     IN  /\ Match(rule[1], rule[2])
         /\ mode' = CASE rule[1] = "comment" -> "COMMENT"
                      [] rule[1] = "end" -> "INITIAL"
                      [] OTHER -> mode
         /\ token' = IF rule[1] \in Tokens THEN [kind |-> rule[1], at |-> pos + 1, next |-> pos'] ELSE token
         /\ division' = IF rule[1] = "SLASH"
                        THEN [kind |-> "place", at |-> pos + 1, loc |-> yylloc',
                              spanned |-> spanned'] ELSE division
         /\ IF rule[1] = "other" THEN yyerror(yylloc', pos + 1)
            ELSE UNCHANGED <<ctiVars, shown>>
  /\ UNCHANGED <<source, strVars>>

(* The parser does not accept the token it just got.                       *)
Lookahead == token # None /\ token.next = pos
SyntaxError ==
  /\ running /\ Lookahead
  /\ yyerror(yylloc, token.at)
  /\ UNCHANGED <<strVars, source, pos, mode, yylineno, yycolumn, yylloc, current_line_buf,
                 token, division, spanned>>

(* report_div_by_zero, when all is read: the line is read from the file.   *)
LineNumber(at) == 1 + Newlines(Take(source, at - 1))
read_source_line(n) == Split(source, {"\n"})[n]
ReportDivByZero ==
  /\ running /\ pos = Len(source) /\ division # None /\ shown = None
  /\ HandleCtiCall("warn") /\ PrintMessage("warn", ErrorText, "warn")
  /\ current_type' = "warn"
  /\ shown' = Shown(division.loc, read_source_line(division.loc.line), division.at,
                    division.spanned)
  /\ UNCHANGED <<strVars, running, source, pos, mode, yylineno, yycolumn, yylloc,
                 current_line_buf, token, division, spanned>>

Next == \/ Scan \/ SyntaxError \/ ReportDivByZero
        \/ CtiNext /\ UNCHANGED <<strVars, lexVars>>
        \/ StrNext /\ UNCHANGED <<ctiVars, lexVars>>
Spec == Init /\ [][Next]_vars
-----------------------------------------------------------------------------
(* What is shown with a message is the line of the token the message is    *)
(* about: its number is right, the token is coloured and the marker is     *)
(* below it.  On a line that was begun inside a comment the columns, and   *)
(* for errors the line that is shown, may be those of another line.        *)
LineAt(at) == read_source_line(LineNumber(at))
ColumnOf(at) == at - Max({i \in 1 .. at - 1 : source[i] = "\n"} \cup {0})
LexemeAt(at) == Take(Drop(source, at - 1),
  CASE source[at] \in Letters -> Run(Drop(source, at - 1), Letters \cup Digits)
    [] source[at] \in Digits -> Run(Drop(source, at - 1), Digits)
    [] source[at] = "=" -> Min({2, Run(Drop(source, at - 1), {"="})})
    [] OTHER -> 1)
ErrorsShowTheirToken ==
  shown # None =>
    LET lexeme == LexemeAt(shown.at)
        place == shown.place
    IN  /\ shown.line = LineNumber(shown.at)
        /\ ~shown.spanned =>
             /\ place.before \o place.marked \o place.behind = LineAt(shown.at)
             /\ place.marked = lexeme
             /\ place.blanks = Len(place.before) /\ Len(place.before) = ColumnOf(shown.at) - 1
             /\ place.tildes = Len(lexeme) - 1
=============================================================================
