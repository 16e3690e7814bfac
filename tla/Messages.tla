------------------------------ MODULE Messages ------------------------------
(***************************************************************************)
(* The messages of palm (coconut/palm/src/ctinfo.c).  CTI and CTIobj       *)
(* print a text into message_buffer, which is replaced by a larger one     *)
(* when it is too small and never freed, put the line breaks into it, and  *)
(* write the lines; CTIobj also shows the place in the source.  Errors     *)
(* and warnings are counted, and CTIabortOnError stops the compiler.       *)
(***************************************************************************)
EXTENDS Strings

CONSTANTS LineLength,  \* message_line_length
          Header,      \* for each type of message the length of its header
          Reported,    \* bound: the texts a program reports of its own
          MaxReports   \* bound: errors and warnings

VARIABLES room,        \* message_buffer_size
          current_type,\* the type of the last message with a place
          errors, warnings,
          running,     \* the compiler has not stopped
          written      \* the last message: its text, its type, its lines

ctiVars == <<room, current_type, errors, warnings, running, written>>
Nothing == [text |-> <<>>, type |-> "state", lines |-> <<>>, colour |-> "error"]
CtiInit == /\ room = 0 /\ current_type = "error" /\ errors = 0 /\ warnings = 0
           /\ running = TRUE /\ written = Nothing

(* ProcessMessage: at a blank at or before column line_length the line is  *)
(* broken, @ stands for a break.  Without one the rest is left as it is.   *)
(* Mutation: a break does not begin a new column.                          *)
KeepColumn(m, i) == m.column + 1
ColumnBehind(m, i) == i - m.space + 1
Broken(m, i, line_length) ==
  LET text == IF m.text[i] = "\t" THEN [m.text EXCEPT ![i] = " "] ELSE m.text
      at == [m EXCEPT !.text = text, !.space = IF text[i] = " " THEN i ELSE @]
  IN  IF m.stopped THEN m
      ELSE IF text[i] = "\n" THEN [at EXCEPT !.text[i] = "@", !.column = 1]
      ELSE IF m.column # line_length THEN [at EXCEPT !.column = @ + 1]
      ELSE IF text[at.space] = " "
           THEN [at EXCEPT !.text[at.space] = "@", !.column = ColumnBehind(at, i)]
      ELSE [at EXCEPT !.stopped = TRUE]
ProcessMessage(buffer, line_length) ==
  FoldLeftDomain(LAMBDA m, i : Broken(m, i, line_length),
                 [text |-> buffer, column |-> 0, space |-> 1, stopped |-> FALSE],
                 buffer).text
\* strtok: breaks next to one another leave no line between them.
Lines(buffer) == SelectSeq(Split(buffer, {"@"}), LAMBDA line : line # <<>>)

(* Format2Buffer makes room for the text and a final 0, if there is less.  *)
RoomFor(text) == IF Len(text) >= room THEN Len(text) + 2 ELSE room
Format2Buffer(text) == Take(text, RoomFor(text) - 1)

HandleCtiCall(type) ==
  /\ errors' = errors + (IF type = "error" THEN 1 ELSE 0)
  /\ warnings' = warnings + (IF type = "warn" THEN 1 ELSE 0)
PrintMessage(type, text, colour) ==
  /\ room' = RoomFor(text)
  /\ written' = [text |-> text, type |-> type, colour |-> colour,
                 lines |-> Lines(ProcessMessage(Format2Buffer(text), LineLength - Header[type]))]
\* A message without a place has the colour of the last one with a place.
CTI(type, text) ==
  /\ running /\ errors + warnings < MaxReports
  /\ HandleCtiCall(type) /\ PrintMessage(type, text, current_type)
  /\ UNCHANGED <<current_type, running>>
CTIobj(type, text) ==
  /\ running /\ errors + warnings < MaxReports
  /\ HandleCtiCall(type) /\ PrintMessage(type, text, type)
  /\ current_type' = type
  /\ UNCHANGED running
CTIabortOnError ==
  /\ running /\ errors > 0
  /\ running' = FALSE
  /\ UNCHANGED <<room, current_type, errors, warnings, written>>
\* CTIgetErrorMessageVA: the text behind "line <n>", to be printed later.
CTIgetErrorMessage(text) ==
  /\ running
  /\ room' = RoomFor(text)
  /\ UNCHANGED <<current_type, errors, warnings, running, written>>

(* A bound: a program that reports one of its strings has not begun to     *)
(* take it apart; the statics of the two have nothing to do with another.  *)
CtiNext == /\ tokens = <<>>
           /\ \/ \E type \in DOMAIN Header, text \in {first, second} \cap Reported :
                   CTI(type, text) \/ CTIobj(type, text)
              \/ \E text \in {first, second} \cap Reported : CTIgetErrorMessage(text)
              \/ CTIabortOnError

(* PrintInfo, PrintLocation: what is written before, in and behind the     *)
(* colour, and the marker below: blanks, ^ and ~.  A first column that is  *)
(* not given is compared as the largest number.                            *)
PrintLocation(info) ==
  LET length == Len(info.line)
      from == IF info.first_column < 1 THEN length ELSE Min({info.first_column - 1, length})
      to == Max({from, Min({info.last_column, length})})
  IN  [before |-> Take(info.line, from), marked |-> SubSeq(info.line, from + 1, to),
       behind |-> Drop(info.line, to), blanks |-> Max({info.first_column - 1, 0}),
       tildes |-> Max({info.last_column - Max({info.first_column, 1}), 0})]
PrintInfo(info) ==
  IF (info.first_line > 0 /\ info.first_column <= 0) \/ info.line = NULL
  THEN NULL ELSE PrintLocation(info)
-----------------------------------------------------------------------------
(* A message is written whole: the words of its lines are the words of the *)
(* text, in their order.  When all that is between two blanks is shorter   *)
(* than a line, no line is longer than LineLength, the header with it, and *)
(* every newline of the text ends a line.                                  *)
Blanks == {" ", "\t", "\n"}
Parts(text, breaks) == SelectSeq(Split(text, breaks), LAMBDA part : part # <<>>)
Words(text) == Parts(text, Blanks \cup {"@"})
MessagesFitTheirLines ==
  LET header == Header[written.type]
      parts == Parts(written.text, Blanks)
  IN  /\ FlattenSeq([i \in DOMAIN written.lines |-> Words(written.lines[i])])
           = Words(written.text)
      /\ (\A i \in DOMAIN parts : Len(parts[i]) < LineLength - header) =>
           \A i \in DOMAIN written.lines :
             /\ (IF i = 1 THEN header ELSE 0) + Len(written.lines[i]) <= LineLength
             /\ \A j \in DOMAIN written.lines[i] : written.lines[i][j] # "\n"
=============================================================================
