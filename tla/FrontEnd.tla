------------------------------- MODULE FrontEnd -------------------------------
(***************************************************************************)
(* yyparse of y.tab.c reading what the rules of test.l return: Parser with *)
(* its tokens no longer free, but those of the lexemes the file consists   *)
(* of.  White space, which the scanner drops without a trace, is left out. *)
(***************************************************************************)
EXTENDS Parser

CONSTANTS
  Files    \* the files explored, each the sequence of its lexemes

ASSUME FilesAssumption == \A f \in Files : f \in Seq(STRING) /\ Len(f) <= MaxTokens

VARIABLES
  file,    \* the lexemes of the file
  rest     \* those yylex has not matched

frontVars == <<file, rest, vars>>

\* The lexemes of the three rules that return the first character, with it.
FirstCharacter ==
  {<<"+", 43>>, <<"-", 45>>, <<"*", 42>>, <<"/", 47>>, <<"=", 61>>, <<";", 59>>,
   <<"(", 40>>, <<")", 41>>, <<"{", 123>>, <<"}", 125>>, <<">", 62>>,
   <<">=", 62>>, <<"<=", 60>>, <<"==", 61>>}

Keywords == {"return", "if", "else", "while", "print", "read"}

\* What a lexeme makes yylex return.  A keyword is a name to the first rule; a
\* character no rule begins with, '<' and '!' among them, only leaves a message.
TokensOf(x) ==
  IF x \in Keywords \cup {"name"} THEN {NAME}
  ELSE IF x = "number" THEN {NUMBER}
  ELSE {c \in 0..255 : <<x, c>> \in FirstCharacter}

FrontInit == Init /\ file \in Files /\ rest = file

\* A lexeme that returns nothing: yylex goes on with the next.
SkipLexeme ==
  /\ pc = "yybackup" /\ ~Decided
  /\ rest # <<>> /\ TokensOf(Head(rest)) = {}
  /\ rest' = Tail(rest)
  /\ UNCHANGED <<file, vars>>

ReadLexeme ==
  /\ ReadToken
  /\ IF rest = <<>>
     THEN yychar' = YYEOF /\ UNCHANGED rest
     ELSE yychar' \in TokensOf(Head(rest)) /\ rest' = Tail(rest)
  /\ UNCHANGED file

Parse ==
  /\ \/ SetState \/ Shift \/ Accept \/ Default \/ Reduce
     \/ ErrLab \/ ErrPop \/ ErrAbort \/ Return
  /\ UNCHANGED <<file, rest>>

FrontStopped == Stopped /\ UNCHANGED <<file, rest>>

FrontNext == SkipLexeme \/ ReadLexeme \/ Parse \/ FrontStopped

FrontSpec == FrontInit /\ [][FrontNext]_frontVars

-----------------------------------------------------------------------------

\* No file gets past its first token: it is reported, yyparse returns 1, and no
\* node is built that the stacks of a failing parse could drop
\* (test.l:20-26, y.tab.c:1408-1475, 1626-1759).
FirstTokenRejected ==
  /\ nodes = <<>>
  /\ Len(input) <= 1
  /\ pc = "done" => yyresult \in {1, 2} /\ reports = 1
=============================================================================
