------------------------------ MODULE Scanner ------------------------------
(***************************************************************************)
(* yylex of lex.yy.c, the scanner flex generated from test.l: the automaton *)
(* and its backing up, and the buffer that yy_get_next_buffer refills and   *)
(* enlarges while a lexeme is half matched.  A character is its class in    *)
(* yy_ec, 0 being NUL and also the mark that ends the buffer; positions in  *)
(* the buffer count from 0, as the pointers of the code do.                 *)
(***************************************************************************)
EXTENDS Integers, SequencesExt

CONSTANTS
  Chars,             \* classes of the characters the file may hold
  YY_BUF_SIZE,       \* size of the buffer when it is created
  YY_READ_BUF_SIZE,  \* the most one read asks for
  MaxChars           \* bound: length of the file

ASSUME ScannerAssumption ==
  /\ Chars \subseteq 0..19
  /\ YY_BUF_SIZE \in Nat \ {0}
  /\ YY_READ_BUF_SIZE \in Nat \ {0}
  /\ MaxChars \in Nat

NUL == 0
NEWLINE == 3
EOB == 0

-----------------------------------------------------------------------------
(* The tables, indexed from 0 as in C. *)

At(t, n) == t[n + 1]

YY_END_OF_BUFFER == 10
Start == 1
Jam == 21
JamBase == 36

yy_accept == <<0, 0, 0, 10, 8, 7, 9, 5, 4, 3, 3, 8, 4, 6, 1, 7, 3, 6, 1, 0, 2, 0>>
yy_meta == <<0, 1, 1, 1, 1, 1, 1, 1, 1, 1, 2, 2, 1, 1, 1, 1, 2, 2, 1, 1>>
yy_base == <<0, 0, 0, 35, 36, 32, 36, 36, 36, 36, 10, 19, 18, 17, 13, 27, 12,
             36, 11, 10, 9, 36, 23, 22>>
yy_def == <<0, 21, 1, 21, 21, 21, 21, 21, 21, 21, 21, 21, 21, 21, 22, 21, 21,
            21, 22, 23, 23, 0, 21, 21>>
yy_nxt == <<0, 4, 5, 6, 7, 7, 8, 8, 8, 8, 9, 10, 7, 11, 12, 13, 14, 4, 7, 7, 16,
            16, 16, 16, 20, 18, 19, 19, 19, 15, 19, 17, 17, 17, 15, 21, 3, 21,
            21, 21, 21, 21, 21, 21, 21, 21, 21, 21, 21, 21, 21, 21, 21, 21, 21, 21>>
yy_chk == <<0, 1, 1, 1, 1, 1, 1, 1, 1, 1, 1, 1, 1, 1, 1, 1, 1, 1, 1, 1, 10,
            10, 16, 16, 23, 22, 20, 19, 18, 15, 14, 13, 12, 11, 5, 3, 21, 21,
            21, 21, 21, 21, 21, 21, 21, 21, 21, 21, 21, 21, 21, 21, 21, 21, 21, 21>>
yy_rule_can_match_eol == <<0, 0, 0, 0, 0, 0, 0, 0, 0, 0>>

\* The state after character c in state s: the default chain is followed to
\* a state that has an entry for c.
NextState[s \in 1..23] ==
  [c \in 0..19 |->
    IF At(yy_chk, At(yy_base, s) + c) = s
    THEN At(yy_nxt, At(yy_base, s) + c)
    ELSE LET d == At(yy_def, s)
         IN  NextState[d][IF d >= 22 THEN At(yy_meta, c) ELSE c]]

Accepts(s) == At(yy_accept, s) # 0

-----------------------------------------------------------------------------

VARIABLES
  input,    \* what the file has delivered so far
  ended,    \* the file has no more
  interactive, \* yy_is_interactive
  ch_buf,   \* yy_ch_buf up to and including the two end-of-buffer marks
  buf_size, \* yy_buf_size
  status,   \* yy_buffer_status
  c_buf_p,  \* yy_c_buf_p
  hold,     \* yy_hold_char
  yytext,   \* position of yytext
  cp,       \* yy_cp
  state,    \* yy_current_state
  last,     \* yy_last_accepting_state and yy_last_accepting_cpos
  act,      \* yy_act
  yylineno,
  lexemes,  \* the rules whose actions have run: rule, text, line
  pc        \* what yylex does next; "returned" between two calls

vars == <<input, ended, interactive, ch_buf, buf_size, status, c_buf_p, hold,
          yytext, cp, state, last, act, yylineno, lexemes, pc>>
file == <<input, ended, interactive>>
buffer == <<ch_buf, buf_size, status>>

yy_n_chars == Len(ch_buf) - 2

\* The characters from position p up to, not including, position q.
Text(p, q) == SubSeq(ch_buf, p + 1, q)
Write(b, p, c) == [b EXCEPT ![p + 1] = c]

\* The buffer yy_create_buffer makes at the first call of yylex.
Init ==
  /\ input = <<>> /\ ended = FALSE
  /\ interactive \in BOOLEAN
  /\ ch_buf = <<EOB, EOB>>
  /\ buf_size = YY_BUF_SIZE
  /\ status = "new"
  /\ c_buf_p = 0 /\ yytext = 0 /\ cp = 0
  /\ hold = EOB
  /\ state = Start
  /\ last = [state |-> Start, cpos |-> 0]
  /\ act = 0
  /\ yylineno = 1
  /\ lexemes = <<>>
  /\ pc = "returned"

\* Mutant: the character under the terminator of yytext is not restored.
NextLexemeLeavesNul ==
  /\ pc \in {"returned", "loop"}
  /\ cp' = c_buf_p
  /\ state' = Start
  /\ yytext' = c_buf_p
  /\ pc' = "match"
  /\ UNCHANGED <<file, buffer, c_buf_p, hold, last, act, yylineno, lexemes>>

\* A call of yylex, or another turn of its loop.  yytext follows yy_bp,
\* which YY_DO_BEFORE_ACTION copies to it before it is used again.
NextLexeme ==
  /\ pc \in {"returned", "loop"}
  /\ ch_buf' = Write(ch_buf, c_buf_p, hold)
  /\ cp' = c_buf_p
  /\ state' = Start
  /\ yytext' = c_buf_p
  /\ pc' = "match"
  /\ UNCHANGED <<file, buf_size, status, c_buf_p, hold, last, act, yylineno,
                 lexemes>>

\* One character of yy_match.
MatchChar ==
  /\ pc = "match"
  /\ last' = IF Accepts(state) THEN [state |-> state, cpos |-> cp] ELSE last
  /\ state' = NextState[state][At(ch_buf, cp)]
  /\ cp' = cp + 1
  /\ pc' = IF At(yy_base, state') = JamBase THEN "find" ELSE "match"
  /\ UNCHANGED <<file, buffer, c_buf_p, hold, yytext, act, yylineno, lexemes>>

\* The newlines in a text.
Newlines(s) == SelectSeq(s, LAMBDA c : c = NEWLINE)

\* Mutant: in a state that accepts nothing, only the last character is undone.
FindActionBacksOne ==
  /\ pc = "find"
  /\ LET back == ~Accepts(state)
         end == IF back THEN cp - 1 ELSE cp
         final == IF back THEN last.state ELSE state
         rule == At(yy_accept, final)
     IN  /\ state' = final
         /\ act' = rule
         /\ cp' = end /\ c_buf_p' = end
         /\ hold' = At(ch_buf, end)
         /\ ch_buf' = Write(ch_buf, end, NUL)
         /\ yylineno' = yylineno
  /\ pc' = "action"
  /\ UNCHANGED <<file, buf_size, status, yytext, last, lexemes>>

\* yy_find_action: a state that accepts nothing goes back to the last one
\* that did; then YY_DO_BEFORE_ACTION ends yytext, and lines are counted for
\* the rules the table says can match a newline.
FindAction ==
  /\ pc = "find"
  /\ LET back == ~Accepts(state)
         end == IF back THEN last.cpos ELSE cp
         final == IF back THEN last.state ELSE state
         rule == At(yy_accept, final)
     IN  /\ state' = final
         /\ act' = rule
         /\ cp' = end /\ c_buf_p' = end
         /\ hold' = At(ch_buf, end)
         /\ ch_buf' = Write(ch_buf, end, NUL)
         /\ yylineno' = IF rule # YY_END_OF_BUFFER /\ At(yy_rule_can_match_eol, rule) = 1
                        THEN yylineno + Len(Newlines(Text(yytext, end)))
                        ELSE yylineno
  /\ pc' = "action"
  /\ UNCHANGED <<file, buf_size, status, yytext, last, lexemes>>

\* The actions of test.l: rules 1 to 6 return a token, white space, invalid
\* characters and the default rule go on.
DoAction ==
  /\ pc = "action"
  /\ act # YY_END_OF_BUFFER
  /\ lexemes' = Append(lexemes,
       [rule |-> act, text |-> Text(yytext, cp), line |-> yylineno])
  /\ pc' = IF act <= 6 THEN "returned" ELSE "loop"
  /\ UNCHANGED <<file, buffer, c_buf_p, hold, yytext, cp, state, last, act,
                 yylineno>>

-----------------------------------------------------------------------------
(* The end of the buffer *)

AtEnd == pc = "action" /\ act = YY_END_OF_BUFFER

\* Mutant: what is accepted on the way is not remembered.
RescanForgets(buf, start, end) ==
  LET run[p \in start..end] ==
        IF p = start THEN [state |-> Start, last |-> last]
        ELSE LET before == run[p - 1]
                 c == At(buf, p - 1)
             IN  [state |-> NextState[before.state][IF c = NUL THEN 1 ELSE c],
                  last  |-> last]
  IN  run[end]

\* yy_get_previous_state: buf is read again from start to end, NUL being of
\* class 1 like any other character no rule names.
Rescan(buf, start, end) ==
  LET run[p \in start..end] ==
        IF p = start THEN [state |-> Start, last |-> last]
        ELSE LET before == run[p - 1]
                 c == At(buf, p - 1)
             IN  [state |-> NextState[before.state][IF c = NUL THEN 1 ELSE c],
                  last  |-> IF Accepts(before.state)
                            THEN [state |-> before.state, cpos |-> p - 1]
                            ELSE before.last]
  IN  run[end]

\* Mutant: the test is off by one, the mark itself passes for a NUL.
RealNulAtMark ==
  /\ AtEnd
  /\ c_buf_p <= yy_n_chars + 1
  /\ LET restored == Write(ch_buf, cp, hold)
         nul == cp - 1
         before == Rescan(restored, yytext, nul)
         next == NextState[before.state][1]
     IN  /\ ch_buf' = restored
         /\ last' = IF Accepts(before.state)
                    THEN [state |-> before.state, cpos |-> nul] ELSE before.last
         /\ IF next = Jam
            THEN /\ cp' = nul /\ c_buf_p' = nul
                 /\ state' = before.state
                 /\ pc' = "find"
            ELSE /\ cp' = nul + 1 /\ c_buf_p' = nul + 1
                 /\ state' = next
                 /\ pc' = "match"
  /\ status' = IF status = "new" THEN "normal" ELSE status
  /\ UNCHANGED <<file, buf_size, hold, yytext, act, yylineno, lexemes>>

\* The mark was a NUL of the file: yy_try_NUL_trans makes its transition.
RealNul ==
  /\ AtEnd
  /\ c_buf_p <= yy_n_chars
  /\ LET restored == Write(ch_buf, cp, hold)
         nul == cp - 1
         before == Rescan(restored, yytext, nul)
         next == NextState[before.state][1]
     IN  /\ ch_buf' = restored
         /\ last' = IF Accepts(before.state)
                    THEN [state |-> before.state, cpos |-> nul] ELSE before.last
         /\ IF next = Jam
            THEN /\ cp' = nul /\ c_buf_p' = nul
                 /\ state' = before.state
                 /\ pc' = "find"
            ELSE /\ cp' = nul + 1 /\ c_buf_p' = nul + 1
                 /\ state' = next
                 /\ pc' = "match"
  /\ status' = IF status = "new" THEN "normal" ELSE status
  /\ UNCHANGED <<file, buf_size, hold, yytext, act, yylineno, lexemes>>

\* What one YY_INPUT of at most n characters may deliver: from a terminal a
\* line or what fits of it, otherwise all there is room for.  Less means that
\* the file has ended, or that a signal came in the middle of the fread.  Where
\* it came before the first character the fread is repeated.
Delivers(s, n) ==
  /\ Len(input) + Len(s) <= MaxChars
  /\ interactive => \A j \in 1..(Len(s) - 1) : s[j] # NEWLINE
  /\ ended => s = <<>>
  /\ input' = input \o s
  /\ LET less == Len(s) < n /\ ~(interactive /\ s # <<>> /\ Last(s) = NEWLINE)
         mayBeSignal == ~interactive /\ s # <<>>
     IN  ended' \in IF mayBeSignal THEN {ended, ended \/ less} ELSE {ended \/ less}

\* The size of the buffer that has room for a read after moved characters.
Grown(moved) ==
  IF buf_size - moved - 1 = 0 THEN 2 * buf_size ELSE buf_size

\* Mutant: the read may fill the buffer to its last character.
NumToReadTight(moved) ==
  LET room == Grown(moved) - moved
  IN  IF room > YY_READ_BUF_SIZE THEN YY_READ_BUF_SIZE ELSE room

NumToRead(moved) ==
  LET room == Grown(moved) - moved - 1
  IN  IF room > YY_READ_BUF_SIZE THEN YY_READ_BUF_SIZE ELSE room

\* The part of the lexeme that is in the buffer.
Moved == Text(yytext, cp - 1)

\* YY_INPUT delivers nothing; after the end of the file it is not called.
NothingRead ==
  \/ /\ status = "pending"
     /\ UNCHANGED <<input, ended, buf_size>>
  \/ /\ status # "pending"
     /\ Delivers(<<>>, NumToRead(Len(Moved)))
     /\ buf_size' = Grown(Len(Moved))

\* yy_get_next_buffer at the end of the file, with no lexeme begun: yywrap
\* says there is no other file and yylex returns 0.
EndOfFile ==
  /\ AtEnd
  /\ c_buf_p > yy_n_chars
  /\ Moved = <<>>
  /\ NothingRead
  /\ ch_buf' = <<EOB, EOB>>
  /\ status' = "new"
  /\ hold' = EOB
  /\ yytext' = 0 /\ c_buf_p' = 0
  /\ pc' = "eof"
  /\ UNCHANGED <<interactive, cp, state, last, act, yylineno, lexemes>>

\* Mutant: the scan is continued as if something had been read.
LastMatchScansOn ==
  /\ AtEnd
  /\ c_buf_p > yy_n_chars
  /\ Moved # <<>>
  /\ NothingRead
  /\ ch_buf' = Moved \o <<EOB, EOB>>
  /\ status' = "pending"
  /\ yytext' = 0
  /\ cp' = Len(Moved) /\ c_buf_p' = Len(Moved)
  /\ LET before == Rescan(ch_buf', 0, Len(Moved))
     IN  state' = before.state /\ last' = before.last
  /\ pc' = "match"
  /\ UNCHANGED <<interactive, hold, act, yylineno, lexemes>>

\* The file ends inside a lexeme: act on what there is of it.
LastMatch ==
  /\ AtEnd
  /\ c_buf_p > yy_n_chars
  /\ Moved # <<>>
  /\ NothingRead
  /\ ch_buf' = Moved \o <<EOB, EOB>>
  /\ status' = "pending"
  /\ yytext' = 0
  /\ cp' = Len(Moved) /\ c_buf_p' = Len(Moved)
  /\ LET before == Rescan(ch_buf', 0, Len(Moved))
     IN  state' = before.state /\ last' = before.last
  /\ pc' = "find"
  /\ UNCHANGED <<interactive, hold, act, yylineno, lexemes>>

\* The lexeme is moved to the front, more is read behind it, and matching
\* goes on from the state it had reached.
ContinueScan ==
  /\ AtEnd
  /\ c_buf_p > yy_n_chars
  /\ status # "pending"
  /\ LET room == NumToRead(Len(Moved))
     IN  \E n \in 1..room : \E s \in [1..n -> Chars] :
           /\ n <= MaxChars - Len(input)
           /\ Delivers(s, room)
           /\ ch_buf' = Moved \o s \o <<EOB, EOB>>
  /\ buf_size' = Grown(Len(Moved))
  /\ status' = "normal"
  /\ yytext' = 0
  /\ cp' = Len(Moved) /\ c_buf_p' = Len(Moved)
  /\ LET before == Rescan(ch_buf', 0, Len(Moved))
     IN  state' = before.state /\ last' = before.last
  /\ pc' = "match"
  /\ UNCHANGED <<interactive, hold, act, yylineno, lexemes>>

\* YY_FATAL_ERROR: the read fails, or there is no memory to enlarge the buffer.
ReadFails ==
  /\ AtEnd
  /\ c_buf_p > yy_n_chars
  /\ status # "pending"
  /\ pc' = "exit"
  /\ UNCHANGED <<file, buffer, c_buf_p, hold, yytext, cp, state, last, act,
                 yylineno, lexemes>>

Stopped == pc \in {"eof", "exit"} /\ UNCHANGED vars

Step ==
  \/ NextLexeme \/ MatchChar \/ FindAction \/ DoAction
  \/ RealNul \/ EndOfFile \/ LastMatch \/ ContinueScan \/ ReadFails

Next == Step \/ Stopped

\* The parser asks until it is told the file has ended; a read of a file
\* answers.
Spec == Init /\ [][Next]_vars /\ WF_vars(Step)

-----------------------------------------------------------------------------

\* Every variable has its type, and every position is one of the buffer.
TypeOK ==
  /\ input \in Seq(Chars) /\ ended \in BOOLEAN /\ interactive \in BOOLEAN
  /\ ch_buf \in Seq(0..19) /\ Len(ch_buf) >= 2
  /\ buf_size \in Nat \ {0}
  /\ status \in {"new", "normal", "pending"}
  /\ c_buf_p \in 0..(yy_n_chars + 1) /\ yytext \in 0..c_buf_p
  /\ pc # "eof" => cp \in 0..(yy_n_chars + 2)
  /\ pc = "match" => cp <= yy_n_chars + 1
  /\ hold \in 0..19
  /\ state \in 1..Jam
  /\ last.state \in 1..Jam /\ last.cpos \in Nat
  /\ act \in 0..YY_END_OF_BUFFER
  /\ yylineno \in Nat
  /\ \A j \in DOMAIN lexemes : lexemes[j].rule \in 1..9
  /\ pc \in {"returned", "loop", "match", "find", "action", "eof", "exit"}

Letter == {16}
Digit == {10, 11}
Alnum == Letter \cup Digit
Alnum_us == Alnum \cup {17}

AllIn(s, C) == \A j \in DOMAIN s : s[j] \in C

\* The rules of test.l, as their patterns read; rule 9 is the default rule.
Matches(rule, s) ==
  /\ s # <<>>
  /\ CASE rule = 1 -> Head(s) \in Letter /\ AllIn(s, Alnum)
       [] rule = 2 -> /\ Len(s) > 1 /\ Head(s) \in Letter
                      /\ AllIn(s, Alnum_us) /\ Last(s) \in Alnum
       [] rule = 3 -> s = <<10>> \/ (Head(s) = 11 /\ AllIn(s, Digit))
       [] rule = 4 -> s \in {<<7>>, <<8>>, <<6>>, <<9>>, <<14>>}
       [] rule = 5 -> s \in {<<12>>, <<4>>, <<5>>, <<18>>, <<19>>}
       [] rule = 6 -> s \in {<<15>>, <<15, 14>>, <<13, 14>>, <<14, 14>>}
       [] rule = 7 -> AllIn(s, {2})
       [] rule = 8 -> Len(s) = 1 /\ s # <<NEWLINE>>
       [] rule = 9 -> Len(s) = 1

Joined(ls) == FlattenSeq([j \in DOMAIN ls |-> ls[j].text])

\* Each action runs for the longest text some rule matches there, and for
\* the first of the rules that match it, whatever the reads it arrived in,
\* where they cut it and how often the automaton had to back up
\* (lex.yy.c:722-752, 856-945, 963-1097).
LongestThenFirst ==
  \A j \in DOMAIN lexemes :
    LET rest == SubSeq(input, Len(Joined(SubSeq(lexemes, 1, j - 1))) + 1, Len(input))
        l == lexemes[j]
    IN  /\ Matches(l.rule, l.text)
        /\ \A r \in 1..(l.rule - 1) : ~Matches(r, l.text)
        /\ \A n \in (Len(l.text) + 1)..Len(rest), r \in 1..9 :
             ~Matches(r, SubSeq(rest, 1, n))

\* What is left to match, the terminator of yytext undone.
Rest == LET restored == IF pc \in {"returned", "loop"}
                        THEN Write(ch_buf, c_buf_p, hold) ELSE ch_buf
        IN  SubSeq(restored, c_buf_p + 1, yy_n_chars)

\* Between two lexemes the texts matched and the rest of the buffer are what
\* the file delivered: no character is lost, repeated or changed by the
\* terminators written into the buffer or by moving and refilling it, and at
\* the end of the file all were matched (lex.yy.c:713-718, 963-1097).
NothingSkipped ==
  pc \in {"returned", "loop", "eof"} => Joined(lexemes) \o Rest = input

\* Backing up never uses a position noted for an earlier lexeme, or before
\* the buffer was moved: the automaton is in the noted state after the text
\* up to there (lex.yy.c:745-752, 1101-1122).
BackUpIsFresh ==
  pc = "find" /\ ~Accepts(state) =>
    /\ last.cpos \in (yytext + 1)..cp
    /\ Accepts(last.state)
    /\ last.state # 3 => Rescan(ch_buf, yytext, last.cpos).state = last.state

\* num_to_read is unsigned and only compared with 0: it never wraps, since
\* no read leaves a lexeme longer than the buffer can hold with its marks
\* (lex.yy.c:1009-1051).
ReadFits == yy_n_chars <= buf_size - 1

\* Each call of yylex returns or, where a read fails, ends the process
\* (lex.yy.c:675-954, 592-622).
CallsReturn ==
  pc \in {"loop", "match", "find", "action"} ~> pc \in {"returned", "eof", "exit"}

\* yyerror reports "at line %d" with yylineno (test.y:569): a line is counted
\* when its newline has been matched.
LinesCounted == yylineno = 1 + Len(Newlines(Joined(lexemes)))
=============================================================================
