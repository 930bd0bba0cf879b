-------------------------------- MODULE Driver --------------------------------
(***************************************************************************)
(* main of test.y around the symbol table: the input it opens, the parse,  *)
(* the loop that looks every key up again, and freeSymbolTable.  The table *)
(* is SymbolTable, step by step.  Of the parse, what reaches main's data:  *)
(* the insertions of assign_stmt, when the grammar is entered where        *)
(* assign_stmt can be reached.                                             *)
(***************************************************************************)
EXTENDS SymbolTable

CONSTANTS
  Start       \* the nonterminal the grammar is entered at

ASSUME StartAssumption ==
  /\ Start \in {"program", "expression"}
  /\ NULL \notin {"stdin", "file"}

VARIABLES
  at,         \* where main is
  argument,   \* "none", a file that is "missing", or one that is "present"
  yyin,       \* NULL, "stdin" or "file"
  closed,     \* what fclose was called with
  bucket,     \* the loop variable i of the check
  position,   \* entries of that bucket that current has left behind
  checked,    \* entries the check has come to
  reported    \* names reported as used without declaration

driverVars == <<at, argument, yyin, closed, bucket, position, checked,
                reported, vars>>

inputVars == <<argument, yyin, closed>>
checkVars == <<bucket, position, checked, reported>>

DriverInit ==
  /\ Init
  /\ at = "open"
  /\ argument \in {"none", "missing", "present"}
  /\ yyin = NULL
  /\ closed = <<>>
  /\ bucket = 0 /\ position = 0 /\ checked = <<>> /\ reported = {}

\* fopen answers NULL for a file that cannot be opened, and nothing tests it.
OpenInput ==
  /\ at = "open"
  /\ at' = "yylex"
  /\ yyin' = IF argument = "present" THEN "file" ELSE NULL
  /\ UNCHANGED <<argument, closed, checkVars, vars>>

\* Mutant: the scanner does not take the standard input for a missing file.
FirstTokenKeepsNull ==
  /\ at = "yylex"
  /\ at' = "yyparse"
  /\ UNCHANGED <<inputVars, checkVars, vars>>

\* The state yyparse begins in needs a token: yylex is called, whatever comes.
FirstToken ==
  /\ at = "yylex"
  /\ at' = "yyparse"
  /\ yyin' = IF yyin = NULL THEN "stdin" ELSE yyin
  /\ UNCHANGED <<argument, closed, checkVars, vars>>

\* assign_stmt, which no rule of expression mentions.
Assign(k, v) ==
  /\ at = "yyparse"
  /\ Start = "program"
  /\ Insert(k, v)
  /\ UNCHANGED <<at, inputVars, checkVars>>

\* The loops of insert and freeSymbolTable.
TableStep ==
  /\ Internal
  /\ UNCHANGED <<at, inputVars, checkVars>>

\* yyparse returns, at the end of the input or at an error: main does not ask.
EndParse ==
  /\ at = "yyparse" /\ pc = "ready"
  /\ at' = "close"
  /\ UNCHANGED <<inputVars, checkVars, vars>>

\* fclose and yylex_destroy, which forgets yyin.
CloseInput ==
  /\ at = "close"
  /\ at' = "check"
  /\ closed' = IF yyin = "stdin" THEN closed ELSE Append(closed, yyin)
  /\ yyin' = NULL
  /\ UNCHANGED <<argument, checkVars, vars>>

\* One turn of the inner loop, with its call of lookup.
CheckEntry ==
  /\ at = "check"
  /\ bucket < size
  /\ position < Len(table[bucket])
  /\ LET e == table[bucket][position + 1]
         key == entries[e].key
     IN  /\ LookupCall(key)
         /\ reported' = IF Lookup(key) = NULL THEN reported \cup {key} ELSE reported
         /\ checked' = Append(checked, e)
  /\ position' = position + 1
  /\ UNCHANGED <<at, inputVars, bucket>>

CheckNextBucket ==
  /\ at = "check"
  /\ bucket < size
  /\ position = Len(table[bucket])
  /\ bucket' = bucket + 1
  /\ position' = 0
  /\ UNCHANGED <<at, inputVars, checked, reported, vars>>

\* Mutant: the loop runs over the buckets the table was created with.
CheckDoneInitialSize ==
  /\ at = "check"
  /\ bucket >= InitialSize
  /\ position = 0
  /\ at' = "free"
  /\ FreeCall
  /\ UNCHANGED <<inputVars, checkVars>>

CheckDone ==
  /\ at = "check"
  /\ bucket = size
  /\ at' = "free"
  /\ FreeCall
  /\ UNCHANGED <<inputVars, checkVars>>

Return ==
  /\ at = "free" /\ pc = "freed"
  /\ at' = "returned"
  /\ UNCHANGED <<inputVars, checkVars, vars>>

DriverStopped == at = "returned" /\ UNCHANGED driverVars

DriverStep ==
  \/ OpenInput \/ FirstToken
  \/ \E k \in Keys, v \in Values : Assign(k, v)
  \/ TableStep \/ EndParse \/ CloseInput
  \/ CheckEntry \/ CheckNextBucket \/ CheckDone \/ Return

DriverNext == DriverStep \/ DriverStopped

DriverSpec == DriverInit /\ [][DriverNext]_driverVars

\* One thread; the input ends.
FairDriverSpec == DriverSpec /\ WF_driverVars(DriverStep)

-----------------------------------------------------------------------------

\* Where main is, its streams, and how far the check has come.
DriverTypeOK ==
  /\ at \in {"open", "yylex", "yyparse", "close", "check", "free", "returned"}
  /\ argument \in {"none", "missing", "present"}
  /\ yyin \in {NULL, "stdin", "file"}
  /\ closed \in Seq({"file"})
  /\ bucket \in 0..size
  /\ position \in Nat
  /\ at = "check" /\ bucket < size => position <= Len(table[bucket])
  /\ checked \in Seq(Ids)
  /\ reported \in SUBSET Keys

\* The calls of the table, and what yyin and closed are on the way: the
\* induction hypothesis of DriverProofs, with DriverTypeOK and NeverReports.
TableCalls ==
  /\ at \in {"open", "yylex", "close", "check"} => pc = "ready"
  /\ at = "yyparse" => pc \in {"ready", "rehash"}
  /\ at = "free" => pc \in {"freeing", "freed"}
  /\ at = "returned" => pc = "freed"
  /\ at \in {"open", "yylex", "yyparse", "close"} => bucket = 0 /\ position = 0

Streams ==
  LET opened == IF argument = "present" THEN "file" ELSE NULL
      read   == IF argument = "present" THEN "file" ELSE "stdin"
  IN  /\ at \in {"open", "yylex", "yyparse", "close"} => closed = <<>>
      /\ at = "yylex" => yyin = opened
      /\ at \in {"yyparse", "close"} => yyin = read

\* The file is closed once if it was opened, the standard input is not closed,
\* and fclose is never called with the NULL of a failed fopen (test.y:535-545).
FileClosed ==
  at \in {"check", "free", "returned"} =>
    closed = IF argument = "present" THEN <<"file">> ELSE <<>>

\* lookup finds every key the check reads from the table, however often it was
\* assigned and the table has grown: the message of test.y:554 is never printed.
NeverReports == reported = {}

\* The check has come to every entry exactly once, in the table of the size it
\* has grown to.
EveryEntryChecked ==
  /\ NoRepeat(checked)
  /\ \A e \in Ids : \E j \in DOMAIN checked : checked[j] = e

\* main returns, having checked every entry once, with nothing left of the
\* table, however often it grew under the parse (test.y:532-566).
MainReturns ==
  <>(at = "returned" /\ EveryEntryChecked /\ table = <<>> /\ Len(freed) = Len(entries))
=============================================================================
