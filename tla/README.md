# A verification project for the miniC compiler

The repository is a compiler for a small C dialect: a flex scanner (`test.l`,
generated `lex.yy.c`), a yacc parser (`test.y`, generated `y.tab.c`), an AST
library (`ast.h`, `ast.c`), a hash table used as symbol table, an LLVM IR
optimizer, a register allocator and an LLVM driver (all in `test.y`). `llvm/` and
`llvm-c/` are headers of the LLVM library. This directory holds TLA+ models of
the program, TLC configurations that check them, and proofs about all of the
components that TLAPS checks for every value of the constants.

The program is sequential: one thread, no callbacks, nothing persisted. What is
hard about it is not interleaving but long sequences of legal calls over pointer
structures that are taken apart while they are used: a hash table that is
rehashed, a parser stack that grows, trees that are freed bottom up, a
scanner buffer that is moved and refilled in the middle of a lexeme, and an
instruction list whose elements are erased while it is walked. The models
therefore take the loops of these functions one step at a time, so that the
properties can speak of the states in between.

## 1. Inventory

| Component | Source | State | Operations | Model |
|---|---|---|---|---|
| Symbol table | `test.y` 56-168 | bucket array, `size`, `count`, chains of `SymbolEntry` | `createSymbolTable`, `insert` with rehash, `lookup`, `freeSymbolTable` | `SymbolTable`, `SymbolTableHeap`, `SymbolTableHistory`, `SymbolMap` |
| AST library | `ast.h`, `ast.c` | nodes, their names and statement vectors | 15 `create*`, 15 `free*`, `freeNode`, `freeStmt`, `printNode`, `printStmt` | `Ast` |
| Generated parser | `y.tab.c` 521-1811 | state and value stack, lookahead, error status | `yyparse` and the semantic actions of the grammar | `Parser` |
| Scanner | `test.l`, `lex.yy.c` | input buffer, positions in it, automaton state, `yylineno` | `yylex`, `yy_get_next_buffer`, `yy_get_previous_state`, `yy_try_NUL_trans` | `Scanner` |
| Front end | `test.l` 20-29, `y.tab.c` 1408-1431 | the lexemes not yet read | the rules' actions as seen by `yyparse` | `FrontEnd` |
| Driver | `test.y` 532-570 | `yyin`, `symbolTable` | `main`, `yyerror` | `Driver` |
| Grammar of `test.y` | `test.y` 415-529 | none of its own | statements, blocks, `assign_stmt` which calls `insert` | partly, in `Driver` |
| IR optimizer | `test.y` 251-302 | instruction list of an LLVM function | `foldBinOp`, `eliminateDeadCode`, `eliminateSubexpr`, `constantPropagation` | `Optimizer` |
| Register allocation | `test.y` 171-226 | live set, stack of free registers | `compute_liveness`, `allocate_register` | `RegAlloc` |
| LLVM driver | `test.y` 229-249, 305-411 | modules, builders, memory buffers | `createLLVMModel`, `generateLLVMIRAndOptimize` | `LlvmDriver` |
| LLVM headers, sample programs, makefile | `llvm/`, `llvm-c/`, `miniC/`, `makefile` | none | none of this program | not modelled |

How they interact. `main` creates the table, opens the file as `yyin` and calls
`yyparse`, which calls `yylex` for each token. The scanner's actions copy names
with `strdup` into `yylval`; the parser's actions turn them into AST nodes. The
rule for assignments hands a name and a node to `insert`. After the parse `main`
looks every key of the table up again and calls `freeSymbolTable`. The call of
`generateLLVMIRAndOptimize`, the only way into the LLVM part, is commented out.

Three facts about this commit decide what a faithful model can be:

- `test.y` is not accepted by bison: its rule `program` uses a symbol `end` that
  is declared nowhere. The checked-in `y.tab.c` was generated from an earlier
  version of the grammar, with start symbol `return_stmt: "return" [expression]`
  and without assignments. `Parser` models this file, with its tables.
- The scanner returns keywords as `NAME`, and the first character for `<=`, `>=`
  and `==`. The parser's tokens 260 to 269 are therefore never delivered by it.
  `Parser` takes any token sequence, so its properties do not depend on this;
  `FrontEnd` puts the two together and says what becomes of it.
- `insert` is called by no action of `y.tab.c`, and from the start symbol of
  `test.y`, `expression`, the rule that calls it cannot be reached either.
  `SymbolTable` models the table as the library it is, for any sequence of calls.
  `Driver` has the start symbol as a constant: "expression" is the grammar as it
  is declared, where the table stays empty, and "program" is the one `test.y` has
  rules for, where `main`'s loops have something to do.

What makes each component correct, and what is hard about it:

- Symbol table: an entry is on the chain `lookup` searches, for the current size,
  also after a doubling; none is lost, shared or freed twice while a rehash or
  `freeSymbolTable` has done half its work; `lookup` answers from the insertions
  made. Two insertions of one name are both kept, and which one `lookup` finds
  depends on the history of growth.
- AST: no assert fails on a tree built as the header says, nothing is read after
  it was freed, nothing stays behind, and printing visits a tree in order.
- Parser: exactly the sentences of the grammar are accepted, an error is found at
  the first wrong token and reported once, the stacks never overflow while they
  grow, the tree built reads back as the input, and no node is lost or shared where a
  parse may have to give up.
- Scanner: the lexemes are those of the rules (longest first, then the earliest
  rule), no matter how reads cut the file, whether the buffer is moved or
  enlarged, whether a NUL in the file looks like the end-of-buffer mark, and how
  far the automaton must back up.
- Front end and driver: what a file is taken for, that `main` closes what it
  opened and nothing else, that its check comes to every entry of a table that
  grew, and that it returns.
- Optimizer: no instruction is used after it was erased, no operand is left that
  refers to one, the function computes what it computed, and the walk ends. The
  code keeps only part of this; section 7 says which.
- Register allocation: a register belongs to one value, none is lost, and a value
  keeps what it was given.
- LLVM driver: what is created is disposed of, once and not before its last use,
  on every path.

`PROJECT.json` lists the hazards behind these properties, each at its line.

## 2. Modules and plan

```
SymbolMap  <==  SymbolTable  <==  SymbolTableHeap     (<== is implemented by)
                    |  EXTENDS
                    +-- SymbolTableHistory   (history variables)
                    +-- SymbolTableProofs    (theorems)
                    +-- Driver               main, with the table inside
                          +-- DriverProofs   (also EXTENDS SymbolTableProofs)
SymbolTableHeap  --- SymbolTableHeapProofs   (uses SymbolTableProofs by INSTANCE)
Ast  --- AstProofs                           also the trees Parser's actions build
Parser                                       yyparse
   +-- FrontEnd  --- ParserProofs            Parser fed by the rules of test.l
Scanner  --- ScannerProofs                   the automaton behind those rules
Optimizer                                    the walk over a function
   +-- LlvmDriver  --- OptimizerProofs       the driver around the walk
RegAlloc  --- RegAllocProofs
```

The core came first (the table, then the trees, the parser and the scanner), then
the compositions (`FrontEnd`, `Driver`) and the LLVM part. All of the program's own
components that can run are modelled, and every invariant a run checks is proved as
well, and so is every action property, the contract between `Parser` and `Ast` among them.
What is only model-checked is that the loops end; what holds when they have ended is proved,
and for the parser and the table what they rest on. Left of the plan are measures of that
kind for the scanner and the calls of `Ast` (section 6).

## 3. How the models correspond to the code

**SymbolTable.** A bucket is a sequence of entry numbers, an entry a key and a
value; entries are numbered in the order `createEntry` allocates them, and the
sequence `entries` is never shortened, so that a property can speak of a freed
entry. `Insert` is `insert` up to the load factor test. The rehash loop is
`RehashEntry` (one turn of the inner loop: the head of the old chain goes to the
front of its new chain), `RehashNextBucket` and `RehashDone`; the loops of
`freeSymbolTable` are `FreeEntry`, `FreeNextBucket` and `FreeDone`. `pc` says
which loop is running, and nothing else happens until it ends. `lookup` has no
effect and is one step. `count / size > 0.7` is computed over integers as
`10 * count > 7 * size`: the quotient of the code is a correctly rounded double,
equal to the constant exactly when the fraction is 7/10. The hash of a name
before `% tableSize` is a constant function, so the properties hold for any.

**SymbolTableHeap.** The same functions with their pointers: the array of heads,
`next` fields, and the local `current`, one assignment of it per step. Its
refinement mapping rebuilds the chains from the pointers; an entry belongs to the
abstract table from the step that increments `count`, and a bucket that the loop
has passed is empty whatever pointer the old array still holds.

**SymbolTableHistory.** `SymbolTable` with two history variables, for a property
that compares the answers before and after an insertion.

**SymbolMap.** The abstract specification: the sequence of insertions and the
answer of the last lookup. It promises some value given to the name, and NULL
exactly when there was none.

**Ast.** A node has a type and the sequence of its children. The name of a node
and the vector of a block are allocations of their own. `Create` covers all
`create*` functions: a caller passes existing roots of the types the header's
comments allow, each to one parent only, which is what a bottom-up parser does.
`stack` holds the active recursive calls of one traversal and the child each
comes to next. `FreeChild` is a call of a free function, guarded by its assert,
and `Callee` gives the types the called function asserts; `FreeReturn` is the end
of such a function. An assert that fails would leave the model stuck, and
`AssertsHold` says it cannot. `PrintChild` and `PrintReturn` are the same for
`printNode` and `printStmt`; `indents` counts their allocated indent strings.

**Parser.** One action per stretch of code between two labels: `SetState`
(`yynewstate`/`yysetstate` with the growth of the stacks), `ReadToken`, `Shift`,
`Accept` and `Default` (`yybackup`, `yydefault`), `Reduce` (`yyreduce` with the
semantic action of its rule), `ErrLab`, `ErrPop`, `ErrAbort` (`yyerrlab`,
`yyerrlab1`) and `Return`. The tables are copied number by number. The input is
chosen token by token when `yylex` is called. Nothing is freed by the parser: what
`ErrPop` and `Return` take off the value stack goes to `yydestruct`, which has no
`%destructor` to call. `Owners` are the places a node could be freed from. The branch of `yybackup` for a
negative table entry is never taken with these tables; `EveryEntryShifts` states
this and TLC evaluates it. Growth may fail for want of memory at any time. A
value on the stack is a position in the input or a node.

**Scanner.** A character is its class in `yy_ec`, so one character of a class
stands for all; the tables are copied number by number. `ch_buf` is the buffer up
to its two end-of-buffer marks, and `hold` the character under the terminator of
`yytext`, which is really written into the buffer and undone. `MatchChar` is one
turn of `yy_match`, `FindAction` the backing up and `YY_DO_BEFORE_ACTION`,
`DoAction` the action of a rule. The case `YY_END_OF_BUFFER` is `RealNul` (the
mark was a NUL of the file), `EndOfFile`, `LastMatch` and `ContinueScan`, the three
answers of `yy_get_next_buffer`. What a read delivers is chosen when it is made:
a full block from a file, a line or a part of it from a terminal, less at the end of
the file or where a signal came in the middle of the `fread`; one that a signal
interrupted before the first character is repeated and not seen. `ReadFails` is
`YY_FATAL_ERROR`, on a read error or a buffer that cannot be enlarged: the process exits.

**FrontEnd.** `Parser` with `yychar` no longer free: `ReadLexeme` is `ReadToken` with
the token the rule of `test.l` returns for the next lexeme, `SkipLexeme` the rule
that prints a message and returns nothing. How characters become lexemes is
`Scanner`; a file is here the sequence of its lexemes.

**Driver.** `at` is the statement `main` is at. `SymbolTable`'s own actions are the
calls of `insert`, `lookup` and `freeSymbolTable`, step by step (`TableStep`). Of the
parse, only what reaches `main`'s data is left: `Assign` for the action of
`assign_stmt`, any number of times, and an end at any time, because `main` does not
look at what `yyparse` returns. `FirstToken` is the line of
`yylex` that replaces a NULL `yyin` by the standard input, `CloseInput` covers
`fclose` and `yylex_destroy`, which resets `yyin`. `CheckEntry`, `CheckNextBucket` and
`CheckDone` are the loops of `test.y:548-558`.

**Optimizer.** A function in SSA form: per instruction an opcode and operands
(instructions, constants, the argument, labels). `pc` is the call of the loop body
that comes next. `EliminateDeadCode`, `FoldConstant` and `SubexprReplace` are the three
functions with their LLVM calls, which are modelled by what they do to the list: a
replacement rewrites operands, an erasure empties those of the instruction. The code
goes on to use what it erased, and reads beyond the operands of an instruction; a
read beyond them (`Wild`) may be taken for a constant or not, and where freed memory
or an unset variable is used the walk ends and `pc` says why, because what a build makes
of the function from there on is open. The library is taken to be built without assertions.
A constant may have uses in other functions, so whether it is unused is free.

**RegAlloc.** A function is blocks of instructions of operands. `todo` is the part of
the loop over the unordered set `live` that is left, its order free. The register
stack, `LLVMGetRegister` and `LLVMSetRegister`, used and never defined, are a sequence
and a function. `dead` is written and never read, and left out. An operand the code
reads although it is not there is erased from a set that is empty.

**LlvmDriver.** `live` is the set of objects created and not disposed of; `Do` is the
common form of a stretch of statements: what it uses, makes and disposes of. The
branches are the library's answers: the verifier's message, a file that cannot be
read or parsed, a module without `main`, an output that cannot be written. In between
it is `Optimizer`, step by step. After a walk that ended in undefined behaviour the process
may be gone or go on (`Optimized`): the objects it makes and disposes of then do not depend
on what has become of the function. `LLVMShutdown` destroys the global context and with it
its modules, which is what disposes of `m`.

## 4. Runs

| Run | Module | What it shows |
|---|---|---|
| `symbol_table` | `MCSymbolTable` | the invariants, the action property and the refinement of `SymbolMap` |
| `symbol_table_heap` | `MCSymbolTableHeap` | the pointer code does what `SymbolTable` says, its loops end, and it follows no freed entry |
| `ast` | `MCAst` | traversals of every tree up to the bound |
| `parser` | `MCParser` | every input up to the bound |
| `scanner` | `MCScanner` | every file up to the bound, from a file or a terminal |
| `front_end` | `MCFrontEnd` | no file gets past the first token |
| `driver` | `MCDriver` | `main` from its first statement to its return |
| `llvm_driver` | `MCLlvmDriver` | the life of every object on every path, with the walk of the optimizer inside |
| `reg_alloc` | `MCRegAlloc` | the register stack over every order of the live set |

Three runs expect a violation, each of one property: `symbol_table_history`,
`scanner_lines` and `llvm_driver_meaning`, the findings of section 7.

Bounds, and why the interesting cases happen within them:

- `symbol_table`: initial size 2, four insertions. The table doubles at the second
  and at the third insertion, to 4 and 8 buckets. The names hash as `myHash` does
  "a", "k" and "b": with two buckets two of them share one, with four none do, so
  entries are together and come apart. A name can be inserted up to four times.
- `symbol_table_heap`: the same with two names that share a bucket of two, because
  of the finer steps. Chains of two to four entries are walked, cut and joined.
- `symbol_table_history`: the real initial size of 10 and eight insertions, at
  which the real table grows.
- `ast`: eight types, one of each shape the code treats differently (a program and
  its parts, an optional child, a vector, a child that must be a variable), five
  nodes, the smallest number with which a program has a function with a body, and
  blocks of at most two statements. Expressions of more than a leaf add nothing
  for the traversals but depth, which blocks and ifs give.
- `parser`: ten token codes: both operands, the keyword, an operator that is also a
  prefix, one arithmetic operator, two comparisons of which one has a named token,
  and three that fit nowhere, one of them unknown. Seven tokens are longer than the
  shortest sentences with a prefix on both operands. Stacks of three that may grow
  to seven double, are capped, and are exhausted.
- `scanner`: ten classes, among them NUL, newline and each class a rule of several
  characters needs. A buffer of three and reads of at most two: a lexeme is cut at
  every place, the buffer is moved, and enlarged for lexemes of two and more.
- `front_end`: every lexeme the rules return a token for and two characters they drop,
  in files of up to two, with the real depths of the stacks, and return statements
  with an operator of each kind. The proof covers every file.
- `driver`: the symbol table of `symbol_table` with one value, entered at "program". The
  table doubles twice under the parse, so the check runs over reversed chains and
  more buckets than the table began with. `MaxInserts` also bounds the parse.
- `llvm_driver`: 3281 functions. Each family in `MCLlvmDriver` is there for one path:
  folding with and without a known opcode, operations on operations for common
  subexpressions, instructions behind those, stack slots with stores and loads, and
  two blocks. Integers modulo 4 tell addition, subtraction and multiplication apart.
  `argc` has its three cases, and the module may be without a `main`, have a
  declaration of it only, or a body. `llvm_driver_meaning` has the same functions.
- `reg_alloc`: two registers for four values, 328 functions with one to four operands
  per instruction and empty functions and blocks: exhaustion, a value met again in the
  same and in another block, and every order of the live set.

Fairness. There is one thread and a call that has begun runs until it returns:
weak fairness of the internal steps of a call (`Internal`, `Step`). Nothing is
assumed about the caller of the table or of the AST library; that `yyparse` and
`yylex` end also needs `yylex` and reads of the file to answer, which they do. `main`
(`Driver`) and `compute_liveness` (`RegAlloc`) run on until they return, so weak
fairness of all their steps; the insertions of a parse are bounded, since the input
ends. `Optimizer` and `LlvmDriver` state no liveness: the walk does not come to an end.

Each model may stop only in its `Stopped` action, which deadlock checking allows
for; `symbol_table_history` turns deadlock checking off because it ends at the bound
on insertions.

## 5. Properties by module

Each property is stated in words, with the lines it is about, above its
definition. The ones that carry the weight:

- `EntriesAtHome`, `EntriesNotShared`, `NothingLost`, `LoadBounded`: the table
  while it is taken apart. `ReassignmentUnseen`: an assignment to a name already
  there is invisible until the table grows, an action property. `ImplementsMap`.
- `ChainsEnd`, `NothingFreedIsReached`, `ImplementsTable`: the pointers.
- `AssertsHold`, `NothingReadAfterFree`, `WholeOrGone`, `PrintsTree`: the trees.
- `DecidesLanguage`, `ErrorFoundAtOnce`, `StackInBounds`, `TreeReadsBack`,
  `FailureReported`, `NodesOwnedOnce`, `BuildsTrees`: the parser. `NodesOwnedOnce` is what
  freeing after a syntax error would rest on: whenever a parse may fail, each node made
  has one owner, the node it is a child of or an element of the value stack. The grammar is stated on its own,
  as the operators `IsSentence` and `IsPrefixOfSentence`, not through the tables.
- `LongestThenFirst`, `NothingSkipped`, `BackUpIsFresh`, `ReadFits`: the scanner.
  The rules of `test.l` are stated on their own, as the operator `Matches`.
- `FirstTokenRejected`: what the scanner's rules leave of the parser's language.
- `FileClosed`, `MainReturns`: `main` closes what it opened and nothing else, its check
  comes to every entry once, and it returns with nothing left of the table.
  `NeverReports`: the check for undeclared names never finds one.
- `NothingBehindVoid`: a walk over a function with instructions uses what it erased, an
  unset variable or loops for ever before it gets behind its first instruction without a
  result.
  `FoldKeepsMeaning` and `FoldLeavesNoUse` say what dead code elimination and folding
  keep up to there: whatever loads, calls and the other instructions give, as long as the
  arithmetic ones give what they compute, the operands of what is left have the values
  they had, and none of them refers to what was erased.
- `DisposedOnce`: the LLVM driver, on every path.
- `RegistersAccounted`, `LaterOperandsServed`: no register is shared or lost; and which
  values are served at all.

A type invariant is checked where it could fail for a reason (`Ast`, `Scanner`); those
of the other modules are only proved (section 6), and `SymbolTableHeap` is tied to the
types of `SymbolTable` by `ImplementsTable`, which includes that every call returns.

## 6. What is proved

Eight modules hold proofs. Each has an inductive invariant (`IInv` or its like), a
lemma or step per action that preserves it, and theorems that follow from it.

`SymbolTableProofs` proves, for every set of names and values, every hash function,
every initial size and every bound on insertions:

- `TableIntact`: `Spec => []IInv`, and from it the types and the invariants the run
  checks, one theorem each (`TypeCorrect`, `EntriesStayAtHome`, `EntriesStayUnshared`,
  `NothingIsLost`, `LoadStaysBounded`);
- `TableImplementsMap`: `Spec => ImplementsMap`;
- `ReassignmentStaysUnseen`: `Spec => ReassignmentUnseen`;
- `LoopsShrink`: a bound of the turns the loop of the rehash or of `freeSymbolTable` has
  left, of the entries still on a chain and the buckets not passed, gets smaller with each.

The only assumption is `ConstantsAssumption`: hashes are natural numbers, the
initial size is positive, and NULL is not a value.

`IInv` is the conjunction of the checked invariants and two facts they are not
inductive without. `Drained` says that the buckets below the loop variable are
empty: `NothingLost` would break when the old table is dropped with entries left
in it, and only `Drained` at `cursor = size` excludes that. `NotYetFreed` says that
nothing is freed before `freeSymbolTable` begins: without it an entry moved by a
rehash could be among the freed ones. The proof that a step preserves `IInv` has a
lemma per action and in it a step per conjunct. Chains are functions to sequences,
and the lemmas `AppendFacts`, `PushFacts` and `PopFacts` say what an append, a push
and a pop do to the elements of one.

The refinement uses `LookupFinds`: by `EntriesAtHome` the chain searched holds every
entry of the name, by `NothingLost` each is still in the table, so the answer is
NULL exactly when there is none. `ReassignmentStaysUnseen` uses that an append does
not change the first match of a chain, and that the steps of a rehash do not take
place between two states that are both "ready".

`SymbolTableHeapProofs`, for any names, hash function, initial size and number of
insertions: `ChainsApart`, and from it `LoopsTerminate` (the run's `ChainsEnd`) and
`FreedIsOutOfReach`. The invariant says that chains exist: there are functions `T` and
`W` from the buckets of the two tables to sequences such that the pointers link each
sequence and end in NULL (`Linked`), no entry is on two of them or was freed (`Apart`),
and `current` is where the loop at hand has it (`Place`). `First` is where the chain of
a bucket of the old table begins while it is taken apart: at `current`, and nowhere once
the loop has passed. That a chain without repetitions has no more elements than there
are entries is what makes `ChainsEnd` hold at its bound.
`PointersImplementTable` is the refinement, `Spec => Abstract!Spec`: `Maps` says that the
chains the mapping rebuilds from the pointers are `T` and `W`, and each assignment is then
a step of `SymbolTable` or none. What is proved of `SymbolTable` therefore holds of the
pointers: `PointersLoseNothing`, `PointersImplementMap`. `ImplementsTable` itself, which
the run checks, adds the fairness of `SymbolTable`.

`AstProofs`, for trees of any size, depth and number of statements: `AssertsAlwaysHold`,
`FreedIsNeverRead`, `TreesWholeOrGone`. `Intact` and `Gone` speak of a node and its
children; said of every node they speak of whole trees, and no induction over trees is
needed. The invariant has `Wired` (children are older than their parent and of the types
the header gives), `OneParent`, `Frames` (a call that frees has behind it freed children,
before it live ones, and above it the child it came to last) and `Whole`. That no call
comes to a node another call is at, `ChildNotActive`, follows from `OneParent` and from
nodes getting older down the stack. `CalleeTakes` compares the types the header allows
with those the functions called assert, constructor by constructor.

`TreesArePrinted` and `TypeCorrect` are about printing. `Preorder` is recursive; that the
function it chooses satisfies its equation is `PreorderIs`, where children being older than
parents is used to build a solution node by node. Then `Shown(N, n)` is what a call at node n
has shown after each of its children, and the invariant `Printing` says that these texts of
the active calls, joined from the outermost to the innermost, are what was printed
(`Written`), and that the indent strings of their nodes add up to the count (`Held`). Both
are stated without a recursive sum: there is a function from the depths of the stack to the
partial results. Children a program's externs excepted are not externs (`ExternsOfProgram`),
so starting at the third field of a program skips nothing else.

`ParserProofs`, for any set of tokens, inputs of any length and any two depths of the
stacks: `TypeCorrect`, `StacksStayInBounds` and `FailuresAreReported`. A reduction pops
as many states as its rule is long, and nothing in the code tests that there are so
many; the automaton guarantees it. So the invariant says that the stack of states is
a path of the automaton (`Path`, with `Follows` read off the tables), and `Reducible`
is the lemma that every path that ends where a rule is reduced is longer than the
rule and that `yypgoto` leads from the state uncovered to one that follows it. That no
failure is silent rests on the growth: stacks that grew are not full. Assumed:
`ParserAssumption`, that the depths are positive and the tokens are token codes.

The language is `ErrorsAreFoundAtOnce` and `LanguageIsDecided`, for inputs of any length.
The invariant `Language` relates the top of the stack to the tokens shifted (`Reading`): of
the thirty states each says which part of a sentence has been read, and whether an operator
lies behind. `ReadingShift`, `ReadingReduce` and `ReadingRejects` carry this over a shift and
a reduction and to the refusal of a token, state by state over the tables (`EntriesAdmit`,
`GotoTerm`). `SentenceIs` restates the grammar's definition by positions in the input.

`TreesReadBack`: the invariant `Tree` gives every node made a span of the input, such that
the spans of a node's children and its own token make up its span (`Spans`), and the
elements of the stack lie one behind the other (`Laid`). `MakeBuilt` has one case for each
semantic action. At the end the last node spans all tokens after "return", and `YieldIs`
proves that what a node reads as is its span: the least node that did not would have
children that do.

`TreesAreBuilt`: every step of `yyparse` is a step of `Ast` or leaves the trees alone, for the
mapping at the end of `Parser`. The invariant `Orphans` says that the nodes on the stack
differ and have no parent (`Loose`), which is what `Ast` asks of the operands of a new node,
and counts what is on the stack against the tokens read (`Spare`): twice as many nodes as
tokens are enough, so the bound of `Ast` is never what stops the parser.

`NodesStayOwned`: that the nodes on the stack differ and have no parent (`Orphans`), and that
every node is a child or on the stack (`Tree`), make it one owner for every node, if no two
places of children hold the same node (`Slots`, kept because a new node takes only nodes
without a parent). What leaves the part of `yyparse` that builds leaves stack and nodes as
they are until the first pop.

`ParseShrinks` is why `yyparse` returns: `StepsLeft` gets smaller with every step. It is a sum over
the tokens not yet shifted, the height of the stack and the reductions by rules of length 1
that can still follow from the state (`Units`); a shift trades a token for a state, a
reduction or the error recovery takes states off, and a rule of length 1 leads to a state from
which fewer follow (`UnitsFall`).

`FirstTokenStaysRejected`, also in this module, is about `FrontEnd` and holds for every set of
files. The invariant says that `yyss` is `<<0>>` and the lookahead is not the token "return"
wherever the parse is before its error; state 0 has an entry for that token alone.

`ScannerProofs`, for files of any length and any sizes of the buffer and of a read:
`TypeCorrect`, `ReadsFit`, `NothingIsSkipped`, `BacksUpRight`, `LongestMatch`. `Automaton`
evaluates the compressed tables (`Entries`, `NextState` with its default chain) to a plain
transition table. `Reached(t)` is the state after text t, and the central invariant
(`Matching`, `Finding`, `Acting`) says that the automaton is in the state reached by the text
since `yytext` and has noted the last accepting one before; `RescanIs` proves that
`yy_get_previous_state` computes just this, which is why moving the buffer or taking a NUL for
the end of it changes nothing. `Conserved` says that lexemes, buffer and the rest of the file
are the file. `LongestMatch` also needs that a text after which the automaton is jammed
cannot be continued (`JamsOn`), and that the state reached says what the rules of `test.l`
make of the text, among them which comes first (`Kind`, `RuleOf`). Assumed:
`ScannerAssumption`, that the buffer and a read have a positive size.

`DriverProofs` extends the invariant of `SymbolTableProofs` by where `main` is and what
its streams are: `DriverTypeCorrect`, `FileStaysClosed`, and `NothingIsReported`, which
needs the table's `EntriesAtHome` and `NothingLost` at the entry the check is at.
`ReturnsClean` is what `MainReturns` says but for the returning: `Coverage` relates `checked`
to the places of the table that the two loop variables have left behind, and since an
entry stands at one place (`OnePlace`), it is checked once.

`OptimizerProofs`, for any set of well-formed functions of any length:
`WalkStopsAtVoid` needs that what has no result is nobody's operand (`NotAnOperand`), so
that `eliminateDeadCode` does erase it, and that nothing before the walk reached it is
erased but by the walk (`ErasedInPlace`). `FoldingLeavesNoUse` follows from the order of
replacing and erasing, `FoldingKeepsMeaning` from what `ConstantExpr` gives for operands
whose values are the constants they are (`FoldedGives`): replacing the uses of an
instruction by its value changes no operand's value. `DriverFoldsRight` says both of the
steps of the whole driver. The theorems about `LlvmDriver` in the same module take this
invariant into the driver: `DisposalStaysSound`, whose invariant gives for every statement
the objects that are live there, whatever became of the walk. Assumed: `OptimizerAssumption`,
what LLVM's parser guarantees.

`RegAllocProofs`, for any functions, values and stack without repetitions:
`RegistersStayAccounted`, and `RegistersStay`, that a value keeps what it was given.
`ServesLaterOperands` is what `LaterOperandsServed` says but for the end being reached: the
invariant `Serving` relates the registers given to the instructions the walk has left behind,
and `live` to the one it is at.

Where a theorem is about a recursive definition (chains, `Preorder`, `Yield`, the runs of the
automaton, `FlattenSeq`), the proof first shows that its equation has a solution, and what it
computes by the least counterexample, which the well-foundedness of the natural numbers gives
(`LeastOf`): the library's induction theorems are not needed.

Only model-checked: liveness (`CallsReturn`, `ParseReturns`,
`MainReturns`, `LaterOperandsServed`, and the fairness in `ImplementsTable`), which the prover
cannot do. What it rests on is proved where it is more than a counter that runs to its end:
`ParseShrinks` and `LoopsShrink` that the loops cannot go on without end, `ReturnsClean` and
`ServesLaterOperands` what holds when they have ended. For the calls of the scanner and of
`Ast` there is no such measure yet. `LinesCounted` and the other properties of section 7 are violated.

## 7. Findings

- `symbol_table_history`: `lookup` is documented to return the value of a name
  (`test.y:142`). A rehash pushes entries in front of their new chains, so a name
  that was assigned twice gets another value, the newer one, when an unrelated
  insertion makes the table grow, and the older one again at the next growth.
- `scanner_lines`: `yyerror` prints `at line %d` with `yylineno` (`test.y:569`). A
  newline is matched by no rule of `test.l` but by flex's default rule, and the
  table that says which rules can match one (`lex.yy.c:462-465`) is 0 for it: the
  line reported is always 1.
- `llvm_driver_meaning`: common subexpressions are compared by opcode and type alone
  (`test.y:282-283`), so what `test.y:228` calls optimization changes results.

Passing runs show more that the code's authors may not intend:

- No file can be compiled. `test.l:20` returns keywords as names, so a return statement
  (`test.y:450-452`), all that `y.tab.c` accepts, is a syntax error: `FirstTokenRejected`.
- `test.y:11-12` speaks of "verifying that every variable is declared before use", but
  `main` looks up only names that were inserted: `NeverReports`.
- `eliminateDeadCode` erases an unused instruction, a store or a return, and `foldBinOp`
  and the loop go on to use it (`test.y:297-298`). `NothingBehindVoid` proves that this is
  no rare case: no function with instructions is walked to its end without such a use.
- `test.y:15-16` promises "assembly code from the optimized LLVM IR"; it is made from a
  module that was created afterwards and only returns 42 (`test.y:375-403`): `CodeGen`
  and `Emit` of `LlvmDriver` follow the code, and no property is made of it.
- The return at `test.y:338` keeps the module and the builder: `DisposedOnce` has to
  except it.
- "Add used values to live set" (`test.y:192`) begins at operand 2, and the sets "for the
  basic block" (`test.y:174`) are cleared per instruction: by `LaterOperandsServed` only
  third and later operands ever get a register. Clearing them per block would serve the same
  operands, since a value keeps its register: no property tells the two apart.

## 8. Not modelled

- The grammar of `test.y` beyond what `y.tab.c` contains and the insertions `Driver` takes
  from it: no automaton for it exists. The rules without actions build nothing.
- Failing allocations other than the parser's stacks and the scanner's larger buffer: their results are used without
  a test, and what a write through NULL does is outside the program. The wording of
  messages; the values of constants (`atoi`) and the spelling of names.
- Instructions of LLVM with more structure than an opcode and operands (phi nodes,
  calls, exception handling), which the walk treats as it treats any other; uses of a
  constant in other functions are a free choice.
- The entry points of the scanner that nothing calls (`yyunput`, `input`, the
  functions that switch and push buffers, the accessors), and calls of `yylex`
  after it has returned 0, which `yyparse` never makes.
- LLVM itself, which is nine tenths of the files and nearly all the lines here: 1434
  vendored headers of interfaces whose bodies are in libraries outside the
  repository, so what they do when called is not to be read here. What the program
  relies on of them are the external operations of `Optimizer` and `LlvmDriver`. The
  share of all lines under the models is therefore small, and that of the program's
  own lines is nearly all that runs.
- The 32-bit arithmetic of `myHash`: it decides only how long chains are, and the table
  is right for every hash function.
- What becomes of the function after the walk used freed memory or an unset variable: the
  walk of `Optimizer` ends there, and `LlvmDriver` goes on or stops without it.
- The sample programs and the build rules.
