------------------------------- MODULE LlvmDriver -------------------------------
(***************************************************************************)
(* generateLLVMIRAndOptimize and createLLVMModel of test.y: what they      *)
(* create of LLVM's objects, use and dispose of, and the module they read, *)
(* optimize and leave.  constantPropagation is Optimizer, step by step,    *)
(* up to where it uses what it has erased: from there the process may go   *)
(* on with the statement behind the call, or it may stop.  The library's   *)
(* answers are chosen freely.                                              *)
(***************************************************************************)
EXTENDS Optimizer

VARIABLES
  argc,
  at,          \* the statement that comes next
  live,        \* the objects created and not disposed of
  reported     \* LLVMVerifyModule returned a message

\* The variables of Optimizer hold main of the module read, an empty function
\* as long as there is none.
driverVars == <<argc, at, live, reported, vars>>

\* Both generated modules, their builders, what createLLVMModel makes, and what
\* the generation of code needs.
Modules == {"my_module", "m", "my_module 2"}
Objects == Modules \cup {"builder", "builder 2", "buffer", "err", "machine", "layout"}

DriverInit ==
  /\ argc \in {1, 2, 3}
  /\ at = "generate"
  /\ live = {} /\ reported = FALSE
  /\ op = <<>> /\ args = <<>> /\ erased = {} /\ inst = 1 /\ temp = Wild
  /\ pc = "done"

\* Statements that use and dispose of objects; of one that is gone, anything may
\* come.
Do(from, to, uses, makes, disposes) ==
  /\ at = from
  /\ IF uses \cup disposes \subseteq live
     THEN at' = to /\ live' = (live \ disposes) \cup makes
     ELSE at' = "use after dispose" /\ UNCHANGED live
  /\ UNCHANGED argc

-----------------------------------------------------------------------------

Generate ==
  /\ Do("generate", "verify", {}, {"my_module", "builder"}, {})
  /\ UNCHANGED <<reported, vars>>

\* The message is printed and disposed of, and the function returns.
Reported ==
  /\ Do("verify", "return", {"my_module"}, {}, {})
  /\ reported' = TRUE
  /\ UNCHANGED vars

Verified ==
  /\ Do("verify", "dump", {"my_module"}, {}, {})
  /\ UNCHANGED <<reported, vars>>

\* LLVMDumpModule and the first "Clean up resources"
DumpAndCleanUp ==
  /\ Do("dump", IF argc = 2 THEN "create" ELSE "return",
        {"my_module"}, {}, {"builder", "my_module"})
  /\ UNCHANGED <<reported, vars>>

-----------------------------------------------------------------------------
(* createLLVMModel *)

\* The file cannot be read; m is NULL.  The message stays.
CreateFails ==
  /\ Do("create", "codegen", {}, {"err"}, {})
  /\ UNCHANGED <<reported, vars>>

CreateBuffer ==
  /\ Do("create", "parse", {}, {"buffer"}, {})
  /\ UNCHANGED <<reported, vars>>

\* The parser takes the buffer over in any case.
ParseFails ==
  /\ Do("parse", "codegen", {}, {"err"}, {"buffer"})
  /\ UNCHANGED <<reported, vars>>

\* Without a function main there is nothing to optimize.
ParseNoMain ==
  /\ Do("parse", "codegen", {}, {"m"}, {"buffer"})
  /\ UNCHANGED <<reported, vars>>

ParseMain ==
  /\ Do("parse", "optimize", {}, {"m"}, {"buffer"})
  /\ \E f \in Functions :
       /\ op' = f.op /\ args' = f.args
       /\ pc' = IF f.op = <<>> THEN "done" ELSE "deadcode"
  /\ UNCHANGED <<reported, erased, inst, temp>>

-----------------------------------------------------------------------------

\* A statement of constantPropagation
Optimize ==
  /\ at = "optimize"
  /\ Walk
  /\ UNCHANGED <<argc, at, live, reported>>

\* The walk has come to its end, or it has used what it erased and the process
\* goes on all the same.
Optimized ==
  /\ pc \in {"done"} \cup Undefineds
  /\ Do("optimize", "codegen", {"m"}, {}, {})
  /\ UNCHANGED <<reported, vars>>

CodeGen ==
  /\ Do("codegen", "emit", {}, {"my_module 2", "builder 2", "machine", "layout"}, {})
  /\ UNCHANGED <<reported, vars>>

Emit ==
  /\ Do("emit", "clean up", {"machine", "my_module 2"}, {}, {})
  /\ UNCHANGED <<reported, vars>>

\* The message of a file that cannot be written is stored through NULL.
EmitFails ==
  /\ Do("emit", "null pointer", {"machine", "my_module 2"}, {}, {})
  /\ UNCHANGED <<reported, vars>>

\* Mutant: the second builder is forgotten.
CleanUpKeepsBuilder ==
  /\ Do("clean up", "return", {}, {}, {"my_module 2", "machine", "layout"} \cup (live \cap Modules))
  /\ UNCHANGED <<reported, vars>>

\* The second "Clean up resources".  LLVMShutdown destroys the global context and
\* what modules it has.
CleanUp ==
  /\ Do("clean up", "return", {}, {},
        {"builder 2", "my_module 2", "machine", "layout"} \cup (live \cap Modules))
  /\ UNCHANGED <<reported, vars>>

\* The function has returned, or the process has stopped, which it may do where
\* it uses what it erased, or does not end.
DriverStopped ==
  /\ \/ at \in {"return", "null pointer", "use after dispose"}
     \/ at = "optimize" /\ pc \notin Running \cup {"done"}
  /\ UNCHANGED driverVars

DriverNext ==
  \/ Generate \/ Reported \/ Verified \/ DumpAndCleanUp
  \/ CreateFails \/ CreateBuffer \/ ParseFails \/ ParseNoMain \/ ParseMain
  \/ Optimize \/ Optimized \/ CodeGen \/ Emit \/ EmitFails \/ CleanUp
  \/ DriverStopped

DriverSpec == DriverInit /\ [][DriverNext]_driverVars

-----------------------------------------------------------------------------

\* No object is used or disposed of after it was disposed of, and a function
\* that returns holds nothing but messages; unless the verification of its own
\* module made it return, when it holds that module and its builder
\* (test.y:305-411 and 229-249).
DisposedOnce ==
  /\ at # "use after dispose"
  /\ at = "return" => live \subseteq IF reported THEN {"my_module", "builder"} ELSE {"err"}
=============================================================================
