--------------------------- MODULE CompileAndRun ---------------------------
(***************************************************************************)
(* A program compiled by CodeGen and then run by YVM, as yrun.cpp does it: *)
(* compileStmt over the whole program, NOTYPE and RETURN at the end, then  *)
(* VM::run on a fresh machine.  The run of a global `main` that may follow  *)
(* on the same machine is not modelled.                                    *)
(***************************************************************************)
EXTENDS CodeGen, Verifier

vars == <<cgVars, vmVars>>

Init ==
  /\ CGInit
  /\ code = [f \in Funcs |-> <<>>]
  /\ VMIdle

Compile == ~Compiled /\ CGStep /\ UNCHANGED vmVars

(* The compiler is discarded once its chunks are handed over. *)
Start ==
  /\ Compiled
  /\ BeginRunOf(compiled)
  /\ compiled' = [f \in 1..NumFuncs |-> <<>>]
  /\ stmts' = 0
  /\ UNCHANGED <<fn, chunk, locals, scopeDepth, loopStack, open>>

Run == status # "idle" /\ (Execute \/ Halted) /\ UNCHANGED cgVars

Next == Compile \/ Start \/ Run

Spec == Init /\ [][Next]_vars

(* The dispatch loop never waits: it executes instructions until it ends.   *)
FairSpec == Spec /\ WF_vars(Run)

----------------------------------------------------------------------------
(* Every compiled program is accepted by the verifier, so the theorem of   *)
(* CompileAndRunProofs applies to its execution.                           *)
CompilesToVerified ==
  Compiled /\ status = "idle" => IsProgram(compiled) /\ Verified(compiled)

(* A program without loops and recursion ends, however its errors and      *)
(* returns interact (OP_RETURN, OP_END_FINALLY, the catch clause of        *)
(* VM::run): no handler is used twice, no finally block is entered for     *)
(* ever.                                                                   *)
ProgramsEnd == status = "running" ~> status # "running"
============================================================================
