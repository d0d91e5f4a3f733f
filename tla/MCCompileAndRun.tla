-------------------------- MODULE MCCompileAndRun --------------------------
(***************************************************************************)
(* Small instances of CompileAndRun: which statements and which risky      *)
(* combinations the programs use, and how large they are.                  *)
(***************************************************************************)
EXTENDS CompileAndRun

MCFuncs == 1..NumFuncs
MCErrTypes == {"Error", "RuntimeError", "TypeError", "IndexError",
               "RecursionError", "MathError", "AssertionError", "Warning"}
MCParent ==
  [t \in MCErrTypes |->
     CASE t \in {"Error"} -> "none"
       [] t \in {"RuntimeError", "Warning"} -> "Error"
       [] OTHER -> "RuntimeError"]
MCCatchTypes == {{"Error"}, {"MathError"}}

(* Bound: a program that leaks locals or handlers in a loop never stops.   *)
ShallowStack ==
  Len(stack) <= 6 /\ \A i \in DOMAIN frames : Len(frames[i].handlers) <= 3

(* The compiler alone, for programs too large to run them all.             *)
CompileOnly == Init /\ [][CGNext /\ UNCHANGED vmVars]_vars
============================================================================
