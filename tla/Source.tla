------------------------------- MODULE Source -------------------------------
(***************************************************************************)
(* What the statements of a block mean when the compiler optimizes         *)
(* nothing: they are executed in order, each on the values the variables   *)
(* have then.  Folding refines this module.                                *)
(*                                                                         *)
(* A guarded statement stands in the branch of an if whose condition the   *)
(* program computes: whether it is taken is a choice.                      *)
(***************************************************************************)
EXTENDS Values

CONSTANTS
  Statements,  \* the statements blocks are written with
  MaxStmts,    \* the length of the longest block
  Preamble     \* the globals that the lines above the block declared

VARIABLES
  prog,    \* the statements of the block
  status,  \* "writing", "running", "ended" or the error that ended the run
  ip,      \* the next statement
  slots,   \* the locals: name, value, const and lock flags
  globals, \* name -> value
  out      \* what was printed last

srcVars == <<prog, status, ip, slots, globals, out>>

----------------------------------------------------------------------------
(* Statements. *)

Let(s) ==
  LET v == Eval(slots, globals, s.e)
  IN  IF Failed(v) THEN Outcome(slots, globals, v.e)
      ELSE Outcome(Append(slots, [name |-> s.v, val |-> v, const |-> s.m = "const",
                                  lock |-> s.m = "lock"]), globals, "none")

(* OP_DEFINE_VAR of a function: calls prefer the last overload on a tie.   *)
Define(gs, x, v) == [y \in DOMAIN gs \cup {x} |-> IF y = x THEN v ELSE gs[y]]

Advance(o, v) == IF o.err # "none" THEN o ELSE Write(o.slots, o.globals, v.x, v.val)

(* for: s.n times s.v = s.e.                                               *)
For(s) ==
  LET run[i \in 0..s.n] ==
        IF i = 0 THEN Outcome(slots, globals, "none")
        ELSE LET o == run[i - 1]
             IN  Advance(o, [x |-> s.v, val |-> Eval(o.slots, o.globals, s.e)])
  IN  run[s.n]

(* while s.v < s.n / s.q: s.v += 1.  No loop here runs longer than the     *)
(* machine has integers.                                                   *)
While(s) ==
  LET cond(o) == Read(o.slots, o.globals, s.v)
      run[i \in 0 .. 2 * MaxInt + 2] ==
        IF i = 0 THEN Outcome(slots, globals, "none")
        ELSE LET o == run[i - 1] c == cond(o) IN
             CASE o.err # "none" -> o
               [] Failed(c) -> Outcome(o.slots, o.globals, c.e)
               [] ~Less(c, s.n, s.q) -> o
               [] OTHER -> Write(o.slots, o.globals, s.v, Sum(c, IntV(1)))
  IN  run[2 * MaxInt + 2]

(* idle: s.n times s.e for a local of the body, which ends with the round. *)
Evaluate(s) ==
  LET v == Eval(slots, globals, s.e)
  IN  Outcome(slots, globals, IF Failed(v) THEN v.e ELSE "none")

Inc(s) == Write(slots, globals, s.v, Apply("add", Read(slots, globals, s.v), IntV(1)))

Effect(s) ==
  CASE s.k = "let" -> Let(s)
    [] s.k = "set" -> Write(slots, globals, s.v, Eval(slots, globals, s.e))
    [] s.k = "inc" -> Inc(s)
    [] s.k = "for" -> For(s)
    [] s.k = "while" -> While(s)
    [] s.k = "fun" -> Outcome(slots, Define(globals, s.v, FunV(s.n)), "none")
    [] s.k \in {"idle", "out"} -> Evaluate(s)

Printed(s) == IF s.k = "out" THEN <<Eval(slots, globals, s.e)>> ELSE <<>>

----------------------------------------------------------------------------

Init ==
  /\ prog = <<>>
  /\ status = "writing"
  /\ ip = 1
  /\ slots = <<>>
  /\ globals = Preamble
  /\ out = <<>>

WriteStmt ==
  /\ status = "writing"
  /\ Len(prog) < MaxStmts
  /\ \E s \in Statements : prog' = Append(prog, s)
  /\ UNCHANGED <<status, ip, slots, globals, out>>

Start ==
  /\ status = "writing"
  /\ prog # <<>>
  /\ status' = "running"
  /\ UNCHANGED <<prog, ip, slots, globals, out>>

Take(o, printed) ==
  /\ slots' = o.slots
  /\ globals' = o.globals
  /\ out' = printed
  /\ ip' = ip + 1
  /\ status' = CASE o.err # "none" -> o.err
                 [] ip = Len(prog) -> "ended"
                 [] OTHER -> "running"
  /\ UNCHANGED prog

Execute ==
  /\ status = "running"
  /\ Take(Effect(prog[ip]), Printed(prog[ip]))

PassBy ==
  /\ status = "running"
  /\ prog[ip].guarded
  /\ Take(Outcome(slots, globals, "none"), <<>>)

Next == WriteStmt \/ Start \/ Execute \/ PassBy

Spec == Init /\ [][Next]_srcVars
=============================================================================
