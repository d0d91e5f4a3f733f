------------------------------ MODULE CodeGen ------------------------------
(***************************************************************************)
(* ByteCodeCompiler::compileStmt (src/src/compiler.cpp) for the statements *)
(* that move control or declare locals.  The parser's statement tree is    *)
(* not a value here: the tree is chosen while it is compiled, one action   *)
(* per statement and, for a statement with blocks, one action per place    *)
(* where compileStmt starts or ends a block.  `open` is the C++ stack of   *)
(* compileStmt activations with the locals each keeps (addresses to patch),*)
(* so every state is one the compiler is in while it compiles some program *)
(* of at most MaxStmts statements nested at most MaxNest deep.             *)
(*                                                                         *)
(* An expression is one instruction that leaves one value; instructions    *)
(* carry the annotations described in YVM.  Each chunk ends as emitFunction*)
(* and yrun.cpp end it, with NOTYPE and RETURN.  Compile-time loop folding *)
(* is taken to decline, as it does whenever a loop uses a global or an     *)
(* unknown local.                                                          *)
(*                                                                         *)
(* Kinds and Risks select the programs that are compiled.  A risk is a     *)
(* combination of statements; the properties say what goes wrong with it.  *)
(***************************************************************************)
EXTENDS Integers, Sequences, FiniteSets

CONSTANTS
  NumFuncs,   \* chunks are compiled in the order 1 .. NumFuncs, main last
  Kinds,      \* the statement kinds a program may use
  Risks,      \* the risky combinations it may use
  ThrowTypes, \* error types a throw statement may name
  CatchTypes, \* sets of error types a catch clause may name
  MaxStmts,   \* bound: statements of the whole program
  MaxNest,    \* bound: depth of the statement tree
  MaxClauses  \* bound: catch clauses of a try statement

ASSUME CodeGenAssumption ==
  /\ NumFuncs \in Nat \ {0}
  /\ MaxStmts \in Nat /\ MaxNest \in Nat /\ MaxClauses \in Nat \ {0}

VARIABLES
  fn,         \* the function being compiled
  chunk,      \* its chunk so far
  locals,     \* ByteCodeCompiler::locals
  scopeDepth, \* ByteCodeCompiler::scopeDepth
  loopStack,  \* ByteCodeCompiler::loopStack
  open,       \* the activations of compileStmt
  compiled,   \* the chunks of the functions compiled so far
  stmts       \* number of statements compiled, for the bound

cgVars == <<fn, chunk, locals, scopeDepth, loopStack, open, compiled, stmts>>

----------------------------------------------------------------------------
(* Sequences as stacks. *)

Last(s) == s[Len(s)]
ButLast(s, n) == SubSeq(s, 1, Len(s) - n)
SetLast(s, v) == [s EXCEPT ![Len(s)] = v]

(* The code context of the statement being compiled: the annotations of    *)
(* its instructions other than the height.                                 *)
Outermost == [hs |-> <<>>, ow |-> {}, rf |-> 0]
Ctx == IF open = <<>> THEN Outermost ELSE Last(open).ctx

(* An instruction executed at height h. *)
InsIn(ctx, op, x, y, ty, h) ==
  [op |-> op, x |-> x, y |-> y, ty |-> ty, h |-> h,
   hs |-> ctx.hs, ow |-> ctx.ow, rf |-> ctx.rf]
Ins(op, x, y, h) == InsIn(Ctx, op, x, y, {}, h)

Height == Len(locals)
Here(c) == Len(c) + 1

(* The compiler's OP_POP runs: n of them, the first at height h. *)
Pops(n, h) == [k \in 1..n |-> Ins("POP", 0, 0, h - k + 1)]

(* Variant: the patched jump lands one instruction too far. *)
PatchPast(c, addrs) ==
  [a \in DOMAIN c |-> IF a \in addrs THEN [c[a] EXCEPT !.x = Here(c) + 1] ELSE c[a]]

(* patchJump for a set of addresses: jump to the end of the code so far. *)
Patch(c, addrs) ==
  [a \in DOMAIN c |-> IF a \in addrs THEN [c[a] EXCEPT !.x = Here(c)] ELSE c[a]]

(* endScope(): scopeDepth is already decremented to d; the locals deeper   *)
(* than d at the end of the list go, with an OP_POP each.                  *)
Kept(ls, d) ==
  LET n == CHOOSE i \in 0..Len(ls) :
             /\ i = 0 \/ ls[i].depth <= d
             /\ \A j \in (i + 1)..Len(ls) : ls[j].depth > d
  IN  SubSeq(ls, 1, n)

EndScopeCode(ls, d) == Pops(Len(ls) - Len(Kept(ls, d)), Len(ls))

(* addLocal(): d is the address of the instruction that pushes the value;  *)
(* a local the compiler adds for itself has the empty name.                *)
addLocal(ls, depth, d, named) ==
  Append(ls, [depth |-> depth, d |-> d, named |-> named])

----------------------------------------------------------------------------
(* Program selection. *)

Inside(kind, arm) == open # <<>> /\ Last(open).kind = kind /\ Last(open).arm = arm
Risky(condition, risk) == condition => risk \in Risks

LoopKinds == {"while", "do", "for", "foreach", "switch"}

(* the innermost enclosing loop or switch, as an index of `open` *)
InnerLoop ==
  CHOOSE i \in DOMAIN open :
    /\ open[i].kind \in LoopKinds
    /\ \A j \in (i + 1)..Len(open) : open[j].kind \notin LoopKinds

(* A return or an error in this context runs every finally block the       *)
(* function owes.                                                          *)
PaysFinally(ctx) ==
  IF ctx.hs = <<>> THEN ctx.ow = {}
  ELSE ctx.ow \subseteq chunk[Last(ctx.hs)].ow \cup {Last(ctx.hs)}

MayRaise ==
  /\ Risky(~PaysFinally(Ctx), "error_in_catch")
  /\ Risky(Ctx.rf # 0, "busy_finally")

Begins(kind) ==
  /\ fn <= NumFuncs
  /\ kind \in Kinds
  /\ stmts < MaxStmts
  /\ stmts' = stmts + 1

Opens(kind) == Begins(kind) /\ Len(open) < MaxNest

(* An activation: kind and arm (which block is being compiled), the code   *)
(* addresses it keeps, the context of its block, for a try statement       *)
(* whether it has a finally block, whether a return enters that block and  *)
(* whether a catch clause takes every error, and, for the proofs, the      *)
(* height, the scope depth and the number of loops where it begins.        *)
Activation(kind, arm, a, b, j) ==
  [kind |-> kind, arm |-> arm, a |-> a, b |-> b, j |-> j, jumps |-> {},
   ctx |-> Ctx, fin |-> FALSE, ret |-> FALSE, all |-> FALSE,
   h |-> Height, d |-> scopeDepth, n |-> Len(loopStack)]

Loop(step, count, each, iter) ==
  [step |-> step, breaks |-> {}, continues |-> {}, count |-> count,
   each |-> each, iter |-> iter]

Same == UNCHANGED <<fn, compiled>>

----------------------------------------------------------------------------
(* Simple statements. *)

(* let: at depth 0 a global, otherwise a local living where it was pushed;  *)
(* `let x` alone gives it NoType.                                          *)
Let ==
  /\ Begins("let")
  /\ Risky(Inside("try", "body") /\ scopeDepth > 0, "let_in_try")
  /\ Risky(Inside("do", "body"), "let_in_do")
  /\ \E value \in {"CONSTANT", "NOTYPE"} :
       /\ Risky(value = "NOTYPE", "let_without_value")
       /\ IF scopeDepth > 0
            THEN /\ chunk' = Append(chunk, Ins(value, 0, 0, Height))
                 /\ locals' = addLocal(locals, scopeDepth, Here(chunk), TRUE)
            ELSE /\ chunk' = chunk \o <<Ins(value, 0, 0, Height),
                                        Ins("DEFINE_VAR", 0, 0, Height + 1)>>
                 /\ UNCHANGED locals
  /\ UNCHANGED <<scopeDepth, loopStack, open>> /\ Same

(* An expression statement reading a local. *)
Use ==
  /\ Begins("use")
  /\ \E i \in DOMAIN locals :
       /\ locals[i].named
       /\ chunk' = chunk \o <<Ins("GET_LOCAL", locals[i].d, i - 1, Height),
                              Ins("POP", 0, 0, Height + 1)>>
  /\ UNCHANGED <<locals, scopeDepth, loopStack, open>> /\ Same

(* An assignment to a local. *)
Assign ==
  /\ Begins("assign")
  /\ \E i \in DOMAIN locals :
       /\ locals[i].named
       /\ chunk' = chunk \o <<Ins("CONSTANT", 0, 0, Height),
                              Ins("SET_LOCAL", locals[i].d, i - 1, Height + 1),
                              Ins("POP", 0, 0, Height + 1)>>
  /\ UNCHANGED <<locals, scopeDepth, loopStack, open>> /\ Same

(* An expression statement that may fail. *)
Eval ==
  /\ Begins("eval")
  /\ MayRaise
  /\ chunk' = chunk \o <<Ins("NATIVE", 0, 0, Height), Ins("POP", 0, 0, Height + 1)>>
  /\ UNCHANGED <<locals, scopeDepth, loopStack, open>> /\ Same

(* A call of a function compiled earlier, or of the function itself.       *)
CallStmt ==
  /\ Begins("call")
  /\ MayRaise
  /\ Risky(Ctx.ow # {}, "call_owing_finally")
  /\ \E f \in 1..fn \ {NumFuncs} :
       /\ Risky(f = fn, "recursion")
       /\ chunk' = chunk \o <<Ins("CONSTANT", 0, 0, Height),
                              Ins("CALL", f, 0, Height + 1),
                              Ins("POP", 0, 0, Height + 1)>>
  /\ UNCHANGED <<locals, scopeDepth, loopStack, open>> /\ Same

ThrowStmt ==
  /\ Begins("throw")
  /\ MayRaise
  /\ \E t \in ThrowTypes :
       chunk' = chunk \o <<Ins("CONSTANT", 0, 0, Height),
                           Ins("CONSTANT", 0, 0, Height + 1),
                           InsIn(Ctx, "THROW", 0, 0, {t}, Height + 2)>>
  /\ UNCHANGED <<locals, scopeDepth, loopStack, open>> /\ Same

(* assert: the condition is popped on either path before the throw.        *)
AssertStmt ==
  /\ Begins("assert")
  /\ MayRaise
  /\ LET n == Len(chunk) IN
     chunk' = chunk \o
       <<Ins("CONSTANT", 0, 0, Height), Ins("JUMP_IF_FALSE", n + 5, 0, Height + 1),
         Ins("POP", 0, 0, Height + 1), Ins("JUMP", n + 9, 0, Height),
         Ins("POP", 0, 0, Height + 1),
         Ins("CONSTANT", 0, 0, Height), Ins("CONSTANT", 0, 0, Height + 1),
         InsIn(Ctx, "THROW", 0, 0, {"AssertionError"}, Height + 2)>>
  /\ UNCHANGED <<locals, scopeDepth, loopStack, open>> /\ Same

(* The try statement whose finally block intercepts a return here, as an   *)
(* index of `open`; 0 when there is none.                                  *)
Interceptor ==
  IF \E i \in DOMAIN open : open[i].kind = "try" /\ open[i].arm = "body"
  THEN LET i == CHOOSE i \in DOMAIN open :
                  /\ open[i].kind = "try" /\ open[i].arm = "body"
                  /\ \A j \in (i + 1)..Len(open) :
                       ~(open[j].kind = "try" /\ open[j].arm = "body")
       IN  IF open[i].fin THEN i ELSE 0
  ELSE 0

ReturnStmt ==
  /\ Begins("return")
  /\ Risky(Interceptor # 0, "return_in_try")
  /\ Risky(Interceptor # 0 /\ Height # chunk[open[Interceptor].a].h,
           "return_from_inner_scope")
  /\ Risky(Ctx.ow # {} /\ ~(Interceptor # 0 /\ Ctx.ow = {open[Interceptor].a}),
           "return_skipping_finally")
  /\ Risky(Ctx.rf # 0, "busy_finally")
  /\ chunk' = chunk \o <<Ins("CONSTANT", 0, 0, Height), Ins("RETURN", 0, 0, Height + 1)>>
  /\ open' = IF Interceptor = 0 THEN open
             ELSE [open EXCEPT ![Interceptor].ret = TRUE]
  /\ UNCHANGED <<locals, scopeDepth, loopStack>> /\ Same

(* A jump to the innermost loop leaves a try statement that has a handler   *)
(* in place, owes a finally block or is returning.                         *)
CrossesTry ==
  \E j \in (InnerLoop + 1)..Len(open) :
    /\ open[j].kind = "try"
    /\ \/ open[j].arm = "body"
       \/ open[j].arm = "catch" /\ open[j].fin
       \/ open[j].arm = "finally" /\ open[j].ret

(* Variant: break and continue leave the locals where they are. *)
LoopPopsNone == 0

(* break and continue pop the locals declared since the loop registered.   *)
LoopPops == Height - Last(loopStack).count

Break ==
  /\ Begins("break")
  /\ loopStack # <<>>
  /\ Risky(CrossesTry, "jump_out_of_try")
  /\ Risky(open[InnerLoop].kind = "foreach", "break_foreach")
  /\ LET c == chunk \o Pops(LoopPops, Height) IN
     /\ chunk' = Append(c, Ins("JUMP", 0, 0, Last(loopStack).count))
     /\ loopStack' = SetLast(loopStack,
                       [Last(loopStack) EXCEPT !.breaks = @ \cup {Here(c)}])
  /\ UNCHANGED <<locals, scopeDepth, open>> /\ Same

(* continue jumps to the step when its address is known; otherwise the     *)
(* jump is left to the loop to patch.                                      *)
Continue ==
  /\ Begins("continue")
  /\ loopStack # <<>>
  /\ Risky(CrossesTry, "jump_out_of_try")
  /\ Risky(open[InnerLoop].kind = "switch", "continue_in_switch")
  /\ LET c == chunk \o Pops(LoopPops, Height)
         l == Last(loopStack) IN
     IF l.step = 0
       THEN /\ chunk' = Append(c, Ins("JUMP", 0, 0, l.count))
            /\ loopStack' = SetLast(loopStack, [l EXCEPT !.continues = @ \cup {Here(c)}])
       ELSE /\ chunk' = Append(c, Ins("LOOP", l.step, 0, l.count))
            /\ UNCHANGED loopStack
  /\ UNCHANGED <<locals, scopeDepth, open>> /\ Same

(* skip(n), in a for-each loop only.  x names the declaration of the       *)
(* iterator the slot must hold.                                            *)
Skip ==
  /\ Begins("skip")
  /\ MayRaise
  /\ loopStack # <<>> /\ Last(loopStack).each
  /\ chunk' = chunk \o
       <<Ins("CONSTANT", 0, 0, Height),
         Ins("SKIP_ITER", locals[Last(loopStack).iter + 1].d, Last(loopStack).iter,
             Height + 1)>>
  /\ UNCHANGED <<locals, scopeDepth, loopStack, open>> /\ Same

----------------------------------------------------------------------------
(* Blocks.  `end` is the code up to the end of the innermost block, after  *)
(* endScope; EndHeight the height there.                                   *)

Cur == Last(open)
Close == open' = ButLast(open, 1)
After == Kept(locals, scopeDepth - 1)
EndHeight == Len(After)
BlockEnd == chunk \o EndScopeCode(locals, scopeDepth - 1)

(* Variant: the condition is not popped when it is true. *)
ConditionKept(h) ==
  <<Ins("CONSTANT", 0, 0, h), Ins("JUMP_IF_FALSE", 0, 0, h + 1)>>

(* if, elif and else: each arm ends with a jump to the end.                *)
Condition(h) ==
  <<Ins("CONSTANT", 0, 0, h), Ins("JUMP_IF_FALSE", 0, 0, h + 1),
    Ins("POP", 0, 0, h + 1)>>

IfOpen ==
  /\ Opens("if")
  /\ chunk' = chunk \o Condition(Height)
  /\ open' = Append(open, Activation("if", "then", 0, 0, Len(chunk) + 2))
  /\ scopeDepth' = scopeDepth + 1
  /\ UNCHANGED <<locals, loopStack>> /\ Same

ArmEnd == Append(BlockEnd, Ins("JUMP", 0, 0, EndHeight))
NextArm == Append(Patch(ArmEnd, {Cur.j}), Ins("POP", 0, 0, EndHeight + 1))
ArmExits == Cur.jumps \cup {Len(ArmEnd)}

Elif ==
  /\ Begins("elif")
  /\ Inside("if", "then")
  /\ chunk' = NextArm \o Condition(EndHeight)
  /\ open' = SetLast(open, [Cur EXCEPT !.jumps = ArmExits, !.j = Len(NextArm) + 2])
  /\ locals' = After
  /\ UNCHANGED <<scopeDepth, loopStack>> /\ Same

Else ==
  /\ Begins("else")
  /\ Inside("if", "then")
  /\ chunk' = NextArm
  /\ open' = SetLast(open, [Cur EXCEPT !.jumps = ArmExits, !.arm = "else"])
  /\ locals' = After
  /\ UNCHANGED <<scopeDepth, loopStack>> /\ Same

IfClose ==
  /\ \/ Inside("if", "then") /\ chunk' = Patch(NextArm, ArmExits)
     \/ Inside("if", "else") /\ chunk' = Patch(BlockEnd, Cur.jumps)
  /\ locals' = After
  /\ scopeDepth' = scopeDepth - 1
  /\ Close
  /\ UNCHANGED <<loopStack, stmts>> /\ Same

(* while, with its optimized form for `local < number`.                    *)
WhileOpen ==
  /\ Opens("while")
  /\ LET start == Here(chunk) IN
     /\ \/ /\ chunk' = chunk \o Condition(Height)
           /\ open' = Append(open, Activation("while", "cond", start, 0, start + 1))
        \/ /\ MayRaise
           /\ \E i \in DOMAIN locals :
                /\ locals[i].named
                /\ chunk' = Append(chunk, Ins("JUMP_IF_NOT_LT", 0, i - 1, Height))
           /\ open' = Append(open, Activation("while", "lt", start, 0, start))
     /\ loopStack' = Append(loopStack, Loop(start, Height, FALSE, 0))
  /\ scopeDepth' = scopeDepth + 2
  /\ UNCHANGED locals /\ Same

WhileClose ==
  /\ Inside("while", "cond") \/ Inside("while", "lt")
  /\ LET looped == Append(BlockEnd, Ins("LOOP", Cur.a, 0, EndHeight))
         exited == Patch(looped, {Cur.j})
         popped == IF Cur.arm = "lt" THEN exited
                   ELSE Append(exited, Ins("POP", 0, 0, EndHeight + 1))
     IN  chunk' = Patch(popped, Last(loopStack).breaks)
  /\ locals' = After
  /\ scopeDepth' = scopeDepth - 2
  /\ loopStack' = ButLast(loopStack, 1)
  /\ Close
  /\ UNCHANGED stmts /\ Same

(* do-while: the condition is compiled, and the loop closed, before the    *)
(* block's locals are popped.                                              *)
DoOpen ==
  /\ Opens("do")
  /\ open' = Append(open, Activation("do", "body", Here(chunk), 0, 0))
  /\ loopStack' = Append(loopStack, Loop(0, Height, FALSE, 0))
  /\ scopeDepth' = scopeDepth + 1
  /\ UNCHANGED <<chunk, locals>> /\ Same

DoClose ==
  /\ Inside("do", "body")
  /\ LET resumed == Patch(chunk, Last(loopStack).continues)
         looped  == resumed \o Condition(Height)
                      \o <<Ins("LOOP", Cur.a, 0, Height)>>
         exited  == Append(Patch(looped, {Len(resumed) + 2}),
                           Ins("POP", 0, 0, Height + 1))
     IN  chunk' = Patch(exited, Last(loopStack).breaks)
                    \o EndScopeCode(locals, scopeDepth - 1)
  /\ locals' = After
  /\ scopeDepth' = scopeDepth - 1
  /\ loopStack' = ButLast(loopStack, 1)
  /\ Close
  /\ UNCHANGED stmts /\ Same

(* for: an optional `let` as initialiser, an optional condition (j is its  *)
(* jump), and an expression as step.                                       *)
ForOpen ==
  /\ Opens("for")
  /\ \E init, cond \in BOOLEAN :
       LET ls   == IF init THEN addLocal(locals, scopeDepth + 1, Here(chunk), TRUE)
                   ELSE locals
           c    == IF init THEN Append(chunk, Ins("CONSTANT", 0, 0, Height)) ELSE chunk
           h    == Len(ls)
           exit == IF cond THEN Here(c) + 1 ELSE 0
       IN  /\ chunk' = IF cond THEN c \o Condition(h) ELSE c
           /\ locals' = ls
           /\ loopStack' = Append(loopStack, Loop(0, h, FALSE, 0))
           /\ open' = Append(open, Activation("for", "body", Here(c), 0, exit))
  /\ scopeDepth' = scopeDepth + 2
  /\ Same

ForClose ==
  /\ Inside("for", "body")
  /\ LET resumed == Patch(BlockEnd, Last(loopStack).continues)
         looped  == resumed \o <<Ins("CONSTANT", 0, 0, EndHeight),
                                 Ins("POP", 0, 0, EndHeight + 1),
                                 Ins("LOOP", Cur.a, 0, EndHeight)>>
         exited  == IF Cur.j = 0 THEN looped
                    ELSE Append(Patch(looped, {Cur.j}), Ins("POP", 0, 0, EndHeight + 1))
     IN  /\ chunk' = Patch(exited, Last(loopStack).breaks)
                       \o EndScopeCode(After, scopeDepth - 2)
         /\ locals' = Kept(After, scopeDepth - 2)
  /\ scopeDepth' = scopeDepth - 2
  /\ loopStack' = ButLast(loopStack, 1)
  /\ Close
  /\ UNCHANGED stmts /\ Same

(* for-each over n streams (two for a dictionary): the streams and the     *)
(* counter are anonymous locals, the loop variables named ones.  a is the  *)
(* address of OP_FOR_ITER, b the number of streams.                        *)
ForEachOpen ==
  /\ Opens("foreach")
  /\ MayRaise
  /\ \E n \in 1..2 :
       LET at == Here(chunk)
           ls == locals \o [k \in 1..n |-> [depth |-> scopeDepth + 1,
                                           d |-> at + k - 1, named |-> FALSE]]
           counted == addLocal(ls, scopeDepth + 1, at + n, FALSE)
           iter == at + n + 1
           vars == [k \in 1..n |-> [depth |-> scopeDepth + 2, d |-> iter, named |-> TRUE]]
       IN  /\ chunk' = chunk \o [k \in 1..n |-> Ins("NATIVE", 0, 0, Height + k - 1)]
                         \o <<Ins("CONSTANT", 0, 0, Height + n),
                              Ins("FOR_ITER", 0, n, Height + n + 1)>>
           /\ locals' = counted \o vars
           /\ loopStack' = Append(loopStack,
                 Loop(iter, Len(counted), TRUE, Len(counted) - 1))
           /\ open' = Append(open, Activation("foreach", "body", iter, n, 0))
  /\ scopeDepth' = scopeDepth + 3
  /\ Same

ForEachClose ==
  /\ Inside("foreach", "body")
  /\ LET n       == Cur.b
         looped  == BlockEnd \o Pops(n, EndHeight)
                      \o <<Ins("LOOP", Cur.a, 0, EndHeight - n)>>
         outer   == Kept(After, scopeDepth - 2)
         exited  == Patch(looped, {Cur.a}) \o Pops(n + 1, Len(outer))
     IN  /\ chunk' = Patch(exited, Last(loopStack).breaks)
         /\ locals' = ButLast(outer, n + 1)
  /\ scopeDepth' = scopeDepth - 3
  /\ loopStack' = ButLast(loopStack, 1)
  /\ Close
  /\ UNCHANGED stmts /\ Same

(* switch, as a linear scan: the value is an anonymous local; a case that  *)
(* ends pops it and starts the statement again.                            *)
Case(c, h) ==
  c \o <<Ins("GET_LOCAL", 0, h - 1, h), Ins("CONSTANT", 0, 0, h + 1),
         Ins("POP2_PUSH", 0, 0, h + 2), Ins("JUMP_IF_FALSE", 0, 0, h + 1),
         Ins("POP", 0, 0, h + 1)>>

SwitchOpen ==
  /\ Opens("switch")
  /\ LET c == Append(chunk, Ins("CONSTANT", 0, 0, Height)) IN
     /\ locals' = addLocal(locals, scopeDepth + 1, Here(chunk), FALSE)
     /\ chunk' = Case(c, Height + 1)
     /\ loopStack' = Append(loopStack, Loop(0, Height + 1, FALSE, 0))
     /\ open' = Append(open, Activation("switch", "case", Here(chunk), 0, Len(c) + 4))
  /\ scopeDepth' = scopeDepth + 2
  /\ Same

Restart == BlockEnd \o <<Ins("POP", 0, 0, EndHeight),
                         Ins("LOOP", Cur.a, 0, EndHeight - 1)>>
CaseEnd == Append(Patch(Restart, {Cur.j}), Ins("POP", 0, 0, EndHeight + 1))

SwitchCase ==
  /\ Begins("case")
  /\ Inside("switch", "case")
  /\ chunk' = Case(CaseEnd, EndHeight)
  /\ open' = SetLast(open, [Cur EXCEPT !.j = Len(CaseEnd) + 4])
  /\ locals' = After
  /\ UNCHANGED <<scopeDepth, loopStack>> /\ Same

SwitchDefault ==
  /\ Inside("switch", "case")
  /\ chunk' = CaseEnd
  /\ open' = SetLast(open, [Cur EXCEPT !.arm = "default"])
  /\ locals' = After
  /\ UNCHANGED <<scopeDepth, loopStack, stmts>> /\ Same

SwitchClose ==
  /\ Inside("switch", "default")
  /\ chunk' = Patch(Restart, Last(loopStack).breaks)
                 \o EndScopeCode(After, scopeDepth - 2)
  /\ locals' = Kept(After, scopeDepth - 2)
  /\ scopeDepth' = scopeDepth - 2
  /\ loopStack' = ButLast(loopStack, 1)
  /\ Close
  /\ UNCHANGED stmts /\ Same

----------------------------------------------------------------------------
(* try.  The body opens no scope; a catch clause and the finally block do. *)
(* a is the address of OP_TRY_ENTER, b of the jump over the catch clauses, *)
(* j of the jump to the next clause.  The else block is not compiled.      *)

TryOpen ==
  /\ Opens("try")
  /\ \E fin \in (IF "finally" \in Kinds THEN BOOLEAN ELSE {FALSE}) :
       LET at  == Here(chunk)
           ctx == [hs |-> Append(Ctx.hs, at),
                   ow |-> IF fin THEN Ctx.ow \cup {at} ELSE Ctx.ow,
                   rf |-> Ctx.rf]
       IN  open' = Append(open,
             [Activation("try", "body", at, 0, 0) EXCEPT !.fin = fin, !.ctx = ctx])
  /\ Risky(Ctx.rf # 0, "busy_finally")
  /\ chunk' = Append(chunk, Ins("TRY_ENTER", 0, 0, Height))
  /\ UNCHANGED <<locals, scopeDepth, loopStack>> /\ Same

(* the context of the catch clauses, and of what follows the statement *)
CatchCtx == IF Cur.arm = "body" THEN [Ctx EXCEPT !.hs = ButLast(@, 1)] ELSE Ctx
AfterCtx == [CatchCtx EXCEPT !.ow = @ \ {Cur.a}]

(* The code up to the place where the next catch clause or the rethrow     *)
(* begins; the error is on top of the stack there.                         *)
BodyDone ==
  LET c == chunk \o <<Ins("TRY_EXIT", 0, 0, Height),
                      InsIn(CatchCtx, "JUMP", 0, 0, {}, Height)>>
  IN  [c EXCEPT ![Cur.a].x = Here(c)]

(* Variant: the verdict of the clause that did not match stays. *)
ClauseDoneKept ==
  LET c == Append(BlockEnd, Ins("JUMP", 0, 0, EndHeight))
  IN  Patch(c, {Cur.j})

ClauseDone ==
  LET c == Append(BlockEnd, Ins("JUMP", 0, 0, EndHeight))
  IN  Append(Patch(c, {Cur.j}), Ins("POP", 0, 0, EndHeight + 2))

NextClause == IF Cur.arm = "body" THEN BodyDone ELSE ClauseDone
ClauseLocals == IF Cur.arm = "body" THEN locals ELSE After
SkipJump == IF Cur.arm = "body" THEN Len(BodyDone) ELSE Cur.b
Exits == IF Cur.arm = "body" THEN {} ELSE Cur.jumps \cup {Len(ClauseDone) - 1}

Clauses == IF Cur.arm = "body" THEN 0 ELSE Cardinality(Cur.jumps) + 1

(* An error no clause takes is rethrown where the statement stands, before *)
(* its own finally block.                                                  *)
MayRethrow ==
  IF Cur.fin THEN Risky(TRUE, "finally_without_catch_all")
  ELSE Risky(~PaysFinally(CatchCtx), "error_in_catch")

CatchClause ==
  /\ Inside("try", "body") \/ Inside("try", "catch")
  /\ "catch" \in Kinds
  /\ Clauses < MaxClauses
  /\ \E types \in CatchTypes :
       LET h == Len(ClauseLocals) IN
       /\ ~Cur.all /\ "Error" \notin types /\ Clauses + 1 = MaxClauses => MayRethrow
       /\ chunk' = NextClause \o
            <<InsIn(CatchCtx, "CATCH", 0, 0, types, h + 1),
              InsIn(CatchCtx, "JUMP_IF_FALSE", 0, 0, {}, h + 2),
              InsIn(CatchCtx, "POP", 0, 0, {}, h + 2),
              InsIn(CatchCtx, "POP", 0, 0, {}, h + 1)>>
       /\ open' = SetLast(open,
            [Cur EXCEPT !.arm = "catch", !.b = SkipJump, !.j = Len(NextClause) + 2,
                        !.jumps = Exits, !.ctx = CatchCtx,
                        !.all = @ \/ "Error" \in types])
  /\ locals' = ClauseLocals
  /\ scopeDepth' = IF Cur.arm = "body" THEN scopeDepth + 1 ELSE scopeDepth
  /\ UNCHANGED <<loopStack, stmts>> /\ Same

(* The rethrow of an error no clause took, and the landing of every jump.  *)
ClausesDone ==
  LET c == Append(NextClause,
                  InsIn(CatchCtx, "RETHROW", 0, 0, {}, Len(ClauseLocals) + 1))
  IN  Patch(c, Exits \cup {SkipJump})

ScopeOutside == IF Cur.arm = "body" THEN scopeDepth ELSE scopeDepth - 1

TryClose ==
  /\ Inside("try", "body") \/ Inside("try", "catch")
  /\ ~Cur.fin
  /\ ~Cur.all => MayRethrow
  /\ chunk' = ClausesDone
  /\ locals' = ClauseLocals
  /\ scopeDepth' = ScopeOutside
  /\ Close
  /\ UNCHANGED <<loopStack, stmts>> /\ Same

FinallyOpen ==
  /\ Inside("try", "body") \/ Inside("try", "catch")
  /\ Cur.fin
  /\ ~Cur.all => MayRethrow
  /\ chunk' = [ClausesDone EXCEPT ![Cur.a].y = Here(ClausesDone)]
  /\ open' = SetLast(open, [Cur EXCEPT !.arm = "finally",
                !.ctx = [AfterCtx EXCEPT !.rf = IF Cur.ret THEN Cur.a ELSE @]])
  /\ locals' = ClauseLocals
  /\ scopeDepth' = ScopeOutside + 1
  /\ UNCHANGED <<loopStack, stmts>> /\ Same

FinallyClose ==
  /\ Inside("try", "finally")
  /\ chunk' = Append(BlockEnd, Ins("END_FINALLY", 0, 0, EndHeight))
  /\ locals' = After
  /\ scopeDepth' = scopeDepth - 1
  /\ Close
  /\ UNCHANGED <<loopStack, stmts>> /\ Same

----------------------------------------------------------------------------
(* The end of a chunk.  emitFunction opens a scope for the parameters (none *)
(* here) before the body; the main program starts at depth 0.              *)

FirstDepth(f) == IF f = NumFuncs THEN 0 ELSE 1

FinishChunk ==
  /\ fn <= NumFuncs
  /\ open = <<>>
  /\ compiled' = [compiled EXCEPT ![fn] =
       chunk \o <<Ins("NOTYPE", 0, 0, Height), Ins("RETURN", 0, 0, Height + 1)>>]
  /\ fn' = fn + 1
  /\ chunk' = <<>>
  /\ locals' = <<>>
  /\ scopeDepth' = FirstDepth(fn + 1)
  /\ UNCHANGED <<loopStack, open, stmts>>

Compiled == fn > NumFuncs

CGInit ==
  /\ fn = 1
  /\ chunk = <<>>
  /\ locals = <<>>
  /\ scopeDepth = FirstDepth(1)
  /\ loopStack = <<>>
  /\ open = <<>>
  /\ compiled = [f \in 1..NumFuncs |-> <<>>]
  /\ stmts = 0

CGStep ==
  \/ Let \/ Use \/ Assign \/ Eval \/ CallStmt \/ ThrowStmt \/ AssertStmt \/ ReturnStmt
  \/ Break \/ Continue \/ Skip
  \/ IfOpen \/ Elif \/ Else \/ IfClose
  \/ WhileOpen \/ WhileClose \/ DoOpen \/ DoClose \/ ForOpen \/ ForClose
  \/ ForEachOpen \/ ForEachClose
  \/ SwitchOpen \/ SwitchCase \/ SwitchDefault \/ SwitchClose
  \/ TryOpen \/ CatchClause \/ TryClose \/ FinallyOpen \/ FinallyClose
  \/ FinishChunk

CGNext == CGStep \/ (Compiled /\ UNCHANGED cgVars)

CGSpec == CGInit /\ [][CGNext]_cgVars
============================================================================
