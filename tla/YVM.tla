-------------------------------- MODULE YVM --------------------------------
(***************************************************************************)
(* The control core of VM::run (src/src/vm.cpp): the value stack, the call *)
(* frames, calls and returns, and the exception machinery (TRY_ENTER,      *)
(* TRY_EXIT, THROW, CATCH, RETHROW, END_FINALLY and the catch handler of   *)
(* the dispatch loop).                                                     *)
(*                                                                         *)
(* A chunk is a sequence of instructions; an address is an index into it   *)
(* (one per instruction, where the code counts bytes), and 0 stands for    *)
(* "no address": an absent finally block, or a jump nobody patched.  A     *)
(* data value is abstracted to the address of the instruction that pushed  *)
(* it, which is enough to tell variables apart, and to whether it is the   *)
(* value NoType; its truth value is a nondeterministic choice.             *)
(*                                                                         *)
(* Every instruction carries three annotations that the machine never      *)
(* reads: what the compiler believes of the machine when the instruction   *)
(* is about to execute.                                                    *)
(*   h    the height of the stack above the frame's base,                  *)
(*   hs   the TRY_ENTER addresses of the enclosing try bodies, outermost   *)
(*        first,                                                           *)
(*   ow   the TRY_ENTER addresses of the enclosing try statements that     *)
(*        still owe the execution of their finally block,                  *)
(*   rf   the TRY_ENTER address of the try statement whose finally block   *)
(*        this is, when a return may have entered it; 0 elsewhere.         *)
(***************************************************************************)
EXTENDS Integers, Sequences, FiniteSets

CONSTANTS
  Funcs,       \* function chunks, a set of numbers; the main chunk is one
  Main,        \* the chunk VM::run is given
  ErrTypes,    \* the error types of the program
  Warnings,    \* those of them the dispatch loop prints and steps over
  Parent,      \* the parentMap of OP_CATCH, "none" for a root
  StackLimit,  \* OP_CALL raises RecursionError above this height (65000)
  Programs     \* the compiled programs the machine may be started on

ASSUME FuncsAssumption == Funcs \subseteq Nat /\ Main \in Funcs
ASSUME ErrTypesAssumption ==
  /\ {"RuntimeError", "TypeError", "IndexError",
    "RecursionError"} \subseteq ErrTypes \ Warnings
  /\ Warnings \subseteq ErrTypes
  /\ Parent \in [ErrTypes -> ErrTypes \cup {"none"}]
ASSUME StackLimitAssumption == StackLimit \in Nat

VARIABLES
  code,          \* the chunks
  frames,        \* VM::frames, the ip register kept in the top frame
  stack,         \* VM::stack
  isReturning,   \* the local flag of VM::run, one for all frames
  pendingReturn, \* the local of VM::run it guards
  status,        \* how the run stands
  skipped        \* history: a finally block that was owed never ran

vmVars == <<code, frames, stack, isReturning, pendingReturn, status, skipped>>

Ops == {"CONSTANT", "NOTYPE", "NATIVE", "GET_LOCAL", "SET_LOCAL", "POP", "POP2_PUSH",
        "DEFINE_VAR", "JUMP", "LOOP", "JUMP_IF_FALSE", "JUMP_IF_NOT_LT", "FOR_ITER", "CALL",
        "RETURN", "TRY_ENTER", "TRY_EXIT", "THROW", "CATCH", "RETHROW",
        "END_FINALLY", "SKIP_ITER"}

Instruction ==
  [op : Ops, x : Nat, y : Nat, ty : SUBSET ErrTypes,
   h : Nat, hs : Seq(Nat), ow : SUBSET Nat, rf : Nat]

(* A program: a chunk for each function, with calls of functions only.     *)
CallsNameFunctions(c) ==
  \A f \in Funcs : \A p \in DOMAIN c[f] : c[f][p].op = "CALL" => c[f][p].x \in Funcs

IsProgram(c) == c \in [Funcs -> Seq(Instruction)] /\ CallsNameFunctions(c)

Value == ({"val", "notype"} \X Nat) \cup ({"err"} \X ErrTypes) \cup ({"bool"} \X BOOLEAN)

Handler ==
  [enter : Nat, depth : Nat, catch : Nat, fin : Nat, inside : BOOLEAN]

Frame ==
  [fn : Funcs, ip : Nat, base : Nat, handlers : Seq(Handler), owed : SUBSET Nat]

----------------------------------------------------------------------------
(* Helpers on sequences used as stacks. *)

Top(s) == s[Len(s)]
Drop(s, n) == SubSeq(s, 1, Len(s) - n)
ReplaceTop(s, v) == [s EXCEPT ![Len(s)] = v]

frame == Top(frames)
chunkOf(f) == code[f.fn]
instr == chunkOf(frame)[frame.ip]

(* Moving the instruction pointer.  Reaching a finally block settles the   *)
(* debt of its try statement, whatever brought the machine there.          *)
Settled(f, owed, a) == {e \in owed : chunkOf(f)[e].y # a}

Move(f, a, handlers, owed) ==
  [f EXCEPT !.ip = a, !.handlers = handlers, !.owed = Settled(f, owed, a)]

GotoWith(a, handlers) ==
  frames' = ReplaceTop(frames, Move(frame, a, handlers, frame.owed))
Goto(a) == GotoWith(a, frame.handlers)

----------------------------------------------------------------------------
(* Undefined behaviour: Value pop() and stack.back() on an empty vector,   *)
(* an index beyond the end, an instruction pointer outside the chunk.      *)

Operands(op) ==
  CASE op \in {"THROW", "POP2_PUSH"} -> 2
    [] op \in {"RETURN", "JUMP_IF_FALSE", "DEFINE_VAR", "FOR_ITER", "CALL",
               "CATCH", "RETHROW", "SKIP_ITER", "SET_LOCAL"} -> 1
    [] OTHER -> 0

Defined ==
  /\ frame.ip \in DOMAIN chunkOf(frame)
  /\ Len(stack) >= Operands(instr.op)
  /\ instr.op = "FOR_ITER" => Len(stack) >= 1 + instr.y
  /\ instr.op \in {"GET_LOCAL", "SET_LOCAL", "JUMP_IF_NOT_LT"} =>
       frame.base + instr.y < Len(stack)

Fetch(op) == status = "running" /\ Defined /\ instr.op = op

Undefined ==
  /\ status = "running"
  /\ ~Defined
  /\ status' = "undefined"
  /\ UNCHANGED <<code, frames, stack, isReturning, pendingReturn, skipped>>

----------------------------------------------------------------------------
(* The catch clause of VM::run.  `st` is the stack at the throw.  Only the *)
(* current frame's handler stack is consulted; a warning is printed and    *)
(* the machine goes on at the next instruction.                            *)

Raise(t, st) ==
  LET hd == Top(frame.handlers) IN
  \/ /\ t \in Warnings
     /\ stack' = st
     /\ Goto(frame.ip + 1)
     /\ UNCHANGED <<status, skipped>>
  \/ /\ t \notin Warnings
     /\ frame.handlers = <<>>
     /\ stack' = st
     /\ status' = "uncaught"
     /\ skipped' = (skipped \/ \E i \in DOMAIN frames : frames[i].owed # {})
     /\ UNCHANGED frames
  \/ /\ t \notin Warnings
     /\ frame.handlers # <<>>
     /\ stack' = Append(IF Len(st) > hd.depth THEN SubSeq(st, 1, hd.depth)
                                              ELSE st, <<"err", t>>)
     /\ GotoWith(hd.catch, Drop(frame.handlers, 1))
     /\ UNCHANGED <<status, skipped>>

Pushes(v) == stack' = Append(stack, v) /\ Goto(frame.ip + 1)

Unchanging == UNCHANGED <<code, isReturning, pendingReturn>>

(* OP_CONSTANT, and any expression that leaves one value and cannot fail.  *)
Constant ==
  /\ Fetch("CONSTANT")
  /\ Pushes(<<"val", frame.ip>>)
  /\ Unchanging /\ UNCHANGED <<status, skipped>>

(* OP_NOTYPE: the value of a variable declared without one, and what a     *)
(* chunk that reaches its end returns.                                     *)
NoType ==
  /\ Fetch("NOTYPE")
  /\ Pushes(<<"notype", frame.ip>>)
  /\ Unchanging /\ UNCHANGED <<status, skipped>>

(* An expression that may fail: a native call, an arithmetic operator.     *)
Native ==
  /\ Fetch("NATIVE")
  /\ \/ Pushes(<<"val", frame.ip>>) /\ UNCHANGED <<status, skipped>>
     \/ Raise("RuntimeError", stack)
  /\ Unchanging

(* The throw of CTLEAbort, an exception no handler stack is consulted for:  *)
(* it leaves VM::run and ends the program.                                 *)
Abort ==
  /\ status' = "aborted"
  /\ skipped' = (skipped \/ \E i \in DOMAIN frames : frames[i].owed # {})
  /\ UNCHANGED <<frames, stack>>

Slot == frame.base + instr.y + 1

(* OP_GET_LOCAL: y is the slot.  Reading NoType aborts.                    *)
GetLocal ==
  /\ Fetch("GET_LOCAL")
  /\ \/ stack[Slot][1] # "notype" /\ Pushes(stack[Slot]) /\ UNCHANGED <<status, skipped>>
     \/ stack[Slot][1] = "notype" /\ Abort
  /\ Unchanging

(* OP_SET_LOCAL writes slot y and leaves the value on the stack.  The       *)
(* written value is labelled with the variable the compiler meant, x.  No   *)
(* variable here is constant or locked to a type.                          *)
SetLocal ==
  /\ Fetch("SET_LOCAL")
  /\ stack' = [stack EXCEPT ![Slot] =
                 <<IF Top(stack)[1] = "notype" THEN "notype" ELSE "val", instr.x>>]
  /\ Goto(frame.ip + 1)
  /\ Unchanging /\ UNCHANGED <<status, skipped>>

(* OP_POP does nothing on an empty stack.                                  *)
Pop ==
  /\ Fetch("POP")
  /\ stack' = IF stack = <<>> THEN stack ELSE Drop(stack, 1)
  /\ Goto(frame.ip + 1)
  /\ Unchanging /\ UNCHANGED <<status, skipped>>

(* OP_STRICT_EQ and the binary operators that cannot fail.                 *)
Pop2Push ==
  /\ Fetch("POP2_PUSH")
  /\ stack' = Append(Drop(stack, 2), <<"val", frame.ip>>)
  /\ Goto(frame.ip + 1)
  /\ Unchanging /\ UNCHANGED <<status, skipped>>

(* OP_DEFINE_VAR: the globals are not modelled here.                       *)
DefineVar ==
  /\ Fetch("DEFINE_VAR")
  /\ stack' = Drop(stack, 1)
  /\ Goto(frame.ip + 1)
  /\ Unchanging /\ UNCHANGED <<status, skipped>>

(* OP_JUMP and OP_LOOP.                                                    *)
Jump ==
  /\ Fetch("JUMP") \/ Fetch("LOOP")
  /\ Goto(instr.x)
  /\ UNCHANGED stack
  /\ Unchanging /\ UNCHANGED <<status, skipped>>

(* OP_JUMP_IF_FALSE leaves the condition on the stack.                     *)
JumpIfFalse ==
  /\ Fetch("JUMP_IF_FALSE")
  /\ \/ Top(stack) # <<"bool", FALSE>> /\ Goto(frame.ip + 1)
     \/ Top(stack) # <<"bool", TRUE>> /\ Goto(instr.x)
  /\ UNCHANGED stack
  /\ Unchanging /\ UNCHANGED <<status, skipped>>

(* OP_JUMP_IF_NOT_LT compares local y with a constant and leaves nothing.  *)
JumpIfNotLt ==
  /\ Fetch("JUMP_IF_NOT_LT")
  /\ \/ /\ stack[Slot][1] # "notype"
        /\ Goto(frame.ip + 1) \/ Goto(instr.x)
        /\ UNCHANGED <<stack, status, skipped>>
     \/ stack[Slot][1] # "notype" /\ Raise("TypeError", stack)
     \/ stack[Slot][1] = "notype" /\ Abort
  /\ Unchanging

(* OP_FOR_ITER over y streams: push the next element of each, leave the    *)
(* loop when the shortest is exhausted, or fail on a value that is not     *)
(* iterable.                                                               *)
ForIter ==
  /\ Fetch("FOR_ITER")
  /\ \/ /\ stack' = stack \o [k \in 1..instr.y |-> <<"val", frame.ip>>]
        /\ Goto(frame.ip + 1)
        /\ UNCHANGED <<status, skipped>>
     \/ Goto(instr.x) /\ UNCHANGED <<stack, status, skipped>>
     \/ Raise("TypeError", stack)
  /\ Unchanging

(* OP_SKIP_ITER advances the iterator in slot y by the popped amount, which *)
(* the data abstraction does not see.                                      *)
SkipIter ==
  /\ Fetch("SKIP_ITER")
  /\ LET st == Drop(stack, 1) IN
     \/ /\ frame.base + instr.y < Len(st)
        /\ stack' = st
        /\ Goto(frame.ip + 1)
        /\ UNCHANGED <<status, skipped>>
     \/ Raise("TypeError", st)
     \/ /\ frame.base + instr.y >= Len(st)
        /\ Raise("IndexError", st)
  /\ Unchanging

(* OP_CALL of a user function without parameters: the callee is popped and *)
(* the new frame starts at the resulting height.                           *)
NewFrame(f, base) ==
  [fn |-> f, ip |-> 1, base |-> base, handlers |-> <<>>, owed |-> {}]

Call ==
  /\ Fetch("CALL")
  /\ \/ /\ Len(stack) > StackLimit
        /\ Raise("RecursionError", stack)
     \/ /\ Len(stack) <= StackLimit
        /\ stack' = Drop(stack, 1)
        /\ frames' = Append(
             ReplaceTop(frames, Move(frame, frame.ip + 1, frame.handlers, frame.owed)),
             NewFrame(instr.x, Len(stack) - 1))
        /\ UNCHANGED <<status, skipped>>
  /\ Unchanging

(* vector::resize, which fills with Value().                               *)
Resize(st, n) == [i \in 1..n |-> IF i <= Len(st) THEN st[i] ELSE <<"notype", 0>>]

(* A function without a declared return type returns NoType as None.       *)
Returned(v) == IF v[1] = "notype" THEN <<"val", 0>> ELSE v

(* The part of OP_RETURN after execute_return that leaves the frame with   *)
(* the result on top of `st`.  Leaving the main frame does not shrink the  *)
(* stack.  No function here is a constructor, memoised or has a return     *)
(* type.                                                                   *)
Leave(st) ==
  LET result == Returned(Top(st))
      below  == Drop(frames, 1) IN
  /\ frames' = below
  /\ skipped' = (skipped \/ frame.owed # {})
  /\ IF below = <<>>
       THEN stack' = st /\ status' = "done"
       ELSE /\ stack' = Append(Resize(st, frame.base), result)
            /\ UNCHANGED status

(* Variant: the test of `inside` forgets its negation. *)
InterceptsOnlyInside(f) ==
  /\ f.handlers # <<>>
  /\ Top(f.handlers).fin # 0
  /\ Top(f.handlers).inside

Intercepts(f) ==
  /\ f.handlers # <<>>
  /\ Top(f.handlers).fin # 0
  /\ ~Top(f.handlers).inside

(* Variant: the handler is not marked as running its finally block. *)
EnterFinallyUnmarked == Goto(Top(frame.handlers).fin)

EnterFinally ==
  LET hd == Top(frame.handlers) IN
  GotoWith(hd.fin, ReplaceTop(frame.handlers, [hd EXCEPT !.inside = TRUE]))

(* OP_RETURN: the innermost handler, if it has a finally block not yet     *)
(* entered, intercepts the return; the other handlers are not consulted.   *)
Return ==
  /\ Fetch("RETURN")
  /\ \/ /\ Intercepts(frame)
        /\ isReturning' = TRUE
        /\ pendingReturn' = Top(stack)
        /\ stack' = Drop(stack, 1)
        /\ EnterFinally
        /\ UNCHANGED <<status, skipped>>
     \/ /\ ~Intercepts(frame)
        /\ Leave(stack)
        /\ UNCHANGED <<isReturning, pendingReturn>>
  /\ UNCHANGED code

(* OP_END_FINALLY: isReturning belongs to VM::run and not to the frame, so *)
(* the flag may have been raised by any other frame.                       *)
EndFinally ==
  /\ Fetch("END_FINALLY")
  /\ \/ /\ ~isReturning
        /\ Goto(frame.ip + 1)
        /\ UNCHANGED <<stack, isReturning, pendingReturn, status, skipped>>
     \/ /\ isReturning
        /\ ~Intercepts(frame)
        /\ isReturning' = FALSE
        /\ Leave(Append(stack, pendingReturn))
        /\ UNCHANGED pendingReturn
     \/ /\ isReturning
        /\ Intercepts(frame)
        /\ EnterFinally
        /\ UNCHANGED <<stack, isReturning, pendingReturn, status, skipped>>
  /\ UNCHANGED code

(* Variant: the depth is recorded one too low. *)
TryEnterBelow ==
  /\ Fetch("TRY_ENTER")
  /\ LET p    == frame.ip
         hd   == [enter |-> p, depth |-> Len(stack) - 1, catch |-> instr.x,
                  fin |-> instr.y, inside |-> FALSE]
         owed == IF instr.y = 0 THEN frame.owed ELSE frame.owed \cup {p}
     IN  /\ frames' = ReplaceTop(frames,
                        Move(frame, p + 1, Append(frame.handlers, hd), owed))
         /\ skipped' = (skipped \/ p \in frame.owed)
  /\ UNCHANGED <<stack, status>> /\ Unchanging

(* OP_TRY_ENTER: x is the catch address, y the finally address or 0.       *)
(* Entering a try statement whose finally block is still owed means the    *)
(* previous execution of the statement was left without running it.        *)
TryEnter ==
  /\ Fetch("TRY_ENTER")
  /\ LET p    == frame.ip
         hd   == [enter |-> p, depth |-> Len(stack), catch |-> instr.x,
                  fin |-> instr.y, inside |-> FALSE]
         owed == IF instr.y = 0 THEN frame.owed ELSE frame.owed \cup {p}
     IN  /\ frames' = ReplaceTop(frames,
                        Move(frame, p + 1, Append(frame.handlers, hd), owed))
         /\ skipped' = (skipped \/ p \in frame.owed)
  /\ UNCHANGED <<stack, status>> /\ Unchanging

(* Variant: the handler stays when the try body is left. *)
TryExitKeeps ==
  /\ Fetch("TRY_EXIT")
  /\ Goto(frame.ip + 1)
  /\ UNCHANGED <<stack, status, skipped>> /\ Unchanging

(* OP_TRY_EXIT.                                                            *)
TryExit ==
  /\ Fetch("TRY_EXIT")
  /\ GotoWith(frame.ip + 1, IF frame.handlers = <<>> THEN <<>>
                             ELSE Drop(frame.handlers, 1))
  /\ UNCHANGED <<stack, status, skipped>> /\ Unchanging

(* OP_THROW pops the type and the message.                                 *)
Throw ==
  /\ Fetch("THROW")
  /\ \E t \in instr.ty : Raise(t, Drop(stack, 2))
  /\ Unchanging

(* The walk up parentMap in OP_CATCH; the tree is at most four deep.       *)
Up(S) == S \cup {Parent[t] : t \in S \ {"none"}}
Ancestors(t) == Up(Up(Up({t}))) \ {"none"}

Matches(v, types) ==
  /\ v[1] = "err"
  /\ types # {}
  /\ "Error" \in types \/ Ancestors(v[2]) \cap types # {}

(* OP_CATCH looks at the error without popping it and pushes the verdict.  *)
Catch ==
  /\ Fetch("CATCH")
  /\ Pushes(<<"bool", Matches(Top(stack), instr.ty)>>)
  /\ Unchanging /\ UNCHANGED <<status, skipped>>

(* OP_RETHROW pops; anything but an error is dropped silently.             *)
Rethrow ==
  /\ Fetch("RETHROW")
  /\ \/ /\ Top(stack)[1] = "err"
        /\ Raise(Top(stack)[2], Drop(stack, 1))
     \/ /\ Top(stack)[1] # "err"
        /\ stack' = Drop(stack, 1)
        /\ Goto(frame.ip + 1)
        /\ UNCHANGED <<status, skipped>>
  /\ Unchanging

(* A run that has ended stays as it is.                                    *)
Halted ==
  /\ status \in {"done", "uncaught", "aborted", "undefined"}
  /\ UNCHANGED vmVars

----------------------------------------------------------------------------
(* A VM as yrun.cpp constructs it, and the prologue of VM::run: the main   *)
(* frame at the current height, the flags cleared.                         *)
VMIdle ==
  /\ frames = <<>>
  /\ stack = <<>>
  /\ isReturning = FALSE
  /\ pendingReturn = <<"notype", 0>>
  /\ status = "idle"
  /\ skipped = FALSE

BeginRunOf(program) ==
  /\ status = "idle"
  /\ status' = "running"
  /\ code' = program
  /\ frames' = Append(frames, NewFrame(Main, Len(stack)))
  /\ isReturning' = FALSE
  /\ pendingReturn' = <<"notype", 0>>
  /\ UNCHANGED <<stack, skipped>>

BeginRun == BeginRunOf(code)

ASSUME ProgramsAssumption == \A c \in Programs : IsProgram(c)

VMInit == code \in Programs /\ VMIdle

Execute ==
  \/ Constant \/ NoType \/ Native \/ GetLocal \/ SetLocal \/ Pop \/ Pop2Push \/ DefineVar
  \/ Jump \/ JumpIfFalse \/ JumpIfNotLt \/ ForIter \/ SkipIter
  \/ Call \/ Return \/ EndFinally
  \/ TryEnter \/ TryExit \/ Throw \/ Catch \/ Rethrow
  \/ Undefined

VMNext == BeginRun \/ Execute \/ Halted

VMSpec == VMInit /\ [][VMNext]_vmVars
============================================================================
