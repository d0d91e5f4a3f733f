--------------------------- MODULE VerifierProofs ---------------------------
(***************************************************************************)
(* Theorems about the machine of YVM.  It is type correct on every         *)
(* program.  Why the verifier is worth having: on a program it accepts the *)
(* machine keeps the stack discipline, its handlers follow the program     *)
(* text and nothing it does is undefined.  Two more verifiers, which no    *)
(* compiler runs, decide whether the code of a chunk finds declarations in *)
(* their slots and whether it skips finally blocks; the compiler passes    *)
(* them in AddressingProofs and FinallyProofs.                             *)
(***************************************************************************)
EXTENDS Verifier, TLAPS

(* Facts about sequences used as stacks. *)
LEMMA TopInSeq ==
  ASSUME NEW S, NEW s \in Seq(S), s # <<>>
  PROVE  Top(s) \in S /\ Len(s) \in Nat \ {0} /\ Len(s) \in DOMAIN s
BY DEF Top

LEMMA DropInSeq ==
  ASSUME NEW S, NEW s \in Seq(S), NEW n \in Nat, n <= Len(s)
  PROVE  /\ Drop(s, n) \in Seq(S)
         /\ Len(Drop(s, n)) = Len(s) - n
         /\ \A i \in 1..(Len(s) - n) : Drop(s, n)[i] = s[i]
BY DEF Drop

LEMMA DropOne ==
  ASSUME NEW S, NEW s \in Seq(S), s # <<>>
  PROVE  /\ Drop(s, 1) \in Seq(S)
         /\ Len(Drop(s, 1)) = Len(s) - 1
         /\ \A i \in 1..(Len(s) - 1) : Drop(s, 1)[i] = s[i]
<1>1. 1 \in Nat /\ 1 <= Len(s) OBVIOUS
<1> QED BY <1>1, DropInSeq

LEMMA ReplaceTopInSeq ==
  ASSUME NEW S, NEW s \in Seq(S), s # <<>>, NEW v \in S
  PROVE  /\ ReplaceTop(s, v) \in Seq(S)
         /\ ReplaceTop(s, v) # <<>>
         /\ Len(ReplaceTop(s, v)) = Len(s)
         /\ ReplaceTop(s, v)[Len(s)] = v /\ Top(ReplaceTop(s, v)) = v
         /\ \A i \in 1..(Len(s) - 1) : ReplaceTop(s, v)[i] = s[i]
BY DEF ReplaceTop, Top

LEMMA WriteInSeq ==
  ASSUME NEW S, NEW s \in Seq(S), NEW i \in 1..Len(s), NEW v \in S
  PROVE  [s EXCEPT ![i] = v] \in Seq(S) /\ Len([s EXCEPT ![i] = v]) = Len(s)
OBVIOUS

LEMMA AppendInSeq ==
  ASSUME NEW S, NEW s \in Seq(S), NEW v \in S
  PROVE  /\ Append(s, v) \in Seq(S)
         /\ Len(Append(s, v)) = Len(s) + 1
         /\ DOMAIN Append(s, v) = 1..(Len(s) + 1)
         /\ Append(s, v)[Len(s) + 1] = v
         /\ \A i \in 1..Len(s) : Append(s, v)[i] = s[i]
OBVIOUS

LEMMA ResizeInSeq ==
  ASSUME NEW st \in Seq(Value), NEW n \in Nat
  PROVE  /\ Resize(st, n) \in Seq(Value)
         /\ Len(Resize(st, n)) = n
<1>1. \A i \in 1..n : (IF i <= Len(st) THEN st[i] ELSE <<"notype", 0>>) \in Value
  <2>1. <<"notype", 0>> \in Value BY DEF Value
  <2> QED BY <2>1
<1> QED BY <1>1 DEF Resize

LEMMA MoveFrame ==
  ASSUME NEW f \in Frame, NEW a \in Nat, NEW handlers \in Seq(Handler),
         NEW owed \in SUBSET Nat
  PROVE  /\ Move(f, a, handlers, owed) \in Frame
         /\ Move(f, a, handlers, owed).ip = a
         /\ Move(f, a, handlers, owed).fn = f.fn
         /\ Move(f, a, handlers, owed).base = f.base
         /\ Move(f, a, handlers, owed).handlers = handlers
<1>1. Settled(f, owed, a) \in SUBSET Nat BY DEF Settled
<1> DEFINE owed2 == Settled(f, owed, a)
<1> HIDE DEF owed2
<1>2. owed2 \in SUBSET Nat BY <1>1 DEF owed2
<1>3. Move(f, a, handlers, owed) =
        [f EXCEPT !.ip = a, !.handlers = handlers, !.owed = owed2]
  BY DEF Move, owed2
<1> QED BY <1>2, <1>3 DEF Frame

----------------------------------------------------------------------------
(* Type correctness.  A running machine has a frame: without that, nothing *)
(* is known of the frame the next instruction is fetched from.             *)

TypeInv == VMTypeOK /\ (Running => frames # <<>>)

LEMMA FrameTypes ==
  ASSUME TypeInv, Running
  PROVE  /\ frame \in Frame /\ frames \in Seq(Frame) /\ frames # <<>>
         /\ frame.fn \in Funcs /\ frame.ip \in Nat /\ frame.base \in Nat
         /\ frame.handlers \in Seq(Handler) /\ frame.owed \in SUBSET Nat
         /\ chunkOf(frame) \in Seq(Instruction)
<1>1. frame \in Frame BY TopInSeq DEF TypeInv, VMTypeOK, frame
<1>2. frame.fn \in Funcs BY <1>1 DEF Frame
<1> QED BY <1>1, <1>2 DEF TypeInv, VMTypeOK, IsProgram, Frame, chunkOf

LEMMA FetchTypes ==
  ASSUME TypeInv, NEW op, Fetch(op)
  PROVE  /\ Running
         /\ instr \in Instruction
         /\ instr.x \in Nat /\ instr.y \in Nat /\ instr.ty \in SUBSET ErrTypes
         /\ frame.ip \in DOMAIN chunkOf(frame)
         /\ frame.ip + 1 \in Nat
         /\ Len(stack) \in Nat
         /\ Len(stack) >= Operands(op)
         /\ op = "CALL" => instr.x \in Funcs
<1>1. Running BY DEF Fetch, Running
<1>2. frame.ip \in DOMAIN chunkOf(frame) /\ instr.op = op
      /\ Len(stack) >= Operands(op)
  BY DEF Fetch, Defined
<1>3. instr \in Instruction BY <1>1, <1>2, FrameTypes DEF instr
<1>4. op = "CALL" => instr.x \in Funcs
  BY <1>1, <1>2, FrameTypes DEF TypeInv, VMTypeOK, IsProgram, CallsNameFunctions, instr, chunkOf
<1>5. instr.x \in Nat /\ instr.y \in Nat /\ instr.ty \in SUBSET ErrTypes
  BY <1>3 DEF Instruction
<1>6. Len(stack) \in Nat BY DEF TypeInv, VMTypeOK
<1>7. frame.ip + 1 \in Nat BY <1>1, FrameTypes
<1> QED BY <1>1, <1>2, <1>3, <1>4, <1>5, <1>6, <1>7

(* Replacing the top frame by a moved one. *)
LEMMA MovedType ==
  ASSUME TypeInv, Running, NEW a \in Nat, NEW handlers \in Seq(Handler),
         NEW owed \in SUBSET Nat
  PROVE  LET fs == ReplaceTop(frames, Move(frame, a, handlers, owed)) IN
         fs \in Seq(Frame) /\ fs # <<>>
<1> DEFINE g == Move(frame, a, handlers, owed)
<1>1. g \in Frame BY FrameTypes, MoveFrame
<1> HIDE DEF g
<1>2. ReplaceTop(frames, g) \in Seq(Frame) /\ ReplaceTop(frames, g) # <<>>
  BY <1>1, FrameTypes, ReplaceTopInSeq
<1> QED BY <1>2 DEF g

LEMMA GotoType ==
  ASSUME TypeInv, Running, NEW a \in Nat, NEW handlers \in Seq(Handler),
         GotoWith(a, handlers)
  PROVE  frames' \in Seq(Frame) /\ frames' # <<>>
BY FrameTypes, MovedType DEF GotoWith

LEMMA NextType ==
  ASSUME TypeInv, Running, NEW a \in Nat, Goto(a)
  PROVE  frames' \in Seq(Frame) /\ frames' # <<>>
BY FrameTypes, GotoType DEF Goto

(* The parts of the state that raising an error may change. *)
LEMMA RaiseType ==
  ASSUME TypeInv, Running, NEW t \in ErrTypes, NEW st \in Seq(Value),
         Raise(t, st)
  PROVE  /\ frames' \in Seq(Frame) /\ frames' # <<>>
         /\ stack' \in Seq(Value)
         /\ status' \in {"running", "uncaught"}
         /\ skipped' \in BOOLEAN
<1> USE FrameTypes
<1>0. status = "running" /\ skipped \in BOOLEAN BY DEF Running, TypeInv, VMTypeOK
<1>1. CASE t \in Warnings
  <2>1. stack' = st /\ Goto(frame.ip + 1) /\ status' = status /\ skipped' = skipped
    BY <1>1 DEF Raise
  <2> QED BY <1>0, <2>1, NextType
<1>2. CASE t \notin Warnings /\ frame.handlers = <<>>
  <2>1. /\ stack' = st /\ status' = "uncaught" /\ frames' = frames
        /\ skipped' = (skipped \/ \E i \in DOMAIN frames : frames[i].owed # {})
    BY <1>2 DEF Raise
  <2> QED BY <1>0, <2>1
<1>3. CASE t \notin Warnings /\ frame.handlers # <<>>
  <2> DEFINE hd == Top(frame.handlers)
             cut == IF Len(st) > hd.depth THEN SubSeq(st, 1, hd.depth) ELSE st
  <2>1. /\ stack' = Append(cut, <<"err", t>>)
        /\ GotoWith(hd.catch, Drop(frame.handlers, 1))
        /\ status' = status /\ skipped' = skipped
    BY <1>3 DEF Raise
  <2>2. hd \in Handler BY <1>3, TopInSeq
  <2>3. hd.depth \in Nat /\ hd.catch \in Nat BY <2>2 DEF Handler
  <2>4. cut \in Seq(Value) BY <2>3
  <2>5. <<"err", t>> \in Value BY DEF Value
  <2>6. stack' \in Seq(Value) BY <2>1, <2>4, <2>5
  <2>7. Drop(frame.handlers, 1) \in Seq(Handler) BY <1>3, DropInSeq
  <2> QED BY <1>0, <2>1, <2>3, <2>6, <2>7, GotoType
<1> QED BY <1>1, <1>2, <1>3

LEMMA PushType ==
  ASSUME TypeInv, Running, NEW v \in Value, Pushes(v)
  PROVE  stack' \in Seq(Value) /\ frames' \in Seq(Frame) /\ frames' # <<>>
<1>1. frame.ip + 1 \in Nat BY FrameTypes
<1> QED BY <1>1, NextType DEF Pushes, TypeInv, VMTypeOK

LEMMA LeaveType ==
  ASSUME TypeInv, Running, NEW st \in Seq(Value), st # <<>>, Leave(st)
  PROVE  /\ frames' \in Seq(Frame) /\ stack' \in Seq(Value)
         /\ skipped' \in BOOLEAN
         /\ status' \in {"running", "done"}
         /\ status' = "running" => frames' # <<>>
<1>1. Drop(frames, 1) \in Seq(Frame) BY FrameTypes, DropInSeq
<1>2. Top(st) \in Value BY TopInSeq
<1>3. Resize(st, frame.base) \in Seq(Value) BY FrameTypes, ResizeInSeq
<1>4. skipped \in BOOLEAN /\ status = "running" BY DEF TypeInv, VMTypeOK, Running
<1>5. frames' = Drop(frames, 1) /\ skipped' = (skipped \/ frame.owed # {})
  BY DEF Leave
<1>6. CASE Drop(frames, 1) = <<>>
  <2>1. stack' = st /\ status' = "done" BY <1>6 DEF Leave
  <2> QED BY <1>1, <1>4, <1>5, <2>1
<1>7. CASE Drop(frames, 1) # <<>>
  <2>1. stack' = Append(Resize(st, frame.base), Returned(Top(st))) /\ status' = status
    BY <1>7 DEF Leave
  <2>2. Returned(Top(st)) \in Value BY <1>2 DEF Returned, Value
  <2> QED BY <1>1, <1>3, <1>4, <1>5, <1>7, <2>1, <2>2
<1> QED BY <1>6, <1>7

LEMMA EnterFinallyType ==
  ASSUME TypeInv, Running, Intercepts(frame), EnterFinally
  PROVE  frames' \in Seq(Frame) /\ frames' # <<>>
<1> DEFINE hd == Top(frame.handlers)
           marked == ReplaceTop(frame.handlers, [hd EXCEPT !.inside = TRUE])
<1>1. frame.handlers # <<>> /\ frame.handlers \in Seq(Handler)
  BY FrameTypes DEF Intercepts
<1>2. hd \in Handler BY <1>1, TopInSeq
<1>3. [hd EXCEPT !.inside = TRUE] \in Handler BY <1>2 DEF Handler
<1>4. marked \in Seq(Handler) BY <1>1, <1>3, ReplaceTopInSeq
<1>5. hd.fin \in Nat BY <1>2 DEF Handler
<1> QED BY <1>4, <1>5, GotoType DEF EnterFinally

(* An instruction that only moves data keeps the types. *)
LEMMA DataType ==
  ASSUME TypeInv, Running, Unchanging, UNCHANGED <<status, skipped>>,
         stack' \in Seq(Value), frames' \in Seq(Frame), frames' # <<>>
  PROVE  TypeInv'
BY DEF TypeInv, VMTypeOK, Running, Unchanging, CallsNameFunctions

LEMMA RaiseInv ==
  ASSUME TypeInv, Running, NEW t \in ErrTypes, NEW st \in Seq(Value),
         Raise(t, st), Unchanging
  PROVE  TypeInv'
<1>1. /\ frames' \in Seq(Frame) /\ frames' # <<>>
      /\ stack' \in Seq(Value)
      /\ status' \in {"running", "uncaught"}
      /\ skipped' \in BOOLEAN
  BY RaiseType
<1> QED BY <1>1 DEF TypeInv, VMTypeOK, Unchanging, CallsNameFunctions, Running

LEMMA LeaveInv ==
  ASSUME TypeInv, Running, NEW st \in Seq(Value), st # <<>>, Leave(st),
         UNCHANGED <<code, pendingReturn>>, isReturning' \in BOOLEAN
  PROVE  TypeInv'
<1>1. /\ frames' \in Seq(Frame) /\ stack' \in Seq(Value)
      /\ skipped' \in BOOLEAN
      /\ status' \in {"running", "done"}
      /\ status' = "running" => frames' # <<>>
  BY LeaveType
<1> QED BY <1>1 DEF TypeInv, VMTypeOK, IsProgram, CallsNameFunctions, Running

LEMMA AbortInv ==
  ASSUME TypeInv, Running, Abort, Unchanging
  PROVE  TypeInv'
BY DEF TypeInv, VMTypeOK, IsProgram, Abort, Unchanging, CallsNameFunctions, Running

LEMMA BeginType ==
  ASSUME TypeInv, NEW program, IsProgram(program), BeginRunOf(program)
  PROVE  TypeInv'
<1> DEFINE new == NewFrame(Main, Len(stack))
<1>1. new \in Frame BY FuncsAssumption DEF NewFrame, Frame, TypeInv, VMTypeOK
<1>2. /\ code' = program /\ stack' = stack /\ skipped' = skipped
      /\ frames' = Append(frames, new)
      /\ isReturning' = FALSE /\ pendingReturn' = <<"notype", 0>>
      /\ status' = "running"
  BY DEF BeginRunOf
<1> HIDE DEF new
<1>3. pendingReturn' \in Value BY <1>2 DEF Value
<1>4. frames \in Seq(Frame) BY DEF TypeInv, VMTypeOK
<1>5. frames' \in Seq(Frame) /\ frames' # <<>> BY <1>1, <1>2, <1>4
<1>6. IsProgram(code') BY <1>2
<1> QED BY <1>2, <1>3, <1>5, <1>6 DEF TypeInv, VMTypeOK, IsProgram, CallsNameFunctions

LEMMA TypeStep == TypeInv /\ [VMNext]_vmVars => TypeInv'
<1> SUFFICES ASSUME TypeInv, [VMNext]_vmVars PROVE TypeInv' OBVIOUS
<1> USE FetchTypes, FrameTypes
<1>0. stack \in Seq(Value) /\ pendingReturn \in Value /\ isReturning \in BOOLEAN
  BY DEF TypeInv, VMTypeOK
<1>a. \A n \in Nat : <<"val", n>> \in Value BY DEF Value
<1>n. \A n \in Nat : <<"notype", n>> \in Value BY DEF Value
<1>b. \A b \in BOOLEAN : <<"bool", b>> \in Value BY DEF Value
<1>c. {"RuntimeError", "TypeError", "IndexError", "RecursionError"} \subseteq ErrTypes
  BY ErrTypesAssumption
<1>1. CASE BeginRun
  BY <1>1, BeginType DEF BeginRun, TypeInv, VMTypeOK
<1>2. CASE Constant
  <2>1. Running /\ <<"val", frame.ip>> \in Value BY <1>2, <1>a DEF Constant
  <2> QED BY <1>2, <2>1, PushType, DataType DEF Constant
<1>3. CASE Native
  <2>1. Running /\ <<"val", frame.ip>> \in Value BY <1>3, <1>a DEF Native
  <2> QED BY <1>0, <1>3, <1>c, <2>1, PushType, DataType, RaiseInv DEF Native
<1>4. CASE GetLocal
  <2>1. Fetch("GET_LOCAL") /\ Running BY <1>4 DEF GetLocal
  <2>2. Slot \in DOMAIN stack BY <1>0, <2>1 DEF Fetch, Defined, Slot
  <2>3. CASE Pushes(stack[Slot]) /\ UNCHANGED <<status, skipped>>
    BY <1>0, <1>4, <2>1, <2>2, <2>3, PushType, DataType DEF GetLocal
  <2>4. CASE Abort BY <1>4, <2>4, AbortInv DEF GetLocal
  <2> QED BY <1>4, <2>3, <2>4 DEF GetLocal
<1>5. CASE Pop
  <2>1. Running /\ Goto(frame.ip + 1) BY <1>5 DEF Pop
  <2>2. stack' \in Seq(Value) BY <1>0, <1>5, DropInSeq DEF Pop
  <2> QED BY <1>5, <2>1, <2>2, NextType, DataType DEF Pop
<1>6. CASE Pop2Push
  <2>1. Running /\ Goto(frame.ip + 1) /\ Len(stack) >= 2
    BY <1>6 DEF Pop2Push, Operands
  <2>2. Drop(stack, 2) \in Seq(Value) BY <1>0, <2>1, DropInSeq
  <2>3. stack' \in Seq(Value) BY <1>6, <1>a, <2>1, <2>2 DEF Pop2Push
  <2> QED BY <1>6, <2>1, <2>3, NextType, DataType DEF Pop2Push
<1>7. CASE DefineVar
  <2>1. Running /\ Goto(frame.ip + 1) /\ Len(stack) >= 1
    BY <1>7 DEF DefineVar, Operands
  <2>2. stack' \in Seq(Value) BY <1>0, <1>7, <2>1, DropInSeq DEF DefineVar
  <2> QED BY <1>7, <2>1, <2>2, NextType, DataType DEF DefineVar
<1>8. CASE Jump
  BY <1>0, <1>8, NextType, DataType DEF Jump
<1>9. CASE JumpIfFalse
  BY <1>0, <1>9, NextType, DataType DEF JumpIfFalse
<1>10. CASE JumpIfNotLt
  <2>1. CASE Abort BY <1>10, <2>1, AbortInv DEF JumpIfNotLt
  <2>2. CASE ~Abort
    BY <1>0, <1>c, <1>10, <2>2, NextType, DataType, RaiseInv DEF JumpIfNotLt
  <2> QED BY <2>1, <2>2
<1>11. CASE ForIter
  <2> DEFINE v == <<"val", frame.ip>>
             pushed == [k \in 1..instr.y |-> v]
  <2>1. Running /\ instr.y \in Nat /\ v \in Value BY <1>11, <1>a DEF ForIter
  <2> HIDE DEF v
  <2>2. pushed \in Seq(Value) BY ONLY <2>1
  <2>3. stack \o pushed \in Seq(Value) BY <1>0, <2>2
  <2> HIDE DEF pushed
  <2>4. \/ stack' = stack \o pushed /\ Goto(frame.ip + 1) /\ UNCHANGED <<status, skipped>>
        \/ Goto(instr.x) /\ UNCHANGED <<stack, status, skipped>>
        \/ Raise("TypeError", stack)
    BY <1>11 DEF ForIter, pushed, v
  <2> QED BY <1>0, <1>c, <1>11, <2>1, <2>3, <2>4, NextType, DataType, RaiseInv DEF ForIter
<1>12. CASE SkipIter
  <2>1. Running /\ Len(stack) >= 1 BY <1>12 DEF SkipIter, Operands
  <2>2. Drop(stack, 1) \in Seq(Value) BY <1>0, <2>1, DropInSeq
  <2> QED BY <1>c, <1>12, <2>1, <2>2, NextType, DataType, RaiseInv DEF SkipIter
<1>13. CASE Call
  <2>1. Fetch("CALL") /\ Running /\ Len(stack) >= 1 /\ instr.x \in Funcs
    BY <1>13 DEF Call, Operands
  <2>2. CASE Raise("RecursionError", stack)
    BY <1>0, <1>c, <1>13, <2>1, <2>2, RaiseInv DEF Call
  <2>3. CASE ~Raise("RecursionError", stack)
    <3> DEFINE g == Move(frame, frame.ip + 1, frame.handlers, frame.owed)
               new == NewFrame(instr.x, Len(stack) - 1)
    <3>1. stack' = Drop(stack, 1) /\ frames' = Append(ReplaceTop(frames, g), new)
          /\ UNCHANGED <<status, skipped>>
      BY <1>13, <2>3 DEF Call
    <3>2. new \in Frame BY <1>0, <2>1 DEF NewFrame, Frame
    <3>3. ReplaceTop(frames, g) \in Seq(Frame) BY <2>1, MovedType
    <3> HIDE DEF g, new
    <3>4. frames' \in Seq(Frame) /\ frames' # <<>> BY <3>1, <3>2, <3>3
    <3>5. stack' \in Seq(Value) BY <1>0, <2>1, <3>1, DropInSeq
    <3> QED BY <1>13, <2>1, <3>1, <3>4, <3>5, DataType DEF Call
  <2> QED BY <2>2, <2>3
<1>14. CASE Return
  <2>1. Running /\ Len(stack) >= 1 /\ code' = code BY <1>14 DEF Return, Operands
  <2>2. Drop(stack, 1) \in Seq(Value) /\ Top(stack) \in Value
    BY <1>0, <2>1, DropInSeq, TopInSeq
  <2>3. CASE Intercepts(frame)
    <3>1. /\ EnterFinally /\ isReturning' = TRUE /\ pendingReturn' = Top(stack)
          /\ stack' = Drop(stack, 1) /\ status' = status /\ skipped' = skipped
      BY <1>14, <2>3 DEF Return
    <3>2. frames' \in Seq(Frame) /\ frames' # <<>> BY <2>1, <2>3, <3>1, EnterFinallyType
    <3> QED BY <2>1, <2>2, <3>1, <3>2 DEF TypeInv, VMTypeOK, IsProgram, CallsNameFunctions
  <2>4. CASE ~Intercepts(frame)
    BY <1>0, <1>14, <2>1, <2>4, LeaveInv DEF Return
  <2> QED BY <2>3, <2>4
<1>15. CASE EndFinally
  <2>1. Running /\ code' = code BY <1>15 DEF EndFinally
  <2>2. CASE ~isReturning
    BY <1>0, <1>15, <2>1, <2>2, NextType, DataType DEF EndFinally, Unchanging
  <2>3. CASE isReturning /\ ~Intercepts(frame)
    <3>1. /\ Append(stack, pendingReturn) \in Seq(Value)
          /\ Append(stack, pendingReturn) # <<>>
      BY <1>0
    <3> QED BY <1>0, <1>15, <2>1, <2>3, <3>1, LeaveInv DEF EndFinally
  <2>4. CASE isReturning /\ Intercepts(frame)
    BY <1>0, <1>15, <2>1, <2>4, EnterFinallyType, DataType DEF EndFinally, Unchanging
  <2> QED BY <2>2, <2>3, <2>4
<1>16. CASE TryEnter
  <2> DEFINE hd == [enter |-> frame.ip, depth |-> Len(stack), catch |-> instr.x,
                    fin |-> instr.y, inside |-> FALSE]
             owed == IF instr.y = 0 THEN frame.owed ELSE frame.owed \cup {frame.ip}
  <2>1. Running BY <1>16 DEF TryEnter
  <2>2. hd \in Handler BY <1>0, <1>16, <2>1 DEF TryEnter, Handler
  <2>3. Append(frame.handlers, hd) \in Seq(Handler) /\ owed \in SUBSET Nat
    BY <2>1, <2>2
  <2> HIDE DEF hd, owed
  <2>4. frames' = ReplaceTop(frames,
                    Move(frame, frame.ip + 1, Append(frame.handlers, hd), owed))
    BY <1>16 DEF TryEnter, hd, owed
  <2>5. frame.ip + 1 \in Nat BY <2>1
  <2>6. frames' \in Seq(Frame) /\ frames' # <<>>
    BY <2>1, <2>3, <2>4, <2>5, MovedType
  <2>7. skipped' \in BOOLEAN /\ stack' = stack /\ status' = status /\ Unchanging
    BY <1>16 DEF TryEnter, TypeInv, VMTypeOK
  <2> QED BY <1>0, <2>1, <2>6, <2>7
          DEF TypeInv, VMTypeOK, Unchanging, CallsNameFunctions
<1>17. CASE TryExit
  <2> DEFINE hs == IF frame.handlers = <<>> THEN <<>> ELSE Drop(frame.handlers, 1)
  <2>1. Running /\ GotoWith(frame.ip + 1, hs) BY <1>17 DEF TryExit
  <2>2. hs \in Seq(Handler) BY <2>1, DropInSeq
  <2> HIDE DEF hs
  <2>3. frames' \in Seq(Frame) /\ frames' # <<>> BY <2>1, <2>2, GotoType
  <2> QED BY <1>0, <1>17, <2>1, <2>3, DataType DEF TryExit
<1>18. CASE Throw
  <2>1. Running /\ Len(stack) >= 2 BY <1>18 DEF Throw, Operands
  <2>2. Drop(stack, 2) \in Seq(Value) BY <1>0, <2>1, DropInSeq
  <2>3. PICK t \in instr.ty : Raise(t, Drop(stack, 2)) BY <1>18 DEF Throw
  <2>4. t \in ErrTypes BY <1>18 DEF Throw
  <2> QED BY <1>18, <2>1, <2>2, <2>3, <2>4, RaiseInv DEF Throw
<1>19. CASE Catch
  <2>1. Running BY <1>19 DEF Catch
  <2>2. Matches(Top(stack), instr.ty) \in BOOLEAN BY DEF Matches
  <2>3. <<"bool", Matches(Top(stack), instr.ty)>> \in Value BY <1>b, <2>2
  <2> QED BY <1>19, <2>1, <2>3, PushType, DataType DEF Catch
<1>20. CASE Rethrow
  <2>1. Running /\ Len(stack) >= 1 BY <1>20 DEF Rethrow, Operands
  <2>2. Drop(stack, 1) \in Seq(Value) /\ Top(stack) \in Value
    BY <1>0, <2>1, DropInSeq, TopInSeq
  <2>3. CASE Top(stack)[1] = "err"
    <3>1. Top(stack)[2] \in ErrTypes BY <2>2, <2>3 DEF Value
    <3> QED BY <1>20, <2>1, <2>2, <2>3, <3>1, RaiseInv DEF Rethrow
  <2>4. CASE Top(stack)[1] # "err"
    BY <1>20, <2>1, <2>2, <2>4, NextType, DataType DEF Rethrow
  <2> QED BY <2>3, <2>4
<1>21. CASE Undefined
  BY <1>21 DEF Undefined, TypeInv, VMTypeOK, IsProgram, CallsNameFunctions, Running
<1>23. CASE NoType
  <2>1. Running /\ <<"notype", frame.ip>> \in Value BY <1>23, <1>n DEF NoType
  <2> QED BY <1>23, <2>1, PushType, DataType DEF NoType
<1>24. CASE SetLocal
  <2> DEFINE v == <<IF Top(stack)[1] = "notype" THEN "notype" ELSE "val", instr.x>>
  <2>1. Running /\ Goto(frame.ip + 1) /\ v \in Value
    BY <1>24 DEF SetLocal, Value
  <2>2. stack' = [stack EXCEPT ![Slot] = v] BY <1>24 DEF SetLocal
  <2>3. Slot \in 1..Len(stack) BY <1>0, <1>24 DEF SetLocal, Fetch, Defined, Slot
  <2> HIDE DEF v
  <2>4. stack' \in Seq(Value) BY <1>0, <2>1, <2>2, <2>3, WriteInSeq
  <2> QED BY <1>24, <2>1, <2>4, NextType, DataType DEF SetLocal
<1>22. CASE Halted \/ UNCHANGED vmVars
  BY <1>22 DEF Halted, vmVars, TypeInv, VMTypeOK, IsProgram, CallsNameFunctions, Running
<1> QED BY <1>1, <1>2, <1>3, <1>4, <1>5, <1>6, <1>7, <1>8, <1>9, <1>10, <1>11,
           <1>12, <1>13, <1>14, <1>15, <1>16, <1>17, <1>18, <1>19, <1>20, <1>21,
           <1>22, <1>23, <1>24 DEF VMNext, Execute

LEMMA VMInitType == VMInit => TypeInv
<1> SUFFICES ASSUME VMInit PROVE TypeInv OBVIOUS
<1>1. pendingReturn \in Value BY DEF VMInit, VMIdle, Value
<1>2. frames \in Seq(Frame) /\ stack \in Seq(Value) BY DEF VMInit, VMIdle
<1>3. IsProgram(code) BY ProgramsAssumption DEF VMInit
<1> QED BY <1>1, <1>2, <1>3 DEF VMInit, VMIdle, TypeInv, VMTypeOK, Running

(* Type correctness, for every program, every set of error types and every *)
(* stack limit: what VM::run keeps is always a stack of values and a stack *)
(* of frames with handlers in them.                                        *)
THEOREM TypeCorrect == VMSpec => []VMTypeOK
<1>1. TypeInv => VMTypeOK BY DEF TypeInv
<1> QED BY <1>1, VMInitType, TypeStep, PTL DEF VMSpec

----------------------------------------------------------------------------
(* The machine on a verified program.                                       *)

(* The inductive invariant.  StackDiscipline alone is not inductive: where *)
(* an error or a return lands, and at which height, is decided by the      *)
(* handlers; and what those say is only known from the verified chunk.     *)
VInv ==
  /\ TypeInv
  /\ Verified(code)
  /\ status = "idle" => frames = <<>> /\ stack = <<>>
  /\ StackDiscipline
  /\ HandlersFollowText
  /\ NeverUndefined

LEMMA BelowTop ==
  ASSUME NEW n \in Nat, NEW i \in 1..n, i # n
  PROVE  i \in 1..(n - 1) /\ i + 1 \in 1..n
OBVIOUS

LEMMA BelowIndex ==
  ASSUME NEW n \in Nat, NEW i \in 1..(n - 1)
  PROVE  /\ i \in 1..n /\ i \in 1..(n + 1) /\ i + 1 \in 1..n
         /\ i # n /\ i # n + 1 /\ i + 1 # n + 1
         /\ i # n - 1 => i + 1 \in 1..(n - 1)
OBVIOUS

LEMMA VFrameTypes ==
  ASSUME VInv, Running
  PROVE  /\ frame \in Frame /\ frames \in Seq(Frame) /\ frames # <<>>
         /\ frame.fn \in Funcs /\ frame.ip \in Nat /\ frame.base \in Nat
         /\ frame.handlers \in Seq(Handler) /\ frame.owed \in SUBSET Nat
         /\ chunkOf(frame) \in Seq(Instruction)
BY FrameTypes DEF VInv

LEMMA InstrTypes ==
  ASSUME NEW s \in Seq(Instruction), NEW p \in DOMAIN s
  PROVE  /\ s[p].h \in Nat /\ s[p].x \in Nat /\ s[p].y \in Nat /\ s[p].rf \in Nat
         /\ s[p].hs \in Seq(Nat)
         /\ p \in Nat \ {0} /\ Len(s) \in Nat
<1>1. s[p] \in Instruction /\ p \in Nat \ {0} /\ Len(s) \in Nat OBVIOUS
<1> QED BY <1>1 DEF Instruction

(* What is known when an instruction is about to execute. *)
LEMMA AtInstr ==
  ASSUME VInv, Running
  PROVE  /\ ChunkOK(chunkOf(frame))
         /\ frame.ip \in DOMAIN chunkOf(frame)
         /\ InstrOK(chunkOf(frame), frame.ip)
         /\ instr \in Instruction
         /\ instr = chunkOf(frame)[frame.ip]
         /\ Len(stack) = frame.base + instr.h
         /\ isReturning => Returning(chunkOf(frame), frame)
         /\ ~isReturning => Agree(chunkOf(frame), frame.ip, frame.base, frame.handlers)
         /\ instr.rf = 0 => ~isReturning
         /\ stack \in Seq(Value) /\ Len(stack) \in Nat
<1> USE FrameTypes DEF VInv
<1>0. Len(frames) \in DOMAIN frames /\ frame = frames[Len(frames)]
  BY TopInSeq DEF frame, Top
<1>1. frame.ip \in DOMAIN chunkOf(frame) /\ HeightOf(Len(frames)) = Annotation(Len(frames)).h
  BY <1>0 DEF StackDiscipline
<1>2. stack \in Seq(Value) /\ Len(stack) \in Nat BY DEF TypeInv, VMTypeOK
<1>3. instr \in Instruction /\ instr = chunkOf(frame)[frame.ip] BY <1>1 DEF instr
<1>4. instr.h \in Nat BY <1>3 DEF Instruction
<1>5. HeightOf(Len(frames)) = Len(stack) - frame.base BY <1>0 DEF HeightOf
<1>6. Len(stack) = frame.base + instr.h
  BY <1>0, <1>1, <1>2, <1>3, <1>4, <1>5 DEF Annotation
<1>7. ChunkOK(chunkOf(frame)) BY DEF Verified, chunkOf
<1>8. InstrOK(chunkOf(frame), frame.ip) BY <1>1, <1>7 DEF ChunkOK
<1>9. /\ isReturning => Returning(chunkOf(frame), frame)
      /\ ~isReturning => Agree(chunkOf(frame), frame.ip, frame.base, frame.handlers)
  BY <1>0 DEF HandlersFollowText
<1>10. instr.rf = 0 => ~isReturning BY <1>3, <1>9 DEF Returning
<1> QED BY <1>1, <1>2, <1>3, <1>6, <1>7, <1>8, <1>9, <1>10

(* A verified program always has its operands.                             *)
LEMMA AlwaysDefined == ASSUME VInv, Running PROVE Defined
<1> DEFINE s == chunkOf(frame)
           p == frame.ip
<1>1. /\ p \in DOMAIN s /\ InstrOK(s, p) /\ s[p] = instr
      /\ Len(stack) = frame.base + instr.h
      /\ frame.base \in Nat /\ instr.h \in Nat /\ instr.y \in Nat
      /\ instr.op \in Ops
  BY AtInstr, FrameTypes DEF Instruction, VInv
<1> HIDE DEF s, p
<1>2. Len(stack) >= Operands(instr.op)
  BY <1>1 DEF InstrOK, Operands, Ops
<1>3. /\ instr.op = "FOR_ITER" => Len(stack) >= 1 + instr.y
      /\ instr.op \in {"GET_LOCAL", "SET_LOCAL", "JUMP_IF_NOT_LT"} =>
           frame.base + instr.y < Len(stack)
  BY <1>1 DEF InstrOK
<1> QED BY <1>1, <1>2, <1>3 DEF Defined, s, p

(* The frames when only the top one changes.                               *)
LEMMA TopFrameReplaced ==
  ASSUME NEW fs \in Seq(Frame), fs # <<>>, NEW g \in Frame
  PROVE  /\ ReplaceTop(fs, g) \in Seq(Frame) /\ Len(ReplaceTop(fs, g)) = Len(fs)
         /\ ReplaceTop(fs, g)[Len(fs)] = g
         /\ \A i \in 1..(Len(fs) - 1) : ReplaceTop(fs, g)[i] = fs[i]
BY ONLY fs \in Seq(Frame), fs # <<>>, g \in Frame DEF ReplaceTop

(* A step that changes only what the top frame is about to execute.        *)
LEMMA TopMoved ==
  ASSUME VInv, Running, UNCHANGED code,
         NEW g \in Frame, g.fn = frame.fn, g.base = frame.base,
         frames' = ReplaceTop(frames, g),
         g.ip \in DOMAIN chunkOf(frame),
         Len(stack') = frame.base + chunkOf(frame)[g.ip].h,
         IF isReturning' THEN Returning(chunkOf(frame), g)
                         ELSE Agree(chunkOf(frame), g.ip, g.base, g.handlers)
  PROVE  StackDiscipline' /\ HandlersFollowText'
<1> USE VFrameTypes
<1> DEFINE n == Len(frames)
<1>1. /\ n \in Nat \ {0} /\ DOMAIN frames = 1..n /\ frame = frames[n]
  BY TopInSeq DEF frame, Top
<1>2. /\ frames' \in Seq(Frame) /\ Len(frames') = n /\ frames'[n] = g
      /\ \A i \in 1..(n - 1) : frames'[i] = frames[i]
  <2>1. frames \in Seq(Frame) /\ frames # <<>> /\ frames' = ReplaceTop(frames, g)
    OBVIOUS
  <2>2. g \in Frame OBVIOUS
  <2> QED BY ONLY <2>1, <2>2, TopFrameReplaced
<1>3. DOMAIN frames' = 1..n BY <1>1, <1>2
<1>4. \A i \in 1..n : frames'[i].base = frames[i].base BY <1>1, <1>2
<1>5. chunkOf(g)' = chunkOf(frame) BY DEF chunkOf
<1>6. \A i \in 1..(n - 1) : chunkOf(frames[i])' = code[frames'[i].fn]
                            /\ chunkOf(frames[i]) = code[frames[i].fn]
  BY <1>2 DEF chunkOf
<1>7. chunkOf(frame)[g.ip].h \in Nat BY InstrTypes
<1>8. StackDiscipline'
  <2> SUFFICES ASSUME NEW i \in 1..n
               PROVE  /\ frames'[i].ip \in DOMAIN code[frames'[i].fn]
                      /\ HeightOf(i)' = IF i = n THEN code[frames'[i].fn][frames'[i].ip].h
                           ELSE code[frames'[i].fn][frames'[i].ip].h - 1
    BY <1>2, <1>3 DEF StackDiscipline, Annotation, chunkOf
  <2>1. CASE i = n
    <3>1. frames'[i] = g /\ code[g.fn] = chunkOf(frame)
      BY <1>1, <1>2, <2>1 DEF chunkOf
    <3>2. HeightOf(i)' = Len(stack') - frame.base BY <1>2, <2>1, <3>1 DEF HeightOf
    <3> QED BY <1>7, <2>1, <3>1, <3>2
  <2>2. CASE i # n
    <3>0. i \in 1..(n - 1) /\ i + 1 \in 1..n BY <1>1, <2>2, BelowTop
    <3>1. frames'[i] = frames[i] /\ i + 1 \in 1..n BY <1>2, <3>0
    <3>2. HeightOf(i)' = HeightOf(i) BY <1>2, <1>4, <2>2, <3>1 DEF HeightOf
    <3>3. /\ frames[i].ip \in DOMAIN chunkOf(frames[i])
          /\ HeightOf(i) = chunkOf(frames[i])[frames[i].ip].h - 1
      BY <1>1, <2>2 DEF StackDiscipline, Annotation, VInv
    <3> QED BY <2>2, <3>1, <3>2, <3>3 DEF chunkOf
  <2> QED BY <2>1, <2>2
<1>9. HandlersFollowText'
  <2> SUFFICES ASSUME NEW i \in 1..n
               PROVE  IF isReturning' /\ i = n
                      THEN Returning(code[frames'[i].fn], frames'[i])
                      ELSE Agree(code[frames'[i].fn], frames'[i].ip, frames'[i].base,
                                 frames'[i].handlers)
    BY <1>2, <1>3 DEF HandlersFollowText, chunkOf
  <2>1. CASE i = n
    <3>1. frames'[i] = g /\ code[g.fn] = chunkOf(frame)
      BY <1>1, <1>2, <2>1 DEF chunkOf
    <3> QED BY <2>1, <3>1
  <2>2. CASE i # n
    <3>0. i \in 1..(n - 1) BY <1>1, <2>2, BelowTop
    <3>1. frames'[i] = frames[i] BY <1>2, <3>0
    <3>2. Agree(code[frames[i].fn], frames[i].ip, frames[i].base, frames[i].handlers)
      BY <1>1, <2>2 DEF HandlersFollowText, chunkOf, VInv
    <3> QED BY <2>2, <3>1, <3>2
  <2> QED BY <2>1, <2>2
<1> QED BY <1>8, <1>9

(* Moving on as the flow of the chunk says. *)
LEMMA FlowStep ==
  ASSUME VInv, Running, NEW q \in Nat, NEW d \in Int,
         Flows(chunkOf(frame), frame.ip, q, d),
         Goto(q), stack' \in Seq(Value), Len(stack') = Len(stack) + d,
         Unchanging, UNCHANGED status
  PROVE  StackDiscipline' /\ HandlersFollowText' /\ NeverUndefined'
<1> USE VFrameTypes
<1> DEFINE g == Move(frame, q, frame.handlers, frame.owed)
           s == chunkOf(frame)
           p == frame.ip
<1>1. /\ g \in Frame /\ g.ip = q /\ g.fn = frame.fn /\ g.base = frame.base
      /\ g.handlers = frame.handlers
  <2>1. /\ frame \in Frame /\ frame.handlers \in Seq(Handler)
        /\ frame.owed \in SUBSET Nat
    OBVIOUS
  <2> QED BY ONLY <2>1, q \in Nat, MoveFrame
<1>2. frames' = ReplaceTop(frames, g) BY DEF Goto, GotoWith
<1>3. /\ p \in DOMAIN s /\ instr = s[p] /\ Len(stack) = frame.base + s[p].h
      /\ isReturning => Returning(s, frame)
      /\ ~isReturning => Agree(s, p, frame.base, frame.handlers)
  BY AtInstr
<1> HIDE DEF g
<1>4. /\ q \in DOMAIN s /\ s[q].h = s[p].h + d /\ s[q].hs = s[p].hs
      /\ s[p].rf # 0 => s[q].rf = s[p].rf
  BY DEF Flows
<1>5. s[p].h \in Nat BY <1>3, InstrTypes
<1>6. Len(stack') = frame.base + s[g.ip].h BY <1>1, <1>3, <1>4, <1>5, SMTT(30)
<1>7. \A hs : Agree(s, p, frame.base, hs) => Agree(s, g.ip, g.base, hs) BY <1>1, <1>4 DEF Agree
<1>8. IF isReturning' THEN Returning(s, g) ELSE Agree(s, g.ip, g.base, g.handlers)
  <2>1. isReturning' = isReturning BY DEF Unchanging
  <2>2. CASE isReturning
    BY <1>1, <1>3, <1>4, <1>7, <2>1, <2>2 DEF Returning
  <2>3. CASE ~isReturning
    BY <1>1, <1>3, <1>7, <2>1, <2>3
  <2> QED BY <2>2, <2>3
<1>9. NeverUndefined' BY DEF NeverUndefined, Running
<1> QED BY <1>1, <1>2, <1>4, <1>6, <1>8, <1>9, TopMoved DEF Unchanging

(* The top handler of a frame that is not returning is the one its         *)
(* innermost enclosing try statement installed.                            *)
LEMMA TopHandler ==
  ASSUME VInv, Running, ~isReturning, frame.handlers # <<>>
  PROVE  LET s  == chunkOf(frame)
             hs == s[frame.ip].hs
             e  == Top(hs)
         IN  /\ hs # <<>> /\ hs \in Seq(Nat)
             /\ e \in DOMAIN s /\ s[e].op = "TRY_ENTER" /\ InstrOK(s, e)
             /\ s[e].hs = Drop(hs, 1)
             /\ Top(frame.handlers) = Installed(s, e, frame.base)
             /\ Agree(s, e, frame.base, Drop(frame.handlers, 1))
<1> USE VFrameTypes
<1> DEFINE s == chunkOf(frame)
           p == frame.ip
           hs == s[p].hs
           e == Top(hs)
<1>1. /\ ChunkOK(s) /\ p \in DOMAIN s /\ Agree(s, p, frame.base, frame.handlers)
      /\ frame.handlers \in Seq(Handler) /\ frame \in Frame
  BY AtInstr
<1>2. hs \in Seq(Nat) BY <1>1, InstrTypes
<1>3. Len(frame.handlers) = Len(hs)
      /\ \A j \in DOMAIN hs : frame.handlers[j] = Installed(s, hs[j], frame.base)
  BY <1>1 DEF Agree
<1>4. hs # <<>> BY <1>1, <1>2, <1>3
<1>5. e \in DOMAIN s /\ s[e].op = "TRY_ENTER" /\ s[e].hs = Drop(hs, 1)
  BY <1>1, <1>4 DEF ChunkOK, HandlersNamed
<1>6. InstrOK(s, e) BY <1>1, <1>5 DEF ChunkOK
<1>7. Len(hs) \in DOMAIN hs BY <1>2, <1>4
<1>8. Top(frame.handlers) = Installed(s, e, frame.base)
  BY <1>3, <1>7 DEF Top
<1>9. Agree(s, e, frame.base, Drop(frame.handlers, 1))
  <2> DEFINE low == Drop(frame.handlers, 1)
  <2>2. /\ Len(low) = Len(hs) - 1
        /\ \A j \in 1..(Len(hs) - 1) : low[j] = frame.handlers[j]
    <3>1. frame.handlers \in Seq(Handler) /\ Len(frame.handlers) = Len(hs)
      BY <1>1, <1>3
    <3> QED BY <3>1, DropOne
  <2>3. /\ Drop(hs, 1) \in Seq(Nat) /\ Len(Drop(hs, 1)) = Len(hs) - 1
        /\ \A j \in 1..(Len(hs) - 1) : Drop(hs, 1)[j] = hs[j]
    BY <1>2, <1>4, DropOne
  <2>4. DOMAIN Drop(hs, 1) = 1..(Len(hs) - 1) BY <2>3
  <2>5. \A j \in 1..(Len(hs) - 1) : j \in DOMAIN hs BY <1>2
  <2> HIDE DEF low
  <2>6. \A j \in DOMAIN Drop(hs, 1) : low[j] = Installed(s, Drop(hs, 1)[j], frame.base)
    BY <1>3, <2>2, <2>3, <2>4, <2>5
  <2>7. Agree(s, e, frame.base, low) BY <1>5, <2>2, <2>3, <2>6 DEF Agree
  <2> QED BY <2>7 DEF low
<1> QED BY <1>2, <1>4, <1>5, <1>6, <1>8, <1>9

(* An error is taken by the innermost enclosing try statement at the       *)
(* height its catch code expects, or ends the run.                         *)
LEMMA RaiseStep ==
  ASSUME VInv, Running, NEW t \in ErrTypes, NEW st \in Seq(Value), NEW d \in Int,
         Len(st) = Len(stack) + d,
         Raises(chunkOf(frame), frame.ip, instr.h + d),
         t \in Warnings => Flows(chunkOf(frame), frame.ip, frame.ip + 1, d),
         Raise(t, st), Unchanging
  PROVE  StackDiscipline' /\ HandlersFollowText' /\ NeverUndefined'
<1> USE VFrameTypes
<1> DEFINE s == chunkOf(frame)
           p == frame.ip
<1>1. /\ p \in DOMAIN s /\ instr = s[p] /\ Len(stack) = frame.base + instr.h
      /\ instr.rf = 0 => ~isReturning
  BY AtInstr
<1>2. ~isReturning /\ isReturning' = isReturning /\ code' = code
  BY <1>1 DEF Raises, Unchanging
<1>3. instr.h \in Nat BY <1>1, InstrTypes
<1>4. CASE t \in Warnings
  <2>1. stack' = st /\ Goto(p + 1) /\ status' = status
    BY <1>4 DEF Raise
  <2> QED BY <1>4, <2>1, FlowStep
<1>5. CASE t \notin Warnings /\ frame.handlers = <<>>
  <2>1. status' = "uncaught" BY <1>5 DEF Raise
  <2> QED BY <2>1 DEF StackDiscipline, HandlersFollowText, NeverUndefined, Running
<1>6. CASE t \notin Warnings /\ frame.handlers # <<>>
  <2> DEFINE hs == s[p].hs
             e == Top(hs)
             hd == Top(frame.handlers)
             cut == IF Len(st) > hd.depth THEN SubSeq(st, 1, hd.depth) ELSE st
             low == Drop(frame.handlers, 1)
             g == Move(frame, hd.catch, low, frame.owed)
  <2>1. /\ hs # <<>> /\ e \in DOMAIN s /\ s[e].op = "TRY_ENTER" /\ InstrOK(s, e)
        /\ s[e].hs = Drop(hs, 1)
        /\ hd = Installed(s, e, frame.base)
        /\ Agree(s, e, frame.base, low)
    BY <1>2, <1>6, TopHandler
  <2>2. /\ stack' = Append(cut, <<"err", t>>)
        /\ GotoWith(hd.catch, low)
        /\ status' = status
    BY <1>6 DEF Raise
  <2>3. hd.depth = frame.base + s[e].h /\ hd.catch = s[e].x BY <2>1 DEF Installed
  <2>4. s[e].h \in Nat /\ s[e].x \in Nat BY <2>1, InstrTypes
  <2>5. /\ s[e].x \in DOMAIN s /\ s[s[e].x].h = s[e].h + 1 /\ s[s[e].x].hs = s[e].hs
    BY <2>1 DEF InstrOK
  <2>6. s[e].h <= instr.h + d BY <1>1, <2>1 DEF Raises
  <2>7. low \in Seq(Handler) BY <1>6, DropOne
  <2>8. /\ g \in Frame /\ g.ip = hd.catch /\ g.fn = frame.fn /\ g.base = frame.base
        /\ g.handlers = low
    <3>1. hd.catch \in Nat /\ frame \in Frame /\ frame.owed \in SUBSET Nat
      BY <2>3, <2>4
    <3> QED BY ONLY <3>1, <2>7, MoveFrame
  <2>9. Len(st) >= hd.depth /\ Len(st) \in Nat /\ hd.depth \in Nat
    <3>1. Len(st) = Len(stack) + d /\ Len(stack) = frame.base + instr.h
      BY <1>1
    <3>2. Len(st) \in Nat /\ frame.base \in Nat OBVIOUS
    <3>3. Len(st) = frame.base + (instr.h + d) BY ONLY <3>1, <3>2, <1>3, d \in Int
    <3> QED BY ONLY <1>3, <2>3, <2>4, <2>6, <3>2, <3>3, d \in Int
  <2>10. cut \in Seq(Value) /\ Len(cut) = hd.depth BY ONLY <2>9, st \in Seq(Value)
  <2> HIDE DEF cut, g, low
  <2>11. Len(stack') = frame.base + s[g.ip].h
    <3>1. Len(stack') = hd.depth + 1 BY <2>2, <2>9, <2>10
    <3>2. s[g.ip].h = s[e].h + 1 BY <2>3, <2>5, <2>8
    <3>3. frame.base \in Nat OBVIOUS
    <3> QED BY ONLY <2>3, <2>4, <3>1, <3>2, <3>3
  <2>12. Agree(s, g.ip, g.base, g.handlers)
    BY <2>1, <2>3, <2>5, <2>8 DEF Agree
  <2>13. frames' = ReplaceTop(frames, g) BY <2>2 DEF GotoWith, g
  <2>14. StackDiscipline' /\ HandlersFollowText'
    BY <1>2, <2>3, <2>5, <2>8, <2>11, <2>12, <2>13, TopMoved
  <2> QED BY <2>2, <2>14 DEF NeverUndefined, Running
<1> QED BY <1>4, <1>5, <1>6

LEMMA ReplaceThenDrop ==
  ASSUME NEW old \in Seq(Handler), old # <<>>, NEW v \in Handler
  PROVE  /\ ReplaceTop(old, v) \in Seq(Handler) /\ ReplaceTop(old, v) # <<>>
         /\ Top(ReplaceTop(old, v)) = v
         /\ Drop(ReplaceTop(old, v), 1) = Drop(old, 1)
<1>1. /\ ReplaceTop(old, v) \in Seq(Handler) /\ ReplaceTop(old, v) # <<>>
      /\ Len(ReplaceTop(old, v)) = Len(old) /\ Top(ReplaceTop(old, v)) = v
      /\ \A i \in 1..(Len(old) - 1) : ReplaceTop(old, v)[i] = old[i]
  BY ReplaceTopInSeq
<1> DEFINE new == ReplaceTop(old, v)
<1> HIDE DEF new
<1>2. Drop(new, 1) = Drop(old, 1) BY <1>1 DEF Drop, new
<1> QED BY <1>1, <1>2 DEF new

(* OP_RETURN's intercepted half: the finally block starts one below the    *)
(* result, with the marked handler kept.                                   *)
LEMMA EnterFinallyStep ==
  ASSUME VInv, Fetch("RETURN"), Intercepts(frame), EnterFinally,
         stack' = Drop(stack, 1), isReturning' = TRUE, UNCHANGED <<code, status>>
  PROVE  StackDiscipline' /\ HandlersFollowText' /\ NeverUndefined'
<1>0. Running BY DEF Fetch, Running
<1> USE <1>0, VFrameTypes
<1> DEFINE s == chunkOf(frame)
           p == frame.ip
           hs == s[p].hs
           e == Top(hs)
           hd == Top(frame.handlers)
           marked == [hd EXCEPT !.inside = TRUE]
           new == ReplaceTop(frame.handlers, marked)
           g == Move(frame, hd.fin, new, frame.owed)
<1>1. /\ p \in DOMAIN s /\ instr = s[p] /\ Len(stack) = frame.base + instr.h
      /\ InstrOK(s, p) /\ stack \in Seq(Value)
      /\ instr.rf = 0 => ~isReturning
  BY AtInstr
<1>2. instr.op = "RETURN" /\ instr.h >= 1 /\ instr.rf = 0
  BY <1>1 DEF Fetch, InstrOK
<1>3. ~isReturning /\ frame.handlers # <<>> BY <1>1, <1>2 DEF Intercepts
<1>4. /\ hs # <<>> /\ hs \in Seq(Nat) /\ e \in DOMAIN s
      /\ s[e].hs = Drop(hs, 1)
      /\ hd = Installed(s, e, frame.base)
      /\ Agree(s, e, frame.base, Drop(frame.handlers, 1))
  BY <1>3, TopHandler
<1>5. hd.fin = s[e].y /\ hd.fin # 0 BY <1>4 DEF Installed, Intercepts
<1>6. /\ hd.fin \in DOMAIN s /\ s[hd.fin].h = instr.h - 1
      /\ s[hd.fin].hs = Drop(hs, 1) /\ s[hd.fin].rf = e
  BY <1>1, <1>2, <1>4, <1>5 DEF InstrOK
<1>7. e # 0 /\ hd.fin \in Nat BY <1>4, <1>6
<1>8. marked \in Handler /\ marked.inside = TRUE
  <2>1. hd \in Handler BY <1>3, TopInSeq
  <2> QED BY ONLY <2>1 DEF Handler
<1> HIDE DEF marked
<1>9. /\ new \in Seq(Handler) /\ new # <<>> /\ Top(new) = marked
      /\ Drop(new, 1) = Drop(frame.handlers, 1)
  <2>1. frame.handlers \in Seq(Handler) /\ frame.handlers # <<>> BY <1>3
  <2> QED BY ONLY <1>8, <2>1, ReplaceThenDrop
<1> HIDE DEF new
<1>10. /\ g \in Frame /\ g.ip = hd.fin /\ g.fn = frame.fn /\ g.base = frame.base
       /\ g.handlers = new
  <2>1. frame \in Frame /\ frame.owed \in SUBSET Nat OBVIOUS
  <2> QED BY ONLY <2>1, <1>7, <1>9, MoveFrame
<1>12. Agree(s, hd.fin, frame.base, Drop(new, 1))
  BY <1>4, <1>6, <1>9 DEF Agree
<1> HIDE DEF g
<1>13. Returning(s, g) BY <1>6, <1>7, <1>8, <1>9, <1>10, <1>12 DEF Returning
<1>14. instr.h \in Nat /\ s[hd.fin].h \in Nat BY <1>1, <1>6, InstrTypes
<1>15. Len(stack') = frame.base + s[g.ip].h
  <2>1. Len(stack') = Len(stack) - 1 BY <1>1, <1>2, <1>14, DropOne, SMTT(30)
  <2>2. s[g.ip].h = instr.h - 1 /\ Len(stack) = frame.base + instr.h
    BY <1>1, <1>6, <1>10
  <2>3. frame.base \in Nat OBVIOUS
  <2> QED BY ONLY <1>14, <2>1, <2>2, <2>3
<1>16. frames' = ReplaceTop(frames, g) BY DEF EnterFinally, GotoWith, g, new, marked
<1>17. StackDiscipline' /\ HandlersFollowText'
  BY <1>6, <1>10, <1>13, <1>15, <1>16, TopMoved
<1> QED BY <1>0, <1>17 DEF NeverUndefined, Running

(* Leaving a frame: OP_RETURN's resize to the frame's base and the push of *)
(* the result give the caller back the height of its OP_CALL.              *)
LEMMA LeaveStep ==
  ASSUME VInv, Running, NEW st \in Seq(Value), st # <<>>, Leave(st),
         isReturning' = FALSE, UNCHANGED code
  PROVE  StackDiscipline' /\ HandlersFollowText' /\ NeverUndefined'
<1> USE VFrameTypes
<1> DEFINE n == Len(frames)
           below == Drop(frames, 1)
<1>1. /\ n \in Nat \ {0} /\ DOMAIN frames = 1..n /\ frame = frames[n]
  BY TopInSeq DEF frame, Top
<1>2. /\ below \in Seq(Frame) /\ Len(below) = n - 1
      /\ \A i \in 1..(n - 1) : below[i] = frames[i]
  BY DropOne
<1>3. frames' = below BY DEF Leave
<1>m. n = Len(frames) OBVIOUS
<1>n. n \in Nat BY <1>1
<1> HIDE DEF below, n
<1>4. CASE below = <<>>
  <2>1. status' = "done" BY <1>4 DEF Leave, below
  <2> QED BY <2>1 DEF StackDiscipline, HandlersFollowText, NeverUndefined, Running
<1>5. CASE below # <<>>
  <2>1. /\ stack' = Append(Resize(st, frame.base), Returned(Top(st))) /\ status' = status
    BY <1>5 DEF Leave, below
  <2>2. Len(stack') = frame.base + 1
    <3>1. /\ Resize(st, frame.base) \in Seq(Value)
          /\ Len(Resize(st, frame.base)) = frame.base
      BY ResizeInSeq
    <3> QED BY ONLY <2>1, <3>1
  <2>3. DOMAIN frames' = 1..(n - 1) /\ Len(frames') = n - 1 BY <1>2, <1>3
  <2>4. ASSUME NEW i \in 1..(n - 1)
        PROVE  /\ i \in 1..n /\ i # n /\ i + 1 \in 1..n /\ frames'[i] = frames[i]
               /\ frames[i].ip \in DOMAIN chunkOf(frames[i])
               /\ HeightOf(i) = chunkOf(frames[i])[frames[i].ip].h - 1
               /\ Agree(chunkOf(frames[i]), frames[i].ip, frames[i].base,
                        frames[i].handlers)
    <3>1. i \in 1..n /\ i # n /\ i + 1 \in 1..n BY <1>n, BelowIndex
    <3>2. frames'[i] = frames[i] BY <1>2, <1>3
    <3> QED BY <1>1, <1>m, <3>1, <3>2
            DEF VInv, StackDiscipline, HandlersFollowText, Annotation
  <2>5. ASSUME NEW i \in 1..(n - 1)
        PROVE  HeightOf(i)' = IF i = n - 1 THEN HeightOf(i) + 1 ELSE HeightOf(i)
    <3>1. frames'[i] = frames[i] /\ i # n BY <2>4
    <3>2. CASE i = n - 1
      <4>0. i + 1 = n BY <1>n, <3>2
      <4>1. HeightOf(i) = frame.base - frames[i].base
        BY <1>1, <1>m, <3>1, <4>0 DEF HeightOf
      <4>2. HeightOf(i)' = Len(stack') - frames[i].base
        BY <2>3, <3>1, <3>2 DEF HeightOf
      <4>3. frames[i] \in Frame BY <1>1, <1>n, BelowIndex
      <4>4. frames[i].base \in Nat BY <4>3 DEF Frame
      <4> QED BY <2>2, <3>2, <4>1, <4>2, <4>4, SMTT(30)
    <3>3. CASE i # n - 1
      <4>1. i + 1 \in 1..(n - 1) BY <1>n, <3>3, BelowIndex
      <4>2. frames'[i + 1] = frames[i + 1] BY <2>4, <4>1
      <4> QED BY <1>m, <2>3, <3>1, <3>3, <4>2 DEF HeightOf
    <3> QED BY <3>2, <3>3
  <2>6. StackDiscipline'
    <3> SUFFICES ASSUME NEW i \in 1..(n - 1)
                 PROVE  /\ frames'[i].ip \in DOMAIN code[frames'[i].fn]
                        /\ HeightOf(i)' = IF i = n - 1
                             THEN code[frames'[i].fn][frames'[i].ip].h
                             ELSE code[frames'[i].fn][frames'[i].ip].h - 1
      BY <2>3 DEF StackDiscipline, Annotation, chunkOf
    <3>1. /\ frames'[i] = frames[i]
          /\ frames[i].ip \in DOMAIN chunkOf(frames[i])
          /\ HeightOf(i) = chunkOf(frames[i])[frames[i].ip].h - 1
          /\ HeightOf(i)' = IF i = n - 1 THEN HeightOf(i) + 1 ELSE HeightOf(i)
      BY <2>4, <2>5
    <3>2. frames[i] \in Frame BY <1>1, <1>n, BelowIndex
    <3>3. chunkOf(frames[i]) \in Seq(Instruction)
      BY <3>2 DEF chunkOf, Frame, VInv, TypeInv, VMTypeOK, IsProgram
    <3>4. chunkOf(frames[i])[frames[i].ip].h \in Nat BY <3>1, <3>3, InstrTypes
    <3> QED BY <3>1, <3>4 DEF chunkOf
  <2>7. HandlersFollowText'
    BY <2>3, <2>4 DEF HandlersFollowText, chunkOf
  <2> QED BY <2>1, <2>6, <2>7 DEF NeverUndefined, Running
<1> QED BY <1>4, <1>5

(* Entering a function: its frame starts at height 0 on top of the         *)
(* caller's operands, the callee's slot becoming the result's.             *)
LEMMA CallStep ==
  ASSUME VInv, Fetch("CALL"), Len(stack) <= StackLimit, Call, ~Raise("RecursionError", stack)
  PROVE  StackDiscipline' /\ HandlersFollowText' /\ NeverUndefined'
<1>0. Running BY DEF Fetch, Running
<1> USE <1>0, VFrameTypes
<1>m. PICK n \in Nat : n = Len(frames) OBVIOUS
<1>n. n \in Nat OBVIOUS
<1> DEFINE s == chunkOf(frame)
           p == frame.ip
           g == Move(frame, p + 1, frame.handlers, frame.owed)
           new == NewFrame(instr.x, Len(stack) - 1)
           fs == ReplaceTop(frames, g)
<1>1. /\ p \in DOMAIN s /\ instr = s[p] /\ Len(stack) = frame.base + instr.h
      /\ InstrOK(s, p) /\ stack \in Seq(Value) /\ Len(stack) \in Nat
      /\ instr \in Instruction
      /\ instr.rf = 0 => ~isReturning
      /\ ~isReturning => Agree(s, p, frame.base, frame.handlers)
  BY AtInstr
<1>2. /\ instr.op = "CALL" /\ instr.h >= 1 /\ instr.x \in Funcs
      /\ Flows(s, p, p + 1, 0) /\ instr.rf = 0 /\ instr.h \in Nat
  BY <1>1 DEF Fetch, InstrOK, Raises, Instruction
<1>3. /\ p + 1 \in DOMAIN s /\ s[p + 1].h = instr.h + 0 /\ s[p + 1].hs = s[p].hs
  BY <1>1, <1>2 DEF Flows
<1>4. /\ stack' = Drop(stack, 1) /\ frames' = Append(fs, new)
      /\ code' = code /\ isReturning' = isReturning /\ status' = status
  BY DEF Call, Unchanging
<1>5. ~isReturning' BY <1>1, <1>2, <1>4
<1>6. /\ g \in Frame /\ g.ip = p + 1 /\ g.fn = frame.fn /\ g.base = frame.base
      /\ g.handlers = frame.handlers
  <2>1. /\ p + 1 \in Nat /\ frame \in Frame /\ frame.owed \in SUBSET Nat
        /\ frame.handlers \in Seq(Handler)
    OBVIOUS
  <2> QED BY ONLY <2>1, MoveFrame
<1>7. new \in Frame /\ new.fn = instr.x /\ new.ip = 1 /\ new.base = Len(stack) - 1
      /\ new.handlers = <<>>
  <2>1. instr.x \in Funcs /\ Len(stack) - 1 \in Nat BY <1>1, <1>2, SMTT(30)
  <2>2. 1 \in Nat /\ <<>> \in Seq(Handler) /\ {} \in SUBSET Nat OBVIOUS
  <2> QED BY ONLY <2>1, <2>2 DEF new, NewFrame, Frame
<1> HIDE DEF g, new
<1>8. /\ n \in Nat \ {0} /\ DOMAIN frames = 1..n /\ frame = frames[n]
  BY <1>m, TopInSeq DEF frame, Top
<1>9. /\ fs \in Seq(Frame) /\ Len(fs) = n /\ fs[n] = g
      /\ \A i \in 1..(n - 1) : fs[i] = frames[i]
  <2>1. frames \in Seq(Frame) /\ frames # <<>> OBVIOUS
  <2>2. g \in Frame BY <1>6
  <2>3. /\ fs \in Seq(Frame) /\ Len(fs) = Len(frames) /\ fs[Len(frames)] = g
        /\ \A i \in 1..(Len(frames) - 1) : fs[i] = frames[i]
    BY ONLY <2>1, <2>2, ReplaceTopInSeq
  <2> HIDE DEF fs
  <2> QED BY ONLY <1>m, <2>3
<1> HIDE DEF fs
<1>10. /\ Len(frames') = n + 1 /\ DOMAIN frames' = 1..(n + 1)
       /\ frames'[n + 1] = new /\ frames'[n] = g
       /\ \A i \in 1..(n - 1) : frames'[i] = frames[i]
  <2>1. fs \in Seq(Frame) /\ new \in Frame BY <1>7, <1>9
  <2>2. /\ Len(Append(fs, new)) = Len(fs) + 1
        /\ DOMAIN Append(fs, new) = 1..(Len(fs) + 1)
        /\ Append(fs, new)[Len(fs) + 1] = new
        /\ \A i \in 1..Len(fs) : Append(fs, new)[i] = fs[i]
    BY ONLY <2>1, AppendInSeq
  <2>3. Len(fs) = n /\ n \in 1..n BY <1>8, <1>9
  <2>4. \A i \in 1..(n - 1) : i \in 1..n BY ONLY <1>n, BelowIndex
  <2> QED BY <1>4, <1>9, <2>2, <2>3, <2>4
<1>11. Len(stack') = Len(stack) - 1 /\ Len(stack') \in Nat
  <2>1. stack # <<>> BY <1>1, <1>2, SMTT(30)
  <2>2. Len(Drop(stack, 1)) = Len(stack) - 1 BY ONLY <1>1, <2>1, DropOne
  <2> QED BY <1>1, <1>2, <1>4, <2>2
<1>12. ChunkOK(code[instr.x]) BY <1>2 DEF VInv, Verified
<1> DEFINE OK(i) ==
      LET c == code[frames'[i].fn]  a == c[frames'[i].ip] IN
      /\ frames'[i].ip \in DOMAIN c
      /\ HeightOf(i)' = IF i = n + 1 THEN a.h ELSE a.h - 1
      /\ Agree(c, frames'[i].ip, frames'[i].base, frames'[i].handlers)
<1>13. OK(n + 1)
  <2>1. HeightOf(n + 1)' = Len(stack') - new.base BY <1>n, <1>10 DEF HeightOf
  <2>2. /\ 1 \in DOMAIN code[instr.x] /\ code[instr.x][1].h = 0
        /\ code[instr.x][1].hs = <<>>
    BY <1>12 DEF ChunkOK
  <2>3. HeightOf(n + 1)' = 0 BY <1>1, <1>7, <1>11, <2>1
  <2>4. Agree(code[instr.x], 1, new.base, <<>>) BY <2>2 DEF Agree
  <2> QED BY <1>7, <1>10, <2>2, <2>3, <2>4
<1>14. OK(n)
  <2>1. n # n + 1 /\ n + 1 = Len(frames') BY ONLY <1>n, <1>10
  <2>2. HeightOf(n)' = new.base - g.base BY <1>n, <1>10, <2>1 DEF HeightOf
  <2>3. HeightOf(n)' = instr.h - 1
    BY <1>1, <1>2, <1>6, <1>7, <2>2, SMTT(30)
  <2>4. code[g.fn] = s BY <1>6 DEF chunkOf
  <2>5. Agree(s, p + 1, frame.base, frame.handlers)
    BY <1>1, <1>2, <1>3 DEF Agree
  <2>6. frames'[n] = g /\ s[p + 1].h = instr.h BY <1>2, <1>3, <1>10
  <2> QED BY <1>3, <1>6, <2>1, <2>3, <2>4, <2>5, <2>6
<1>15. ASSUME NEW i \in 1..(n - 1) PROVE OK(i)
  <2>1. i \in 1..n /\ i # n /\ i + 1 \in 1..n /\ i # n + 1
    BY <1>n, BelowIndex
  <2>2. frames'[i] = frames[i] BY <1>10
  <2>3. /\ frames[i].ip \in DOMAIN chunkOf(frames[i])
        /\ HeightOf(i) = chunkOf(frames[i])[frames[i].ip].h - 1
        /\ Agree(chunkOf(frames[i]), frames[i].ip, frames[i].base, frames[i].handlers)
    BY <1>8, <1>m, <2>1 DEF VInv, StackDiscipline, HandlersFollowText, Annotation
  <2>4. frames'[i + 1].base = frames[i + 1].base
    <3>1. CASE i + 1 = n BY <1>6, <1>8, <1>10, <3>1
    <3>2. CASE i + 1 # n
      <4>1. i + 1 \in 1..(n - 1) BY ONLY <1>n, <2>1, <3>2, BelowTop
      <4> QED BY <1>10, <4>1
    <3> QED BY <3>1, <3>2
  <2>5. HeightOf(i)' = HeightOf(i) BY <1>m, <1>10, <2>1, <2>2, <2>4 DEF HeightOf
  <2> QED BY <2>1, <2>2, <2>3, <2>5 DEF chunkOf
<1>16. \A i \in DOMAIN frames' : OK(i)
  <2>1. \A i \in 1..(n + 1) : i \in 1..(n - 1) \/ i = n \/ i = n + 1 BY ONLY <1>n
  <2> HIDE DEF OK
  <2> QED BY <1>10, <1>13, <1>14, <1>15, <2>1
<1>17. StackDiscipline'
  <2> SUFFICES ASSUME NEW i \in DOMAIN frames'
               PROVE  /\ frames'[i].ip \in DOMAIN code[frames'[i].fn]
                      /\ HeightOf(i)' = IF i = n + 1
                           THEN code[frames'[i].fn][frames'[i].ip].h
                           ELSE code[frames'[i].fn][frames'[i].ip].h - 1
    BY <1>4, <1>10 DEF StackDiscipline, Annotation, chunkOf
  <2> QED BY <1>16
<1>18. HandlersFollowText' BY <1>5, <1>16, <1>4 DEF HandlersFollowText, chunkOf
<1> QED BY <1>4, <1>17, <1>18 DEF NeverUndefined, Running

(* OP_TRY_ENTER and OP_TRY_EXIT keep the height and move the handlers with *)
(* the text.                                                               *)
LEMMA TryEnterStep ==
  ASSUME VInv, TryEnter
  PROVE  StackDiscipline' /\ HandlersFollowText' /\ NeverUndefined'
<1>0. Running BY DEF TryEnter, Fetch, Running
<1> USE <1>0, VFrameTypes
<1> DEFINE s == chunkOf(frame)
           p == frame.ip
           hs == s[p].hs
           hd == [enter |-> p, depth |-> Len(stack), catch |-> instr.x,
                  fin |-> instr.y, inside |-> FALSE]
           new == Append(frame.handlers, hd)
           owed == IF instr.y = 0 THEN frame.owed ELSE frame.owed \cup {p}
           g == Move(frame, p + 1, new, owed)
<1>1. /\ p \in DOMAIN s /\ instr = s[p] /\ Len(stack) = frame.base + instr.h
      /\ InstrOK(s, p) /\ Len(stack) \in Nat
      /\ instr \in Instruction
      /\ instr.rf = 0 => ~isReturning
      /\ ~isReturning => Agree(s, p, frame.base, frame.handlers)
  BY AtInstr
<1>2. instr.op = "TRY_ENTER" BY DEF TryEnter, Fetch
<1>3. /\ instr.rf = 0 /\ p + 1 \in DOMAIN s
      /\ s[p + 1].h = instr.h /\ s[p + 1].hs = Append(hs, p)
  BY <1>1, <1>2 DEF InstrOK
<1>4. ~isReturning /\ Agree(s, p, frame.base, frame.handlers) BY <1>1, <1>3
<1>5. hd = Installed(s, p, frame.base) BY <1>1 DEF Installed
<1>6. hd \in Handler
  <2>1. p \in Nat /\ Len(stack) \in Nat /\ instr.x \in Nat /\ instr.y \in Nat
    BY <1>1 DEF Instruction
  <2> QED BY ONLY <2>1 DEF Handler
<1>7. frames' = ReplaceTop(frames, g) /\ stack' = stack /\ status' = status
      /\ code' = code /\ isReturning' = isReturning
  BY DEF TryEnter, Unchanging
<1> HIDE DEF hd
<1>8. /\ new \in Seq(Handler) /\ Len(new) = Len(frame.handlers) + 1
      /\ new[Len(frame.handlers) + 1] = hd
      /\ \A i \in 1..Len(frame.handlers) : new[i] = frame.handlers[i]
  <2>1. frame.handlers \in Seq(Handler) OBVIOUS
  <2> QED BY ONLY <1>6, <2>1, AppendInSeq
<1>9. owed \in SUBSET Nat OBVIOUS
<1> HIDE DEF new, owed
<1>10. /\ g \in Frame /\ g.ip = p + 1 /\ g.fn = frame.fn /\ g.base = frame.base
       /\ g.handlers = new
  <2>1. frame \in Frame /\ p + 1 \in Nat OBVIOUS
  <2> QED BY ONLY <1>8, <1>9, <2>1, MoveFrame
<1> HIDE DEF g
<1>11. hs \in Seq(Nat) /\ p \in Nat BY <1>1, InstrTypes
<1>12. /\ Len(frame.handlers) = Len(hs)
       /\ \A j \in DOMAIN hs : frame.handlers[j] = Installed(s, hs[j], frame.base)
  BY <1>4 DEF Agree
<1> DEFINE hs2 == Append(hs, p)
<1>13. /\ Len(hs2) = Len(hs) + 1 /\ DOMAIN hs2 = 1..(Len(hs) + 1)
       /\ hs2[Len(hs) + 1] = p
       /\ \A i \in 1..Len(hs) : hs2[i] = hs[i]
  BY ONLY <1>11, AppendInSeq
<1> HIDE DEF hs2
<1>14. \A j \in DOMAIN hs2 : new[j] = Installed(s, hs2[j], frame.base)
  <2> SUFFICES ASSUME NEW j \in 1..(Len(hs) + 1)
               PROVE  new[j] = Installed(s, hs2[j], frame.base)
    BY <1>13
  <2>1. CASE j = Len(hs) + 1 BY <1>5, <1>8, <1>12, <1>13, <2>1
  <2>2. CASE j # Len(hs) + 1
    <3>1. Len(hs) \in Nat /\ DOMAIN hs = 1..Len(hs) BY <1>11
    <3>2. j \in 1..Len(hs) BY ONLY <2>2, <3>1, j \in 1..(Len(hs) + 1)
    <3> QED BY <1>8, <1>12, <1>13, <3>1, <3>2
  <2> QED BY <2>1, <2>2
<1>15. Agree(s, p + 1, frame.base, new)
  BY <1>3, <1>8, <1>12, <1>13, <1>14 DEF Agree, hs2
<1>16. StackDiscipline' /\ HandlersFollowText'
  BY <1>1, <1>3, <1>4, <1>7, <1>10, <1>15, TopMoved
<1> QED BY <1>0, <1>7, <1>16 DEF NeverUndefined, Running

LEMMA TryExitStep ==
  ASSUME VInv, TryExit
  PROVE  StackDiscipline' /\ HandlersFollowText' /\ NeverUndefined'
<1>0. Running BY DEF TryExit, Fetch, Running
<1> USE <1>0, VFrameTypes
<1> DEFINE s == chunkOf(frame)
           p == frame.ip
           hs == s[p].hs
           low == Drop(frame.handlers, 1)
           g == Move(frame, p + 1, low, frame.owed)
<1>1. /\ p \in DOMAIN s /\ instr = s[p] /\ Len(stack) = frame.base + instr.h
      /\ InstrOK(s, p)
      /\ instr.rf = 0 => ~isReturning
      /\ ~isReturning => Agree(s, p, frame.base, frame.handlers)
  BY AtInstr
<1>2. instr.op = "TRY_EXIT" BY DEF TryExit, Fetch
<1>3. /\ instr.rf = 0 /\ p + 1 \in DOMAIN s /\ hs # <<>>
      /\ s[p + 1].h = instr.h /\ s[p + 1].hs = Drop(hs, 1)
  BY <1>1, <1>2 DEF InstrOK
<1>4. ~isReturning /\ Len(frame.handlers) = Len(hs) BY <1>1, <1>3 DEF Agree
<1>5. hs \in Seq(Nat) BY <1>1, InstrTypes
<1>6. frame.handlers # <<>> BY <1>3, <1>4, <1>5
<1>7. /\ s[Top(hs)].hs = Drop(hs, 1)
      /\ Agree(s, Top(hs), frame.base, low)
  BY <1>4, <1>6, TopHandler
<1>8. Agree(s, p + 1, frame.base, low) BY <1>3, <1>7 DEF Agree
<1>9. GotoWith(p + 1, low) /\ stack' = stack /\ status' = status
      /\ code' = code /\ isReturning' = isReturning
  BY <1>6 DEF TryExit, Unchanging
<1>10. low \in Seq(Handler) BY <1>6, DropOne
<1> HIDE DEF low
<1>11. /\ g \in Frame /\ g.ip = p + 1 /\ g.fn = frame.fn /\ g.base = frame.base
       /\ g.handlers = low
  <2>1. frame \in Frame /\ p + 1 \in Nat /\ frame.owed \in SUBSET Nat OBVIOUS
  <2> QED BY ONLY <1>10, <2>1, MoveFrame
<1>12. frames' = ReplaceTop(frames, g) BY <1>9 DEF GotoWith
<1> HIDE DEF g
<1>13. StackDiscipline' /\ HandlersFollowText'
  BY <1>1, <1>3, <1>4, <1>8, <1>9, <1>11, <1>12, TopMoved
<1> QED BY <1>0, <1>9, <1>13 DEF NeverUndefined, Running

(* OP_END_FINALLY without a pending return goes on below the statement.    *)
LEMMA EndFinallyStep ==
  ASSUME VInv, EndFinally
  PROVE  StackDiscipline' /\ HandlersFollowText' /\ NeverUndefined'
<1>0. Running /\ code' = code BY DEF EndFinally, Fetch, Running
<1> USE <1>0, VFrameTypes
<1> DEFINE s == chunkOf(frame)
           p == frame.ip
<1>1. /\ p \in DOMAIN s /\ instr = s[p] /\ Len(stack) = frame.base + instr.h
      /\ InstrOK(s, p)
      /\ isReturning => Returning(s, frame)
      /\ ~isReturning => Agree(s, p, frame.base, frame.handlers)
      /\ stack \in Seq(Value)
  BY AtInstr
<1>2. CASE isReturning
  <2>1. ~Intercepts(frame) BY <1>1, <1>2 DEF Returning, Intercepts
  <2>2. Leave(Append(stack, pendingReturn)) /\ isReturning' = FALSE
    BY <1>2, <2>1 DEF EndFinally
  <2>3. pendingReturn \in Value BY DEF VInv, TypeInv, VMTypeOK
  <2>4. Append(stack, pendingReturn) \in Seq(Value) /\ Append(stack, pendingReturn) # <<>>
    BY <1>1, <2>3
  <2> QED BY <2>2, <2>4, LeaveStep
<1>3. CASE ~isReturning
  <2> DEFINE g == Move(frame, p + 1, frame.handlers, frame.owed)
  <2>1. instr.op = "END_FINALLY" BY DEF EndFinally, Fetch
  <2>2. p + 1 \in DOMAIN s /\ s[p + 1].h = instr.h /\ s[p + 1].hs = s[p].hs
    BY <1>1, <2>1 DEF InstrOK
  <2>3. frames' = ReplaceTop(frames, g) /\ stack' = stack /\ status' = status
        /\ isReturning' = isReturning
    BY <1>3 DEF EndFinally, Goto, GotoWith
  <2>4. /\ g \in Frame /\ g.ip = p + 1 /\ g.fn = frame.fn /\ g.base = frame.base
        /\ g.handlers = frame.handlers
    <3>1. /\ frame \in Frame /\ p + 1 \in Nat /\ frame.owed \in SUBSET Nat
          /\ frame.handlers \in Seq(Handler)
      OBVIOUS
    <3> QED BY ONLY <3>1, MoveFrame
  <2> HIDE DEF g
  <2>5. Agree(s, p + 1, frame.base, frame.handlers) BY <1>1, <1>3, <2>2 DEF Agree
  <2>6. StackDiscipline' /\ HandlersFollowText'
    BY <1>1, <1>3, <2>2, <2>3, <2>4, <2>5, TopMoved
  <2> QED BY <1>0, <2>3, <2>6 DEF NeverUndefined, Running
<1> QED BY <1>2, <1>3

LEMMA BeginStep ==
  ASSUME frames = <<>>, stack = <<>>, NEW program, Verified(program), BeginRunOf(program)
  PROVE  StackDiscipline' /\ HandlersFollowText' /\ NeverUndefined'
<1> DEFINE new == NewFrame(Main, 0)
<1>1. /\ frames' = <<new>> /\ stack' = <<>> /\ code' = program
      /\ isReturning' = FALSE /\ status' = "running"
  BY DEF BeginRunOf
<1>2. new.fn = Main /\ new.ip = 1 /\ new.base = 0 /\ new.handlers = <<>>
  BY DEF NewFrame
<1>3. ChunkOK(program[Main]) BY FuncsAssumption DEF Verified
<1>4. 1 \in DOMAIN program[Main] /\ program[Main][1].h = 0 /\ program[Main][1].hs = <<>>
  BY <1>3 DEF ChunkOK
<1> HIDE DEF new
<1>5. DOMAIN frames' = {1} /\ Len(frames') = 1 /\ frames'[1] = new BY <1>1
<1>6. HeightOf(1)' = 0 BY <1>1, <1>2, <1>5 DEF HeightOf
<1>7. StackDiscipline'
  BY <1>1, <1>2, <1>4, <1>5, <1>6 DEF StackDiscipline, Annotation, chunkOf
<1>8. Agree(program[Main], 1, 0, <<>>) BY <1>4 DEF Agree
<1>9. HandlersFollowText'
  BY <1>1, <1>2, <1>5, <1>8 DEF HandlersFollowText, chunkOf
<1> QED BY <1>1, <1>7, <1>9 DEF NeverUndefined

(* The program is never changed, and a machine that has begun never idles. *)
LEMMA CodeStays ==
  ASSUME TypeInv, VMNext
  PROVE  code' = code /\ status' # "idle"
<1>1. ASSUME NEW t, NEW st, Raise(t, st), status # "idle" PROVE status' # "idle"
  BY <1>1 DEF Raise
<1>2. ASSUME NEW st, Leave(st), status # "idle" PROVE status' # "idle"
  BY <1>2 DEF Leave
<1>3. status # "idle" \/ BeginRun
  BY DEF VMNext, Execute, Constant, NoType, Native, GetLocal, SetLocal, Abort, Pop, Pop2Push, DefineVar, Jump,
         JumpIfFalse, JumpIfNotLt, ForIter, SkipIter, Call, Return, EndFinally, TryEnter,
         TryExit, Throw, Catch, Rethrow, Undefined, Halted, Fetch
<1>4. CASE BeginRun BY <1>4 DEF BeginRun, BeginRunOf
<1>5. CASE status # "idle" /\ ~BeginRun
  BY <1>1, <1>2, <1>5
  DEF VMNext, Execute, Constant, NoType, Native, GetLocal, SetLocal, Abort, Pop, Pop2Push, DefineVar, Jump,
      JumpIfFalse, JumpIfNotLt, ForIter, SkipIter, Call, Return, EndFinally, TryEnter,
      TryExit, Throw, Catch, Rethrow, Undefined, Halted, Unchanging, Pushes, vmVars
<1> QED BY <1>3, <1>4, <1>5

LEMMA VerifiedStep ==
  ASSUME VInv, VMNext
  PROVE  StackDiscipline' /\ HandlersFollowText' /\ NeverUndefined'
<1> DEFINE s == chunkOf(frame)
           p == frame.ip
           Goal == StackDiscipline' /\ HandlersFollowText' /\ NeverUndefined'
<1>t. stack' \in Seq(Value) /\ stack \in Seq(Value)
  BY TypeStep DEF VInv, TypeInv, VMTypeOK
<1>f. ASSUME NEW op, Fetch(op)
      PROVE  /\ Running /\ instr.op = op /\ InstrOK(s, p) /\ instr = s[p]
             /\ p \in DOMAIN s /\ p + 1 \in Nat
             /\ instr.x \in Nat /\ instr.y \in Nat /\ instr.ty \in SUBSET ErrTypes
             /\ instr.h \in Nat /\ Len(stack) = frame.base + instr.h
             /\ frame.base \in Nat
  <2>1. Running /\ instr.op = op BY <1>f DEF Fetch, Running
  <2>2. p \in Nat /\ frame.base \in Nat BY <2>1, VFrameTypes
  <2>3. instr \in Instruction BY <2>1, AtInstr
  <2> QED BY <2>1, <2>2, <2>3, AtInstr DEF Instruction
<1>e. /\ {"RuntimeError", "TypeError", "IndexError", "RecursionError"} \subseteq ErrTypes
      /\ "RuntimeError" \notin Warnings /\ "TypeError" \notin Warnings
      /\ "IndexError" \notin Warnings /\ "RecursionError" \notin Warnings
  BY ErrTypesAssumption
<1>d. 0 \in Int /\ 1 \in Int /\ -1 \in Int /\ -2 \in Int OBVIOUS
<1> HIDE DEF s, p, Goal
<1> SUFFICES Goal BY DEF Goal
<1>g. ASSUME Running, NEW q \in Nat, NEW d \in Int, Flows(s, p, q, d), Goto(q),
             Len(stack') = Len(stack) + d, Unchanging, UNCHANGED status
      PROVE  Goal
  BY <1>t, <1>g, FlowStep DEF Goal, s, p
<1>r. ASSUME Running, NEW t \in ErrTypes \ Warnings, NEW st \in Seq(Value),
             NEW d \in Int, Len(st) = Len(stack) + d, Raises(s, p, instr.h + d),
             Raise(t, st), Unchanging
      PROVE  Goal
  BY <1>r, RaiseStep DEF Goal, s, p
<1>p. ASSUME NEW v, Pushes(v) PROVE Len(stack') = Len(stack) + 1 /\ Goto(p + 1)
  BY <1>t, <1>p DEF Pushes, p
<1>a. ASSUME Abort PROVE Goal
  BY <1>a DEF Abort, Goal, StackDiscipline, HandlersFollowText, NeverUndefined, Running
<1>1. CASE BeginRun
  <2>1. frames = <<>> /\ stack = <<>> /\ Verified(code) /\ BeginRunOf(code)
    BY <1>1 DEF BeginRun, BeginRunOf, VInv
  <2> QED BY <2>1, BeginStep DEF Goal
<1>2. CASE Constant
  <2>1. Fetch("CONSTANT") /\ Pushes(<<"val", frame.ip>>) /\ Unchanging /\ UNCHANGED status
    BY <1>2 DEF Constant
  <2>2. Flows(s, p, p + 1, 1) BY <1>f, <2>1 DEF InstrOK
  <2> QED BY <1>d, <1>f, <1>g, <1>p, <2>1, <2>2
<1>3. CASE Native
  <2>1. Fetch("NATIVE") /\ Unchanging BY <1>3 DEF Native
  <2>2. Flows(s, p, p + 1, 1) /\ Raises(s, p, instr.h) BY <1>f, <2>1 DEF InstrOK
  <2>3. CASE Pushes(<<"val", frame.ip>>) /\ UNCHANGED status
    BY <1>d, <1>f, <1>g, <1>p, <2>1, <2>2, <2>3
  <2>4. CASE Raise("RuntimeError", stack)
    <3>1. instr.h + 0 = instr.h /\ Len(stack) = Len(stack) + 0 BY <1>f, <1>t, <2>1
    <3> QED BY <1>d, <1>e, <1>f, <1>r, <1>t, <2>1, <2>2, <2>4, <3>1
  <2> QED BY <1>3, <2>3, <2>4 DEF Native
<1>4. CASE GetLocal
  <2>1. Fetch("GET_LOCAL") /\ Unchanging BY <1>4 DEF GetLocal
  <2>2. Flows(s, p, p + 1, 1) BY <1>f, <2>1 DEF InstrOK
  <2>3. CASE Pushes(stack[Slot]) /\ UNCHANGED status
    BY <1>d, <1>f, <1>g, <1>p, <2>1, <2>2, <2>3
  <2>4. CASE Abort BY <1>a, <2>4
  <2> QED BY <1>4, <2>3, <2>4 DEF GetLocal
<1>5. CASE Pop
  <2>1. Fetch("POP") /\ Unchanging /\ UNCHANGED status /\ Goto(p + 1)
    BY <1>5 DEF Pop, p
  <2>2. Flows(s, p, p + 1, -1) /\ instr.h >= 1 BY <1>f, <2>1 DEF InstrOK
  <2>3. stack # <<>> BY <1>f, <1>t, <2>1, <2>2
  <2>4. Len(stack') = Len(stack) + -1 BY <1>5, <1>t, <2>3, DropOne DEF Pop
  <2> QED BY <1>d, <1>f, <1>g, <2>1, <2>2, <2>4
<1>6. CASE Pop2Push
  <2>1. Fetch("POP2_PUSH") /\ Unchanging /\ UNCHANGED status /\ Goto(p + 1)
    BY <1>6 DEF Pop2Push, p
  <2>2. Flows(s, p, p + 1, -1) /\ instr.h >= 2 BY <1>f, <2>1 DEF InstrOK
  <2>3. 2 \in Nat /\ 2 <= Len(stack) BY <1>f, <1>t, <2>1, <2>2
  <2>4. Drop(stack, 2) \in Seq(Value) /\ Len(Drop(stack, 2)) = Len(stack) - 2
    BY <1>t, <2>3, DropInSeq
  <2>5. Len(stack') = Len(stack) + -1 BY <1>6, <1>t, <2>4 DEF Pop2Push
  <2> QED BY <1>d, <1>f, <1>g, <2>1, <2>2, <2>5
<1>7. CASE DefineVar
  <2>1. Fetch("DEFINE_VAR") /\ Unchanging /\ UNCHANGED status /\ Goto(p + 1)
    BY <1>7 DEF DefineVar, p
  <2>2. Flows(s, p, p + 1, -1) /\ instr.h >= 1 BY <1>f, <2>1 DEF InstrOK
  <2>3. stack # <<>> BY <1>f, <1>t, <2>1, <2>2
  <2>4. Len(stack') = Len(stack) + -1 BY <1>7, <1>t, <2>3, DropOne DEF DefineVar
  <2> QED BY <1>d, <1>f, <1>g, <2>1, <2>2, <2>4
<1>8. CASE Jump
  <2>1. /\ Fetch("JUMP") \/ Fetch("LOOP")
        /\ Goto(instr.x) /\ stack' = stack /\ Unchanging /\ UNCHANGED status
    BY <1>8 DEF Jump
  <2>2. Running /\ instr.x \in Nat /\ Flows(s, p, instr.x, 0) BY <1>f, <2>1 DEF InstrOK
  <2>3. Len(stack') = Len(stack) + 0 BY <1>t, <2>1
  <2> QED BY <1>d, <1>g, <2>1, <2>2, <2>3
<1>9. CASE JumpIfFalse
  <2>1. /\ Fetch("JUMP_IF_FALSE") /\ (Goto(p + 1) \/ Goto(instr.x))
        /\ stack' = stack /\ Unchanging /\ UNCHANGED status
    BY <1>9 DEF JumpIfFalse, p
  <2>2. Flows(s, p, p + 1, 0) /\ Flows(s, p, instr.x, 0) BY <1>f, <2>1 DEF InstrOK
  <2>3. Len(stack') = Len(stack) + 0 BY <1>t, <2>1
  <2> QED BY <1>d, <1>f, <1>g, <2>1, <2>2, <2>3
<1>10. CASE JumpIfNotLt
  <2>1. Fetch("JUMP_IF_NOT_LT") /\ Unchanging BY <1>10 DEF JumpIfNotLt
  <2>2. /\ Flows(s, p, p + 1, 0) /\ Flows(s, p, instr.x, 0) /\ Raises(s, p, instr.h)
    BY <1>f, <2>1 DEF InstrOK
  <2>3. Len(stack) = Len(stack) + 0 /\ instr.h + 0 = instr.h BY <1>f, <1>t, <2>1
  <2>4. CASE (Goto(p + 1) \/ Goto(instr.x)) /\ stack' = stack /\ UNCHANGED status
    BY <1>d, <1>f, <1>g, <2>1, <2>2, <2>3, <2>4
  <2>5. CASE Raise("TypeError", stack)
    BY <1>d, <1>e, <1>f, <1>r, <1>t, <2>1, <2>2, <2>3, <2>5
  <2>6. CASE Abort BY <1>a, <2>6
  <2> QED BY <1>10, <2>4, <2>5, <2>6 DEF JumpIfNotLt, p
<1>11. CASE ForIter
  <2>1. Fetch("FOR_ITER") /\ Unchanging BY <1>11 DEF ForIter
  <2>2. /\ Flows(s, p, p + 1, instr.y) /\ Flows(s, p, instr.x, 0)
        /\ Raises(s, p, instr.h)
    BY <1>f, <2>1 DEF InstrOK
  <2>3. Len(stack) = Len(stack) + 0 /\ instr.h + 0 = instr.h BY <1>f, <1>t, <2>1
  <2>4. CASE /\ stack' = stack \o [k \in 1..instr.y |-> <<"val", frame.ip>>]
             /\ Goto(p + 1) /\ UNCHANGED status
    <3> DEFINE v == <<"val", frame.ip>>
               pushed == [k \in 1..instr.y |-> v]
    <3> HIDE DEF v
    <3>1. instr.y \in Nat /\ instr.y \in Int BY <1>f, <2>1
    <3>2. Len(pushed) = instr.y /\ pushed \in Seq({v}) BY ONLY <3>1
    <3> HIDE DEF pushed
    <3>3. stack' = stack \o pushed BY <2>4 DEF pushed, v
    <3>4. Len(stack') = Len(stack) + instr.y BY <1>t, <3>2, <3>3
    <3> QED BY <1>f, <1>g, <2>1, <2>2, <2>4, <3>1, <3>4
  <2>5. CASE Goto(instr.x) /\ stack' = stack /\ UNCHANGED status
    BY <1>d, <1>f, <1>g, <2>1, <2>2, <2>3, <2>5
  <2>6. CASE Raise("TypeError", stack)
    BY <1>d, <1>e, <1>f, <1>r, <1>t, <2>1, <2>2, <2>3, <2>6
  <2> QED BY <1>11, <2>4, <2>5, <2>6 DEF ForIter, p
<1>12. CASE SkipIter
  <2> DEFINE st == Drop(stack, 1)
  <2>1. Fetch("SKIP_ITER") /\ Unchanging BY <1>12 DEF SkipIter
  <2>2. Flows(s, p, p + 1, -1) /\ Raises(s, p, instr.h - 1) /\ instr.h >= 1
    BY <1>f, <2>1 DEF InstrOK
  <2>3. stack # <<>> BY <1>f, <1>t, <2>1, <2>2
  <2>4. st \in Seq(Value) /\ Len(st) = Len(stack) + -1 BY <1>t, <2>3, DropOne
  <2>5. instr.h - 1 = instr.h + -1 BY <1>f, <2>1
  <2> HIDE DEF st
  <2>6. CASE stack' = st /\ Goto(p + 1) /\ UNCHANGED status
    BY <1>d, <1>f, <1>g, <2>1, <2>2, <2>4, <2>6
  <2>7. CASE Raise("TypeError", st) \/ Raise("IndexError", st)
    BY <1>d, <1>e, <1>f, <1>r, <2>1, <2>2, <2>4, <2>5, <2>7
  <2> QED BY <1>12, <2>6, <2>7 DEF SkipIter, p, st
<1>13. CASE Call
  <2>1. Fetch("CALL") /\ Unchanging BY <1>13 DEF Call
  <2>2. Raises(s, p, instr.h) BY <1>f, <2>1 DEF InstrOK
  <2>3. CASE Raise("RecursionError", stack)
    <3>1. Len(stack) = Len(stack) + 0 /\ instr.h + 0 = instr.h BY <1>f, <1>t, <2>1
    <3> QED BY <1>d, <1>e, <1>f, <1>r, <1>t, <2>1, <2>2, <2>3, <3>1
  <2>4. CASE ~Raise("RecursionError", stack)
    <3>1. Len(stack) <= StackLimit BY <1>13, <2>4 DEF Call
    <3> QED BY <1>13, <2>1, <2>4, <3>1, CallStep DEF Goal
  <2> QED BY <2>3, <2>4
<1>14. CASE Return
  <2>1. Fetch("RETURN") /\ code' = code BY <1>14 DEF Return
  <2>2. instr.h >= 1 /\ instr.rf = 0 BY <1>f, <2>1 DEF InstrOK
  <2>3. ~isReturning BY <1>f, <2>1, <2>2, AtInstr
  <2>4. stack # <<>> BY <1>f, <1>t, <2>1, <2>2
  <2>5. CASE Intercepts(frame)
    <3>1. EnterFinally /\ stack' = Drop(stack, 1) /\ isReturning' = TRUE /\ status' = status
      BY <1>14, <2>5 DEF Return
    <3> QED BY <2>1, <2>5, <3>1, EnterFinallyStep DEF Goal
  <2>6. CASE ~Intercepts(frame)
    <3>1. Leave(stack) /\ isReturning' = FALSE BY <1>14, <2>3, <2>6, <1>t DEF Return, VInv, TypeInv, VMTypeOK
    <3> QED BY <1>f, <1>t, <2>1, <2>4, <3>1, LeaveStep DEF Goal
  <2> QED BY <2>5, <2>6
<1>15. CASE EndFinally BY <1>15, EndFinallyStep DEF Goal
<1>16. CASE TryEnter BY <1>16, TryEnterStep DEF Goal
<1>17. CASE TryExit BY <1>17, TryExitStep DEF Goal
<1>18. CASE Throw
  <2>1. Fetch("THROW") /\ Unchanging BY <1>18 DEF Throw
  <2>2. /\ Raises(s, p, instr.h - 2) /\ instr.h >= 2
        /\ instr.ty \cap Warnings # {} => Flows(s, p, p + 1, -2)
    BY <1>f, <2>1 DEF InstrOK
  <2>3. 2 \in Nat /\ 2 <= Len(stack) BY <1>f, <1>t, <2>1, <2>2
  <2>4. Drop(stack, 2) \in Seq(Value) /\ Len(Drop(stack, 2)) = Len(stack) + -2
    BY <1>t, <2>3, DropInSeq
  <2>5. PICK t \in instr.ty : Raise(t, Drop(stack, 2)) BY <1>18 DEF Throw
  <2>6. t \in ErrTypes /\ (t \in Warnings => Flows(s, p, p + 1, -2))
    BY <1>f, <2>1, <2>2
  <2>7. Raises(s, p, instr.h + -2) BY <1>f, <2>1, <2>2
  <2>8. Running BY <1>f, <2>1
  <2> QED BY <1>d, <2>1, <2>4, <2>5, <2>6, <2>7, <2>8, RaiseStep DEF Goal, s, p
<1>19. CASE Catch
  <2>1. /\ Fetch("CATCH") /\ Pushes(<<"bool", Matches(Top(stack), instr.ty)>>)
        /\ Unchanging /\ UNCHANGED status
    BY <1>19 DEF Catch
  <2>2. Flows(s, p, p + 1, 1) BY <1>f, <2>1 DEF InstrOK
  <2> QED BY <1>d, <1>f, <1>g, <1>p, <2>1, <2>2
<1>20. CASE Rethrow
  <2> DEFINE st == Drop(stack, 1)
  <2>1. Fetch("RETHROW") /\ Unchanging BY <1>20 DEF Rethrow
  <2>2. Flows(s, p, p + 1, -1) /\ Raises(s, p, instr.h - 1) /\ instr.h >= 1
    BY <1>f, <2>1 DEF InstrOK
  <2>3. stack # <<>> BY <1>f, <1>t, <2>1, <2>2
  <2>4. /\ st \in Seq(Value) /\ Len(st) = Len(stack) + -1 /\ Top(stack) \in Value
    BY <1>t, <2>3, DropOne, TopInSeq
  <2>5. Raises(s, p, instr.h + -1) BY <1>f, <2>1, <2>2
  <2> HIDE DEF st
  <2>6. CASE Top(stack)[1] # "err"
    <3>1. stack' = st /\ Goto(p + 1) /\ UNCHANGED status
      BY <1>20, <2>6 DEF Rethrow, st, p
    <3> QED BY <1>d, <1>f, <1>g, <2>1, <2>2, <2>4, <3>1
  <2>7. CASE Top(stack)[1] = "err"
    <3> DEFINE t == Top(stack)[2]
    <3>1. t \in ErrTypes BY <2>4, <2>7 DEF Value
    <3> HIDE DEF t
    <3>2. Raise(t, st) BY <1>20, <2>7 DEF Rethrow, st, t
    <3>3. Running BY <1>f, <2>1
    <3> QED BY <1>d, <2>1, <2>2, <2>4, <2>5, <3>1, <3>2, <3>3, RaiseStep DEF Goal, s, p
  <2> QED BY <2>6, <2>7
<1>21. CASE Undefined
  <2>1. Running /\ ~Defined BY <1>21 DEF Undefined, Running
  <2> QED BY <2>1, AlwaysDefined
<1>23. CASE NoType
  <2>1. Fetch("NOTYPE") /\ Pushes(<<"notype", frame.ip>>) /\ Unchanging /\ UNCHANGED status
    BY <1>23 DEF NoType
  <2>2. Flows(s, p, p + 1, 1) BY <1>f, <2>1 DEF InstrOK
  <2> QED BY <1>d, <1>f, <1>g, <1>p, <2>1, <2>2
<1>24. CASE SetLocal
  <2>1. Fetch("SET_LOCAL") /\ Unchanging /\ UNCHANGED status /\ Goto(p + 1)
    BY <1>24 DEF SetLocal, p
  <2>2. Flows(s, p, p + 1, 0) BY <1>f, <2>1 DEF InstrOK
  <2>3. Len(stack') = Len(stack) + 0 BY <1>24, <1>t DEF SetLocal
  <2> QED BY <1>d, <1>f, <1>g, <2>1, <2>2, <2>3
<1>22. CASE Halted
  BY <1>22 DEF Halted, vmVars, VInv, StackDiscipline, HandlersFollowText, NeverUndefined,
               Running, Goal
<1> QED
  BY <1>1, <1>2, <1>3, <1>4, <1>5, <1>6, <1>7, <1>8, <1>9, <1>10, <1>11,
     <1>12, <1>13, <1>14, <1>15, <1>16, <1>17, <1>18, <1>19, <1>20, <1>21, <1>22,
     <1>23, <1>24 DEF VMNext, Execute

LEMMA VInvStep == VInv /\ [VMNext]_vmVars => VInv'
<1> SUFFICES ASSUME VInv, [VMNext]_vmVars PROVE VInv' OBVIOUS
<1>1. TypeInv' BY TypeStep DEF VInv
<1>2. CASE UNCHANGED vmVars
  <2>1. StackDiscipline' /\ HandlersFollowText' /\ NeverUndefined'
    BY <1>2 DEF vmVars, VInv, StackDiscipline, HandlersFollowText, NeverUndefined,
                Running, HeightOf, Annotation, chunkOf
  <2> QED BY <1>1, <1>2, <2>1 DEF vmVars, VInv, Verified
<1>3. CASE VMNext
  <2>1. StackDiscipline' /\ HandlersFollowText' /\ NeverUndefined'
    BY <1>3, VerifiedStep
  <2>2. code' = code /\ status' # "idle" BY <1>3, CodeStays DEF VInv
  <2> QED BY <1>1, <2>1, <2>2 DEF VInv, Verified
<1> QED BY <1>2, <1>3

(* A verified program runs safely: at every instruction the stack holds    *)
(* what the compiler counted, the handlers are those of the enclosing try  *)
(* bodies, and the machine never pops an empty stack, reads beyond the     *)
(* stack or leaves its chunk.                                              *)
THEOREM VerifiedRunsSafely ==
  ASSUME \A c \in Programs : Verified(c)
  PROVE  VMSpec => [](StackDiscipline /\ HandlersFollowText /\ NeverUndefined)
<1>1. VMInit => VInv
  <2> SUFFICES ASSUME VMInit PROVE VInv OBVIOUS
  <2>1. TypeInv BY VMInitType
  <2>2. Verified(code) BY DEF VMInit
  <2> QED BY <2>1, <2>2 DEF VMInit, VMIdle, VInv, StackDiscipline, HandlersFollowText,
                            NeverUndefined, Running
<1>2. VInv => StackDiscipline /\ HandlersFollowText /\ NeverUndefined BY DEF VInv
<1> QED BY <1>1, <1>2, VInvStep, PTL DEF VMSpec

(* Instructions that may raise an error, and those that may jump.          *)
Fallible == {"NATIVE", "JUMP_IF_NOT_LT", "FOR_ITER", "SKIP_ITER", "CALL", "THROW", "RETHROW"}
Branches == {"JUMP", "LOOP", "JUMP_IF_FALSE", "JUMP_IF_NOT_LT", "FOR_ITER"}

----------------------------------------------------------------------------
(* Lexical addressing.  A labelling of a chunk says, for each instruction, *)
(* which declarations fill the first slots of the frame when it is about   *)
(* to execute.  `Addressed` is what makes it right, again a condition on   *)
(* each instruction and its successors alone: a label is only forgotten on *)
(* the way, but for the values an instruction pushes, and an instruction   *)
(* that names a declaration finds it in its slot.                          *)

Knows(l, l2) == \A k \in DOMAIN l2 : k \in DOMAIN l /\ l2[k] = l[k]

Pushing == {"CONSTANT", "NOTYPE", "NATIVE", "FOR_ITER"}

(* Operands that are not the variables of the frame. *)
Spare(op) == CASE op = "POP2_PUSH" -> 2 [] op = "CALL" -> 1 [] OTHER -> 0

Onto(s, l, p) ==
  \A k \in DOMAIN l[p + 1] :
    \/ k \in DOMAIN l[p] /\ l[p + 1][k] = l[p][k]
    \/ s[p].op \in Pushing /\ k > s[p].h /\ l[p + 1][k] = p

Names(i) == i.op = "SET_LOCAL" \/ (i.op \in {"GET_LOCAL", "SKIP_ITER"} /\ i.x # 0)

AddressedAt(s, l, p) ==
  LET i == s[p] IN
  /\ l[p] \in Seq(Nat) /\ Len(l[p]) + Spare(i.op) <= i.h
  /\ i.op \notin {"JUMP", "LOOP", "RETURN"} => Onto(s, l, p)
  /\ i.op \in Branches => Knows(l[p], l[i.x])
  /\ i.op \in Fallible \cup {"RETURN"} /\ i.hs # <<>> => Knows(l[p], l[Top(i.hs)])
  /\ i.op = "TRY_ENTER" => Knows(l[p], l[i.x]) /\ (i.y # 0 => Knows(l[p], l[i.y]))
  /\ Names(i) => i.y + 1 \in DOMAIN l[p] /\ l[p][i.y + 1] = i.x

Addressed(s, l) == \A p \in DOMAIN s : AddressedAt(s, l, p)

(* The stack holds what the label l says, in the frame that begins at base. *)
Holds(st, base, l) ==
  \A k \in DOMAIN l : base + k \in DOMAIN st /\ st[base + k] \in {<<"val", l[k]>>, <<"notype", l[k]>>}

LabelOf(L, i) == L[frames[i].fn][frames[i].ip]

LabelsWith(L) ==
  /\ \A f \in Funcs : Addressed(code[f], L[f])
  /\ Running =>
       \A i \in DOMAIN frames :
         /\ Holds(stack, frames[i].base, LabelOf(L, i))
         /\ \A j \in DOMAIN frames :
              i < j => frames[i].base + Len(LabelOf(L, i)) <= frames[j].base

(* A label knows another that is as long or shorter and agrees with it. *)
LEMMA KnowsIs ==
  ASSUME NEW l \in Seq(Nat), NEW l2 \in Seq(Nat), Knows(l, l2)
  PROVE  Len(l2) \in Nat /\ Len(l) \in Nat /\ Len(l2) <= Len(l)
<1>1. DOMAIN l = 1..Len(l) /\ DOMAIN l2 = 1..Len(l2) /\ Len(l) \in Nat /\ Len(l2) \in Nat OBVIOUS
<1>2. CASE Len(l2) = 0 BY <1>1, <1>2
<1>3. CASE Len(l2) # 0
  <2>1. Len(l2) \in DOMAIN l2 BY <1>1, <1>3
  <2>2. Len(l2) \in DOMAIN l BY <2>1 DEF Knows
  <2> QED BY <1>1, <2>2
<1> QED BY <1>1, <1>2, <1>3

(* To know is transitive. *)
LEMMA KnowsOn == ASSUME NEW a, NEW b, NEW c, Knows(a, b), Knows(b, c) PROVE Knows(a, c)
BY DEF Knows

(* A stack that holds a label holds every label it knows. *)
LEMMA HoldsOn ==
  ASSUME NEW st, NEW st2 \in Seq(Value), NEW base \in Nat, NEW l \in Seq(Nat), NEW l2 \in Seq(Nat),
         Holds(st, base, l), Knows(l, l2), base + Len(l2) <= Len(st2),
         \A j \in 1..(base + Len(l2)) : st2[j] = st[j]
  PROVE  Holds(st2, base, l2)
<1> SUFFICES ASSUME NEW k \in DOMAIN l2
             PROVE  base + k \in DOMAIN st2 /\ st2[base + k] \in {<<"val", l2[k]>>, <<"notype", l2[k]>>}
  BY DEF Holds
<1>1. k \in 1..Len(l2) /\ Len(l2) \in Nat /\ Len(st2) \in Nat OBVIOUS
<1>2. base + k \in 1..(base + Len(l2)) /\ base + k \in DOMAIN st2 BY <1>1
<1>3. k \in DOMAIN l /\ l2[k] = l[k] BY DEF Knows
<1>4. st[base + k] \in {<<"val", l[k]>>, <<"notype", l[k]>>} BY <1>3 DEF Holds
<1> QED BY <1>2, <1>3, <1>4

(* What is known of the code about to be executed. *)
LEMMA AtLabel ==
  ASSUME NEW L, VInv, Running, LabelsWith(L)
  PROVE  LET s == chunkOf(frame)  p == frame.ip  l == L[frame.fn] IN
         /\ AddressedAt(s, l, p) /\ Holds(stack, frame.base, l[p])
         /\ \A q \in DOMAIN s : AddressedAt(s, l, q) /\ l[q] \in Seq(Nat) /\ Len(l[q]) <= s[q].h
         /\ \A i \in DOMAIN frames : i # Len(frames) =>
              /\ Holds(stack, frames[i].base, LabelOf(L, i))
              /\ frames[i].base + Len(LabelOf(L, i)) <= frame.base
<1>1. /\ frame.fn \in Funcs /\ frame.ip \in DOMAIN chunkOf(frame) /\ chunkOf(frame) = code[frame.fn]
      /\ chunkOf(frame) \in Seq(Instruction) /\ frames \in Seq(Frame) /\ frames # <<>>
  BY VFrameTypes, AtInstr DEF chunkOf
<1>2. Len(frames) \in DOMAIN frames /\ frame = frames[Len(frames)] /\ DOMAIN frames = 1..Len(frames)
      /\ Len(frames) \in Nat
  BY <1>1, TopInSeq DEF frame, Top
<1>3. Addressed(chunkOf(frame), L[frame.fn]) BY <1>1 DEF LabelsWith
<1>4. Holds(stack, frame.base, L[frame.fn][frame.ip]) BY <1>2 DEF LabelsWith, LabelOf
<1>5. ASSUME NEW q \in DOMAIN chunkOf(frame)
      PROVE  /\ AddressedAt(chunkOf(frame), L[frame.fn], q) /\ L[frame.fn][q] \in Seq(Nat)
             /\ Len(L[frame.fn][q]) <= chunkOf(frame)[q].h
  <2>1. AddressedAt(chunkOf(frame), L[frame.fn], q) BY <1>3 DEF Addressed
  <2>2. /\ L[frame.fn][q] \in Seq(Nat)
        /\ Len(L[frame.fn][q]) + Spare(chunkOf(frame)[q].op) <= chunkOf(frame)[q].h
    BY <2>1 DEF AddressedAt
  <2>3. chunkOf(frame)[q].h \in Nat BY <1>1, InstrTypes
  <2>4. Spare(chunkOf(frame)[q].op) \in {0, 1, 2} BY DEF Spare
  <2> QED BY <2>1, <2>2, <2>3, <2>4
<1>6. ASSUME NEW i \in DOMAIN frames, i # Len(frames)
      PROVE  /\ Holds(stack, frames[i].base, LabelOf(L, i))
             /\ frames[i].base + Len(LabelOf(L, i)) <= frame.base
  <2>1. i < Len(frames) BY <1>2, <1>6
  <2> QED BY <1>2, <2>1 DEF LabelsWith
<1> QED BY <1>1, <1>4, <1>5, <1>6

(* A frame below the top one holds its label as long as the stack is what  *)
(* it was below the top frame.                                             *)
LEMMA BelowKept ==
  ASSUME NEW L, VInv, Running, LabelsWith(L), NEW i \in DOMAIN frames, i # Len(frames),
         NEW st \in Seq(Value), frame.base <= Len(st), \A j \in 1..frame.base : st[j] = stack[j]
  PROVE  Holds(st, frames[i].base, LabelOf(L, i))
<1>1. frame.base \in Nat /\ Len(st) \in Nat /\ frames \in Seq(Frame) BY VFrameTypes
<1>2. /\ Holds(stack, frames[i].base, LabelOf(L, i))
      /\ frames[i].base + Len(LabelOf(L, i)) <= frame.base
  BY AtLabel
<1>3. frames[i].base \in Nat /\ LabelOf(L, i) \in Seq(Nat)
  <2>1. frames[i] \in Frame BY <1>1
  <2>2. frames[i].fn \in Funcs /\ frames[i].base \in Nat BY <2>1 DEF Frame
  <2>3. frames[i].ip \in DOMAIN code[frames[i].fn]
    BY <2>2 DEF VInv, StackDiscipline, chunkOf
  <2>4. AddressedAt(code[frames[i].fn], L[frames[i].fn], frames[i].ip)
    BY <2>2, <2>3 DEF LabelsWith, Addressed
  <2> QED BY <2>2, <2>4 DEF AddressedAt, LabelOf
<1> DEFINE l == LabelOf(L, i)
           b == frames[i].base
           t == frame.base
<1> HIDE DEF l, b, t
<1>4. b + Len(l) <= t /\ b \in Nat /\ l \in Seq(Nat) /\ Holds(stack, b, l)
      /\ t \in Nat /\ t <= Len(st) /\ Len(st) \in Nat /\ \A j \in 1..t : st[j] = stack[j]
  BY <1>1, <1>2, <1>3 DEF l, b, t
<1>5. b + Len(l) <= Len(st) /\ \A j \in 1..(b + Len(l)) : j \in 1..t
  BY <1>4
<1>6. Knows(l, l) BY DEF Knows
<1>7. \A j \in 1..(b + Len(l)) : st[j] = stack[j] BY <1>4, <1>5
<1> QED BY <1>4, <1>5, <1>6, <1>7, HoldsOn DEF l, b

(* The labels after a step of the top frame.                               *)
LEMMA LabelsMoved ==
  ASSUME NEW L, VInv, Running, LabelsWith(L), code' = code,
         NEW q \in DOMAIN chunkOf(frame), NEW handlers \in Seq(Handler), NEW owed \in SUBSET Nat,
         frames' = ReplaceTop(frames, Move(frame, q, handlers, owed)),
         stack' \in Seq(Value), frame.base <= Len(stack'),
         \A j \in 1..frame.base : stack'[j] = stack[j],
         Holds(stack', frame.base, L[frame.fn][q])
  PROVE  LabelsWith(L)'
<1> DEFINE n == Len(frames)
           g == Move(frame, q, handlers, owed)
<1>1. /\ n \in Nat \ {0} /\ DOMAIN frames = 1..n /\ frame = frames[n] /\ q \in Nat
      /\ frames \in Seq(Frame) /\ frames # <<>> /\ frame \in Frame /\ frame.base \in Nat
  BY VFrameTypes, TopInSeq DEF frame, Top
<1>2. g \in Frame /\ g.ip = q /\ g.fn = frame.fn /\ g.base = frame.base BY <1>1, MoveFrame
<1> HIDE DEF g
<1>3. /\ frames' \in Seq(Frame) /\ Len(frames') = n /\ frames'[n] = g
      /\ \A i \in 1..(n - 1) : frames'[i] = frames[i]
  <2>1. frames' = ReplaceTop(frames, g) BY DEF g
  <2> QED BY ONLY <1>1, <1>2, <2>1, TopFrameReplaced
<1>4. DOMAIN frames' = 1..n BY <1>1, <1>3
<1>5. \A i \in 1..n : frames'[i].base = frames[i].base BY <1>1, <1>2, <1>3
<1>6. \A i \in 1..n : i # n => i \in 1..(n - 1)
  <2>1. n \in Nat BY <1>1
  <2> QED BY ONLY <2>1, BelowTop
<1>7. ASSUME NEW i \in 1..n PROVE Holds(stack', frames'[i].base, LabelOf(L, i)')
  <2>1. CASE i = n BY <1>2, <1>3, <2>1 DEF LabelOf
  <2>2. CASE i # n
    <3>1. frames'[i] = frames[i] /\ LabelOf(L, i)' = LabelOf(L, i) BY <1>3, <1>6, <2>2 DEF LabelOf
    <3>2. Holds(stack', frames[i].base, LabelOf(L, i)) BY <1>1, <2>2, BelowKept
    <3> QED BY <3>1, <3>2
  <2> QED BY <2>1, <2>2
<1>8. ASSUME NEW i \in 1..n, NEW j \in 1..n, i < j
      PROVE  frames'[i].base + Len(LabelOf(L, i)') <= frames'[j].base
  <2>1. i # n
    <3>1. n \in Nat /\ i \in 1..n /\ j \in 1..n /\ i < j BY <1>1, <1>8
    <3> QED BY ONLY <3>1
  <2>2. LabelOf(L, i)' = LabelOf(L, i) BY <1>3, <1>6, <2>1 DEF LabelOf
  <2>3. frames[i].base + Len(LabelOf(L, i)) <= frames[j].base BY <1>1, <1>8 DEF LabelsWith
  <2> QED BY <1>5, <2>2, <2>3
<1>9. \A f \in Funcs : Addressed(code'[f], L[f]) BY DEF LabelsWith
<1> QED BY <1>3, <1>4, <1>7, <1>8, <1>9 DEF LabelsWith

(* ... one that leaves the stack as it was up to where the label ends.     *)
LEMMA LabelsKept ==
  ASSUME NEW L, VInv, Running, LabelsWith(L), code' = code,
         NEW q \in DOMAIN chunkOf(frame), NEW handlers \in Seq(Handler),
         GotoWith(q, handlers),
         Knows(L[frame.fn][frame.ip], L[frame.fn][q]),
         stack' \in Seq(Value), frame.base + Len(L[frame.fn][q]) <= Len(stack'),
         \A j \in 1..(frame.base + Len(L[frame.fn][q])) : stack'[j] = stack[j]
  PROVE  LabelsWith(L)'
<1> DEFINE l == L[frame.fn][frame.ip]
           l2 == L[frame.fn][q]
<1>1. /\ l \in Seq(Nat) /\ l2 \in Seq(Nat) /\ Holds(stack, frame.base, l)
      /\ frame.base \in Nat /\ frame.owed \in SUBSET Nat /\ Len(stack') \in Nat
  BY AtLabel, AtInstr, VFrameTypes
<1>2. frame.base <= Len(stack') /\ \A j \in 1..frame.base : j \in 1..(frame.base + Len(l2))
  <2>1. Len(l2) \in Nat BY <1>1
  <2> QED BY <1>1, <2>1
<1>3. \A j \in 1..frame.base : stack'[j] = stack[j] BY <1>2
<1>4. Holds(stack', frame.base, l2)
  <2>1. Knows(l, l2) /\ frame.base + Len(l2) <= Len(stack') /\ stack' \in Seq(Value)
        /\ \A j \in 1..(frame.base + Len(l2)) : stack'[j] = stack[j]
    OBVIOUS
  <2> HIDE DEF l, l2
  <2> QED BY ONLY <1>1, <2>1, HoldsOn
<1> QED BY <1>1, <1>2, <1>3, <1>4, LabelsMoved DEF GotoWith

(* An instruction finds its label below the height the verifier gives it. *)
LEMMA RoomFor ==
  ASSUME NEW b \in Nat, NEW h \in Nat, NEW d \in Int, NEW a \in Nat, a <= h + d,
         NEW w \in Nat, w = b + h + d
  PROVE  b + a <= w /\ b <= w /\ \A j \in 1..(b + a) : j \in 1..w
OBVIOUS

(* An instruction that goes on at q with the stack higher by d.            *)
LEMMA LabelsFlow ==
  ASSUME NEW L, VInv, Running, LabelsWith(L), code' = code,
         NEW q \in DOMAIN chunkOf(frame), NEW d \in Int, NEW handlers \in Seq(Handler),
         GotoWith(q, handlers), chunkOf(frame)[q].h = instr.h + d,
         Knows(L[frame.fn][frame.ip], L[frame.fn][q]),
         stack' \in Seq(Value), Len(stack') = Len(stack) + d,
         \A j \in DOMAIN stack : j \in DOMAIN stack' => stack'[j] = stack[j]
  PROVE  LabelsWith(L)'
<1> DEFINE l == L[frame.fn][frame.ip]
           l2 == L[frame.fn][q]
<1>1. /\ l \in Seq(Nat) /\ l2 \in Seq(Nat) /\ Len(l) <= instr.h /\ Len(l2) <= chunkOf(frame)[q].h
      /\ Len(stack) = frame.base + instr.h /\ stack \in Seq(Value)
      /\ frame.base \in Nat /\ instr.h \in Nat
  <2>1. instr = chunkOf(frame)[frame.ip] /\ frame.ip \in DOMAIN chunkOf(frame) BY AtInstr
  <2>2. chunkOf(frame)[frame.ip].h \in Nat BY <2>1, VFrameTypes, InstrTypes
  <2> QED BY <2>1, <2>2, AtInstr, AtLabel, VFrameTypes
<1>2. Len(l2) \in Nat /\ Len(l2) <= Len(l) /\ Len(l) \in Nat
  <2> HIDE DEF l, l2
  <2> QED BY <1>1, KnowsIs DEF l, l2
<1> DEFINE b == frame.base
           a == Len(l2)
<1>3. b + a <= Len(stack) /\ b + a <= Len(stack') /\ \A j \in 1..(b + a) : j \in DOMAIN stack /\ j \in DOMAIN stack'
  <2>1. Len(l2) <= instr.h + d /\ Len(stack') = Len(stack) + d BY <1>1
  <2>2. /\ DOMAIN stack = 1..Len(stack) /\ DOMAIN stack' = 1..Len(stack')
        /\ Len(stack) \in Nat /\ Len(stack') \in Nat
    BY <1>1
  <2> DEFINE u == Len(stack)
             w == Len(stack')
             h == instr.h
             m == Len(l)
  <2>3. /\ b \in Nat /\ h \in Nat /\ a \in Nat /\ u \in Nat /\ w \in Nat /\ m \in Nat
        /\ a <= h + d /\ w = u + d /\ u = b + h /\ a <= m /\ m <= h
    BY <1>1, <1>2, <2>1, <2>2
  <2>4. DOMAIN stack = 1..u /\ DOMAIN stack' = 1..w BY <2>2
  <2> HIDE DEF b, a, u, w, h, m
  <2>5. w = b + h + d /\ a <= h + 0 /\ u = b + h + 0 /\ 0 \in Int BY <2>3
  <2>6. b + a <= w /\ \A j \in 1..(b + a) : j \in 1..w BY <2>3, <2>5, RoomFor
  <2>7. b + a <= u /\ \A j \in 1..(b + a) : j \in 1..u BY ONLY <2>3, <2>5, RoomFor
  <2> QED BY <2>4, <2>6, <2>7 DEF u, w
<1>5. \A j \in 1..(b + a) : stack'[j] = stack[j] BY <1>3
<1> QED BY <1>3, <1>5, LabelsKept

(* A label goes on from an instruction that pushes none.                   *)
LEMMA OntoNext ==
  ASSUME NEW s, NEW l, NEW p, AddressedAt(s, l, p),
         s[p].op \notin {"JUMP", "LOOP", "RETURN"} \cup Pushing
  PROVE  Knows(l[p], l[p + 1])
BY DEF AddressedAt, Onto, Knows

(* A step to the next instruction that moves only what no label speaks of. *)
LEMMA LabelsOnward ==
  ASSUME NEW L, VInv, Running, LabelsWith(L), code' = code, NEW d \in Int,
         NEW handlers \in Seq(Handler), GotoWith(frame.ip + 1, handlers),
         frame.ip + 1 \in DOMAIN chunkOf(frame), chunkOf(frame)[frame.ip + 1].h = instr.h + d,
         instr.op \notin {"JUMP", "LOOP", "RETURN"} \cup Pushing,
         stack' \in Seq(Value), Len(stack') = Len(stack) + d,
         \A j \in DOMAIN stack : j \in DOMAIN stack' => stack'[j] = stack[j]
  PROVE  LabelsWith(L)'
<1>1. AddressedAt(chunkOf(frame), L[frame.fn], frame.ip) /\ instr = chunkOf(frame)[frame.ip]
  BY AtLabel, AtInstr
<1>2. Knows(L[frame.fn][frame.ip], L[frame.fn][frame.ip + 1]) BY <1>1, OntoNext
<1> QED BY <1>2, LabelsFlow

(* An instruction that pushes d values.                                    *)
LEMMA LabelsPushed ==
  ASSUME NEW L, VInv, Running, LabelsWith(L), code' = code, NEW d \in Nat,
         Goto(frame.ip + 1), Flows(chunkOf(frame), frame.ip, frame.ip + 1, d),
         instr.op \in Pushing,
         stack' \in Seq(Value), Len(stack') = Len(stack) + d,
         \A j \in DOMAIN stack : stack'[j] = stack[j],
         \A j \in DOMAIN stack' :
           j \in DOMAIN stack \/ stack'[j] \in {<<"val", frame.ip>>, <<"notype", frame.ip>>}
  PROVE  LabelsWith(L)'
<1> DEFINE s == chunkOf(frame)
           p == frame.ip
           l == L[frame.fn][p]
           l2 == L[frame.fn][p + 1]
           b == frame.base
<1>1. /\ instr = s[p] /\ p \in DOMAIN s /\ p + 1 \in DOMAIN s /\ s[p + 1].h = instr.h + d
      /\ Len(stack) = b + instr.h /\ stack \in Seq(Value) /\ b \in Nat /\ s \in Seq(Instruction)
      /\ frame.handlers \in Seq(Handler) /\ frame.owed \in SUBSET Nat
  BY AtInstr, VFrameTypes DEF Flows
<1>2. /\ l \in Seq(Nat) /\ l2 \in Seq(Nat) /\ Len(l2) <= s[p + 1].h /\ Holds(stack, b, l)
      /\ AddressedAt(s, L[frame.fn], p) /\ instr.h \in Nat
  <2>1. instr.h \in Nat BY <1>1, InstrTypes
  <2> QED BY <1>1, <2>1, AtLabel
<1>3. Onto(s, L[frame.fn], p) BY <1>1, <1>2 DEF AddressedAt, Pushing
<1> HIDE DEF l, l2
<1>4. ASSUME NEW k \in DOMAIN l2
      PROVE  b + k \in DOMAIN stack' /\ stack'[b + k] \in {<<"val", l2[k]>>, <<"notype", l2[k]>>}
  <2>1. k \in 1..Len(l2) /\ Len(l2) \in Nat BY <1>2
  <2>2. b + k \in DOMAIN stack' /\ (k > instr.h => b + k > Len(stack))
    <3> DEFINE a == Len(l2)
               u == Len(stack)
               w == Len(stack')
               h == instr.h
    <3>1. /\ b \in Nat /\ h \in Nat /\ a \in Nat /\ u \in Nat /\ w \in Nat /\ k \in 1..a
          /\ a <= h + d /\ w = u + d /\ u = b + h /\ DOMAIN stack' = 1..w
      BY <1>1, <1>2, <2>1
    <3> HIDE DEF a, u, w, h, b
    <3>2. b + k \in 1..w /\ (k > h => b + k > u) BY ONLY <3>1, d \in Nat
    <3> QED BY <3>1, <3>2 DEF h, u
  <2>3. CASE k \in DOMAIN l /\ l2[k] = l[k]
    <3>1. b + k \in DOMAIN stack /\ stack[b + k] \in {<<"val", l[k]>>, <<"notype", l[k]>>}
      BY <1>2, <2>3 DEF Holds
    <3> QED BY <2>2, <2>3, <3>1
  <2>4. CASE k > s[p].h /\ l2[k] = p
    <3>1. b + k > Len(stack) BY <1>1, <2>2, <2>4
    <3>2. b + k \notin DOMAIN stack BY <1>1, <3>1
    <3> QED BY <2>2, <2>4, <3>2
  <2> QED BY <1>3, <2>3, <2>4 DEF Onto, l, l2
<1>5. Holds(stack', b, L[frame.fn][p + 1]) BY <1>4 DEF Holds, l2
<1>6. b <= Len(stack') /\ \A j \in 1..b : j \in DOMAIN stack
  <2> DEFINE u == Len(stack)
             w == Len(stack')
             h == instr.h
  <2>1. /\ b \in Nat /\ h \in Nat /\ u \in Nat /\ w \in Nat /\ w = u + d /\ u = b + h
        /\ DOMAIN stack = 1..u
    BY <1>1, <1>2
  <2> HIDE DEF u, w, h, b
  <2>2. b <= w /\ \A j \in 1..b : j \in 1..u BY ONLY <2>1, d \in Nat
  <2> QED BY <2>1, <2>2 DEF w
<1> QED BY <1>1, <1>5, <1>6, LabelsMoved DEF Goto, GotoWith

(* What every instruction of the machine's step starts from.               *)
LEMMA FetchLabel ==
  ASSUME NEW L, VInv, LabelsWith(L), NEW op, Fetch(op)
  PROVE  LET s == chunkOf(frame)  p == frame.ip  l == L[frame.fn] IN
         /\ Running /\ instr = s[p] /\ s[p].op = op /\ instr.op = op
         /\ AddressedAt(s, l, p) /\ Holds(stack, frame.base, l[p]) /\ l[p] \in Seq(Nat)
         /\ s \in Seq(Instruction) /\ p \in DOMAIN s /\ p + 1 \in Nat
         /\ frame.handlers \in Seq(Handler) /\ frame.owed \in SUBSET Nat
         /\ InstrOK(s, p) /\ frame.base \in Nat /\ s[p].h \in Nat /\ s[p].x \in Nat /\ s[p].y \in Nat
         /\ s[p].ty \in SUBSET ErrTypes
         /\ Len(stack) = frame.base + s[p].h /\ stack \in Seq(Value) /\ Len(stack) \in Nat
<1>1. Running /\ instr.op = op /\ instr = chunkOf(frame)[frame.ip] BY DEF Fetch, Running, instr
<1>2. /\ chunkOf(frame) \in Seq(Instruction) /\ frame.ip \in Nat /\ frame.base \in Nat
      /\ frame.handlers \in Seq(Handler) /\ frame.owed \in SUBSET Nat
  BY <1>1, VFrameTypes
<1>3. /\ frame.ip \in DOMAIN chunkOf(frame) /\ InstrOK(chunkOf(frame), frame.ip) /\ instr \in Instruction
      /\ Len(stack) = frame.base + instr.h /\ stack \in Seq(Value) /\ Len(stack) \in Nat
  BY <1>1, AtInstr
<1>4. instr.h \in Nat /\ instr.x \in Nat /\ instr.y \in Nat /\ instr.ty \in SUBSET ErrTypes
  BY <1>3 DEF Instruction
<1>5. frame.ip + 1 \in Nat BY <1>2
<1>6. /\ AddressedAt(chunkOf(frame), L[frame.fn], frame.ip)
      /\ Holds(stack, frame.base, L[frame.fn][frame.ip]) /\ L[frame.fn][frame.ip] \in Seq(Nat)
  BY <1>1, <1>3, AtLabel
<1> QED BY <1>1, <1>2, <1>3, <1>4, <1>5, <1>6

(* A run that has ended is bound to nothing.                               *)
LEMMA LabelsOver ==
  ASSUME NEW L, LabelsWith(L), code' = code, ~Running'
  PROVE  LabelsWith(L)'
BY DEF LabelsWith

(* An assignment writes the label of the variable that is meant.           *)
LEMMA SetLocalLabels ==
  ASSUME NEW L, VInv, LabelsWith(L), SetLocal
  PROVE  LabelsWith(L)'
<1> DEFINE s == chunkOf(frame)
           p == frame.ip
           l == L[frame.fn][p]
           l2 == L[frame.fn][p + 1]
           b == frame.base
           v == <<IF Top(stack)[1] = "notype" THEN "notype" ELSE "val", instr.x>>
<1>1. /\ Fetch("SET_LOCAL") /\ Goto(p + 1) /\ code' = code
      /\ stack' = [stack EXCEPT ![Slot] = v]
  BY DEF SetLocal, Unchanging
<1>2. /\ Running /\ instr = s[p] /\ s[p].op = "SET_LOCAL" /\ InstrOK(s, p)
      /\ AddressedAt(s, L[frame.fn], p) /\ Holds(stack, b, l) /\ l \in Seq(Nat)
      /\ stack \in Seq(Value) /\ b \in Nat /\ s[p].y \in Nat /\ s[p].h \in Nat
      /\ Len(stack) = b + s[p].h /\ Len(stack) \in Nat
      /\ frame.handlers \in Seq(Handler) /\ frame.owed \in SUBSET Nat
  BY <1>1, FetchLabel
<1>3. p + 1 \in DOMAIN s /\ s[p].y < s[p].h /\ s[p].y + 1 \in DOMAIN l /\ l[s[p].y + 1] = s[p].x
  BY <1>2 DEF InstrOK, Flows, AddressedAt, Names
<1>4. Knows(l, l2) BY <1>2, OntoNext DEF Pushing
<1>5. l2 \in Seq(Nat) BY <1>2, <1>3, AtLabel
<1>6. v \in {<<"val", s[p].x>>, <<"notype", s[p].x>>} BY <1>2
<1>7. /\ Slot = b + (s[p].y + 1) /\ Slot \in DOMAIN stack /\ Slot > b
      /\ \A k \in Nat : b + k = Slot => k = s[p].y + 1
  <2>1. Slot = b + s[p].y + 1 BY <1>2 DEF Slot
  <2>2. DOMAIN stack = 1..Len(stack) BY <1>2
  <2> DEFINE y == s[p].y
             h == s[p].h
             u == Len(stack)
  <2>3. b \in Nat /\ y \in Nat /\ h \in Nat /\ u = b + h /\ y < h /\ Slot = b + y + 1 /\ DOMAIN stack = 1..u
    BY <1>2, <1>3, <2>1, <2>2
  <2> HIDE DEF b, y, h, u
  <2>4. /\ Slot = b + (y + 1) /\ Slot \in 1..u /\ Slot > b
        /\ \A k \in Nat : b + k = Slot => k = y + 1
    BY ONLY <2>3
  <2> QED BY <2>3, <2>4 DEF y
<1> HIDE DEF v
<1>8. /\ stack' \in Seq(Value) /\ Len(stack') = Len(stack)
      /\ stack'[Slot] = v /\ \A j \in DOMAIN stack : j # Slot => stack'[j] = stack[j]
  <2>1. stack' \in Seq(Value) BY <1>1, TypeStep DEF VInv, TypeInv, VMTypeOK, VMNext, Execute
  <2> QED BY <1>1, <1>2, <1>7, <2>1
<1>9. ASSUME NEW k \in DOMAIN l2
      PROVE  b + k \in DOMAIN stack' /\ stack'[b + k] \in {<<"val", l2[k]>>, <<"notype", l2[k]>>}
  <2>1. k \in DOMAIN l /\ l2[k] = l[k] BY <1>4 DEF Knows
  <2>2. b + k \in DOMAIN stack /\ stack[b + k] \in {<<"val", l[k]>>, <<"notype", l[k]>>}
    BY <1>2, <2>1 DEF Holds
  <2>3. b + k \in DOMAIN stack' BY <1>2, <1>8, <2>2
  <2>4. k \in Nat BY <1>2, <2>1
  <2>5. CASE b + k = Slot
    <3>1. k = s[p].y + 1 BY <1>7, <2>4, <2>5
    <3> QED BY <1>3, <1>6, <1>8, <2>1, <2>3, <2>5, <3>1
  <2>6. CASE b + k # Slot BY <1>8, <2>1, <2>2, <2>3, <2>6
  <2> QED BY <2>5, <2>6
<1>10. Holds(stack', b, l2) BY <1>9 DEF Holds
<1>11. b <= Len(stack') /\ \A j \in 1..b : stack'[j] = stack[j]
  <2>1. b <= Len(stack) /\ DOMAIN stack = 1..Len(stack) BY <1>2
  <2>2. \A j \in 1..b : j \in DOMAIN stack /\ j # Slot
    <3>1. b \in Nat /\ Len(stack) \in Nat /\ Slot \in Nat /\ Slot > b BY <1>2, <1>7
    <3> HIDE DEF b
    <3> QED BY ONLY <2>1, <3>1
  <2> QED BY <1>8, <2>1, <2>2
<1> QED BY <1>1, <1>2, <1>3, <1>8, <1>10, <1>11, LabelsMoved DEF Goto, GotoWith

(* An error finds, at the clauses of its try statement, the variables that *)
(* were there when the statement began.                                    *)
LEMMA RaiseLabels ==
  ASSUME NEW L, VInv, Running, LabelsWith(L), NEW t \in ErrTypes, NEW st \in Seq(Value), NEW d \in Int,
         Len(st) = Len(stack) + d, \A j \in DOMAIN stack : j \in DOMAIN st => st[j] = stack[j],
         instr.op \in Fallible, Raises(chunkOf(frame), frame.ip, instr.h + d),
         t \in Warnings => Flows(chunkOf(frame), frame.ip, frame.ip + 1, d) /\ instr.op \notin Pushing,
         stack' \in Seq(Value), Raise(t, st), Unchanging
  PROVE  LabelsWith(L)'
<1> DEFINE s == chunkOf(frame)
           p == frame.ip
           l == L[frame.fn]
<1>1. /\ p \in DOMAIN s /\ instr = s[p] /\ Len(stack) = frame.base + instr.h
      /\ s \in Seq(Instruction) /\ frame.base \in Nat /\ frame.handlers \in Seq(Handler)
      /\ stack \in Seq(Value) /\ Len(stack) \in Nat
      /\ AddressedAt(s, l, p) /\ l[p] \in Seq(Nat)
  BY VFrameTypes, AtInstr, AtLabel
<1>2. ~isReturning /\ code' = code /\ instr.h \in Nat
  <2>1. instr.rf = 0 BY <1>1 DEF Raises
  <2> QED BY <1>1, <2>1, AtInstr, InstrTypes DEF Unchanging
<1>3. CASE t \in Warnings
  <2>1. stack' = st /\ Goto(p + 1) BY <1>3 DEF Raise
  <2>2. p + 1 \in DOMAIN s /\ s[p + 1].h = instr.h + d /\ instr.op \notin {"JUMP", "LOOP", "RETURN"} \cup Pushing
    BY <1>1, <1>3 DEF Flows, Fallible
  <2> QED BY <1>1, <1>2, <2>1, <2>2, LabelsOnward DEF Goto
<1>4. CASE t \notin Warnings /\ frame.handlers = <<>>
  <2>1. ~Running' BY <1>4 DEF Raise, Running
  <2> QED BY <1>2, <2>1, LabelsOver
<1>5. CASE t \notin Warnings /\ frame.handlers # <<>>
  <2> DEFINE hs == s[p].hs
             e == Top(hs)
             hd == Top(frame.handlers)
             q == s[e].x
             low == Drop(frame.handlers, 1)
             cut == IF Len(st) > hd.depth THEN SubSeq(st, 1, hd.depth) ELSE st
  <2>1. /\ hs # <<>> /\ e \in DOMAIN s /\ s[e].op = "TRY_ENTER" /\ InstrOK(s, e)
        /\ hd = Installed(s, e, frame.base)
    BY <1>2, <1>5, TopHandler
  <2>2. /\ stack' = Append(cut, <<"err", t>>) /\ GotoWith(hd.catch, low)
    BY <1>5 DEF Raise
  <2>3. hd.depth = frame.base + s[e].h /\ hd.catch = q BY <2>1 DEF Installed
  <2>4. s[e].h \in Nat /\ q \in DOMAIN s BY <1>1, <2>1, InstrTypes DEF InstrOK
  <2>5. Knows(l[p], l[q]) /\ l[q] \in Seq(Nat) /\ Len(l[q]) \in Nat /\ Len(l[q]) <= s[e].h
        /\ Len(l[q]) <= Len(l[p]) /\ Len(l[p]) <= instr.h /\ Len(l[p]) \in Nat
    <3>1. Knows(l[p], l[e]) BY <1>1, <2>1 DEF AddressedAt
    <3>2. /\ AddressedAt(s, l, e) /\ l[e] \in Seq(Nat) /\ Len(l[e]) <= s[e].h /\ l[q] \in Seq(Nat)
          /\ Len(l[p]) <= s[p].h
      BY <1>1, <2>1, <2>4, AtLabel
    <3>3. Knows(l[e], l[q]) BY <2>1, <3>2 DEF AddressedAt
    <3> DEFINE lp == l[p]
               le == l[e]
               lq == l[q]
    <3>4. /\ lp \in Seq(Nat) /\ le \in Seq(Nat) /\ lq \in Seq(Nat) /\ Knows(lp, le) /\ Knows(le, lq)
          /\ Len(le) <= s[e].h /\ s[e].h \in Nat /\ Len(lp) <= instr.h
      BY <1>1, <2>4, <3>1, <3>2, <3>3
    <3> HIDE DEF lp, le, lq
    <3>5. Knows(lp, lq) BY <3>4, KnowsOn
    <3>6. Len(lq) <= Len(le) /\ Len(lq) \in Nat /\ Len(le) \in Nat BY ONLY <3>4, KnowsIs
    <3>7. Len(lq) <= Len(lp) /\ Len(lp) \in Nat BY ONLY <3>4, <3>5, KnowsIs
    <3>8. Len(lq) <= s[e].h BY ONLY <3>4, <3>6
    <3> QED BY <3>4, <3>5, <3>6, <3>7, <3>8 DEF lp, le, lq
  <2> DEFINE a == Len(l[q])
             m == Len(l[p])
             g == s[e].h
             h == instr.h
             b == frame.base
             w == Len(st)
             u == Len(stack)
             t0 == hd.depth
  <2>6. /\ w = u + d /\ u = b + h /\ w \in Nat /\ b \in Nat /\ h \in Nat /\ g \in Nat /\ a \in Nat /\ m \in Nat
        /\ g <= h + d /\ t0 = b + g /\ u \in Nat /\ a <= g /\ a <= m /\ m <= h
    <3>1. s[e].h <= instr.h + d BY <1>1, <2>1 DEF Raises
    <3>2. w = u + d /\ u = b + h /\ w \in Nat /\ b \in Nat /\ h \in Nat /\ u \in Nat BY <1>1, <1>2
    <3>3. g \in Nat /\ t0 = b + g BY <2>3, <2>4
    <3>4. a \in Nat /\ m \in Nat /\ a <= g /\ a <= m /\ m <= h BY <2>5
    <3> QED BY <3>1, <3>2, <3>3, <3>4
  <2>f. /\ DOMAIN stack = 1..u /\ DOMAIN st = 1..w /\ Len(st) = w BY <1>1
  <2>7. w >= t0 /\ t0 \in Nat /\ b + a <= t0 /\ b + a <= u /\ b + a \in Nat
        /\ \A j \in 1..(b + a) : j \in 1..t0 /\ j \in 1..u /\ j \in 1..w
    <3> HIDE DEF a, m, g, h, b, w, u, t0
    <3>1. w >= t0 /\ t0 \in Nat /\ b + a <= t0 /\ b + a <= u /\ b + a \in Nat /\ t0 <= w
      BY ONLY <2>6, d \in Int
    <3> QED BY ONLY <2>6, <3>1
  <2>8. cut \in Seq(Value) /\ Len(cut) = t0 /\ \A j \in 1..t0 : cut[j] = st[j]
    <3>1. Len(st) >= hd.depth /\ hd.depth \in Nat BY <2>7
    <3> QED BY ONLY <3>1, st \in Seq(Value)
  <2>9. low \in Seq(Handler) BY <1>1, <1>5, DropOne
  <2> HIDE DEF cut, low
  <2>10. Len(stack') = t0 + 1 /\ \A j \in 1..t0 : stack'[j] = st[j]
    <3>1. stack' = Append(cut, <<"err", t>>) BY <2>2
    <3>2. DOMAIN cut = 1..t0 BY <2>8
    <3> HIDE DEF t0
    <3> DEFINE v == <<"err", t>>
    <3>4. v \in Value BY DEF Value
    <3> HIDE DEF v
    <3>3. Len(Append(cut, v)) = t0 + 1 /\ \A j \in 1..t0 : Append(cut, v)[j] = cut[j]
      <4>1. t0 \in Nat /\ cut \in Seq(Value) /\ Len(cut) = t0 BY <2>7, <2>8
      <4> QED BY ONLY <4>1, <3>4
    <3> QED BY <2>8, <3>1, <3>3 DEF v
  <2>11. \A j \in 1..(b + a) : stack'[j] = stack[j]
    <3> SUFFICES ASSUME NEW j \in 1..(b + a) PROVE stack'[j] = stack[j] OBVIOUS
    <3>1. j \in 1..t0 /\ j \in DOMAIN stack /\ j \in DOMAIN st BY <2>7, <2>f
    <3> QED BY <2>10, <3>1
  <2>12. b + a <= Len(stack')
    <3> HIDE DEF a, b, t0
    <3> QED BY <2>7, <2>10
  <2>13. GotoWith(q, low) BY <2>2, <2>3
  <2> QED BY <1>2, <2>4, <2>5, <2>9, <2>11, <2>12, <2>13, LabelsKept
<1> QED BY <1>3, <1>4, <1>5

(* A return: the frames below hold what they held.                         *)
LEMMA LeaveLabels ==
  ASSUME NEW L, VInv, Running, LabelsWith(L), code' = code, NEW st \in Seq(Value), st # <<>>,
         Leave(st), frame.base <= Len(st), \A j \in 1..frame.base : st[j] = stack[j]
  PROVE  LabelsWith(L)'
<1> DEFINE n == Len(frames)
           below == Drop(frames, 1)
<1>1. /\ frames \in Seq(Frame) /\ frames # <<>> /\ frame.base \in Nat
      /\ n \in Nat \ {0} /\ DOMAIN frames = 1..n /\ Len(st) \in Nat /\ frames' = below
  BY VFrameTypes DEF Leave
<1>2. below \in Seq(Frame) /\ Len(below) = n - 1 /\ \A i \in 1..(n - 1) : below[i] = frames[i]
  BY <1>1, DropOne
<1> HIDE DEF below
<1>3. CASE below = <<>>
  <2>1. ~Running' BY <1>3 DEF Leave, Running, below
  <2> QED BY <2>1, LabelsOver
<1>4. CASE below # <<>>
  <2> DEFINE r == Resize(st, frame.base)
             v == Returned(Top(st))
  <2>1. stack' = Append(r, v) BY <1>4 DEF Leave, below
  <2>2. r \in Seq(Value) /\ Len(r) = frame.base BY <1>1, ResizeInSeq
  <2>3. \A j \in 1..frame.base : r[j] = stack[j]
    <3> SUFFICES ASSUME NEW j \in 1..frame.base PROVE r[j] = stack[j] OBVIOUS
    <3>1. j <= Len(st) BY <1>1
    <3> QED BY <3>1 DEF Resize
  <2>4. v \in Value
    <3>1. Top(st) \in Value BY TopInSeq
    <3> QED BY <3>1 DEF Returned, Value
  <2> HIDE DEF r, v
  <2>5. /\ stack' \in Seq(Value) /\ frame.base <= Len(stack')
        /\ \A j \in 1..frame.base : stack'[j] = stack[j]
    <3>1. Append(r, v) \in Seq(Value) /\ Len(Append(r, v)) = frame.base + 1
          /\ \A j \in 1..frame.base : Append(r, v)[j] = r[j]
      BY ONLY <2>2, <2>4, AppendInSeq
    <3> QED BY <1>1, <2>1, <2>3, <3>1
  <2>6. DOMAIN frames' = 1..(n - 1) BY <1>1, <1>2
  <2>7. ASSUME NEW i \in 1..(n - 1)
        PROVE  /\ i \in DOMAIN frames /\ i # n /\ frames'[i] = frames[i]
               /\ LabelOf(L, i)' = LabelOf(L, i)
               /\ Holds(stack', frames[i].base, LabelOf(L, i))
    <3>1. i \in 1..n /\ i # n BY <1>1, BelowIndex
    <3>2. frames'[i] = frames[i] BY <1>1, <1>2
    <3> QED BY <1>1, <2>5, <3>1, <3>2, BelowKept DEF LabelOf
  <2>8. \A f \in Funcs : Addressed(code'[f], L[f]) BY DEF LabelsWith
  <2>9. ASSUME NEW i \in 1..(n - 1), NEW j \in 1..(n - 1), i < j
        PROVE  frames'[i].base + Len(LabelOf(L, i)') <= frames'[j].base
    BY <2>7, <2>9 DEF LabelsWith
  <2> QED BY <2>6, <2>7, <2>8, <2>9 DEF LabelsWith
<1> QED BY <1>3, <1>4

(* A call: the caller has forgotten the slot of the callee.                *)
LEMMA CallLabels ==
  ASSUME NEW L, VInv, LabelsWith(L), Call, Len(stack) <= StackLimit, ~Raise("RecursionError", stack)
  PROVE  LabelsWith(L)'
<1> DEFINE s == chunkOf(frame)
           p == frame.ip
           n == Len(frames)
           g == Move(frame, p + 1, frame.handlers, frame.owed)
           new == NewFrame(instr.x, Len(stack) - 1)
           t == frame.base
           h == s[p].h
           l == L[frame.fn]
<1>1. /\ Fetch("CALL") /\ stack' = Drop(stack, 1) /\ frames' = Append(ReplaceTop(frames, g), new)
      /\ code' = code
  BY DEF Call, Unchanging
<1>2. /\ Running /\ instr = s[p] /\ AddressedAt(s, l, p) /\ Holds(stack, t, l[p]) /\ l[p] \in Seq(Nat)
      /\ s[p].op = "CALL" /\ s \in Seq(Instruction) /\ p \in DOMAIN s /\ p + 1 \in Nat
      /\ frame.handlers \in Seq(Handler) /\ frame.owed \in SUBSET Nat
      /\ InstrOK(s, p) /\ t \in Nat /\ h \in Nat /\ Len(stack) = t + h /\ stack \in Seq(Value)
      /\ Len(stack) \in Nat
  BY <1>1, FetchLabel
<1>3. frame \in Frame /\ frames \in Seq(Frame) /\ frames # <<>> /\ frame.fn \in Funcs /\ frame = frames[n]
  BY <1>2, VFrameTypes DEF frame, Top
<1>4. h >= 1 /\ s[p].x \in Funcs /\ p + 1 \in DOMAIN s BY <1>2 DEF InstrOK, Flows
<1>5. Knows(l[p], l[p + 1]) BY <1>2, OntoNext DEF Pushing
<1>6. l[p + 1] \in Seq(Nat) BY <1>2, <1>4, AtLabel
<1>7. /\ Len(l[p + 1]) \in Nat /\ Len(l[p + 1]) <= h - 1
  <2>1. Len(l[p]) + 1 <= h BY <1>2 DEF AddressedAt, Spare
  <2> DEFINE a == l[p]
             z == l[p + 1]
  <2> HIDE DEF a, z, h
  <2>2. a \in Seq(Nat) /\ z \in Seq(Nat) /\ Knows(a, z) /\ Len(a) + 1 <= h /\ h \in Nat
    BY <1>2, <1>5, <1>6, <2>1 DEF a, z
  <2>3. Len(z) \in Nat /\ Len(a) \in Nat /\ Len(z) <= Len(a) BY ONLY <2>2, KnowsIs
  <2>4. Len(z) <= h - 1 BY ONLY <2>2, <2>3
  <2> QED BY <2>3, <2>4 DEF z
<1>8. g \in Frame /\ g.ip = p + 1 /\ g.fn = frame.fn /\ g.base = t BY <1>2, <1>3, MoveFrame
<1>9. new \in Frame /\ new.fn = s[p].x /\ new.ip = 1 /\ new.base = Len(stack) - 1
  <2>1. Len(stack) - 1 \in Nat
    <3> HIDE DEF t, h
    <3> QED BY <1>2, <1>4
  <2> QED BY <1>2, <1>4, <2>1 DEF NewFrame, Frame
<1> HIDE DEF g, new
<1>10. /\ n \in Nat \ {0} /\ DOMAIN frames = 1..n /\ DOMAIN frames' = 1..(n + 1)
       /\ Len(frames') = n + 1 /\ frames'[n + 1] = new /\ frames'[n] = g
       /\ \A i \in 1..(n - 1) : frames'[i] = frames[i]
  <2> DEFINE r == ReplaceTop(frames, g)
  <2>1. /\ r \in Seq(Frame) /\ Len(r) = n /\ r[n] = g /\ \A i \in 1..(n - 1) : r[i] = frames[i]
    BY ONLY <1>3, <1>8, TopFrameReplaced
  <2>2. n \in Nat \ {0} /\ DOMAIN frames = 1..n BY <1>3
  <2>3. frames' = Append(r, new) BY <1>1
  <2> HIDE DEF r
  <2>5. /\ Len(frames') = n + 1 /\ frames'[n + 1] = new /\ DOMAIN frames' = 1..(n + 1)
        /\ \A i \in 1..n : frames'[i] = r[i]
    BY ONLY <1>9, <2>1, <2>3, AppendInSeq
  <2>6. \A i \in 1..(n - 1) : i \in 1..n BY <2>2
  <2>7. n \in 1..n BY <2>2
  <2> QED BY <2>1, <2>2, <2>5, <2>6, <2>7
<1>11. /\ stack' \in Seq(Value) /\ Len(stack') = t + h - 1
       /\ \A j \in 1..(t + h - 1) : stack'[j] = stack[j]
  <2>1. stack # <<>>
    <3>1. Len(stack) >= 1
      <4> HIDE DEF t, h
      <4> QED BY <1>2, <1>4
    <3> QED BY <3>1
  <2>2. /\ stack' \in Seq(Value) /\ Len(stack') = Len(stack) - 1
        /\ \A j \in 1..(Len(stack) - 1) : stack'[j] = stack[j]
    BY <1>1, <1>2, <2>1, DropOne
  <2>3. Len(stack) - 1 = t + h - 1
    <3> HIDE DEF t, h
    <3> QED BY <1>2
  <2> QED BY <2>2, <2>3
<1>12. L[s[p].x][1] = <<>>
  <2>1. s[p].x \in Funcs /\ 1 \in DOMAIN code[s[p].x] /\ code[s[p].x][1].h = 0
    BY <1>4 DEF VInv, Verified, ChunkOK
  <2>2. AddressedAt(code[s[p].x], L[s[p].x], 1) BY <2>1 DEF LabelsWith, Addressed
  <2> DEFINE w == L[s[p].x][1]
             a == Spare(code[s[p].x][1].op)
             b == code[s[p].x][1].h
  <2>3. w \in Seq(Nat) /\ Len(w) + a <= b
    <3> DEFINE c == code[s[p].x]
               K == L[s[p].x]
    <3>1. AddressedAt(c, K, 1) BY <2>2
    <3> HIDE DEF c, K
    <3>2. K[1] \in Seq(Nat) /\ Len(K[1]) + Spare(c[1].op) <= c[1].h BY ONLY <3>1 DEF AddressedAt
    <3> QED BY <3>2 DEF c, K
  <2>4. a \in {0, 1, 2} /\ b = 0 BY <2>1 DEF Spare
  <2> HIDE DEF w, a, b
  <2>5. Len(w) \in Nat BY ONLY <2>3
  <2>6. Len(w) = 0 BY ONLY <2>3, <2>4, <2>5
  <2>7. w = <<>> BY ONLY <2>3, <2>6
  <2> QED BY <2>7 DEF w
<1>13. ASSUME NEW i \in 1..(n + 1) PROVE Holds(stack', frames'[i].base, LabelOf(L, i)')
  <2>1. CASE i = n + 1
    <3>1. LabelOf(L, i)' = <<>> BY <1>9, <1>10, <1>12, <2>1 DEF LabelOf
    <3> QED BY <3>1 DEF Holds
  <2>2. CASE i = n
    <3>1. LabelOf(L, i)' = l[p + 1] /\ frames'[i].base = t BY <1>8, <1>10, <2>2 DEF LabelOf
    <3> DEFINE z == l[p + 1]
               a == l[p]
    <3> HIDE DEF z, a, t, h
    <3>2. t + Len(z) <= t + h - 1 /\ \A j \in 1..(t + Len(z)) : j \in 1..(t + h - 1)
      BY <1>2, <1>7 DEF z
    <3>3. /\ z \in Seq(Nat) /\ a \in Seq(Nat) /\ Knows(a, z) /\ Holds(stack, t, a) /\ t \in Nat
          /\ t + Len(z) <= Len(stack') /\ stack' \in Seq(Value)
          /\ \A j \in 1..(t + Len(z)) : stack'[j] = stack[j]
      <4>1. z \in Seq(Nat) /\ a \in Seq(Nat) /\ Knows(a, z) /\ Holds(stack, t, a) /\ t \in Nat
        BY <1>2, <1>5, <1>6 DEF z, a
      <4>2. /\ stack' \in Seq(Value) /\ Len(stack') = t + h - 1
            /\ \A j \in 1..(t + h - 1) : stack'[j] = stack[j]
        BY <1>11
      <4> QED BY ONLY <3>2, <4>1, <4>2
    <3>4. Holds(stack', t, z) BY ONLY <3>3, HoldsOn
    <3> QED BY <3>1, <3>4 DEF z
  <2>3. CASE i # n + 1 /\ i # n
    <3>1. i \in 1..(n - 1) /\ i \in 1..n
      <4>1. n \in Nat \ {0} BY <1>10
      <4> HIDE DEF n
      <4> QED BY ONLY <2>3, <4>1, i \in 1..(n + 1)
    <3>2. frames'[i] = frames[i] /\ LabelOf(L, i)' = LabelOf(L, i) BY <1>10, <3>1 DEF LabelOf
    <3>3. t <= Len(stack') /\ \A j \in 1..t : stack'[j] = stack[j]
      <4> HIDE DEF t, h
      <4>1. t <= t + h - 1 /\ \A j \in 1..t : j \in 1..(t + h - 1) BY <1>2, <1>4
      <4> QED BY <1>11, <4>1
    <3>4. i \in DOMAIN frames /\ i # Len(frames) BY <1>10, <2>3, <3>1
    <3>5. Running /\ stack' \in Seq(Value) BY <1>2, <1>11
    <3>6. Holds(stack', frames[i].base, LabelOf(L, i)) BY ONLY VInv, LabelsWith(L), <3>3, <3>4, <3>5, BelowKept
    <3> QED BY <3>2, <3>6
  <2> QED BY <2>1, <2>2, <2>3
<1>14. ASSUME NEW i \in 1..(n + 1), NEW j \in 1..(n + 1), i < j
       PROVE  frames'[i].base + Len(LabelOf(L, i)') <= frames'[j].base
  <2>1. i \in 1..n BY <1>10, <1>14
  <2>2. CASE i = n
    <3>1. j = n + 1 BY <1>10, <1>14, <2>2
    <3>2. frames'[i].base = t /\ LabelOf(L, i)' = l[p + 1] /\ frames'[j].base = Len(stack) - 1
      BY <1>8, <1>9, <1>10, <2>2, <3>1 DEF LabelOf
    <3> DEFINE z == Len(l[p + 1])
    <3>3. z \in Nat /\ z <= h - 1 BY <1>7
    <3> HIDE DEF t, h, z
    <3>4. t + z <= Len(stack) - 1 BY <1>2, <3>3
    <3> QED BY <3>2, <3>4 DEF z
  <2>3. CASE i # n
    <3>1. i \in 1..(n - 1) BY <1>10, <2>1, <2>3, BelowTop
    <3>2. frames'[i] = frames[i] /\ LabelOf(L, i)' = LabelOf(L, i) BY <1>10, <3>1 DEF LabelOf
    <3>3. frames[i].base + Len(LabelOf(L, i)) <= t BY <1>2, <1>10, <2>1, <2>3, AtLabel
    <3>4. CASE j \in 1..(n - 1)
      <4>1. frames'[j] = frames[j] /\ j \in 1..n BY <1>10, <3>4
      <4> QED BY <1>2, <1>10, <1>14, <2>1, <3>2, <4>1 DEF LabelsWith
    <3>5. CASE j = n BY <1>8, <1>10, <3>2, <3>3, <3>5
    <3>6. CASE j = n + 1
      <4>1. frames'[j].base = Len(stack) - 1 BY <1>9, <1>10, <3>6
      <4>2. t <= Len(stack) - 1 /\ Len(stack) - 1 \in Nat
        <5>1. t \in Nat /\ h \in Nat /\ Len(stack) = t + h /\ h >= 1 BY <1>2, <1>4
        <5> HIDE DEF t, h
        <5> QED BY ONLY <5>1
      <4>3. frames[i].base + Len(LabelOf(L, i)) \in Int
        <5>1. frames[i] \in Frame BY <1>3, <1>10, <2>1
        <5>2. frames[i].fn \in Funcs /\ frames[i].base \in Nat BY <5>1 DEF Frame
        <5>3. frames[i].ip \in DOMAIN code[frames[i].fn]
          BY <1>2, <1>10, <2>1 DEF VInv, StackDiscipline, chunkOf
        <5>4. AddressedAt(code[frames[i].fn], L[frames[i].fn], frames[i].ip)
          BY <5>2, <5>3 DEF LabelsWith, Addressed
        <5>5. LabelOf(L, i) \in Seq(Nat) BY <5>4 DEF AddressedAt, LabelOf
        <5>6. Len(LabelOf(L, i)) \in Nat BY <5>5
        <5> QED BY <5>2, <5>6
      <4> DEFINE y == frames[i].base + Len(LabelOf(L, i))
                 u == Len(stack) - 1
      <4>4. y \in Int /\ t \in Nat /\ u \in Nat /\ y <= t /\ t <= u BY <1>2, <3>3, <4>2, <4>3
      <4> HIDE DEF t, y, u
      <4>5. y <= u BY ONLY <4>4
      <4> QED BY <3>2, <4>1, <4>5 DEF y, u
    <3>7. j \in 1..(n - 1) \/ j = n \/ j = n + 1
      <4>1. n \in Nat \ {0} BY <1>10
      <4> HIDE DEF n
      <4> QED BY ONLY <4>1, j \in 1..(n + 1)
    <3> QED BY <3>4, <3>5, <3>6, <3>7
  <2> QED BY <2>2, <2>3
<1>15. \A f \in Funcs : Addressed(code'[f], L[f]) BY <1>1 DEF LabelsWith
<1> QED BY <1>10, <1>13, <1>14, <1>15 DEF LabelsWith

(* Nothing is known where a chunk begins. *)
LEMMA FirstLabel ==
  ASSUME NEW s, NEW l, 1 \in DOMAIN s, s[1].h = 0, Addressed(s, l)
  PROVE  l[1] = <<>>
<1>1. l[1] \in Seq(Nat) /\ Len(l[1]) + Spare(s[1].op) <= 0 BY DEF Addressed, AddressedAt
<1>2. Spare(s[1].op) \in {0, 1, 2} BY DEF Spare
<1>3. Len(l[1]) \in Nat BY <1>1
<1>4. Len(l[1]) = 0 BY <1>1, <1>2, <1>3
<1> QED BY <1>1, <1>4

(* A finally block that a return runs.                                     *)
LEMMA EnterLabels ==
  ASSUME NEW L, VInv, LabelsWith(L), Fetch("RETURN"), Intercepts(frame), EnterFinally,
         stack' = Drop(stack, 1), code' = code
  PROVE  LabelsWith(L)'
<1> DEFINE s == chunkOf(frame)
           p == frame.ip
           l == L[frame.fn]
           hs == s[p].hs
           e == Top(hs)
           hd == Top(frame.handlers)
           q == hd.fin
           marked == [hd EXCEPT !.inside = TRUE]
           new == ReplaceTop(frame.handlers, marked)
<1>1. /\ Running /\ instr = s[p] /\ s[p].op = "RETURN" /\ AddressedAt(s, l, p)
      /\ s \in Seq(Instruction) /\ InstrOK(s, p) /\ stack \in Seq(Value) /\ Len(stack) \in Nat
      /\ Len(stack) = frame.base + s[p].h /\ frame.base \in Nat /\ s[p].h \in Nat
      /\ frame.handlers \in Seq(Handler)
  BY FetchLabel
<1>2. s[p].rf = 0 /\ s[p].h >= 1 BY <1>1 DEF InstrOK
<1>3. ~isReturning /\ frame.handlers # <<>> BY <1>1, <1>2, AtInstr DEF Intercepts
<1>4. /\ hs # <<>> /\ e \in DOMAIN s /\ s[e].op = "TRY_ENTER" /\ hd = Installed(s, e, frame.base)
  BY <1>1, <1>3, TopHandler
<1>5. q = s[e].y /\ q # 0 BY <1>4 DEF Installed, Intercepts
<1>6. q \in DOMAIN s /\ s[q].h = s[p].h - 1 BY <1>1, <1>4, <1>5 DEF InstrOK
<1>7. Knows(l[p], l[e]) BY <1>1, <1>4 DEF AddressedAt
<1>8. Knows(l[e], l[q])
  <2>1. AddressedAt(s, l, e) BY <1>1, <1>4, AtLabel
  <2> QED BY <1>4, <1>5, <2>1 DEF AddressedAt
<1>9. Knows(l[p], l[q]) BY <1>7, <1>8, KnowsOn
<1>10. new \in Seq(Handler)
  <2>1. hd \in Handler BY <1>1, <1>3, TopInSeq
  <2>2. marked \in Handler BY ONLY <2>1 DEF Handler
  <2> HIDE DEF marked
  <2> QED BY <1>1, <1>3, <2>2, ReplaceThenDrop
<1>11. GotoWith(q, new) BY DEF EnterFinally
<1> HIDE DEF new
<1>12. stack # <<>>
  <2>1. Len(stack) >= 1 BY <1>1, <1>2
  <2> QED BY <2>1
<1>13. /\ stack' \in Seq(Value) /\ Len(stack') = Len(stack) - 1
       /\ \A j \in 1..(Len(stack) - 1) : stack'[j] = stack[j]
  BY <1>1, <1>12, DropOne
<1>14. Len(stack') = Len(stack) + (-1) /\ s[q].h = instr.h + (-1) BY <1>1, <1>6, <1>13, InstrTypes
<1>15. \A j \in DOMAIN stack : j \in DOMAIN stack' => stack'[j] = stack[j]
  <2>1. DOMAIN stack' = 1..(Len(stack) - 1) BY <1>1, <1>13
  <2> QED BY <1>13, <2>1
<1>16. -1 \in Int OBVIOUS
<1> QED BY <1>1, <1>6, <1>9, <1>10, <1>11, <1>13, <1>14, <1>15, <1>16, LabelsFlow

(* A return, by way of a finally block or to the caller, keeps the labels. *)
LEMMA ReturnLabels ==
  ASSUME NEW L, VInv, LabelsWith(L), Return
  PROVE  LabelsWith(L)'
<1>1. Fetch("RETURN") /\ code' = code BY DEF Return
<1>2. CASE Intercepts(frame)
  <2>1. EnterFinally /\ stack' = Drop(stack, 1) BY <1>2 DEF Return
  <2> QED BY <1>1, <1>2, <2>1, EnterLabels
<1>3. CASE ~Intercepts(frame)
  <2>1. Leave(stack) BY <1>3 DEF Return
  <2> DEFINE h == chunkOf(frame)[frame.ip].h
             b == frame.base
  <2>2. /\ Running /\ stack \in Seq(Value) /\ Len(stack) \in Nat /\ b \in Nat
        /\ Len(stack) = b + h /\ h \in Nat /\ h >= 1
    BY <1>1, FetchLabel DEF InstrOK
  <2> HIDE DEF h, b
  <2>3. b <= Len(stack) /\ Len(stack) >= 1 BY <2>2
  <2>4. stack # <<>> BY <2>3
  <2> QED BY <1>1, <2>1, <2>2, <2>3, <2>4, LeaveLabels DEF b
<1> QED BY <1>2, <1>3

(* The end of a finally block keeps the labels. *)
LEMMA EndFinallyLabels ==
  ASSUME NEW L, VInv, LabelsWith(L), EndFinally
  PROVE  LabelsWith(L)'
<1> DEFINE s == chunkOf(frame)
           p == frame.ip
           b == frame.base
           h == s[p].h
<1>1. Fetch("END_FINALLY") /\ code' = code BY DEF EndFinally
<1>2. /\ Running /\ instr = s[p] /\ s[p].op = "END_FINALLY" /\ InstrOK(s, p)
      /\ stack \in Seq(Value) /\ Len(stack) \in Nat /\ Len(stack) = b + h /\ b \in Nat /\ h \in Nat
      /\ frame.handlers \in Seq(Handler)
  BY <1>1, FetchLabel
<1>3. CASE isReturning
  <2>1. Returning(s, frame) BY <1>2, <1>3, AtInstr
  <2>2. ~Intercepts(frame) BY <2>1 DEF Returning, Intercepts
  <2>3. Leave(Append(stack, pendingReturn)) BY <1>3, <2>2 DEF EndFinally
  <2>4. pendingReturn \in Value BY DEF VInv, TypeInv, VMTypeOK
  <2> DEFINE st == Append(stack, pendingReturn)
  <2>8. st \in Seq(Value) /\ Len(st) = Len(stack) + 1 /\ \A j \in 1..Len(stack) : st[j] = stack[j]
    BY ONLY <1>2, <2>4, AppendInSeq
  <2>9. st # <<>>
    <3>1. Len(stack) \in Nat BY <1>2
    <3> HIDE DEF st
    <3>2. Len(st) # 0 BY <2>8, <3>1
    <3> QED BY <3>2
  <2>5. st \in Seq(Value) /\ st # <<>> /\ Len(st) = Len(stack) + 1
        /\ \A j \in 1..Len(stack) : st[j] = stack[j]
    BY ONLY <2>8, <2>9
  <2> HIDE DEF st, h, b
  <2>6. b <= Len(st) /\ \A j \in 1..b : j \in 1..Len(stack) BY <1>2, <2>5
  <2>7. \A j \in 1..b : st[j] = stack[j] BY <2>5, <2>6
  <2> QED BY <1>1, <1>2, <2>3, <2>5, <2>6, <2>7, LeaveLabels DEF st, b
<1>4. CASE ~isReturning
  <2>1. Goto(p + 1) /\ stack' = stack BY <1>4 DEF EndFinally
  <2>2. p + 1 \in DOMAIN s /\ s[p + 1].h = instr.h + 0 /\ instr.h \in Nat BY <1>2 DEF InstrOK
  <2>3. 0 \in Int /\ Len(stack') = Len(stack) + 0 /\ stack' \in Seq(Value)
        /\ \A j \in DOMAIN stack : j \in DOMAIN stack' => stack'[j] = stack[j]
    BY <1>2, <2>1
  <2>4. instr.op \notin {"JUMP", "LOOP", "RETURN"} \cup Pushing BY <1>2 DEF Pushing
  <2> QED BY <1>1, <1>2, <2>1, <2>2, <2>3, <2>4, LabelsOnward DEF Goto
<1> QED BY <1>3, <1>4

(* A try that is entered keeps the labels. *)
LEMMA TryEnterLabels ==
  ASSUME NEW L, VInv, LabelsWith(L), TryEnter
  PROVE  LabelsWith(L)'
<1> DEFINE s == chunkOf(frame)
           p == frame.ip
           l == L[frame.fn]
           b == frame.base
           h == s[p].h
           hd == [enter |-> p, depth |-> Len(stack), catch |-> instr.x,
                  fin |-> instr.y, inside |-> FALSE]
           new == Append(frame.handlers, hd)
           owed == IF instr.y = 0 THEN frame.owed ELSE frame.owed \cup {p}
<1>1. /\ Fetch("TRY_ENTER") /\ code' = code /\ stack' = stack
      /\ frames' = ReplaceTop(frames, Move(frame, p + 1, new, owed))
  BY DEF TryEnter, Unchanging
<1>2. /\ Running /\ instr = s[p] /\ s[p].op = "TRY_ENTER" /\ InstrOK(s, p)
      /\ AddressedAt(s, l, p) /\ Holds(stack, b, l[p]) /\ l[p] \in Seq(Nat)
      /\ stack \in Seq(Value) /\ Len(stack) \in Nat /\ Len(stack) = b + h /\ b \in Nat /\ h \in Nat
      /\ frame.handlers \in Seq(Handler) /\ frame.owed \in SUBSET Nat /\ p + 1 \in Nat
      /\ s[p].x \in Nat /\ s[p].y \in Nat /\ p \in DOMAIN s /\ s \in Seq(Instruction)
  BY <1>1, FetchLabel
<1>3. p + 1 \in DOMAIN s /\ s[p + 1].h = h BY <1>2 DEF InstrOK
<1>4. Knows(l[p], l[p + 1]) BY <1>2, OntoNext DEF Pushing
<1>5. l[p + 1] \in Seq(Nat) /\ Len(l[p + 1]) <= h BY <1>2, <1>3, AtLabel
<1>6. p \in Nat BY <1>2
<1>7. hd \in Handler BY <1>2, <1>6 DEF Handler
<1>8. owed \in SUBSET Nat BY <1>2, <1>6
<1> HIDE DEF hd, owed
<1>9. new \in Seq(Handler) BY <1>2, <1>7, AppendInSeq
<1> HIDE DEF new
<1>10. Holds(stack', b, l[p + 1])
  <2> DEFINE z == l[p + 1]
             a == l[p]
  <2>1. /\ z \in Seq(Nat) /\ a \in Seq(Nat) /\ Knows(a, z) /\ Holds(stack, b, a) /\ Len(z) <= h
        /\ Len(z) \in Nat
    BY <1>2, <1>4, <1>5
  <2> HIDE DEF z, a, b, h
  <2>2. b + Len(z) <= Len(stack) BY <1>2, <2>1
  <2>3. Holds(stack, b, z) BY <1>2, <2>1, <2>2, HoldsOn
  <2> QED BY <1>1, <2>3 DEF z
<1>11. b <= Len(stack') /\ \A j \in 1..b : stack'[j] = stack[j]
  <2> HIDE DEF b, h
  <2> QED BY <1>1, <1>2
<1> QED BY <1>1, <1>2, <1>3, <1>8, <1>9, <1>10, <1>11, LabelsMoved

(* The labels hold where a program begins. *)
LEMMA BeginLabels ==
  ASSUME NEW L, frames = <<>>, NEW program, Verified(program), BeginRunOf(program),
         \A f \in Funcs : Addressed(program[f], L[f])
  PROVE  LabelsWith(L)'
<1> DEFINE new == NewFrame(Main, Len(stack))
<1>1. frames' = <<new>> /\ code' = program BY DEF BeginRunOf
<1>2. new.fn = Main /\ new.ip = 1 BY DEF NewFrame
<1>3. ChunkOK(program[Main]) /\ Main \in Funcs BY FuncsAssumption DEF Verified
<1>4. L[Main][1] = <<>> BY <1>3, FirstLabel DEF ChunkOK
<1> HIDE DEF new
<1>5. DOMAIN frames' = {1} /\ frames'[1] = new BY <1>1
<1>6. LabelOf(L, 1)' = <<>> BY <1>2, <1>4, <1>5 DEF LabelOf
<1>7. Holds(stack', frames'[1].base, LabelOf(L, 1)') BY <1>6 DEF Holds
<1>8. \A i, j \in {1} : ~(i < j) OBVIOUS
<1> QED BY <1>1, <1>5, <1>7, <1>8 DEF LabelsWith

(* The stack after a push, or after n pops.                                *)
LEMMA StackDropped ==
  ASSUME NEW st \in Seq(Value), NEW n \in Nat, n <= Len(st)
  PROVE  /\ Drop(st, n) \in Seq(Value) /\ Len(Drop(st, n)) = Len(st) + (-n) /\ -n \in Int
         /\ \A j \in DOMAIN st : j \in DOMAIN Drop(st, n) => Drop(st, n)[j] = st[j]
<1> DEFINE d == Drop(st, n)
<1>1. d \in Seq(Value) /\ Len(d) = Len(st) - n /\ \A i \in 1..(Len(st) - n) : d[i] = st[i]
  BY DropInSeq
<1>2. Len(st) \in Nat OBVIOUS
<1> HIDE DEF d
<1> DEFINE u == Len(st)
           w == Len(d)
<1>3. DOMAIN d = 1..w /\ u \in Nat /\ w = u - n BY <1>1, <1>2
<1> HIDE DEF u, w
<1>4. w = u + (-n) /\ -n \in Int BY ONLY <1>3, n \in Nat
<1>5. \A j \in DOMAIN d : d[j] = st[j] BY <1>1, <1>3 DEF u
<1> QED BY <1>1, <1>4, <1>5 DEF d, u, w

(* A value pushed leaves the values below it. *)
LEMMA StackPushed ==
  ASSUME NEW st \in Seq(Value), NEW v \in Value
  PROVE  /\ Append(st, v) \in Seq(Value) /\ Len(Append(st, v)) = Len(st) + 1
         /\ DOMAIN Append(st, v) = 1..(Len(st) + 1) /\ DOMAIN st = 1..Len(st) /\ Len(st) \in Nat
         /\ \A j \in DOMAIN st : Append(st, v)[j] = st[j]
         /\ \A j \in DOMAIN Append(st, v) : j \in DOMAIN st \/ Append(st, v)[j] = v
<1>1. /\ Append(st, v) \in Seq(Value) /\ Len(Append(st, v)) = Len(st) + 1
      /\ DOMAIN Append(st, v) = 1..(Len(st) + 1) /\ Append(st, v)[Len(st) + 1] = v
      /\ \A i \in 1..Len(st) : Append(st, v)[i] = st[i]
  BY AppendInSeq
<1>2. DOMAIN st = 1..Len(st) /\ Len(st) \in Nat OBVIOUS
<1>3. \A j \in 1..(Len(st) + 1) : j \in 1..Len(st) \/ j = Len(st) + 1 BY <1>2
<1> QED BY <1>1, <1>2, <1>3

(* An operator that takes two operands away and leaves its result.         *)
LEMMA Pop2PushLabels ==
  ASSUME NEW L, VInv, LabelsWith(L), Pop2Push
  PROVE  LabelsWith(L)'
<1> DEFINE s == chunkOf(frame)
           p == frame.ip
           l == L[frame.fn]
           b == frame.base
           h == s[p].h
           v == <<"val", p>>
<1>1. /\ Fetch("POP2_PUSH") /\ code' = code /\ Goto(p + 1) /\ stack' = Append(Drop(stack, 2), v)
  BY DEF Pop2Push, Unchanging
<1>2. /\ Running /\ s[p].op = "POP2_PUSH" /\ InstrOK(s, p)
      /\ AddressedAt(s, l, p) /\ l[p] \in Seq(Nat) /\ frame.handlers \in Seq(Handler)
      /\ stack \in Seq(Value) /\ Len(stack) \in Nat /\ Len(stack) = b + h /\ b \in Nat /\ h \in Nat
      /\ p + 1 \in Nat /\ p \in DOMAIN s /\ s \in Seq(Instruction)
  BY <1>1, FetchLabel
<1>3. p + 1 \in DOMAIN s /\ h >= 2 BY <1>2 DEF InstrOK, Flows
<1>4. Knows(l[p], l[p + 1]) BY <1>2, OntoNext DEF Pushing
<1>5. l[p + 1] \in Seq(Nat) BY <1>2, <1>3, AtLabel
<1>6. Len(l[p + 1]) \in Nat /\ Len(l[p + 1]) + 2 <= h
  <2>1. Len(l[p]) + 2 <= h BY <1>2 DEF AddressedAt, Spare
  <2> DEFINE a == l[p]
             z == l[p + 1]
  <2> HIDE DEF a, z, h
  <2>2. a \in Seq(Nat) /\ z \in Seq(Nat) /\ Knows(a, z) /\ Len(a) + 2 <= h /\ h \in Nat
    BY <1>2, <1>4, <1>5, <2>1 DEF a, z
  <2>3. Len(z) \in Nat /\ Len(a) \in Nat /\ Len(z) <= Len(a) BY ONLY <2>2, KnowsIs
  <2>4. Len(z) + 2 <= h BY ONLY <2>2, <2>3
  <2> QED BY <2>3, <2>4 DEF z
<1>7. v \in Value BY <1>2 DEF Value
<1> DEFINE st == Drop(stack, 2)
<1>8. 2 \in Nat /\ 2 <= Len(stack)
  <2> HIDE DEF b, h
  <2> QED BY <1>2, <1>3
<1>9. st \in Seq(Value) /\ Len(st) = Len(stack) - 2 /\ \A j \in 1..(Len(stack) - 2) : st[j] = stack[j]
  BY <1>2, <1>8, DropInSeq
<1> HIDE DEF st, v
<1>10. /\ stack' \in Seq(Value) /\ Len(stack') = Len(st) + 1 /\ \A j \in DOMAIN st : stack'[j] = st[j]
       /\ DOMAIN st = 1..Len(st)
  <2>1. stack' = Append(st, v) BY <1>1 DEF st
  <2> QED BY ONLY <1>7, <1>9, <2>1, StackPushed
<1> DEFINE z == Len(l[p + 1])
<1>11. b + z <= Len(stack') /\ \A j \in 1..(b + z) : j \in DOMAIN st /\ j \in 1..(Len(stack) - 2)
  <2> HIDE DEF b, h, z
  <2>1. z \in Nat /\ z + 2 <= h BY <1>6 DEF z
  <2>2. b + z <= Len(stack) - 2 BY <1>2, <2>1
  <2> QED BY <1>2, <1>9, <1>10, <2>1, <2>2
<1>12. \A j \in 1..(b + z) : stack'[j] = stack[j] BY <1>9, <1>10, <1>11
<1> QED BY <1>1, <1>2, <1>3, <1>4, <1>10, <1>11, <1>12, LabelsKept DEF Goto

(* The step of a stream keeps the labels. *)
LEMMA ForIterLabels ==
  ASSUME NEW L, VInv, LabelsWith(L), ForIter, stack' \in Seq(Value)
  PROVE  LabelsWith(L)'
<1> DEFINE s == chunkOf(frame)
           p == frame.ip
           new == [k \in 1..instr.y |-> <<"val", p>>]
<1>1. Fetch("FOR_ITER") /\ Unchanging BY DEF ForIter
<1>2. /\ Running /\ instr = s[p] /\ s[p].op = "FOR_ITER" /\ InstrOK(s, p) /\ code' = code
      /\ AddressedAt(s, L[frame.fn], p) /\ stack \in Seq(Value) /\ Len(stack) \in Nat
      /\ frame.handlers \in Seq(Handler) /\ s[p].y \in Nat /\ s[p].x \in Nat /\ s[p].h \in Nat
      /\ p \in Nat
  <2>1. frame.ip \in DOMAIN chunkOf(frame) /\ chunkOf(frame) \in Seq(Instruction) BY <1>1, FetchLabel
  <2> QED BY <1>1, <2>1, FetchLabel DEF Unchanging
<1>3. /\ Flows(s, p, p + 1, s[p].y) /\ Flows(s, p, instr.x, 0) /\ Raises(s, p, s[p].h)
  BY <1>2 DEF InstrOK
<1>4. CASE stack' = stack \o new /\ Goto(p + 1)
  <2>1. /\ new \in Seq(Value) /\ Len(new) = s[p].y /\ \A k \in 1..s[p].y : new[k] = <<"val", p>>
    <3> DEFINE v == <<"val", p>>
               m == s[p].y
    <3>1. v \in Value /\ m \in Nat BY <1>2 DEF Value
    <3>2. new = [k \in 1..m |-> v] BY <1>2
    <3> HIDE DEF v, m, new
    <3>3. new \in Seq(Value) /\ Len(new) = m /\ \A k \in 1..m : new[k] = v BY ONLY <3>1, <3>2
    <3> QED BY <3>3 DEF v, m
  <2> HIDE DEF new
  <2>2. /\ Len(stack') = Len(stack) + s[p].y
        /\ \A j \in 1..Len(stack) : stack'[j] = stack[j]
        /\ \A j \in 1..(Len(stack) + s[p].y) : j \in 1..Len(stack) \/ stack'[j] = new[j - Len(stack)]
    <3> DEFINE u == Len(stack)
               w == s[p].y
    <3>1. stack' = stack \o new /\ stack \in Seq(Value) /\ new \in Seq(Value) /\ u = Len(stack)
          /\ w = Len(new) /\ u \in Nat /\ w \in Nat
      BY <1>2, <1>4, <2>1
    <3> HIDE DEF u, w
    <3> QED BY ONLY <3>1 DEF u, w
  <2>3. DOMAIN stack = 1..Len(stack) /\ DOMAIN stack' = 1..(Len(stack) + s[p].y) BY <1>2, <2>2
  <2>4. \A j \in DOMAIN stack' : j \in DOMAIN stack \/ stack'[j] \in {<<"val", p>>, <<"notype", p>>}
    <3> SUFFICES ASSUME NEW j \in 1..(Len(stack) + s[p].y), j \notin 1..Len(stack)
                 PROVE  stack'[j] = <<"val", p>>
      BY <2>3
    <3> DEFINE u == Len(stack)
               w == s[p].y
    <3>1. u \in Nat /\ w \in Nat BY <1>2
    <3>2. j - u \in 1..w
      <4> HIDE DEF u, w
      <4>1. j \in 1..(u + w) /\ j \notin 1..u BY DEF u, w
      <4> QED BY ONLY <3>1, <4>1
    <3> QED BY <2>1, <2>2, <3>2
  <2>5. \A j \in DOMAIN stack : stack'[j] = stack[j] BY <2>2, <2>3
  <2>6. instr.op \in Pushing BY <1>2 DEF Pushing
  <2> QED BY <1>2, <1>3, <1>4, <2>2, <2>4, <2>5, <2>6, LabelsPushed
<1>5. CASE Goto(instr.x) /\ stack' = stack
  <2>1. instr.x \in DOMAIN s /\ s[instr.x].h = instr.h + 0 BY <1>2, <1>3 DEF Flows
  <2>2. Knows(L[frame.fn][p], L[frame.fn][instr.x]) BY <1>2 DEF AddressedAt, Branches
  <2>3. 0 \in Int /\ Len(stack') = Len(stack) + 0 BY <1>2, <1>5
  <2> QED BY <1>2, <1>5, <2>1, <2>2, <2>3, LabelsFlow DEF Goto
<1>6. CASE Raise("TypeError", stack)
  <2>1. /\ instr.op \in Fallible /\ "TypeError" \in ErrTypes /\ "TypeError" \notin Warnings
        /\ 0 \in Int /\ Len(stack) = Len(stack) + 0 /\ instr.h + 0 = s[p].h
    BY <1>2, ErrTypesAssumption DEF Fallible
  <2>2. Raises(s, p, instr.h + 0) BY <1>3, <2>1
  <2> QED BY <1>1, <1>2, <1>6, <2>1, <2>2, RaiseLabels
<1> QED BY <1>4, <1>5, <1>6 DEF ForIter

(* Every step of the machine keeps the labels.                             *)
LEMMA LabelStep ==
  ASSUME NEW L, VInv, LabelsWith(L), VMNext
  PROVE  LabelsWith(L)'
<1> DEFINE s == chunkOf(frame)
           p == frame.ip
           l == L[frame.fn]
           Goal == LabelsWith(L)'
<1>t. stack' \in Seq(Value) BY TypeStep DEF VInv, TypeInv, VMTypeOK
<1>f. ASSUME NEW op, Fetch(op)
      PROVE  /\ Running /\ instr = s[p] /\ s[p].op = op /\ instr.op = op
             /\ AddressedAt(s, l, p) /\ InstrOK(s, p) /\ frame.handlers \in Seq(Handler)
             /\ stack \in Seq(Value) /\ Len(stack) = frame.base + instr.h /\ Len(stack) \in Nat
             /\ frame.base \in Nat /\ instr.h \in Nat /\ instr.ty \in SUBSET ErrTypes
             /\ Len(stack) = Len(stack) + 0 /\ instr.h = instr.h + 0
             /\ p \in Nat
  <2>1. p \in DOMAIN s /\ s \in Seq(Instruction) BY <1>f, FetchLabel
  <2> QED BY <1>f, <2>1, FetchLabel
<1>e. /\ {"RuntimeError", "TypeError", "IndexError", "RecursionError"} \subseteq ErrTypes
      /\ "RuntimeError" \notin Warnings /\ "TypeError" \notin Warnings
      /\ "IndexError" \notin Warnings /\ "RecursionError" \notin Warnings
  BY ErrTypesAssumption
<1>n. 0 \in Int /\ 1 \in Int /\ -1 \in Int /\ -2 \in Int /\ 1 \in Nat OBVIOUS
<1>s. ASSUME stack' = stack, stack \in Seq(Value)
      PROVE  /\ Len(stack') = Len(stack) + 0
             /\ \A j \in DOMAIN stack : j \in DOMAIN stack' => stack'[j] = stack[j]
  BY <1>s
<1>p. ASSUME NEW v \in Value, Pushes(v), stack \in Seq(Value)
      PROVE  /\ Goto(p + 1) /\ Len(stack') = Len(stack) + 1
             /\ \A j \in DOMAIN stack : stack'[j] = stack[j]
             /\ \A j \in DOMAIN stack' : j \in DOMAIN stack \/ stack'[j] = v
  <2>1. Goto(p + 1) /\ stack' = Append(stack, v) BY <1>p DEF Pushes
  <2> QED BY <1>p, <2>1, StackPushed
<1>d. ASSUME NEW n \in Nat, n <= Len(stack), stack \in Seq(Value), stack' = Drop(stack, n)
      PROVE  /\ Len(stack') = Len(stack) + (-n) /\ -n \in Int
             /\ \A j \in DOMAIN stack : j \in DOMAIN stack' => stack'[j] = stack[j]
  BY <1>d, StackDropped
<1>v. ASSUME NEW op, Fetch(op), op \in {"CONSTANT", "NOTYPE", "NATIVE"},
             NEW v \in {<<"val", p>>, <<"notype", p>>}, Pushes(v), Unchanging
      PROVE  Goal
  <2>1. v \in Value BY <1>f, <1>v DEF Value
  <2>2. Flows(s, p, p + 1, 1) /\ instr.op \in Pushing BY <1>f, <1>v DEF InstrOK, Pushing
  <2> QED BY <1>f, <1>n, <1>p, <1>t, <1>v, <2>1, <2>2, LabelsPushed DEF Unchanging
<1>g. ASSUME NEW op, Fetch(op), op \notin {"JUMP", "LOOP", "RETURN"} \cup Pushing, NEW d \in Int,
             Goto(p + 1), Unchanging, p + 1 \in DOMAIN s, s[p + 1].h = instr.h + d,
             Len(stack') = Len(stack) + d,
             \A j \in DOMAIN stack : j \in DOMAIN stack' => stack'[j] = stack[j]
      PROVE  Goal
  BY <1>f, <1>g, <1>t, LabelsOnward DEF Unchanging, Goto
<1>o. ASSUME NEW op \in Branches, Fetch(op), Flows(s, p, instr.x, 0), Goto(instr.x), stack' = stack, Unchanging
      PROVE  Goal
  <2>1. Running /\ instr.op = op /\ instr = s[p] /\ AddressedAt(s, l, p) /\ frame.handlers \in Seq(Handler)
    BY <1>f, <1>o
  <2>2. Knows(l[p], l[instr.x]) BY <1>o, <2>1 DEF AddressedAt
  <2>3. instr.x \in DOMAIN s /\ s[instr.x].h = instr.h + 0 BY <1>o, <2>1 DEF Flows
  <2> QED BY <1>f, <1>n, <1>o, <1>s, <1>t, <2>1, <2>2, <2>3, LabelsFlow DEF Goto, Unchanging
<1>r. ASSUME NEW op \in Fallible, Fetch(op), NEW t \in ErrTypes \ Warnings, Raises(s, p, instr.h),
             Raise(t, stack), Unchanging
      PROVE  Goal
  <2>1. instr.h + 0 = instr.h /\ Len(stack) = Len(stack) + 0 /\ stack \in Seq(Value) /\ Running
        /\ instr.op \in Fallible
    BY <1>f, <1>r
  <2>2. Raises(s, p, instr.h + 0) BY <1>r, <2>1
  <2> QED BY <1>n, <1>r, <1>t, <2>1, <2>2, RaiseLabels
<1>a. ASSUME NEW op, Fetch(op), Abort, Unchanging PROVE Goal
  BY <1>a, LabelsOver DEF Abort, Running, Unchanging
<1> HIDE DEF s, p, l, Goal
<1> SUFFICES Goal BY DEF Goal
<1>1. CASE BeginRun
  <2>1. frames = <<>> /\ Verified(code) /\ BeginRunOf(code)
    BY <1>1 DEF BeginRun, BeginRunOf, VInv, TypeInv, VMTypeOK
  <2>2. \A f \in Funcs : Addressed(code[f], L[f]) BY DEF LabelsWith
  <2> QED BY <2>1, <2>2, BeginLabels DEF Goal
<1>2. CASE Constant BY <1>2, <1>v DEF Constant, p
<1>3. CASE NoType BY <1>3, <1>v DEF NoType, p
<1>4. CASE Native
  <2>1. Fetch("NATIVE") /\ Unchanging BY <1>4 DEF Native
  <2>2. CASE Pushes(<<"val", p>>) BY <1>v, <2>1, <2>2
  <2>3. CASE Raise("RuntimeError", stack)
    <3>1. "NATIVE" \in Fallible BY DEF Fallible
    <3>2. Raises(s, p, instr.h) BY <1>f, <2>1 DEF InstrOK
    <3> QED BY <1>e, <1>r, <2>1, <2>3, <3>1, <3>2
  <2> QED BY <1>4, <2>2, <2>3 DEF Native, p
<1>5. CASE GetLocal
  <2>1. Fetch("GET_LOCAL") /\ Unchanging BY <1>5 DEF GetLocal
  <2>2. CASE Pushes(stack[Slot])
    <3>1. /\ p + 1 \in DOMAIN s /\ s[p + 1].h = instr.h + 1 /\ instr.y < instr.h
      BY <1>f, <2>1 DEF InstrOK, Flows
    <3>2. stack[Slot] \in Value
      <4>1. stack \in Seq(Value) /\ Defined /\ instr.op = "GET_LOCAL" /\ instr.y \in Nat /\ frame.base \in Nat
        BY <1>f, <2>1, FetchLabel DEF Fetch
      <4>2. frame.base + instr.y < Len(stack) BY <4>1 DEF Defined
      <4>3. Slot \in DOMAIN stack BY <4>1, <4>2 DEF Slot
      <4> QED BY <4>1, <4>3
    <3>3. "GET_LOCAL" \notin {"JUMP", "LOOP", "RETURN"} \cup Pushing BY DEF Pushing
    <3> QED BY <1>f, <1>g, <1>n, <1>p, <2>1, <2>2, <3>1, <3>2, <3>3
  <2>3. CASE Abort BY <1>a, <2>1, <2>3
  <2> QED BY <1>5, <2>2, <2>3 DEF GetLocal
<1>6. CASE SetLocal BY <1>6, SetLocalLabels DEF Goal
<1>7. CASE Pop
  <2>1. Fetch("POP") /\ Unchanging /\ Goto(p + 1) BY <1>7 DEF Pop, p
  <2>2. instr.h >= 1 /\ p + 1 \in DOMAIN s /\ s[p + 1].h = instr.h + (-1)
    BY <1>f, <2>1 DEF InstrOK, Flows
  <2>3. 1 <= Len(stack) /\ stack # <<>> /\ stack \in Seq(Value) BY <1>f, <2>1, <2>2
  <2>4. stack' = Drop(stack, 1) BY <1>7, <2>3 DEF Pop
  <2>5. "POP" \notin {"JUMP", "LOOP", "RETURN"} \cup Pushing BY DEF Pushing
  <2> QED BY <1>d, <1>g, <1>n, <2>1, <2>2, <2>3, <2>4, <2>5
<1>8. CASE Pop2Push BY <1>8, Pop2PushLabels DEF Goal
<1>9. CASE DefineVar
  <2>1. Fetch("DEFINE_VAR") /\ Unchanging /\ Goto(p + 1) /\ stack' = Drop(stack, 1)
    BY <1>9 DEF DefineVar, p
  <2>2. instr.h >= 1 /\ p + 1 \in DOMAIN s /\ s[p + 1].h = instr.h + (-1)
    BY <1>f, <2>1 DEF InstrOK, Flows
  <2>3. 1 <= Len(stack) /\ stack \in Seq(Value) BY <1>f, <2>1, <2>2
  <2>4. "DEFINE_VAR" \notin {"JUMP", "LOOP", "RETURN"} \cup Pushing BY DEF Pushing
  <2> QED BY <1>d, <1>g, <1>n, <2>1, <2>2, <2>3, <2>4
<1>10. CASE Jump
  <2>1. /\ Fetch("JUMP") \/ Fetch("LOOP")
        /\ Goto(instr.x) /\ stack' = stack /\ Unchanging
    BY <1>10 DEF Jump
  <2>2. Flows(s, p, instr.x, 0) BY <1>f, <2>1 DEF InstrOK
  <2>3. "JUMP" \in Branches /\ "LOOP" \in Branches BY DEF Branches
  <2> QED BY <1>o, <2>1, <2>2, <2>3
<1>11. CASE JumpIfFalse
  <2>1. Fetch("JUMP_IF_FALSE") /\ Unchanging /\ stack' = stack BY <1>11 DEF JumpIfFalse
  <2>2. Flows(s, p, p + 1, 0) /\ Flows(s, p, instr.x, 0) /\ stack \in Seq(Value) /\ instr = s[p]
    BY <1>f, <2>1 DEF InstrOK
  <2>3. CASE Goto(p + 1)
    <3>1. p + 1 \in DOMAIN s /\ s[p + 1].h = instr.h + 0 BY <2>2 DEF Flows
    <3>2. "JUMP_IF_FALSE" \notin {"JUMP", "LOOP", "RETURN"} \cup Pushing BY DEF Pushing
    <3> QED BY <1>g, <1>n, <1>s, <2>1, <2>2, <2>3, <3>1, <3>2
  <2>4. CASE Goto(instr.x)
    <3>1. "JUMP_IF_FALSE" \in Branches BY DEF Branches
    <3> QED BY <1>o, <2>1, <2>2, <2>4, <3>1
  <2> QED BY <1>11, <2>3, <2>4 DEF JumpIfFalse, p
<1>12. CASE JumpIfNotLt
  <2>1. Fetch("JUMP_IF_NOT_LT") /\ Unchanging BY <1>12 DEF JumpIfNotLt
  <2>2. Flows(s, p, p + 1, 0) /\ Flows(s, p, instr.x, 0) /\ Raises(s, p, instr.h)
        /\ stack \in Seq(Value) /\ instr = s[p]
    BY <1>f, <2>1 DEF InstrOK
  <2>3. CASE Goto(p + 1) /\ stack' = stack
    <3>1. p + 1 \in DOMAIN s /\ s[p + 1].h = instr.h + 0 BY <2>2 DEF Flows
    <3>2. "JUMP_IF_NOT_LT" \notin {"JUMP", "LOOP", "RETURN"} \cup Pushing BY DEF Pushing
    <3> QED BY <1>g, <1>n, <1>s, <2>1, <2>2, <2>3, <3>1, <3>2
  <2>4. CASE Goto(instr.x) /\ stack' = stack
    <3>1. "JUMP_IF_NOT_LT" \in Branches BY DEF Branches
    <3> QED BY <1>o, <2>1, <2>2, <2>4, <3>1
  <2>5. CASE Raise("TypeError", stack)
    <3>1. "JUMP_IF_NOT_LT" \in Fallible BY DEF Fallible
    <3> QED BY <1>e, <1>r, <2>1, <2>2, <2>5, <3>1
  <2>6. CASE Abort BY <1>a, <2>1, <2>6
  <2> QED BY <1>12, <2>3, <2>4, <2>5, <2>6 DEF JumpIfNotLt, p
<1>13. CASE ForIter BY <1>t, <1>13, ForIterLabels DEF Goal
<1>14. CASE SkipIter
  <2> DEFINE st == Drop(stack, 1)
  <2>1. Fetch("SKIP_ITER") /\ Unchanging BY <1>14 DEF SkipIter
  <2>2. /\ Flows(s, p, p + 1, -1) /\ Raises(s, p, instr.h - 1) /\ instr.h >= 1 /\ Running /\ instr = s[p]
        /\ stack \in Seq(Value) /\ instr.op = "SKIP_ITER" /\ instr.h \in Nat
    BY <1>f, <2>1 DEF InstrOK
  <2>3. 1 <= Len(stack) BY <1>f, <2>1, <2>2
  <2>4. /\ st \in Seq(Value) /\ Len(st) = Len(stack) + (-1)
        /\ \A j \in DOMAIN stack : j \in DOMAIN st => st[j] = stack[j]
    BY <1>n, <2>2, <2>3, StackDropped
  <2> HIDE DEF st
  <2>5. CASE stack' = st /\ Goto(p + 1)
    <3>1. p + 1 \in DOMAIN s /\ s[p + 1].h = instr.h + (-1) BY <2>2 DEF Flows
    <3>2. "SKIP_ITER" \notin {"JUMP", "LOOP", "RETURN"} \cup Pushing BY DEF Pushing
    <3> QED BY <1>g, <1>n, <2>1, <2>4, <2>5, <3>1, <3>2
  <2>6. ASSUME NEW t \in ErrTypes \ Warnings, Raise(t, st) PROVE Goal
    <3>1. instr.h + (-1) = instr.h - 1 /\ instr.op \in Fallible BY <2>2 DEF Fallible
    <3>2. Raises(chunkOf(frame), frame.ip, instr.h + (-1)) BY <2>2, <3>1 DEF s, p
    <3> QED BY <1>n, <1>t, <2>1, <2>2, <2>4, <2>6, <3>1, <3>2, RaiseLabels DEF Goal
  <2> QED BY <1>e, <1>14, <2>5, <2>6 DEF SkipIter, p, st
<1>15. CASE Call
  <2>1. Fetch("CALL") /\ Unchanging BY <1>15 DEF Call
  <2>2. CASE Raise("RecursionError", stack)
    <3>1. Raises(s, p, instr.h) BY <1>f, <2>1 DEF InstrOK
    <3>2. "CALL" \in Fallible BY DEF Fallible
    <3> QED BY <1>e, <1>r, <2>1, <2>2, <3>1, <3>2
  <2>3. CASE ~Raise("RecursionError", stack)
    <3>1. Len(stack) <= StackLimit BY <1>15, <2>3 DEF Call
    <3> QED BY <1>15, <2>3, <3>1, CallLabels DEF Goal
  <2> QED BY <2>2, <2>3
<1>16. CASE Return BY <1>16, ReturnLabels DEF Goal
<1>17. CASE EndFinally BY <1>17, EndFinallyLabels DEF Goal
<1>18. CASE TryEnter BY <1>18, TryEnterLabels DEF Goal
<1>19. CASE TryExit
  <2> DEFINE low == IF frame.handlers = <<>> THEN <<>> ELSE Drop(frame.handlers, 1)
  <2>1. Fetch("TRY_EXIT") /\ Unchanging /\ stack' = stack /\ GotoWith(p + 1, low)
    BY <1>19 DEF TryExit, p
  <2>2. /\ p + 1 \in DOMAIN s /\ s[p + 1].h = instr.h + 0 /\ frame.handlers \in Seq(Handler)
        /\ Running /\ stack \in Seq(Value) /\ instr.op = "TRY_EXIT" /\ code' = code
    BY <1>f, <2>1 DEF InstrOK, Unchanging
  <2>3. low \in Seq(Handler) BY <2>2, DropOne
  <2>4. instr.op \notin {"JUMP", "LOOP", "RETURN"} \cup Pushing BY <2>2 DEF Pushing
  <2> HIDE DEF low
  <2> QED BY <1>n, <1>s, <1>t, <2>1, <2>2, <2>3, <2>4, LabelsOnward DEF Goal, s, p
<1>20. CASE Throw
  <2> DEFINE st == Drop(stack, 2)
  <2>1. Fetch("THROW") /\ Unchanging BY <1>20 DEF Throw
  <2>2. /\ Raises(s, p, instr.h - 2) /\ instr.h >= 2 /\ Running /\ instr = s[p]
        /\ (instr.ty \cap Warnings # {} => Flows(s, p, p + 1, -2))
        /\ stack \in Seq(Value) /\ instr.op = "THROW" /\ instr.h \in Nat /\ instr.ty \in SUBSET ErrTypes
    BY <1>f, <2>1 DEF InstrOK
  <2>3. 2 <= Len(stack) /\ 2 \in Nat BY <1>f, <2>1, <2>2
  <2>4. /\ st \in Seq(Value) /\ Len(st) = Len(stack) + (-2)
        /\ \A j \in DOMAIN stack : j \in DOMAIN st => st[j] = stack[j]
    BY <2>2, <2>3, StackDropped
  <2>5. PICK t \in instr.ty : Raise(t, st) BY <1>20 DEF Throw
  <2> HIDE DEF st
  <2>6. instr.h + (-2) = instr.h - 2 /\ instr.op \in Fallible /\ instr.op \notin Pushing
    BY <2>2 DEF Fallible, Pushing
  <2>7. Raises(chunkOf(frame), frame.ip, instr.h + (-2)) BY <2>2, <2>6 DEF s, p
  <2>8. t \in ErrTypes /\ (t \in Warnings => Flows(chunkOf(frame), frame.ip, frame.ip + 1, -2))
    BY <2>2 DEF s, p
  <2> QED BY <1>n, <1>t, <2>1, <2>2, <2>4, <2>5, <2>6, <2>7, <2>8, RaiseLabels DEF Goal
<1>21. CASE Catch
  <2> DEFINE v == <<"bool", Matches(Top(stack), instr.ty)>>
  <2>1. Fetch("CATCH") /\ Unchanging /\ Pushes(v) BY <1>21 DEF Catch
  <2>2. p + 1 \in DOMAIN s /\ s[p + 1].h = instr.h + 1 BY <1>f, <2>1 DEF InstrOK, Flows
  <2>3. v \in Value
    <3>1. Matches(Top(stack), instr.ty) \in BOOLEAN BY DEF Matches
    <3> QED BY <3>1 DEF Value
  <2>4. "CATCH" \notin {"JUMP", "LOOP", "RETURN"} \cup Pushing BY DEF Pushing
  <2> HIDE DEF v
  <2> QED BY <1>f, <1>g, <1>n, <1>p, <2>1, <2>2, <2>3, <2>4
<1>22. CASE Rethrow
  <2> DEFINE st == Drop(stack, 1)
  <2>1. Fetch("RETHROW") /\ Unchanging BY <1>22 DEF Rethrow
  <2>2. /\ Flows(s, p, p + 1, -1) /\ Raises(s, p, instr.h - 1) /\ instr.h >= 1 /\ Running /\ instr = s[p]
        /\ stack \in Seq(Value) /\ instr.op = "RETHROW" /\ instr.h \in Nat
    BY <1>f, <2>1 DEF InstrOK
  <2>3. 1 <= Len(stack) /\ stack # <<>> BY <1>f, <2>1, <2>2
  <2>4. /\ st \in Seq(Value) /\ Len(st) = Len(stack) + (-1)
        /\ \A j \in DOMAIN stack : j \in DOMAIN st => st[j] = stack[j]
    BY <1>n, <2>2, <2>3, StackDropped
  <2>5. Top(stack) \in Value BY <2>2, <2>3, TopInSeq
  <2>6. p + 1 \in DOMAIN s /\ s[p + 1].h = instr.h + (-1) BY <2>2 DEF Flows
  <2>7. instr.op \in Fallible /\ instr.op \notin {"JUMP", "LOOP", "RETURN"} \cup Pushing
    BY <2>2 DEF Fallible, Pushing
  <2> HIDE DEF st
  <2>8. CASE Top(stack)[1] # "err"
    <3>1. stack' = st /\ Goto(p + 1) BY <1>22, <2>8 DEF Rethrow, st, p
    <3> QED BY <1>g, <1>n, <2>1, <2>2, <2>4, <2>6, <2>7, <3>1
  <2>9. CASE Top(stack)[1] = "err"
    <3> DEFINE t == Top(stack)[2]
    <3>1. t \in ErrTypes BY <2>5, <2>9 DEF Value
    <3> HIDE DEF t
    <3>2. Raise(t, st) BY <1>22, <2>9 DEF Rethrow, st, t
    <3>3. instr.h + (-1) = instr.h - 1 BY <2>2
    <3>4. Raises(chunkOf(frame), frame.ip, instr.h + (-1)) BY <2>2, <3>3 DEF s, p
    <3>5. Flows(chunkOf(frame), frame.ip, frame.ip + 1, -1) /\ instr.op \notin Pushing
      BY <2>2, <2>7 DEF s, p
    <3> QED BY <1>n, <1>t, <2>1, <2>2, <2>4, <2>7, <3>1, <3>2, <3>4, <3>5, RaiseLabels DEF Goal
  <2> QED BY <2>8, <2>9
<1>23. CASE Undefined
  <2>1. Running /\ ~Defined BY <1>23 DEF Undefined, Running
  <2> QED BY <2>1, AlwaysDefined
<1>24. CASE Halted
  BY <1>24 DEF Halted, vmVars, LabelsWith, LabelOf, Running, frame, Top, chunkOf, Goal
<1> QED
  BY <1>1, <1>2, <1>3, <1>4, <1>5, <1>6, <1>7, <1>8, <1>9, <1>10, <1>11,
     <1>12, <1>13, <1>14, <1>15, <1>16, <1>17, <1>18, <1>19, <1>20, <1>21, <1>22,
     <1>23, <1>24 DEF VMNext, Execute

(* The invariant: for some labelling of the chunks.                        *)
Labelled == \E L : LabelsWith(L)

(* Every step of the machine keeps the labels. *)
LEMMA LabelledStep == VInv /\ Labelled /\ [VMNext]_vmVars => Labelled'
<1> SUFFICES ASSUME VInv, Labelled, [VMNext]_vmVars PROVE Labelled' OBVIOUS
<1>1. PICK L : LabelsWith(L) BY DEF Labelled
<1>2. CASE VMNext
  <2>1. LabelsWith(L)' BY <1>1, <1>2, LabelStep
  <2> QED BY <2>1 DEF Labelled
<1>3. CASE UNCHANGED vmVars
  <2>1. LabelsWith(L)' BY <1>1, <1>3 DEF vmVars, LabelsWith, LabelOf, Running, frame, Top, chunkOf
  <2> QED BY <2>1 DEF Labelled
<1> QED BY <1>2, <1>3

(* Where the labels hold, an instruction on a local finds the declaration  *)
(* it names.                                                               *)
LEMMA LabelledAddresses == VInv /\ Labelled => LexicalAddressing
<1> SUFFICES ASSUME VInv, Labelled, Running, Defined, instr.x # 0,
                    instr.op \in {"GET_LOCAL", "SET_LOCAL", "SKIP_ITER"}
             PROVE  stack[Slot] \in {<<"val", instr.x>>, <<"notype", instr.x>>}
  BY DEF LexicalAddressing
<1>1. PICK L : LabelsWith(L) BY DEF Labelled
<1> DEFINE l == L[frame.fn][frame.ip]
<1>2. Fetch(instr.op) BY DEF Fetch, Running
<1>3. /\ instr = chunkOf(frame)[frame.ip] /\ AddressedAt(chunkOf(frame), L[frame.fn], frame.ip)
      /\ Holds(stack, frame.base, l) /\ instr.y \in Nat /\ frame.base \in Nat
  BY <1>1, <1>2, FetchLabel
<1>4. instr.y + 1 \in DOMAIN l /\ l[instr.y + 1] = instr.x
  BY <1>3 DEF AddressedAt, Names
<1>5. stack[frame.base + (instr.y + 1)] \in {<<"val", instr.x>>, <<"notype", instr.x>>}
  BY <1>3, <1>4 DEF Holds
<1>6. Slot = frame.base + (instr.y + 1) BY <1>3 DEF Slot
<1> QED BY <1>5, <1>6

----------------------------------------------------------------------------
(* Debts.  An instruction owes the finally blocks of the try statements it *)
(* stands in.  The code pays when whatever leaves such an instruction, a   *)
(* jump, an error on its way to a handler, a return, goes no further than  *)
(* to where the debt is settled: the start of the finally block.           *)

(* p is between the TRY_ENTER at e and the finally block it names, or e is *)
(* one of T, whose finally block is still to come.                         *)
Spans(s, T, e, p) ==
  /\ e \in DOMAIN s /\ s[e].op = "TRY_ENTER" /\ e < p
  /\ e \in T \/ (s[e].y # 0 /\ p < s[e].y)

(* The jump on the verdict of a catch clause; a clause for every error is  *)
(* never refused.  Where a refused error goes on to the next clause.       *)
Verdict(s, p) == p - 1 \in DOMAIN s /\ s[p].op = "JUMP_IF_FALSE" /\ s[p - 1].op = "CATCH"
Sure(s, p) == Verdict(s, p) /\ "Error" \in s[p - 1].ty
Refused(s, p) == p + 1 \in DOMAIN s /\ s[p].op = "POP" /\ s[p + 1].op = "CATCH"

(* A place the machine may go to without an error on top of the stack.     *)
Ordinary(s, p) ==
  /\ p \in DOMAIN s => s[p].op # "CATCH" /\ ~Refused(s, p)
  /\ p - 1 \in DOMAIN s => s[p - 1].op # "CATCH"

(* How the code of catch clauses is laid out: an error that is refused by  *)
(* one is looked at by the next, and nothing falls into either.  D is the  *)
(* code behind a clause for every error, which is never reached.           *)
Laid(s, D, p) ==
  /\ s[p].op = "CATCH" =>
       /\ p - 1 \in DOMAIN s
       /\ \/ s[p - 1].op = "JUMP"
          \/ s[p - 1].op = "POP" /\ p - 2 \in DOMAIN s /\ s[p - 2].op = "JUMP"
       /\ p + 1 \in DOMAIN s => s[p + 1].op = "JUMP_IF_FALSE"
  /\ p \in D => p - 1 \in DOMAIN s /\ (s[p - 1].op = "JUMP" \/ p - 1 \in D)

(* What leaves the function or raises an error owes no finally block but   *)
(* those the handler, or the interception of the return, leads to.         *)
Pays(s, T, D, p) ==
  /\ s[p].op \in Fallible /\ p \notin D =>
       /\ s[p].hs # <<>> => Top(s[p].hs) < p
       /\ \A e : Spans(s, T, e, p) => s[p].hs # <<>> /\ e <= Top(s[p].hs)
  /\ s[p].op = "CALL" => \A e : ~Spans(s, T, e, p)
  /\ s[p].op = "RETURN" => \A e : Spans(s, T, e, p) => s[p].hs # <<>> /\ e = Top(s[p].hs)
  /\ s[p].op = "END_FINALLY" /\ s[p].rf # 0 => \A e : ~Spans(s, T, e, p)

(* A jump stays before the finally blocks that are owed.                   *)
Stays(s, T, p, q) == \A e : Spans(s, T, e, p) => e < q /\ (s[e].y # 0 => q <= s[e].y)

Settles(s, T, D, p) ==
  /\ s[p].op \in Branches =>
       /\ Stays(s, T, p, s[p].x)
       /\ IF Verdict(s, p)
          THEN /\ s[p].x \in DOMAIN s => s[s[p].x].op = "POP"
               /\ s[p].x - 1 \in DOMAIN s => s[s[p].x - 1].op # "CATCH"
               /\ s[p].x \in D => p \in D \/ Sure(s, p)
          ELSE Ordinary(s, s[p].x) /\ s[p].x \notin D
  /\ s[p].op = "TRY_ENTER" =>
       /\ Stays(s, T, p, s[p].x)
       /\ p < s[p].x /\ s[p].x \notin D
       /\ s[p].x - 1 \in DOMAIN s => s[s[p].x - 1].op # "CATCH"
       /\ s[p].x \in DOMAIN s => ~Refused(s, s[p].x)
       /\ s[p].y # 0 => s[p].x <= s[p].y /\ Ordinary(s, s[p].y) /\ s[p].y \notin D

(* The code of a function that pays its debts.                             *)
PaysDebts(s, D) ==
  \A p \in DOMAIN s :
    /\ Laid(s, D, p) /\ Pays(s, {}, D, p) /\ Settles(s, {}, D, p)
    /\ s[p].op = "NOTYPE" => p + 1 \in DOMAIN s /\ s[p + 1].op = "RETURN" /\ s[p + 1].hs = <<>>

----------------------------------------------------------------------------
(* The machine on such code.  Nothing on the stack is NoType but what a    *)
(* function that reaches its end is about to return, so that no read       *)
(* aborts; an error is on top of the stack where a clause looks at it.     *)

Clean(st) == \A j \in DOMAIN st : st[j][1] # "notype"

ErrorBelow(st) == Len(st) >= 2 /\ st[Len(st) - 1][1] = "err"

(* What the stack st holds when the machine is about to go on at p.        *)
Prepared(s, p, st) ==
  /\ s[p].op = "CATCH" => Top(st)[1] = "err"
  /\ Refused(s, p) => ErrorBelow(st)
  /\ Verdict(s, p) => ErrorBelow(st) /\ (Sure(s, p) => Top(st) = <<"bool", TRUE>>)
  /\ \A j \in DOMAIN st :
       st[j][1] # "notype" \/ (j = Len(st) /\ s[p].op = "RETURN" /\ s[p].hs = <<>>)

(* A frame waiting for the result of a call.                               *)
Suspended(s, d, f) == f.owed = {} /\ f.ip \notin d /\ Ordinary(s, f.ip)

(* The invariant, D being the unreachable code of each function.           *)
DebtsWith(D) ==
  /\ \A f \in Funcs : PaysDebts(code[f], D[f])
  /\ ~skipped
  /\ Running =>
       /\ \A i \in DOMAIN frames :
            i # Len(frames) => Suspended(code[frames[i].fn], D[frames[i].fn], frames[i])
       /\ frame.ip \notin D[frame.fn]
       /\ \A e \in frame.owed : Spans(chunkOf(frame), {}, e, frame.ip)
       /\ Prepared(chunkOf(frame), frame.ip, stack)

(* Where an instruction that falls through goes on.                        *)
LEMMA FallsThrough ==
  ASSUME NEW s \in Seq(Instruction), NEW D, PaysDebts(s, D), NEW p \in DOMAIN s, p + 1 \in DOMAIN s,
         p \notin D, s[p].op \notin {"JUMP", "CATCH"}, ~Refused(s, p)
  PROVE  p + 1 \notin D /\ Ordinary(s, p + 1)
<1>1. p \in Nat /\ (p + 1) - 1 = p /\ (p + 1) + 1 = p + 2 /\ (p + 2) - 1 = p + 1 /\ (p + 2) - 2 = p
  OBVIOUS
<1>2. Laid(s, D, p + 1) BY DEF PaysDebts
<1>3. p + 1 \notin D BY <1>1, <1>2 DEF Laid
<1>4. s[p + 1].op # "CATCH" BY <1>1, <1>2 DEF Laid, Refused
<1>5. ~Refused(s, p + 1)
  <2> SUFFICES ASSUME Refused(s, p + 1) PROVE FALSE OBVIOUS
  <2>1. p + 2 \in DOMAIN s /\ s[p + 1].op = "POP" /\ s[p + 2].op = "CATCH"
    BY <1>1 DEF Refused
  <2>2. Laid(s, D, p + 2) BY <2>1 DEF PaysDebts
  <2> QED BY <1>1, <2>1, <2>2 DEF Laid
<1> QED BY <1>1, <1>3, <1>4, <1>5 DEF Ordinary

(* Nothing owed is left behind by a move that stays.                       *)
LEMMA SettledStays ==
  ASSUME NEW f, NEW p \in Nat, NEW q \in Nat, NEW owed,
         chunkOf(f) \in Seq(Instruction),
         \A e \in owed : Spans(chunkOf(f), {}, e, p),
         Stays(chunkOf(f), {}, p, q)
  PROVE  \A e \in Settled(f, owed, q) : Spans(chunkOf(f), {}, e, q)
<1> SUFFICES ASSUME NEW e \in Settled(f, owed, q) PROVE Spans(chunkOf(f), {}, e, q)
  OBVIOUS
<1>1. e \in owed /\ chunkOf(f)[e].y # q BY DEF Settled
<1>2. /\ e \in DOMAIN chunkOf(f) /\ chunkOf(f)[e].op = "TRY_ENTER" /\ chunkOf(f)[e].y # 0
      /\ e < q /\ q <= chunkOf(f)[e].y
  BY <1>1 DEF Spans, Stays
<1>3. chunkOf(f)[e].y \in Nat BY <1>2, InstrTypes
<1> QED BY <1>1, <1>2, <1>3 DEF Spans

LEMMA NextStays ==
  ASSUME NEW s \in Seq(Instruction), NEW p \in Nat
  PROVE  Stays(s, {}, p, p + 1)
<1> SUFFICES ASSUME NEW e, Spans(s, {}, e, p) PROVE e < p + 1 /\ (s[e].y # 0 => p + 1 <= s[e].y)
  BY DEF Stays
<1>1. e \in DOMAIN s /\ e < p /\ p < s[e].y BY DEF Spans
<1>2. s[e].y \in Nat /\ e \in Nat BY <1>1, InstrTypes
<1> QED BY <1>1, <1>2

LEMMA OrdinaryPrepared ==
  ASSUME NEW s, NEW p \in DOMAIN s, NEW st, Ordinary(s, p),
         \A j \in DOMAIN st :
           st[j][1] # "notype" \/ (j = Len(st) /\ s[p].op = "RETURN" /\ s[p].hs = <<>>)
  PROVE  Prepared(s, p, st)
BY DEF Ordinary, Prepared, Verdict, Sure

(* Facts about the stack.                                                  *)
LEMMA CleanAppend ==
  ASSUME NEW st \in Seq(Value), Clean(st), NEW v, v[1] # "notype"
  PROVE  Clean(Append(st, v))
<1> DEFINE w == Append(st, v)
<1>1. DOMAIN w = 1..(Len(st) + 1) /\ w[Len(st) + 1] = v /\ Len(st) \in Nat
      /\ \A j \in 1..Len(st) : w[j] = st[j] /\ j \in DOMAIN st
  OBVIOUS
<1> HIDE DEF w
<1>2. ASSUME NEW j \in DOMAIN w PROVE w[j][1] # "notype"
  <2>1. CASE j = Len(st) + 1 BY <1>1, <2>1
  <2>2. CASE j # Len(st) + 1
    <3>1. j \in 1..Len(st) BY <1>1, <1>2, <2>2
    <3> QED BY <1>1, <3>1 DEF Clean
  <2> QED BY <2>1, <2>2
<1> QED BY <1>2 DEF Clean, w

LEMMA CleanDrop ==
  ASSUME NEW st \in Seq(Value), Clean(st), NEW n \in Nat, n <= Len(st)
  PROVE  Clean(Drop(st, n))
<1>1. /\ Drop(st, n) \in Seq(Value) /\ Len(Drop(st, n)) = Len(st) - n
      /\ \A i \in 1..(Len(st) - n) : Drop(st, n)[i] = st[i]
  BY DropInSeq
<1>2. \A i \in DOMAIN Drop(st, n) : i \in 1..(Len(st) - n) /\ i \in DOMAIN st BY <1>1
<1> QED BY <1>1, <1>2 DEF Clean

LEMMA CleanCut ==
  ASSUME NEW st \in Seq(Value), Clean(st), NEW n \in Nat
  PROVE  /\ Clean(IF Len(st) > n THEN SubSeq(st, 1, n) ELSE st)
         /\ (IF Len(st) > n THEN SubSeq(st, 1, n) ELSE st) \in Seq(Value)
<1>1. CASE Len(st) > n
  <2>1. /\ SubSeq(st, 1, n) \in Seq(Value) /\ DOMAIN SubSeq(st, 1, n) = 1..n
        /\ \A i \in 1..n : SubSeq(st, 1, n)[i] = st[i] /\ i \in DOMAIN st
    BY <1>1
  <2> QED BY <1>1, <2>1 DEF Clean
<1>2. CASE ~(Len(st) > n) BY <1>2
<1> QED BY <1>1, <1>2

(* What is known of the code about to be executed. *)
LEMMA AtDebt ==
  ASSUME NEW D, VInv, Running, DebtsWith(D)
  PROVE  LET s == chunkOf(frame)  p == frame.ip  d == D[frame.fn] IN
         /\ PaysDebts(s, d) /\ p \in DOMAIN s /\ p \notin d
         /\ Laid(s, d, p) /\ Pays(s, {}, d, p) /\ Settles(s, {}, d, p)
         /\ \A e \in frame.owed : Spans(s, {}, e, p)
         /\ Prepared(s, p, stack)
         /\ s[p].op # "RETURN" => Clean(stack)
         /\ ~skipped
<1>1. frame.fn \in Funcs /\ frame.ip \in DOMAIN chunkOf(frame) BY VFrameTypes, AtInstr
<1>2. PaysDebts(chunkOf(frame), D[frame.fn]) BY <1>1 DEF DebtsWith, chunkOf
<1>3. /\ frame.ip \notin D[frame.fn] /\ ~skipped
      /\ \A e \in frame.owed : Spans(chunkOf(frame), {}, e, frame.ip)
      /\ Prepared(chunkOf(frame), frame.ip, stack)
  BY DEF DebtsWith
<1>4. chunkOf(frame)[frame.ip].op # "RETURN" => Clean(stack)
  BY <1>3 DEF Prepared, Clean
<1> QED BY <1>1, <1>2, <1>3, <1>4 DEF PaysDebts

(* The invariant after a step of the top frame.                            *)
LEMMA DebtMoved ==
  ASSUME NEW D, VInv, Running, DebtsWith(D), code' = code, ~skipped',
         NEW q \in Nat, NEW handlers \in Seq(Handler), NEW owed \in SUBSET Nat,
         frames' = ReplaceTop(frames, Move(frame, q, handlers, owed)),
         q \notin D[frame.fn],
         \A e \in Settled(frame, owed, q) : Spans(chunkOf(frame), {}, e, q),
         Prepared(chunkOf(frame), q, stack')
  PROVE  DebtsWith(D)'
<1> DEFINE n == Len(frames)
           g == Move(frame, q, handlers, owed)
<1>1. /\ n \in Nat \ {0} /\ DOMAIN frames = 1..n /\ frame = frames[n]
      /\ frames \in Seq(Frame) /\ frames # <<>> /\ frame \in Frame
  BY VFrameTypes, TopInSeq DEF frame, Top
<1>2. g \in Frame /\ g.ip = q /\ g.fn = frame.fn /\ g.owed = Settled(frame, owed, q)
  <2>1. g \in Frame /\ g.ip = q /\ g.fn = frame.fn BY <1>1, MoveFrame
  <2>2. g.owed = Settled(frame, owed, q) BY <1>1 DEF Move, Frame
  <2> QED BY <2>1, <2>2
<1> HIDE DEF g
<1>3. /\ frames' \in Seq(Frame) /\ Len(frames') = n /\ frames'[n] = g
      /\ \A i \in 1..(n - 1) : frames'[i] = frames[i]
  <2>1. frames' = ReplaceTop(frames, g) BY DEF g
  <2>2. frames \in Seq(Frame) /\ frames # <<>> /\ g \in Frame BY <1>1, <1>2
  <2>3. LET r == ReplaceTop(frames, g) IN
        /\ r \in Seq(Frame) /\ Len(r) = n /\ r[n] = g
        /\ \A i \in 1..(n - 1) : r[i] = frames[i]
    BY ONLY <2>2, ReplaceTopInSeq
  <2> QED BY ONLY <2>1, <2>3
<1>4. frame' = g BY <1>3 DEF frame, Top
<1>5. chunkOf(frame)' = chunkOf(frame) BY <1>2, <1>4 DEF chunkOf
<1>6. ASSUME NEW i \in DOMAIN frames', i # Len(frames')
      PROVE  Suspended(code'[frames'[i].fn], D[frames'[i].fn], frames'[i])
  <2>1. i \in 1..(n - 1) /\ i \in 1..n /\ i # n BY <1>1, <1>3, <1>6
  <2>2. frames'[i] = frames[i] BY <1>3, <2>1
  <2>3. Suspended(code[frames[i].fn], D[frames[i].fn], frames[i])
    BY <1>1, <2>1 DEF DebtsWith
  <2> QED BY <2>2, <2>3
<1>7. \A f \in Funcs : PaysDebts(code'[f], D[f]) BY DEF DebtsWith
<1>8. /\ frame'.ip \notin D[frame'.fn]
      /\ \A e \in frame'.owed : Spans(chunkOf(frame)', {}, e, frame'.ip)
      /\ Prepared(chunkOf(frame)', frame'.ip, stack')
  BY <1>2, <1>4, <1>5
<1> QED BY <1>6, <1>7, <1>8 DEF DebtsWith

(* An instruction that falls through.                                      *)
LEMMA OnwardWith ==
  ASSUME NEW D, VInv, Running, DebtsWith(D), code' = code, skipped' = skipped,
         NEW handlers \in Seq(Handler), GotoWith(frame.ip + 1, handlers),
         frame.ip + 1 \in DOMAIN chunkOf(frame),
         instr.op \notin {"JUMP", "CATCH"}, ~Refused(chunkOf(frame), frame.ip),
         Clean(stack')
  PROVE  DebtsWith(D)'
<1> DEFINE s == chunkOf(frame)
           p == frame.ip
           d == D[frame.fn]
<1>1. /\ PaysDebts(s, d) /\ p \in DOMAIN s /\ p \notin d
      /\ \A e \in frame.owed : Spans(s, {}, e, p)
      /\ ~skipped
  BY AtDebt
<1>2. /\ s \in Seq(Instruction) /\ p \in Nat /\ p + 1 \in Nat
      /\ frame.handlers \in Seq(Handler) /\ frame.owed \in SUBSET Nat
  BY VFrameTypes
<1>3. s[p].op \notin {"JUMP", "CATCH"} BY DEF instr
<1>4. p + 1 \notin d /\ Ordinary(s, p + 1) BY <1>1, <1>2, <1>3, FallsThrough
<1>5. Stays(s, {}, p, p + 1) BY <1>2, NextStays
<1>6. \A e \in Settled(frame, frame.owed, p + 1) : Spans(s, {}, e, p + 1)
  BY <1>1, <1>2, <1>5, SettledStays
<1>7. Prepared(s, p + 1, stack') BY <1>4, OrdinaryPrepared DEF Clean
<1>8. ~skipped'
  <2>1. ~skipped /\ skipped' = skipped BY <1>1
  <2> QED BY ONLY <2>1
<1> QED BY <1>2, <1>4, <1>6, <1>7, <1>8, DebtMoved DEF GotoWith

LEMMA OnwardDebts ==
  ASSUME NEW D, VInv, Running, DebtsWith(D), code' = code, skipped' = skipped,
         Goto(frame.ip + 1),
         frame.ip + 1 \in DOMAIN chunkOf(frame),
         instr.op \notin {"JUMP", "CATCH"}, ~Refused(chunkOf(frame), frame.ip),
         Clean(stack')
  PROVE  DebtsWith(D)'
BY OnwardWith, VFrameTypes DEF Goto

(* A jump, except the one on the verdict of a clause.                      *)
LEMMA BranchDebts ==
  ASSUME NEW D, VInv, Running, DebtsWith(D), code' = code, skipped' = skipped,
         Goto(instr.x), instr.x \in DOMAIN chunkOf(frame),
         instr.op \in Branches, ~Verdict(chunkOf(frame), frame.ip),
         Clean(stack')
  PROVE  DebtsWith(D)'
<1> DEFINE s == chunkOf(frame)
           p == frame.ip
           d == D[frame.fn]
           q == s[p].x
<1>1. /\ p \in DOMAIN s /\ p \notin d /\ Settles(s, {}, d, p)
      /\ \A e \in frame.owed : Spans(s, {}, e, p)
      /\ ~skipped
  BY AtDebt
<1>2. /\ s \in Seq(Instruction) /\ p \in Nat
      /\ frame.handlers \in Seq(Handler) /\ frame.owed \in SUBSET Nat
  BY VFrameTypes
<1>3. instr = s[p] /\ q \in Nat /\ q \in DOMAIN s BY <1>1, <1>2, InstrTypes DEF instr
<1>4. Stays(s, {}, p, q) /\ Ordinary(s, q) /\ q \notin d BY <1>1, <1>3 DEF Settles
<1>6. \A e \in Settled(frame, frame.owed, q) : Spans(s, {}, e, q)
  BY <1>1, <1>2, <1>3, <1>4, SettledStays
<1>7. Prepared(s, q, stack') BY <1>3, <1>4, OrdinaryPrepared DEF Clean
<1>8. ~skipped'
  <2>1. ~skipped /\ skipped' = skipped BY <1>1
  <2> QED BY ONLY <2>1
<1> QED BY <1>2, <1>3, <1>4, <1>6, <1>7, <1>8, DebtMoved DEF Goto, GotoWith

(* No frame owes anything once the top frame does not.                     *)
LEMMA NothingOwed ==
  ASSUME NEW D, VInv, Running, DebtsWith(D), frame.owed = {}
  PROVE  \A i \in DOMAIN frames : frames[i].owed = {}
<1> SUFFICES ASSUME NEW i \in DOMAIN frames PROVE frames[i].owed = {} OBVIOUS
<1>1. CASE i = Len(frames) BY <1>1 DEF frame, Top
<1>2. CASE i # Len(frames) BY <1>2 DEF DebtsWith, Suspended
<1> QED BY <1>1, <1>2

(* An error goes to a clause that looks at it, or ends a run that owes     *)
(* nothing.                                                                *)
LEMMA RaiseDebts ==
  ASSUME NEW D, VInv, Running, DebtsWith(D), NEW t \in ErrTypes, NEW st \in Seq(Value),
         Clean(st), instr.op \in Fallible, ~isReturning,
         t \in Warnings => frame.ip + 1 \in DOMAIN chunkOf(frame),
         Raise(t, st), Unchanging
  PROVE  DebtsWith(D)'
<1> DEFINE s == chunkOf(frame)
           p == frame.ip
           d == D[frame.fn]
<1>1. /\ PaysDebts(s, d) /\ p \in DOMAIN s /\ p \notin d /\ ~skipped
      /\ Pays(s, {}, d, p)
      /\ \A e \in frame.owed : Spans(s, {}, e, p)
  BY AtDebt
<1>2. /\ s \in Seq(Instruction) /\ p \in Nat
      /\ frame.handlers \in Seq(Handler) /\ frame.owed \in SUBSET Nat
  BY VFrameTypes
<1>3. instr = s[p] /\ code' = code /\ instr.op \notin {"JUMP", "CATCH", "POP"}
  BY DEF instr, Unchanging, Fallible
<1>4. /\ s[p].hs # <<>> => Top(s[p].hs) < p
      /\ \A e \in frame.owed : s[p].hs # <<>> /\ e <= Top(s[p].hs)
  BY <1>1, <1>3 DEF Pays
<1>5. CASE t \in Warnings
  <2>1. stack' = st /\ Goto(p + 1) /\ skipped' = skipped BY <1>5 DEF Raise
  <2>2. ~Refused(s, p) BY <1>3 DEF Refused
  <2> QED BY <1>3, <1>5, <2>1, <2>2, OnwardDebts
<1>6. CASE t \notin Warnings /\ frame.handlers = <<>>
  <2>1. status' = "uncaught" /\ skipped' = (skipped \/ \E i \in DOMAIN frames : frames[i].owed # {})
    BY <1>6 DEF Raise
  <2>2. s[p].hs = <<>>
    <3>1. Agree(s, p, frame.base, frame.handlers) BY AtInstr
    <3>2. Len(s[p].hs) = 0 BY <1>6, <3>1 DEF Agree
    <3> QED BY <1>1, <1>2, <3>2, InstrTypes
  <2>3. frame.owed = {} BY <1>4, <2>2
  <2>4. ~skipped' BY <1>1, <2>1, <2>3, NothingOwed
  <2>5. ~Running' BY <2>1 DEF Running
  <2> QED BY <1>3, <2>4, <2>5 DEF DebtsWith
<1>7. CASE t \notin Warnings /\ frame.handlers # <<>>
  <2> DEFINE hs == s[p].hs
             k == Top(hs)
             hd == Top(frame.handlers)
             q == s[k].x
             low == Drop(frame.handlers, 1)
             cut == IF Len(st) > hd.depth THEN SubSeq(st, 1, hd.depth) ELSE st
  <2>1. /\ hs # <<>> /\ k \in DOMAIN s /\ s[k].op = "TRY_ENTER" /\ InstrOK(s, k)
        /\ hd = Installed(s, k, frame.base)
    BY <1>7, TopHandler
  <2>2. hd.catch = q /\ hd.depth = frame.base + s[k].h BY <2>1 DEF Installed
  <2>3. s[k].h \in Nat /\ q \in Nat /\ s[k].y \in Nat /\ k \in Nat /\ frame.base \in Nat
    BY <1>2, <2>1, InstrTypes, VFrameTypes
  <2>4. /\ stack' = Append(cut, <<"err", t>>) /\ GotoWith(hd.catch, low) /\ skipped' = skipped
    BY <1>7 DEF Raise
  <2>5. q \in DOMAIN s BY <2>1 DEF InstrOK
  <2>6. /\ Stays(s, {}, k, q) /\ k < q /\ q \notin d
        /\ q - 1 \in DOMAIN s => s[q - 1].op # "CATCH"
        /\ ~Refused(s, q) /\ (s[k].y # 0 => q <= s[k].y)
    BY <1>1, <2>1, <2>5 DEF PaysDebts, Settles
  <2>7. ASSUME NEW e \in Settled(frame, frame.owed, q) PROVE Spans(s, {}, e, q)
    <3>1. e \in frame.owed /\ s[e].y # q BY DEF Settled
    <3>2. /\ Spans(s, {}, e, p) /\ e <= k /\ k < p BY <1>1, <1>4, <2>1, <3>1
    <3>3. /\ e \in DOMAIN s /\ s[e].op = "TRY_ENTER" /\ e \in Nat /\ s[e].y \in Nat
          /\ s[e].y # 0 /\ p < s[e].y
      BY <1>2, <3>2, InstrTypes DEF Spans
    <3>4. e < q /\ q <= s[e].y
      <4>1. CASE e = k BY <2>6, <3>3, <4>1
      <4>2. CASE e # k
        <5>1. e < k /\ k < s[e].y BY <1>2, <2>3, <3>2, <3>3, <4>2
        <5>2. Spans(s, {}, e, k) BY <3>3, <5>1 DEF Spans
        <5> QED BY <2>6, <3>3, <5>2 DEF Stays
      <4> QED BY <4>1, <4>2
    <3> QED BY <2>3, <3>1, <3>3, <3>4 DEF Spans
  <2>8. hd.depth \in Nat BY <2>2, <2>3
  <2>9. Clean(cut) /\ cut \in Seq(Value) BY <2>8, CleanCut
  <2>10. Clean(stack') /\ Top(stack') = <<"err", t>>
    <3> HIDE DEF cut
    <3> QED BY <2>4, <2>9, CleanAppend DEF Top
  <2>11. Prepared(s, q, stack')
    <3>1. ~Verdict(s, q) BY <2>6 DEF Verdict
    <3>2. Top(stack')[1] = "err" BY <2>10
    <3>3. \A j \in DOMAIN stack' : stack'[j][1] # "notype" BY <2>10 DEF Clean
    <3>4. ~Refused(s, q) BY <2>6
    <3> QED BY ONLY <3>1, <3>2, <3>3, <3>4 DEF Prepared
  <2>12. low \in Seq(Handler) BY <1>2, <1>7, DropOne
  <2>13. ~skipped'
    <3>1. ~skipped /\ skipped' = skipped BY <1>1, <2>4
    <3> QED BY ONLY <3>1
  <2>14. frames' = ReplaceTop(frames, Move(frame, q, low, frame.owed)) BY <2>2, <2>4 DEF GotoWith
  <2> HIDE DEF low
  <2> QED BY <1>2, <1>3, <2>3, <2>6, <2>7, <2>11, <2>12, <2>13, <2>14, DebtMoved
<1> QED BY <1>5, <1>6, <1>7

(* A frame that owes nothing is left.                                      *)
LEMMA LeaveDebts ==
  ASSUME NEW D, VInv, Running, DebtsWith(D), code' = code, frame.owed = {},
         NEW st \in Seq(Value), frame.base < Len(st),
         \A j \in DOMAIN st : j < Len(st) => st[j][1] # "notype",
         Leave(st)
  PROVE  DebtsWith(D)'
<1> DEFINE n == Len(frames)
           below == Drop(frames, 1)
           low == Resize(st, frame.base)
           v == Returned(Top(st))
<1>1. /\ n \in Nat \ {0} /\ DOMAIN frames = 1..n /\ frame = frames[n]
      /\ frames \in Seq(Frame) /\ frames # <<>> /\ frame.base \in Nat
  BY VFrameTypes, TopInSeq DEF frame, Top
<1>2. /\ frames' = below /\ skipped' = (skipped \/ frame.owed # {})
  BY DEF Leave
<1>3. ~skipped'
  <2>1. ~skipped BY DEF DebtsWith
  <2> QED BY <1>2, <2>1
<1>4. /\ below \in Seq(Frame) /\ Len(below) = n - 1
      /\ \A i \in 1..(n - 1) : below[i] = frames[i]
  BY <1>1, DropOne
<1>5. \A f \in Funcs : PaysDebts(code'[f], D[f]) BY DEF DebtsWith
<1>6. CASE below = <<>>
  <2>1. status' = "done" BY <1>6 DEF Leave
  <2> QED BY <1>3, <1>5, <2>1 DEF DebtsWith, Running
<1>7. CASE below # <<>>
  <2>1. stack' = Append(low, v) /\ UNCHANGED status BY <1>7 DEF Leave
  <2>2. v[1] # "notype"
    <3>1. <<"val", 0>>[1] = "val" OBVIOUS
    <3> QED BY <3>1 DEF Returned
  <2>3. low \in Seq(Value) /\ Len(low) = frame.base /\ \A i \in 1..frame.base : low[i] = st[i]
    <3>1. low \in Seq(Value) /\ Len(low) = frame.base BY <1>1, ResizeInSeq
    <3>2. \A i \in 1..frame.base : i <= Len(st) BY <1>1
    <3>3. \A i \in 1..frame.base : low[i] = st[i] BY <1>1, <3>2 DEF Resize
    <3> QED BY <3>1, <3>3
  <2> HIDE DEF low, v
  <2>4. Clean(low)
    <3>1. \A i \in DOMAIN low : i \in 1..frame.base BY <2>3
    <3>2. \A i \in 1..frame.base : i \in DOMAIN st /\ i < Len(st) BY <1>1
    <3> QED BY <2>3, <3>1, <3>2 DEF Clean
  <2>5. Clean(stack') BY <2>1, <2>2, <2>3, <2>4, CleanAppend
  <2> DEFINE g == frames[n - 1]
  <2>6. n - 1 \in 1..n /\ n - 1 # n /\ n - 1 \in 1..(n - 1) /\ Len(below) \in Nat /\ n - 1 \in Nat
    <3> HIDE DEF below
    <3>1. Len(below) \in Nat \ {0} BY <1>4, <1>7
    <3>2. n \in Nat /\ n >= 2 BY <1>1, <1>4, <3>1
    <3>3. \A m \in Nat : m >= 2 => m - 1 \in 1..m /\ m - 1 # m /\ m - 1 \in 1..(m - 1) /\ m - 1 \in Nat
      OBVIOUS
    <3> QED BY <3>1, <3>2, <3>3
  <2>7. frame' = g BY <1>2, <1>4, <2>6 DEF frame, Top
  <2>8. chunkOf(frame)' = code[g.fn] /\ chunkOf(g) = code[g.fn] BY <2>7 DEF chunkOf
  <2>9. Suspended(code[g.fn], D[g.fn], g) BY <1>1, <2>6 DEF DebtsWith
  <2>10. g.ip \in DOMAIN code[g.fn] BY <1>1, <2>6, <2>8 DEF VInv, StackDiscipline
  <2>11. Prepared(code[g.fn], g.ip, stack')
    BY <2>5, <2>9, <2>10, OrdinaryPrepared DEF Suspended, Clean
  <2>12. ASSUME NEW i \in DOMAIN frames', i # Len(frames')
         PROVE  Suspended(code'[frames'[i].fn], D[frames'[i].fn], frames'[i])
    <3>1. i \in 1..(n - 1) /\ i \in 1..n /\ i # n BY <1>1, <1>2, <1>4, <2>12
    <3>2. frames'[i] = frames[i] BY <1>2, <1>4, <3>1
    <3>3. Suspended(code[frames[i].fn], D[frames[i].fn], frames[i])
      BY <1>1, <3>1 DEF DebtsWith
    <3> QED BY <3>2, <3>3
  <2>13. /\ frame'.ip \notin D[frame'.fn]
         /\ \A e \in frame'.owed : Spans(chunkOf(frame)', {}, e, frame'.ip)
         /\ Prepared(chunkOf(frame)', frame'.ip, stack')
    BY <2>7, <2>8, <2>9, <2>11 DEF Suspended
  <2> QED BY <1>3, <1>5, <2>12, <2>13 DEF DebtsWith
<1> QED BY <1>6, <1>7

(* A return is intercepted: the finally block of the innermost try is      *)
(* entered, and was the only one owed.                                     *)
LEMMA EnterDebts ==
  ASSUME NEW D, VInv, Running, DebtsWith(D), code' = code, skipped' = skipped,
         Fetch("RETURN"), Intercepts(frame), EnterFinally, stack' = Drop(stack, 1)
  PROVE  DebtsWith(D)'
<1> DEFINE s == chunkOf(frame)
           p == frame.ip
           d == D[frame.fn]
           hs == s[p].hs
           k == Top(hs)
           hd == Top(frame.handlers)
           q == s[k].y
           up == ReplaceTop(frame.handlers, [hd EXCEPT !.inside = TRUE])
<1>1. /\ PaysDebts(s, d) /\ p \in DOMAIN s /\ ~skipped /\ Pays(s, {}, d, p)
      /\ \A e \in frame.owed : Spans(s, {}, e, p)
      /\ Prepared(s, p, stack)
  BY AtDebt
<1>2. /\ s \in Seq(Instruction) /\ p \in Nat
      /\ frame.handlers \in Seq(Handler) /\ frame.owed \in SUBSET Nat
  BY VFrameTypes
<1>3. instr = s[p] /\ s[p].op = "RETURN" BY DEF instr, Fetch
<1>4. InstrOK(s, p) /\ s[p].h >= 1 /\ s[p].rf = 0 /\ ~isReturning
      /\ Len(stack) = frame.base + s[p].h /\ stack \in Seq(Value)
  <2>1. InstrOK(s, p) BY AtInstr
  <2>2. s[p].h >= 1 /\ s[p].rf = 0 BY <1>3, <2>1 DEF InstrOK
  <2> QED BY <1>3, <2>1, <2>2, AtInstr
<1>5. frame.handlers # <<>> /\ hd.fin # 0 BY DEF Intercepts
<1>6. /\ hs # <<>> /\ k \in DOMAIN s /\ s[k].op = "TRY_ENTER" /\ hd = Installed(s, k, frame.base)
  BY <1>4, <1>5, TopHandler
<1>7. hd.fin = q /\ q # 0 BY <1>5, <1>6 DEF Installed
<1>8. q \in DOMAIN s BY <1>3, <1>4, <1>6, <1>7 DEF InstrOK
<1>9. Ordinary(s, q) /\ q \notin d BY <1>1, <1>6, <1>7 DEF PaysDebts, Settles
<1>10. Settled(frame, frame.owed, q) = {} BY <1>1, <1>3 DEF Pays, Settled
<1>11. up \in Seq(Handler)
  <2>1. hd \in Handler BY <1>2, <1>5, TopInSeq
  <2> DEFINE hd2 == [hd EXCEPT !.inside = TRUE]
  <2>2. hd2 \in Handler BY <2>1 DEF Handler
  <2> HIDE DEF hd2
  <2>3. ReplaceTop(frame.handlers, hd2) \in Seq(Handler) BY <1>2, <1>5, <2>2, ReplaceTopInSeq
  <2> QED BY <2>3 DEF hd2
<1>12. \A j \in DOMAIN stack' : stack'[j][1] # "notype"
  <2>1. stack # <<>> /\ Len(stack) \in Nat
    <3>1. frame.base \in Nat /\ s[p].h \in Nat BY <1>1, <1>2, VFrameTypes, InstrTypes
    <3>2. Len(stack) \in Nat /\ Len(stack) >= 1 BY <1>4, <3>1
    <3> QED BY <3>2
  <2>2. /\ Len(Drop(stack, 1)) = Len(stack) - 1 /\ Drop(stack, 1) \in Seq(Value)
        /\ \A i \in 1..(Len(stack) - 1) : Drop(stack, 1)[i] = stack[i]
    BY <1>4, <2>1, DropOne
  <2>3. \A j \in DOMAIN stack' : j \in 1..(Len(stack) - 1) BY <2>2
  <2>4. \A j \in 1..(Len(stack) - 1) : j \in DOMAIN stack /\ j # Len(stack) BY <1>4, <2>1
  <2>5. \A j \in DOMAIN stack : stack[j][1] # "notype" \/ j = Len(stack) BY <1>1 DEF Prepared
  <2> QED BY <2>2, <2>3, <2>4, <2>5
<1>13. Prepared(s, q, stack') BY <1>8, <1>9, <1>12, OrdinaryPrepared
<1>14. ~skipped'
  <2>1. ~skipped /\ skipped' = skipped BY <1>1
  <2> QED BY ONLY <2>1
<1>15. frames' = ReplaceTop(frames, Move(frame, q, up, frame.owed))
  BY <1>7 DEF EnterFinally, GotoWith
<1>16. q \in Nat BY <1>2, <1>8
<1> HIDE DEF up
<1> QED BY <1>2, <1>9, <1>10, <1>11, <1>13, <1>14, <1>15, <1>16, DebtMoved

(* A function may be begun.                                                *)
LEMMA FirstOrdinary ==
  ASSUME NEW s \in Seq(Instruction), NEW D, PaysDebts(s, D), 1 \in DOMAIN s
  PROVE  1 \notin D /\ Ordinary(s, 1)
<1>1. 0 \notin DOMAIN s /\ 1 - 1 = 0 /\ 1 + 1 = 2 /\ 2 - 1 = 1 /\ 2 - 2 = 0 OBVIOUS
<1>2. Laid(s, D, 1) BY DEF PaysDebts
<1>3. 1 \notin D /\ s[1].op # "CATCH" BY <1>1, <1>2 DEF Laid
<1>4. ~Refused(s, 1)
  <2> SUFFICES ASSUME Refused(s, 1) PROVE FALSE OBVIOUS
  <2>1. 2 \in DOMAIN s /\ s[1].op = "POP" /\ s[2].op = "CATCH" BY <1>1 DEF Refused
  <2>2. Laid(s, D, 2) BY <2>1 DEF PaysDebts
  <2> QED BY <1>1, <2>1, <2>2 DEF Laid
<1> QED BY <1>1, <1>3, <1>4 DEF Ordinary

(* A call of a function: no finally block is owed in the caller.           *)
LEMMA CallDebts ==
  ASSUME NEW D, VInv, DebtsWith(D), Call, Len(stack) <= StackLimit, ~Raise("RecursionError", stack)
  PROVE  DebtsWith(D)'
<1> DEFINE s == chunkOf(frame)
           p == frame.ip
           d == D[frame.fn]
           n == Len(frames)
           g == Move(frame, p + 1, frame.handlers, frame.owed)
           new == NewFrame(instr.x, Len(stack) - 1)
<1>1. /\ Fetch("CALL") /\ stack' = Drop(stack, 1) /\ frames' = Append(ReplaceTop(frames, g), new)
      /\ UNCHANGED <<status, skipped>> /\ code' = code
  BY DEF Call, Unchanging
<1>2. Running /\ instr.op = "CALL" /\ instr = s[p] BY <1>1 DEF Fetch, Running, instr
<1>3. /\ PaysDebts(s, d) /\ p \in DOMAIN s /\ p \notin d /\ ~skipped /\ Pays(s, {}, d, p)
      /\ Clean(stack)
      /\ \A e \in frame.owed : Spans(s, {}, e, p)
  BY <1>2, AtDebt
<1>4. /\ s \in Seq(Instruction) /\ p \in Nat /\ p + 1 \in Nat /\ frame \in Frame
      /\ frame.handlers \in Seq(Handler) /\ frame.owed \in SUBSET Nat /\ frame.fn \in Funcs
      /\ frame.base \in Nat /\ frames \in Seq(Frame) /\ frames # <<>>
  BY <1>2, VFrameTypes
<1>5. /\ s[p].h \in Nat /\ s[p].h >= 1 /\ s[p].x \in Funcs /\ p + 1 \in DOMAIN s
      /\ Len(stack) = frame.base + s[p].h /\ stack \in Seq(Value)
  <2>1. InstrOK(s, p) BY <1>2, AtInstr
  <2>2. s[p].h \in Nat BY <1>3, <1>4, InstrTypes
  <2> QED BY <1>2, <2>1, <2>2, AtInstr DEF InstrOK, Flows
<1>6. frame.owed = {} BY <1>2, <1>3 DEF Pays
<1>7. p + 1 \notin d /\ Ordinary(s, p + 1)
  <2>1. ~Refused(s, p) BY <1>2 DEF Refused
  <2> QED BY <1>2, <1>3, <1>4, <1>5, <2>1, FallsThrough
<1>8. g \in Frame /\ g.ip = p + 1 /\ g.fn = frame.fn /\ g.owed = {}
  <2>1. g \in Frame /\ g.ip = p + 1 /\ g.fn = frame.fn BY <1>4, MoveFrame
  <2>2. g.owed = Settled(frame, frame.owed, p + 1) BY <1>4 DEF Move, Frame
  <2> QED BY <1>6, <2>1, <2>2 DEF Settled
<1>9. Suspended(code[g.fn], D[g.fn], g) BY <1>7, <1>8 DEF Suspended, chunkOf
<1> HIDE DEF g
<1>10. new \in Frame /\ new.fn = s[p].x /\ new.ip = 1 /\ new.owed = {}
  <2>1. Len(stack) - 1 \in Nat BY <1>4, <1>5, SMTT(30)
  <2> QED BY <1>2, <1>5, <2>1 DEF NewFrame, Frame
<1> HIDE DEF new
<1>11. /\ n \in Nat \ {0} /\ DOMAIN frames = 1..n
       /\ Len(frames') = n + 1 /\ frames'[n + 1] = new /\ frames'[n] = g
       /\ \A i \in 1..(n - 1) : frames'[i] = frames[i]
  <2>1. LET r == ReplaceTop(frames, g) IN
        /\ r \in Seq(Frame) /\ Len(r) = n /\ r[n] = g
        /\ \A i \in 1..(n - 1) : r[i] = frames[i]
    BY ONLY <1>4, <1>8, ReplaceTopInSeq
  <2>2. n \in Nat \ {0} /\ DOMAIN frames = 1..n BY <1>4
  <2> DEFINE r == ReplaceTop(frames, g)
  <2>3. r \in Seq(Frame) /\ Len(r) = n /\ frames' = Append(r, new) BY <1>1, <2>1
  <2>4. r[n] = g /\ \A i \in 1..(n - 1) : r[i] = frames[i] BY <2>1
  <2> HIDE DEF r
  <2>5. /\ Len(frames') = Len(r) + 1 /\ frames'[Len(r) + 1] = new
        /\ \A i \in 1..Len(r) : frames'[i] = r[i]
    BY ONLY <1>10, <2>3, AppendInSeq
  <2>6. \A i \in 1..(n - 1) : i \in 1..n BY <2>2
  <2>7. n \in 1..n BY <2>2
  <2> QED BY <2>2, <2>3, <2>4, <2>5, <2>6, <2>7
<1>12. frame' = new /\ chunkOf(frame)' = code[s[p].x]
  <2>1. frame' = new BY <1>11 DEF frame, Top
  <2> QED BY <1>1, <1>10, <2>1 DEF chunkOf
<1>13. ASSUME NEW i \in DOMAIN frames', i # Len(frames')
       PROVE  Suspended(code'[frames'[i].fn], D[frames'[i].fn], frames'[i])
  <2>1. i \in 1..n
    <3>1. frames' \in Seq(Frame) BY <1>1, <1>4, <1>8, <1>10, ReplaceTopInSeq, AppendInSeq
    <3>2. DOMAIN frames' = 1..(n + 1) BY <1>11, <3>1
    <3> QED BY <1>11, <1>13, <3>2
  <2>2. CASE i = n BY <1>1, <1>9, <1>11, <2>2
  <2>3. CASE i # n
    <3>1. i \in 1..(n - 1) BY <1>11, <2>1, <2>3, BelowTop
    <3>2. frames'[i] = frames[i] BY <1>11, <3>1
    <3>3. Suspended(code[frames[i].fn], D[frames[i].fn], frames[i])
      BY <1>2, <1>11, <2>1, <2>3 DEF DebtsWith
    <3> QED BY <1>1, <3>2, <3>3
  <2> QED BY <2>2, <2>3
<1>14. /\ 1 \in DOMAIN code[s[p].x] /\ code[s[p].x] \in Seq(Instruction)
       /\ PaysDebts(code[s[p].x], D[s[p].x])
  BY <1>5 DEF VInv, Verified, ChunkOK, DebtsWith, TypeInv, VMTypeOK, IsProgram
<1>15. 1 \notin D[s[p].x] /\ Ordinary(code[s[p].x], 1) BY <1>14, FirstOrdinary
<1>16. Clean(stack')
  <2>1. 1 \in Nat /\ 1 <= Len(stack) BY <1>4, <1>5
  <2> QED BY <1>1, <1>3, <1>5, <2>1, CleanDrop
<1>17. Prepared(code[s[p].x], 1, stack') BY <1>14, <1>15, <1>16, OrdinaryPrepared DEF Clean
<1>18. ~skipped'
  <2>1. ~skipped /\ skipped' = skipped BY <1>1, <1>3
  <2> QED BY ONLY <2>1
<1>19. \A f \in Funcs : PaysDebts(code'[f], D[f]) BY <1>1 DEF DebtsWith
<1> QED BY <1>10, <1>12, <1>13, <1>15, <1>17, <1>18, <1>19 DEF DebtsWith

(* A try statement is entered: it cannot be owed already.                  *)
LEMMA TryEnterDebts ==
  ASSUME NEW D, VInv, DebtsWith(D), TryEnter
  PROVE  DebtsWith(D)'
<1> DEFINE s == chunkOf(frame)
           p == frame.ip
           d == D[frame.fn]
           hd == [enter |-> p, depth |-> Len(stack), catch |-> instr.x,
                  fin |-> instr.y, inside |-> FALSE]
           owed == IF instr.y = 0 THEN frame.owed ELSE frame.owed \cup {p}
           up == Append(frame.handlers, hd)
<1>1. /\ Fetch("TRY_ENTER")
      /\ frames' = ReplaceTop(frames, Move(frame, p + 1, up, owed))
      /\ skipped' = (skipped \/ p \in frame.owed) /\ stack' = stack /\ code' = code
  BY DEF TryEnter, Unchanging
<1>2. Running /\ instr.op = "TRY_ENTER" /\ instr = s[p] BY <1>1 DEF Fetch, Running, instr
<1>3. /\ PaysDebts(s, d) /\ p \in DOMAIN s /\ p \notin d /\ ~skipped
      /\ Settles(s, {}, d, p) /\ Clean(stack)
      /\ \A e \in frame.owed : Spans(s, {}, e, p)
  BY <1>2, AtDebt
<1>4. /\ s \in Seq(Instruction) /\ p \in Nat /\ p + 1 \in Nat
      /\ frame.handlers \in Seq(Handler) /\ frame.owed \in SUBSET Nat
      /\ instr.x \in Nat /\ instr.y \in Nat
  BY <1>2, <1>3, VFrameTypes, InstrTypes
<1>5. p + 1 \in DOMAIN s
  <2>1. InstrOK(s, p) BY <1>2, AtInstr
  <2> QED BY <1>2, <2>1 DEF InstrOK
<1>6. p + 1 \notin d /\ Ordinary(s, p + 1)
  <2>1. ~Refused(s, p) BY <1>2 DEF Refused
  <2> QED BY <1>2, <1>3, <1>4, <1>5, <2>1, FallsThrough
<1>7. p \notin frame.owed
  <2> SUFFICES ASSUME p \in frame.owed PROVE FALSE OBVIOUS
  <2>1. p < p BY <1>3 DEF Spans
  <2> QED BY <1>4, <2>1
<1>8. ~skipped' BY <1>1, <1>3, <1>7
<1>9. \A e \in Settled(frame, owed, p + 1) : Spans(s, {}, e, p + 1)
  <2>1. Stays(s, {}, p, p + 1) BY <1>4, NextStays
  <2>2. \A e \in Settled(frame, frame.owed, p + 1) : Spans(s, {}, e, p + 1)
    BY <1>3, <1>4, <2>1, SettledStays
  <2>3. ASSUME p \in Settled(frame, owed, p + 1), instr.y # 0 PROVE Spans(s, {}, p, p + 1)
    <3>1. s[p].y # p + 1 /\ s[p].y # 0 BY <1>2, <2>3 DEF Settled
    <3>2. p < s[p].x /\ s[p].x <= s[p].y BY <1>2, <1>3, <3>1 DEF Settles
    <3>3. p < p + 1 /\ p + 1 < s[p].y BY <1>2, <1>4, <3>1, <3>2
    <3> QED BY <1>2, <1>3, <3>1, <3>3 DEF Spans
  <2>4. \A e \in Settled(frame, owed, p + 1) :
          e \in Settled(frame, frame.owed, p + 1) \/ (e = p /\ instr.y # 0)
    BY DEF Settled
  <2> QED BY <2>2, <2>3, <2>4
<1>10. Prepared(s, p + 1, stack') BY <1>1, <1>3, <1>5, <1>6, OrdinaryPrepared DEF Clean
<1>11. up \in Seq(Handler) /\ owed \in SUBSET Nat
  <2>1. hd \in Handler
    <3>1. Len(stack) \in Nat BY DEF VInv, TypeInv, VMTypeOK
    <3> QED BY <1>4, <3>1 DEF Handler
  <2> HIDE DEF hd
  <2> QED BY <1>4, <2>1
<1> HIDE DEF up, owed
<1> QED BY <1>1, <1>2, <1>4, <1>6, <1>8, <1>9, <1>10, <1>11, DebtMoved

(* What every instruction of the machine's step starts from.               *)
LEMMA FetchDebt ==
  ASSUME NEW D, VInv, DebtsWith(D), NEW op, Fetch(op)
  PROVE  LET s == chunkOf(frame)  p == frame.ip  d == D[frame.fn] IN
         /\ Running /\ instr = s[p] /\ s[p].op = op
         /\ PaysDebts(s, d) /\ p \in DOMAIN s /\ p \notin d /\ ~skipped
         /\ Laid(s, d, p) /\ Pays(s, {}, d, p) /\ Settles(s, {}, d, p)
         /\ Prepared(s, p, stack)
         /\ \A e \in frame.owed : Spans(s, {}, e, p)
         /\ op # "RETURN" => Clean(stack)
         /\ s \in Seq(Instruction) /\ p \in Nat /\ p + 1 \in Nat
         /\ frame.handlers \in Seq(Handler) /\ frame.owed \in SUBSET Nat
         /\ InstrOK(s, p) /\ frame.base \in Nat /\ s[p].h \in Nat /\ s[p].x \in Nat /\ s[p].y \in Nat
         /\ Len(stack) = frame.base + s[p].h /\ stack \in Seq(Value)
<1>1. Running /\ instr.op = op /\ instr = chunkOf(frame)[frame.ip] BY DEF Fetch, Running, instr
<1>2. frame.ip \in DOMAIN chunkOf(frame) BY <1>1, AtDebt
<1>3. chunkOf(frame) \in Seq(Instruction) /\ frame.ip \in Nat BY <1>1, VFrameTypes
<1>4. /\ chunkOf(frame)[frame.ip].h \in Nat /\ chunkOf(frame)[frame.ip].x \in Nat
      /\ chunkOf(frame)[frame.ip].y \in Nat
  BY <1>2, <1>3, InstrTypes
<1>5. frame.ip + 1 \in Nat BY <1>3
<1>6. /\ InstrOK(chunkOf(frame), frame.ip)
      /\ Len(stack) = frame.base + chunkOf(frame)[frame.ip].h /\ stack \in Seq(Value)
  BY <1>1, AtInstr
<1>7. chunkOf(frame)[frame.ip].op = op BY <1>1
<1>8. op # "RETURN" => Clean(stack) BY <1>1, <1>7, AtDebt
<1> QED BY <1>1, <1>2, <1>3, <1>4, <1>5, <1>6, <1>7, <1>8, AtDebt, VFrameTypes

(* The jump over the body of a catch clause that refuses the error lands   *)
(* on the code that drops the verdict; other conditions are ordinary.      *)
LEMMA JumpIfFalseDebts ==
  ASSUME NEW D, VInv, DebtsWith(D), JumpIfFalse
  PROVE  DebtsWith(D)'
<1> DEFINE s == chunkOf(frame)
           p == frame.ip
           d == D[frame.fn]
           q == s[p].x
<1>1. /\ Fetch("JUMP_IF_FALSE") /\ stack' = stack /\ code' = code /\ skipped' = skipped
      /\ \/ Goto(p + 1)
         \/ Top(stack) # <<"bool", TRUE>> /\ Goto(instr.x)
  BY DEF JumpIfFalse, Unchanging
<1>2. /\ Running /\ instr = s[p] /\ s[p].op = "JUMP_IF_FALSE"
      /\ PaysDebts(s, d) /\ p \in DOMAIN s /\ p \notin d /\ ~skipped /\ Settles(s, {}, d, p)
      /\ Prepared(s, p, stack) /\ Clean(stack)
      /\ \A e \in frame.owed : Spans(s, {}, e, p)
      /\ s \in Seq(Instruction) /\ p \in Nat /\ p + 1 \in Nat /\ InstrOK(s, p) /\ q \in Nat
      /\ frame.handlers \in Seq(Handler) /\ frame.owed \in SUBSET Nat
  BY <1>1, FetchDebt
<1>3. p + 1 \in DOMAIN s /\ q \in DOMAIN s BY <1>2 DEF InstrOK, Flows
<1>4. CASE Goto(p + 1)
  <2>1. ~Refused(s, p) BY <1>2 DEF Refused
  <2> QED BY <1>1, <1>2, <1>3, <1>4, <2>1, OnwardDebts
<1>5. CASE Goto(instr.x) /\ ~Verdict(s, p)
  <2>1. instr.op \in Branches BY <1>2 DEF Branches
  <2> QED BY <1>1, <1>2, <1>3, <1>5, <2>1, BranchDebts
<1>6. CASE Goto(instr.x) /\ Verdict(s, p) /\ Top(stack) # <<"bool", TRUE>>
  <2>1. ErrorBelow(stack) /\ ~Sure(s, p) BY <1>2, <1>6 DEF Prepared
  <2>2. /\ Stays(s, {}, p, q) /\ s[q].op = "POP" /\ q \notin d
        /\ q - 1 \in DOMAIN s => s[q - 1].op # "CATCH"
    <3>1. s[p].op \in Branches BY <1>2 DEF Branches
    <3> QED BY <1>2, <1>3, <1>6, <2>1, <3>1 DEF Settles
  <2>3. Prepared(s, q, stack')
    <3>1. s[q].op # "CATCH" /\ ~Verdict(s, q) /\ ~Sure(s, q) BY <2>2 DEF Verdict, Sure
    <3>2. \A j \in DOMAIN stack' : stack'[j][1] # "notype" BY <1>1, <1>2 DEF Clean
    <3>3. ErrorBelow(stack') BY <1>1, <2>1
    <3> QED BY ONLY <3>1, <3>2, <3>3 DEF Prepared
  <2>4. \A e \in Settled(frame, frame.owed, q) : Spans(s, {}, e, q)
    BY <1>2, <2>2, SettledStays
  <2>5. ~skipped'
    <3>1. ~skipped /\ skipped' = skipped BY <1>1, <1>2
    <3> QED BY ONLY <3>1
  <2>6. frames' = ReplaceTop(frames, Move(frame, q, frame.handlers, frame.owed))
    BY <1>2, <1>6 DEF Goto, GotoWith
  <2> QED BY <1>1, <1>2, <2>2, <2>3, <2>4, <2>5, <2>6, DebtMoved
<1> QED BY <1>1, <1>4, <1>5, <1>6

(* The verdict on an error; a clause for every error accepts it.           *)
LEMMA CatchDebts ==
  ASSUME NEW D, VInv, DebtsWith(D), Catch
  PROVE  DebtsWith(D)'
<1> DEFINE s == chunkOf(frame)
           p == frame.ip
           d == D[frame.fn]
           v == <<"bool", Matches(Top(stack), instr.ty)>>
<1>1. /\ Fetch("CATCH") /\ stack' = Append(stack, v) /\ Goto(p + 1)
      /\ code' = code /\ skipped' = skipped
  BY DEF Catch, Pushes, Unchanging
<1>2. /\ Running /\ instr = s[p] /\ s[p].op = "CATCH"
      /\ PaysDebts(s, d) /\ p \in DOMAIN s /\ p \notin d /\ ~skipped /\ Laid(s, d, p)
      /\ Prepared(s, p, stack) /\ Clean(stack)
      /\ \A e \in frame.owed : Spans(s, {}, e, p)
      /\ s \in Seq(Instruction) /\ p \in Nat /\ p + 1 \in Nat /\ InstrOK(s, p)
      /\ frame.handlers \in Seq(Handler) /\ frame.owed \in SUBSET Nat
      /\ Len(stack) = frame.base + s[p].h /\ stack \in Seq(Value)
      /\ frame.base \in Nat /\ s[p].h \in Nat
  BY <1>1, FetchDebt
<1>3. p + 1 \in DOMAIN s /\ s[p].h >= 1 BY <1>2 DEF InstrOK, Flows
<1>4. (p + 1) - 1 = p /\ (p + 1) + 1 = p + 2 BY <1>2
<1>5. s[p + 1].op = "JUMP_IF_FALSE" BY <1>2, <1>3 DEF Laid
<1>6. p + 1 \notin d
  <2>1. Laid(s, d, p + 1) BY <1>2, <1>3 DEF PaysDebts
  <2> QED BY <1>2, <1>4, <2>1 DEF Laid
<1>7. \A e \in Settled(frame, frame.owed, p + 1) : Spans(s, {}, e, p + 1)
  <2>1. Stays(s, {}, p, p + 1) BY <1>2, NextStays
  <2> QED BY <1>2, <2>1, SettledStays
<1>8. /\ Len(stack) \in Nat \ {0} /\ Len(stack') = Len(stack) + 1
      /\ stack'[Len(stack)] = Top(stack) /\ Top(stack') = v
  <2>1. Len(stack) \in Nat /\ Len(stack) >= 1 BY <1>2, <1>3
  <2> HIDE DEF v
  <2>2. Len(stack') = Len(stack) + 1 /\ stack'[Len(stack) + 1] = v
        /\ stack'[Len(stack)] = stack[Len(stack)]
    BY <1>1, <1>2, <2>1
  <2> QED BY <2>1, <2>2 DEF Top
<1>9. ErrorBelow(stack')
  <2>1. Top(stack)[1] = "err" BY <1>2 DEF Prepared
  <2>2. Len(stack') >= 2 /\ Len(stack') - 1 = Len(stack) BY <1>8
  <2> QED BY <1>8, <2>1, <2>2 DEF ErrorBelow
<1>10. Sure(s, p + 1) => Top(stack') = <<"bool", TRUE>>
  <2> SUFFICES ASSUME Sure(s, p + 1) PROVE v = <<"bool", TRUE>> BY <1>8
  <2>1. "Error" \in instr.ty BY <1>2, <1>4 DEF Sure
  <2>2. Top(stack)[1] = "err" BY <1>2 DEF Prepared
  <2>3. Matches(Top(stack), instr.ty) = TRUE BY <2>1, <2>2 DEF Matches
  <2> QED BY <2>3
<1>11. Clean(stack')
  <2>1. v[1] = "bool" OBVIOUS
  <2> HIDE DEF v
  <2>2. v[1] # "notype" BY <2>1
  <2> QED BY <1>1, <1>2, <2>2, CleanAppend
<1>12. Prepared(s, p + 1, stack')
  <2>1. s[p + 1].op # "CATCH" /\ ~Refused(s, p + 1) BY <1>5 DEF Refused
  <2>2. \A j \in DOMAIN stack' : stack'[j][1] # "notype" BY <1>11 DEF Clean
  <2> QED BY ONLY <1>9, <1>10, <2>1, <2>2 DEF Prepared
<1>13. ~skipped'
  <2>1. ~skipped /\ skipped' = skipped BY <1>1, <1>2
  <2> QED BY ONLY <2>1
<1>14. frames' = ReplaceTop(frames, Move(frame, p + 1, frame.handlers, frame.owed))
  BY <1>1 DEF Goto, GotoWith
<1> QED BY <1>1, <1>2, <1>6, <1>7, <1>12, <1>13, <1>14, DebtMoved

(* Dropping the verdict leaves the error on top for the next clause.       *)
LEMMA PopDebts ==
  ASSUME NEW D, VInv, DebtsWith(D), Pop
  PROVE  DebtsWith(D)'
<1> DEFINE s == chunkOf(frame)
           p == frame.ip
           d == D[frame.fn]
<1>1. /\ Fetch("POP") /\ Goto(p + 1) /\ code' = code /\ skipped' = skipped
      /\ stack' = IF stack = <<>> THEN stack ELSE Drop(stack, 1)
  BY DEF Pop, Unchanging
<1>2. /\ Running /\ instr = s[p] /\ s[p].op = "POP"
      /\ PaysDebts(s, d) /\ p \in DOMAIN s /\ p \notin d /\ ~skipped
      /\ Prepared(s, p, stack) /\ Clean(stack)
      /\ \A e \in frame.owed : Spans(s, {}, e, p)
      /\ s \in Seq(Instruction) /\ p \in Nat /\ p + 1 \in Nat /\ InstrOK(s, p)
      /\ frame.handlers \in Seq(Handler) /\ frame.owed \in SUBSET Nat
      /\ Len(stack) = frame.base + s[p].h /\ stack \in Seq(Value)
      /\ frame.base \in Nat /\ s[p].h \in Nat
  BY <1>1, FetchDebt
<1>3. p + 1 \in DOMAIN s /\ s[p].h >= 1 BY <1>2 DEF InstrOK, Flows
<1>4. Len(stack) \in Nat \ {0} /\ 1 \in Nat /\ 1 <= Len(stack) /\ stack # <<>> BY <1>2, <1>3
<1>5. stack' = Drop(stack, 1) BY <1>1, <1>4
<1>6. Clean(stack') BY <1>2, <1>4, <1>5, CleanDrop
<1>7. CASE ~Refused(s, p) BY <1>1, <1>2, <1>3, <1>6, <1>7, OnwardDebts
<1>8. CASE Refused(s, p)
  <2>1. (p + 1) - 1 = p /\ (p + 1) + 1 = p + 2 BY <1>2
  <2>2. s[p + 1].op = "CATCH" BY <1>8 DEF Refused
  <2>3. p + 1 \notin d
    <3>1. Laid(s, d, p + 1) BY <1>2, <1>3 DEF PaysDebts
    <3> QED BY <1>2, <2>1, <3>1 DEF Laid
  <2>4. \A e \in Settled(frame, frame.owed, p + 1) : Spans(s, {}, e, p + 1)
    <3>1. Stays(s, {}, p, p + 1) BY <1>2, NextStays
    <3> QED BY <1>2, <3>1, SettledStays
  <2>5. Top(stack')[1] = "err"
    <3>1. Len(stack) >= 2 /\ stack[Len(stack) - 1][1] = "err"
      BY <1>2, <1>8 DEF Prepared, ErrorBelow
    <3>2. Len(stack') = Len(stack) - 1 /\ \A i \in 1..(Len(stack) - 1) : stack'[i] = stack[i]
      BY <1>2, <1>4, <1>5, DropOne
    <3>3. Len(stack) - 1 \in 1..(Len(stack) - 1) BY <1>4, <3>1
    <3>4. stack'[Len(stack')] = stack[Len(stack) - 1] BY <3>2, <3>3
    <3> QED BY <3>1, <3>4 DEF Top
  <2>6. Prepared(s, p + 1, stack')
    <3>1. ~Refused(s, p + 1) /\ ~Verdict(s, p + 1) BY <2>2 DEF Refused, Verdict
    <3>2. \A j \in DOMAIN stack' : stack'[j][1] # "notype" BY <1>6 DEF Clean
    <3> QED BY ONLY <2>5, <3>1, <3>2 DEF Prepared
  <2>7. ~skipped'
    <3>1. ~skipped /\ skipped' = skipped BY <1>1, <1>2
    <3> QED BY ONLY <3>1
  <2>8. frames' = ReplaceTop(frames, Move(frame, p + 1, frame.handlers, frame.owed))
    BY <1>1 DEF Goto, GotoWith
  <2> QED BY <1>1, <1>2, <2>3, <2>4, <2>6, <2>7, <2>8, DebtMoved
<1> QED BY <1>7, <1>8

(* The NoType that a function which reaches its end returns.               *)
LEMMA NoTypeDebts ==
  ASSUME NEW D, VInv, DebtsWith(D), NoType
  PROVE  DebtsWith(D)'
<1> DEFINE s == chunkOf(frame)
           p == frame.ip
           d == D[frame.fn]
           v == <<"notype", frame.ip>>
<1>1. /\ Fetch("NOTYPE") /\ Goto(p + 1) /\ code' = code /\ skipped' = skipped
      /\ stack' = Append(stack, v)
  BY DEF NoType, Pushes, Unchanging
<1>2. /\ Running /\ instr = s[p] /\ s[p].op = "NOTYPE"
      /\ PaysDebts(s, d) /\ p \in DOMAIN s /\ p \notin d /\ ~skipped
      /\ Clean(stack)
      /\ \A e \in frame.owed : Spans(s, {}, e, p)
      /\ s \in Seq(Instruction) /\ p \in Nat /\ p + 1 \in Nat /\ stack \in Seq(Value)
      /\ frame.handlers \in Seq(Handler) /\ frame.owed \in SUBSET Nat
  BY <1>1, FetchDebt
<1>3. p + 1 \in DOMAIN s /\ s[p + 1].op = "RETURN" /\ s[p + 1].hs = <<>>
  BY <1>2 DEF PaysDebts
<1>4. p + 1 \notin d /\ Ordinary(s, p + 1)
  <2>1. ~Refused(s, p) BY <1>2 DEF Refused
  <2> QED BY <1>2, <1>3, <2>1, FallsThrough
<1>5. \A e \in Settled(frame, frame.owed, p + 1) : Spans(s, {}, e, p + 1)
  <2>1. Stays(s, {}, p, p + 1) BY <1>2, NextStays
  <2> QED BY <1>2, <2>1, SettledStays
<1>6. \A j \in DOMAIN stack' : stack'[j][1] # "notype" \/ j = Len(stack')
  <2>1. /\ DOMAIN stack' = 1..(Len(stack) + 1) /\ Len(stack') = Len(stack) + 1 /\ Len(stack) \in Nat
        /\ \A j \in 1..Len(stack) : stack'[j] = stack[j] /\ j \in DOMAIN stack
    BY <1>1, <1>2
  <2>2. \A j \in 1..(Len(stack) + 1) : j \in 1..Len(stack) \/ j = Len(stack) + 1 BY <2>1
  <2> QED BY <1>2, <2>1, <2>2 DEF Clean
<1>7. Prepared(s, p + 1, stack') BY <1>3, <1>4, <1>6, OrdinaryPrepared
<1>8. ~skipped'
  <2>1. ~skipped /\ skipped' = skipped BY <1>1, <1>2
  <2> QED BY ONLY <2>1
<1>9. frames' = ReplaceTop(frames, Move(frame, p + 1, frame.handlers, frame.owed))
  BY <1>1 DEF Goto, GotoWith
<1> QED BY <1>1, <1>2, <1>4, <1>5, <1>7, <1>8, <1>9, DebtMoved

(* A return that is not intercepted leaves a frame that owes nothing: what *)
(* it owed would have a handler, and that one would intercept it.          *)
LEMMA ReturnDebts ==
  ASSUME NEW D, VInv, DebtsWith(D), Return
  PROVE  DebtsWith(D)'
<1> DEFINE s == chunkOf(frame)
           p == frame.ip
           d == D[frame.fn]
           hs == s[p].hs
           k == Top(hs)
<1>1. Fetch("RETURN") /\ code' = code BY DEF Return
<1>2. /\ Running /\ instr = s[p] /\ s[p].op = "RETURN" /\ p \in DOMAIN s
      /\ Pays(s, {}, d, p) /\ Prepared(s, p, stack)
      /\ \A e \in frame.owed : Spans(s, {}, e, p)
      /\ s \in Seq(Instruction) /\ InstrOK(s, p)
      /\ Len(stack) = frame.base + s[p].h /\ stack \in Seq(Value)
      /\ frame.base \in Nat /\ s[p].h \in Nat /\ frame.handlers \in Seq(Handler)
  BY <1>1, FetchDebt
<1>3. s[p].h >= 1 /\ s[p].rf = 0 /\ ~isReturning
  <2>1. s[p].h >= 1 /\ s[p].rf = 0 BY <1>2 DEF InstrOK
  <2> QED BY <1>2, <2>1, AtInstr
<1>4. CASE Intercepts(frame)
  <2>1. EnterFinally /\ stack' = Drop(stack, 1) /\ skipped' = skipped BY <1>4 DEF Return
  <2> QED BY <1>1, <1>2, <1>4, <2>1, EnterDebts
<1>5. CASE ~Intercepts(frame)
  <2>1. Leave(stack) BY <1>5 DEF Return
  <2>2. frame.owed = {}
    <3> SUFFICES ASSUME NEW e \in frame.owed PROVE FALSE OBVIOUS
    <3>1. Spans(s, {}, e, p) /\ hs # <<>> /\ e = k BY <1>2 DEF Pays
    <3>2. s[k].y # 0 BY <3>1 DEF Spans
    <3>3. Agree(s, p, frame.base, frame.handlers) BY <1>2, <1>3, AtInstr
    <3>4. hs \in Seq(Nat) BY <1>2, InstrTypes
    <3>5. frame.handlers # <<>>
      <4>1. Len(frame.handlers) = Len(hs) BY <3>3 DEF Agree
      <4> QED BY <1>2, <3>1, <3>4, <4>1
    <3>6. Top(frame.handlers) = Installed(s, k, frame.base) BY <1>2, <1>3, <3>5, TopHandler
    <3>7. Top(frame.handlers).fin # 0 /\ ~Top(frame.handlers).inside
      BY <3>2, <3>6 DEF Installed
    <3> QED BY <1>5, <3>5, <3>7 DEF Intercepts
  <2>3. frame.base < Len(stack) BY <1>2, <1>3
  <2>4. \A j \in DOMAIN stack : j < Len(stack) => stack[j][1] # "notype"
    <3>1. \A j \in DOMAIN stack : stack[j][1] # "notype" \/ j = Len(stack)
      BY <1>2 DEF Prepared
    <3> QED BY <1>2, <3>1
  <2> QED BY <1>1, <1>2, <2>1, <2>2, <2>3, <2>4, LeaveDebts
<1> QED BY <1>4, <1>5

(* A finally block that a return has entered leaves a frame that owes      *)
(* nothing else.                                                           *)
LEMMA EndFinallyDebts ==
  ASSUME NEW D, VInv, DebtsWith(D), EndFinally
  PROVE  DebtsWith(D)'
<1> DEFINE s == chunkOf(frame)
           p == frame.ip
           d == D[frame.fn]
<1>1. Fetch("END_FINALLY") /\ code' = code BY DEF EndFinally
<1>2. /\ Running /\ instr = s[p] /\ s[p].op = "END_FINALLY" /\ p \in DOMAIN s
      /\ Pays(s, {}, d, p) /\ Clean(stack)
      /\ \A e \in frame.owed : Spans(s, {}, e, p)
      /\ s \in Seq(Instruction) /\ InstrOK(s, p) /\ p \in Nat
      /\ Len(stack) = frame.base + s[p].h /\ stack \in Seq(Value)
      /\ frame.base \in Nat /\ s[p].h \in Nat
  BY <1>1, FetchDebt
<1>3. CASE ~isReturning
  <2>1. Goto(p + 1) /\ stack' = stack /\ skipped' = skipped BY <1>3 DEF EndFinally
  <2>2. ~Refused(s, p) /\ p + 1 \in DOMAIN s BY <1>2 DEF Refused, InstrOK
  <2>3. Clean(stack') BY <1>2, <2>1
  <2> QED BY <1>1, <1>2, <2>1, <2>2, <2>3, OnwardDebts
<1>4. CASE isReturning
  <2>1. Returning(s, frame) BY <1>2, <1>4, AtInstr
  <2>2. s[p].rf # 0 /\ ~Intercepts(frame) BY <2>1 DEF Returning, Intercepts
  <2>3. frame.owed = {} BY <1>2, <2>2 DEF Pays
  <2> DEFINE st == Append(stack, pendingReturn)
  <2>4. Leave(st) BY <1>4, <2>2 DEF EndFinally
  <2>5. pendingReturn \in Value BY DEF VInv, TypeInv, VMTypeOK
  <2>6. /\ st \in Seq(Value) /\ Len(st) = Len(stack) + 1 /\ Len(stack) \in Nat
        /\ \A j \in 1..Len(stack) : st[j] = stack[j] /\ j \in DOMAIN stack
    BY <1>2, <2>5
  <2> HIDE DEF st
  <2>7. frame.base < Len(st) BY <1>2, <2>6
  <2>8. \A j \in DOMAIN st : j < Len(st) => st[j][1] # "notype"
    <3>1. \A j \in DOMAIN st : j < Len(st) => j \in 1..Len(stack) BY <2>6
    <3> QED BY <1>2, <2>6, <3>1 DEF Clean
  <2> QED BY <1>1, <1>2, <2>3, <2>4, <2>6, <2>7, <2>8, LeaveDebts
<1> QED BY <1>3, <1>4

(* The run begins in the main function.                                    *)
LEMMA BeginDebts ==
  ASSUME NEW D, NEW program, IsProgram(program), Verified(program),
         \A f \in Funcs : PaysDebts(program[f], D[f]),
         frames = <<>>, stack = <<>>, ~skipped, BeginRunOf(program)
  PROVE  DebtsWith(D)'
<1> DEFINE new == NewFrame(Main, Len(stack))
           s == program[Main]
<1>1. /\ code' = program /\ frames' = Append(frames, new) /\ stack' = <<>> /\ skipped' = skipped
  BY DEF BeginRunOf
<1>2. new.fn = Main /\ new.ip = 1 /\ new.owed = {} BY DEF NewFrame
<1> HIDE DEF new
<1>3. frames' = <<new>> BY <1>1
<1>4. frame' = new /\ Len(frames') = 1 /\ DOMAIN frames' = {1} BY <1>3 DEF frame, Top
<1>5. Main \in Funcs BY FuncsAssumption
<1>6. s \in Seq(Instruction) /\ 1 \in DOMAIN s /\ PaysDebts(s, D[Main])
  BY <1>5 DEF IsProgram, Verified, ChunkOK
<1>7. 1 \notin D[Main] /\ Ordinary(s, 1) BY <1>6, FirstOrdinary
<1>8. Prepared(s, 1, stack') BY <1>1, <1>6, <1>7, OrdinaryPrepared
<1>9. chunkOf(frame)' = s BY <1>1, <1>2, <1>4 DEF chunkOf
<1>10. ~skipped'
  <2>1. ~skipped /\ skipped' = skipped BY <1>1
  <2> QED BY ONLY <2>1
<1>11. \A f \in Funcs : PaysDebts(code'[f], D[f]) BY <1>1
<1>12. \A i \in DOMAIN frames' : i = Len(frames') BY <1>4
<1> QED BY <1>2, <1>4, <1>7, <1>8, <1>9, <1>10, <1>11, <1>12 DEF DebtsWith

(* Reading a local never aborts.                                           *)
LEMMA SlotClean ==
  ASSUME NEW D, VInv, DebtsWith(D), NEW op \in {"GET_LOCAL", "SET_LOCAL", "JUMP_IF_NOT_LT"}, Fetch(op)
  PROVE  Slot \in DOMAIN stack /\ stack[Slot][1] # "notype" /\ stack # <<>>
<1>1. /\ Clean(stack) /\ stack \in Seq(Value) /\ frame.base \in Nat /\ instr.y \in Nat
      /\ instr.op = op
  BY FetchDebt
<1>2. frame.base + instr.y < Len(stack) BY <1>1 DEF Fetch, Defined
<1>3. Slot \in DOMAIN stack BY <1>1, <1>2 DEF Slot
<1> QED BY <1>1, <1>3 DEF Clean

LEMMA SetLocalDebts ==
  ASSUME NEW D, VInv, DebtsWith(D), SetLocal
  PROVE  DebtsWith(D)'
<1> DEFINE s == chunkOf(frame)
           p == frame.ip
           v == <<IF Top(stack)[1] = "notype" THEN "notype" ELSE "val", instr.x>>
<1>1. /\ Fetch("SET_LOCAL") /\ Goto(p + 1) /\ code' = code /\ skipped' = skipped
      /\ stack' = [stack EXCEPT ![Slot] = v]
  BY DEF SetLocal, Unchanging
<1>2. /\ Running /\ instr = s[p] /\ s[p].op = "SET_LOCAL" /\ Clean(stack) /\ InstrOK(s, p)
      /\ stack \in Seq(Value)
  BY <1>1, FetchDebt
<1>3. Slot \in DOMAIN stack /\ stack # <<>> BY <1>1, SlotClean
<1>4. v[1] # "notype"
  <2>1. Len(stack) \in DOMAIN stack BY <1>2, <1>3
  <2> QED BY <1>2, <2>1 DEF Clean, Top
<1> HIDE DEF v
<1>5. Clean(stack')
  <2>1. DOMAIN stack' = DOMAIN stack /\ \A j \in DOMAIN stack : stack'[j] = v \/ stack'[j] = stack[j]
    BY <1>1
  <2> QED BY <1>2, <1>4, <2>1 DEF Clean
<1>6. p + 1 \in DOMAIN s /\ ~Refused(s, p) BY <1>2 DEF InstrOK, Flows, Refused
<1> QED BY <1>1, <1>2, <1>5, <1>6, OnwardDebts

LEMMA ForIterDebts ==
  ASSUME NEW D, VInv, DebtsWith(D), ForIter
  PROVE  DebtsWith(D)'
<1> DEFINE s == chunkOf(frame)
           p == frame.ip
           v == <<"val", frame.ip>>
           pushed == [k \in 1..instr.y |-> v]
<1>1. Fetch("FOR_ITER") /\ Unchanging /\ code' = code BY DEF ForIter, Unchanging
<1>2. /\ Running /\ instr = s[p] /\ s[p].op = "FOR_ITER" /\ Clean(stack) /\ InstrOK(s, p)
      /\ stack \in Seq(Value) /\ s[p].y \in Nat /\ s[p].x \in Nat
  BY <1>1, FetchDebt
<1>3. /\ p + 1 \in DOMAIN s /\ s[p].x \in DOMAIN s /\ s[p].rf = 0
      /\ ~Refused(s, p) /\ ~Verdict(s, p) /\ instr.op \in Branches /\ instr.op \in Fallible
  BY <1>2 DEF InstrOK, Flows, Raises, Refused, Verdict, Branches, Fallible
<1>4. ~isReturning BY <1>2, <1>3, AtInstr
<1>5. CASE stack' = stack \o pushed /\ Goto(p + 1) /\ skipped' = skipped
  <2>1. v[1] # "notype" OBVIOUS
  <2> HIDE DEF v
  <2>2. /\ Len(pushed) = instr.y /\ pushed \in Seq({v}) /\ instr.y \in Nat
        /\ \A k \in 1..instr.y : pushed[k] = v
    BY ONLY <1>2
  <2> HIDE DEF pushed
  <2>3. DOMAIN stack' = 1..(Len(stack) + instr.y) /\ Len(stack) \in Nat
    BY <1>2, <1>5, <2>2
  <2>4. ASSUME NEW j \in DOMAIN stack' PROVE stack'[j][1] # "notype"
    <3>1. CASE j <= Len(stack)
      <4>1. stack'[j] = stack[j] /\ j \in DOMAIN stack BY <1>2, <1>5, <2>2, <2>3, <3>1
      <4> QED BY <1>2, <4>1 DEF Clean
    <3>2. CASE j > Len(stack)
      <4>1. j - Len(stack) \in 1..instr.y BY <2>2, <2>3, <3>2
      <4>2. stack'[j] = pushed[j - Len(stack)] BY <1>2, <1>5, <2>2, <2>3, <3>2
      <4> QED BY <2>1, <2>2, <4>1, <4>2
    <3> QED BY <2>3, <3>1, <3>2
  <2>5. Clean(stack') BY <2>4 DEF Clean
  <2>6. instr.op \notin {"JUMP", "CATCH"} BY <1>2
  <2> QED BY <1>1, <1>2, <1>3, <1>5, <2>5, <2>6, OnwardDebts
<1>6. CASE Goto(instr.x) /\ stack' = stack /\ skipped' = skipped
  <2>1. Clean(stack') BY <1>2, <1>6
  <2> QED BY <1>1, <1>2, <1>3, <1>6, <2>1, BranchDebts
<1>7. CASE Raise("TypeError", stack)
  <2>1. "TypeError" \in ErrTypes /\ "TypeError" \notin Warnings BY ErrTypesAssumption
  <2> QED BY <1>1, <1>2, <1>3, <1>4, <1>7, <2>1, RaiseDebts
<1> QED BY <1>5, <1>6, <1>7 DEF ForIter

LEMMA TryExitDebts ==
  ASSUME NEW D, VInv, DebtsWith(D), TryExit
  PROVE  DebtsWith(D)'
<1> DEFINE s == chunkOf(frame)
           p == frame.ip
           low == IF frame.handlers = <<>> THEN <<>> ELSE Drop(frame.handlers, 1)
<1>1. /\ Fetch("TRY_EXIT") /\ GotoWith(p + 1, low) /\ code' = code /\ skipped' = skipped
      /\ stack' = stack
  BY DEF TryExit, Unchanging
<1>2. /\ Running /\ instr = s[p] /\ s[p].op = "TRY_EXIT" /\ Clean(stack) /\ InstrOK(s, p)
      /\ frame.handlers \in Seq(Handler)
  BY <1>1, FetchDebt
<1>3. low \in Seq(Handler) BY <1>2, DropOne
<1>4. p + 1 \in DOMAIN s /\ ~Refused(s, p) /\ instr.op \notin {"JUMP", "CATCH"} /\ Clean(stack')
  BY <1>1, <1>2 DEF InstrOK, Refused
<1> HIDE DEF low
<1> QED BY <1>1, <1>2, <1>3, <1>4, OnwardWith

(* Every step of the machine keeps the invariant.                          *)
LEMMA DebtStep ==
  ASSUME NEW D, VInv, DebtsWith(D), VMNext
  PROVE  DebtsWith(D)'
<1> DEFINE s == chunkOf(frame)
           p == frame.ip
           Goal == DebtsWith(D)'
<1>f. ASSUME NEW op, Fetch(op), op # "RETURN"
      PROVE  /\ Running /\ instr = s[p] /\ s[p].op = op /\ instr.op = op
             /\ InstrOK(s, p) /\ Clean(stack)
             /\ stack \in Seq(Value) /\ Len(stack) = frame.base + s[p].h
             /\ frame.base \in Nat /\ s[p].h \in Nat
             /\ (op # "POP" => ~Refused(s, p))
             /\ (op # "JUMP_IF_FALSE" => ~Verdict(s, p))
             /\ s[p].ty \in SUBSET ErrTypes
  <2>1. /\ Running /\ instr = s[p] /\ s[p].op = op
        /\ InstrOK(s, p) /\ Clean(stack) /\ s \in Seq(Instruction) /\ p \in DOMAIN s
        /\ stack \in Seq(Value) /\ Len(stack) = frame.base + s[p].h
        /\ frame.base \in Nat /\ s[p].h \in Nat
    BY <1>f, FetchDebt
  <2>2. s[p].ty \in SUBSET ErrTypes
    <3>1. s[p] \in Instruction BY <2>1
    <3> QED BY <3>1 DEF Instruction
  <2> QED BY <2>1, <2>2 DEF Refused, Verdict
<1>e. /\ {"RuntimeError", "TypeError", "IndexError", "RecursionError"} \subseteq ErrTypes
      /\ "RuntimeError" \notin Warnings /\ "TypeError" \notin Warnings
      /\ "IndexError" \notin Warnings /\ "RecursionError" \notin Warnings
  BY ErrTypesAssumption
<1>r. ASSUME NEW op \in Fallible, Fetch(op), s[p].rf = 0, NEW t \in ErrTypes \ Warnings,
             NEW st \in Seq(Value), Clean(st), Raise(t, st), Unchanging
      PROVE  Goal
  <2>1. op # "RETURN" BY DEF Fallible
  <2>2. Running /\ instr = s[p] /\ instr.op = op BY <1>f, <1>r, <2>1
  <2>3. ~isReturning BY <1>r, <2>2, AtInstr
  <2> QED BY <1>r, <2>2, <2>3, RaiseDebts
<1>v. ASSUME NEW v, v[1] # "notype", NEW op, Fetch(op), op \notin {"RETURN", "JUMP", "CATCH", "POP"},
             Pushes(v), p + 1 \in DOMAIN s, Unchanging, UNCHANGED skipped
      PROVE  Goal
  <2>1. /\ Running /\ instr.op = op /\ ~Refused(s, p) /\ Clean(stack) /\ stack \in Seq(Value)
    BY <1>f, <1>v
  <2>2. Goto(p + 1) /\ stack' = Append(stack, v) BY <1>v DEF Pushes
  <2>3. Clean(stack') BY <1>v, <2>1, <2>2, CleanAppend
  <2> QED BY <1>v, <2>1, <2>2, <2>3, OnwardDebts DEF Unchanging
<1>o. ASSUME NEW op, Fetch(op), op \notin {"RETURN", "JUMP", "CATCH", "POP"},
             Goto(p + 1), Clean(stack'), p + 1 \in DOMAIN s, Unchanging, UNCHANGED skipped
      PROVE  Goal
  <2>1. Running /\ instr.op = op /\ ~Refused(s, p) BY <1>f, <1>o
  <2> QED BY <1>o, <2>1, OnwardDebts DEF Unchanging
<1>b. ASSUME NEW op \in Branches \ {"JUMP_IF_FALSE"}, Fetch(op),
             Goto(instr.x), stack' = stack, instr.x \in DOMAIN s, Unchanging, UNCHANGED skipped
      PROVE  Goal
  <2>1. op # "RETURN" /\ op # "JUMP_IF_FALSE" BY <1>b DEF Branches
  <2>2. Running /\ instr.op = op /\ ~Verdict(s, p) /\ Clean(stack) BY <1>b, <1>f, <2>1
  <2>3. Clean(stack') BY <1>b, <2>2
  <2> QED BY <1>b, <2>2, <2>3, BranchDebts DEF Unchanging
<1>n. \A a : <<"val", a>>[1] # "notype" OBVIOUS
<1> HIDE DEF s, p, Goal
<1> SUFFICES Goal BY DEF Goal
<1>1. CASE BeginRun
  <2>1. frames = <<>> /\ stack = <<>> /\ Verified(code) /\ BeginRunOf(code) /\ IsProgram(code)
    BY <1>1 DEF BeginRun, BeginRunOf, VInv, TypeInv, VMTypeOK
  <2>2. ~skipped /\ \A f \in Funcs : PaysDebts(code[f], D[f]) BY DEF DebtsWith
  <2> QED BY <2>1, <2>2, BeginDebts DEF Goal
<1>2. CASE Constant
  <2>1. Fetch("CONSTANT") /\ Pushes(<<"val", p>>) /\ Unchanging /\ UNCHANGED skipped
    BY <1>2 DEF Constant, p
  <2>2. p + 1 \in DOMAIN s BY <1>f, <2>1 DEF InstrOK, Flows
  <2> QED BY <1>n, <1>v, <2>1, <2>2
<1>3. CASE Native
  <2>1. Fetch("NATIVE") /\ Unchanging BY <1>3 DEF Native
  <2>2. p + 1 \in DOMAIN s /\ s[p].rf = 0 /\ Clean(stack) /\ stack \in Seq(Value)
    BY <1>f, <2>1 DEF InstrOK, Flows, Raises
  <2>3. CASE Pushes(<<"val", p>>) /\ UNCHANGED skipped BY <1>n, <1>v, <2>1, <2>2, <2>3
  <2>4. CASE Raise("RuntimeError", stack)
    <3>1. "NATIVE" \in Fallible BY DEF Fallible
    <3> QED BY <1>e, <1>r, <2>1, <2>2, <2>4, <3>1
  <2> QED BY <1>3, <2>3, <2>4 DEF Native, p
<1>4. CASE GetLocal
  <2>1. Fetch("GET_LOCAL") /\ Unchanging BY <1>4 DEF GetLocal
  <2>2. stack[Slot][1] # "notype" BY <2>1, SlotClean
  <2>3. Pushes(stack[Slot]) /\ UNCHANGED skipped BY <1>4, <2>2 DEF GetLocal
  <2>4. p + 1 \in DOMAIN s BY <1>f, <2>1 DEF InstrOK, Flows
  <2> QED BY <1>v, <2>1, <2>2, <2>3, <2>4
<1>5. CASE Pop BY <1>5, PopDebts DEF Goal
<1>6. CASE Pop2Push
  <2> DEFINE v == <<"val", p>>
  <2>1. /\ Fetch("POP2_PUSH") /\ Unchanging /\ UNCHANGED skipped /\ Goto(p + 1)
        /\ stack' = Append(Drop(stack, 2), v)
    BY <1>6 DEF Pop2Push, p
  <2>2. /\ p + 1 \in DOMAIN s /\ Clean(stack) /\ stack \in Seq(Value) /\ s[p].h >= 2
        /\ Len(stack) = frame.base + s[p].h /\ frame.base \in Nat /\ s[p].h \in Nat
    BY <1>f, <2>1 DEF InstrOK, Flows
  <2>3. 2 \in Nat /\ 2 <= Len(stack) BY <2>2
  <2>4. Drop(stack, 2) \in Seq(Value) /\ Clean(Drop(stack, 2)) BY <2>2, <2>3, DropInSeq, CleanDrop
  <2>5. v[1] # "notype" BY <1>n
  <2> HIDE DEF v
  <2>6. Clean(stack') BY <2>1, <2>4, <2>5, CleanAppend
  <2> QED BY <1>o, <2>1, <2>2, <2>6
<1>7. CASE DefineVar
  <2>1. /\ Fetch("DEFINE_VAR") /\ Unchanging /\ UNCHANGED skipped /\ Goto(p + 1)
        /\ stack' = Drop(stack, 1)
    BY <1>7 DEF DefineVar, p
  <2>2. /\ p + 1 \in DOMAIN s /\ Clean(stack) /\ stack \in Seq(Value) /\ s[p].h >= 1
        /\ Len(stack) = frame.base + s[p].h /\ frame.base \in Nat /\ s[p].h \in Nat
    BY <1>f, <2>1 DEF InstrOK, Flows
  <2>3. 1 \in Nat /\ 1 <= Len(stack) BY <2>2
  <2>4. Clean(stack') BY <2>1, <2>2, <2>3, CleanDrop
  <2> QED BY <1>o, <2>1, <2>2, <2>4
<1>8. CASE Jump
  <2>1. /\ Fetch("JUMP") \/ Fetch("LOOP")
        /\ Goto(instr.x) /\ stack' = stack /\ Unchanging /\ UNCHANGED skipped
    BY <1>8 DEF Jump
  <2>2. instr.x \in DOMAIN s BY <1>f, <2>1 DEF InstrOK, Flows
  <2>3. "JUMP" \in Branches \ {"JUMP_IF_FALSE"} /\ "LOOP" \in Branches \ {"JUMP_IF_FALSE"}
    BY DEF Branches
  <2> QED BY <1>b, <2>1, <2>2, <2>3
<1>9. CASE JumpIfFalse BY <1>9, JumpIfFalseDebts DEF Goal
<1>10. CASE JumpIfNotLt
  <2>1. Fetch("JUMP_IF_NOT_LT") /\ Unchanging BY <1>10 DEF JumpIfNotLt
  <2>2. /\ p + 1 \in DOMAIN s /\ instr.x \in DOMAIN s /\ s[p].rf = 0
        /\ Clean(stack) /\ stack \in Seq(Value)
    BY <1>f, <2>1 DEF InstrOK, Flows, Raises
  <2>3. stack[Slot][1] # "notype" BY <2>1, SlotClean
  <2>4. CASE Goto(p + 1) /\ UNCHANGED <<stack, skipped>>
    <3>1. Clean(stack') BY <2>2, <2>4
    <3> QED BY <1>o, <2>1, <2>2, <2>4, <3>1
  <2>5. CASE Goto(instr.x) /\ UNCHANGED <<stack, skipped>>
    <3>1. "JUMP_IF_NOT_LT" \in Branches \ {"JUMP_IF_FALSE"} BY DEF Branches
    <3> QED BY <1>b, <2>1, <2>2, <2>5, <3>1
  <2>6. CASE Raise("TypeError", stack)
    <3>1. "JUMP_IF_NOT_LT" \in Fallible BY DEF Fallible
    <3> QED BY <1>e, <1>r, <2>1, <2>2, <2>6, <3>1
  <2> QED BY <1>10, <2>3, <2>4, <2>5, <2>6 DEF JumpIfNotLt, p
<1>11. CASE ForIter BY <1>11, ForIterDebts DEF Goal
<1>12. CASE SkipIter
  <2> DEFINE st == Drop(stack, 1)
  <2>1. Fetch("SKIP_ITER") /\ Unchanging BY <1>12 DEF SkipIter
  <2>2. /\ p + 1 \in DOMAIN s /\ Clean(stack) /\ stack \in Seq(Value) /\ s[p].h >= 1 /\ s[p].rf = 0
        /\ Len(stack) = frame.base + s[p].h /\ frame.base \in Nat /\ s[p].h \in Nat
    BY <1>f, <2>1 DEF InstrOK, Flows, Raises
  <2>3. 1 \in Nat /\ 1 <= Len(stack) /\ stack # <<>> BY <2>2
  <2>4. st \in Seq(Value) /\ Clean(st) BY <2>2, <2>3, CleanDrop, DropOne
  <2> HIDE DEF st
  <2>5. CASE stack' = st /\ Goto(p + 1) /\ UNCHANGED skipped
    <3>1. Clean(stack') BY <2>4, <2>5
    <3> QED BY <1>o, <2>1, <2>2, <2>5, <3>1
  <2>6. CASE Raise("TypeError", st) \/ Raise("IndexError", st)
    <3>1. "SKIP_ITER" \in Fallible BY DEF Fallible
    <3> QED BY <1>e, <1>r, <2>1, <2>2, <2>4, <2>6, <3>1
  <2> QED BY <1>12, <2>5, <2>6 DEF SkipIter, p, st
<1>13. CASE Call
  <2>1. Fetch("CALL") /\ Unchanging BY <1>13 DEF Call
  <2>2. CASE Raise("RecursionError", stack)
    <3>1. s[p].rf = 0 /\ Clean(stack) /\ stack \in Seq(Value)
      BY <1>f, <2>1 DEF InstrOK, Raises
    <3>2. "CALL" \in Fallible BY DEF Fallible
    <3> QED BY <1>e, <1>r, <2>1, <2>2, <3>1, <3>2
  <2>3. CASE ~Raise("RecursionError", stack)
    <3>1. Len(stack) <= StackLimit BY <1>13, <2>3 DEF Call
    <3> QED BY <1>13, <2>3, <3>1, CallDebts DEF Goal
  <2> QED BY <2>2, <2>3
<1>14. CASE Return BY <1>14, ReturnDebts DEF Goal
<1>15. CASE EndFinally BY <1>15, EndFinallyDebts DEF Goal
<1>16. CASE TryEnter BY <1>16, TryEnterDebts DEF Goal
<1>17. CASE TryExit BY <1>17, TryExitDebts DEF Goal
<1>18. CASE Throw
  <2>1. Fetch("THROW") /\ Unchanging BY <1>18 DEF Throw
  <2>2. /\ Running /\ instr = s[p] /\ Clean(stack) /\ stack \in Seq(Value) /\ s[p].h >= 2
        /\ s[p].rf = 0 /\ Len(stack) = frame.base + s[p].h /\ frame.base \in Nat /\ s[p].h \in Nat
        /\ instr.ty \subseteq ErrTypes /\ instr.op = "THROW"
        /\ instr.ty \cap Warnings # {} => p + 1 \in DOMAIN s
    BY <1>f, <2>1 DEF InstrOK, Flows, Raises
  <2>3. 2 \in Nat /\ 2 <= Len(stack) BY <2>2
  <2>4. Drop(stack, 2) \in Seq(Value) /\ Clean(Drop(stack, 2)) BY <2>2, <2>3, DropInSeq, CleanDrop
  <2>5. PICK t \in instr.ty : Raise(t, Drop(stack, 2)) BY <1>18 DEF Throw
  <2>6. ~isReturning BY <2>2, AtInstr
  <2>7. "THROW" \in Fallible BY DEF Fallible
  <2>8. t \in ErrTypes /\ (t \in Warnings => p + 1 \in DOMAIN s) BY <2>2
  <2> QED BY <2>1, <2>2, <2>4, <2>5, <2>6, <2>7, <2>8, RaiseDebts DEF Goal, s, p
<1>19. CASE Catch BY <1>19, CatchDebts DEF Goal
<1>20. CASE Rethrow
  <2> DEFINE st == Drop(stack, 1)
  <2>1. Fetch("RETHROW") /\ Unchanging BY <1>20 DEF Rethrow
  <2>2. /\ Running /\ instr = s[p] /\ Clean(stack) /\ stack \in Seq(Value) /\ s[p].h >= 1
        /\ s[p].rf = 0 /\ Len(stack) = frame.base + s[p].h /\ frame.base \in Nat /\ s[p].h \in Nat
        /\ instr.op = "RETHROW" /\ p + 1 \in DOMAIN s
    BY <1>f, <2>1 DEF InstrOK, Flows, Raises
  <2>3. 1 \in Nat /\ 1 <= Len(stack) /\ stack # <<>> BY <2>2
  <2>4. st \in Seq(Value) /\ Clean(st) /\ Top(stack) \in Value
    BY <2>2, <2>3, CleanDrop, DropOne, TopInSeq
  <2> HIDE DEF st
  <2>5. CASE Top(stack)[1] # "err"
    <3>1. stack' = st /\ Goto(p + 1) /\ UNCHANGED skipped
      BY <1>20, <2>5 DEF Rethrow, st, p
    <3>2. Clean(stack') BY <2>4, <3>1
    <3> QED BY <1>o, <2>1, <2>2, <3>1, <3>2
  <2>6. CASE Top(stack)[1] = "err"
    <3> DEFINE t == Top(stack)[2]
    <3>1. t \in ErrTypes BY <2>4, <2>6 DEF Value
    <3> HIDE DEF t
    <3>2. Raise(t, st) BY <1>20, <2>6 DEF Rethrow, st, t
    <3>3. ~isReturning BY <2>2, AtInstr
    <3>4. "RETHROW" \in Fallible BY DEF Fallible
    <3> QED BY <2>1, <2>2, <2>4, <3>1, <3>2, <3>3, <3>4, RaiseDebts DEF Goal, s, p
  <2> QED BY <2>5, <2>6
<1>21. CASE Undefined
  <2>1. Running /\ ~Defined BY <1>21 DEF Undefined, Running
  <2> QED BY <2>1, AlwaysDefined
<1>22. CASE Halted
  BY <1>22 DEF Halted, vmVars, DebtsWith, Running, frame, Top, chunkOf, Goal
<1>23. CASE NoType BY <1>23, NoTypeDebts DEF Goal
<1>24. CASE SetLocal BY <1>24, SetLocalDebts DEF Goal
<1> QED
  BY <1>1, <1>2, <1>3, <1>4, <1>5, <1>6, <1>7, <1>8, <1>9, <1>10, <1>11,
     <1>12, <1>13, <1>14, <1>15, <1>16, <1>17, <1>18, <1>19, <1>20, <1>21, <1>22,
     <1>23, <1>24 DEF VMNext, Execute

(* The invariant: for some choice of the code that is never reached.       *)
Covered == \E D : DebtsWith(D)

LEMMA CoveredStep == VInv /\ Covered /\ [VMNext]_vmVars => Covered'
<1> SUFFICES ASSUME VInv, Covered, [VMNext]_vmVars PROVE Covered' OBVIOUS
<1>1. PICK D : DebtsWith(D) BY DEF Covered
<1>2. CASE VMNext
  <2>1. DebtsWith(D)' BY <1>1, <1>2, DebtStep
  <2> QED BY <2>1 DEF Covered
<1>3. CASE UNCHANGED vmVars
  <2>1. DebtsWith(D)' BY <1>1, <1>3 DEF vmVars, DebtsWith, Running, frame, Top, chunkOf
  <2> QED BY <2>1 DEF Covered
<1> QED BY <1>2, <1>3

LEMMA CoveredRuns == Covered => FinallyAlwaysRuns
BY DEF Covered, DebtsWith, FinallyAlwaysRuns
=============================================================================
