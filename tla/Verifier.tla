------------------------------ MODULE Verifier ------------------------------
(***************************************************************************)
(* When the annotations of a chunk are consistent with its control flow,   *)
(* and what the machine of YVM guarantees then.  `Verified` is a bytecode  *)
(* verifier: a condition on each instruction and its successors alone.     *)
(***************************************************************************)
EXTENDS YVM

(* From the instruction at p the machine may go on at q with the stack     *)
(* higher by d and the same handlers.                                      *)
Flows(s, p, q, d) ==
  /\ q \in DOMAIN s
  /\ s[q].h = s[p].h + d
  /\ s[q].hs = s[p].hs
  /\ s[p].rf # 0 => s[q].rf = s[p].rf

(* The instruction at p may raise an error with the stack at height h.     *)
Raises(s, p, h) ==
  /\ s[p].rf = 0
  /\ s[p].hs # <<>> => s[Top(s[p].hs)].h <= h

InstrOK(s, p) ==
  LET i == s[p] IN
  /\ i.op \in {"CONSTANT", "NOTYPE", "NATIVE"} => Flows(s, p, p + 1, 1)
  /\ i.op = "NATIVE" => Raises(s, p, i.h)
  /\ i.op = "GET_LOCAL" => i.y < i.h /\ Flows(s, p, p + 1, 1)
  /\ i.op = "SET_LOCAL" => i.h >= 1 /\ i.y < i.h /\ Flows(s, p, p + 1, 0)
  /\ i.op \in {"POP", "DEFINE_VAR"} => i.h >= 1 /\ Flows(s, p, p + 1, -1)
  /\ i.op = "POP2_PUSH" => i.h >= 2 /\ Flows(s, p, p + 1, -1)
  /\ i.op \in {"JUMP", "LOOP"} => Flows(s, p, i.x, 0)
  /\ i.op = "JUMP_IF_FALSE" =>
       i.h >= 1 /\ Flows(s, p, p + 1, 0) /\ Flows(s, p, i.x, 0)
  /\ i.op = "JUMP_IF_NOT_LT" =>
       /\ i.y < i.h
       /\ Flows(s, p, p + 1, 0) /\ Flows(s, p, i.x, 0) /\ Raises(s, p, i.h)
  /\ i.op = "FOR_ITER" =>
       /\ i.h >= 1 + i.y
       /\ Flows(s, p, p + 1, i.y) /\ Flows(s, p, i.x, 0) /\ Raises(s, p, i.h)
  /\ i.op = "SKIP_ITER" =>
       /\ i.h >= 1 /\ i.y < i.h - 1
       /\ Flows(s, p, p + 1, -1) /\ Raises(s, p, i.h - 1)
  /\ i.op = "CALL" =>
       i.h >= 1 /\ i.x \in Funcs /\ Flows(s, p, p + 1, 0) /\ Raises(s, p, i.h)
  /\ i.op = "RETURN" =>
       /\ i.h >= 1 /\ i.rf = 0
       /\ i.hs # <<>> =>
            LET e == Top(i.hs)  q == s[e].y IN
            q # 0 => /\ q \in DOMAIN s
                     /\ s[q].h = i.h - 1
                     /\ s[q].hs = Drop(i.hs, 1)
                     /\ s[q].rf = e
  /\ i.op = "TRY_ENTER" =>
       /\ i.rf = 0
       /\ p + 1 \in DOMAIN s
       /\ s[p + 1].h = i.h /\ s[p + 1].hs = Append(i.hs, p)
       /\ i.x \in DOMAIN s
       /\ s[i.x].h = i.h + 1 /\ s[i.x].hs = i.hs
  /\ i.op = "TRY_EXIT" =>
       /\ i.hs # <<>> /\ i.rf = 0
       /\ p + 1 \in DOMAIN s
       /\ s[p + 1].h = i.h /\ s[p + 1].hs = Drop(i.hs, 1)
  /\ i.op = "THROW" =>
       /\ i.h >= 2
       /\ i.ty # {}
       /\ Raises(s, p, i.h - 2)
       /\ i.ty \cap Warnings # {} => Flows(s, p, p + 1, -2)
  /\ i.op = "CATCH" => i.h >= 1 /\ Flows(s, p, p + 1, 1)
  /\ i.op = "RETHROW" =>
       i.h >= 1 /\ Flows(s, p, p + 1, -1) /\ Raises(s, p, i.h - 1)
  /\ i.op = "END_FINALLY" =>
       /\ p + 1 \in DOMAIN s
       /\ s[p + 1].h = i.h /\ s[p + 1].hs = i.hs

(* The handlers an annotation names are TRY_ENTER instructions, each       *)
(* inside the try bodies named before it.                                  *)
HandlersNamed(s) ==
  \A p \in DOMAIN s : s[p].hs # <<>> =>
    LET e == Top(s[p].hs) IN
    /\ e \in DOMAIN s
    /\ s[e].op = "TRY_ENTER"
    /\ s[e].hs = Drop(s[p].hs, 1)

ChunkOK(s) ==
  /\ 1 \in DOMAIN s
  /\ s[1].h = 0 /\ s[1].hs = <<>>
  /\ HandlersNamed(s)
  /\ \A p \in DOMAIN s : InstrOK(s, p)

Verified(c) == \A f \in Funcs : ChunkOK(c[f])

----------------------------------------------------------------------------
(* Type invariant of the machine, for every program. *)
VMTypeOK ==
  /\ IsProgram(code)
  /\ frames \in Seq(Frame)
  /\ stack \in Seq(Value)
  /\ isReturning \in BOOLEAN
  /\ pendingReturn \in Value
  /\ status \in {"idle", "running", "done", "uncaught", "aborted", "undefined"}
  /\ skipped \in BOOLEAN

Running == status = "running"

(* What frame i has pushed: up to the next frame's base, or the whole rest *)
(* of the stack for the top frame.                                         *)
HeightOf(i) ==
  (IF i = Len(frames) THEN Len(stack) ELSE frames[i + 1].base) - frames[i].base

Annotation(i) == chunkOf(frames[i])[frames[i].ip]

(* Stack discipline: whenever an instruction is about to execute, the top  *)
(* frame holds exactly the locals and temporaries the compiler counted,    *)
(* and every suspended frame those of its call (the callee stands for the  *)
(* result), so that OP_RETURN's resize restores the caller's stack.        *)
StackDiscipline ==
  Running =>
    \A i \in DOMAIN frames :
      /\ frames[i].ip \in DOMAIN chunkOf(frames[i])
      /\ HeightOf(i) = IF i = Len(frames) THEN Annotation(i).h
                       ELSE Annotation(i).h - 1

(* The handler TRY_ENTER at e installs in a frame that starts at base.     *)
Installed(s, e, base) ==
  [enter |-> e, depth |-> base + s[e].h, catch |-> s[e].x, fin |-> s[e].y,
   inside |-> FALSE]

Agree(s, p, base, handlers) ==
  LET hs == s[p].hs IN
  /\ Len(handlers) = Len(hs)
  /\ \A j \in DOMAIN hs : handlers[j] = Installed(s, hs[j], base)

(* A return that runs a finally block keeps that block's handler, marked.  *)
Returning(s, f) ==
  /\ s[f.ip].rf # 0
  /\ f.handlers # <<>>
  /\ Top(f.handlers).inside
  /\ Agree(s, f.ip, f.base, Drop(f.handlers, 1))

(* Handlers follow the text: the handlers of a frame are those of the try  *)
(* bodies that enclose its instruction, each with the stack depth of its   *)
(* try statement, so an error goes to the innermost enclosing catch.       *)
HandlersFollowText ==
  Running =>
    \A i \in DOMAIN frames :
      LET f == frames[i] IN
      IF isReturning /\ i = Len(frames) THEN Returning(chunkOf(f), f)
      ELSE Agree(chunkOf(f), f.ip, f.base, f.handlers)

(* No operand is taken from an empty stack, no slot beyond the end is read *)
(* and the instruction pointer stays in its chunk.                         *)
NeverUndefined == status # "undefined"

(* Lexical addressing: the slot an instruction reads or writes is the one  *)
(* of the declaration the compiler resolved the name to.                   *)
LexicalAddressing ==
  Running /\ Defined /\ instr.x # 0
  /\ instr.op \in {"GET_LOCAL", "SET_LOCAL", "SKIP_ITER"} =>
    stack[Slot] \in {<<"val", instr.x>>, <<"notype", instr.x>>}

(* A frame is never left, nor a try statement entered again, while one of  *)
(* its finally blocks is owed.                                             *)
FinallyAlwaysRuns == ~skipped

(* A return that is under way belongs to a finally block that is running:  *)
(* otherwise the flag is stale, and the next OP_END_FINALLY of any frame   *)
(* returns a value whose return was overridden long ago.                   *)
PendingReturnOwned ==
  Running /\ isReturning =>
    \E i \in DOMAIN frames : \E j \in DOMAIN frames[i].handlers :
      frames[i].handlers[j].inside
=============================================================================
