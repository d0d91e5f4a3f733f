--------------------------- MODULE CodeGenProofs ---------------------------
(***************************************************************************)
(* What the compiler's invariant is, and the lemmas that keep it, for the  *)
(* theorem of CompileAndRunProofs: every program the compiler accepts,     *)
(* outside the harmful combinations, compiles to code the verifier of      *)
(* module Verifier accepts.                                                *)
(*                                                                         *)
(* The invariant speaks of a chunk that is not finished.  `Sound` says     *)
(* that every instruction so far does what the verifier asks, but for the  *)
(* targets of jumps still to be patched (the holes) and with an imagined   *)
(* instruction at the end for the one that comes next; the rest says what  *)
(* each open statement expects of its holes, of the locals and of the      *)
(* loops around it.                                                        *)
(***************************************************************************)
EXTENDS CompileAndRun, VerifierProofs

(* The combinations that make the compiler emit code that is not verified. *)
Harmful == {"let_in_do", "let_in_try", "break_foreach", "continue_in_switch", "jump_out_of_try",
            "return_from_inner_scope", "busy_finally"}

----------------------------------------------------------------------------
(* Types.                                                                  *)

Context == [hs : Seq(Nat), ow : SUBSET Nat, rf : Nat]
Local == [depth : Nat, d : Nat, named : BOOLEAN]
LoopRecord ==
  [step : Nat, breaks : SUBSET Nat, continues : SUBSET Nat, count : Nat, each : BOOLEAN, iter : Nat]
Statement ==
  [kind : {"if"} \cup LoopKinds \cup {"try"},
   arm : {"then", "else", "cond", "lt", "body", "case", "default", "catch", "finally"},
   a : Nat, b : Nat, j : Nat, jumps : SUBSET Nat, ctx : Context,
   fin : BOOLEAN, ret : BOOLEAN, all : BOOLEAN, h : Nat, d : Nat, n : Nat]

CGTypes == fn \in 1..(NumFuncs + 1) /\ compiled \in [1..NumFuncs -> Seq(Instruction)]

----------------------------------------------------------------------------
(* Scopes and loops.  A statement knows how many locals there were when it *)
(* began, and they are those declared at its depth or less.                *)

Split(ls, d, m) ==
  m <= Len(ls) /\ \A k \in DOMAIN ls : ls[k].depth <= d <=> k <= m

IsLoop(o) == o.kind \in LoopKinds
InBody(o) == o.kind = "try" /\ o.arm = "body"

(* How much deeper the block of a statement is than the statement.         *)
Extra(o) ==
  CASE o.kind = "foreach" -> 3
    [] o.kind \in {"while", "for", "switch"} -> 2
    [] InBody(o) -> 0
    [] OTHER -> 1

Beyond(o) == IF IsLoop(o) THEN 1 ELSE 0

(* The statement o is open; its block has come to depth d, height m and n  *)
(* loops.  In the blocks that open no scope nothing is declared.           *)
Encloses(o, d, m, n) ==
  /\ d = o.d + Extra(o)
  /\ n = o.n + Beyond(o)
  /\ InBody(o) \/ o.kind = "do" => m = o.h

LoopOK(o, l, ls) ==
  /\ o.kind \in {"while", "for", "foreach", "switch"} => Split(ls, o.d + 1, l.count)
  /\ o.kind \in {"while", "do"} => l.count = o.h
  /\ o.kind = "for" => l.count \in {o.h, o.h + 1}
  /\ o.kind = "switch" => l.count = o.h + 1
  /\ o.kind = "foreach" =>
       /\ o.b >= 1 /\ l.count = o.h + o.b + 1
       /\ Split(ls, o.d + 2, l.count + o.b)
       /\ l.each /\ l.iter + 1 = l.count
  /\ o.kind # "foreach" => ~l.each
  /\ l.step = IF o.kind \in {"while", "foreach"} THEN o.a ELSE 0
  /\ o.kind = "foreach" => l.breaks = {}
  /\ o.kind \in {"while", "foreach", "switch"} => l.continues = {}

(* The blocks that are open, innermost last, in the scope depth sd with    *)
(* the locals ls and the loops lp.                                         *)
Nesting(os, ls, sd, lp) ==
  /\ \A k \in DOMAIN ls : ls[k].depth <= sd
  /\ \A i \in DOMAIN os :
       /\ Split(ls, os[i].d, os[i].h)
       /\ IF i = Len(os) THEN Encloses(os[i], sd, Len(ls), Len(lp))
          ELSE Encloses(os[i], os[i + 1].d, os[i + 1].h, os[i + 1].n)
       /\ sd >= os[i].d + Extra(os[i]) /\ Len(lp) >= os[i].n + Beyond(os[i])
       /\ \A k \in DOMAIN os : i < k =>
            os[k].d >= os[i].d + Extra(os[i]) /\ os[k].n >= os[i].n + Beyond(os[i])
       /\ IsLoop(os[i]) => LoopOK(os[i], lp[os[i].n + 1], ls)
  /\ \A q \in DOMAIN lp : \E i \in DOMAIN os : IsLoop(os[i]) /\ os[i].n + 1 = q

----------------------------------------------------------------------------
(* Contexts.                                                               *)

Outer(os, i) == IF i = 1 THEN Outermost ELSE os[i - 1].ctx

Within(o, out) ==
  /\ o.kind # "try" => o.ctx = out
  /\ o.kind = "try" =>
       /\ out.rf = 0
       /\ o.arm \in {"body", "catch", "finally"}
       /\ o.ctx.hs = IF o.arm = "body" THEN Append(out.hs, o.a) ELSE out.hs
       /\ o.ctx.rf = IF o.arm = "finally" /\ o.ret THEN o.a ELSE 0

Crosses(o) ==
  /\ o.kind = "try"
  /\ \/ o.arm = "body"
     \/ o.arm = "catch" /\ o.fin
     \/ o.arm = "finally" /\ o.ret

(* The innermost handler of hs is that of the last try statement among the *)
(* first k whose body is open.                                             *)
Handles(os, k, hs) ==
  \/ hs = <<>> /\ \A j \in 1..k : ~InBody(os[j])
  \/ \E i \in 1..k :
       /\ InBody(os[i]) /\ \A j \in (i + 1)..k : ~InBody(os[j])
       /\ hs # <<>> /\ Last(hs) = os[i].a

Contexts(os) ==
  /\ \A i \in DOMAIN os : Within(os[i], Outer(os, i))
  /\ \A i, k \in DOMAIN os :
       i <= k /\ (\A j \in (i + 1)..k : ~Crosses(os[j])) =>
         os[k].ctx.hs = os[i].ctx.hs /\ os[k].ctx.rf = os[i].ctx.rf
  /\ \A k \in DOMAIN os : Handles(os, k, os[k].ctx.hs)
  /\ \A i, k \in DOMAIN os :
       i # k /\ os[i].kind = "try" /\ os[k].kind = "try" => os[i].a # os[k].a

----------------------------------------------------------------------------
(* Code.  A mark is what an instruction says of the machine; `Ext` puts an *)
(* instruction with mark m at the end.                                     *)

Mark == [h : Nat, hs : Seq(Nat), rf : Nat]
MarkIn(h, ctx) == [h |-> h, hs |-> ctx.hs, rf |-> ctx.rf]

Ext(c, m) == Append(c, InsIn([hs |-> m.hs, ow |-> {}, rf |-> m.rf], "POP", 0, 0, {}, m.h))

(* What the verifier asks of an instruction, but for its target x ...      *)
Steps(s, p) ==
  LET i == s[p] IN
  /\ i.op \in {"CONSTANT", "NOTYPE", "NATIVE"} => Flows(s, p, p + 1, 1)
  /\ i.op = "NATIVE" => Raises(s, p, i.h)
  /\ i.op = "GET_LOCAL" => i.y < i.h /\ Flows(s, p, p + 1, 1)
  /\ i.op = "SET_LOCAL" => i.h >= 1 /\ i.y < i.h /\ Flows(s, p, p + 1, 0)
  /\ i.op \in {"POP", "DEFINE_VAR"} => i.h >= 1 /\ Flows(s, p, p + 1, -1)
  /\ i.op = "POP2_PUSH" => i.h >= 2 /\ Flows(s, p, p + 1, -1)
  /\ i.op = "JUMP_IF_FALSE" => i.h >= 1 /\ Flows(s, p, p + 1, 0)
  /\ i.op = "JUMP_IF_NOT_LT" => i.y < i.h /\ Flows(s, p, p + 1, 0) /\ Raises(s, p, i.h)
  /\ i.op = "FOR_ITER" => i.h >= 1 + i.y /\ Flows(s, p, p + 1, i.y) /\ Raises(s, p, i.h)
  /\ i.op = "SKIP_ITER" =>
       i.h >= 1 /\ i.y < i.h - 1 /\ Flows(s, p, p + 1, -1) /\ Raises(s, p, i.h - 1)
  /\ i.op = "CALL" =>
       i.h >= 1 /\ i.x \in Funcs /\ Flows(s, p, p + 1, 0) /\ Raises(s, p, i.h)
  /\ i.op = "RETURN" =>
       /\ i.h >= 1 /\ i.rf = 0
       /\ i.hs # <<>> =>
            LET e == Top(i.hs)  q == s[e].y IN
            q # 0 => /\ q \in DOMAIN s
                     /\ s[q].h = i.h - 1
                     /\ s[q].hs = Drop(i.hs, 1)
                     /\ s[q].rf = e
  /\ i.op = "TRY_ENTER" =>
       i.rf = 0 /\ p + 1 \in DOMAIN s /\ s[p + 1].h = i.h /\ s[p + 1].hs = Append(i.hs, p)
  /\ i.op = "TRY_EXIT" =>
       /\ i.hs # <<>> /\ i.rf = 0
       /\ p + 1 \in DOMAIN s
       /\ s[p + 1].h = i.h /\ s[p + 1].hs = Drop(i.hs, 1)
  /\ i.op = "THROW" =>
       /\ i.h >= 2
       /\ i.ty # {}
       /\ Raises(s, p, i.h - 2)
       /\ Flows(s, p, p + 1, -2)
  /\ i.op = "CATCH" => i.h >= 1 /\ Flows(s, p, p + 1, 1)
  /\ i.op = "RETHROW" =>
       i.h >= 1 /\ Flows(s, p, p + 1, -1) /\ Raises(s, p, i.h - 1)
  /\ i.op = "END_FINALLY" =>
       p + 1 \in DOMAIN s /\ s[p + 1].h = i.h /\ s[p + 1].hs = i.hs

(* ... and of its target.                                                  *)
Lands(s, p) ==
  /\ s[p].op \in Branches => Flows(s, p, s[p].x, 0)
  /\ s[p].op = "TRY_ENTER" =>
       s[p].x \in DOMAIN s /\ s[s[p].x].h = s[p].h + 1 /\ s[s[p].x].hs = s[p].hs

(* The innermost handler of hs is a try statement of the code c.           *)
Named(c, hs) ==
  hs # <<>> =>
    Top(hs) \in DOMAIN c /\ c[Top(hs)].op = "TRY_ENTER" /\ c[Top(hs)].hs = Drop(hs, 1)

(* The code c, which goes on with the mark m and has holes in W only.      *)
Sound(c, m, W) ==
  /\ c \in Seq(Instruction)
  /\ m \in Mark
  /\ Ext(c, m)[1].h = 0 /\ Ext(c, m)[1].hs = <<>>
  /\ Named(c, m.hs)
  /\ \A p \in DOMAIN c :
       /\ Named(c, c[p].hs)
       /\ Steps(Ext(c, m), p)
       /\ p \notin W => Lands(Ext(c, m), p)

(* The jump at p waits to be patched, at height h in the context ctx.      *)
Waits(c, p, op, h, ctx) ==
  p \in DOMAIN c /\ c[p].op = op /\ c[p].h = h /\ c[p].hs = ctx.hs /\ c[p].rf = ctx.rf

(* A jump back to q finds the machine at height h in the context ctx.      *)
Begun(c, m, q, h, ctx) ==
  LET s == Ext(c, m) IN
  q \in DOMAIN s /\ s[q].h = h /\ s[q].hs = ctx.hs /\ s[q].rf = ctx.rf

HolesOf(o) ==
  CASE o.kind = "if" -> o.jumps \cup (IF o.arm = "then" THEN {o.j} ELSE {})
    [] o.kind = "while" -> {o.j}
    [] o.kind = "for" -> {o.j} \ {0}
    [] o.kind = "foreach" -> {o.a}
    [] o.kind = "switch" /\ o.arm = "case" -> {o.j}
    [] InBody(o) -> {o.a}
    [] o.kind = "try" /\ o.arm = "catch" -> o.jumps \cup {o.b, o.j}
    [] OTHER -> {}

(* What the open statement o expects of the code, in the context out and   *)
(* with its loop l if it is one.                                           *)
Expects(c, m, o, out, l) ==
  /\ o.kind = "if" =>
       /\ o.arm \in {"then", "else"}
       /\ o.arm = "then" => Waits(c, o.j, "JUMP_IF_FALSE", o.h + 1, out)
       /\ \A p \in o.jumps : Waits(c, p, "JUMP", o.h, out)
  /\ o.kind = "while" =>
       /\ Begun(c, m, o.a, o.h, out)
       /\ o.arm \in {"cond", "lt"}
       /\ IF o.arm = "lt" THEN Waits(c, o.j, "JUMP_IF_NOT_LT", o.h, out)
          ELSE Waits(c, o.j, "JUMP_IF_FALSE", o.h + 1, out)
  /\ o.kind = "do" => o.arm = "body" /\ Begun(c, m, o.a, o.h, out)
  /\ o.kind = "for" =>
       /\ Begun(c, m, o.a, l.count, out)
       /\ o.j # 0 => Waits(c, o.j, "JUMP_IF_FALSE", l.count + 1, out)
  /\ o.kind = "foreach" => Waits(c, o.a, "FOR_ITER", l.count, out)
  /\ o.kind = "switch" =>
       /\ Begun(c, m, o.a, o.h, out)
       /\ o.arm \in {"case", "default"}
       /\ o.arm = "case" => Waits(c, o.j, "JUMP_IF_FALSE", o.h + 2, out)
  /\ o.kind = "try" =>
       /\ Waits(c, o.a, "TRY_ENTER", o.h, out)
       /\ o.arm = "catch" =>
            /\ Waits(c, o.b, "JUMP", o.h, out)
            /\ Waits(c, o.j, "JUMP_IF_FALSE", o.h + 2, out)
            /\ \A p \in o.jumps : Waits(c, p, "JUMP", o.h, out)
  /\ IsLoop(o) => \A p \in l.breaks \cup l.continues : Waits(c, p, "JUMP", l.count, out)

(* A return in the body of a try statement with a finally block is known   *)
(* to the statement, and stands at the height of the block.                *)
Intercepted(c, o) ==
  o.kind = "try" /\ o.arm \in {"body", "catch"} =>
    /\ c[o.a].y = 0
    /\ o.fin => \A p \in DOMAIN c :
         c[p].op = "RETURN" /\ c[p].hs # <<>> /\ Top(c[p].hs) = o.a => o.ret /\ c[p].h = o.h + 1

HolesIn(os, lp) ==
  (UNION {HolesOf(os[i]) : i \in DOMAIN os})
    \cup (UNION {lp[q].breaks \cup lp[q].continues : q \in DOMAIN lp})

(* The code c with the statements os open, the locals ls, the scope depth  *)
(* sd and the loops lp.                                                    *)
Innermost(os) == IF os = <<>> THEN Outermost ELSE Last(os).ctx
MarkOf(os, ls) == MarkIn(Len(ls), Innermost(os))

Working(c, os, ls, sd, lp) ==
  /\ os \in Seq(Statement) /\ ls \in Seq(Local) /\ sd \in Nat /\ lp \in Seq(LoopRecord)
  /\ Nesting(os, ls, sd, lp)
  /\ Contexts(os)
  /\ Sound(c, MarkOf(os, ls), HolesIn(os, lp))
  /\ \A i \in DOMAIN os :
       /\ Expects(c, MarkOf(os, ls), os[i], Outer(os, i), lp[os[i].n + 1])
       /\ Intercepted(c, os[i])

Finished == \A f \in 1..NumFuncs : f < fn => ChunkOK(compiled[f])

(* The invariant of the compiler.                                          *)
CGInv == CGTypes /\ Working(chunk, open, locals, scopeDepth, loopStack) /\ Finished

----------------------------------------------------------------------------
(* How code grows.                                                         *)

(* The code c2 is c with more behind it; only targets may have changed.    *)
Extends(c, m, c2, m2) ==
  /\ DOMAIN c \subseteq DOMAIN c2
  /\ \A p \in DOMAIN c :
       /\ c2[p].op = c[p].op /\ c2[p].y = c[p].y /\ c2[p].ty = c[p].ty
       /\ c2[p].h = c[p].h /\ c2[p].hs = c[p].hs /\ c2[p].rf = c[p].rf
       /\ c[p].op = "CALL" => c2[p].x = c[p].x
  /\ Begun(c2, m2, Len(c) + 1, m.h, m)

NoNewReturn(c, c2) ==
  \A p \in DOMAIN c2 : c2[p].op = "RETURN" =>
    p \in DOMAIN c /\ c[p].op = "RETURN" /\ c2[p].h = c[p].h /\ c2[p].hs = c[p].hs

(* The code c has grown from c0 and is sound but for the holes W.          *)
Grown(c0, m0, c, m, W) == Sound(c, m, W) /\ Extends(c0, m0, c, m) /\ NoNewReturn(c0, c)

(* An error raised in the context ctx at height h finds its handler.       *)
Guarded(c, ctx, h) ==
  /\ ctx.rf = 0
  /\ ctx.hs # <<>> => Top(ctx.hs) \in DOMAIN c /\ c[Top(ctx.hs)].h <= h

(* What one knows of c still holds of c2.                                  *)
Keeps(c, m, c2, m2) ==
  /\ \A p, op, h, ctx : Waits(c, p, op, h, ctx) => Waits(c2, p, op, h, ctx)
  /\ \A q, h, ctx : Begun(c, m, q, h, ctx) => Begun(c2, m2, q, h, ctx)
  /\ \A h, ctx : Guarded(c, ctx, h) => Guarded(c2, ctx, h)

(* The code with its imagined next instruction.                            *)
LEMMA ExtIs ==
  ASSUME NEW c \in Seq(Instruction), NEW m \in Mark
  PROVE  /\ Ext(c, m) \in Seq(Instruction) /\ Len(c) \in Nat
         /\ DOMAIN c = 1..Len(c) /\ DOMAIN Ext(c, m) = 1..(Len(c) + 1)
         /\ \A p \in DOMAIN c : Ext(c, m)[p] = c[p] /\ p # Len(c) + 1 /\ p + 1 \in DOMAIN Ext(c, m)
         /\ LET i == Ext(c, m)[Len(c) + 1] IN i.op = "POP" /\ i.h = m.h /\ i.hs = m.hs /\ i.rf = m.rf
<1> DEFINE i == InsIn([hs |-> m.hs, ow |-> {}, rf |-> m.rf], "POP", 0, 0, {}, m.h)
<1>1. i \in Instruction /\ i.op = "POP" /\ i.h = m.h /\ i.hs = m.hs /\ i.rf = m.rf
  BY DEF InsIn, Instruction, Mark, Ops
<1> HIDE DEF i
<1>2. Ext(c, m) = Append(c, i) BY DEF Ext, i
<1> QED BY <1>1, <1>2

(* An instruction that was right stays right when the code grows.          *)
LEMMA StepsKept ==
  ASSUME NEW c \in Seq(Instruction), NEW m \in Mark, NEW c2 \in Seq(Instruction), NEW m2 \in Mark,
         Extends(c, m, c2, m2), NEW p \in DOMAIN c, Named(c, c[p].hs)
  PROVE  /\ Steps(Ext(c, m), p) => Steps(Ext(c2, m2), p)
         /\ c2[p].x = c[p].x /\ Lands(Ext(c, m), p) => Lands(Ext(c2, m2), p)
<1> DEFINE s == Ext(c, m)
           t == Ext(c2, m2)
<1>1. /\ DOMAIN s = 1..(Len(c) + 1) /\ DOMAIN c = 1..Len(c) /\ Len(c) \in Nat
      /\ \A q \in DOMAIN c : s[q] = c[q] /\ q + 1 \in DOMAIN s
      /\ s[Len(c) + 1].h = m.h /\ s[Len(c) + 1].hs = m.hs /\ s[Len(c) + 1].rf = m.rf
  BY ExtIs
<1>2. DOMAIN c2 \subseteq DOMAIN t /\ \A q \in DOMAIN c2 : t[q] = c2[q]
  <2>1. /\ DOMAIN c2 = 1..Len(c2) /\ DOMAIN t = 1..(Len(c2) + 1) /\ Len(c2) \in Nat
        /\ \A q \in DOMAIN c2 : t[q] = c2[q]
    BY ExtIs
  <2> HIDE DEF t
  <2> QED BY <2>1
<1>3. \A q \in DOMAIN s :
        q \in DOMAIN t /\ t[q].h = s[q].h /\ t[q].hs = s[q].hs /\ t[q].rf = s[q].rf
  <2> SUFFICES ASSUME NEW q \in DOMAIN s
               PROVE  q \in DOMAIN t /\ t[q].h = s[q].h /\ t[q].hs = s[q].hs /\ t[q].rf = s[q].rf
    OBVIOUS
  <2>1. CASE q \in DOMAIN c BY <1>1, <1>2, <2>1 DEF Extends
  <2>2. CASE q = Len(c) + 1 BY <1>1, <2>2 DEF Extends, Begun
  <2> QED BY <1>1, <2>1, <2>2
<1>4. \A q \in DOMAIN c : t[q].y = s[q].y BY <1>1, <1>2 DEF Extends
<1>5. /\ t[p].op = s[p].op /\ t[p].ty = s[p].ty /\ p \in DOMAIN s
      /\ s[p].op = "CALL" => t[p].x = s[p].x
      /\ c2[p].x = c[p].x => t[p].x = s[p].x
      /\ s[p].hs # <<>> => Top(s[p].hs) \in DOMAIN c
  BY <1>1, <1>2 DEF Extends, Named
<1> HIDE DEF s, t
<1>6. \A q, d : Flows(s, p, q, d) => Flows(t, p, q, d) BY <1>3, <1>5 DEF Flows
<1>7. \A h : Raises(s, p, h) => Raises(t, p, h)
  BY <1>1, <1>3, <1>5 DEF Raises
<1>8. ASSUME Steps(s, p) PROVE Steps(t, p)
  <2>1. p + 1 \in DOMAIN s BY <1>1
  <2>2. CASE s[p].op = "RETURN"
    <3>1. s[p].hs # <<>> => t[Top(s[p].hs)].y = s[Top(s[p].hs)].y BY <1>4, <1>5
    <3>2. /\ s[p].h >= 1 /\ s[p].rf = 0
          /\ s[p].hs # <<>> => LET e == Top(s[p].hs)  q == s[e].y IN
               q # 0 => /\ q \in DOMAIN s /\ s[q].h = s[p].h - 1
                        /\ s[q].hs = Drop(s[p].hs, 1) /\ s[q].rf = e
      BY <1>8, <2>2 DEF Steps
    <3> QED BY <1>3, <1>5, <2>2, <3>1, <3>2 DEF Steps
  <2>3. CASE s[p].op \in {"TRY_ENTER", "TRY_EXIT", "END_FINALLY"}
    BY <1>3, <1>5, <1>8, <2>1, <2>3 DEF Steps
  <2>4. CASE s[p].op \notin {"RETURN", "TRY_ENTER", "TRY_EXIT", "END_FINALLY"}
    <3>1. \A d : Flows(s, p, p + 1, d) => Flows(t, p, p + 1, d) BY <1>6
    <3>2. t[p].h = s[p].h /\ t[p].y = s[p].y BY <1>3, <1>4, <1>5
    <3> QED BY <1>5, <1>7, <1>8, <2>4, <3>1, <3>2 DEF Steps
  <2> QED BY <2>2, <2>3, <2>4
<1>9. ASSUME c2[p].x = c[p].x, Lands(s, p) PROVE Lands(t, p)
  BY <1>3, <1>5, <1>6, <1>9 DEF Lands
<1> QED BY <1>8, <1>9 DEF s, t

(* Code that extends other code keeps what was known of it.                *)
LEMMA ExtendsKeeps ==
  ASSUME NEW c \in Seq(Instruction), NEW m \in Mark, NEW c2 \in Seq(Instruction), NEW m2 \in Mark,
         Extends(c, m, c2, m2)
  PROVE  Keeps(c, m, c2, m2)
<1>1. /\ DOMAIN Ext(c, m) = 1..(Len(c) + 1) /\ DOMAIN c = 1..Len(c) /\ Len(c) \in Nat
      /\ \A q \in DOMAIN c : Ext(c, m)[q] = c[q]
      /\ LET i == Ext(c, m)[Len(c) + 1] IN i.h = m.h /\ i.hs = m.hs /\ i.rf = m.rf
  BY ExtIs
<1>2. /\ DOMAIN c2 \subseteq DOMAIN Ext(c2, m2)
      /\ \A q \in DOMAIN c2 : Ext(c2, m2)[q] = c2[q]
  <2>1. /\ DOMAIN Ext(c2, m2) = 1..(Len(c2) + 1) /\ DOMAIN c2 = 1..Len(c2) /\ Len(c2) \in Nat
        /\ \A q \in DOMAIN c2 : Ext(c2, m2)[q] = c2[q]
    BY ExtIs
  <2> QED BY <2>1
<1>3. ASSUME NEW q, NEW h, NEW ctx, Begun(c, m, q, h, ctx) PROVE Begun(c2, m2, q, h, ctx)
  <2>1. CASE q \in DOMAIN c BY <1>1, <1>2, <1>3, <2>1 DEF Begun, Extends
  <2>2. CASE q = Len(c) + 1 BY <1>1, <1>3, <2>2 DEF Begun, Extends
  <2> QED BY <1>1, <1>3, <2>1, <2>2 DEF Begun
<1>4. \A p, op, h, ctx : Waits(c, p, op, h, ctx) => Waits(c2, p, op, h, ctx) BY DEF Waits, Extends
<1>5. \A h, ctx : Guarded(c, ctx, h) => Guarded(c2, ctx, h) BY DEF Guarded, Extends
<1> QED BY <1>3, <1>4, <1>5 DEF Keeps

(* Code may grow step by step.                                             *)
LEMMA ExtendsOn ==
  ASSUME NEW c0, NEW m0, NEW c \in Seq(Instruction), NEW m \in Mark,
         NEW c2 \in Seq(Instruction), NEW m2 \in Mark,
         Extends(c0, m0, c, m), NoNewReturn(c0, c), Extends(c, m, c2, m2), NoNewReturn(c, c2)
  PROVE  Extends(c0, m0, c2, m2) /\ NoNewReturn(c0, c2)
<1>1. Keeps(c, m, c2, m2) BY ExtendsKeeps
<1>2. Begun(c2, m2, Len(c0) + 1, m0.h, m0) BY <1>1 DEF Extends, Keeps
<1>3. NoNewReturn(c0, c2) BY DEF NoNewReturn
<1> QED BY <1>2, <1>3 DEF Extends

(* The code of a chunk with one instruction more.                          *)
LEMMA OneMore ==
  ASSUME NEW c \in Seq(Instruction), NEW m \in Mark, NEW i \in Instruction, NEW m2 \in Mark,
         i.h = m.h, i.hs = m.hs, i.rf = m.rf
  PROVE  LET c2 == Append(c, i)
             s  == Ext(c2, m2)
             n  == Len(c) + 1
         IN  /\ c2 \in Seq(Instruction) /\ DOMAIN c2 = 1..n /\ Len(c2) = n /\ n \in Nat
             /\ DOMAIN c = 1..Len(c) /\ c2[n] = i /\ \A p \in DOMAIN c : c2[p] = c[p]
             /\ DOMAIN s = 1..(n + 1) /\ s[n] = i
             /\ s[n + 1].op = "POP" /\ s[n + 1].h = m2.h /\ s[n + 1].hs = m2.hs /\ s[n + 1].rf = m2.rf
             /\ \A p \in DOMAIN c : s[p] = c[p]
             /\ Extends(c, m, c2, m2)
<1> DEFINE c2 == Append(c, i)
           s == Ext(c2, m2)
           n == Len(c) + 1
<1>1. /\ c2 \in Seq(Instruction) /\ DOMAIN c2 = 1..n /\ Len(c2) = n /\ n \in Nat
      /\ DOMAIN c = 1..Len(c) /\ c2[n] = i /\ \A p \in DOMAIN c : c2[p] = c[p] /\ p \in 1..n
  OBVIOUS
<1>0. c2 \in Seq(Instruction) OBVIOUS
<1> HIDE DEF c2
<1>2. /\ DOMAIN s = 1..(n + 1) /\ \A p \in DOMAIN c2 : s[p] = c2[p]
      /\ LET j == s[n + 1] IN j.op = "POP" /\ j.h = m2.h /\ j.hs = m2.hs /\ j.rf = m2.rf
  <2>1. /\ DOMAIN s = 1..(Len(c2) + 1) /\ \A p \in DOMAIN c2 : s[p] = c2[p]
        /\ LET j == s[Len(c2) + 1] IN j.op = "POP" /\ j.h = m2.h /\ j.hs = m2.hs /\ j.rf = m2.rf
    BY <1>0, ExtIs
  <2> QED BY <1>1, <2>1
<1> HIDE DEF s
<1>3. s[n] = i /\ \A p \in DOMAIN c : s[p] = c[p] BY <1>1, <1>2
<1>4. Begun(c2, m2, n, m.h, m) BY <1>1, <1>2, <1>3 DEF Begun, s
<1>5. Extends(c, m, c2, m2) BY <1>1, <1>4 DEF Extends
<1> QED BY <1>1, <1>2, <1>3, <1>5 DEF c2, s

(* One instruction more keeps the code sound, if it is right itself.       *)
LEMMA Emitted ==
  ASSUME NEW c, NEW m, NEW W, Sound(c, m, W), NEW i \in Instruction, NEW m2 \in Mark,
         i.h = m.h, i.hs = m.hs, i.rf = m.rf, NEW V, W \subseteq V,
         Named(Append(c, i), m2.hs),
         Steps(Ext(Append(c, i), m2), Len(c) + 1),
         Len(c) + 1 \notin V => Lands(Ext(Append(c, i), m2), Len(c) + 1)
  PROVE  Sound(Append(c, i), m2, V) /\ Extends(c, m, Append(c, i), m2)
<1> DEFINE c2 == Append(c, i)
           s == Ext(c2, m2)
           n == Len(c) + 1
<1>0. c \in Seq(Instruction) /\ m \in Mark BY DEF Sound
<1>1. /\ c2 \in Seq(Instruction) /\ DOMAIN c2 = 1..n /\ n \in Nat /\ Len(c) \in Nat
      /\ DOMAIN c = 1..Len(c) /\ c2[n] = i /\ \A p \in DOMAIN c : c2[p] = c[p]
      /\ Extends(c, m, c2, m2)
  BY <1>0, OneMore
<1> HIDE DEF c2
<1>2. ASSUME NEW p \in DOMAIN c
      PROVE  /\ Named(c2, c2[p].hs) /\ Steps(s, p)
             /\ p \notin V => Lands(s, p)
  <2>1. Named(c, c[p].hs) /\ Steps(Ext(c, m), p) /\ (p \notin V => Lands(Ext(c, m), p))
    BY <1>2 DEF Sound
  <2>2. Steps(s, p) /\ (p \notin V => Lands(s, p)) BY <1>0, <1>1, <2>1, StepsKept
  <2>3. Named(c2, c2[p].hs) BY <1>1, <2>1 DEF Named, Extends
  <2> QED BY <2>2, <2>3
<1>3. Named(c2, i.hs) BY <1>1 DEF Named, Extends, Sound
<1>4. ASSUME NEW p \in DOMAIN c2
      PROVE  /\ Named(c2, c2[p].hs) /\ Steps(s, p)
             /\ p \notin V => Lands(s, p)
  <2>1. CASE p \in DOMAIN c BY <1>2, <2>1
  <2>2. CASE p = n BY <1>1, <1>3, <2>2 DEF c2
  <2> QED BY <1>1, <1>4, <2>1, <2>2
<1>5. s[1].h = 0 /\ s[1].hs = <<>>
  <2>1. Ext(c, m)[1].h = 0 /\ Ext(c, m)[1].hs = <<>> BY DEF Sound
  <2>2. 1 \in DOMAIN Ext(c, m) /\ Keeps(c, m, c2, m2) BY <1>0, <1>1, ExtIs, ExtendsKeeps
  <2>3. Begun(c, m, 1, 0, [hs |-> <<>>, rf |-> Ext(c, m)[1].rf]) BY <2>1, <2>2 DEF Begun
  <2>4. Begun(c2, m2, 1, 0, [hs |-> <<>>, rf |-> Ext(c, m)[1].rf])
    BY <2>2, <2>3 DEF Keeps
  <2> QED BY <2>4 DEF Begun
<1> QED BY <1>1, <1>4, <1>5 DEF Sound, c2

(* The instruction InsIn makes.                                            *)
LEMMA InsInIs ==
  ASSUME NEW ctx \in Context, NEW op \in Ops, NEW x \in Nat, NEW y \in Nat,
         NEW ty \in SUBSET ErrTypes, NEW h \in Nat
  PROVE  LET i == InsIn(ctx, op, x, y, ty, h) IN
         /\ i \in Instruction
         /\ i.op = op /\ i.x = x /\ i.y = y /\ i.ty = ty /\ i.h = h /\ i.hs = ctx.hs /\ i.rf = ctx.rf
BY DEF InsIn, Instruction, Context

(* The mark of a height and a context.                                     *)
LEMMA MarkInIs ==
  ASSUME NEW ctx \in Context, NEW h \in Nat
  PROVE  /\ MarkIn(h, ctx) \in Mark /\ MarkIn(h, ctx).h = h
         /\ MarkIn(h, ctx).hs = ctx.hs /\ MarkIn(h, ctx).rf = ctx.rf
BY DEF MarkIn, Mark, Context

(* The instruction i is right at the end of c, but for its target if it is *)
(* one of the holes V.                                                     *)
Fits(c, i, m, m2, V) ==
  LET s == Ext(Append(c, i), m2)
      n == Len(c) + 1
  IN  /\ n + 1 \in DOMAIN s /\ n \in DOMAIN s /\ s[n] = i
      /\ s[n + 1].h = m2.h /\ s[n + 1].hs = m2.hs /\ s[n + 1].rf = m2.rf
      /\ \A p \in DOMAIN c : s[p] = c[p]
      /\ Extends(c, m, Append(c, i), m2)
      => Steps(s, n) /\ (n \notin V => Lands(s, n))

(* One more instruction after grown code, whatever it is.                  *)
LEMMA Follows ==
  ASSUME NEW c0, NEW m0, NEW c, NEW m, NEW W, Grown(c0, m0, c, m, W),
         NEW i \in Instruction, i.op # "RETURN", i.h = m.h, i.hs = m.hs, i.rf = m.rf,
         NEW m2 \in Mark, Named(Append(c, i), m2.hs), NEW V, W \subseteq V, Fits(c, i, m, m2, V)
  PROVE  LET c2 == Append(c, i) IN
         /\ Grown(c0, m0, c2, m2, V) /\ Keeps(c, m, c2, m2)
         /\ c2 \in Seq(Instruction) /\ Len(c2) = Len(c) + 1 /\ Len(c) \in Nat
         /\ Waits(c2, Len(c) + 1, i.op, i.h, m)
<1> DEFINE c2 == Append(c, i)
           s == Ext(c2, m2)
           n == Len(c) + 1
<1>1. c \in Seq(Instruction) /\ Sound(c, m, W) /\ m \in Mark BY DEF Grown, Sound
<1>2. /\ c2 \in Seq(Instruction) /\ DOMAIN c2 = 1..n /\ Len(c2) = n /\ n \in Nat
      /\ DOMAIN c = 1..Len(c) /\ c2[n] = i /\ \A p \in DOMAIN c : c2[p] = c[p]
      /\ DOMAIN s = 1..(n + 1) /\ s[n] = i
      /\ s[n + 1].h = m2.h /\ s[n + 1].hs = m2.hs /\ s[n + 1].rf = m2.rf
      /\ \A p \in DOMAIN c : s[p] = c[p]
      /\ Extends(c, m, c2, m2)
  BY <1>1, OneMore
<1> HIDE DEF c2, s
<1>3. n + 1 \in DOMAIN s /\ n \in DOMAIN s BY <1>2
<1>4. Steps(s, n) /\ (n \notin V => Lands(s, n)) BY <1>2, <1>3 DEF Fits, c2, s
<1>5. Sound(c2, m2, V) BY <1>1, <1>4, Emitted DEF c2, s
<1>6. NoNewReturn(c, c2) /\ n \in DOMAIN c2
  <2>1. \A p \in DOMAIN c2 : p \in DOMAIN c \/ p = n BY <1>2
  <2> QED BY <1>2, <2>1 DEF NoNewReturn
<1>7. Extends(c0, m0, c2, m2) /\ NoNewReturn(c0, c2)
  BY <1>1, <1>2, <1>6, ExtendsOn DEF Grown
<1>8. Keeps(c, m, c2, m2) BY <1>1, <1>2, ExtendsKeeps
<1>9. Waits(c2, n, i.op, i.h, m) BY <1>2, <1>6 DEF Waits
<1>10. Grown(c0, m0, c2, m2, V) BY <1>5, <1>7 DEF Grown
<1>11. Len(c) \in Nat BY <1>1
<1> QED BY <1>2, <1>8, <1>9, <1>10, <1>11 DEF c2

(* An instruction that goes on in its context, at the height h2.           *)
LEMMA Continues ==
  ASSUME NEW c0, NEW m0, NEW c, NEW W, NEW ctx \in Context, NEW h \in Nat, NEW h2 \in Nat,
         Grown(c0, m0, c, MarkIn(h, ctx), W),
         NEW op \in Ops \ {"RETURN"}, NEW x \in Nat, NEW y \in Nat, NEW ty \in SUBSET ErrTypes,
         NEW V, W \subseteq V,
         Fits(c, InsIn(ctx, op, x, y, ty, h), MarkIn(h, ctx), MarkIn(h2, ctx), V)
  PROVE  LET c2 == Append(c, InsIn(ctx, op, x, y, ty, h)) IN
         /\ Grown(c0, m0, c2, MarkIn(h2, ctx), V)
         /\ Keeps(c, MarkIn(h, ctx), c2, MarkIn(h2, ctx))
         /\ c2 \in Seq(Instruction) /\ Len(c2) = Len(c) + 1 /\ Len(c) \in Nat
         /\ Waits(c2, Len(c) + 1, op, h, ctx)
<1> DEFINE i == InsIn(ctx, op, x, y, ty, h)
           m == MarkIn(h, ctx)
           m2 == MarkIn(h2, ctx)
<1>1. /\ i \in Instruction /\ i.op = op /\ i.h = m.h /\ i.hs = m.hs /\ i.rf = m.rf /\ i.h = h
      /\ m \in Mark /\ m2 \in Mark /\ m2.hs = m.hs /\ m.hs = ctx.hs /\ m.rf = ctx.rf
  BY InsInIs, MarkInIs
<1>2. Grown(c0, m0, c, m, W) /\ Fits(c, i, m, m2, V) OBVIOUS
<1> HIDE DEF i, m, m2
<1>3. i.op # "RETURN" BY <1>1
<1>4. c \in Seq(Instruction) /\ Named(c, m.hs) BY <1>2 DEF Grown, Sound
<1>5. Named(Append(c, i), m2.hs)
  <2>1. \A p \in DOMAIN c : p \in DOMAIN Append(c, i) /\ Append(c, i)[p] = c[p] BY <1>1, <1>4
  <2> QED BY <1>1, <1>4, <2>1 DEF Named
<1>6. LET c2 == Append(c, i) IN
      /\ Grown(c0, m0, c2, m2, V) /\ Keeps(c, m, c2, m2)
      /\ c2 \in Seq(Instruction) /\ Len(c2) = Len(c) + 1 /\ Len(c) \in Nat
      /\ Waits(c2, Len(c) + 1, i.op, i.h, m)
  BY <1>1, <1>2, <1>3, <1>5, Follows
<1>7. Waits(Append(c, i), Len(c) + 1, op, h, ctx) BY <1>1, <1>6 DEF Waits
<1> QED BY <1>6, <1>7 DEF i, m, m2

(* One more instruction of the context ctx, after which the height is h2.  *)
Emit(c0, m0, c, W, ctx, op, x, y, ty, h, h2, V) ==
  LET c2 == Append(c, InsIn(ctx, op, x, y, ty, h)) IN
  /\ Grown(c0, m0, c2, MarkIn(h2, ctx), V)
  /\ Keeps(c, MarkIn(h, ctx), c2, MarkIn(h2, ctx))
  /\ c2 \in Seq(Instruction) /\ Len(c2) = Len(c) + 1 /\ Len(c) \in Nat
  /\ Waits(c2, Len(c) + 1, op, h, ctx)

(* Instructions that cannot fail, and what they leave of the stack.        *)
Adds(op, y, h, h2) ==
  \/ op \in {"CONSTANT", "NOTYPE"} /\ h2 = h + 1
  \/ op = "GET_LOCAL" /\ y < h /\ h2 = h + 1
  \/ op = "SET_LOCAL" /\ y < h /\ h2 = h
  \/ op \in {"POP", "DEFINE_VAR"} /\ h = h2 + 1
  \/ op = "POP2_PUSH" /\ h >= 2 /\ h = h2 + 1
  \/ op = "CATCH" /\ h >= 1 /\ h2 = h + 1

(* An instruction that goes on to the next one and cannot fail.            *)
LEMMA Plain ==
  ASSUME NEW c0, NEW m0, NEW c, NEW W, NEW ctx \in Context, NEW h \in Nat, NEW h2 \in Nat,
         Grown(c0, m0, c, MarkIn(h, ctx), W),
         NEW op \in Ops \ {"RETURN"}, NEW x \in Nat, NEW y \in Nat, NEW ty \in SUBSET ErrTypes,
         Adds(op, y, h, h2)
  PROVE  Emit(c0, m0, c, W, ctx, op, x, y, ty, h, h2, W)
<1>1. Fits(c, InsIn(ctx, op, x, y, ty, h), MarkIn(h, ctx), MarkIn(h2, ctx), W)
  <2> DEFINE i == InsIn(ctx, op, x, y, ty, h)
             s == Ext(Append(c, i), MarkIn(h2, ctx))
             n == Len(c) + 1
  <2>1. i.op = op /\ i.y = y /\ i.h = h /\ i.hs = ctx.hs /\ i.rf = ctx.rf BY InsInIs
  <2> HIDE DEF i, s
  <2> SUFFICES ASSUME /\ n + 1 \in DOMAIN s /\ n \in DOMAIN s /\ s[n] = i
                      /\ s[n + 1].h = h2 /\ s[n + 1].hs = ctx.hs /\ s[n + 1].rf = ctx.rf
               PROVE  Steps(s, n) /\ Lands(s, n)
    BY MarkInIs DEF Fits, i, s
  <2> HIDE DEF n
  <2>2. \A d \in Int : h2 = h + d => Flows(s, n, n + 1, d) BY <2>1 DEF Flows
  <2>3. Steps(s, n) BY <2>1, <2>2 DEF Steps, Adds
  <2>4. Lands(s, n) BY <2>1 DEF Lands, Adds, Branches
  <2> QED BY <2>3, <2>4
<1> QED BY <1>1, Continues DEF Emit

(* Instructions that may raise an error with the stack at height g.        *)
Fails(op, x, y, ty, h, h2, g) ==
  \/ op = "NATIVE" /\ g <= h /\ h2 = h + 1
  \/ op = "CALL" /\ x \in Funcs /\ h >= 1 /\ g <= h /\ h2 = h
  \/ op = "SKIP_ITER" /\ y < h2 /\ g <= h2 /\ h = h2 + 1
  \/ op = "THROW" /\ ty # {} /\ g <= h2 /\ h = h2 + 2
  \/ op = "RETHROW" /\ g <= h2 /\ h = h2 + 1

(* An instruction that may raise an error.                                 *)
LEMMA Raising ==
  ASSUME NEW c0, NEW m0, NEW c, NEW W, NEW ctx \in Context, NEW h \in Nat, NEW h2 \in Nat,
         Grown(c0, m0, c, MarkIn(h, ctx), W),
         NEW op \in Ops \ {"RETURN"}, NEW x \in Nat, NEW y \in Nat, NEW ty \in SUBSET ErrTypes,
         NEW g \in Nat, Guarded(c, ctx, g), Fails(op, x, y, ty, h, h2, g)
  PROVE  Emit(c0, m0, c, W, ctx, op, x, y, ty, h, h2, W)
<1>1. Fits(c, InsIn(ctx, op, x, y, ty, h), MarkIn(h, ctx), MarkIn(h2, ctx), W)
  <2> DEFINE i == InsIn(ctx, op, x, y, ty, h)
             s == Ext(Append(c, i), MarkIn(h2, ctx))
             n == Len(c) + 1
  <2>1. /\ i.op = op /\ i.y = y /\ i.h = h /\ i.hs = ctx.hs /\ i.rf = ctx.rf
        /\ i.x = x /\ i.ty = ty
    BY InsInIs
  <2> HIDE DEF i, s
  <2> SUFFICES ASSUME /\ n + 1 \in DOMAIN s /\ n \in DOMAIN s /\ s[n] = i
                      /\ s[n + 1].h = h2 /\ s[n + 1].hs = ctx.hs /\ s[n + 1].rf = ctx.rf
                      /\ \A p \in DOMAIN c : s[p] = c[p]
               PROVE  Steps(s, n) /\ Lands(s, n)
    BY MarkInIs DEF Fits, i, s
  <2> HIDE DEF n
  <2>2. \A d \in Int : h2 = h + d => Flows(s, n, n + 1, d) BY <2>1 DEF Flows
  <2>3. \A k \in Nat : g <= k => Raises(s, n, k)
    <3>1. ctx.hs # <<>> => s[Top(ctx.hs)].h = c[Top(ctx.hs)].h /\ c[Top(ctx.hs)].h \in Nat
      <4>1. c \in Seq(Instruction) BY DEF Grown, Sound
      <4>2. \A p \in DOMAIN c : c[p].h \in Nat BY <4>1, InstrTypes
      <4> QED BY <4>2 DEF Guarded
    <3> QED BY <2>1, <3>1 DEF Raises, Guarded
  <2>4. Steps(s, n)
    <3>1. CASE op = "NATIVE" BY <2>1, <2>2, <2>3, <3>1 DEF Steps, Fails
    <3>2. CASE op = "CALL" BY <2>1, <2>2, <2>3, <3>2 DEF Steps, Fails
    <3>3. CASE op = "SKIP_ITER" BY <2>1, <2>2, <2>3, <3>3 DEF Steps, Fails
    <3>4. CASE op = "THROW"
      <4>1. /\ i.h >= 2 /\ i.ty # {} /\ Raises(s, n, i.h - 2) /\ h2 = h + (-2)
        BY <2>1, <2>3, <3>4 DEF Fails
      <4> QED BY <2>1, <2>2, <3>4, <4>1 DEF Steps
    <3>5. CASE op = "RETHROW"
      <4>1. i.h >= 1 /\ Raises(s, n, i.h - 1) /\ h2 = h + (-1) BY <2>1, <2>3, <3>5 DEF Fails
      <4> QED BY <2>1, <2>2, <3>5, <4>1 DEF Steps
    <3> QED BY <3>1, <3>2, <3>3, <3>4, <3>5 DEF Fails
  <2>5. Lands(s, n) BY <2>1 DEF Lands, Fails, Branches
  <2> QED BY <2>4, <2>5
<1> QED BY <1>1, Continues DEF Emit

(* A jump forward, to be patched; any height may come next.                *)
LEMMA Jumped ==
  ASSUME NEW c0, NEW m0, NEW c, NEW W, NEW ctx \in Context, NEW h \in Nat, NEW h2 \in Nat,
         Grown(c0, m0, c, MarkIn(h, ctx), W), NEW x \in Nat
  PROVE  Emit(c0, m0, c, W, ctx, "JUMP", x, 0, {}, h, h2, W \cup {Len(c) + 1})
<1>1. "JUMP" \in Ops \ {"RETURN"} BY DEF Ops
<1>2. Fits(c, InsIn(ctx, "JUMP", x, 0, {}, h), MarkIn(h, ctx), MarkIn(h2, ctx), W \cup {Len(c) + 1})
  <2> DEFINE i == InsIn(ctx, "JUMP", x, 0, {}, h)
             s == Ext(Append(c, i), MarkIn(h2, ctx))
             n == Len(c) + 1
  <2>1. i.op = "JUMP" BY <1>1, InsInIs, SMTT(30)
  <2> HIDE DEF i, s
  <2> SUFFICES ASSUME s[n] = i PROVE Steps(s, n) BY MarkInIs DEF Fits, i, s
  <2> HIDE DEF n
  <2> QED BY <2>1 DEF Steps
<1>3. W \subseteq W \cup {Len(c) + 1} /\ 0 \in Nat /\ {} \in SUBSET ErrTypes OBVIOUS
<1> QED BY <1>1, <1>2, <1>3, Continues DEF Emit

(* A conditional jump forward, to be patched.                              *)
LEMMA Branched ==
  ASSUME NEW c0, NEW m0, NEW c, NEW W, NEW ctx \in Context, NEW h \in Nat, NEW h2 \in Nat,
         Grown(c0, m0, c, MarkIn(h, ctx), W),
         NEW op \in Ops \ {"RETURN"}, NEW x \in Nat, NEW y \in Nat, NEW ty \in SUBSET ErrTypes,
         NEW g \in Nat,
         \/ op = "JUMP_IF_FALSE" /\ h >= 1 /\ h2 = h
         \/ op = "JUMP_IF_NOT_LT" /\ y < h /\ h2 = h /\ Guarded(c, ctx, g) /\ g <= h
         \/ op = "FOR_ITER" /\ h >= 1 + y /\ h2 = h + y /\ Guarded(c, ctx, g) /\ g <= h
  PROVE  Emit(c0, m0, c, W, ctx, op, x, y, ty, h, h2, W \cup {Len(c) + 1})
<1>1. Fits(c, InsIn(ctx, op, x, y, ty, h), MarkIn(h, ctx), MarkIn(h2, ctx), W \cup {Len(c) + 1})
  <2> DEFINE i == InsIn(ctx, op, x, y, ty, h)
             s == Ext(Append(c, i), MarkIn(h2, ctx))
             n == Len(c) + 1
  <2>1. i.op = op /\ i.y = y /\ i.h = h /\ i.hs = ctx.hs /\ i.rf = ctx.rf BY InsInIs
  <2> HIDE DEF i, s
  <2> SUFFICES ASSUME /\ n + 1 \in DOMAIN s /\ n \in DOMAIN s /\ s[n] = i
                      /\ s[n + 1].h = h2 /\ s[n + 1].hs = ctx.hs /\ s[n + 1].rf = ctx.rf
                      /\ \A p \in DOMAIN c : s[p] = c[p]
               PROVE  Steps(s, n)
    BY MarkInIs DEF Fits, i, s
  <2> HIDE DEF n
  <2>2. \A d \in Int : h2 = h + d => Flows(s, n, n + 1, d) BY <2>1 DEF Flows
  <2>3. Guarded(c, ctx, g) /\ g <= h => Raises(s, n, h)
    <3>1. Guarded(c, ctx, g) /\ ctx.hs # <<>> =>
            s[Top(ctx.hs)].h = c[Top(ctx.hs)].h /\ c[Top(ctx.hs)].h \in Nat
      <4>1. c \in Seq(Instruction) BY DEF Grown, Sound
      <4>2. \A p \in DOMAIN c : c[p].h \in Nat BY <4>1, InstrTypes
      <4> QED BY <4>2 DEF Guarded
    <3> QED BY <2>1, <3>1 DEF Raises, Guarded
  <2> QED BY <2>1, <2>2, <2>3 DEF Steps
<1>2. W \subseteq W \cup {Len(c) + 1} OBVIOUS
<1> QED BY <1>1, <1>2, Continues DEF Emit

(* JUMP_IF_FALSE leaves a hole.                                            *)
LEMMA BranchedIf ==
  ASSUME NEW c0, NEW m0, NEW c, NEW W, NEW ctx \in Context, NEW h \in Nat,
         Grown(c0, m0, c, MarkIn(h, ctx), W), h >= 1
  PROVE  Emit(c0, m0, c, W, ctx, "JUMP_IF_FALSE", 0, 0, {}, h, h, W \cup {Len(c) + 1})
<1>1. "JUMP_IF_FALSE" \in Ops \ {"RETURN"} /\ 0 \in Nat /\ {} \in SUBSET ErrTypes BY DEF Ops
<1> QED BY <1>1, Branched

(* A jump back to a place already compiled.                                *)
LEMMA JumpedBack ==
  ASSUME NEW c0, NEW m0, NEW c, NEW W, NEW ctx \in Context, NEW h \in Nat, NEW h2 \in Nat,
         Grown(c0, m0, c, MarkIn(h, ctx), W),
         NEW q \in Nat, Begun(c, MarkIn(h, ctx), q, h, ctx)
  PROVE  Emit(c0, m0, c, W, ctx, "LOOP", q, 0, {}, h, h2, W)
<1>1. "LOOP" \in Ops \ {"RETURN"} BY DEF Ops
<1>2. Fits(c, InsIn(ctx, "LOOP", q, 0, {}, h), MarkIn(h, ctx), MarkIn(h2, ctx), W)
  <2> DEFINE i == InsIn(ctx, "LOOP", q, 0, {}, h)
             m == MarkIn(h, ctx)
             m2 == MarkIn(h2, ctx)
             s == Ext(Append(c, i), m2)
             n == Len(c) + 1
  <2>1. i.op = "LOOP" /\ i.x = q /\ i.h = h /\ i.hs = ctx.hs /\ i.rf = ctx.rf /\ i \in Instruction
    BY <1>1, InsInIs
  <2>2. c \in Seq(Instruction) /\ Append(c, i) \in Seq(Instruction) BY <2>1 DEF Grown, Sound
  <2>3. m \in Mark /\ m2 \in Mark BY MarkInIs
  <2> SUFFICES ASSUME s[n] = i, Extends(c, m, Append(c, i), m2)
               PROVE  Steps(s, n) /\ Lands(s, n)
    BY DEF Fits
  <2> HIDE DEF i, m, m2
  <2>4. Begun(Append(c, i), m2, q, h, ctx)
    <3>1. Keeps(c, m, Append(c, i), m2) BY <2>2, <2>3, ExtendsKeeps
    <3>2. Begun(c, m, q, h, ctx) BY DEF m
    <3> QED BY <3>1, <3>2 DEF Keeps
  <2>5. q \in DOMAIN s /\ s[q].h = h /\ s[q].hs = ctx.hs /\ s[q].rf = ctx.rf BY <2>4 DEF Begun
  <2> HIDE DEF s, n
  <2>6. Flows(s, n, q, 0) BY <2>1, <2>5 DEF Flows
  <2>7. Steps(s, n) BY <2>1 DEF Steps
  <2>8. Lands(s, n) BY <2>1, <2>6 DEF Lands, Branches
  <2> QED BY <2>7, <2>8
<1>3. W \subseteq W /\ 0 \in Nat /\ {} \in SUBSET ErrTypes OBVIOUS
<1> QED BY <1>1, <1>2, <1>3, Continues DEF Emit

(* An instruction at height h that takes the code from the context ctx to *)
(* the context ctx2.                                                       *)
Leads(c0, m0, c, ctx, op, h, ctx2, V) ==
  LET c2 == Append(c, InsIn(ctx, op, 0, 0, {}, h)) IN
  /\ Grown(c0, m0, c2, MarkIn(h, ctx2), V)
  /\ Keeps(c, MarkIn(h, ctx), c2, MarkIn(h, ctx2))
  /\ c2 \in Seq(Instruction) /\ Len(c2) = Len(c) + 1 /\ Len(c) \in Nat
  /\ Waits(c2, Len(c) + 1, op, h, ctx) /\ c2[Len(c) + 1].y = 0

(* OP_TRY_ENTER: what follows stands in the body, and the target is a hole. *)
LEMMA TryEntered ==
  ASSUME NEW c0, NEW m0, NEW c, NEW W, NEW ctx \in Context, NEW h \in Nat, ctx.rf = 0,
         Grown(c0, m0, c, MarkIn(h, ctx), W),
         NEW ctx2 \in Context, ctx2.hs = Append(ctx.hs, Len(c) + 1), ctx2.rf = 0
  PROVE  Leads(c0, m0, c, ctx, "TRY_ENTER", h, ctx2, W \cup {Len(c) + 1})
<1> DEFINE i == InsIn(ctx, "TRY_ENTER", 0, 0, {}, h)
           m == MarkIn(h, ctx)
           m2 == MarkIn(h, ctx2)
           n == Len(c) + 1
<1>0. "TRY_ENTER" \in Ops BY DEF Ops
<1>1. /\ i \in Instruction /\ i.op = "TRY_ENTER" /\ i.h = m.h /\ i.hs = m.hs /\ i.rf = m.rf
      /\ i.h = h /\ i.rf = 0 /\ i.y = 0
      /\ m \in Mark /\ m2 \in Mark /\ m2.h = h /\ m2.hs = Append(m.hs, n) /\ m2.rf = 0
  <2>1. /\ m \in Mark /\ m2 \in Mark /\ m2.h = h /\ m2.hs = ctx2.hs /\ m2.rf = 0
        /\ m.h = h /\ m.hs = ctx.hs /\ m.rf = 0
    BY MarkInIs
  <2>2. /\ i \in Instruction /\ i.op = "TRY_ENTER" /\ i.h = h /\ i.hs = ctx.hs /\ i.rf = 0 /\ i.y = 0
    BY <1>0, InsInIs
  <2> QED BY <2>1, <2>2
<1>2. Grown(c0, m0, c, m, W) /\ c \in Seq(Instruction) BY DEF Grown, Sound
<1>3. m.hs \in Seq(Nat) /\ n \in Nat BY <1>1, <1>2 DEF Mark
<1> HIDE DEF i, m, m2
<1>4. Fits(c, i, m, m2, W \cup {n})
  <2> DEFINE s == Ext(Append(c, i), m2)
  <2> SUFFICES ASSUME n + 1 \in DOMAIN s, s[n] = i, s[n + 1].h = m2.h, s[n + 1].hs = m2.hs
               PROVE  Steps(s, n)
    BY DEF Fits
  <2> HIDE DEF s, n
  <2> QED BY <1>1 DEF Steps
<1>5. Append(c, i)[n] = i /\ n \in DOMAIN Append(c, i) BY <1>1, <1>2
<1>6. Named(Append(c, i), m2.hs)
  <2>1. Top(m2.hs) = n /\ Drop(m2.hs, 1) = m.hs BY <1>1, <1>3 DEF Top, Drop
  <2> QED BY <1>1, <1>5, <2>1 DEF Named
<1>7. LET c2 == Append(c, i) IN
      /\ Grown(c0, m0, c2, m2, W \cup {n}) /\ Keeps(c, m, c2, m2)
      /\ c2 \in Seq(Instruction) /\ Len(c2) = Len(c) + 1 /\ Len(c) \in Nat
      /\ Waits(c2, Len(c) + 1, i.op, i.h, m)
  <2>1. W \subseteq W \cup {n} OBVIOUS
  <2>2. i.op # "RETURN" BY <1>1
  <2> HIDE DEF n
  <2> QED BY <1>1, <1>2, <1>4, <1>6, <2>1, <2>2, Follows
<1>8. Waits(Append(c, i), Len(c) + 1, "TRY_ENTER", h, ctx) BY <1>1, <1>7 DEF Waits, m, MarkIn
<1> QED BY <1>1, <1>5, <1>7, <1>8 DEF Leads, i, m, m2

(* OP_TRY_EXIT: what follows stands outside the body.                      *)
LEMMA TryExited ==
  ASSUME NEW c0, NEW m0, NEW c, NEW W, NEW ctx \in Context, NEW h \in Nat,
         ctx.rf = 0, ctx.hs # <<>>,
         Grown(c0, m0, c, MarkIn(h, ctx), W),
         NEW ctx2 \in Context, ctx2.hs = Drop(ctx.hs, 1), ctx2.rf = 0
  PROVE  Leads(c0, m0, c, ctx, "TRY_EXIT", h, ctx2, W)
<1> DEFINE i == InsIn(ctx, "TRY_EXIT", 0, 0, {}, h)
           m == MarkIn(h, ctx)
           m2 == MarkIn(h, ctx2)
           n == Len(c) + 1
<1>0. "TRY_EXIT" \in Ops BY DEF Ops
<1>1. /\ i \in Instruction /\ i.op = "TRY_EXIT" /\ i.h = m.h /\ i.hs = m.hs /\ i.rf = m.rf
      /\ i.h = h /\ i.rf = 0 /\ i.hs # <<>> /\ i.y = 0
      /\ m \in Mark /\ m2 \in Mark /\ m2.h = h /\ m2.hs = Drop(m.hs, 1) /\ m2.rf = 0
  <2>1. /\ m \in Mark /\ m2 \in Mark /\ m2.h = h /\ m2.hs = ctx2.hs /\ m2.rf = 0
        /\ m.h = h /\ m.hs = ctx.hs /\ m.rf = 0
    BY MarkInIs
  <2>2. i.op = "TRY_EXIT" /\ i.h = h /\ i.hs = ctx.hs /\ i.rf = 0 /\ i.y = 0 BY DEF InsIn
  <2>3. i \in Instruction BY <1>0, InsInIs
  <2> QED BY <2>1, <2>2, <2>3
<1>2. Grown(c0, m0, c, m, W) /\ c \in Seq(Instruction) /\ Sound(c, m, W) BY DEF Grown, Sound
<1> HIDE DEF i, m, m2
<1>4. Fits(c, i, m, m2, W)
  <2> DEFINE s == Ext(Append(c, i), m2)
  <2> SUFFICES ASSUME n + 1 \in DOMAIN s, s[n] = i, s[n + 1].h = m2.h, s[n + 1].hs = m2.hs
               PROVE  Steps(s, n) /\ Lands(s, n)
    BY DEF Fits
  <2> HIDE DEF s, n
  <2> QED BY <1>1 DEF Steps, Lands, Branches
<1>5. \A p \in DOMAIN c : p \in DOMAIN Append(c, i) /\ Append(c, i)[p] = c[p] BY <1>1, <1>2
<1>6. Named(Append(c, i), m2.hs)
  <2>1. Named(c, m.hs) /\ m.hs # <<>> BY <1>1, <1>2 DEF Sound
  <2>2. Top(m.hs) \in DOMAIN c /\ c[Top(m.hs)].hs = m2.hs BY <1>1, <2>1 DEF Named
  <2>3. Named(c, m2.hs) BY <1>2, <2>2 DEF Sound
  <2> QED BY <1>5, <2>3 DEF Named
<1>7. LET c2 == Append(c, i) IN
      /\ Grown(c0, m0, c2, m2, W) /\ Keeps(c, m, c2, m2)
      /\ c2 \in Seq(Instruction) /\ Len(c2) = Len(c) + 1 /\ Len(c) \in Nat
      /\ Waits(c2, Len(c) + 1, i.op, i.h, m)
  BY <1>1, <1>2, <1>4, <1>6, Follows
<1>8. Waits(Append(c, i), Len(c) + 1, "TRY_EXIT", h, ctx) BY <1>1, <1>7 DEF Waits, m, MarkIn
<1>9. Append(c, i)[Len(c) + 1].y = 0 BY <1>1, <1>2
<1> QED BY <1>7, <1>8, <1>9 DEF Leads, i, m, m2

(* OP_END_FINALLY: a return that was under way is over.                    *)
LEMMA FinallyEnded ==
  ASSUME NEW c0, NEW m0, NEW c, NEW W, NEW ctx \in Context, NEW h \in Nat,
         Grown(c0, m0, c, MarkIn(h, ctx), W),
         NEW ctx2 \in Context, ctx2.hs = ctx.hs
  PROVE  Leads(c0, m0, c, ctx, "END_FINALLY", h, ctx2, W)
<1> DEFINE i == InsIn(ctx, "END_FINALLY", 0, 0, {}, h)
           m == MarkIn(h, ctx)
           m2 == MarkIn(h, ctx2)
           n == Len(c) + 1
<1>0. "END_FINALLY" \in Ops BY DEF Ops
<1>1. /\ i \in Instruction /\ i.op = "END_FINALLY" /\ i.h = m.h /\ i.hs = m.hs /\ i.rf = m.rf
      /\ i.h = h /\ i.y = 0
      /\ m \in Mark /\ m2 \in Mark /\ m2.h = h /\ m2.hs = m.hs
  BY <1>0, InsInIs, MarkInIs
<1>2. Grown(c0, m0, c, m, W) /\ c \in Seq(Instruction) /\ Sound(c, m, W) BY DEF Grown, Sound
<1> HIDE DEF i, m, m2
<1>4. Fits(c, i, m, m2, W)
  <2> DEFINE s == Ext(Append(c, i), m2)
  <2> SUFFICES ASSUME n + 1 \in DOMAIN s, s[n] = i, s[n + 1].h = m2.h, s[n + 1].hs = m2.hs
               PROVE  Steps(s, n) /\ Lands(s, n)
    BY DEF Fits
  <2> HIDE DEF s, n
  <2> QED BY <1>1 DEF Steps, Lands, Branches
<1>5. \A p \in DOMAIN c : p \in DOMAIN Append(c, i) /\ Append(c, i)[p] = c[p] BY <1>1, <1>2
<1>6. Named(Append(c, i), m2.hs)
  <2>1. Named(c, m2.hs) BY <1>1, <1>2 DEF Sound
  <2> QED BY <1>5, <2>1 DEF Named
<1>7. LET c2 == Append(c, i) IN
      /\ Grown(c0, m0, c2, m2, W) /\ Keeps(c, m, c2, m2)
      /\ c2 \in Seq(Instruction) /\ Len(c2) = Len(c) + 1 /\ Len(c) \in Nat
      /\ Waits(c2, Len(c) + 1, i.op, i.h, m)
  BY <1>1, <1>2, <1>4, <1>6, Follows
<1>8. Waits(Append(c, i), Len(c) + 1, "END_FINALLY", h, ctx) BY <1>1, <1>7 DEF Waits, m, MarkIn
<1>9. Append(c, i)[Len(c) + 1].y = 0 BY <1>1, <1>2
<1> QED BY <1>7, <1>8, <1>9 DEF Leads, i, m, m2

(* OP_RETURN, in a body whose try statement has no finally block yet.      *)
LEMMA ReturnAdded ==
  ASSUME NEW c, NEW W, NEW ctx \in Context, NEW h \in Nat, NEW h2 \in Nat,
         h >= 1, ctx.rf = 0, ctx.hs # <<>> => c[Top(ctx.hs)].y = 0,
         Sound(c, MarkIn(h, ctx), W)
  PROVE  LET c2 == Append(c, InsIn(ctx, "RETURN", 0, 0, {}, h)) IN
         /\ Sound(c2, MarkIn(h2, ctx), W)
         /\ Extends(c, MarkIn(h, ctx), c2, MarkIn(h2, ctx))
         /\ c2 \in Seq(Instruction)
<1> DEFINE i == InsIn(ctx, "RETURN", 0, 0, {}, h)
           m == MarkIn(h, ctx)
           m2 == MarkIn(h2, ctx)
           n == Len(c) + 1
<1>0. "RETURN" \in Ops BY DEF Ops
<1>1. /\ i \in Instruction /\ i.op = "RETURN" /\ i.h = m.h /\ i.hs = m.hs /\ i.rf = m.rf
      /\ i.h = h /\ i.rf = 0 /\ i.hs = ctx.hs
      /\ m \in Mark /\ m2 \in Mark /\ m2.hs = m.hs /\ m.hs = ctx.hs
  <2>1. /\ m \in Mark /\ m2 \in Mark /\ m2.hs = ctx.hs
        /\ m.h = h /\ m.hs = ctx.hs /\ m.rf = 0
    BY MarkInIs
  <2>2. i \in Instruction /\ i.op = "RETURN" /\ i.h = h /\ i.hs = ctx.hs /\ i.rf = 0
    BY <1>0, InsInIs
  <2> QED BY <2>1, <2>2
<1>2. c \in Seq(Instruction) /\ Sound(c, m, W) BY DEF Sound
<1> HIDE DEF i, m, m2
<1>3. Named(c, ctx.hs) BY <1>1, <1>2 DEF Sound
<1> DEFINE s == Ext(Append(c, i), m2)
<1>4. Append(c, i) \in Seq(Instruction) /\ s[n] = i /\ \A p \in DOMAIN c : s[p] = c[p]
  <2>1. i \in Instruction /\ m \in Mark /\ m2 \in Mark /\ i.h = m.h /\ i.hs = m.hs /\ i.rf = m.rf BY <1>1
  <2> QED BY <1>2, <2>1, OneMore
<1>5. Steps(s, n) /\ Lands(s, n)
  <2>1. ctx.hs # <<>> => s[Top(ctx.hs)].y = 0 BY <1>3, <1>4 DEF Named
  <2>2. s[n] = i BY <1>4
  <2> HIDE DEF s, n
  <2> QED BY <1>1, <2>1, <2>2 DEF Steps, Lands, Branches
<1>6. \A p \in DOMAIN c : p \in DOMAIN Append(c, i) /\ Append(c, i)[p] = c[p] BY <1>1, <1>2
<1>7. Named(Append(c, i), m2.hs) BY <1>1, <1>3, <1>6 DEF Named
<1>8. Sound(Append(c, i), m2, W) /\ Extends(c, m, Append(c, i), m2)
  BY <1>1, <1>2, <1>5, <1>7, Emitted
<1> QED BY <1>4, <1>8 DEF i, m, m2

(* Patching changes the target of an instruction and nothing else.         *)
LEMMA Retargeted ==
  ASSUME NEW i \in Instruction, NEW n \in Nat
  PROVE  LET j == [i EXCEPT !.x = n] IN
         /\ j \in Instruction /\ j.op = i.op /\ j.y = i.y /\ j.ty = i.ty
         /\ j.h = i.h /\ j.hs = i.hs /\ j.rf = i.rf /\ j.x = n
BY DEF Instruction

(* The target at p is right when it is the end of the code c.              *)
Aimed(c, m, p) ==
  /\ p \in DOMAIN c /\ c[p].hs = m.hs
  /\ \/ c[p].op \in Branches /\ c[p].h = m.h /\ c[p].rf = m.rf
     \/ c[p].op = "TRY_ENTER" /\ c[p].h + 1 = m.h

AllAimed(c, m, A) == \A p \in A : Aimed(c, m, p)

(* A set of holes patched to the end of the code is filled.                *)
LEMMA PatchedThere ==
  ASSUME NEW c0, NEW m0, NEW c, NEW W, NEW m,
         Grown(c0, m0, c, m, W), NEW A, AllAimed(c, m, A)
  PROVE  /\ Grown(c0, m0, Patch(c, A), m, W \ A)
         /\ Keeps(c, m, Patch(c, A), m)
         /\ Patch(c, A) \in Seq(Instruction) /\ Len(Patch(c, A)) = Len(c) /\ Len(c) \in Nat
<1> DEFINE c2 == Patch(c, A)
           s == Ext(c2, m)
           n == Len(c) + 1
<1>1. c \in Seq(Instruction) /\ Sound(c, m, W) /\ m \in Mark BY DEF Grown, Sound
<1>2. n \in Nat /\ DOMAIN c = 1..Len(c) /\ Len(c) \in Nat BY <1>1
<1>3. /\ c2 \in Seq(Instruction) /\ DOMAIN c2 = DOMAIN c /\ Len(c2) = Len(c)
      /\ \A p \in DOMAIN c : c2[p] = IF p \in A THEN [c[p] EXCEPT !.x = n] ELSE c[p]
  <2>1. \A p \in DOMAIN c : [c[p] EXCEPT !.x = n] \in Instruction
    <3> SUFFICES ASSUME NEW p \in DOMAIN c PROVE [c[p] EXCEPT !.x = n] \in Instruction OBVIOUS
    <3>1. c[p] \in Instruction BY <1>1
    <3> QED BY <1>2, <3>1, Retargeted
  <2>2. c2 = [p \in DOMAIN c |-> IF p \in A THEN [c[p] EXCEPT !.x = n] ELSE c[p]]
    BY DEF Patch, Here
  <2> QED BY <1>1, <1>2, <2>1, <2>2
<1> HIDE DEF c2
<1>4. \A p \in DOMAIN c :
        /\ c2[p].op = c[p].op /\ c2[p].y = c[p].y /\ c2[p].ty = c[p].ty
        /\ c2[p].h = c[p].h /\ c2[p].hs = c[p].hs /\ c2[p].rf = c[p].rf
        /\ p \notin A => c2[p].x = c[p].x
        /\ p \in A => c2[p].x = n
  <2> SUFFICES ASSUME NEW p \in DOMAIN c
               PROVE  /\ c2[p].op = c[p].op /\ c2[p].y = c[p].y /\ c2[p].ty = c[p].ty
                      /\ c2[p].h = c[p].h /\ c2[p].hs = c[p].hs /\ c2[p].rf = c[p].rf
                      /\ p \notin A => c2[p].x = c[p].x
                      /\ p \in A => c2[p].x = n
    OBVIOUS
  <2>1. c[p] \in Instruction BY <1>1
  <2>2. LET j == [c[p] EXCEPT !.x = n] IN
        /\ j.op = c[p].op /\ j.y = c[p].y /\ j.ty = c[p].ty
        /\ j.h = c[p].h /\ j.hs = c[p].hs /\ j.rf = c[p].rf /\ j.x = n
    BY <1>2, <2>1, Retargeted
  <2> QED BY <1>3, <2>2
<1>5. \A p \in A :
        /\ p \in DOMAIN c /\ c[p].hs = m.hs
        /\ \/ c[p].op \in Branches /\ c[p].h = m.h /\ c[p].rf = m.rf
           \/ c[p].op = "TRY_ENTER" /\ c[p].h + 1 = m.h
  BY DEF AllAimed, Aimed
<1>6. /\ DOMAIN s = 1..n /\ \A p \in DOMAIN c : s[p] = c2[p]
      /\ s[n].h = m.h /\ s[n].hs = m.hs /\ s[n].rf = m.rf
  <2>1. /\ DOMAIN s = 1..(Len(c2) + 1) /\ \A p \in DOMAIN c2 : s[p] = c2[p]
        /\ LET j == s[Len(c2) + 1] IN j.op = "POP" /\ j.h = m.h /\ j.hs = m.hs /\ j.rf = m.rf
    BY <1>1, <1>3, ExtIs
  <2> QED BY <1>3, <2>1
<1> HIDE DEF s
<1>7. Extends(c, m, c2, m)
  <2>1. \A p \in A : c[p].op # "CALL" BY <1>5 DEF Branches
  <2>2. \A p \in DOMAIN c : c[p].op = "CALL" => c2[p].x = c[p].x BY <1>4, <2>1
  <2>3. Begun(c2, m, n, m.h, m) BY <1>2, <1>6 DEF Begun, s
  <2> QED BY <1>3, <1>4, <2>2, <2>3 DEF Extends
<1>8. Keeps(c, m, c2, m) BY <1>1, <1>3, <1>7, ExtendsKeeps
<1>9. ASSUME NEW p \in DOMAIN c
      PROVE  /\ Named(c2, c2[p].hs) /\ Steps(s, p)
             /\ p \notin W \ A => Lands(s, p)
  <2>1. Named(c, c[p].hs) /\ Steps(Ext(c, m), p) /\ (p \notin W => Lands(Ext(c, m), p))
    BY <1>1 DEF Sound
  <2>2. Named(c2, c2[p].hs) BY <1>3, <1>4, <2>1 DEF Named
  <2>3. Steps(s, p) BY <1>1, <1>3, <1>7, <2>1, StepsKept DEF s
  <2>4. CASE p \in A
    <3>1. n \in DOMAIN s BY <1>2, <1>6
    <3>2. s[p].hs = m.hs /\ s[p].x = n /\ s[p].op = c[p].op BY <1>4, <1>5, <1>6, <2>4
    <3>3. CASE c[p].op \in Branches /\ c[p].h = m.h /\ c[p].rf = m.rf
      <4>1. s[p].h = m.h /\ s[p].rf = m.rf BY <1>4, <1>5, <1>6, <2>4, <3>3
      <4>2. m.h \in Nat BY <1>1 DEF Mark
      <4>3. Flows(s, p, n, 0) BY <1>6, <3>1, <3>2, <4>1, <4>2 DEF Flows
      <4>4. s[p].op # "TRY_ENTER" BY <3>2, <3>3 DEF Branches
      <4>5. Lands(s, p) BY <3>2, <4>3, <4>4 DEF Lands
      <4> QED BY <2>2, <2>3, <4>5
    <3>4. CASE c[p].op = "TRY_ENTER" /\ c[p].h + 1 = m.h
      <4>1. s[p].h + 1 = m.h BY <1>4, <1>5, <1>6, <2>4, <3>4
      <4>2. s[p].op \notin Branches BY <3>2, <3>4 DEF Branches
      <4>3. Lands(s, p) BY <1>6, <3>1, <3>2, <4>1, <4>2 DEF Lands
      <4> QED BY <2>2, <2>3, <4>3
    <3> QED BY <1>5, <2>4, <3>3, <3>4
  <2>5. CASE p \notin A
    <3>1. c2[p].x = c[p].x BY <1>4, <2>5
    <3>2. Lands(Ext(c, m), p) => Lands(s, p) BY <1>1, <1>3, <1>7, <2>1, <3>1, StepsKept DEF s
    <3> QED BY <2>1, <2>2, <2>3, <2>5, <3>2
  <2> QED BY <2>4, <2>5
<1>10. s[1].h = 0 /\ s[1].hs = <<>>
  <2>1. Ext(c, m)[1].h = 0 /\ Ext(c, m)[1].hs = <<>> BY <1>1 DEF Sound
  <2>2. 1 \in DOMAIN Ext(c, m) BY <1>1, ExtIs
  <2>3. Begun(c, m, 1, 0, [hs |-> <<>>, rf |-> Ext(c, m)[1].rf]) BY <2>1, <2>2 DEF Begun
  <2>4. Begun(c2, m, 1, 0, [hs |-> <<>>, rf |-> Ext(c, m)[1].rf]) BY <1>8, <2>3 DEF Keeps
  <2> QED BY <2>4 DEF Begun, s
<1>11. Named(c2, m.hs) BY <1>1, <1>3, <1>4 DEF Named, Sound
<1>12. Sound(c2, m, W \ A) BY <1>1, <1>3, <1>9, <1>10, <1>11 DEF Sound, s
<1>13. NoNewReturn(c, c2) BY <1>3, <1>4 DEF NoNewReturn
<1>14. Grown(c0, m0, c2, m, W \ A)
  <2>1. Extends(c0, m0, c, m) /\ NoNewReturn(c0, c) BY DEF Grown
  <2>2. Extends(c0, m0, c2, m) /\ NoNewReturn(c0, c2)
    BY <1>1, <1>3, <1>7, <1>13, <2>1, ExtendsOn
  <2> QED BY <1>12, <2>2 DEF Grown
<1> QED BY <1>2, <1>3, <1>8, <1>14 DEF c2

(* Jumps patched to land at the end of the code.                           *)
AllWait(c, A, h, ctx) == \A p \in A : \E op \in Branches : Waits(c, p, op, h, ctx)

(* The same for holes that wait in a context at a height.                  *)
LEMMA Patched ==
  ASSUME NEW c0, NEW m0, NEW c, NEW W, NEW ctx \in Context, NEW h \in Nat,
         Grown(c0, m0, c, MarkIn(h, ctx), W),
         NEW A, AllWait(c, A, h, ctx)
  PROVE  /\ Grown(c0, m0, Patch(c, A), MarkIn(h, ctx), W \ A)
         /\ Keeps(c, MarkIn(h, ctx), Patch(c, A), MarkIn(h, ctx))
         /\ Patch(c, A) \in Seq(Instruction) /\ Len(Patch(c, A)) = Len(c) /\ Len(c) \in Nat
<1>1. AllAimed(c, MarkIn(h, ctx), A) BY MarkInIs DEF AllAimed, Aimed, AllWait, Waits
<1> QED BY <1>1, PatchedThere

(* The catch address of a try statement patched to the end of the code.    *)
LEMMA TryPatched ==
  ASSUME NEW c0, NEW m0, NEW c, NEW W, NEW ctx \in Context, NEW h \in Nat,
         Grown(c0, m0, c, MarkIn(h + 1, ctx), W),
         NEW e, Waits(c, e, "TRY_ENTER", h, ctx)
  PROVE  LET c2 == [c EXCEPT ![e].x = Here(c)] IN
         /\ Grown(c0, m0, c2, MarkIn(h + 1, ctx), W \ {e})
         /\ Keeps(c, MarkIn(h + 1, ctx), c2, MarkIn(h + 1, ctx))
         /\ c2 \in Seq(Instruction) /\ Len(c2) = Len(c) /\ Len(c) \in Nat
<1>1. Aimed(c, MarkIn(h + 1, ctx), e)
  <2>1. LET m == MarkIn(h + 1, ctx) IN m.h = h + 1 /\ m.hs = ctx.hs BY MarkInIs
  <2> QED BY <2>1 DEF Aimed, Waits
<1>2. [c EXCEPT ![e].x = Here(c)] = Patch(c, {e})
  <2>1. e \in DOMAIN c /\ c \in Seq(Instruction) BY DEF Waits, Grown, Sound
  <2> QED BY <2>1 DEF Patch
<1>3. AllAimed(c, MarkIn(h + 1, ctx), {e}) BY <1>1 DEF AllAimed
<1>4. /\ Grown(c0, m0, Patch(c, {e}), MarkIn(h + 1, ctx), W \ {e})
      /\ Keeps(c, MarkIn(h + 1, ctx), Patch(c, {e}), MarkIn(h + 1, ctx))
      /\ Patch(c, {e}) \in Seq(Instruction) /\ Len(Patch(c, {e})) = Len(c) /\ Len(c) \in Nat
  BY <1>3, PatchedThere
<1> QED BY <1>2, <1>4

(* More holes may be allowed than there are.                               *)
LEMMA MoreHoles ==
  ASSUME NEW c0, NEW m0, NEW c, NEW m, NEW W, Grown(c0, m0, c, m, W), NEW V,
         \A p \in W \ V : Lands(Ext(c, m), p)
  PROVE  Grown(c0, m0, c, m, V)
BY DEF Grown, Sound

(* Code without new instructions has grown from itself.                    *)
LEMMA NotGrown ==
  ASSUME NEW c, NEW m, NEW W, Sound(c, m, W)
  PROVE  Grown(c, m, c, m, W) /\ c \in Seq(Instruction) /\ m \in Mark /\ Len(c) \in Nat
<1>1. c \in Seq(Instruction) /\ m \in Mark BY DEF Sound
<1>2. Begun(c, m, Len(c) + 1, m.h, m) BY <1>1, ExtIs DEF Begun
<1>3. Extends(c, m, c, m) BY <1>2 DEF Extends
<1> QED BY <1>1, <1>3 DEF Grown, NoNewReturn

(* The finally address of a try statement set to the end of the code: every *)
(* return it intercepts finds its way there.                               *)
Entered(c, m, W, e, m2) ==
  LET c2 == [c EXCEPT ![e].y = Here(c)] IN
  /\ Sound(c2, m2, W) /\ DOMAIN c2 = DOMAIN c
  /\ \A p \in DOMAIN c :
       /\ c2[p].op = c[p].op /\ c2[p].h = c[p].h /\ c2[p].hs = c[p].hs /\ c2[p].rf = c[p].rf
       /\ p # e => c2[p].y = c[p].y
  /\ \A q \in DOMAIN c : \A h, ctx : Begun(c, m, q, h, ctx) => Begun(c2, m2, q, h, ctx)

(* TRY_ENTER told where the finally block begins: the returns inside the   *)
(* body enter it.                                                          *)
LEMMA FinallyBegun ==
  ASSUME NEW c, NEW m, NEW W, Sound(c, m, W), m.rf = 0,
         NEW e, Waits(c, e, "TRY_ENTER", m.h, m), c[e].y = 0,
         NEW m2 \in Mark, m2.h = m.h, m2.hs = m.hs,
         \A p \in DOMAIN c :
           c[p].op = "RETURN" /\ c[p].hs # <<>> /\ Top(c[p].hs) = e =>
             c[p].h = m.h + 1 /\ m2.rf = e
  PROVE  Entered(c, m, W, e, m2)
<1> DEFINE c2 == [c EXCEPT ![e].y = Here(c)]
           s == Ext(c, m)
           t == Ext(c2, m2)
           n == Len(c) + 1
<1>1. c \in Seq(Instruction) /\ m \in Mark /\ e \in DOMAIN c BY DEF Sound, Waits
<1>2. n \in Nat \ {0} /\ DOMAIN c = 1..Len(c) /\ Len(c) \in Nat /\ n \notin DOMAIN c BY <1>1
<1>3. \A p \in DOMAIN c : LET j == [c[p] EXCEPT !.y = n] IN
        /\ j \in Instruction /\ j.op = c[p].op /\ j.x = c[p].x /\ j.ty = c[p].ty
        /\ j.h = c[p].h /\ j.hs = c[p].hs /\ j.rf = c[p].rf /\ j.y = n
  <2> SUFFICES ASSUME NEW i \in Instruction
               PROVE  LET j == [i EXCEPT !.y = n] IN
                      /\ j \in Instruction /\ j.op = i.op /\ j.x = i.x /\ j.ty = i.ty
                      /\ j.h = i.h /\ j.hs = i.hs /\ j.rf = i.rf /\ j.y = n
    BY <1>1
  <2> QED BY <1>2 DEF Instruction
<1>4. /\ c2 \in Seq(Instruction) /\ DOMAIN c2 = DOMAIN c /\ Len(c2) = Len(c)
      /\ \A p \in DOMAIN c : c2[p] = IF p = e THEN [c[p] EXCEPT !.y = n] ELSE c[p]
  <2>1. c2 = [p \in DOMAIN c |-> IF p = e THEN [c[p] EXCEPT !.y = n] ELSE c[p]]
    BY <1>1 DEF Here
  <2>2. \A p \in DOMAIN c : (IF p = e THEN [c[p] EXCEPT !.y = n] ELSE c[p]) \in Instruction
    BY <1>1, <1>3
  <2> HIDE DEF c2
  <2> QED BY <1>1, <1>2, <2>1, <2>2
<1> HIDE DEF c2
<1>5. \A p \in DOMAIN c :
        /\ c2[p].op = c[p].op /\ c2[p].x = c[p].x /\ c2[p].ty = c[p].ty
        /\ c2[p].h = c[p].h /\ c2[p].hs = c[p].hs /\ c2[p].rf = c[p].rf
        /\ p # e => c2[p].y = c[p].y
        /\ p = e => c2[p].y = n
  <2> SUFFICES ASSUME NEW p \in DOMAIN c
               PROVE  /\ c2[p].op = c[p].op /\ c2[p].x = c[p].x /\ c2[p].ty = c[p].ty
                      /\ c2[p].h = c[p].h /\ c2[p].hs = c[p].hs /\ c2[p].rf = c[p].rf
                      /\ p # e => c2[p].y = c[p].y
                      /\ p = e => c2[p].y = n
    OBVIOUS
  <2>1. CASE p # e BY <1>4, <2>1
  <2>2. CASE p = e
    <3>1. c2[p] = [c[p] EXCEPT !.y = n] BY <1>4, <2>2
    <3> QED BY <1>3, <2>2, <3>1
  <2> QED BY <2>1, <2>2
<1>6. /\ DOMAIN s = 1..n /\ \A p \in DOMAIN c : s[p] = c[p] /\ p \in DOMAIN s /\ p + 1 \in DOMAIN s /\ p # n
      /\ s[n].h = m.h /\ s[n].hs = m.hs /\ s[n].rf = 0
  <2>1. /\ DOMAIN s = 1..n /\ \A p \in DOMAIN c : s[p] = c[p]
        /\ LET j == s[n] IN j.op = "POP" /\ j.h = m.h /\ j.hs = m.hs /\ j.rf = m.rf
    <3>1. c \in Seq(Instruction) /\ m \in Mark BY <1>1
    <3>2. /\ DOMAIN Ext(c, m) = 1..(Len(c) + 1)
          /\ \A p \in DOMAIN c : Ext(c, m)[p] = c[p]
          /\ LET j == Ext(c, m)[Len(c) + 1] IN j.op = "POP" /\ j.h = m.h /\ j.hs = m.hs /\ j.rf = m.rf
      BY ONLY <3>1, ExtIs
    <3> QED BY <3>2
  <2>2. \A p \in DOMAIN c : p \in 1..n /\ p + 1 \in 1..n /\ p # n BY <1>2
  <2> QED BY <2>1, <2>2
<1>7. /\ DOMAIN t = 1..n /\ \A p \in DOMAIN c : t[p] = c2[p]
      /\ t[n].h = m2.h /\ t[n].hs = m2.hs /\ t[n].rf = m2.rf
  <2>1. /\ DOMAIN t = 1..(Len(c2) + 1) /\ \A p \in DOMAIN c2 : t[p] = c2[p]
        /\ LET j == t[Len(c2) + 1] IN j.op = "POP" /\ j.h = m2.h /\ j.hs = m2.hs /\ j.rf = m2.rf
    BY <1>4, ExtIs
  <2> QED BY <1>4, <2>1
<1> HIDE DEF s, t
<1>8. \A q \in 1..n : q \in DOMAIN c \/ q = n BY <1>2
<1>9. \A q \in 1..n : /\ t[q].h = s[q].h /\ t[q].hs = s[q].hs
                      /\ q # n => t[q].rf = s[q].rf
  BY <1>5, <1>6, <1>7, <1>8
<1>10. ASSUME NEW p \in DOMAIN c
       PROVE  Named(c2, c2[p].hs) /\ Steps(t, p) /\ (p \notin W => Lands(t, p))
  <2>1. Named(c, c[p].hs) /\ Steps(s, p) /\ (p \notin W => Lands(s, p)) BY DEF Sound, s
  <2>2. Named(c2, c2[p].hs) BY <1>4, <1>5, <2>1 DEF Named
  <2>3. /\ t[p].op = s[p].op /\ t[p].x = s[p].x /\ t[p].ty = s[p].ty /\ t[p].rf = s[p].rf
        /\ t[p].h = s[p].h /\ t[p].hs = s[p].hs /\ p \in DOMAIN s /\ p # n /\ p + 1 \in DOMAIN s
        /\ s[p] = c[p]
    BY <1>5, <1>6, <1>7
  <2>4. \A q, d : Flows(s, p, q, d) => Flows(t, p, q, d)
    <3> SUFFICES ASSUME NEW q, NEW d, Flows(s, p, q, d) PROVE Flows(t, p, q, d) OBVIOUS
    <3>1. q \in 1..n /\ s[q].h = s[p].h + d /\ s[q].hs = s[p].hs /\ (s[p].rf # 0 => s[q].rf = s[p].rf)
      BY <1>6 DEF Flows
    <3>2. s[p].rf # 0 => t[q].rf = t[p].rf BY <1>6, <1>9, <2>3, <3>1
    <3> QED BY <1>7, <1>9, <2>3, <3>1, <3>2 DEF Flows
  <2>5. \A h : Raises(s, p, h) => Raises(t, p, h)
    <3>1. s[p].hs # <<>> => Top(s[p].hs) \in DOMAIN c BY <2>1, <2>3 DEF Named
    <3> QED BY SMTT(60), <1>5, <1>6, <1>7, <2>3, <3>1 DEF Raises
  <2>6. Steps(t, p)
    <3>1. CASE s[p].op = "RETURN"
      <4>1. /\ s[p].h >= 1 /\ s[p].rf = 0
            /\ s[p].hs # <<>> => LET f == Top(s[p].hs)  q == s[f].y IN
                 q # 0 => /\ q \in DOMAIN s /\ s[q].h = s[p].h - 1
                          /\ s[q].hs = Drop(s[p].hs, 1) /\ s[q].rf = f
        BY <2>1, <3>1 DEF Steps
      <4>2. CASE s[p].hs # <<>>
        <5> DEFINE f == Top(s[p].hs)
        <5>1. f \in DOMAIN c /\ c[f].hs = Drop(s[p].hs, 1) /\ f # 0
          BY <1>2, <2>1, <2>3, <4>2 DEF Named
        <5>2. CASE f = e
          <6>1. t[f].y = n BY <1>5, <1>7, <5>1, <5>2
          <6>2. c[p].h = m.h + 1 /\ m2.rf = e BY <2>3, <3>1, <4>2, <5>2
          <6>3. n \in DOMAIN t /\ m.h \in Nat BY <1>1, <1>2, <1>7 DEF Mark
          <6>4. t[n].hs = Drop(t[p].hs, 1)
            <7>1. c[e].hs = m.hs BY DEF Waits
            <7> QED BY <1>7, <2>3, <5>1, <5>2, <7>1
          <6>5. t[n].h = t[p].h - 1 /\ t[n].rf = f BY <1>7, <2>3, <5>2, <6>2, <6>3
          <6> HIDE DEF f
          <6>6. Top(t[p].hs) = f BY <2>3 DEF f
          <6> QED BY <2>3, <3>1, <4>1, <6>1, <6>3, <6>4, <6>5, <6>6 DEF Steps
        <5>3. CASE f # e
          <6>1. t[f].y = s[f].y BY <1>5, <1>6, <1>7, <5>1, <5>3
          <6> DEFINE q == s[f].y
          <6>2. CASE q # 0
            <7>1. q \in 1..n /\ s[q].h = s[p].h - 1 /\ s[q].hs = Drop(s[p].hs, 1) /\ s[q].rf = f
              BY <1>6, <4>1, <4>2, <6>2
            <7>2. q # n BY <1>6, <5>1, <7>1
            <7>3. q \in DOMAIN t /\ t[q].h = t[p].h - 1 /\ t[q].hs = Drop(t[p].hs, 1) /\ t[q].rf = f
              BY <1>7, <1>9, <2>3, <7>1, <7>2
            <7>4. Top(t[p].hs) = f /\ t[f].y = q BY <2>3, <6>1
            <7> HIDE DEF f, q
            <7> QED BY <2>3, <3>1, <4>1, <7>3, <7>4 DEF Steps
          <6>3. CASE q = 0 BY <2>3, <3>1, <4>1, <6>1, <6>3 DEF Steps
          <6> QED BY <6>2, <6>3
        <5> QED BY <5>2, <5>3
      <4>3. CASE s[p].hs = <<>> BY <2>3, <3>1, <4>1, <4>3 DEF Steps
      <4> QED BY <4>2, <4>3
    <3>2. CASE s[p].op \in {"TRY_ENTER", "TRY_EXIT", "END_FINALLY"}
      BY <1>6, <1>7, <1>9, <2>1, <2>3, <3>2 DEF Steps
    <3>3. CASE s[p].op \notin {"RETURN", "TRY_ENTER", "TRY_EXIT", "END_FINALLY"}
      <4>1. \A d : Flows(s, p, p + 1, d) => Flows(t, p, p + 1, d) BY <2>4
      <4>2. p # e BY <2>3, <3>3 DEF Waits
      <4>3. t[p].y = s[p].y BY <1>5, <1>6, <1>7, <4>2
      <4> QED BY <2>1, <2>3, <2>5, <3>3, <4>1, <4>3 DEF Steps
    <3> QED BY <3>1, <3>2, <3>3
  <2>7. Lands(s, p) => Lands(t, p) BY <1>6, <1>7, <1>9, <2>3, <2>4 DEF Lands
  <2> QED BY <2>1, <2>2, <2>6, <2>7
<1>11. t[1].h = 0 /\ t[1].hs = <<>>
  <2>1. s[1].h = 0 /\ s[1].hs = <<>> BY DEF Sound, s
  <2> QED BY <1>2, <1>9, <2>1
<1>12. Named(c2, m2.hs)
  <2>1. Named(c, m.hs) BY DEF Sound
  <2> QED BY <1>4, <1>5, <2>1 DEF Named
<1>13. Sound(c2, m2, W) BY <1>4, <1>10, <1>11, <1>12 DEF Sound, t
<1>14. \A q \in DOMAIN c : \A h, ctx : Begun(c, m, q, h, ctx) => Begun(c2, m2, q, h, ctx)
  BY <1>2, <1>6, <1>7, <1>9 DEF Begun, s, t
<1> QED BY <1>4, <1>5, <1>13, <1>14 DEF c2, Entered

(* A run of OP_POP.                                                        *)
LEMMA Popped ==
  ASSUME NEW c0, NEW m0, NEW c, NEW W, Ctx \in Context, NEW h \in Nat, NEW n \in Nat, n <= h,
         Grown(c0, m0, c, MarkIn(h, Ctx), W)
  PROVE  LET c2 == c \o Pops(n, h) IN
         /\ Grown(c0, m0, c2, MarkIn(h - n, Ctx), W)
         /\ Keeps(c, MarkIn(h, Ctx), c2, MarkIn(h - n, Ctx))
         /\ c2 \in Seq(Instruction) /\ Len(c2) = Len(c) + n /\ Len(c) \in Nat
<1> DEFINE c2 == c \o Pops(n, h)
           m == MarkIn(h, Ctx)
           m2 == MarkIn(h - n, Ctx)
           s == Ext(c, m)
           t == Ext(c2, m2)
           L == Len(c)
<1>1. /\ c \in Seq(Instruction) /\ L \in Nat /\ DOMAIN c = 1..L /\ Sound(c, m, W)
      /\ m \in Mark /\ m.h = h /\ m.hs = Ctx.hs /\ m.rf = Ctx.rf
  BY MarkInIs DEF Grown, Sound
<1>2. m2 \in Mark /\ m2.h = h - n /\ m2.hs = Ctx.hs /\ m2.rf = Ctx.rf BY MarkInIs
<1>3. \A k \in 1..n : LET i == Pops(n, h)[k] IN
        i \in Instruction /\ i.op = "POP" /\ i.h = h - k + 1 /\ i.hs = Ctx.hs /\ i.rf = Ctx.rf
  <2> SUFFICES ASSUME NEW k \in 1..n
               PROVE  LET i == InsIn(Ctx, "POP", 0, 0, {}, h - k + 1) IN
                      i \in Instruction /\ i.op = "POP" /\ i.h = h - k + 1 /\ i.hs = Ctx.hs /\ i.rf = Ctx.rf
    BY DEF Pops, Ins
  <2>1. h - k + 1 \in Nat /\ "POP" \in Ops BY DEF Ops
  <2> QED BY <2>1, InsInIs
<1>4. Pops(n, h) \in Seq(Instruction) /\ Len(Pops(n, h)) = n
  <2>1. Pops(n, h) \in [1..n -> Instruction] BY <1>3 DEF Pops
  <2> QED BY <2>1
<1>5. /\ c2 \in Seq(Instruction) /\ Len(c2) = L + n /\ DOMAIN c2 = 1..(L + n)
      /\ \A p \in DOMAIN c : c2[p] = c[p]
      /\ \A k \in 1..n : c2[L + k] = Pops(n, h)[k]
  BY <1>1, <1>4
<1> HIDE DEF c2, m, m2
<1>6. /\ DOMAIN s = 1..(L + 1) /\ \A p \in DOMAIN c : s[p] = c[p]
      /\ s[L + 1].h = m.h /\ s[L + 1].hs = m.hs /\ s[L + 1].rf = m.rf
  BY SMTT(60), <1>1, ExtIs
<1>7. /\ DOMAIN t = 1..(L + n + 1) /\ \A p \in DOMAIN c2 : t[p] = c2[p]
      /\ t[L + n + 1].h = m2.h /\ t[L + n + 1].hs = m2.hs /\ t[L + n + 1].rf = m2.rf
  <2>1. /\ DOMAIN t = 1..(Len(c2) + 1) /\ \A p \in DOMAIN c2 : t[p] = c2[p]
        /\ LET j == t[Len(c2) + 1] IN j.op = "POP" /\ j.h = m2.h /\ j.hs = m2.hs /\ j.rf = m2.rf
    BY SMTT(60), <1>2, <1>5, ExtIs
  <2> QED BY <1>5, <2>1
<1> HIDE DEF s, t
<1>8. \A k \in 1..(n + 1) : t[L + k].h = h - k + 1 /\ t[L + k].hs = Ctx.hs /\ t[L + k].rf = Ctx.rf
  <2> SUFFICES ASSUME NEW k \in 1..(n + 1)
               PROVE  t[L + k].h = h - k + 1 /\ t[L + k].hs = Ctx.hs /\ t[L + k].rf = Ctx.rf
    OBVIOUS
  <2>1. CASE k = n + 1 BY <1>1, <1>2, <1>7, <2>1
  <2>2. CASE k \in 1..n
    <3>1. L + k \in DOMAIN c2 BY <1>1, <1>5, <2>2
    <3> QED BY SMTT(60), <1>3, <1>5, <1>7, <2>2, <3>1
  <2> QED BY <2>1, <2>2
<1>9. Extends(c, m, c2, m2)
  <2>1. Begun(c2, m2, L + 1, m.h, m)
    <3>1. 1 \in 1..(n + 1) /\ L + 1 \in DOMAIN t BY <1>1, <1>7
    <3>2. t[L + 1].h = h - 1 + 1 /\ t[L + 1].hs = Ctx.hs /\ t[L + 1].rf = Ctx.rf BY <1>8, <3>1
    <3> QED BY <1>1, <3>1, <3>2 DEF Begun, t
  <2>2. DOMAIN c \subseteq DOMAIN c2 BY <1>1, <1>5
  <2> QED BY <1>5, <2>1, <2>2 DEF Extends
<1>10. Keeps(c, m, c2, m2) BY <1>1, <1>2, <1>5, <1>9, ExtendsKeeps
<1>11. \A p \in DOMAIN c2 : p \in DOMAIN c \/ \E k \in 1..n : p = L + k
  <2> SUFFICES ASSUME NEW p \in DOMAIN c2, p \notin DOMAIN c PROVE \E k \in 1..n : p = L + k OBVIOUS
  <2>1. p - L \in 1..n /\ p = L + (p - L) BY <1>1, <1>5
  <2> QED BY <2>1
<1>12. Named(c2, Ctx.hs)
  <2>1. Named(c, Ctx.hs) BY <1>1 DEF Sound
  <2> QED BY <1>9, <2>1 DEF Named, Extends
<1>13. ASSUME NEW p \in DOMAIN c2
       PROVE  Named(c2, c2[p].hs) /\ Steps(t, p) /\ (p \notin W => Lands(t, p))
  <2>1. CASE p \in DOMAIN c
    <3>1. Named(c, c[p].hs) /\ Steps(s, p) /\ (p \notin W => Lands(s, p)) BY <1>1, <2>1 DEF Sound, s
    <3>2. Steps(t, p) /\ (p \notin W => Lands(t, p))
      BY <1>1, <1>2, <1>5, <1>9, <2>1, <3>1, StepsKept DEF s, t
    <3>3. Named(c2, c2[p].hs) BY <1>9, <2>1, <3>1 DEF Named, Extends
    <3> QED BY <3>2, <3>3
  <2>2. CASE p \notin DOMAIN c
    <3>1. PICK k \in 1..n : p = L + k BY <1>11, <2>2
    <3>2. c2[p].op = "POP" /\ c2[p].h = h - k + 1 /\ c2[p].hs = Ctx.hs /\ c2[p].rf = Ctx.rf
      BY <1>3, <1>5, <3>1
    <3>3. t[p] = c2[p] BY <1>7
    <3>4. /\ p + 1 \in DOMAIN t /\ t[p + 1].h = h - k /\ t[p + 1].hs = Ctx.hs /\ t[p + 1].rf = Ctx.rf
      <4>1. k + 1 \in 1..(n + 1) /\ p + 1 = L + (k + 1) /\ h - (k + 1) + 1 = h - k BY <1>1, <3>1
      <4>2. t[L + (k + 1)].h = h - k /\ t[L + (k + 1)].hs = Ctx.hs /\ t[L + (k + 1)].rf = Ctx.rf
        BY <1>8, <4>1
      <4>3. p + 1 \in DOMAIN t BY <1>1, <1>7, <3>1
      <4> QED BY <4>1, <4>2, <4>3
    <3>5. Flows(t, p, p + 1, -1) /\ t[p].h >= 1
      <4>1. h - k = h - k + 1 + (-1) /\ h - k + 1 >= 1 OBVIOUS
      <4> QED BY <3>2, <3>3, <3>4, <4>1 DEF Flows
    <3>6. Steps(t, p) BY <3>2, <3>3, <3>5 DEF Steps
    <3>7. Lands(t, p) BY <3>2, <3>3 DEF Lands, Branches
    <3> QED BY <1>12, <3>2, <3>6, <3>7
  <2> QED BY <2>1, <2>2
<1>14. t[1].h = 0 /\ t[1].hs = <<>>
  <2>1. s[1].h = 0 /\ s[1].hs = <<>> BY <1>1 DEF Sound, s
  <2>2. 1 \in DOMAIN s BY <1>1, <1>6
  <2>3. Begun(c, m, 1, 0, [hs |-> <<>>, rf |-> s[1].rf]) BY <2>1, <2>2 DEF Begun, s
  <2>4. Begun(c2, m2, 1, 0, [hs |-> <<>>, rf |-> s[1].rf]) BY <1>10, <2>3 DEF Keeps
  <2> QED BY <2>4 DEF Begun, t
<1>15. Sound(c2, m2, W) BY <1>2, <1>5, <1>12, <1>13, <1>14 DEF Sound, t
<1>16. NoNewReturn(c, c2)
  <2>1. \A k \in 1..n : c2[L + k].op = "POP" BY <1>3, <1>5
  <2>2. \A p \in DOMAIN c2 : p \notin DOMAIN c => c2[p].op = "POP" BY <1>11, <2>1
  <2> QED BY <1>5, <2>2 DEF NoNewReturn
<1>17. Grown(c0, m0, c2, m2, W)
  <2>1. Extends(c0, m0, c, m) /\ NoNewReturn(c0, c) BY DEF Grown, m
  <2>2. Extends(c0, m0, c2, m2) /\ NoNewReturn(c0, c2) BY <1>1, <1>2, <1>5, <1>9, <1>16, <2>1, ExtendsOn
  <2> QED BY <1>15, <2>2 DEF Grown
<1> QED BY <1>1, <1>5, <1>10, <1>17 DEF c2, m, m2

(* The instructions that are added one at a time.                          *)
LEMMA OpsAre ==
  /\ {"CONSTANT", "NOTYPE", "NATIVE", "GET_LOCAL", "SET_LOCAL", "POP", "POP2_PUSH", "DEFINE_VAR",
      "JUMP", "LOOP", "JUMP_IF_FALSE", "JUMP_IF_NOT_LT", "FOR_ITER", "CALL", "TRY_ENTER", "TRY_EXIT",
      "THROW", "CATCH", "RETHROW", "END_FINALLY", "SKIP_ITER"} \subseteq Ops \ {"RETURN"}
  /\ 0 \in Nat /\ {} \in SUBSET ErrTypes
BY DEF Ops

(* CONSTANT is such an instruction.                                        *)
LEMMA ConstantAdded ==
  ASSUME NEW c0, NEW m0, NEW c, NEW W, NEW ctx \in Context, NEW h \in Nat,
         Grown(c0, m0, c, MarkIn(h, ctx), W)
  PROVE  Emit(c0, m0, c, W, ctx, "CONSTANT", 0, 0, {}, h, h + 1, W)
<1>1. Adds("CONSTANT", 0, h, h + 1) /\ h + 1 \in Nat BY DEF Adds
<1> QED BY <1>1, OpsAre, Plain

(* POP is such an instruction.                                             *)
LEMMA PopAdded ==
  ASSUME NEW c0, NEW m0, NEW c, NEW W, NEW ctx \in Context, NEW h \in Nat,
         Grown(c0, m0, c, MarkIn(h + 1, ctx), W)
  PROVE  Emit(c0, m0, c, W, ctx, "POP", 0, 0, {}, h + 1, h, W)
<1>1. Adds("POP", 0, h + 1, h) /\ h + 1 \in Nat BY DEF Adds
<1> QED BY <1>1, OpsAre, Plain

(* Keeping what was known is transitive.                                   *)
LEMMA KeepsOn ==
  ASSUME NEW c, NEW m, NEW c2, NEW m2, NEW c3, NEW m3, Keeps(c, m, c2, m2), Keeps(c2, m2, c3, m3)
  PROVE  Keeps(c, m, c3, m3)
BY DEF Keeps

(* Instructions emitted together are emitted one after the other.          *)
LEMMA Cat2 ==
  ASSUME NEW c \in Seq(Instruction), NEW i \in Instruction, NEW j \in Instruction
  PROVE  c \o <<i, j>> = Append(Append(c, i), j)
OBVIOUS

(* Three of them.                                                          *)
LEMMA Cat3 ==
  ASSUME NEW c \in Seq(Instruction), NEW i \in Instruction, NEW j \in Instruction, NEW k \in Instruction
  PROVE  c \o <<i, j, k>> = Append(Append(Append(c, i), j), k)
OBVIOUS

(* Four of them.                                                           *)
LEMMA Cat4 ==
  ASSUME NEW c \in Seq(Instruction), NEW i \in Instruction, NEW j \in Instruction,
         NEW k \in Instruction, NEW l \in Instruction
  PROVE  c \o <<i, j, k, l>> = Append(Append(Append(Append(c, i), j), k), l)
BY SMTT(60)

(* Five of them.                                                           *)
LEMMA Cat5 ==
  ASSUME NEW c \in Seq(Instruction), NEW i \in Instruction, NEW j \in Instruction,
         NEW k \in Instruction, NEW l \in Instruction, NEW m \in Instruction
  PROVE  c \o <<i, j, k, l, m>> = Append(Append(Append(Append(Append(c, i), j), k), l), m)
BY SMTT(60)

(* Ins emits in the context of the statement being compiled.               *)
LEMMA InsIs ==
  ASSUME Ctx \in Context, NEW op \in Ops, NEW x \in Nat, NEW y \in Nat, NEW h \in Nat
  PROVE  Ins(op, x, y, h) = InsIn(Ctx, op, x, y, {}, h) /\ Ins(op, x, y, h) \in Instruction
<1>1. InsIn(Ctx, op, x, y, {}, h) \in Instruction BY InsInIs
<1> QED BY <1>1 DEF Ins

(* The code of a condition, with the jump that leaves it.                  *)
LEMMA ConditionAdded ==
  ASSUME NEW c0, NEW m0, NEW c, NEW W, Ctx \in Context, NEW h \in Nat,
         Grown(c0, m0, c, MarkIn(h, Ctx), W)
  PROVE  LET c2 == c \o Condition(h) IN
         /\ Grown(c0, m0, c2, MarkIn(h, Ctx), W \cup {Len(c) + 2})
         /\ Keeps(c, MarkIn(h, Ctx), c2, MarkIn(h, Ctx))
         /\ c2 \in Seq(Instruction) /\ Len(c2) = Len(c) + 3 /\ Len(c) \in Nat
         /\ Waits(c2, Len(c) + 2, "JUMP_IF_FALSE", h + 1, Ctx)
<1> DEFINE a == InsIn(Ctx, "CONSTANT", 0, 0, {}, h)
           b == InsIn(Ctx, "JUMP_IF_FALSE", 0, 0, {}, h + 1)
           d == InsIn(Ctx, "POP", 0, 0, {}, h + 1)
           c1 == Append(c, a)
           c2 == Append(c1, b)
           c3 == Append(c2, d)
           V == W \cup {Len(c1) + 1}
<1> USE OpsAre
<1>0. Ctx \in Context /\ h \in Nat /\ h + 1 \in Nat OBVIOUS
<1>1. /\ Grown(c0, m0, c1, MarkIn(h + 1, Ctx), W) /\ Keeps(c, MarkIn(h, Ctx), c1, MarkIn(h + 1, Ctx))
      /\ c1 \in Seq(Instruction) /\ Len(c1) = Len(c) + 1 /\ Len(c) \in Nat
  <2>1. Emit(c0, m0, c, W, Ctx, "CONSTANT", 0, 0, {}, h, h + 1, W) BY ConstantAdded
  <2> QED BY <2>1 DEF Emit
<1> HIDE DEF c1
<1>2. /\ Grown(c0, m0, c2, MarkIn(h + 1, Ctx), V)
      /\ Keeps(c1, MarkIn(h + 1, Ctx), c2, MarkIn(h + 1, Ctx))
      /\ c2 \in Seq(Instruction) /\ Len(c2) = Len(c1) + 1
      /\ Waits(c2, Len(c1) + 1, "JUMP_IF_FALSE", h + 1, Ctx)
  <2>1. Emit(c0, m0, c1, W, Ctx, "JUMP_IF_FALSE", 0, 0, {}, h + 1, h + 1, V)
    BY <1>0, <1>1, BranchedIf
  <2> QED BY <2>1 DEF Emit
<1> HIDE DEF c2, V
<1>3. /\ Grown(c0, m0, c3, MarkIn(h, Ctx), V) /\ Keeps(c2, MarkIn(h + 1, Ctx), c3, MarkIn(h, Ctx))
      /\ c3 \in Seq(Instruction) /\ Len(c3) = Len(c2) + 1
  <2>1. Emit(c0, m0, c2, V, Ctx, "POP", 0, 0, {}, h + 1, h, V) BY <1>0, <1>2, PopAdded
  <2> QED BY <2>1 DEF Emit
<1> HIDE DEF c3
<1>4. c \o Condition(h) = c3
  <2>1. c \in Seq(Instruction) BY DEF Grown, Sound
  <2>2. Condition(h) = <<a, b, d>> /\ a \in Instruction /\ b \in Instruction /\ d \in Instruction
    BY <1>0, InsInIs, InsIs DEF Condition
  <2> HIDE DEF a, b, d
  <2> QED BY <2>1, <2>2, Cat3 DEF c1, c2, c3
<1>5. Len(c1) + 1 = Len(c) + 2 /\ V = W \cup {Len(c) + 2} /\ Len(c3) = Len(c) + 3
  BY <1>1, <1>2, <1>3 DEF V
<1>6. Waits(c3, Len(c) + 2, "JUMP_IF_FALSE", h + 1, Ctx) BY <1>2, <1>3, <1>5 DEF Keeps
<1>7. Keeps(c, MarkIn(h, Ctx), c3, MarkIn(h, Ctx)) BY <1>1, <1>2, <1>3, KeepsOn
<1> QED BY <1>1, <1>3, <1>4, <1>5, <1>6, <1>7

(* The code that tests a case of a switch.                                 *)
LEMMA CaseAdded ==
  ASSUME NEW c0, NEW m0, NEW c, NEW W, Ctx \in Context, NEW h \in Nat, h >= 1,
         Grown(c0, m0, c, MarkIn(h, Ctx), W)
  PROVE  /\ Grown(c0, m0, Case(c, h), MarkIn(h, Ctx), W \cup {Len(c) + 4})
         /\ Keeps(c, MarkIn(h, Ctx), Case(c, h), MarkIn(h, Ctx))
         /\ Case(c, h) \in Seq(Instruction) /\ Len(Case(c, h)) = Len(c) + 5 /\ Len(c) \in Nat
         /\ Waits(Case(c, h), Len(c) + 4, "JUMP_IF_FALSE", h + 1, Ctx)
<1> DEFINE i1 == InsIn(Ctx, "GET_LOCAL", 0, h - 1, {}, h)
           i2 == InsIn(Ctx, "CONSTANT", 0, 0, {}, h + 1)
           i3 == InsIn(Ctx, "POP2_PUSH", 0, 0, {}, h + 2)
           i4 == InsIn(Ctx, "JUMP_IF_FALSE", 0, 0, {}, h + 1)
           i5 == InsIn(Ctx, "POP", 0, 0, {}, h + 1)
           c1 == Append(c, i1)
           c2 == Append(c1, i2)
           c3 == Append(c2, i3)
           c4 == Append(c3, i4)
           c5 == Append(c4, i5)
           V == W \cup {Len(c3) + 1}
<1>0. /\ Ctx \in Context /\ h \in Nat /\ h + 1 \in Nat /\ h + 2 \in Nat /\ h - 1 \in Nat
      /\ Grown(c0, m0, c, MarkIn(h, Ctx), W)
  OBVIOUS
<1>1. /\ Grown(c0, m0, c1, MarkIn(h + 1, Ctx), W) /\ Keeps(c, MarkIn(h, Ctx), c1, MarkIn(h + 1, Ctx))
      /\ c1 \in Seq(Instruction) /\ Len(c1) = Len(c) + 1 /\ Len(c) \in Nat
  <2>1. Adds("GET_LOCAL", h - 1, h, h + 1) BY DEF Adds
  <2>2. Emit(c0, m0, c, W, Ctx, "GET_LOCAL", 0, h - 1, {}, h, h + 1, W) BY <1>0, <2>1, OpsAre, Plain
  <2> QED BY <2>2 DEF Emit
<1> HIDE DEF c1
<1>2. /\ Grown(c0, m0, c2, MarkIn(h + 2, Ctx), W) /\ Keeps(c1, MarkIn(h + 1, Ctx), c2, MarkIn(h + 2, Ctx))
      /\ c2 \in Seq(Instruction) /\ Len(c2) = Len(c1) + 1
  <2>1. Emit(c0, m0, c1, W, Ctx, "CONSTANT", 0, 0, {}, h + 1, h + 1 + 1, W)
    BY <1>0, <1>1, ConstantAdded
  <2> QED BY <2>1 DEF Emit
<1> HIDE DEF c2
<1>3. /\ Grown(c0, m0, c3, MarkIn(h + 1, Ctx), W) /\ Keeps(c2, MarkIn(h + 2, Ctx), c3, MarkIn(h + 1, Ctx))
      /\ c3 \in Seq(Instruction) /\ Len(c3) = Len(c2) + 1
  <2>1. Adds("POP2_PUSH", 0, h + 2, h + 1) BY DEF Adds
  <2>2. Emit(c0, m0, c2, W, Ctx, "POP2_PUSH", 0, 0, {}, h + 2, h + 1, W)
    BY <1>0, <1>2, <2>1, OpsAre, Plain
  <2> QED BY <2>2 DEF Emit
<1> HIDE DEF c3
<1>4. /\ Grown(c0, m0, c4, MarkIn(h + 1, Ctx), V)
      /\ Keeps(c3, MarkIn(h + 1, Ctx), c4, MarkIn(h + 1, Ctx))
      /\ c4 \in Seq(Instruction) /\ Len(c4) = Len(c3) + 1
      /\ Waits(c4, Len(c3) + 1, "JUMP_IF_FALSE", h + 1, Ctx)
  <2>1. Emit(c0, m0, c3, W, Ctx, "JUMP_IF_FALSE", 0, 0, {}, h + 1, h + 1, V)
    BY <1>0, <1>3, BranchedIf
  <2> QED BY <2>1 DEF Emit
<1> HIDE DEF c4, V
<1>5. /\ Grown(c0, m0, c5, MarkIn(h, Ctx), V) /\ Keeps(c4, MarkIn(h + 1, Ctx), c5, MarkIn(h, Ctx))
      /\ c5 \in Seq(Instruction) /\ Len(c5) = Len(c4) + 1
  <2>1. Emit(c0, m0, c4, V, Ctx, "POP", 0, 0, {}, h + 1, h, V) BY <1>0, <1>4, PopAdded
  <2> QED BY <2>1 DEF Emit
<1> HIDE DEF c5
<1>6. Case(c, h) = c5
  <2>1. c \in Seq(Instruction) BY DEF Grown, Sound
  <2>2. /\ Case(c, h) = c \o <<i1, i2, i3, i4, i5>>
        /\ i1 \in Instruction /\ i2 \in Instruction /\ i3 \in Instruction
        /\ i4 \in Instruction /\ i5 \in Instruction
    <3>1. Case(c, h) = c \o <<i1, i2, i3, i4, i5>> BY DEF Case, Ins
    <3>2. i1 \in Instruction BY <1>0, OpsAre, InsInIs
    <3>3. i2 \in Instruction /\ i3 \in Instruction /\ i4 \in Instruction /\ i5 \in Instruction
      BY <1>0, OpsAre, InsInIs
    <3> QED BY <3>1, <3>2, <3>3
  <2> HIDE DEF i1, i2, i3, i4, i5
  <2> QED BY <2>1, <2>2, Cat5 DEF c1, c2, c3, c4, c5
<1>7. Len(c3) + 1 = Len(c) + 4 /\ V = W \cup {Len(c) + 4} /\ Len(c5) = Len(c) + 5
  BY <1>1, <1>2, <1>3, <1>4, <1>5 DEF V
<1>8. Waits(c5, Len(c) + 4, "JUMP_IF_FALSE", h + 1, Ctx) BY <1>4, <1>5, <1>7 DEF Keeps
<1>9. Keeps(c, MarkIn(h, Ctx), c5, MarkIn(h, Ctx))
  <2>1. Keeps(c, MarkIn(h, Ctx), c3, MarkIn(h + 1, Ctx)) BY <1>1, <1>2, <1>3, KeepsOn
  <2> QED BY <1>4, <1>5, <2>1, KeepsOn
<1> QED BY <1>1, <1>5, <1>6, <1>7, <1>8, <1>9

(* A chunk without holes, closed by its last OP_RETURN, is verified.       *)
LEMMA ClosedOK ==
  ASSUME NEW c, NEW m, Sound(c, m, {}), NEW i \in Instruction,
         i.op = "RETURN", i.h = m.h, i.hs = m.hs, i.rf = m.rf, i.y = 0,
         m.h >= 1, m.hs = <<>>, m.rf = 0
  PROVE  Append(c, i) \in Seq(Instruction) /\ ChunkOK(Append(c, i))
<1> DEFINE s == Ext(c, m)
           t == Append(c, i)
           n == Len(c) + 1
<1>1. c \in Seq(Instruction) /\ m \in Mark BY DEF Sound
<1>2. /\ DOMAIN s = 1..n /\ \A p \in DOMAIN c : s[p] = c[p]
      /\ s[n].h = m.h /\ s[n].hs = m.hs /\ s[n].rf = m.rf
  BY ONLY <1>1, ExtIs
<1>3. /\ t \in Seq(Instruction) /\ DOMAIN t = 1..n /\ t[n] = i /\ \A p \in DOMAIN c : t[p] = c[p]
      /\ n \in Nat \ {0} /\ \A p \in 1..n : p \in DOMAIN c \/ p = n
      /\ \A p \in DOMAIN c : p \in 1..n
  BY <1>1
<1> HIDE DEF s, t
<1>4. \A q \in 1..n : t[q].h = s[q].h /\ t[q].hs = s[q].hs /\ t[q].rf = s[q].rf
  BY <1>2, <1>3
<1>5. ASSUME NEW p \in DOMAIN c PROVE InstrOK(t, p)
  <2>1. Named(c, c[p].hs) /\ Steps(s, p) /\ Lands(s, p) BY DEF Sound, s
  <2>2. t[p] = s[p] /\ p \in DOMAIN t /\ s[p] = c[p] BY <1>2, <1>3
  <2>3. \A q, d : Flows(s, p, q, d) => Flows(t, p, q, d) BY <1>2, <1>3, <1>4, <2>2 DEF Flows
  <2>4. s[p].hs # <<>> => Top(s[p].hs) \in DOMAIN c BY <2>1, <2>2 DEF Named
  <2>5. \A h : Raises(s, p, h) => Raises(t, p, h) BY <1>2, <1>3, <2>2, <2>4 DEF Raises
  <2>6. s[p].hs # <<>> => t[Top(s[p].hs)].y = s[Top(s[p].hs)].y BY <1>2, <1>3, <2>4
  <2>7. CASE s[p].op \in {"RETURN", "TRY_ENTER", "TRY_EXIT", "END_FINALLY"}
    <3>1. CASE s[p].op = "RETURN" BY <1>2, <1>3, <1>4, <2>1, <2>2, <2>6, <3>1 DEF InstrOK, Steps
    <3>2. CASE s[p].op = "TRY_ENTER" BY <1>2, <1>3, <1>4, <2>1, <2>2, <3>2 DEF InstrOK, Steps, Lands
    <3>3. CASE s[p].op = "TRY_EXIT" BY <1>2, <1>3, <1>4, <2>1, <2>2, <3>3 DEF InstrOK, Steps
    <3>4. CASE s[p].op = "END_FINALLY" BY <1>2, <1>3, <1>4, <2>1, <2>2, <3>4 DEF InstrOK, Steps
    <3> QED BY <2>7, <3>1, <3>2, <3>3, <3>4
  <2>8. CASE s[p].op \notin {"RETURN", "TRY_ENTER", "TRY_EXIT", "END_FINALLY"}
    <3>1. \A d : Flows(s, p, p + 1, d) => Flows(t, p, p + 1, d) BY <2>3
    <3>2. s[p].op \in Branches => Flows(t, p, t[p].x, 0) BY <2>1, <2>2, <2>3 DEF Lands
    <3> QED BY <2>1, <2>2, <2>5, <2>8, <3>1, <3>2 DEF InstrOK, Steps, Branches
  <2> QED BY <2>7, <2>8
<1>6. InstrOK(t, n) BY <1>3 DEF InstrOK
<1>7. HandlersNamed(t)
  <2>1. \A p \in DOMAIN c : Named(c, c[p].hs) BY DEF Sound
  <2> QED BY <1>3, <2>1 DEF HandlersNamed, Named
<1>8. 1 \in DOMAIN t /\ t[1].h = 0 /\ t[1].hs = <<>>
  <2>1. s[1].h = 0 /\ s[1].hs = <<>> BY DEF Sound, s
  <2> QED BY <1>3, <1>4, <2>1
<1> QED BY <1>3, <1>5, <1>6, <1>7, <1>8 DEF ChunkOK, t

----------------------------------------------------------------------------
(* The locals and the open statements.                                     *)

----------------------------------------------------------------------------
(* Scopes.  What is below the end of a block, and what endScope leaves.    *)

(* A prefix of a sequence.                                                 *)
LEMMA CutIs ==
  ASSUME NEW S, NEW s \in Seq(S), NEW k \in 0..Len(s)
  PROVE  /\ SubSeq(s, 1, k) \in Seq(S) /\ Len(SubSeq(s, 1, k)) = k
         /\ DOMAIN SubSeq(s, 1, k) = 1..k /\ DOMAIN s = 1..Len(s) /\ Len(s) \in Nat
         /\ \A i \in 1..k : SubSeq(s, 1, k)[i] = s[i]
OBVIOUS

(* A sequence with one more element.                                       *)
LEMMA AppendIs ==
  ASSUME NEW S, NEW s \in Seq(S), NEW e \in S
  PROVE  /\ Append(s, e) \in Seq(S) /\ Len(Append(s, e)) = Len(s) + 1 /\ Append(s, e) # <<>>
         /\ DOMAIN Append(s, e) = 1..(Len(s) + 1) /\ DOMAIN s = 1..Len(s) /\ Len(s) \in Nat
         /\ Append(s, e)[Len(s) + 1] = e
         /\ \A i \in 1..Len(s) : Append(s, e)[i] = s[i] /\ i \in 1..(Len(s) + 1) /\ i # Len(s) + 1
OBVIOUS

(* A deeper scope has at least the locals of the scopes around it.         *)
LEMMA SplitMonotone ==
  ASSUME NEW ls \in Seq(Local), NEW d \in Int, NEW m \in Nat, NEW d2 \in Int, NEW m2 \in Nat,
         Split(ls, d, m), Split(ls, d2, m2), d <= d2
  PROVE  m <= m2
<1> SUFFICES ASSUME m > m2 PROVE FALSE OBVIOUS
<1>1. m \in DOMAIN ls /\ ls[m] \in Local BY DEF Split
<1>2. ls[m].depth \in Nat BY <1>1 DEF Local
<1>3. ls[m].depth <= d BY <1>1 DEF Split
<1>4. m <= m2 BY <1>1, <1>2, <1>3 DEF Split
<1> QED BY <1>4

(* endScope keeps the locals up to the split.                              *)
LEMMA KeptIs ==
  ASSUME NEW ls \in Seq(Local), NEW d \in Int, NEW m \in Nat, Split(ls, d, m)
  PROVE  Kept(ls, d) = SubSeq(ls, 1, m)
<1> DEFINE P(i) == (i = 0 \/ ls[i].depth <= d) /\ \A j \in (i + 1)..Len(ls) : ls[j].depth > d
           n == CHOOSE i \in 0..Len(ls) : P(i)
<1>1. \A k \in DOMAIN ls : ls[k].depth \in Nat
  <2>1. \A k \in DOMAIN ls : ls[k] \in Local OBVIOUS
  <2> QED BY <2>1 DEF Local
<1>2. DOMAIN ls = 1..Len(ls) /\ Len(ls) \in Nat /\ m \in 0..Len(ls) BY DEF Split
<1>3. P(m) BY <1>1, <1>2 DEF Split
<1>4. n \in 0..Len(ls) /\ P(n)
  <2> HIDE DEF P
  <2> QED BY <1>2, <1>3
<1>5. n = m
  <2> HIDE DEF n
  <2>1. CASE n < m
    <3>1. m \in (n + 1)..Len(ls) /\ m \in DOMAIN ls BY <1>2, <1>4, <2>1
    <3>2. ls[m].depth > d /\ ls[m].depth <= d BY <1>4, <3>1 DEF Split
    <3> QED BY <1>1, <3>1, <3>2
  <2>2. CASE n > m
    <3>1. n \in DOMAIN ls /\ ls[n].depth <= d BY <1>2, <1>4, <2>2
    <3>2. n <= m BY <3>1 DEF Split
    <3> QED BY <1>2, <1>4, <2>2, <3>2
  <2> QED BY <1>2, <1>4, <2>1, <2>2
<1> QED BY <1>5 DEF Kept

(* Dropping locals above a split leaves it.                                *)
LEMMA SplitCut ==
  ASSUME NEW ls \in Seq(Local), NEW d \in Int, NEW m \in Nat, Split(ls, d, m),
         NEW k \in 0..Len(ls), m <= k
  PROVE  Split(SubSeq(ls, 1, k), d, m)
BY CutIs DEF Split

(* The locals ls2 are ls and others, declared no less deep than d.         *)
Deeper(ls, ls2, d) ==
  /\ ls2 \in Seq(Local) /\ Len(ls) <= Len(ls2)
  /\ \A k \in DOMAIN ls : ls2[k] = ls[k]
  /\ \A k \in DOMAIN ls2 : k \notin DOMAIN ls => ls2[k].depth >= d

(* Locals of a deeper scope leave a split.                                 *)
LEMMA SplitGrown ==
  ASSUME NEW ls \in Seq(Local), NEW ls2, NEW d \in Int, NEW m \in Nat, Split(ls, d, m),
         NEW d2 \in Int, Deeper(ls, ls2, d2), d < d2
  PROVE  Split(ls2, d, m)
<1>1. /\ ls2 \in Seq(Local) /\ Len(ls) \in Nat /\ Len(ls2) \in Nat /\ Len(ls) <= Len(ls2)
      /\ DOMAIN ls = 1..Len(ls) /\ DOMAIN ls2 = 1..Len(ls2) /\ m <= Len(ls)
  BY DEF Deeper, Split
<1>2. SUFFICES ASSUME NEW k \in DOMAIN ls2 PROVE ls2[k].depth <= d <=> k <= m
  BY <1>1 DEF Split
<1>3. ls2[k].depth \in Nat
  <2>1. ls2[k] \in Local BY <1>1
  <2> QED BY <2>1 DEF Local
<1>4. CASE k \in DOMAIN ls BY <1>4 DEF Deeper, Split
<1>5. CASE k \notin DOMAIN ls
  <2>1. ls2[k].depth >= d2 BY <1>5 DEF Deeper
  <2>2. ~(k <= m) BY <1>1, <1>5
  <2> QED BY <1>3, <2>1, <2>2
<1> QED BY <1>4, <1>5

(* The scopes and loops a statement adds, by its kind.                     *)
LEMMA ExtraIs ==
  ASSUME NEW o \in Statement
  PROVE  /\ Extra(o) \in 0..3 /\ Beyond(o) \in 0..1 /\ o.h \in Nat /\ o.d \in Nat /\ o.n \in Nat
         /\ o.a \in Nat /\ o.b \in Nat /\ o.j \in Nat /\ o.jumps \in SUBSET Nat /\ o.ctx \in Context
         /\ ~InBody(o) => Extra(o) >= 1
         /\ o.kind \in {"while", "for", "switch"} => Extra(o) = 2
         /\ o.kind = "foreach" => Extra(o) = 3
         /\ InBody(o) => Extra(o) = 0
         /\ o.kind \in {"if", "do"} => Extra(o) = 1
         /\ o.kind = "try" /\ ~InBody(o) => Extra(o) = 1
         /\ o.kind \in {"if", "while", "do", "for", "foreach", "switch", "try"}
         /\ IsLoop(o) <=> o.kind \in {"while", "do", "for", "foreach", "switch"}
BY DEF Statement, Extra, Beyond, InBody, IsLoop, LoopKinds

(* The fields of a loop record.                                            *)
LEMMA LoopIs ==
  ASSUME NEW l \in LoopRecord
  PROVE  l.step \in Nat /\ l.count \in Nat /\ l.iter \in Nat /\ l.each \in BOOLEAN
         /\ l.breaks \in SUBSET Nat /\ l.continues \in SUBSET Nat
BY DEF LoopRecord

(* What a loop knows survives declarations inside it.                      *)
LEMMA LoopGrown ==
  ASSUME NEW o \in Statement, NEW l \in LoopRecord, NEW ls \in Seq(Local), NEW ls2,
         IsLoop(o), LoopOK(o, l, ls), NEW d2 \in Int, Deeper(ls, ls2, d2), o.d + Extra(o) <= d2
  PROVE  LoopOK(o, l, ls2)
<1>1. o.kind \in {"while", "for", "foreach", "switch"} => Split(ls2, o.d + 1, l.count)
  <2> SUFFICES ASSUME o.kind \in {"while", "for", "foreach", "switch"} PROVE Split(ls2, o.d + 1, l.count)
    OBVIOUS
  <2>1. Split(ls, o.d + 1, l.count) BY DEF LoopOK
  <2>2. o.d + 1 < d2 /\ o.d + 1 \in Int /\ l.count \in Nat BY ExtraIs, LoopIs
  <2> QED BY <2>1, <2>2, SplitGrown
<1>2. o.kind = "foreach" => Split(ls2, o.d + 2, l.count + o.b)
  <2> SUFFICES ASSUME o.kind = "foreach" PROVE Split(ls2, o.d + 2, l.count + o.b) OBVIOUS
  <2>1. Split(ls, o.d + 2, l.count + o.b) BY DEF LoopOK
  <2>2. o.d + 2 < d2 /\ o.d + 2 \in Int /\ l.count + o.b \in Nat BY ExtraIs, LoopIs
  <2> QED BY <2>1, <2>2, SplitGrown
<1> QED BY <1>1, <1>2 DEF LoopOK

(* What a loop knows survives the end of a scope inside it.                *)
LEMMA LoopCut ==
  ASSUME NEW o \in Statement, NEW l \in LoopRecord, NEW ls \in Seq(Local),
         IsLoop(o), LoopOK(o, l, ls), NEW d \in Int, NEW m \in Nat, Split(ls, d, m),
         o.d + Extra(o) <= d, NEW k \in 0..Len(ls), m <= k
  PROVE  LoopOK(o, l, SubSeq(ls, 1, k))
<1> DEFINE ls2 == SubSeq(ls, 1, k)
<1> HIDE DEF ls2
<1>1. o.kind \in {"while", "for", "foreach", "switch"} => Split(ls2, o.d + 1, l.count)
  <2> SUFFICES ASSUME o.kind \in {"while", "for", "foreach", "switch"} PROVE Split(ls2, o.d + 1, l.count)
    OBVIOUS
  <2>1. Split(ls, o.d + 1, l.count) BY DEF LoopOK
  <2>2. o.d + 1 <= d /\ o.d + 1 \in Int /\ l.count \in Nat BY ExtraIs, LoopIs
  <2>3. l.count <= m BY <2>1, <2>2, SplitMonotone
  <2>4. l.count <= k BY <2>2, <2>3
  <2> QED BY <2>1, <2>2, <2>4, SplitCut DEF ls2
<1>2. o.kind = "foreach" => Split(ls2, o.d + 2, l.count + o.b)
  <2> SUFFICES ASSUME o.kind = "foreach" PROVE Split(ls2, o.d + 2, l.count + o.b) OBVIOUS
  <2>1. Split(ls, o.d + 2, l.count + o.b) BY DEF LoopOK
  <2>2. o.d + 2 <= d /\ o.d + 2 \in Int /\ l.count + o.b \in Nat BY SMTT(60), ExtraIs, LoopIs
  <2>3. l.count + o.b <= m BY <2>1, <2>2, SplitMonotone
  <2>4. l.count + o.b <= k BY <2>2, <2>3
  <2> QED BY <2>1, <2>2, <2>4, SplitCut DEF ls2
<1> QED BY <1>1, <1>2 DEF LoopOK, ls2

----------------------------------------------------------------------------
(* Nesting, as statements are begun, ended and go on.                      *)

(* A statement begins inside the open ones.                                *)
LEMMA NestingPush ==
  ASSUME NEW os \in Seq(Statement), NEW ls \in Seq(Local), NEW sd \in Nat, NEW lp \in Seq(LoopRecord),
         Nesting(os, ls, sd, lp),
         NEW o \in Statement, o.h = Len(ls), o.d = sd, o.n = Len(lp),
         NEW ls2, NEW sd2 \in Nat, sd2 = sd + Extra(o),
         Deeper(ls, ls2, sd + 1), \A k \in DOMAIN ls2 : ls2[k].depth <= sd2,
         InBody(o) \/ o.kind = "do" => Len(ls2) = Len(ls),
         NEW l \in LoopRecord, IsLoop(o) => LoopOK(o, l, ls2)
  PROVE  LET lp2 == IF IsLoop(o) THEN Append(lp, l) ELSE lp IN
         /\ Nesting(Append(os, o), ls2, sd2, lp2)
         /\ lp2 \in Seq(LoopRecord)
         /\ IsLoop(o) => lp2[o.n + 1] = l
         /\ \A i \in DOMAIN os : IsLoop(os[i]) => lp2[os[i].n + 1] = lp[os[i].n + 1]
<1> DEFINE os2 == Append(os, o)
           lp2 == IF IsLoop(o) THEN Append(lp, l) ELSE lp
           N == Len(os)
<1>1. /\ os2 \in Seq(Statement) /\ Len(os2) = N + 1 /\ DOMAIN os2 = 1..(N + 1) /\ DOMAIN os = 1..N
      /\ N \in Nat /\ os2[N + 1] = o /\ \A i \in 1..N : os2[i] = os[i] /\ i \in 1..(N + 1) /\ i # N + 1
  BY AppendIs
<1>2. /\ lp2 \in Seq(LoopRecord) /\ DOMAIN lp2 = 1..Len(lp2) /\ DOMAIN lp = 1..Len(lp) /\ Len(lp) \in Nat
      /\ \A q \in 1..Len(lp) : lp2[q] = lp[q]
  BY AppendIs
<1>3. Len(lp2) = Len(lp) + Beyond(o) BY AppendIs DEF Beyond
<1>4. IsLoop(o) => lp2[o.n + 1] = l BY AppendIs
<1>n. N = Len(os) OBVIOUS
<1> HIDE DEF os2, lp2, N
<1>5. /\ Extra(o) \in 0..3 /\ Beyond(o) \in 0..1
      /\ \A i \in 1..N : Extra(os[i]) \in 0..3 /\ Beyond(os[i]) \in 0..1 /\ os[i].h \in Nat
                         /\ os[i].d \in Nat /\ os[i].n \in Nat /\ os[i] \in Statement
  <2>1. \A i \in 1..N : os[i] \in Statement BY <1>1, <1>n
  <2> QED BY <2>1, ExtraIs
<1>6. /\ ls2 \in Seq(Local) /\ Len(ls) <= Len(ls2) /\ Len(ls) \in Nat /\ Len(ls2) \in Nat
  BY DEF Deeper
<1>7. ASSUME NEW i \in 1..N
      PROVE  /\ Split(ls, os[i].d, os[i].h)
             /\ IF i = N THEN Encloses(os[i], sd, Len(ls), Len(lp))
                ELSE Encloses(os[i], os[i + 1].d, os[i + 1].h, os[i + 1].n)
             /\ sd >= os[i].d + Extra(os[i]) /\ Len(lp) >= os[i].n + Beyond(os[i])
             /\ \A k \in 1..N : i < k =>
                  os[k].d >= os[i].d + Extra(os[i]) /\ os[k].n >= os[i].n + Beyond(os[i])
             /\ IsLoop(os[i]) => LoopOK(os[i], lp[os[i].n + 1], ls)
  BY <1>1, <1>n, <1>7 DEF Nesting
<1>8. ASSUME NEW i \in 1..N
      PROVE  Split(ls2, os[i].d, os[i].h)
  <2>1. os[i].d < sd + 1 /\ os[i].d \in Int BY SMTT(60), <1>5, <1>7
  <2> QED BY <1>5, <1>7, <2>1, SplitGrown
<1>9. ASSUME NEW i \in 1..N, IsLoop(os[i])
      PROVE  LoopOK(os[i], lp2[os[i].n + 1], ls2) /\ lp2[os[i].n + 1] = lp[os[i].n + 1]
  <2>1. os[i].n + 1 \in 1..Len(lp)
    <3>1. Beyond(os[i]) = 1 BY <1>9 DEF Beyond
    <3> QED BY <1>2, <1>5, <1>7, <3>1
  <2>2. lp[os[i].n + 1] \in LoopRecord BY <1>2, <2>1
  <2>3. os[i].d + Extra(os[i]) <= sd + 1
    <3>1. Extra(os[i]) \in 0..3 /\ os[i].d \in Nat BY <1>5
    <3>2. sd >= os[i].d + Extra(os[i]) BY <1>7
    <3> QED BY SMTT(60), <3>1, <3>2
  <2>4. LoopOK(os[i], lp[os[i].n + 1], ls2) BY <1>5, <1>7, <1>9, <2>2, <2>3, LoopGrown
  <2> QED BY <1>2, <2>1, <2>4
<1>10. /\ Split(ls2, o.d, o.h)
       /\ Encloses(o, sd2, Len(ls2), Len(lp2))
       /\ sd2 >= o.d + Extra(o) /\ Len(lp2) >= o.n + Beyond(o)
       /\ IsLoop(o) => LoopOK(o, lp2[o.n + 1], ls2)
  <2>1. Split(ls, sd, Len(ls)) BY DEF Nesting, Split
  <2>2. Split(ls2, sd, Len(ls)) BY <1>6, <2>1, SplitGrown
  <2> QED BY <1>2, <1>3, <1>4, <1>5, <1>6, <2>2 DEF Encloses
<1>11. ASSUME NEW i \in DOMAIN os2
       PROVE  /\ Split(ls2, os2[i].d, os2[i].h)
              /\ IF i = Len(os2) THEN Encloses(os2[i], sd2, Len(ls2), Len(lp2))
                 ELSE Encloses(os2[i], os2[i + 1].d, os2[i + 1].h, os2[i + 1].n)
              /\ sd2 >= os2[i].d + Extra(os2[i]) /\ Len(lp2) >= os2[i].n + Beyond(os2[i])
              /\ \A k \in DOMAIN os2 : i < k =>
                   os2[k].d >= os2[i].d + Extra(os2[i]) /\ os2[k].n >= os2[i].n + Beyond(os2[i])
              /\ IsLoop(os2[i]) => LoopOK(os2[i], lp2[os2[i].n + 1], ls2)
  <2>1. CASE i = N + 1
    <3>1. os2[i] = o /\ i = Len(os2) /\ ~(\E k \in DOMAIN os2 : i < k) BY <1>1, <1>n, <2>1
    <3> QED BY <1>10, <3>1
  <2>2. CASE i \in 1..N
    <3>1. os2[i] = os[i] /\ i # Len(os2) BY <1>1, <2>2
    <3>2. sd2 >= os[i].d + Extra(os[i]) /\ Len(lp2) >= os[i].n + Beyond(os[i])
      <4>3. Extra(o) \in 0..3 /\ Beyond(o) \in 0..1 /\ sd2 = sd + Extra(o) /\ Len(lp2) = Len(lp) + Beyond(o)
            /\ Len(lp) \in Nat
        BY <1>2, <1>3, <1>5
      <4>1. Extra(os[i]) \in 0..3 /\ Beyond(os[i]) \in 0..1 /\ os[i].d \in Nat /\ os[i].n \in Nat
        BY <1>5, <2>2
      <4>2. sd >= os[i].d + Extra(os[i]) /\ Len(lp) >= os[i].n + Beyond(os[i]) BY <1>7, <2>2
      <4> QED BY SMTT(60), <4>1, <4>2, <4>3
    <3>3. Encloses(os[i], os2[i + 1].d, os2[i + 1].h, os2[i + 1].n)
      <4>1. CASE i = N BY <1>1, <1>7, <2>2, <4>1
      <4>2. CASE i # N
        <5>1. i + 1 \in 1..N BY <1>1, <2>2, <4>2
        <5> QED BY <1>1, <1>7, <2>2, <4>2, <5>1
      <4> QED BY <4>1, <4>2
    <3>4. ASSUME NEW k \in DOMAIN os2, i < k
          PROVE  os2[k].d >= os[i].d + Extra(os[i]) /\ os2[k].n >= os[i].n + Beyond(os[i])
      <4>1. CASE k = N + 1 BY <1>1, <1>7, <2>2, <4>1
      <4>2. CASE k \in 1..N BY <1>1, <1>7, <2>2, <3>4, <4>2
      <4> QED BY <1>1, <4>1, <4>2
    <3> QED BY <1>8, <1>9, <2>2, <3>1, <3>2, <3>3, <3>4
  <2> QED BY <1>1, <2>1, <2>2
<1>12. ASSUME NEW q \in DOMAIN lp2
       PROVE  \E i \in DOMAIN os2 : IsLoop(os2[i]) /\ os2[i].n + 1 = q
  <2>1. CASE q \in DOMAIN lp
    <3>1. PICK i \in DOMAIN os : IsLoop(os[i]) /\ os[i].n + 1 = q BY <2>1 DEF Nesting
    <3> QED BY <1>1, <3>1
  <2>2. CASE q \notin DOMAIN lp
    <3>1. Beyond(o) = 1 /\ q = Len(lp) + 1 BY <1>2, <1>3, <1>5, <2>2
    <3>2. IsLoop(o) BY <3>1 DEF Beyond
    <3> QED BY SMTT(60), <1>1, <3>1, <3>2
  <2> QED BY <2>1, <2>2
<1>13. Nesting(os2, ls2, sd2, lp2) BY <1>11, <1>12 DEF Nesting
<1> QED BY <1>1, <1>2, <1>4, <1>9, <1>13 DEF os2, lp2, N

(* The innermost statement ends.                                           *)
LEMMA NestingPop ==
  ASSUME NEW os \in Seq(Statement), NEW ls \in Seq(Local), NEW sd \in Nat, NEW lp \in Seq(LoopRecord),
         Nesting(os, ls, sd, lp), os # <<>>
  PROVE  LET o == Last(os) IN
         /\ Nesting(ButLast(os, 1), SubSeq(ls, 1, o.h), o.d, SubSeq(lp, 1, o.n))
         /\ ButLast(os, 1) \in Seq(Statement) /\ o \in Statement
         /\ Len(os) \in Nat \ {0} /\ Len(ButLast(os, 1)) = Len(os) - 1
         /\ DOMAIN os = 1..Len(os) /\ DOMAIN ButLast(os, 1) = 1..(Len(os) - 1)
         /\ \A i \in DOMAIN ButLast(os, 1) :
              /\ ButLast(os, 1)[i] = os[i] /\ i \in DOMAIN os
              /\ IsLoop(os[i]) => SubSeq(lp, 1, o.n)[os[i].n + 1] = lp[os[i].n + 1]
         /\ SubSeq(ls, 1, o.h) \in Seq(Local) /\ o.h \in 0..Len(ls) /\ Split(ls, o.d, o.h)
         /\ sd = o.d + Extra(o) /\ Len(lp) = o.n + Beyond(o)
         /\ SubSeq(lp, 1, o.n) \in Seq(LoopRecord) /\ o.n \in 0..Len(lp)
         /\ IsLoop(o) => LoopOK(o, Last(lp), ls) /\ Last(lp) = lp[o.n + 1] /\ Len(lp) \in DOMAIN lp
                         /\ Last(lp) \in LoopRecord /\ lp # <<>> /\ SubSeq(lp, 1, o.n) = ButLast(lp, 1)
         /\ ~IsLoop(o) => SubSeq(lp, 1, o.n) = lp
         /\ InBody(o) \/ o.kind = "do" => Len(ls) = o.h
<1> DEFINE os2 == ButLast(os, 1)
           N == Len(os)
           o == os[N]
           ls2 == SubSeq(ls, 1, o.h)
           lp2 == SubSeq(lp, 1, o.n)
<1>1. /\ N \in Nat \ {0} /\ DOMAIN os = 1..N /\ o \in Statement
      /\ os2 \in Seq(Statement) /\ Len(os2) = N - 1 /\ DOMAIN os2 = 1..(N - 1)
      /\ \A i \in 1..(N - 1) : os2[i] = os[i] /\ i \in 1..N /\ i # N
  <2>1. N \in Nat \ {0} /\ DOMAIN os = 1..N /\ N - 1 \in 0..N /\ os[N] \in Statement OBVIOUS
  <2>2. os2 = SubSeq(os, 1, N - 1) BY DEF ButLast
  <2>3. /\ os2 \in Seq(Statement) /\ Len(os2) = N - 1 /\ DOMAIN os2 = 1..(N - 1)
        /\ \A i \in 1..(N - 1) : os2[i] = os[i]
    <3>1. N = Len(os) OBVIOUS
    <3> HIDE DEF os2, N
    <3> QED BY <2>1, <2>2, <3>1, CutIs
  <2> HIDE DEF os2, N
  <2> QED BY <2>1, <2>3
<1>2. Last(os) = o /\ o = os[N] /\ N = Len(os) BY DEF Last
<1> HIDE DEF os2, o, N
<1>3. /\ \A i \in 1..N : Extra(os[i]) \in 0..3 /\ Beyond(os[i]) \in 0..1 /\ os[i].h \in Nat
                         /\ os[i].d \in Nat /\ os[i].n \in Nat /\ os[i] \in Statement
  <2>1. \A i \in 1..N : os[i] \in Statement BY <1>1
  <2> QED BY <2>1, ExtraIs
<1>4. ASSUME NEW i \in 1..N
      PROVE  /\ Split(ls, os[i].d, os[i].h)
             /\ IF i = N THEN Encloses(os[i], sd, Len(ls), Len(lp))
                ELSE Encloses(os[i], os[i + 1].d, os[i + 1].h, os[i + 1].n)
             /\ \A k \in 1..N : i < k =>
                  os[k].d >= os[i].d + Extra(os[i]) /\ os[k].n >= os[i].n + Beyond(os[i])
             /\ IsLoop(os[i]) => LoopOK(os[i], lp[os[i].n + 1], ls)
  BY <1>1, <1>2, <1>4 DEF Nesting
<1>0. N \in 1..N BY <1>1
<1>5. /\ Split(ls, o.d, o.h) /\ Encloses(o, sd, Len(ls), Len(lp))
      /\ IsLoop(o) => LoopOK(o, lp[o.n + 1], ls)
      /\ Extra(o) \in 0..3 /\ Beyond(o) \in 0..1 /\ o.h \in Nat /\ o.d \in Nat /\ o.n \in Nat
  BY <1>0, <1>2, <1>3, <1>4
<1>6. /\ Len(ls) \in Nat /\ o.h \in 0..Len(ls) /\ Len(lp) \in Nat /\ o.n \in 0..Len(lp)
      /\ sd = o.d + Extra(o) /\ Len(lp) = o.n + Beyond(o)
      /\ InBody(o) \/ o.kind = "do" => Len(ls) = o.h
  BY <1>1, <1>3, <1>5 DEF Split, Encloses
<1>7. /\ ls2 \in Seq(Local) /\ Len(ls2) = o.h /\ DOMAIN ls2 = 1..o.h
      /\ DOMAIN ls = 1..Len(ls) /\ \A k \in 1..o.h : ls2[k] = ls[k]
  BY <1>6, CutIs
<1>8. /\ lp2 \in Seq(LoopRecord) /\ Len(lp2) = o.n /\ DOMAIN lp2 = 1..o.n
      /\ DOMAIN lp = 1..Len(lp) /\ \A q \in 1..o.n : lp2[q] = lp[q]
  BY <1>6, CutIs
<1> HIDE DEF ls2, lp2
<1>9. IsLoop(o) => /\ LoopOK(o, Last(lp), ls) /\ Last(lp) = lp[o.n + 1] /\ Len(lp) \in DOMAIN lp
                   /\ Last(lp) \in LoopRecord /\ lp # <<>> /\ lp2 = ButLast(lp, 1)
  <2> SUFFICES ASSUME IsLoop(o)
               PROVE  /\ LoopOK(o, Last(lp), ls) /\ Last(lp) = lp[o.n + 1] /\ Len(lp) \in DOMAIN lp
                      /\ Last(lp) \in LoopRecord /\ lp # <<>> /\ lp2 = ButLast(lp, 1)
    OBVIOUS
  <2>1. Len(lp) = o.n + 1 /\ Len(lp) - 1 = o.n BY <1>3, <1>1, <1>6 DEF Beyond
  <2>2. LoopOK(o, lp[o.n + 1], ls) BY <1>5
  <2>3. Len(lp) \in DOMAIN lp BY <1>6, <1>8, <2>1
  <2> QED BY <1>1, <1>3, <2>1, <2>2, <2>3 DEF Last, ButLast, lp2
<1>10. ~IsLoop(o) => lp2 = lp
  <2>1. ~IsLoop(o) => o.n = Len(lp) BY <1>3, <1>1, <1>6 DEF Beyond
  <2> QED BY <2>1 DEF lp2
<1>11. \A k \in DOMAIN ls2 : ls2[k].depth <= o.d
  <2>1. \A k \in 1..o.h : k \in DOMAIN ls /\ k <= o.h BY <1>6, <1>7
  <2> QED BY <1>5, <1>7, <2>1 DEF Split
<1>12. ASSUME NEW i \in 1..(N - 1)
       PROVE  /\ i \in 1..N /\ i # N /\ i < N /\ os2[i] = os[i]
              /\ o.d >= os[i].d + Extra(os[i]) /\ o.n >= os[i].n + Beyond(os[i])
              /\ Split(ls2, os[i].d, os[i].h)
              /\ IsLoop(os[i]) => LoopOK(os[i], lp2[os[i].n + 1], ls2)
                                  /\ lp2[os[i].n + 1] = lp[os[i].n + 1]
  <2>1. i \in 1..N /\ i # N /\ i < N /\ os2[i] = os[i] /\ N \in 1..N BY <1>1
  <2>2. o.d >= os[i].d + Extra(os[i]) /\ o.n >= os[i].n + Beyond(os[i])
    BY <1>2, <1>4, <2>1
  <2>3. os[i].h <= o.h
    <3>1. Split(ls, os[i].d, os[i].h) BY <1>4, <2>1
    <3>2. Extra(os[i]) \in 0..3 /\ os[i].d \in Int /\ o.d \in Int /\ os[i].h \in Nat /\ o.h \in Nat
      BY <1>3, <1>5, <2>1
    <3>3. os[i].d <= o.d BY <2>2, <3>2
    <3> QED BY <1>5, <3>1, <3>2, <3>3, SplitMonotone
  <2>4. Split(ls2, os[i].d, os[i].h)
    <3>1. Split(ls, os[i].d, os[i].h) /\ os[i].d \in Int /\ os[i].h \in Nat BY <1>3, <1>4, <2>1
    <3> QED BY <1>6, <2>3, <3>1, SplitCut DEF ls2
  <2>5. ASSUME IsLoop(os[i])
        PROVE  LoopOK(os[i], lp2[os[i].n + 1], ls2) /\ lp2[os[i].n + 1] = lp[os[i].n + 1]
    <3>1. os[i].n + 1 \in 1..o.n
      <4>1. Beyond(os[i]) = 1 BY <2>5 DEF Beyond
      <4> QED BY <1>3, <2>1, <2>2, <4>1
    <3>2. lp2[os[i].n + 1] = lp[os[i].n + 1] /\ lp[os[i].n + 1] \in LoopRecord BY SMTT(60), <1>6, <1>8, <3>1
    <3>3. LoopOK(os[i], lp[os[i].n + 1], ls) BY <1>4, <2>1, <2>5
    <3>4. o.d \in Int /\ o.h \in Nat /\ os[i] \in Statement BY <1>3, <1>5, <2>1
    <3>5. LoopOK(os[i], lp[os[i].n + 1], SubSeq(ls, 1, o.h))
      BY SMTT(60), <1>5, <1>6, <2>2, <2>5, <3>2, <3>3, <3>4, LoopCut
    <3> QED BY <3>2, <3>5 DEF ls2
  <2> QED BY <2>1, <2>2, <2>4, <2>5
<1>13. ASSUME NEW i \in DOMAIN os2
       PROVE  /\ Split(ls2, os2[i].d, os2[i].h)
              /\ IF i = Len(os2) THEN Encloses(os2[i], o.d, Len(ls2), Len(lp2))
                 ELSE Encloses(os2[i], os2[i + 1].d, os2[i + 1].h, os2[i + 1].n)
              /\ o.d >= os2[i].d + Extra(os2[i]) /\ Len(lp2) >= os2[i].n + Beyond(os2[i])
              /\ \A k \in DOMAIN os2 : i < k =>
                   os2[k].d >= os2[i].d + Extra(os2[i]) /\ os2[k].n >= os2[i].n + Beyond(os2[i])
              /\ IsLoop(os2[i]) => LoopOK(os2[i], lp2[os2[i].n + 1], ls2)
  <2>1. i \in 1..(N - 1) BY <1>1
  <2>2. Encloses(os[i], os[i + 1].d, os[i + 1].h, os[i + 1].n) BY <1>4, <1>12, <2>1
  <2>3. IF i = Len(os2) THEN i + 1 = N ELSE i + 1 \in 1..(N - 1) BY <1>1, <2>1
  <2>4. IF i = Len(os2) THEN Encloses(os2[i], o.d, Len(ls2), Len(lp2))
        ELSE Encloses(os2[i], os2[i + 1].d, os2[i + 1].h, os2[i + 1].n)
    <3>1. os2[i] = os[i] /\ Len(os2) = N - 1 /\ Len(ls2) = o.h /\ Len(lp2) = o.n
      BY <1>7, <1>8, <1>1, <2>1
    <3>2. CASE i = Len(os2) BY <1>2, <2>2, <2>3, <3>1, <3>2
    <3>3. CASE i # Len(os2) BY <1>1, <2>2, <2>3, <3>1, <3>3
    <3> QED BY <3>2, <3>3
  <2>5. \A k \in DOMAIN os2 : i < k =>
          os2[k].d >= os2[i].d + Extra(os2[i]) /\ os2[k].n >= os2[i].n + Beyond(os2[i])
    BY <1>1, <1>4, <2>1
  <2> QED BY <1>8, <1>12, <2>1, <2>4, <2>5
<1>14. ASSUME NEW q \in DOMAIN lp2
       PROVE  \E i \in DOMAIN os2 : IsLoop(os2[i]) /\ os2[i].n + 1 = q
  <2>1. q \in 1..o.n /\ q \in DOMAIN lp BY <1>6, <1>8
  <2>2. PICK i \in DOMAIN os : IsLoop(os[i]) /\ os[i].n + 1 = q BY <2>1 DEF Nesting
  <2>3. i # N BY <1>2, <1>5, <2>1, <2>2
  <2>4. i \in 1..(N - 1) BY <1>1, <2>3
  <2> QED BY <1>1, <2>2, <2>4
<1>15. Nesting(os2, ls2, o.d, lp2) BY <1>11, <1>13, <1>14 DEF Nesting
<1> QED BY <1>1, <1>2, <1>5, <1>6, <1>7, <1>8, <1>9, <1>10, <1>12, <1>15 DEF os2, ls2, lp2, o, N

----------------------------------------------------------------------------
(* Contexts.                                                               *)

(* What nesting says of one statement.                                     *)
LEMMA NestingIs ==
  ASSUME NEW os \in Seq(Statement), NEW ls \in Seq(Local), NEW sd \in Nat, NEW lp \in Seq(LoopRecord),
         Nesting(os, ls, sd, lp), NEW i \in DOMAIN os
  PROVE  /\ os[i] \in Statement /\ Split(ls, os[i].d, os[i].h)
         /\ sd >= os[i].d + Extra(os[i]) /\ Len(lp) >= os[i].n + Beyond(os[i])
         /\ \A k \in DOMAIN os : i < k =>
              os[k].d >= os[i].d + Extra(os[i]) /\ os[k].n >= os[i].n + Beyond(os[i])
         /\ IsLoop(os[i]) => /\ LoopOK(os[i], lp[os[i].n + 1], ls)
                             /\ os[i].n + 1 \in DOMAIN lp /\ lp[os[i].n + 1] \in LoopRecord
<1>1. os[i] \in Statement OBVIOUS
<1>2. /\ Split(ls, os[i].d, os[i].h)
      /\ sd >= os[i].d + Extra(os[i]) /\ Len(lp) >= os[i].n + Beyond(os[i])
      /\ \A k \in DOMAIN os : i < k =>
           os[k].d >= os[i].d + Extra(os[i]) /\ os[k].n >= os[i].n + Beyond(os[i])
      /\ IsLoop(os[i]) => LoopOK(os[i], lp[os[i].n + 1], ls)
  BY DEF Nesting
<1>3. IsLoop(os[i]) => os[i].n + 1 \in DOMAIN lp
  <2>1. os[i].n \in Nat /\ (IsLoop(os[i]) => Beyond(os[i]) = 1) BY <1>1, ExtraIs DEF Beyond
  <2>2. Len(lp) \in Nat /\ DOMAIN lp = 1..Len(lp) OBVIOUS
  <2>3. Len(lp) >= os[i].n + Beyond(os[i]) BY <1>2
  <2> SUFFICES ASSUME IsLoop(os[i]) PROVE os[i].n + 1 \in 1..Len(lp) BY <2>2
  <2>4. Len(lp) >= os[i].n + 1 BY <2>1, <2>3
  <2> QED BY <2>1, <2>2, <2>4
<1> QED BY <1>1, <1>2, <1>3

(* The innermost statement is one of them.                                 *)
LEMMA LastIs ==
  ASSUME NEW os \in Seq(Statement), os # <<>>
  PROVE  /\ Len(os) \in Nat \ {0} /\ Len(os) \in DOMAIN os /\ Last(os) = os[Len(os)]
         /\ Last(os) \in Statement /\ DOMAIN os = 1..Len(os)
BY DEF Last

(* A declaration in the current scope keeps the nesting.                   *)
LEMMA NestingLet ==
  ASSUME NEW os \in Seq(Statement), NEW ls \in Seq(Local), NEW sd \in Nat, NEW lp \in Seq(LoopRecord),
         Nesting(os, ls, sd, lp), NEW ls2, Deeper(ls, ls2, sd), \A k \in DOMAIN ls2 : ls2[k].depth <= sd,
         os # <<>> => ~InBody(Last(os)) /\ Last(os).kind # "do"
  PROVE  Nesting(os, ls2, sd, lp)
<1>1. ASSUME NEW i \in DOMAIN os
      PROVE  /\ Split(ls2, os[i].d, os[i].h) /\ os[i].d < sd
             /\ IsLoop(os[i]) => LoopOK(os[i], lp[os[i].n + 1], ls2)
  <2>1. os # <<>> /\ i <= Len(os) /\ DOMAIN os = 1..Len(os) /\ Len(os) \in DOMAIN os /\ Len(os) \in Nat
    OBVIOUS
  <2>2. /\ os[i] \in Statement /\ Split(ls, os[i].d, os[i].h)
        /\ sd >= os[i].d + Extra(os[i])
        /\ \A k \in DOMAIN os : i < k => os[k].d >= os[i].d + Extra(os[i])
        /\ IsLoop(os[i]) => LoopOK(os[i], lp[os[i].n + 1], ls) /\ lp[os[i].n + 1] \in LoopRecord
    BY NestingIs
  <2>3. os[i].d \in Nat /\ os[i].h \in Nat /\ Extra(os[i]) \in 0..3 BY <2>2, ExtraIs
  <2>4. /\ Last(os) \in Statement /\ Last(os).d \in Nat /\ Extra(Last(os)) \in 1..3
        /\ sd >= Last(os).d + Extra(Last(os))
    <3>1. Last(os) = os[Len(os)] /\ os[Len(os)] \in Statement BY <2>1 DEF Last
    <3>2. sd >= os[Len(os)].d + Extra(os[Len(os)]) BY <2>1, NestingIs
    <3>3. ~InBody(Last(os)) BY <2>1
    <3>4. Last(os).d \in Nat /\ Extra(Last(os)) \in 0..3 /\ Extra(Last(os)) >= 1 BY <3>1, <3>3, ExtraIs
    <3> QED BY <3>1, <3>2, <3>4
  <2>5. os[i].d < sd
    <3>1. CASE i = Len(os) BY <2>4, <3>1 DEF Last
    <3>2. CASE i # Len(os)
      <4>1. i < Len(os) BY <2>1, <3>2
      <4>2. Last(os).d >= os[i].d + Extra(os[i]) BY <2>1, <2>2, <4>1 DEF Last
      <4> QED BY SMTT(60), <2>3, <2>4, <4>2
    <3> QED BY <3>1, <3>2
  <2>6. Split(ls2, os[i].d, os[i].h) BY <2>2, <2>3, <2>5, SplitGrown
  <2>7. IsLoop(os[i]) => LoopOK(os[i], lp[os[i].n + 1], ls2)
    BY <2>2, LoopGrown
  <2> QED BY <2>5, <2>6, <2>7
<1>2. ASSUME NEW i \in DOMAIN os
      PROVE  IF i = Len(os) THEN Encloses(os[i], sd, Len(ls2), Len(lp))
             ELSE Encloses(os[i], os[i + 1].d, os[i + 1].h, os[i + 1].n)
  <2>1. IF i = Len(os) THEN Encloses(os[i], sd, Len(ls), Len(lp))
        ELSE Encloses(os[i], os[i + 1].d, os[i + 1].h, os[i + 1].n)
    BY DEF Nesting
  <2>2. i = Len(os) => ~InBody(os[i]) /\ os[i].kind # "do"
    <3>1. os # <<>> OBVIOUS
    <3> QED BY <3>1 DEF Last
  <2> QED BY <2>1, <2>2 DEF Encloses
<1> QED BY <1>1, <1>2 DEF Nesting

(* So does a change of the loop records.                                   *)
LEMMA NestingLoops ==
  ASSUME NEW os \in Seq(Statement), NEW ls \in Seq(Local), NEW sd \in Nat, NEW lp \in Seq(LoopRecord),
         Nesting(os, ls, sd, lp), NEW lp2 \in Seq(LoopRecord), Len(lp2) = Len(lp),
         \A i \in DOMAIN os : IsLoop(os[i]) => LoopOK(os[i], lp2[os[i].n + 1], ls)
  PROVE  Nesting(os, ls, sd, lp2)
<1>1. DOMAIN lp2 = DOMAIN lp OBVIOUS
<1> QED BY <1>1 DEF Nesting

(* The statements os2 are os; only a return may have become known.         *)
SameButReturns(os, os2) ==
  /\ os \in Seq(Statement) /\ os2 \in Seq(Statement) /\ Len(os2) = Len(os) /\ DOMAIN os2 = DOMAIN os
  /\ \A i \in DOMAIN os :
       /\ os2[i].kind = os[i].kind /\ os2[i].arm = os[i].arm /\ os2[i].a = os[i].a /\ os2[i].b = os[i].b
       /\ os2[i].j = os[i].j /\ os2[i].jumps = os[i].jumps /\ os2[i].ctx = os[i].ctx
       /\ os2[i].fin = os[i].fin /\ os2[i].h = os[i].h /\ os2[i].d = os[i].d /\ os2[i].n = os[i].n
       /\ os2[i].ret = os[i].ret \/ (InBody(os[i]) /\ os2[i].ret)

(* So does a return noted by the statements it leaves.                     *)
LEMMA NestingReturns ==
  ASSUME NEW os, NEW os2, NEW ls, NEW sd, NEW lp, SameButReturns(os, os2), Nesting(os, ls, sd, lp)
  PROVE  Nesting(os2, ls, sd, lp)
<1>1. ASSUME NEW i \in DOMAIN os
      PROVE  /\ Extra(os2[i]) = Extra(os[i]) /\ Beyond(os2[i]) = Beyond(os[i])
             /\ IsLoop(os2[i]) <=> IsLoop(os[i])
             /\ os2[i].h = os[i].h /\ os2[i].d = os[i].d /\ os2[i].n = os[i].n
             /\ \A d, m, n : Encloses(os[i], d, m, n) => Encloses(os2[i], d, m, n)
             /\ \A l : LoopOK(os[i], l, ls) => LoopOK(os2[i], l, ls)
  <2>1. /\ os2[i].kind = os[i].kind /\ os2[i].arm = os[i].arm /\ os2[i].a = os[i].a
        /\ os2[i].b = os[i].b /\ os2[i].h = os[i].h /\ os2[i].d = os[i].d /\ os2[i].n = os[i].n
    BY DEF SameButReturns
  <2>2. /\ Extra(os2[i]) = Extra(os[i]) /\ Beyond(os2[i]) = Beyond(os[i])
        /\ (IsLoop(os2[i]) <=> IsLoop(os[i])) /\ (InBody(os2[i]) <=> InBody(os[i]))
    BY <2>1 DEF Extra, Beyond, IsLoop, InBody
  <2>3. ASSUME NEW d, NEW m, NEW n, Encloses(os[i], d, m, n) PROVE Encloses(os2[i], d, m, n)
    BY <2>1, <2>2, <2>3 DEF Encloses
  <2>4. ASSUME NEW l, LoopOK(os[i], l, ls) PROVE LoopOK(os2[i], l, ls)
    BY <2>1, <2>4 DEF LoopOK
  <2> QED BY <2>1, <2>2, <2>3, <2>4
<1>2. DOMAIN os2 = DOMAIN os /\ Len(os2) = Len(os) /\ DOMAIN os = 1..Len(os) /\ Len(os) \in Nat
  BY DEF SameButReturns
<1>3. ASSUME NEW i \in DOMAIN os
      PROVE  /\ Split(ls, os2[i].d, os2[i].h)
             /\ IF i = Len(os2) THEN Encloses(os2[i], sd, Len(ls), Len(lp))
                ELSE Encloses(os2[i], os2[i + 1].d, os2[i + 1].h, os2[i + 1].n)
             /\ sd >= os2[i].d + Extra(os2[i]) /\ Len(lp) >= os2[i].n + Beyond(os2[i])
             /\ \A k \in DOMAIN os2 : i < k =>
                  os2[k].d >= os2[i].d + Extra(os2[i]) /\ os2[k].n >= os2[i].n + Beyond(os2[i])
             /\ IsLoop(os2[i]) => LoopOK(os2[i], lp[os2[i].n + 1], ls)
  <2>1. /\ Split(ls, os[i].d, os[i].h)
        /\ IF i = Len(os) THEN Encloses(os[i], sd, Len(ls), Len(lp))
           ELSE Encloses(os[i], os[i + 1].d, os[i + 1].h, os[i + 1].n)
        /\ sd >= os[i].d + Extra(os[i]) /\ Len(lp) >= os[i].n + Beyond(os[i])
        /\ \A k \in DOMAIN os : i < k =>
             os[k].d >= os[i].d + Extra(os[i]) /\ os[k].n >= os[i].n + Beyond(os[i])
        /\ IsLoop(os[i]) => LoopOK(os[i], lp[os[i].n + 1], ls)
    BY DEF Nesting
  <2>2. i # Len(os) => i + 1 \in DOMAIN os BY <1>2
  <2>3. IF i = Len(os2) THEN Encloses(os2[i], sd, Len(ls), Len(lp))
        ELSE Encloses(os2[i], os2[i + 1].d, os2[i + 1].h, os2[i + 1].n)
    <3>1. CASE i = Len(os) BY <1>1, <1>2, <2>1, <3>1
    <3>2. CASE i # Len(os)
      <4>1. os2[i + 1].d = os[i + 1].d /\ os2[i + 1].h = os[i + 1].h /\ os2[i + 1].n = os[i + 1].n
        BY <1>1, <2>2, <3>2
      <4>2. Encloses(os2[i], os[i + 1].d, os[i + 1].h, os[i + 1].n) BY <1>1, <2>1, <3>2
      <4> QED BY <1>2, <3>2, <4>1, <4>2
    <3> QED BY <3>1, <3>2
  <2>4. \A k \in DOMAIN os2 : i < k =>
          os2[k].d >= os2[i].d + Extra(os2[i]) /\ os2[k].n >= os2[i].n + Beyond(os2[i])
    BY <1>1, <1>2, <2>1
  <2> QED BY <1>1, <2>1, <2>3, <2>4
<1>4. ASSUME NEW q \in DOMAIN lp
      PROVE  \E i \in DOMAIN os2 : IsLoop(os2[i]) /\ os2[i].n + 1 = q
  <2>1. PICK i \in DOMAIN os : IsLoop(os[i]) /\ os[i].n + 1 = q BY DEF Nesting
  <2> QED BY <1>1, <1>2, <2>1
<1>5. \A k \in DOMAIN ls : ls[k].depth <= sd BY DEF Nesting
<1> QED BY <1>2, <1>3, <1>4, <1>5 DEF Nesting

----------------------------------------------------------------------------
(* Contexts.                                                               *)

(* Contexts around statements are contexts.                                *)
LEMMA WithinTypes ==
  ASSUME NEW os \in Seq(Statement)
  PROVE  /\ Innermost(os) \in Context
         /\ \A i \in DOMAIN os : Outer(os, i) \in Context
<1>1. Outermost \in Context
  <2>1. <<>> \in Seq(Nat) /\ {} \in SUBSET Nat /\ 0 \in Nat OBVIOUS
  <2> QED BY <2>1 DEF Outermost, Context
<1>2. ASSUME NEW i \in DOMAIN os PROVE os[i].ctx \in Context
  <2>1. os[i] \in Statement OBVIOUS
  <2> QED BY <2>1, ExtraIs
<1>3. \A i \in DOMAIN os : i # 1 => i - 1 \in DOMAIN os OBVIOUS
<1>4. os # <<>> => Len(os) \in DOMAIN os OBVIOUS
<1> QED BY <1>1, <1>2, <1>3, <1>4 DEF Innermost, Outer, Last

(* What is known of the context at the end of os.                          *)
LEMMA InnermostIs ==
  ASSUME NEW os \in Seq(Statement), Contexts(os)
  PROVE  /\ \A i \in DOMAIN os : (\A j \in (i + 1)..Len(os) : ~Crosses(os[j])) =>
              Innermost(os).hs = os[i].ctx.hs /\ Innermost(os).rf = os[i].ctx.rf
         /\ Handles(os, Len(os), Innermost(os).hs)
<1>1. CASE os = <<>> BY <1>1 DEF Innermost, Outermost, Handles
<1>2. CASE os # <<>>
  <2>1. /\ Len(os) \in DOMAIN os /\ DOMAIN os = 1..Len(os) /\ Len(os) \in Nat
        /\ Innermost(os) = os[Len(os)].ctx
    BY <1>2 DEF Innermost, Last
  <2>2. \A i \in DOMAIN os : i <= Len(os) BY <2>1
  <2>3. \A j \in 1..Len(os) : j \in DOMAIN os BY <2>1
  <2> QED BY <2>1, <2>2, <2>3 DEF Contexts
<1> QED BY <1>1, <1>2

(* Contexts stay consistent when a statement begins.                       *)
LEMMA ContextsPush ==
  ASSUME NEW os \in Seq(Statement), Contexts(os), NEW o \in Statement, Within(o, Innermost(os)),
         o.kind = "try" => \A i \in DOMAIN os : os[i].kind = "try" => os[i].a # o.a
  PROVE  Contexts(Append(os, o))
<1> DEFINE os2 == Append(os, o)
           N == Len(os)
           out == Innermost(os)
<1>1. /\ os2 \in Seq(Statement) /\ Len(os2) = N + 1 /\ DOMAIN os2 = 1..(N + 1) /\ DOMAIN os = 1..N
      /\ N \in Nat /\ os2[N + 1] = o /\ \A i \in 1..N : os2[i] = os[i] /\ i \in 1..(N + 1) /\ i # N + 1
  BY AppendIs
<1>2. N = Len(os) /\ (N = 0 <=> os = <<>>) OBVIOUS
<1> HIDE DEF os2, N, out
<1>3. \A i \in 1..(N + 1) : Outer(os2, i) = IF i = N + 1 THEN out ELSE Outer(os, i)
  <2> SUFFICES ASSUME NEW i \in 1..(N + 1)
               PROVE  Outer(os2, i) = IF i = N + 1 THEN out ELSE Outer(os, i)
    OBVIOUS
  <2>1. i # 1 => i - 1 \in 1..N /\ (i = N + 1 => i - 1 = N) BY <1>1
  <2>2. i = 1 => (i = N + 1 <=> os = <<>>) BY <1>1, <1>2
  <2> QED BY <1>1, <1>2, <2>1, <2>2 DEF Outer, Innermost, Last, out
<1>4. /\ \A i \in 1..N : (\A j \in (i + 1)..N : ~Crosses(os[j])) =>
           out.hs = os[i].ctx.hs /\ out.rf = os[i].ctx.rf
      /\ Handles(os, N, out.hs)
  BY <1>1, <1>2, InnermostIs DEF out
<1>5. /\ ~Crosses(o) => o.ctx.hs = out.hs /\ o.ctx.rf = out.rf
      /\ ~InBody(o) => o.ctx.hs = out.hs
      /\ InBody(o) => o.ctx.hs = Append(out.hs, o.a)
  BY DEF Within, Crosses, InBody, out
<1>6. \A i \in DOMAIN os2 : Within(os2[i], Outer(os2, i))
  BY <1>1, <1>3 DEF Contexts, out
<1>7. ASSUME NEW i \in DOMAIN os2, NEW k \in DOMAIN os2,
             i <= k, \A j \in (i + 1)..k : ~Crosses(os2[j])
      PROVE  os2[k].ctx.hs = os2[i].ctx.hs /\ os2[k].ctx.rf = os2[i].ctx.rf
  <2>1. CASE k \in 1..N
    <3>1. i \in 1..N /\ \A j \in (i + 1)..k : ~Crosses(os[j]) BY <1>1, <1>7, <2>1
    <3> QED BY <1>1, <1>7, <2>1, <3>1 DEF Contexts
  <2>2. CASE k = N + 1 /\ i \in 1..N
    <3>1. \A j \in (i + 1)..N : ~Crosses(os[j]) BY <1>1, <1>7, <2>2
    <3>2. ~Crosses(o) BY <1>1, <1>7, <2>2
    <3> QED BY <1>1, <1>4, <1>5, <2>2, <3>1, <3>2
  <2>3. CASE i = N + 1
    <3>1. i = k BY <1>1, <1>7, <2>3
    <3> QED BY <3>1
  <2> QED BY <1>1, <2>1, <2>2, <2>3
<1>8. ASSUME NEW k \in DOMAIN os2 PROVE Handles(os2, k, os2[k].ctx.hs)
  <2>1. ASSUME NEW hs, NEW n \in 0..N, Handles(os, n, hs) PROVE Handles(os2, n, hs)
    <3>1. \A j \in 1..n : j \in 1..N BY <1>1
    <3>2. CASE hs = <<>> /\ \A j \in 1..n : ~InBody(os[j]) BY <1>1, <3>1, <3>2 DEF Handles
    <3>3. CASE \E i \in 1..n : /\ InBody(os[i]) /\ \A j \in (i + 1)..n : ~InBody(os[j])
                               /\ hs # <<>> /\ Last(hs) = os[i].a
      <4>1. PICK i \in 1..n : /\ InBody(os[i]) /\ \A j \in (i + 1)..n : ~InBody(os[j])
                              /\ hs # <<>> /\ Last(hs) = os[i].a
        BY <3>3
      <4>2. \A j \in (i + 1)..n : j \in 1..n OBVIOUS
      <4> QED BY <1>1, <3>1, <4>1, <4>2 DEF Handles
    <3> QED BY <2>1, <3>2, <3>3 DEF Handles
  <2>2. CASE k \in 1..N BY <1>1, <2>1, <2>2 DEF Contexts
  <2>3. CASE k = N + 1 /\ InBody(o)
    <3>1. o.ctx.hs = Append(out.hs, o.a) BY <1>5, <2>3
    <3>2. out.hs \in Seq(Nat) /\ o.a \in Nat
      <4>1. out \in Context BY WithinTypes DEF out
      <4> QED BY <4>1, ExtraIs DEF Context
    <3>3. o.ctx.hs # <<>> /\ Last(o.ctx.hs) = o.a BY <3>1, <3>2 DEF Last
    <3>4. N + 1 \in 1..k /\ \A j \in (N + 1 + 1)..k : FALSE BY <1>1, <2>3
    <3> QED BY <1>1, <2>3, <3>3, <3>4 DEF Handles
  <2>4. CASE k = N + 1 /\ ~InBody(o)
    <3>1. o.ctx.hs = out.hs /\ Handles(os2, N, out.hs) BY <1>1, <1>4, <1>5, <2>1, <2>4
    <3>2. CASE out.hs = <<>> /\ \A j \in 1..N : ~InBody(os2[j])
      <4>1. \A j \in 1..k : ~InBody(os2[j]) BY <1>1, <2>4, <3>2
      <4> QED BY <1>1, <2>4, <3>1, <3>2, <4>1 DEF Handles
    <3>3. CASE \E i \in 1..N : /\ InBody(os2[i]) /\ \A j \in (i + 1)..N : ~InBody(os2[j])
                               /\ out.hs # <<>> /\ Last(out.hs) = os2[i].a
      <4>1. PICK i \in 1..N : /\ InBody(os2[i]) /\ \A j \in (i + 1)..N : ~InBody(os2[j])
                              /\ out.hs # <<>> /\ Last(out.hs) = os2[i].a
        BY <3>3
      <4>2. i \in 1..k /\ \A j \in (i + 1)..k : ~InBody(os2[j]) BY <1>1, <2>4, <4>1
      <4> QED BY <1>1, <2>4, <3>1, <4>1, <4>2 DEF Handles
    <3> QED BY <3>1, <3>2, <3>3 DEF Handles
  <2> QED BY <1>1, <2>2, <2>3, <2>4
<1>10. ASSUME NEW i \in DOMAIN os2, NEW k \in DOMAIN os2, i # k, os2[i].kind = "try", os2[k].kind = "try"
       PROVE  os2[i].a # os2[k].a
  BY <1>1, <1>10 DEF Contexts
<1> QED BY <1>6, <1>7, <1>8, <1>10 DEF Contexts, os2

(* Contexts stay consistent when a statement ends.                         *)
LEMMA ContextsPop ==
  ASSUME NEW os \in Seq(Statement), Contexts(os), os # <<>>
  PROVE  /\ Contexts(ButLast(os, 1)) /\ Innermost(ButLast(os, 1)) = Outer(os, Len(os))
         /\ \A i \in DOMAIN ButLast(os, 1) : Outer(ButLast(os, 1), i) = Outer(os, i)
         /\ Within(Last(os), Outer(os, Len(os)))
         /\ Last(os).kind = "try" =>
              \A i \in DOMAIN ButLast(os, 1) : os[i].kind = "try" => os[i].a # Last(os).a
<1> DEFINE os2 == ButLast(os, 1)
           N == Len(os)
<1>1. /\ N \in Nat \ {0} /\ DOMAIN os = 1..N /\ N = Len(os) /\ N - 1 \in Nat /\ N \in 1..N
      /\ Last(os) = os[N]
  BY DEF Last
<1>2. /\ os2 \in Seq(Statement) /\ Len(os2) = N - 1 /\ DOMAIN os2 = 1..(N - 1)
      /\ \A i \in 1..(N - 1) : os2[i] = os[i]
  <2>1. os2 = SubSeq(os, 1, N - 1) /\ N - 1 \in 0..Len(os) BY DEF ButLast
  <2> HIDE DEF os2, N
  <2> QED BY <2>1, CutIs
<1>e. os2 = <<>> <=> N = 1 BY <1>1, <1>2
<1> HIDE DEF os2, N
<1>3. \A i \in 1..(N - 1) : i \in 1..N /\ i # N
  <2>1. N \in Nat BY <1>1
  <2> QED BY <2>1
<1>4. \A i \in 1..(N - 1) : Outer(os2, i) = Outer(os, i)
  <2> SUFFICES ASSUME NEW i \in 1..(N - 1) PROVE Outer(os2, i) = Outer(os, i) OBVIOUS
  <2>1. i # 1 => i - 1 \in 1..(N - 1) BY <1>1
  <2> QED BY <1>2, <2>1 DEF Outer
<1>5. Innermost(os2) = Outer(os, N)
  <2>1. N # 1 => N - 1 \in 1..(N - 1) BY <1>1
  <2> QED BY <1>2, <1>e, <2>1 DEF Innermost, Outer, Last
<1>6. \A i, k \in DOMAIN os2 :
        i <= k /\ (\A j \in (i + 1)..k : ~Crosses(os2[j])) =>
          os2[k].ctx.hs = os2[i].ctx.hs /\ os2[k].ctx.rf = os2[i].ctx.rf
  <2> SUFFICES ASSUME NEW i \in 1..(N - 1), NEW k \in 1..(N - 1), i <= k,
                      \A j \in (i + 1)..k : ~Crosses(os2[j])
               PROVE  os2[k].ctx.hs = os2[i].ctx.hs /\ os2[k].ctx.rf = os2[i].ctx.rf
    BY <1>2
  <2>1. \A j \in (i + 1)..k : ~Crosses(os[j]) BY <1>1, <1>2
  <2>2. i \in DOMAIN os /\ k \in DOMAIN os BY <1>1, <1>3
  <2>3. os[k].ctx.hs = os[i].ctx.hs /\ os[k].ctx.rf = os[i].ctx.rf BY <2>1, <2>2 DEF Contexts
  <2> QED BY <1>2, <2>3
<1>7. ASSUME NEW k \in DOMAIN os2 PROVE Handles(os2, k, os2[k].ctx.hs)
  <2>1. k \in 1..(N - 1) /\ k \in DOMAIN os /\ os2[k] = os[k] BY <1>1, <1>2, <1>3
  <2>2. Handles(os, k, os[k].ctx.hs) BY <2>1 DEF Contexts
  <2>3. \A j \in 1..k : os2[j] = os[j] BY <1>1, <1>2, <2>1
  <2>4. \A i \in 1..k : \A j \in (i + 1)..k : j \in 1..k BY <1>1, <2>1
  <2> QED BY <2>1, <2>2, <2>3, <2>4 DEF Handles
<1>9. \A i, k \in DOMAIN os2 :
        i # k /\ os2[i].kind = "try" /\ os2[k].kind = "try" => os2[i].a # os2[k].a
  <2> SUFFICES ASSUME NEW i \in 1..(N - 1), NEW k \in 1..(N - 1), i # k, os2[i].kind = "try",
                      os2[k].kind = "try"
               PROVE  os2[i].a # os2[k].a
    BY <1>2
  <2>1. os2[i] = os[i] /\ os2[k] = os[k] /\ i \in DOMAIN os /\ k \in DOMAIN os BY <1>1, <1>2, <1>3
  <2> QED BY <2>1 DEF Contexts
<1>10. \A i \in DOMAIN os2 : Within(os2[i], Outer(os2, i)) BY <1>1, <1>2, <1>3, <1>4 DEF Contexts
<1>11. Contexts(os2) BY <1>6, <1>7, <1>9, <1>10 DEF Contexts
<1>12. Within(os[N], Outer(os, N)) BY <1>1 DEF Contexts
<1>13. os[N].kind = "try" => \A i \in 1..(N - 1) : os[i].kind = "try" => os[i].a # os[N].a
  BY <1>1, <1>3 DEF Contexts
<1> QED BY <1>1, <1>2, <1>4, <1>5, <1>11, <1>12, <1>13 DEF os2, N

(* Contexts do not depend on the returns noted.                            *)
LEMMA ContextsReturns ==
  ASSUME NEW os, NEW os2, SameButReturns(os, os2), Contexts(os)
  PROVE  /\ Contexts(os2) /\ Innermost(os2) = Innermost(os)
         /\ \A i \in DOMAIN os : Outer(os2, i) = Outer(os, i)
<1>1. /\ DOMAIN os2 = DOMAIN os /\ Len(os2) = Len(os) /\ DOMAIN os = 1..Len(os) /\ Len(os) \in Nat
      /\ os = <<>> <=> os2 = <<>>
  BY DEF SameButReturns
<1>2. ASSUME NEW i \in DOMAIN os
      PROVE  /\ os2[i].ctx = os[i].ctx /\ os2[i].a = os[i].a /\ os2[i].kind = os[i].kind
             /\ Crosses(os2[i]) <=> Crosses(os[i])
             /\ InBody(os2[i]) <=> InBody(os[i])
             /\ \A out : Within(os[i], out) => Within(os2[i], out)
  <2>1. /\ os2[i].kind = os[i].kind /\ os2[i].arm = os[i].arm /\ os2[i].a = os[i].a
        /\ os2[i].fin = os[i].fin /\ os2[i].ctx = os[i].ctx
        /\ os2[i].ret = os[i].ret \/ (InBody(os[i]) /\ os2[i].ret)
    BY DEF SameButReturns
  <2> QED BY <2>1 DEF Crosses, InBody, Within
<1>3. ASSUME NEW i \in DOMAIN os PROVE Outer(os2, i) = Outer(os, i)
  <2>1. i # 1 => i - 1 \in DOMAIN os BY <1>1
  <2> QED BY <1>2, <2>1 DEF Outer
<1>4. Innermost(os2) = Innermost(os)
  <2>1. os # <<>> => Len(os) \in DOMAIN os BY DEF SameButReturns
  <2> QED BY <1>1, <1>2, <2>1 DEF Innermost, Last
<1>5. \A i \in DOMAIN os2 : Within(os2[i], Outer(os2, i)) BY <1>1, <1>2, <1>3 DEF Contexts
<1>6. ASSUME NEW i \in DOMAIN os, NEW k \in DOMAIN os, i <= k, \A j \in (i + 1)..k : ~Crosses(os2[j])
      PROVE  os2[k].ctx.hs = os2[i].ctx.hs /\ os2[k].ctx.rf = os2[i].ctx.rf
  <2>1. \A j \in (i + 1)..k : j \in DOMAIN os BY <1>1
  <2>2. \A j \in (i + 1)..k : ~Crosses(os[j]) BY <1>2, <1>6, <2>1
  <2> QED BY <1>2, <1>6, <2>2 DEF Contexts
<1>7. ASSUME NEW k \in DOMAIN os PROVE Handles(os2, k, os2[k].ctx.hs)
  <2>1. Handles(os, k, os[k].ctx.hs) BY DEF Contexts
  <2>2. \A j \in 1..k : j \in DOMAIN os BY <1>1
  <2>3. \A j \in 1..k : (InBody(os2[j]) <=> InBody(os[j])) /\ os2[j].a = os[j].a BY <1>2, <2>2
  <2>4. \A i \in 1..k : \A j \in (i + 1)..k : j \in 1..k OBVIOUS
  <2>5. os2[k].ctx.hs = os[k].ctx.hs BY <1>2
  <2> QED BY <2>1, <2>3, <2>4, <2>5 DEF Handles
<1>8. \A i, k \in DOMAIN os :
        i # k /\ os2[i].kind = "try" /\ os2[k].kind = "try" => os2[i].a # os2[k].a
  BY <1>2 DEF Contexts
<1>9. Contexts(os2) BY <1>1, <1>5, <1>6, <1>7, <1>8 DEF Contexts
<1> QED BY <1>3, <1>4, <1>9

----------------------------------------------------------------------------
(* What statements expect.                                                 *)

----------------------------------------------------------------------------
(* What the open statements expect still holds of the code as it grows.    *)

(* The loop l2 is l, with more jumps to patch perhaps.                     *)
SameLoop(c, l, l2, out) ==
  /\ l2.count = l.count
  /\ \A p \in l2.breaks \cup l2.continues :
       p \in l.breaks \cup l.continues \/ Waits(c, p, "JUMP", l.count, out)

(* A statement's expectations hold in code that keeps what was known.      *)
LEMMA ExpectsKept ==
  ASSUME NEW c, NEW m, NEW c2, NEW m2, Keeps(c, m, c2, m2),
         NEW o, NEW out, NEW l, NEW l2, Expects(c, m, o, out, l),
         IsLoop(o) => SameLoop(c2, l, l2, out)
  PROVE  Expects(c2, m2, o, out, l2)
<1>1. \A p, op, h : Waits(c, p, op, h, out) => Waits(c2, p, op, h, out) BY DEF Keeps
<1>2. \A q, h : Begun(c, m, q, h, out) => Begun(c2, m2, q, h, out) BY DEF Keeps
<1> DEFINE W(p, op, h) == Waits(c, p, op, h, out)
           W2(p, op, h) == Waits(c2, p, op, h, out)
           B(q, h) == Begun(c, m, q, h, out)
           B2(q, h) == Begun(c2, m2, q, h, out)
<1>3. IsLoop(o) => l2.count = l.count BY DEF SameLoop
<1>4. o.kind \in {"for", "foreach"} => IsLoop(o) BY DEF IsLoop, LoopKinds
<1>5. IsLoop(o) => \A p \in l2.breaks \cup l2.continues : Waits(c2, p, "JUMP", l2.count, out)
  <2> SUFFICES ASSUME IsLoop(o), NEW p \in l2.breaks \cup l2.continues
               PROVE  Waits(c2, p, "JUMP", l2.count, out)
    OBVIOUS
  <2>1. \A q \in l.breaks \cup l.continues : Waits(c, q, "JUMP", l.count, out) BY DEF Expects
  <2>2. p \in l.breaks \cup l.continues \/ Waits(c2, p, "JUMP", l.count, out) BY DEF SameLoop
  <2> QED BY <1>1, <1>3, <2>1, <2>2
<1>6. o.kind = "if" =>
       /\ o.arm \in {"then", "else"}
       /\ o.arm = "then" => Waits(c2, o.j, "JUMP_IF_FALSE", o.h + 1, out)
       /\ \A p \in o.jumps : Waits(c2, p, "JUMP", o.h, out)
  BY <1>1 DEF Expects
<1>7. o.kind = "while" =>
       /\ Begun(c2, m2, o.a, o.h, out)
       /\ o.arm \in {"cond", "lt"}
       /\ IF o.arm = "lt" THEN Waits(c2, o.j, "JUMP_IF_NOT_LT", o.h, out)
          ELSE Waits(c2, o.j, "JUMP_IF_FALSE", o.h + 1, out)
  BY <1>1, <1>2 DEF Expects
<1>8. o.kind = "do" => o.arm = "body" /\ Begun(c2, m2, o.a, o.h, out) BY <1>2 DEF Expects
<1>9. o.kind = "for" =>
       /\ Begun(c2, m2, o.a, l2.count, out)
       /\ o.j # 0 => Waits(c2, o.j, "JUMP_IF_FALSE", l2.count + 1, out)
  <2> SUFFICES ASSUME o.kind = "for"
               PROVE  /\ Begun(c2, m2, o.a, l2.count, out)
                      /\ o.j # 0 => Waits(c2, o.j, "JUMP_IF_FALSE", l2.count + 1, out)
    OBVIOUS
  <2>1. l2.count = l.count BY <1>3, <1>4
  <2>2. /\ Begun(c, m, o.a, l.count, out)
        /\ o.j # 0 => Waits(c, o.j, "JUMP_IF_FALSE", l.count + 1, out)
    BY DEF Expects
  <2> QED BY <1>1, <1>2, <2>1, <2>2
<1>10. o.kind = "foreach" => Waits(c2, o.a, "FOR_ITER", l2.count, out)
  <2> SUFFICES ASSUME o.kind = "foreach" PROVE Waits(c2, o.a, "FOR_ITER", l2.count, out) OBVIOUS
  <2>1. l2.count = l.count BY <1>3, <1>4
  <2>2. Waits(c, o.a, "FOR_ITER", l.count, out) BY DEF Expects
  <2> QED BY <1>1, <2>1, <2>2
<1>11. o.kind = "switch" =>
       /\ Begun(c2, m2, o.a, o.h, out)
       /\ o.arm \in {"case", "default"}
       /\ o.arm = "case" => Waits(c2, o.j, "JUMP_IF_FALSE", o.h + 2, out)
  BY <1>1, <1>2 DEF Expects
<1>12. o.kind = "try" =>
       /\ Waits(c2, o.a, "TRY_ENTER", o.h, out)
       /\ o.arm = "catch" =>
            /\ Waits(c2, o.b, "JUMP", o.h, out)
            /\ Waits(c2, o.j, "JUMP_IF_FALSE", o.h + 2, out)
            /\ \A p \in o.jumps : Waits(c2, p, "JUMP", o.h, out)
  BY <1>1 DEF Expects
<1> QED BY <1>5, <1>6, <1>7, <1>8, <1>9, <1>10, <1>11, <1>12 DEF Expects

(* A hole belongs to a statement or to a loop.                             *)
LEMMA HolesAre ==
  ASSUME NEW os, NEW lp, NEW p
  PROVE  p \in HolesIn(os, lp) <=>
           \/ \E i \in DOMAIN os : p \in HolesOf(os[i])
           \/ \E q \in DOMAIN lp : p \in lp[q].breaks \cup lp[q].continues
<1> DEFINE A == UNION {HolesOf(os[i]) : i \in DOMAIN os}
           B == UNION {lp[q].breaks \cup lp[q].continues : q \in DOMAIN lp}
           InA == \E i \in DOMAIN os : p \in HolesOf(os[i])
           InB == \E q \in DOMAIN lp : p \in lp[q].breaks \cup lp[q].continues
<1>1. p \in A <=> InA OBVIOUS
<1>2. p \in B <=> InB OBVIOUS
<1>3. HolesIn(os, lp) = A \cup B BY DEF HolesIn
<1> HIDE DEF A, B, InA, InB
<1>4. p \in HolesIn(os, lp) <=> InA \/ InB BY <1>1, <1>2, <1>3
<1> QED BY <1>4 DEF InA, InB

(* The holes of the statements that stay open.                             *)
LEMMA HolesPushed ==
  ASSUME NEW os \in Seq(Statement), NEW lp \in Seq(LoopRecord), NEW o \in Statement, NEW l \in LoopRecord
  PROVE  LET lp2 == IF IsLoop(o) THEN Append(lp, l) ELSE lp IN
         /\ HolesIn(os, lp) \subseteq HolesIn(Append(os, o), lp2)
         /\ HolesOf(o) \subseteq HolesIn(Append(os, o), lp2)
         /\ IsLoop(o) => l.breaks \cup l.continues \subseteq HolesIn(Append(os, o), lp2)
<1> DEFINE os2 == Append(os, o)
           lp2 == IF IsLoop(o) THEN Append(lp, l) ELSE lp
           N == Len(os)
<1>1. /\ DOMAIN os \subseteq DOMAIN os2 /\ N + 1 \in DOMAIN os2 /\ os2[N + 1] = o
      /\ \A i \in DOMAIN os : os2[i] = os[i]
  BY AppendIs
<1>2. DOMAIN lp \subseteq DOMAIN lp2 /\ \A q \in DOMAIN lp : lp2[q] = lp[q] BY AppendIs
<1>3. IsLoop(o) => Len(lp) + 1 \in DOMAIN lp2 /\ lp2[Len(lp) + 1] = l BY AppendIs
<1> HIDE DEF os2, lp2
<1>4. ASSUME NEW p \in HolesIn(os, lp) PROVE p \in HolesIn(os2, lp2)
  <2>1. CASE \E i \in DOMAIN os : p \in HolesOf(os[i]) BY <1>1, <2>1, HolesAre
  <2>2. CASE \E q \in DOMAIN lp : p \in lp[q].breaks \cup lp[q].continues BY <1>2, <2>2, HolesAre
  <2> QED BY <2>1, <2>2, HolesAre
<1>5. HolesOf(o) \subseteq HolesIn(os2, lp2) BY <1>1, HolesAre
<1>6. IsLoop(o) => l.breaks \cup l.continues \subseteq HolesIn(os2, lp2) BY <1>3, HolesAre
<1> QED BY <1>4, <1>5, <1>6 DEF os2, lp2

(* The holes left when the innermost statement ends.                       *)
LEMMA HolesPopped ==
  ASSUME NEW os \in Seq(Statement), NEW ls \in Seq(Local), NEW sd \in Nat, NEW lp \in Seq(LoopRecord),
         Nesting(os, ls, sd, lp), os # <<>>
  PROVE  LET o == Last(os) IN
         HolesIn(os, lp) \subseteq
           HolesIn(ButLast(os, 1), SubSeq(lp, 1, o.n)) \cup HolesOf(o)
             \cup (IF IsLoop(o) THEN Last(lp).breaks \cup Last(lp).continues ELSE {})
<1> DEFINE o == Last(os)
           os2 == ButLast(os, 1)
           lp2 == SubSeq(lp, 1, o.n)
           N == Len(os)
<1>1. /\ N \in Nat \ {0} /\ DOMAIN os = 1..N /\ DOMAIN os2 = 1..(N - 1)
      /\ \A i \in DOMAIN os2 : os2[i] = os[i]
      /\ o.n \in 0..Len(lp) /\ Len(lp) = o.n + Beyond(o) /\ o \in Statement
      /\ IsLoop(o) => Last(lp) = lp[o.n + 1]
  BY NestingPop
<1>2. os[N] = o BY <1>1 DEF Last
<1>3. Len(lp) \in Nat /\ DOMAIN lp = 1..Len(lp) /\ DOMAIN lp2 = 1..o.n /\ \A q \in 1..o.n : lp2[q] = lp[q]
  BY <1>1, CutIs
<1> HIDE DEF o, os2, lp2, N
<1>4. SUFFICES ASSUME NEW p \in HolesIn(os, lp), p \notin HolesOf(o), p \notin HolesIn(os2, lp2)
               PROVE  IsLoop(o) /\ p \in Last(lp).breaks \cup Last(lp).continues
  BY DEF o, os2, lp2
<1>5. ASSUME NEW i \in DOMAIN os, p \in HolesOf(os[i]) PROVE FALSE
  <2>1. i \in DOMAIN os2
    <3>1. i # N BY <1>2, <1>4, <1>5
    <3> QED BY <1>1, <3>1
  <2> QED BY <1>1, <1>4, <1>5, <2>1, HolesAre
<1>6. PICK q \in DOMAIN lp : p \in lp[q].breaks \cup lp[q].continues BY <1>5, HolesAre
<1>7. q \notin 1..o.n BY <1>3, <1>4, <1>6, HolesAre
<1>8. Beyond(o) \in 0..1 /\ o.n \in Nat BY <1>1, ExtraIs
<1>9. Beyond(o) = 1 /\ q = o.n + 1 BY <1>1, <1>3, <1>7, <1>8
<1>10. IsLoop(o) BY <1>9 DEF Beyond
<1> QED BY <1>1, <1>6, <1>9, <1>10

----------------------------------------------------------------------------
(* The invariant, put together.                                            *)

----------------------------------------------------------------------------
(* One step of the compiler.                                               *)

(* What the statements that were open need of the new code; the one with   *)
(* the handler e has begun its finally block.                              *)
Evolved(c, m, c2, m2, V, e) ==
  /\ Sound(c2, m2, V) /\ Keeps(c, m, c2, m2) /\ NoNewReturn(c, c2)
  /\ \A p \in DOMAIN c : p # e => c2[p].y = c[p].y

(* Growing is a case of evolving.                                          *)
LEMMA GrownEvolved ==
  ASSUME NEW c, NEW m, NEW W, Sound(c, m, W), NEW c2, NEW m2, NEW V, Grown(c, m, c2, m2, V), NEW e
  PROVE  Evolved(c, m, c2, m2, V, e)
<1>1. /\ Sound(c2, m2, V) /\ Extends(c, m, c2, m2) /\ NoNewReturn(c, c2) BY DEF Grown
<1>2. c \in Seq(Instruction) /\ m \in Mark /\ c2 \in Seq(Instruction) /\ m2 \in Mark BY <1>1 DEF Sound
<1>3. Keeps(c, m, c2, m2) BY <1>1, <1>2, ExtendsKeeps
<1>4. \A p \in DOMAIN c : c2[p].y = c[p].y BY <1>1 DEF Extends
<1> QED BY <1>1, <1>3, <1>4 DEF Evolved

(* What a try statement knows of returns survives.                         *)
LEMMA InterceptedOn ==
  ASSUME NEW c, NEW m, NEW c2, NEW m2, NEW V, NEW e, Evolved(c, m, c2, m2, V, e),
         NEW o, NEW out, NEW l, Expects(c, m, o, out, l), Intercepted(c, o), o.kind = "try" => o.a # e
  PROVE  Intercepted(c2, o)
<1> SUFFICES ASSUME o.kind = "try", o.arm \in {"body", "catch"}
             PROVE  /\ c2[o.a].y = 0
                    /\ o.fin => \A p \in DOMAIN c2 :
                         c2[p].op = "RETURN" /\ c2[p].hs # <<>> /\ Top(c2[p].hs) = o.a =>
                           o.ret /\ c2[p].h = o.h + 1
  BY DEF Intercepted
<1>1. o.a \in DOMAIN c BY DEF Expects, Waits
<1>2. c2[o.a].y = 0 BY <1>1 DEF Evolved, Intercepted
<1>3. ASSUME o.fin, NEW p \in DOMAIN c2, c2[p].op = "RETURN", c2[p].hs # <<>>, Top(c2[p].hs) = o.a
      PROVE  o.ret /\ c2[p].h = o.h + 1
  <2>1. p \in DOMAIN c /\ c[p].op = "RETURN" /\ c2[p].h = c[p].h /\ c2[p].hs = c[p].hs
    BY <1>3 DEF NoNewReturn, Evolved
  <2> QED BY <1>3, <2>1 DEF Intercepted
<1> QED BY <1>2, <1>3

(* More holes may be allowed for.                                          *)
LEMMA SoundLess ==
  ASSUME NEW c, NEW m, NEW V, Sound(c, m, V), NEW W, V \subseteq W
  PROVE  Sound(c, m, W)
BY DEF Sound

(* The parts of the invariant put together: the statements that changed    *)
(* are looked at again, the others keep what they expect.                  *)
LEMMA Assembled ==
  ASSUME NEW c, NEW os, NEW ls, NEW sd, NEW lp, Working(c, os, ls, sd, lp),
         NEW os2 \in Seq(Statement), NEW ls2 \in Seq(Local), NEW sd2 \in Nat,
         NEW lp2 \in Seq(LoopRecord), Nesting(os2, ls2, sd2, lp2), Contexts(os2),
         NEW c2, NEW V, NEW e, Evolved(c, MarkOf(os, ls), c2, MarkOf(os2, ls2), V, e),
         V \subseteq HolesIn(os2, lp2),
         \A i \in DOMAIN os2 :
           \/ /\ Expects(c2, MarkOf(os2, ls2), os2[i], Outer(os2, i), lp2[os2[i].n + 1])
              /\ Intercepted(c2, os2[i])
           \/ /\ i \in DOMAIN os /\ os2[i] = os[i] /\ Outer(os2, i) = Outer(os, i)
              /\ os[i].kind = "try" => os[i].a # e
              /\ IsLoop(os[i]) =>
                   SameLoop(c2, lp[os[i].n + 1], lp2[os[i].n + 1], Outer(os, i))
  PROVE  Working(c2, os2, ls2, sd2, lp2)
<1> DEFINE m == MarkOf(os, ls)
           m2 == MarkOf(os2, ls2)
<1> HIDE DEF m, m2
<1>1. Sound(c2, m2, HolesIn(os2, lp2)) BY SoundLess DEF Evolved, m2
<1>2. Evolved(c, m, c2, m2, V, e) /\ Keeps(c, m, c2, m2) BY DEF Evolved, m, m2
<1>3. ASSUME NEW i \in DOMAIN os2
      PROVE  Expects(c2, m2, os2[i], Outer(os2, i), lp2[os2[i].n + 1]) /\ Intercepted(c2, os2[i])
  <2>1. CASE /\ i \in DOMAIN os /\ os2[i] = os[i] /\ Outer(os2, i) = Outer(os, i)
             /\ os[i].kind = "try" => os[i].a # e
             /\ IsLoop(os[i]) => SameLoop(c2, lp[os[i].n + 1], lp2[os[i].n + 1], Outer(os, i))
    <3>1. Expects(c, m, os[i], Outer(os, i), lp[os[i].n + 1]) /\ Intercepted(c, os[i])
      BY <2>1 DEF Working, m
    <3>2. Expects(c2, m2, os[i], Outer(os, i), lp2[os[i].n + 1])
      <4>1. IsLoop(os[i]) => SameLoop(c2, lp[os[i].n + 1], lp2[os[i].n + 1], Outer(os, i)) BY <2>1
      <4> DEFINE l == lp[os[i].n + 1]
                 l2 == lp2[os[i].n + 1]
      <4> HIDE DEF l, l2
      <4>2. Expects(c, m, os[i], Outer(os, i), l) BY <3>1 DEF l
      <4>3. IsLoop(os[i]) => SameLoop(c2, l, l2, Outer(os, i)) BY <4>1 DEF l, l2
      <4>4. Expects(c2, m2, os[i], Outer(os, i), l2) BY <1>2, <4>2, <4>3, ExpectsKept
      <4> QED BY <4>4 DEF l2
    <3>3. Intercepted(c2, os[i]) BY <1>2, <2>1, <3>1, InterceptedOn
    <3> QED BY <2>1, <3>2, <3>3
  <2> QED BY <2>1 DEF m2
<1> QED BY <1>1, <1>3 DEF Working, m2

(* A loop record like itself.                                              *)
LEMMA SameLoopIs == \A c, l, out : SameLoop(c, l, l, out)
BY DEF SameLoop

(* What the invariant says.                                                *)
LEMMA WorkingIs ==
  ASSUME NEW c, NEW os, NEW ls, NEW sd, NEW lp, Working(c, os, ls, sd, lp)
  PROVE  /\ os \in Seq(Statement) /\ ls \in Seq(Local) /\ sd \in Nat /\ lp \in Seq(LoopRecord)
         /\ Nesting(os, ls, sd, lp) /\ Contexts(os)
         /\ Sound(c, MarkOf(os, ls), HolesIn(os, lp))
         /\ c \in Seq(Instruction) /\ MarkOf(os, ls) \in Mark
         /\ Innermost(os) \in Context /\ Len(ls) \in Nat
         /\ MarkOf(os, ls) = MarkIn(Len(ls), Innermost(os))
         /\ \A i \in DOMAIN os : /\ Expects(c, MarkOf(os, ls), os[i], Outer(os, i), lp[os[i].n + 1])
                                 /\ Intercepted(c, os[i])
<1>1. /\ os \in Seq(Statement) /\ ls \in Seq(Local) /\ sd \in Nat /\ lp \in Seq(LoopRecord)
      /\ Nesting(os, ls, sd, lp) /\ Contexts(os)
      /\ Sound(c, MarkOf(os, ls), HolesIn(os, lp))
      /\ \A i \in DOMAIN os : /\ Expects(c, MarkOf(os, ls), os[i], Outer(os, i), lp[os[i].n + 1])
                              /\ Intercepted(c, os[i])
  BY DEF Working
<1>2. c \in Seq(Instruction) /\ MarkOf(os, ls) \in Mark BY <1>1 DEF Sound
<1>3. Innermost(os) \in Context BY <1>1, WithinTypes
<1>4. Len(ls) \in Nat BY <1>1
<1> QED BY <1>1, <1>2, <1>3, <1>4 DEF MarkOf

(* A simple statement keeps the invariant.                                 *)
LEMMA Stayed ==
  ASSUME NEW c, NEW os, NEW ls, NEW sd, NEW lp, Working(c, os, ls, sd, lp),
         NEW c2, NEW V, Grown(c, MarkOf(os, ls), c2, MarkOf(os, ls), V), V \subseteq HolesIn(os, lp)
  PROVE  Working(c2, os, ls, sd, lp)
<1>1. /\ os \in Seq(Statement) /\ ls \in Seq(Local) /\ sd \in Nat /\ lp \in Seq(LoopRecord)
      /\ Nesting(os, ls, sd, lp) /\ Contexts(os) /\ Sound(c, MarkOf(os, ls), HolesIn(os, lp))
  BY WorkingIs
<1>2. Evolved(c, MarkOf(os, ls), c2, MarkOf(os, ls), V, 0) BY <1>1, GrownEvolved
<1>3. ASSUME NEW i \in DOMAIN os, os[i].kind = "try" PROVE os[i].a # 0
  <2>1. Expects(c, MarkOf(os, ls), os[i], Outer(os, i), lp[os[i].n + 1]) BY WorkingIs
  <2>2. os[i].a \in DOMAIN c BY <1>3, <2>1 DEF Expects, Waits
  <2>3. c \in Seq(Instruction) BY WorkingIs
  <2> QED BY <2>2, <2>3
<1> QED BY <1>1, <1>2, <1>3, SameLoopIs, Assembled

(* A statement with a handler knows where it is.                           *)
LEMMA HandlerThere ==
  ASSUME NEW c, NEW os, NEW ls, NEW sd, NEW lp, Working(c, os, ls, sd, lp),
         NEW i \in DOMAIN os, os[i].kind = "try"
  PROVE  os[i].a \in DOMAIN c /\ os[i].a # 0
<1>1. Expects(c, MarkOf(os, ls), os[i], Outer(os, i), lp[os[i].n + 1]) BY WorkingIs
<1>2. os[i].a \in DOMAIN c BY <1>1 DEF Expects, Waits
<1>3. c \in Seq(Instruction) BY WorkingIs
<1> QED BY <1>2, <1>3

(* A statement that begins keeps the invariant.                            *)
LEMMA Opened ==
  ASSUME NEW c, NEW os, NEW ls, NEW sd, NEW lp, Working(c, os, ls, sd, lp),
         NEW o \in Statement, o.h = Len(ls), o.d = sd, o.n = Len(lp),
         NEW ls2, NEW sd2 \in Nat, sd2 = sd + Extra(o),
         Deeper(ls, ls2, sd + 1), \A k \in DOMAIN ls2 : ls2[k].depth <= sd2,
         InBody(o) \/ o.kind = "do" => Len(ls2) = Len(ls),
         NEW l \in LoopRecord, IsLoop(o) => LoopOK(o, l, ls2),
         Within(o, Innermost(os)), o.kind = "try" => o.a \notin DOMAIN c,
         NEW c2, NEW V, Grown(c, MarkOf(os, ls), c2, MarkIn(Len(ls2), o.ctx), V),
         V \subseteq HolesIn(os, lp) \cup HolesOf(o),
         Expects(c2, MarkIn(Len(ls2), o.ctx), o, Innermost(os), l), Intercepted(c2, o)
  PROVE  Working(c2, Append(os, o), ls2, sd2, IF IsLoop(o) THEN Append(lp, l) ELSE lp)
<1> DEFINE os2 == Append(os, o)
           lp2 == IF IsLoop(o) THEN Append(lp, l) ELSE lp
           N == Len(os)
<1>1. /\ os \in Seq(Statement) /\ ls \in Seq(Local) /\ sd \in Nat /\ lp \in Seq(LoopRecord)
      /\ Nesting(os, ls, sd, lp) /\ Contexts(os) /\ Sound(c, MarkOf(os, ls), HolesIn(os, lp))
  BY WorkingIs
<1>2. /\ Nesting(os2, ls2, sd2, lp2) /\ lp2 \in Seq(LoopRecord)
      /\ IsLoop(o) => lp2[o.n + 1] = l
      /\ \A i \in DOMAIN os : IsLoop(os[i]) => lp2[os[i].n + 1] = lp[os[i].n + 1]
  <2>1. /\ o \in Statement /\ o.h = Len(ls) /\ o.d = sd /\ o.n = Len(lp)
        /\ sd2 \in Nat /\ sd2 = sd + Extra(o)
        /\ Deeper(ls, ls2, sd + 1) /\ \A k \in DOMAIN ls2 : ls2[k].depth <= sd2
        /\ InBody(o) \/ o.kind = "do" => Len(ls2) = Len(ls)
        /\ l \in LoopRecord
        /\ IsLoop(o) => LoopOK(o, l, ls2)
    OBVIOUS
  <2>2. os2 = Append(os, o) /\ lp2 = IF IsLoop(o) THEN Append(lp, l) ELSE lp OBVIOUS
  <2> HIDE DEF os2, lp2
  <2>3. Nesting(os2, ls2, sd2, lp2) BY ONLY <1>1, <2>1, <2>2, NestingPush
  <2>4. lp2 \in Seq(LoopRecord) BY ONLY <1>1, <2>1, <2>2
  <2>5. IsLoop(o) => lp2[o.n + 1] = l BY ONLY <1>1, <2>1, <2>2, NestingPush
  <2>6. ASSUME NEW i \in DOMAIN os, IsLoop(os[i]) PROVE lp2[os[i].n + 1] = lp[os[i].n + 1]
    <3>1. os[i].n + 1 \in DOMAIN lp BY <1>1, <2>6, NestingIs
    <3>2. \A q \in DOMAIN lp : Append(lp, l)[q] = lp[q] BY <1>1
    <3> QED BY <2>2, <3>1, <3>2
  <2> QED BY <2>3, <2>4, <2>5, <2>6
<1>3. /\ os2 \in Seq(Statement) /\ Len(os2) = N + 1 /\ DOMAIN os2 = 1..(N + 1) /\ DOMAIN os = 1..N
      /\ N \in Nat /\ os2[N + 1] = o /\ os2 # <<>>
      /\ \A i \in 1..N : os2[i] = os[i] /\ i \in 1..(N + 1) /\ i # N + 1
  BY <1>1, AppendIs
<1>4. Contexts(os2)
  <2>1. o.kind = "try" => \A i \in DOMAIN os : os[i].kind = "try" => os[i].a # o.a BY HandlerThere
  <2> QED BY <1>1, <2>1, ContextsPush
<1>5. /\ HolesIn(os, lp) \subseteq HolesIn(os2, lp2) /\ HolesOf(o) \subseteq HolesIn(os2, lp2)
  BY <1>1, HolesPushed
<1>6. N = Len(os) /\ (N = 0 <=> os = <<>>) BY <1>1
<1> HIDE DEF os2, lp2, N
<1>7. /\ MarkOf(os2, ls2) = MarkIn(Len(ls2), o.ctx) /\ Outer(os2, N + 1) = Innermost(os)
      /\ \A i \in 1..N : Outer(os2, i) = Outer(os, i)
  <2>1. Innermost(os2) = o.ctx BY <1>3 DEF Innermost, Last
  <2>2. Outer(os2, N + 1) = Innermost(os)
    <3>1. CASE N = 0
      <4>1. os = <<>> BY <1>6, <3>1
      <4> QED BY <3>1, <4>1 DEF Outer, Innermost
    <3>2. CASE N # 0
      <4>1. os # <<>> /\ N + 1 # 1 /\ N + 1 - 1 = N /\ N \in 1..N BY <1>3, <1>6, <3>2
      <4> QED BY <1>3, <1>6, <4>1 DEF Outer, Innermost, Last
    <3> QED BY <3>1, <3>2
  <2>3. ASSUME NEW i \in 1..N PROVE Outer(os2, i) = Outer(os, i)
    <3>1. i # 1 => i - 1 \in 1..N BY <1>3
    <3> QED BY <1>3, <3>1 DEF Outer
  <2> QED BY <2>1, <2>2, <2>3 DEF MarkOf
<1>8. Evolved(c, MarkOf(os, ls), c2, MarkOf(os2, ls2), V, 0) BY <1>1, <1>7, GrownEvolved
<1>9. ASSUME NEW i \in DOMAIN os2
      PROVE  \/ /\ Expects(c2, MarkOf(os2, ls2), os2[i], Outer(os2, i), lp2[os2[i].n + 1])
                /\ Intercepted(c2, os2[i])
             \/ /\ i \in DOMAIN os /\ os2[i] = os[i] /\ Outer(os2, i) = Outer(os, i)
                /\ os[i].kind = "try" => os[i].a # 0
                /\ IsLoop(os[i]) =>
                     SameLoop(c2, lp[os[i].n + 1], lp2[os[i].n + 1], Outer(os, i))
  <2>1. CASE i = N + 1
    <3>1. IsLoop(o) => SameLoop(c2, l, lp2[o.n + 1], Innermost(os)) BY <1>2, SameLoopIs
    <3>2. \A w : Keeps(c2, w, c2, w) BY DEF Keeps
    <3>3. Expects(c2, MarkIn(Len(ls2), o.ctx), o, Innermost(os), lp2[o.n + 1])
      <4> DEFINE l2 == lp2[o.n + 1]
                 m2 == MarkIn(Len(ls2), o.ctx)
      <4>1. /\ Expects(c2, m2, o, Innermost(os), l) /\ Keeps(c2, m2, c2, m2)
            /\ IsLoop(o) => SameLoop(c2, l, l2, Innermost(os))
        BY <3>1, <3>2
      <4> HIDE DEF l2, m2
      <4>2. Expects(c2, m2, o, Innermost(os), l2) BY ONLY <4>1, ExpectsKept
      <4> QED BY <4>2 DEF l2, m2
    <3> QED BY <1>3, <1>7, <2>1, <3>3
  <2>2. CASE i \in 1..N
    <3>1. i \in DOMAIN os /\ os2[i] = os[i] /\ Outer(os2, i) = Outer(os, i) BY <1>3, <1>7, <2>2
    <3>2. os[i].kind = "try" => os[i].a # 0 BY <3>1, HandlerThere
    <3>3. IsLoop(os[i]) => SameLoop(c2, lp[os[i].n + 1], lp2[os[i].n + 1], Outer(os, i))
      BY <1>2, <3>1, SameLoopIs
    <3> QED BY <3>1, <3>2, <3>3
  <2> QED BY <1>3, <2>1, <2>2
<1>10. ls2 \in Seq(Local) /\ V \subseteq HolesIn(os2, lp2) BY <1>5 DEF Deeper
<1>11. Working(c2, os2, ls2, sd2, lp2)
  <2>1. Working(c, os, ls, sd, lp) /\ sd2 \in Nat OBVIOUS
  <2>2. os2 \in Seq(Statement) BY <1>3
  <2> QED BY ONLY <1>2, <2>2, <1>4, <1>8, <1>9, <1>10, <2>1, Assembled
<1> QED BY <1>11 DEF os2, lp2

(* A statement that ends keeps the invariant.                              *)
LEMMA Closed ==
  ASSUME NEW c, NEW os, NEW ls, NEW sd, NEW lp, Working(c, os, ls, sd, lp), os # <<>>,
         NEW c2, NEW V,
         Grown(c, MarkOf(os, ls), c2, MarkIn(Last(os).h, Outer(os, Len(os))), V),
         V \subseteq HolesIn(os, lp), V \cap HolesOf(Last(os)) = {},
         IsLoop(Last(os)) => V \cap (Last(lp).breaks \cup Last(lp).continues) = {}
  PROVE  Working(c2, ButLast(os, 1), SubSeq(ls, 1, Last(os).h), Last(os).d,
                 IF IsLoop(Last(os)) THEN ButLast(lp, 1) ELSE lp)
<1> DEFINE o == Last(os)
           os2 == ButLast(os, 1)
           ls2 == SubSeq(ls, 1, o.h)
           lp2 == SubSeq(lp, 1, o.n)
           N == Len(os)
<1>1. /\ os \in Seq(Statement) /\ ls \in Seq(Local) /\ sd \in Nat /\ lp \in Seq(LoopRecord)
      /\ Nesting(os, ls, sd, lp) /\ Contexts(os) /\ Sound(c, MarkOf(os, ls), HolesIn(os, lp))
  BY WorkingIs
<1>2. /\ Nesting(os2, ls2, o.d, lp2) /\ os2 \in Seq(Statement) /\ o \in Statement
      /\ \A i \in DOMAIN os2 : /\ os2[i] = os[i] /\ i \in DOMAIN os
                               /\ IsLoop(os[i]) => lp2[os[i].n + 1] = lp[os[i].n + 1]
      /\ ls2 \in Seq(Local) /\ o.h \in 0..Len(ls) /\ lp2 \in Seq(LoopRecord)
      /\ lp2 = IF IsLoop(o) THEN ButLast(lp, 1) ELSE lp
  <2>1. os # <<>> OBVIOUS
  <2>2. o = Last(os) /\ os2 = ButLast(os, 1) /\ ls2 = SubSeq(ls, 1, o.h) /\ lp2 = SubSeq(lp, 1, o.n)
    OBVIOUS
  <2> HIDE DEF o, os2, ls2, lp2
  <2>3. /\ Nesting(os2, ls2, o.d, lp2) /\ os2 \in Seq(Statement) /\ o \in Statement
        /\ ls2 \in Seq(Local) /\ o.h \in 0..Len(ls) /\ lp2 \in Seq(LoopRecord)
    BY ONLY <1>1, <2>1, <2>2, NestingPop
  <2>4. \A i \in DOMAIN os2 :
          /\ os2[i] = os[i] /\ i \in DOMAIN os
          /\ IsLoop(os[i]) => lp2[os[i].n + 1] = lp[os[i].n + 1]
    <3>1. /\ N \in Nat \ {0} /\ DOMAIN os = 1..N /\ DOMAIN os2 = 1..(N - 1) /\ o = os[N]
          /\ o.n \in 0..Len(lp)
      BY <1>1, <2>1, <2>2, NestingPop DEF Last
    <3> SUFFICES ASSUME NEW i \in DOMAIN os2
                 PROVE  /\ os2[i] = os[i] /\ i \in DOMAIN os
                        /\ IsLoop(os[i]) => lp2[os[i].n + 1] = lp[os[i].n + 1]
      OBVIOUS
    <3>2. os2[i] = os[i] /\ i \in DOMAIN os /\ i < N /\ N \in DOMAIN os
      <4>1. os2 = SubSeq(os, 1, N - 1) /\ N - 1 \in 0..Len(os) BY <2>2, <3>1 DEF ButLast
      <4> HIDE DEF N
      <4>2. os2[i] = os[i] BY <1>1, <3>1, <4>1, CutIs
      <4> QED BY <3>1, <4>2
    <3>3. ASSUME IsLoop(os[i]) PROVE lp2[os[i].n + 1] = lp[os[i].n + 1]
      <4>1. os[i].n + 1 \in DOMAIN lp /\ o.n >= os[i].n + Beyond(os[i]) /\ os[i] \in Statement
        BY <1>1, <3>1, <3>2, <3>3, NestingIs
      <4>2. Beyond(os[i]) = 1 /\ os[i].n \in Nat /\ o.n \in Nat BY <3>1, <3>3, <4>1, ExtraIs DEF Beyond
      <4>3. os[i].n + 1 \in 1..o.n BY <4>1, <4>2
      <4> QED BY <1>1, <2>2, <3>1, <4>3, CutIs
    <3> QED BY <3>2, <3>3
  <2>5. lp2 = IF IsLoop(o) THEN ButLast(lp, 1) ELSE lp
    BY ONLY <1>1, <2>1, <2>2, NestingPop
  <2> QED BY <2>3, <2>4, <2>5
<1>3. /\ Contexts(os2) /\ Innermost(os2) = Outer(os, N)
      /\ \A i \in DOMAIN os2 : Outer(os2, i) = Outer(os, i)
  BY <1>1, ContextsPop
<1>4. Len(ls2) = o.h BY <1>1, <1>2, CutIs
<1>5. HolesIn(os, lp) \subseteq HolesIn(os2, lp2) \cup HolesOf(o)
        \cup (IF IsLoop(o) THEN Last(lp).breaks \cup Last(lp).continues ELSE {})
  BY <1>1, HolesPopped
<1>6. Grown(c, MarkOf(os, ls), c2, MarkIn(o.h, Outer(os, N)), V) OBVIOUS
<1>7. /\ V \cap HolesOf(o) = {} /\ V \subseteq HolesIn(os, lp)
      /\ IsLoop(o) => V \cap (Last(lp).breaks \cup Last(lp).continues) = {}
  OBVIOUS
<1> HIDE DEF o, os2, ls2, lp2, N
<1>8. V \subseteq HolesIn(os2, lp2) BY <1>5, <1>7
<1>9. MarkOf(os2, ls2) = MarkIn(o.h, Outer(os, N)) BY <1>3, <1>4 DEF MarkOf
<1>10. Evolved(c, MarkOf(os, ls), c2, MarkOf(os2, ls2), V, 0) BY <1>1, <1>6, <1>9, GrownEvolved
<1>11. ASSUME NEW i \in DOMAIN os2
       PROVE  /\ i \in DOMAIN os /\ os2[i] = os[i] /\ Outer(os2, i) = Outer(os, i)
              /\ os[i].kind = "try" => os[i].a # 0
              /\ IsLoop(os[i]) =>
                     SameLoop(c2, lp[os[i].n + 1], lp2[os[i].n + 1], Outer(os, i))
  <2>1. i \in DOMAIN os /\ os2[i] = os[i] /\ Outer(os2, i) = Outer(os, i) BY <1>2, <1>3
  <2>2. os[i].kind = "try" => os[i].a # 0 BY <2>1, HandlerThere
  <2>3. IsLoop(os[i]) => SameLoop(c2, lp[os[i].n + 1], lp2[os[i].n + 1], Outer(os, i))
    BY <1>2, SameLoopIs
  <2> QED BY <2>1, <2>2, <2>3
<1>12. o.d \in Nat BY <1>2, ExtraIs
<1>13. Working(c2, os2, ls2, o.d, lp2)
  <2>1. Working(c, os, ls, sd, lp) OBVIOUS
  <2> QED BY ONLY SMTT(60), <1>2, <1>3, <1>8, <1>10, <1>11, <1>12, <2>1, Assembled
<1> QED BY <1>2, <1>13 DEF os2, lp2, ls2, o

----------------------------------------------------------------------------
(* A statement that goes on.                                               *)

(* The last element replaced.                                              *)
LEMMA SetLastIs ==
  ASSUME NEW S, NEW s \in Seq(S), s # <<>>, NEW e \in S
  PROVE  /\ SetLast(s, e) \in Seq(S) /\ Len(SetLast(s, e)) = Len(s)
         /\ DOMAIN SetLast(s, e) = DOMAIN s /\ DOMAIN s = 1..Len(s) /\ Len(s) \in Nat \ {0}
         /\ SetLast(s, e)[Len(s)] = e
         /\ \A i \in DOMAIN s : i # Len(s) => SetLast(s, e)[i] = s[i]
         /\ SetLast(s, e) = Append(ButLast(s, 1), e)
<1> DEFINE t == SetLast(s, e)
           u == Append(ButLast(s, 1), e)
           N == Len(s)
<1>1. /\ t \in Seq(S) /\ Len(t) = N /\ DOMAIN t = 1..N /\ DOMAIN s = 1..N /\ N \in Nat \ {0}
      /\ t[N] = e /\ \A i \in 1..N : i # N => t[i] = s[i]
  BY DEF SetLast
<1>2. /\ ButLast(s, 1) \in Seq(S) /\ Len(ButLast(s, 1)) = N - 1
      /\ \A i \in 1..(N - 1) : ButLast(s, 1)[i] = s[i]
  <2>1. N - 1 \in 0..Len(s)
    <3>1. N \in Nat \ {0} BY <1>1
    <3> HIDE DEF N
    <3>2. N - 1 \in 0..N BY <3>1
    <3> QED BY <3>2 DEF N
  <2>2. ButLast(s, 1) = SubSeq(s, 1, N - 1) BY DEF ButLast
  <2> QED BY <2>1, <2>2, CutIs
<1>3. /\ u \in Seq(S) /\ Len(u) = N - 1 + 1 /\ u[N - 1 + 1] = e
      /\ \A i \in 1..(N - 1) : u[i] = ButLast(s, 1)[i]
  BY <1>2, AppendIs
<1> HIDE DEF t, u, N
<1>4. Len(u) = N /\ u[N] = e /\ \A i \in 1..N : i # N => u[i] = s[i]
  <2>1. N - 1 + 1 = N /\ \A i \in 1..N : i # N => i \in 1..(N - 1) BY <1>1
  <2> QED BY <1>2, <1>3, <2>1
<1>5. t = u
  <2>1. \A i \in 1..N : t[i] = u[i] BY <1>1, <1>4
  <2> QED BY <1>1, <1>3, <1>4, <2>1
<1> QED BY <1>1, <1>5 DEF t, u, N

(* A sequence is its front and its last element.                           *)
LEMMA LastKept ==
  ASSUME NEW S, NEW s \in Seq(S), s # <<>>
  PROVE  s = Append(ButLast(s, 1), Last(s))
<1>1. Last(s) \in S BY DEF Last
<1>2. SetLast(s, Last(s)) = s
  <2>1. /\ SetLast(s, Last(s)) \in Seq(S) /\ Len(SetLast(s, Last(s))) = Len(s)
        /\ DOMAIN s = 1..Len(s) /\ SetLast(s, Last(s))[Len(s)] = Last(s)
        /\ \A i \in DOMAIN s : i # Len(s) => SetLast(s, Last(s))[i] = s[i]
    BY <1>1, SetLastIs
  <2> DEFINE t == SetLast(s, Last(s))
  <2>2. \A i \in 1..Len(s) : t[i] = s[i] BY <2>1 DEF Last
  <2>3. t \in Seq(S) /\ Len(t) = Len(s) BY <2>1
  <2> HIDE DEF t
  <2>4. t = s BY <2>2, <2>3
  <2> QED BY <2>4 DEF t
<1>3. SetLast(s, Last(s)) = Append(ButLast(s, 1), Last(s)) BY ONLY s \in Seq(S), s # <<>>, <1>1, SetLastIs
<1> QED BY ONLY <1>2, <1>3

(* A statement goes on with its next block: the nesting.                   *)
LEMMA NestingTurn ==
  ASSUME NEW os \in Seq(Statement), NEW ls \in Seq(Local), NEW sd \in Nat, NEW lp \in Seq(LoopRecord),
         Nesting(os, ls, sd, lp), os # <<>>,
         NEW o2 \in Statement, o2.kind = Last(os).kind, o2.h = Last(os).h, o2.d = Last(os).d,
         o2.n = Last(os).n, NEW k \in Last(os).h..Len(ls),
         \A j \in 1..k : ls[j].depth <= o2.d + Extra(o2),
         InBody(o2) \/ o2.kind = "do" => k = o2.h,
         IsLoop(o2) => LoopOK(o2, Last(lp), SubSeq(ls, 1, k))
  PROVE  Nesting(SetLast(os, o2), SubSeq(ls, 1, k), o2.d + Extra(o2), lp)
<1> DEFINE o == Last(os)
           os1 == ButLast(os, 1)
           ls1 == SubSeq(ls, 1, o.h)
           lp1 == SubSeq(lp, 1, o.n)
           ls2 == SubSeq(ls, 1, k)
           sd2 == o2.d + Extra(o2)
           l == IF IsLoop(o2) THEN Last(lp) ELSE Loop(0, 0, FALSE, 0)
<1>1. /\ Nesting(os1, ls1, o.d, lp1) /\ os1 \in Seq(Statement) /\ o \in Statement
      /\ ls1 \in Seq(Local) /\ o.h \in 0..Len(ls) /\ Split(ls, o.d, o.h)
      /\ Len(lp) = o.n + Beyond(o) /\ lp1 \in Seq(LoopRecord) /\ o.n \in 0..Len(lp)
      /\ ~IsLoop(o) => lp1 = lp
      /\ IsLoop(o) => Last(lp) \in LoopRecord /\ lp # <<>> /\ lp1 = ButLast(lp, 1)
  BY NestingPop
<1>2. IsLoop(o) <=> IsLoop(o2) BY DEF IsLoop
<1>3. /\ o.h \in Nat /\ o.d \in Nat /\ o.n \in Nat /\ Extra(o2) \in 0..3 /\ sd2 \in Nat
      /\ o2.h = o.h /\ o2.d = o.d /\ o2.n = o.n /\ k \in 0..Len(ls) /\ k >= o.h /\ Len(ls) \in Nat
      /\ sd2 = o.d + Extra(o2)
  BY <1>1, ExtraIs, SMTT(30)
<1>4. /\ ls2 \in Seq(Local) /\ Len(ls2) = k /\ DOMAIN ls2 = 1..k /\ \A j \in 1..k : ls2[j] = ls[j]
      /\ Len(ls1) = o.h /\ DOMAIN ls1 = 1..o.h /\ \A j \in 1..o.h : ls1[j] = ls[j]
      /\ DOMAIN ls = 1..Len(ls)
  BY SMTT(60), <1>1, <1>3, CutIs
<1>5. Len(lp1) = o.n BY <1>1, CutIs
<1>6. l \in LoopRecord BY <1>1, <1>2 DEF Loop, LoopRecord
<1>7. IsLoop(o2) => LoopOK(o2, l, ls2) BY <1>1
<1>8. lp = IF IsLoop(o2) THEN Append(lp1, l) ELSE lp1
  <2>1. CASE ~IsLoop(o2) BY <1>1, <1>2, <2>1
  <2>2. CASE IsLoop(o2)
    <3>1. lp # <<>> /\ lp1 = ButLast(lp, 1) /\ l = Last(lp) BY <1>1, <1>2, <2>2
    <3>2. lp = Append(ButLast(lp, 1), Last(lp)) BY <3>1, LastKept
    <3> HIDE DEF lp1, l
    <3> QED BY <2>2, <3>1, <3>2
  <2> QED BY <2>1, <2>2
<1>9. SetLast(os, o2) = Append(os1, o2) BY SetLastIs
<1>10. (InBody(o2) \/ o2.kind = "do" => k = o2.h) /\ \A j \in 1..k : ls[j].depth <= sd2 OBVIOUS
<1> HIDE DEF o, os1, ls1, lp1, ls2, sd2, l
<1>11. Deeper(ls1, ls2, o.d + 1)
  <2>1. Len(ls1) <= Len(ls2) BY <1>3, <1>4
  <2>2. \A j \in DOMAIN ls1 : ls2[j] = ls1[j]
    <3>1. \A j \in 1..o.h : j \in 1..k BY <1>3
    <3> QED BY <1>4, <3>1
  <2>3. ASSUME NEW j \in DOMAIN ls2, j \notin DOMAIN ls1 PROVE ls2[j].depth >= o.d + 1
    <3>1. j \in 1..k /\ j \in DOMAIN ls /\ ~(j <= o.h) BY <1>3, <1>4, <2>3
    <3>2. ~(ls[j].depth <= o.d) BY <1>1, <3>1 DEF Split
    <3>3. ls[j] \in Local /\ ls2[j] = ls[j] BY <1>4, <3>1
    <3>4. ls[j].depth \in Nat BY <3>3 DEF Local
    <3> QED BY SMTT(60), <1>3, <3>2, <3>3, <3>4
  <2> QED BY <1>4, <2>1, <2>2, <2>3 DEF Deeper
<1>12. \A j \in DOMAIN ls2 : ls2[j].depth <= sd2 BY <1>4, <1>10
<1>13. InBody(o2) \/ o2.kind = "do" => Len(ls2) = Len(ls1) BY <1>3, <1>4, <1>10
<1>14. Nesting(Append(os1, o2), ls2, sd2, IF IsLoop(o2) THEN Append(lp1, l) ELSE lp1)
  <2>1. o2 \in Statement /\ o2.h = Len(ls1) /\ o2.d = o.d /\ o2.n = Len(lp1) BY <1>3, <1>4, <1>5
  <2> QED BY ONLY <1>1, <1>3, <1>6, <1>7, <1>11, <1>12, <1>13, <2>1, NestingPush
<1> QED BY <1>8, <1>9, <1>14 DEF os1, ls2, sd2

(* The last statement goes on with another block.                          *)
LEMMA Turned ==
  ASSUME NEW c, NEW os, NEW ls, NEW sd, NEW lp, Working(c, os, ls, sd, lp), os # <<>>,
         NEW o2 \in Statement, o2.kind = Last(os).kind, o2.h = Last(os).h, o2.d = Last(os).d,
         o2.n = Last(os).n, o2.kind = "try" => o2.a = Last(os).a,
         NEW k \in Last(os).h..Len(ls),
         \A j \in 1..k : ls[j].depth <= o2.d + Extra(o2),
         InBody(o2) \/ o2.kind = "do" => k = o2.h,
         IsLoop(o2) => LoopOK(o2, Last(lp), SubSeq(ls, 1, k)),
         Within(o2, Outer(os, Len(os))),
         NEW c2, NEW V, NEW e, e = 0 \/ (o2.kind = "try" /\ e = o2.a),
         Evolved(c, MarkOf(os, ls), c2, MarkIn(k, o2.ctx), V, e),
         V \subseteq HolesIn(os, lp) \cup HolesOf(o2),
         \A p \in V : p \in HolesOf(Last(os)) => p \in HolesOf(o2),
         Expects(c2, MarkIn(k, o2.ctx), o2, Outer(os, Len(os)), lp[o2.n + 1]), Intercepted(c2, o2)
  PROVE  Working(c2, SetLast(os, o2), SubSeq(ls, 1, k), o2.d + Extra(o2), lp)
<1> DEFINE o == Last(os)
           os2 == SetLast(os, o2)
           ls2 == SubSeq(ls, 1, k)
           sd2 == o2.d + Extra(o2)
           N == Len(os)
           os1 == ButLast(os, 1)
           lp1 == SubSeq(lp, 1, o.n)
<1>1. /\ os \in Seq(Statement) /\ ls \in Seq(Local) /\ sd \in Nat /\ lp \in Seq(LoopRecord)
      /\ Nesting(os, ls, sd, lp) /\ Contexts(os) /\ Sound(c, MarkOf(os, ls), HolesIn(os, lp))
  BY WorkingIs
<1>2. Nesting(os2, ls2, sd2, lp) BY <1>1, NestingTurn
<1>3. /\ os2 \in Seq(Statement) /\ Len(os2) = N /\ DOMAIN os2 = DOMAIN os /\ DOMAIN os = 1..N
      /\ N \in Nat \ {0} /\ os2[N] = o2 /\ \A i \in 1..N : i # N => os2[i] = os[i]
      /\ os2 = Append(os1, o2)
  <2>1. /\ SetLast(os, o2) \in Seq(Statement) /\ Len(SetLast(os, o2)) = Len(os)
        /\ DOMAIN SetLast(os, o2) = DOMAIN os /\ DOMAIN os = 1..Len(os) /\ Len(os) \in Nat \ {0}
        /\ SetLast(os, o2)[Len(os)] = o2
        /\ \A i \in DOMAIN os : i # Len(os) => SetLast(os, o2)[i] = os[i]
        /\ SetLast(os, o2) = Append(ButLast(os, 1), o2)
    <3>1. os \in Seq(Statement) /\ os # <<>> /\ o2 \in Statement BY <1>1
    <3> HIDE DEF o, os2, ls2, sd2, N, os1, lp1
    <3>2. SetLast(os, o2) \in Seq(Statement) BY ONLY <3>1, SetLastIs
    <3>3. Len(SetLast(os, o2)) = Len(os) BY ONLY <3>1, SetLastIs
    <3>4. DOMAIN SetLast(os, o2) = DOMAIN os /\ DOMAIN os = 1..Len(os) /\ Len(os) \in Nat \ {0} BY ONLY <3>1, SetLastIs
    <3>5. SetLast(os, o2)[Len(os)] = o2 BY ONLY <3>1, SetLastIs
    <3>6. \A i \in DOMAIN os : i # Len(os) => SetLast(os, o2)[i] = os[i] BY ONLY <3>1, SetLastIs
    <3>7. SetLast(os, o2) = Append(ButLast(os, 1), o2) BY ONLY <3>1, SetLastIs
    <3> QED BY ONLY <3>2, <3>3, <3>4, <3>5, <3>6, <3>7
  <2>2. os2 = SetLast(os, o2) /\ os1 = ButLast(os, 1) /\ N = Len(os) OBVIOUS
  <2> HIDE DEF os2, os1, N
  <2> QED BY <2>1, <2>2
<1>4. /\ Contexts(os1) /\ Innermost(os1) = Outer(os, N)
      /\ o.kind = "try" => \A i \in DOMAIN os1 : os[i].kind = "try" => os[i].a # o.a
  BY <1>1, ContextsPop
<1>5. /\ os1 \in Seq(Statement) /\ o \in Statement /\ DOMAIN os1 = 1..(N - 1) /\ o = os[N]
      /\ \A i \in DOMAIN os1 : os1[i] = os[i]
      /\ o.h \in 0..Len(ls) /\ lp1 \in Seq(LoopRecord)
      /\ IsLoop(o) => Last(lp) = lp[o.n + 1] /\ lp1 = ButLast(lp, 1) /\ lp # <<>> /\ Last(lp) \in LoopRecord
      /\ ~IsLoop(o) => lp1 = lp
  <2>1. /\ os1 \in Seq(Statement) /\ o \in Statement /\ DOMAIN os1 = 1..(N - 1)
        /\ o.h \in 0..Len(ls) /\ lp1 \in Seq(LoopRecord)
        /\ IsLoop(o) => Last(lp) = lp[o.n + 1] /\ lp1 = ButLast(lp, 1) /\ lp # <<>> /\ Last(lp) \in LoopRecord
        /\ ~IsLoop(o) => lp1 = lp
    BY <1>1, NestingPop
  <2>2. \A i \in DOMAIN os1 : os1[i] = os[i] BY <1>1, NestingPop
  <2> QED BY <2>1, <2>2 DEF Last
<1>6. IsLoop(o) <=> IsLoop(o2) BY DEF IsLoop
<1>7. Contexts(os2)
  <2>1. o2.kind = "try" => \A i \in DOMAIN os1 : os1[i].kind = "try" => os1[i].a # o2.a
    BY <1>4, <1>5
  <2>2. Within(o2, Innermost(os1)) BY <1>4
  <2>3. Contexts(Append(os1, o2)) BY <1>4, <1>5, <2>1, <2>2, ContextsPush
  <2> QED BY <1>3, <2>3
<1>8. HolesIn(os, lp) \subseteq HolesIn(os1, lp1) \cup HolesOf(o)
        \cup (IF IsLoop(o) THEN Last(lp).breaks \cup Last(lp).continues ELSE {})
  BY <1>1, HolesPopped
<1>9. /\ V \subseteq HolesIn(os, lp) \cup HolesOf(o2) /\ \A p \in V : p \in HolesOf(o) => p \in HolesOf(o2)
      /\ Evolved(c, MarkOf(os, ls), c2, MarkIn(k, o2.ctx), V, e)
      /\ Expects(c2, MarkIn(k, o2.ctx), o2, Outer(os, N), lp[o2.n + 1]) /\ Intercepted(c2, o2)
      /\ e = 0 \/ (o2.kind = "try" /\ e = o.a)
      /\ o2.kind = o.kind
  OBVIOUS
<1>10. ls2 \in Seq(Local) /\ Len(ls2) = k BY <1>1, <1>5, ExtraIs, CutIs
<1>11. sd2 \in Nat BY ExtraIs
<1> HIDE DEF o, os2, ls2, sd2, N, os1, lp1
<1>12. V \subseteq HolesIn(os2, lp)
  <2> DEFINE l == IF IsLoop(o2) THEN Last(lp) ELSE Loop(0, 0, FALSE, 0)
  <2>1. l \in LoopRecord BY <1>5, <1>6 DEF Loop, LoopRecord
  <2>2. lp = IF IsLoop(o2) THEN Append(lp1, l) ELSE lp1
    <3>1. CASE ~IsLoop(o2) BY <1>5, <1>6, <3>1
    <3>2. CASE IsLoop(o2)
      <4>1. lp # <<>> /\ lp1 = ButLast(lp, 1) /\ l = Last(lp) BY <1>5, <1>6, <3>2
      <4>2. lp = Append(ButLast(lp, 1), Last(lp)) BY <1>1, <4>1, LastKept
      <4> HIDE DEF l
      <4> QED BY <3>2, <4>1, <4>2
    <3> QED BY <3>1, <3>2
  <2>3. IsLoop(o2) => l = Last(lp) OBVIOUS
  <2> HIDE DEF l
  <2>4. /\ HolesIn(os1, lp1) \subseteq HolesIn(Append(os1, o2), IF IsLoop(o2) THEN Append(lp1, l) ELSE lp1)
        /\ HolesOf(o2) \subseteq HolesIn(Append(os1, o2), IF IsLoop(o2) THEN Append(lp1, l) ELSE lp1)
        /\ IsLoop(o2) => l.breaks \cup l.continues
             \subseteq HolesIn(Append(os1, o2), IF IsLoop(o2) THEN Append(lp1, l) ELSE lp1)
    BY <1>5, <2>1, HolesPushed
  <2>5. /\ HolesIn(os1, lp1) \subseteq HolesIn(os2, lp) /\ HolesOf(o2) \subseteq HolesIn(os2, lp)
        /\ IsLoop(o2) => Last(lp).breaks \cup Last(lp).continues \subseteq HolesIn(os2, lp)
    BY <1>3, <2>2, <2>3, <2>4
  <2> QED BY <1>6, <1>8, <1>9, <2>5
<1>13. MarkOf(os2, ls2) = MarkIn(k, o2.ctx)
  <2>1. os2 # <<>> BY <1>3
  <2> QED BY <1>3, <1>10, <2>1 DEF MarkOf, Innermost, Last
<1>14. ASSUME NEW i \in 1..N PROVE Outer(os2, i) = Outer(os, i)
  <2>1. i # 1 => i - 1 \in 1..N /\ i - 1 # N BY <1>3
  <2> QED BY <1>3, <2>1 DEF Outer
<1>15. ASSUME NEW i \in DOMAIN os2
       PROVE  \/ /\ Expects(c2, MarkOf(os2, ls2), os2[i], Outer(os2, i), lp[os2[i].n + 1])
                 /\ Intercepted(c2, os2[i])
              \/ /\ i \in DOMAIN os /\ os2[i] = os[i] /\ Outer(os2, i) = Outer(os, i)
                 /\ os[i].kind = "try" => os[i].a # e
                 /\ IsLoop(os[i]) =>
                     SameLoop(c2, lp[os[i].n + 1], lp[os[i].n + 1], Outer(os, i))
  <2>1. CASE i = N
    <3>1. i \in 1..N BY <1>3
    <3> QED BY <1>3, <1>9, <1>13, <1>14, <2>1, <3>1
  <2>2. CASE i # N
    <3>1. i \in DOMAIN os /\ os2[i] = os[i] /\ Outer(os2, i) = Outer(os, i) BY <1>3, <1>14, <2>2
    <3>2. os[i].kind = "try" => os[i].a # e
      <4>1. os[i].kind = "try" => os[i].a # 0 BY <3>1, HandlerThere
      <4>2. i \in DOMAIN os1 BY <1>3, <1>5, <2>2
      <4> QED BY <1>4, <1>9, <4>1, <4>2
    <3> QED BY <3>1, <3>2, SameLoopIs
  <2> QED BY <2>1, <2>2
<1>16. Evolved(c, MarkOf(os, ls), c2, MarkOf(os2, ls2), V, e) BY <1>9, <1>13
<1>17. Working(c2, os2, ls2, sd2, lp)
  <2>1. Working(c, os, ls, sd, lp) /\ lp \in Seq(LoopRecord) BY <1>1
  <2>2. os2 \in Seq(Statement) BY <1>3
  <2> QED BY ONLY <1>2, <1>7, <1>10, <1>11, <1>12, <1>15, <1>16, <2>1, <2>2, Assembled
<1> QED BY <1>17 DEF os2, ls2, sd2

----------------------------------------------------------------------------
(* Loops and returns.                                                      *)

(* A break or continue leaves a jump behind for the innermost loop.        *)
LEMMA LeftLoop ==
  ASSUME NEW c, NEW os, NEW ls, NEW sd, NEW lp, Working(c, os, ls, sd, lp),
         NEW i \in DOMAIN os, IsLoop(os[i]), os[i].n + 1 = Len(lp),
         NEW l2 \in LoopRecord, LoopOK(os[i], l2, ls),
         NEW c2, NEW V, Grown(c, MarkOf(os, ls), c2, MarkOf(os, ls), V),
         SameLoop(c2, Last(lp), l2, Outer(os, i)),
         Last(lp).breaks \subseteq l2.breaks, Last(lp).continues \subseteq l2.continues,
         V \subseteq HolesIn(os, lp) \cup l2.breaks \cup l2.continues
  PROVE  Working(c2, os, ls, sd, SetLast(lp, l2))
<1> DEFINE lp2 == SetLast(lp, l2)
<1>1. /\ os \in Seq(Statement) /\ ls \in Seq(Local) /\ sd \in Nat /\ lp \in Seq(LoopRecord)
      /\ Nesting(os, ls, sd, lp) /\ Contexts(os) /\ Sound(c, MarkOf(os, ls), HolesIn(os, lp))
  BY WorkingIs
<1>2. /\ os[i].n + 1 \in DOMAIN lp /\ os[i] \in Statement BY <1>1, NestingIs
<1>3. lp # <<>> /\ Len(lp) \in DOMAIN lp BY <1>1, <1>2
<1>4. /\ lp2 \in Seq(LoopRecord) /\ Len(lp2) = Len(lp) /\ DOMAIN lp2 = DOMAIN lp
      /\ DOMAIN lp = 1..Len(lp) /\ lp2[Len(lp)] = l2
  <2>1. lp2 \in Seq(LoopRecord) BY <1>1, <1>3, SetLastIs
  <2>2. Len(lp2) = Len(lp) /\ DOMAIN lp2 = DOMAIN lp BY <1>1, <1>3, SetLastIs
  <2>3. lp2[Len(lp)] = l2 /\ DOMAIN lp = 1..Len(lp) BY <1>1, <1>3, SetLastIs
  <2> QED BY <2>1, <2>2, <2>3
<1>5. \A q \in DOMAIN lp : q # Len(lp) => lp2[q] = lp[q] BY <1>1, <1>3, SetLastIs
<1>6. Last(lp) = lp[Len(lp)] BY DEF Last
<1> HIDE DEF lp2
<1>7. ASSUME NEW k \in DOMAIN os, k # i, IsLoop(os[k])
      PROVE  os[k].n + 1 # Len(lp) /\ os[k].n + 1 \in DOMAIN lp
  <2>1. /\ os[k] \in Statement /\ os[k].n + 1 \in DOMAIN lp
        /\ \A j \in DOMAIN os : k < j => os[j].n >= os[k].n + Beyond(os[k])
        /\ \A j \in DOMAIN os : i < j => os[j].n >= os[i].n + Beyond(os[i])
    BY <1>1, <1>7, NestingIs
  <2>2. /\ Beyond(os[k]) = 1 /\ Beyond(os[i]) = 1 /\ os[k].n \in Nat /\ os[i].n \in Nat
    BY <1>2, <1>7, <2>1, ExtraIs DEF Beyond
  <2>3. CASE k < i
    <3>1. os[i].n >= os[k].n + 1 BY <2>1, <2>2, <2>3
    <3> QED BY <2>1, <2>2, <3>1
  <2>4. CASE i < k
    <3>1. os[k].n >= os[i].n + 1 BY <2>1, <2>2, <2>4
    <3> QED BY <1>2, <1>4, <2>1, <2>2, <3>1
  <2>5. i \in Nat /\ k \in Nat BY <1>1
  <2> QED BY <1>7, <2>3, <2>4, <2>5
<1>8. ASSUME NEW k \in DOMAIN os, IsLoop(os[k])
      PROVE  /\ LoopOK(os[k], lp2[os[k].n + 1], ls)
             /\ SameLoop(c2, lp[os[k].n + 1], lp2[os[k].n + 1], Outer(os, k))
  <2>1. CASE k = i BY <1>4, <1>6, <2>1
  <2>2. CASE k # i
    <3>1. lp2[os[k].n + 1] = lp[os[k].n + 1] BY <1>5, <1>7, <1>8, <2>2
    <3>2. LoopOK(os[k], lp[os[k].n + 1], ls) BY <1>1, <1>8, NestingIs
    <3> QED BY <3>1, <3>2, SameLoopIs
  <2> QED BY <2>1, <2>2
<1>9. Nesting(os, ls, sd, lp2) BY <1>1, <1>4, <1>8, NestingLoops
<1>10. V \subseteq HolesIn(os, lp2)
  <2> SUFFICES ASSUME NEW p \in V PROVE p \in HolesIn(os, lp2) OBVIOUS
  <2>1. CASE p \in l2.breaks \cup l2.continues BY <1>3, <1>4, <2>1, HolesAre
  <2>2. CASE \E j \in DOMAIN os : p \in HolesOf(os[j]) BY <2>2, HolesAre
  <2>3. CASE \E q \in DOMAIN lp : p \in lp[q].breaks \cup lp[q].continues
    <3>1. PICK q \in DOMAIN lp : p \in lp[q].breaks \cup lp[q].continues BY <2>3
    <3>2. CASE q = Len(lp) BY <1>6, <2>1, <3>1, <3>2
    <3>3. CASE q # Len(lp)
      <4>1. lp2[q] = lp[q] BY <1>5, <3>3
      <4> QED BY <1>4, <3>1, <4>1, HolesAre
    <3> QED BY <3>2, <3>3
  <2> QED BY <2>1, <2>2, <2>3, HolesAre
<1>11. Evolved(c, MarkOf(os, ls), c2, MarkOf(os, ls), V, 0) BY <1>1, GrownEvolved
<1>12. \A k \in DOMAIN os :
         /\ os[k].kind = "try" => os[k].a # 0
         /\ IsLoop(os[k]) => SameLoop(c2, lp[os[k].n + 1], lp2[os[k].n + 1], Outer(os, k))
  BY <1>8, HandlerThere
<1>13. Working(c2, os, ls, sd, lp2)
  <2>1. Working(c, os, ls, sd, lp) OBVIOUS
  <2> QED BY ONLY <1>1, <1>4, <1>9, <1>10, <1>11, <1>12, <2>1, Assembled
<1> QED BY <1>13 DEF lp2

(* InnerLoop is the statement of the last loop record.                     *)
LEMMA InnerLoopIs ==
  ASSUME NEW c, NEW ls, NEW sd, NEW lp, Working(c, open, ls, sd, lp), lp # <<>>
  PROVE  /\ InnerLoop \in DOMAIN open /\ IsLoop(open[InnerLoop])
         /\ open[InnerLoop].n + 1 = Len(lp)
         /\ \A j \in (InnerLoop + 1)..Len(open) : open[j].kind \notin LoopKinds
<1> DEFINE P(i) == /\ open[i].kind \in LoopKinds
                   /\ \A j \in (i + 1)..Len(open) : open[j].kind \notin LoopKinds
<1>1. /\ open \in Seq(Statement) /\ ls \in Seq(Local) /\ sd \in Nat /\ lp \in Seq(LoopRecord)
      /\ Nesting(open, ls, sd, lp)
  BY WorkingIs
<1>2. Len(lp) \in DOMAIN lp BY <1>1
<1>3. PICK i \in DOMAIN open : IsLoop(open[i]) /\ open[i].n + 1 = Len(lp) BY <1>1, <1>2 DEF Nesting
<1>4. ASSUME NEW k \in DOMAIN open, i < k PROVE ~IsLoop(open[k])
  <2> SUFFICES ASSUME IsLoop(open[k]) PROVE FALSE OBVIOUS
  <2>1. /\ open[k] \in Statement /\ open[i] \in Statement /\ open[k].n + 1 \in DOMAIN lp
        /\ open[k].n >= open[i].n + Beyond(open[i])
    BY <1>1, <1>4, NestingIs
  <2>2. Beyond(open[i]) = 1 /\ open[k].n \in Nat /\ open[i].n \in Nat
    BY <1>3, <2>1, ExtraIs DEF Beyond
  <2>3. open[k].n + 1 <= Len(lp) BY <1>1, <2>1
  <2> QED BY <1>3, <2>1, <2>2, <2>3
<1>5. P(i)
  <2>1. \A j \in (i + 1)..Len(open) : j \in DOMAIN open /\ i < j BY <1>1
  <2> QED BY <1>3, <1>4, <2>1 DEF IsLoop
<1>6. ASSUME NEW k \in DOMAIN open, P(k) PROVE k = i
  <2>1. i \in Nat /\ k \in Nat /\ i <= Len(open) /\ k <= Len(open) /\ Len(open) \in Nat BY <1>1
  <2>2. CASE k < i
    <3>1. i \in (k + 1)..Len(open) BY <2>1, <2>2
    <3> QED BY <1>5, <1>6, <3>1
  <2>3. CASE i < k BY <1>4, <1>6, <2>3 DEF IsLoop
  <2> QED BY <2>1, <2>2, <2>3
<1>7. InnerLoop = CHOOSE k \in DOMAIN open : P(k) BY DEF InnerLoop
<1> HIDE DEF P
<1>8. InnerLoop = i BY <1>5, <1>6, <1>7
<1> QED BY <1>3, <1>5, <1>8 DEF P

(* The last try statement whose body is open.                              *)
LEMMA InterceptorIs ==
  ASSUME NEW ls, NEW sd, NEW lp, NEW c, Working(c, open, ls, sd, lp)
  PROVE  \/ /\ Interceptor = 0 /\ Innermost(open).hs = <<>> /\ \A j \in DOMAIN open : ~InBody(open[j])
         \/ \E i \in DOMAIN open :
              /\ InBody(open[i]) /\ Innermost(open).hs # <<>> /\ Top(Innermost(open).hs) = open[i].a
              /\ Interceptor = IF open[i].fin THEN i ELSE 0
<1> DEFINE P(i) == /\ open[i].kind = "try" /\ open[i].arm = "body"
                   /\ \A j \in (i + 1)..Len(open) : ~(open[j].kind = "try" /\ open[j].arm = "body")
           q == CHOOSE i \in DOMAIN open : P(i)
<1>1. /\ open \in Seq(Statement) /\ Contexts(open) /\ DOMAIN open = 1..Len(open) /\ Len(open) \in Nat
  BY WorkingIs
<1>2. Handles(open, Len(open), Innermost(open).hs) BY <1>1, InnermostIs
<1>3. CASE Innermost(open).hs = <<>> /\ \A j \in 1..Len(open) : ~InBody(open[j])
  <2>1. Interceptor = 0 BY <1>1, <1>3 DEF Interceptor, InBody
  <2> QED BY <1>1, <1>3, <2>1
<1>4. CASE \E i \in 1..Len(open) :
             /\ InBody(open[i]) /\ \A j \in (i + 1)..Len(open) : ~InBody(open[j])
             /\ Innermost(open).hs # <<>> /\ Last(Innermost(open).hs) = open[i].a
  <2>1. PICK i \in DOMAIN open :
          /\ InBody(open[i]) /\ \A j \in (i + 1)..Len(open) : ~InBody(open[j])
          /\ Innermost(open).hs # <<>> /\ Last(Innermost(open).hs) = open[i].a
    BY <1>1, <1>4
  <2>2. P(i) BY <2>1 DEF InBody
  <2>3. ASSUME NEW k \in DOMAIN open, P(k) PROVE k = i
    <3>1. k < i => i \in (k + 1)..Len(open) BY <1>1
    <3>2. i < k => k \in (i + 1)..Len(open) BY <1>1
    <3>3. ~(k < i) BY <2>2, <2>3, <3>1
    <3>4. ~(i < k) BY <2>2, <2>3, <3>2
    <3> QED BY <1>1, <3>3, <3>4
  <2>4. Interceptor = IF open[q].fin THEN q ELSE 0
    <3>1. \E k \in DOMAIN open : open[k].kind = "try" /\ open[k].arm = "body" BY <2>2
    <3> QED BY <3>1 DEF Interceptor
  <2> HIDE DEF P
  <2>5. q = i BY <2>2, <2>3
  <2> HIDE DEF q
  <2> QED BY <2>1, <2>4, <2>5 DEF Last, Top
<1> QED BY <1>2, <1>3, <1>4 DEF Handles

(* An error raised with these statements open finds its handler.           *)
LEMMA GuardedIs ==
  ASSUME NEW os \in Seq(Statement), NEW ls \in Seq(Local), NEW sd \in Nat, NEW lp \in Seq(LoopRecord),
         Nesting(os, ls, sd, lp), Contexts(os), NEW c,
         \A i \in DOMAIN os : os[i].kind = "try" => os[i].a \in DOMAIN c /\ c[os[i].a].h = os[i].h,
         Innermost(os).rf = 0
  PROVE  Guarded(c, Innermost(os), Len(ls))
<1>1. Handles(os, Len(os), Innermost(os).hs) BY InnermostIs
<1>2. SUFFICES ASSUME Innermost(os).hs # <<>>
               PROVE  Top(Innermost(os).hs) \in DOMAIN c /\ c[Top(Innermost(os).hs)].h <= Len(ls)
  BY DEF Guarded
<1>3. PICK i \in 1..Len(os) : InBody(os[i]) /\ Last(Innermost(os).hs) = os[i].a
  BY <1>1, <1>2 DEF Handles
<1>4. i \in DOMAIN os /\ os[i].kind = "try" BY <1>3 DEF InBody
<1>5. Split(ls, os[i].d, os[i].h) BY <1>4 DEF Nesting
<1> QED BY <1>3, <1>4, <1>5 DEF Split, Last, Top

(* A try statement's TRY_ENTER is in the code, at the statement's height.  *)
LEMMA TryThere ==
  ASSUME NEW c, NEW os, NEW ls, NEW sd, NEW lp, Working(c, os, ls, sd, lp),
         NEW i \in DOMAIN os, os[i].kind = "try"
  PROVE  os[i].a \in DOMAIN c /\ c[os[i].a].h = os[i].h
<1>1. Expects(c, MarkOf(os, ls), os[i], Outer(os, i), lp[os[i].n + 1]) BY WorkingIs
<1> QED BY <1>1 DEF Expects, Waits

----------------------------------------------------------------------------
(* Adding code in the middle of a step.                                    *)

----------------------------------------------------------------------------
(* The statement being compiled.  The code c is made from the chunk by the *)
(* instructions it has emitted so far.                                     *)

Now == Working(chunk, open, locals, scopeDepth, loopStack)
Then == Working(chunk', open', locals', scopeDepth', loopStack')

Made(c, h, ctx, W) ==
  /\ Grown(chunk, MarkIn(Height, Ctx), c, MarkIn(h, ctx), W)
  /\ ctx \in Context /\ h \in Nat /\ c \in Seq(Instruction) /\ Len(c) \in Nat

(* What one knew of the code c holds of c2, d instructions later.          *)
On(c, h, ctx, c2, h2, ctx2, d) ==
  Keeps(c, MarkIn(h, ctx), c2, MarkIn(h2, ctx2)) /\ Len(c2) = Len(c) + d

Holes == HolesIn(open, loopStack)

(* What holds of the state before a step.                                  *)
LEMMA NowIs ==
  ASSUME Now
  PROVE  /\ Ctx \in Context /\ Ctx = Innermost(open) /\ Height \in Nat /\ Height = Len(locals)
         /\ chunk \in Seq(Instruction) /\ Len(chunk) \in Nat
         /\ open \in Seq(Statement) /\ locals \in Seq(Local) /\ scopeDepth \in Nat
         /\ loopStack \in Seq(LoopRecord)
         /\ Nesting(open, locals, scopeDepth, loopStack) /\ Contexts(open)
         /\ MarkOf(open, locals) = MarkIn(Height, Ctx)
         /\ Made(chunk, Height, Ctx, Holes)
         /\ \A op \in Ops : \A x, y, h \in Nat : Ins(op, x, y, h) \in Instruction
<1>1. /\ open \in Seq(Statement) /\ locals \in Seq(Local) /\ scopeDepth \in Nat
      /\ loopStack \in Seq(LoopRecord)
      /\ Nesting(open, locals, scopeDepth, loopStack) /\ Contexts(open)
      /\ Sound(chunk, MarkOf(open, locals), HolesIn(open, loopStack))
      /\ chunk \in Seq(Instruction) /\ Innermost(open) \in Context /\ Len(locals) \in Nat
      /\ MarkOf(open, locals) = MarkIn(Len(locals), Innermost(open))
  BY WorkingIs DEF Now
<1>2. Ctx = Innermost(open) BY DEF Ctx, Innermost
<1>3. Height = Len(locals) BY DEF Height
<1>4. Made(chunk, Height, Ctx, Holes)
  <2>1. /\ Grown(chunk, MarkOf(open, locals), chunk, MarkOf(open, locals), HolesIn(open, loopStack))
        /\ Len(chunk) \in Nat
    BY <1>1, NotGrown
  <2> QED BY <1>1, <1>2, <1>3, <2>1 DEF Made, Holes
<1>5. \A op \in Ops : \A x, y, h \in Nat : Ins(op, x, y, h) \in Instruction
  BY <1>1, <1>2, InsIs
<1> QED BY <1>1, <1>2, <1>3, <1>4, <1>5

(* One more instruction.                                                   *)
LEMMA AddPlain ==
  ASSUME NEW c, NEW h, NEW ctx, NEW W, Made(c, h, ctx, W), NEW h2 \in Nat,
         NEW op \in Ops \ {"RETURN"}, NEW x \in Nat, NEW y \in Nat, NEW ty \in SUBSET ErrTypes,
         Adds(op, y, h, h2)
  PROVE  LET c2 == Append(c, InsIn(ctx, op, x, y, ty, h)) IN
         Made(c2, h2, ctx, W) /\ On(c, h, ctx, c2, h2, ctx, 1)
<1>1. /\ Grown(chunk, MarkIn(Height, Ctx), c, MarkIn(h, ctx), W) /\ ctx \in Context /\ h \in Nat
  BY DEF Made
<1>2. Emit(chunk, MarkIn(Height, Ctx), c, W, ctx, op, x, y, ty, h, h2, W) BY <1>1, Plain
<1> QED BY <1>1, <1>2 DEF Emit, Made, On

(* An instruction that may raise an error, in a guarded context.           *)
LEMMA AddRaising ==
  ASSUME NEW c, NEW h, NEW ctx, NEW W, Made(c, h, ctx, W), NEW h2 \in Nat,
         NEW op \in Ops \ {"RETURN"}, NEW x \in Nat, NEW y \in Nat, NEW ty \in SUBSET ErrTypes,
         NEW g \in Nat, Guarded(c, ctx, g), Fails(op, x, y, ty, h, h2, g)
  PROVE  LET c2 == Append(c, InsIn(ctx, op, x, y, ty, h)) IN
         Made(c2, h2, ctx, W) /\ On(c, h, ctx, c2, h2, ctx, 1)
<1>1. /\ Grown(chunk, MarkIn(Height, Ctx), c, MarkIn(h, ctx), W) /\ ctx \in Context /\ h \in Nat
  BY DEF Made
<1>2. Emit(chunk, MarkIn(Height, Ctx), c, W, ctx, op, x, y, ty, h, h2, W) BY <1>1, Raising
<1> QED BY <1>1, <1>2 DEF Emit, Made, On

(* CONSTANT.                                                               *)
LEMMA AddConstant ==
  ASSUME NEW c, NEW h, NEW ctx, NEW W, Made(c, h, ctx, W)
  PROVE  LET c2 == Append(c, InsIn(ctx, "CONSTANT", 0, 0, {}, h)) IN
         Made(c2, h + 1, ctx, W) /\ On(c, h, ctx, c2, h + 1, ctx, 1)
<1>1. Adds("CONSTANT", 0, h, h + 1) /\ h + 1 \in Nat BY DEF Adds, Made
<1> QED BY <1>1, OpsAre, AddPlain

(* POP.                                                                    *)
LEMMA AddPop ==
  ASSUME NEW c, NEW h \in Nat, NEW ctx, NEW W, Made(c, h + 1, ctx, W)
  PROVE  LET c2 == Append(c, InsIn(ctx, "POP", 0, 0, {}, h + 1)) IN
         Made(c2, h, ctx, W) /\ On(c, h + 1, ctx, c2, h, ctx, 1)
<1>1. Adds("POP", 0, h + 1, h) BY DEF Adds
<1> QED BY <1>1, OpsAre, AddPlain

(* JUMP, still to be patched.                                              *)
LEMMA AddJump ==
  ASSUME NEW c, NEW h, NEW ctx, NEW W, Made(c, h, ctx, W), NEW h2 \in Nat, NEW x \in Nat
  PROVE  LET c2 == Append(c, InsIn(ctx, "JUMP", x, 0, {}, h)) IN
         /\ Made(c2, h2, ctx, W \cup {Here(c)}) /\ On(c, h, ctx, c2, h2, ctx, 1)
         /\ Waits(c2, Here(c), "JUMP", h, ctx)
<1>1. /\ Grown(chunk, MarkIn(Height, Ctx), c, MarkIn(h, ctx), W) /\ ctx \in Context /\ h \in Nat
  BY DEF Made
<1>2. Emit(chunk, MarkIn(Height, Ctx), c, W, ctx, "JUMP", x, 0, {}, h, h2, W \cup {Len(c) + 1})
  BY <1>1, Jumped
<1> QED BY <1>1, <1>2 DEF Emit, Made, On, Here

(* LOOP, back to where something began.                                    *)
LEMMA AddLoop ==
  ASSUME NEW c, NEW h, NEW ctx, NEW W, Made(c, h, ctx, W), NEW h2 \in Nat,
         NEW q \in Nat, Begun(c, MarkIn(h, ctx), q, h, ctx)
  PROVE  LET c2 == Append(c, InsIn(ctx, "LOOP", q, 0, {}, h)) IN
         Made(c2, h2, ctx, W) /\ On(c, h, ctx, c2, h2, ctx, 1)
<1>1. /\ Grown(chunk, MarkIn(Height, Ctx), c, MarkIn(h, ctx), W) /\ ctx \in Context /\ h \in Nat
  BY DEF Made
<1>2. Emit(chunk, MarkIn(Height, Ctx), c, W, ctx, "LOOP", q, 0, {}, h, h2, W) BY <1>1, JumpedBack
<1> QED BY <1>1, <1>2 DEF Emit, Made, On

(* A conditional branch, still to be patched.                              *)
LEMMA AddBranch ==
  ASSUME NEW c, NEW h, NEW ctx, NEW W, Made(c, h, ctx, W), NEW h2 \in Nat,
         NEW op \in {"JUMP_IF_FALSE", "JUMP_IF_NOT_LT", "FOR_ITER"}, NEW y \in Nat, NEW x \in Nat, NEW g \in Nat,
         \/ op = "JUMP_IF_FALSE" /\ h >= 1 /\ h2 = h
         \/ op = "JUMP_IF_NOT_LT" /\ y < h /\ h2 = h /\ Guarded(c, ctx, g) /\ g <= h
         \/ op = "FOR_ITER" /\ h >= 1 + y /\ h2 = h + y /\ Guarded(c, ctx, g) /\ g <= h
  PROVE  LET c2 == Append(c, InsIn(ctx, op, x, y, {}, h)) IN
         /\ Made(c2, h2, ctx, W \cup {Here(c)}) /\ On(c, h, ctx, c2, h2, ctx, 1)
         /\ Waits(c2, Here(c), op, h, ctx)
<1>1. /\ Grown(chunk, MarkIn(Height, Ctx), c, MarkIn(h, ctx), W) /\ ctx \in Context /\ h \in Nat
  BY DEF Made
<1>2. op \in Ops \ {"RETURN"} /\ {} \in SUBSET ErrTypes BY OpsAre
<1>3. Emit(chunk, MarkIn(Height, Ctx), c, W, ctx, op, x, y, {}, h, h2, W \cup {Len(c) + 1})
  BY <1>1, <1>2, Branched
<1> QED BY <1>1, <1>3 DEF Emit, Made, On, Here

(* patchJump.                                                              *)
LEMMA AddPatch ==
  ASSUME NEW c, NEW h, NEW ctx, NEW W, Made(c, h, ctx, W), NEW A, AllWait(c, A, h, ctx)
  PROVE  Made(Patch(c, A), h, ctx, W \ A) /\ On(c, h, ctx, Patch(c, A), h, ctx, 0)
<1>1. /\ Grown(chunk, MarkIn(Height, Ctx), c, MarkIn(h, ctx), W) /\ ctx \in Context /\ h \in Nat
  BY DEF Made
<1> QED BY <1>1, Patched DEF Made, On

(* A run of OP_POP.                                                        *)
LEMMA AddPops ==
  ASSUME Now, NEW c, NEW h, NEW W, Made(c, h, Ctx, W), NEW n \in Nat, n <= h
  PROVE  Made(c \o Pops(n, h), h - n, Ctx, W) /\ On(c, h, Ctx, c \o Pops(n, h), h - n, Ctx, n)
<1>1. /\ Grown(chunk, MarkIn(Height, Ctx), c, MarkIn(h, Ctx), W) /\ h \in Nat /\ Len(c) \in Nat
      /\ Ctx \in Context
  BY DEF Made
<1>2. LET c2 == c \o Pops(n, h) IN
         /\ Grown(chunk, MarkIn(Height, Ctx), c2, MarkIn(h - n, Ctx), W)
         /\ Keeps(c, MarkIn(h, Ctx), c2, MarkIn(h - n, Ctx))
         /\ c2 \in Seq(Instruction) /\ Len(c2) = Len(c) + n /\ Len(c) \in Nat
  BY <1>1, Popped
<1> QED BY <1>1, <1>2 DEF Made, On

(* A condition and its test.                                               *)
LEMMA AddCondition ==
  ASSUME Now, NEW c, NEW h, NEW W, Made(c, h, Ctx, W)
  PROVE  LET c2 == c \o Condition(h) IN
         /\ Made(c2, h, Ctx, W \cup {Len(c) + 2}) /\ On(c, h, Ctx, c2, h, Ctx, 3)
         /\ Waits(c2, Len(c) + 2, "JUMP_IF_FALSE", h + 1, Ctx)
<1>1. /\ Grown(chunk, MarkIn(Height, Ctx), c, MarkIn(h, Ctx), W) /\ h \in Nat /\ Len(c) \in Nat
      /\ Ctx \in Context
  BY DEF Made
<1>2. LET c2 == c \o Condition(h) IN
         /\ Grown(chunk, MarkIn(Height, Ctx), c2, MarkIn(h, Ctx), W \cup {Len(c) + 2})
         /\ Keeps(c, MarkIn(h, Ctx), c2, MarkIn(h, Ctx))
         /\ c2 \in Seq(Instruction) /\ Len(c2) = Len(c) + 3 /\ Len(c) \in Nat
         /\ Waits(c2, Len(c) + 2, "JUMP_IF_FALSE", h + 1, Ctx)
  BY <1>1, ConditionAdded
<1> QED BY <1>1, <1>2 DEF Made, On

(* The test of a case.                                                     *)
LEMMA AddCase ==
  ASSUME Now, NEW c, NEW h, NEW W, Made(c, h, Ctx, W), h >= 1
  PROVE  /\ Made(Case(c, h), h, Ctx, W \cup {Len(c) + 4}) /\ On(c, h, Ctx, Case(c, h), h, Ctx, 5)
         /\ Waits(Case(c, h), Len(c) + 4, "JUMP_IF_FALSE", h + 1, Ctx)
<1>1. /\ Grown(chunk, MarkIn(Height, Ctx), c, MarkIn(h, Ctx), W) /\ h \in Nat /\ Len(c) \in Nat
      /\ Ctx \in Context
  BY DEF Made
<1> QED BY SMTT(60), <1>1, CaseAdded DEF Made, On

(* What one knew is kept over several additions.                           *)
LEMMA OnAndOn ==
  ASSUME NEW c1, NEW h1, NEW x1, NEW c2, NEW h2, NEW x2, NEW c3, NEW h3, NEW x3,
         Len(c1) \in Nat, NEW d \in Nat, NEW e \in Nat,
         On(c1, h1, x1, c2, h2, x2, d), On(c2, h2, x2, c3, h3, x3, e)
  PROVE  On(c1, h1, x1, c3, h3, x3, d + e)
<1>1. Len(c3) = Len(c1) + (d + e) BY DEF On
<1>2. Keeps(c1, MarkIn(h1, x1), c3, MarkIn(h3, x3)) BY KeepsOn DEF On
<1> QED BY <1>1, <1>2 DEF On

(* The code the statement has made still holds what the chunk held.        *)
LEMMA MadeKeeps ==
  ASSUME Now, NEW c, NEW h, NEW ctx, NEW W, Made(c, h, ctx, W)
  PROVE  Keeps(chunk, MarkIn(Height, Ctx), c, MarkIn(h, ctx))
<1>1. Sound(chunk, MarkIn(Height, Ctx), Holes) BY NowIs DEF Made, Grown
<1>2. Evolved(chunk, MarkIn(Height, Ctx), c, MarkIn(h, ctx), W, 0) BY <1>1, GrownEvolved DEF Made
<1> QED BY <1>2 DEF Evolved

(* A statement that declares nothing and opens no block.                   *)
LEMMA Simple ==
  ASSUME Now, NEW c, Made(c, Height, Ctx, Holes)
  PROVE  Working(c, open, locals, scopeDepth, loopStack)
<1>1. Grown(chunk, MarkOf(open, locals), c, MarkOf(open, locals), Holes) BY NowIs DEF Made
<1> QED BY <1>1, Stayed DEF Now, Holes
============================================================================
