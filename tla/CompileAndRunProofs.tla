------------------------ MODULE CompileAndRunProofs ------------------------
(***************************************************************************)
(* The compiler and the machine together.  Every action of CodeGen keeps   *)
(* the invariant of CodeGenProofs, so every chunk that is handed over      *)
(* passes the verifier; hence every run of a compiled program is safe,     *)
(* however long it is and however deep its calls.                          *)
(***************************************************************************)
EXTENDS CodeGenProofs

----------------------------------------------------------------------------
(* Simple statements.                                                      *)

(* What the proof asks of the constants: the machine knows the compiler's  *)
(* functions and error types, and no program uses a harmful combination.   *)
Tame == Risks \cap Harmful = {}
Accepted ==
  /\ Funcs = 1..NumFuncs
  /\ ThrowTypes \subseteq ErrTypes /\ CatchTypes \subseteq SUBSET ErrTypes
  /\ "AssertionError" \in ErrTypes
  /\ Tame

(* What comes next begins here.                                            *)
LEMMA HereBegun ==
  ASSUME NEW c, NEW h, NEW ctx, NEW W, Made(c, h, ctx, W)
  PROVE  Begun(c, MarkIn(h, ctx), Here(c), h, ctx)
<1>1. /\ c \in Seq(Instruction) /\ MarkIn(h, ctx) \in Mark
      /\ MarkIn(h, ctx).h = h /\ MarkIn(h, ctx).hs = ctx.hs /\ MarkIn(h, ctx).rf = ctx.rf
  BY MarkInIs DEF Made
<1> QED BY <1>1, ExtIs DEF Begun, Here

(* A jump whose target is emitted with it.                                 *)
LEMMA AddLanding ==
  ASSUME NEW c, NEW h, NEW ctx, NEW W, Made(c, h, ctx, W),
         NEW p, NEW op \in Branches, NEW k \in Nat, NEW x, Waits(c, p, op, k, x),
         Begun(c, MarkIn(h, ctx), c[p].x, k, x)
  PROVE  Made(c, h, ctx, W \ {p})
<1> DEFINE m == MarkIn(h, ctx)
<1>1. c \in Seq(Instruction) /\ m \in Mark BY MarkInIs DEF Made
<1>2. p \in DOMAIN c /\ c[p].op = op /\ c[p].h = k /\ c[p].hs = x.hs /\ c[p].rf = x.rf BY DEF Waits
<1>3. Ext(c, m)[p] = c[p] BY <1>1, <1>2, ExtIs
<1>4. Lands(Ext(c, m), p)
  <2>1. c[p].h \in Nat /\ op # "TRY_ENTER" BY <1>1, <1>2 DEF Instruction, Branches
  <2> QED BY <1>2, <1>3, <2>1 DEF Begun, Lands, Flows
<1>5. \A r \in W \ (W \ {p}) : Lands(Ext(c, m), r) BY <1>4
<1> HIDE DEF m
<1>6. Grown(chunk, MarkIn(Height, Ctx), c, m, W) BY DEF Made, m
<1>7. Grown(chunk, MarkIn(Height, Ctx), c, m, W \ {p}) BY <1>5, <1>6, MoreHoles
<1> QED BY <1>7 DEF Made, m

(* Outside finally blocks that a return enters an error finds its handler. *)
LEMMA ContextFree ==
  ASSUME Now, Ctx.rf = 0
  PROVE  Guarded(chunk, Ctx, Height)
<1>1. \A i \in DOMAIN open : open[i].kind = "try" =>
        open[i].a \in DOMAIN chunk /\ chunk[open[i].a].h = open[i].h
  BY TryThere DEF Now
<1> QED BY <1>1, NowIs, GuardedIs

(* A statement that may fail is guarded.                                   *)
LEMMA MayRaiseGuards ==
  ASSUME Now, Tame, MayRaise
  PROVE  Guarded(chunk, Ctx, Height)
<1>1. Ctx.rf = 0 BY DEF MayRaise, Risky, Tame, Harmful
<1> QED BY <1>1, ContextFree

(* A context stays guarded while code is added.                            *)
LEMMA GuardedStays ==
  ASSUME Now, NEW ctx, NEW g, Guarded(chunk, ctx, g), NEW c, NEW h, NEW x, NEW W, Made(c, h, x, W)
  PROVE  Guarded(c, ctx, g)
BY MadeKeeps DEF Keeps

(* The invariant is kept by let.                                           *)
LEMMA LetCompiles == ASSUME Now, Tame, Let PROVE Then
<1>0. /\ Ctx \in Context /\ Height \in Nat /\ Height = Len(locals) /\ Height + 1 \in Nat
      /\ open \in Seq(Statement) /\ locals \in Seq(Local) /\ scopeDepth \in Nat
      /\ loopStack \in Seq(LoopRecord)
      /\ Nesting(open, locals, scopeDepth, loopStack) /\ Contexts(open)
      /\ Made(chunk, Height, Ctx, Holes) /\ chunk \in Seq(Instruction) /\ Len(chunk) \in Nat
  BY NowIs
<1>1. /\ open' = open /\ loopStack' = loopStack /\ scopeDepth' = scopeDepth
      /\ ~(Inside("try", "body") /\ scopeDepth > 0) /\ ~Inside("do", "body")
  BY DEF Let, Risky, Tame, Harmful
<1>2. PICK value \in {"CONSTANT", "NOTYPE"} :
        IF scopeDepth > 0
          THEN /\ chunk' = Append(chunk, Ins(value, 0, 0, Height))
               /\ locals' = addLocal(locals, scopeDepth, Here(chunk), TRUE)
          ELSE /\ chunk' = chunk \o <<Ins(value, 0, 0, Height), Ins("DEFINE_VAR", 0, 0, Height + 1)>>
               /\ UNCHANGED locals
  BY DEF Let
<1> DEFINE i1 == InsIn(Ctx, value, 0, 0, {}, Height)
           i2 == InsIn(Ctx, "DEFINE_VAR", 0, 0, {}, Height + 1)
           c1 == Append(chunk, i1)
<1>3. Adds(value, 0, Height, Height + 1) /\ Adds("DEFINE_VAR", 0, Height + 1, Height)
  BY <1>0 DEF Adds
<1>4. value \in Ops \ {"RETURN"} /\ "DEFINE_VAR" \in Ops \ {"RETURN"} /\ {} \in SUBSET ErrTypes BY OpsAre
<1>5. Made(c1, Height + 1, Ctx, Holes) BY <1>0, <1>3, <1>4, AddPlain
<1>6. CASE scopeDepth > 0
  <2> DEFINE l == [depth |-> scopeDepth, d |-> Here(chunk), named |-> TRUE]
             ls == Append(locals, l)
  <2>1. chunk' = c1 /\ locals' = ls BY <1>2, <1>6 DEF Ins, addLocal
  <2>2. l \in Local BY <1>0 DEF Local, Here
  <2>3. l.depth = scopeDepth OBVIOUS
  <2> HIDE DEF l
  <2>4. /\ ls \in Seq(Local) /\ Len(ls) = Height + 1 /\ DOMAIN ls = 1..(Height + 1)
        /\ ls[Height + 1] = l /\ DOMAIN locals = 1..Height /\ \A k \in 1..Height : ls[k] = locals[k]
    <3>1. /\ ls \in Seq(Local) /\ Len(ls) = Len(locals) + 1 /\ DOMAIN ls = 1..(Len(locals) + 1)
          /\ DOMAIN locals = 1..Len(locals) /\ ls[Len(locals) + 1] = l
          /\ \A k \in 1..Len(locals) : ls[k] = locals[k]
      BY <1>0, <2>2, AppendIs
    <3> QED BY <1>0, <3>1
  <2> HIDE DEF ls
  <2>5. Deeper(locals, ls, scopeDepth)
    <3>1. \A k \in DOMAIN ls : k \notin DOMAIN locals => k = Height + 1 BY <1>0, <2>4
    <3> QED BY <1>0, <2>3, <2>4, <3>1 DEF Deeper
  <2>6. \A k \in DOMAIN ls : ls[k].depth <= scopeDepth
    <3> SUFFICES ASSUME NEW k \in DOMAIN ls PROVE ls[k].depth <= scopeDepth OBVIOUS
    <3>1. CASE k = Height + 1 BY <1>0, <2>3, <2>4, <3>1
    <3>2. CASE k # Height + 1
      <4>1. k \in DOMAIN locals /\ ls[k] = locals[k] BY <1>0, <2>4, <3>2
      <4> QED BY <1>0, <4>1 DEF Nesting
    <3> QED BY <3>1, <3>2
  <2>7. open # <<>> => ~InBody(Last(open)) /\ Last(open).kind # "do"
    <3> SUFFICES ASSUME open # <<>> PROVE ~InBody(Last(open)) /\ Last(open).kind # "do" OBVIOUS
    <3>1. ~InBody(Last(open)) BY <1>1, <1>6 DEF Inside, InBody
    <3>2. Len(open) \in DOMAIN open /\ Last(open) = open[Len(open)] BY <1>0, LastIs
    <3>3. Expects(chunk, MarkOf(open, locals), Last(open), Outer(open, Len(open)),
                  loopStack[Last(open).n + 1])
      BY <3>2, WorkingIs DEF Now
    <3>4. Last(open).kind = "do" => Last(open).arm = "body" BY <3>3 DEF Expects
    <3> QED BY <1>1, <3>1, <3>4 DEF Inside
  <2>8. Nesting(open, ls, scopeDepth, loopStack) BY <1>0, <2>5, <2>6, <2>7, NestingLet
  <2>9. MarkOf(open, ls) = MarkIn(Height + 1, Ctx) BY <2>4, NowIs DEF MarkOf
  <2>10. Evolved(chunk, MarkOf(open, locals), c1, MarkOf(open, ls), Holes, 0)
    <3>1. Sound(chunk, MarkOf(open, locals), Holes) BY WorkingIs DEF Now, Holes
    <3>2. Grown(chunk, MarkOf(open, locals), c1, MarkOf(open, ls), Holes)
      BY <1>5, <2>9, NowIs DEF Made
    <3> QED BY <3>1, <3>2, GrownEvolved
  <2>11. \A i \in DOMAIN open : open[i].kind = "try" => open[i].a # 0 BY HandlerThere DEF Now
  <2> HIDE DEF c1
  <2>12. Working(c1, open, ls, scopeDepth, loopStack)
    <3>1. Working(chunk, open, locals, scopeDepth, loopStack) BY DEF Now
    <3>2. Holes \subseteq HolesIn(open, loopStack) BY DEF Holes
    <3> QED BY ONLY SMTT(60), <1>0, <2>4, <2>8, <2>10, <2>11, <3>1, <3>2, SameLoopIs, Assembled
  <2> QED BY <1>1, <2>1, <2>12 DEF Then
<1>7. CASE ~(scopeDepth > 0)
  <2>1. Made(Append(c1, i2), Height, Ctx, Holes) BY <1>0, <1>3, <1>4, <1>5, AddPlain
  <2>2. i1 \in Instruction /\ i2 \in Instruction BY <1>0, <1>4, InsInIs
  <2>3. chunk' = chunk \o <<i1, i2>> /\ locals' = locals BY <1>2, <1>7 DEF Ins
  <2>4. chunk' = Append(c1, i2)
    <3> HIDE DEF i1, i2
    <3> QED BY <1>0, <2>2, <2>3, Cat2
  <2>5. Working(Append(c1, i2), open, locals, scopeDepth, loopStack) BY <2>1, Simple
  <2> QED BY <1>1, <2>3, <2>4, <2>5 DEF Then
<1> QED BY <1>6, <1>7

(* The invariant is kept by an expression statement.                       *)
LEMMA UseCompiles == ASSUME Now, Use PROVE Then
<1>0. /\ Ctx \in Context /\ Height \in Nat /\ Height = Len(locals) /\ Height + 1 \in Nat
      /\ locals \in Seq(Local) /\ Made(chunk, Height, Ctx, Holes) /\ chunk \in Seq(Instruction)
  BY NowIs
<1>1. /\ open' = open /\ locals' = locals /\ loopStack' = loopStack /\ scopeDepth' = scopeDepth
  BY DEF Use
<1>2. PICK i \in DOMAIN locals :
        chunk' = chunk \o <<Ins("GET_LOCAL", locals[i].d, i - 1, Height), Ins("POP", 0, 0, Height + 1)>>
  BY DEF Use
<1>3. i - 1 \in Nat /\ i - 1 < Height /\ locals[i].d \in Nat
  <2>1. locals[i] \in Local /\ i \in 1..Height BY <1>0
  <2> QED BY <1>0, <2>1 DEF Local
<1> DEFINE x == locals[i].d
           y == i - 1
           i1 == InsIn(Ctx, "GET_LOCAL", x, y, {}, Height)
           i2 == InsIn(Ctx, "POP", 0, 0, {}, Height + 1)
           c1 == Append(chunk, i1)
<1>4. x \in Nat /\ y \in Nat /\ Adds("GET_LOCAL", y, Height, Height + 1) BY <1>3 DEF Adds
<1>5. chunk' = chunk \o <<i1, i2>> BY <1>2 DEF Ins
<1> HIDE DEF x, y
<1>6. Made(c1, Height + 1, Ctx, Holes) BY <1>0, <1>4, OpsAre, AddPlain
<1>7. Made(Append(c1, i2), Height, Ctx, Holes) BY <1>0, <1>6, AddPop
<1>8. i1 \in Instruction /\ i2 \in Instruction BY <1>0, <1>4, OpsAre, InsInIs
<1>9. chunk' = Append(c1, i2)
  <2> HIDE DEF i1, i2
  <2> QED BY <1>0, <1>5, <1>8, Cat2
<1> QED BY <1>1, <1>7, <1>9, Simple DEF Then

(* The invariant is kept by an assignment.                                 *)
LEMMA AssignCompiles == ASSUME Now, Assign PROVE Then
<1>0. /\ Ctx \in Context /\ Height \in Nat /\ Height = Len(locals) /\ Height + 1 \in Nat
      /\ locals \in Seq(Local) /\ Made(chunk, Height, Ctx, Holes) /\ chunk \in Seq(Instruction)
  BY NowIs
<1>1. /\ open' = open /\ locals' = locals /\ loopStack' = loopStack /\ scopeDepth' = scopeDepth
  BY DEF Assign
<1>2. PICK i \in DOMAIN locals :
        chunk' = chunk \o <<Ins("CONSTANT", 0, 0, Height),
                            Ins("SET_LOCAL", locals[i].d, i - 1, Height + 1),
                            Ins("POP", 0, 0, Height + 1)>>
  BY DEF Assign
<1>3. i - 1 \in Nat /\ i - 1 < Height + 1 /\ locals[i].d \in Nat
  <2>1. locals[i] \in Local /\ i \in 1..Height BY <1>0
  <2> QED BY <1>0, <2>1 DEF Local
<1> DEFINE x == locals[i].d
           y == i - 1
           i1 == InsIn(Ctx, "CONSTANT", 0, 0, {}, Height)
           i2 == InsIn(Ctx, "SET_LOCAL", x, y, {}, Height + 1)
           i3 == InsIn(Ctx, "POP", 0, 0, {}, Height + 1)
           c1 == Append(chunk, i1)
           c2 == Append(c1, i2)
<1>4. x \in Nat /\ y \in Nat /\ Adds("SET_LOCAL", y, Height + 1, Height + 1) BY <1>3 DEF Adds
<1>5. chunk' = chunk \o <<i1, i2, i3>> BY <1>2 DEF Ins
<1> HIDE DEF x, y
<1>6. Made(c1, Height + 1, Ctx, Holes) BY <1>0, AddConstant
<1>7. Made(c2, Height + 1, Ctx, Holes)
  <2> HIDE DEF c1
  <2> QED BY <1>0, <1>4, <1>6, OpsAre, AddPlain
<1>8. Made(Append(c2, i3), Height, Ctx, Holes) BY <1>0, <1>7, AddPop
<1>9. i1 \in Instruction /\ i2 \in Instruction /\ i3 \in Instruction BY <1>0, <1>4, OpsAre, InsInIs
<1>10. chunk' = Append(c2, i3)
  <2> HIDE DEF i1, i2, i3
  <2> QED BY <1>0, <1>5, <1>9, Cat3
<1> QED BY <1>1, <1>8, <1>10, Simple DEF Then

(* The invariant is kept by an expression that may fail.                   *)
LEMMA EvalCompiles == ASSUME Now, Tame, Eval PROVE Then
<1>0. /\ Ctx \in Context /\ Height \in Nat /\ Height + 1 \in Nat
      /\ Made(chunk, Height, Ctx, Holes) /\ chunk \in Seq(Instruction)
  BY NowIs
<1> DEFINE i1 == InsIn(Ctx, "NATIVE", 0, 0, {}, Height)
           i2 == InsIn(Ctx, "POP", 0, 0, {}, Height + 1)
           c1 == Append(chunk, i1)
<1>1. /\ open' = open /\ locals' = locals /\ loopStack' = loopStack /\ scopeDepth' = scopeDepth
      /\ chunk' = chunk \o <<i1, i2>>
  BY DEF Eval, Ins
<1>2. Guarded(chunk, Ctx, Height) BY MayRaiseGuards DEF Eval
<1>3. Fails("NATIVE", 0, 0, {}, Height, Height + 1, Height) BY <1>0 DEF Fails
<1>4. Made(c1, Height + 1, Ctx, Holes) BY <1>0, <1>2, <1>3, OpsAre, AddRaising
<1>5. Made(Append(c1, i2), Height, Ctx, Holes) BY <1>0, <1>4, AddPop
<1>6. i1 \in Instruction /\ i2 \in Instruction BY <1>0, OpsAre, InsInIs
<1>7. chunk' = Append(c1, i2)
  <2> HIDE DEF i1, i2
  <2> QED BY <1>0, <1>1, <1>6, Cat2
<1> QED BY <1>1, <1>5, <1>7, Simple DEF Then

(* The invariant is kept by a call.                                        *)
LEMMA CallCompiles ==
  ASSUME Now, Accepted, CGTypes, CallStmt
  PROVE  Then
<1>0. /\ Ctx \in Context /\ Height \in Nat /\ Height + 1 \in Nat
      /\ Made(chunk, Height, Ctx, Holes) /\ chunk \in Seq(Instruction)
  BY NowIs
<1>1. /\ open' = open /\ locals' = locals /\ loopStack' = loopStack /\ scopeDepth' = scopeDepth
      /\ fn <= NumFuncs
  BY DEF CallStmt, Begins
<1>2. PICK g \in 1..fn \ {NumFuncs} :
        chunk' = chunk \o <<Ins("CONSTANT", 0, 0, Height), Ins("CALL", g, 0, Height + 1),
                            Ins("POP", 0, 0, Height + 1)>>
  BY DEF CallStmt
<1>3. g \in Funcs /\ g \in Nat BY <1>1, CodeGenAssumption DEF Accepted, CGTypes
<1> DEFINE i1 == InsIn(Ctx, "CONSTANT", 0, 0, {}, Height)
           i2 == InsIn(Ctx, "CALL", g, 0, {}, Height + 1)
           i3 == InsIn(Ctx, "POP", 0, 0, {}, Height + 1)
           c1 == Append(chunk, i1)
           c2 == Append(c1, i2)
<1>4. chunk' = chunk \o <<i1, i2, i3>> BY <1>2 DEF Ins
<1>5. Made(c1, Height + 1, Ctx, Holes) BY <1>0, AddConstant
<1>6. Guarded(c1, Ctx, Height)
  <2>1. Tame BY DEF Accepted
  <2>2. Guarded(chunk, Ctx, Height) BY <2>1, MayRaiseGuards DEF CallStmt
  <2> QED BY <1>5, <2>2, GuardedStays
<1>7. Made(c2, Height + 1, Ctx, Holes)
  <2>1. Fails("CALL", g, 0, {}, Height + 1, Height + 1, Height) BY <1>0, <1>3 DEF Fails
  <2> HIDE DEF c1
  <2> QED BY <1>0, <1>3, <1>5, <1>6, <2>1, OpsAre, AddRaising
<1>8. Made(Append(c2, i3), Height, Ctx, Holes) BY <1>0, <1>7, AddPop
<1>9. i1 \in Instruction /\ i2 \in Instruction /\ i3 \in Instruction BY <1>0, <1>3, OpsAre, InsInIs
<1>10. chunk' = Append(c2, i3)
  <2> HIDE DEF i1, i2, i3
  <2> QED BY <1>0, <1>4, <1>9, Cat3
<1>11. Working(Append(c2, i3), open, locals, scopeDepth, loopStack) BY <1>8, Simple
<1> QED BY <1>1, <1>10, <1>11 DEF Then

(* The invariant is kept by throw.                                         *)
LEMMA ThrowCompiles == ASSUME Now, Accepted, ThrowStmt PROVE Then
<1>0. /\ Ctx \in Context /\ Height \in Nat /\ Height + 1 \in Nat /\ Height + 2 \in Nat
      /\ Made(chunk, Height, Ctx, Holes) /\ chunk \in Seq(Instruction)
  BY NowIs
<1>1. /\ open' = open /\ locals' = locals /\ loopStack' = loopStack /\ scopeDepth' = scopeDepth
  BY DEF ThrowStmt
<1>2. PICK t \in ThrowTypes :
        chunk' = chunk \o <<Ins("CONSTANT", 0, 0, Height), Ins("CONSTANT", 0, 0, Height + 1),
                            InsIn(Ctx, "THROW", 0, 0, {t}, Height + 2)>>
  BY DEF ThrowStmt
<1> DEFINE i1 == InsIn(Ctx, "CONSTANT", 0, 0, {}, Height)
           i2 == InsIn(Ctx, "CONSTANT", 0, 0, {}, Height + 1)
           i3 == InsIn(Ctx, "THROW", 0, 0, {t}, Height + 2)
           c1 == Append(chunk, i1)
           c2 == Append(c1, i2)
<1>3. chunk' = chunk \o <<i1, i2, i3>> BY <1>2 DEF Ins
<1>4. {t} \in SUBSET ErrTypes /\ {t} # {} BY DEF Accepted
<1>5. Made(c1, Height + 1, Ctx, Holes) BY <1>0, AddConstant
<1>6. Made(c2, Height + 2, Ctx, Holes)
  <2> HIDE DEF c1
  <2>1. Height + 1 + 1 = Height + 2 BY <1>0
  <2>2. Made(c2, Height + 1 + 1, Ctx, Holes) BY <1>0, <1>5, AddConstant
  <2> QED BY <2>1, <2>2
<1>7. Guarded(c2, Ctx, Height)
  <2>1. Tame BY DEF Accepted
  <2>2. Guarded(chunk, Ctx, Height) BY <2>1, MayRaiseGuards DEF ThrowStmt
  <2> QED BY <1>6, <2>2, GuardedStays
<1>8. Made(Append(c2, i3), Height, Ctx, Holes)
  <2>1. Fails("THROW", 0, 0, {t}, Height + 2, Height, Height) BY <1>0 DEF Fails
  <2> HIDE DEF c2
  <2> QED BY <1>0, <1>4, <1>6, <1>7, <2>1, OpsAre, AddRaising
<1>9. i1 \in Instruction /\ i2 \in Instruction /\ i3 \in Instruction
  BY <1>0, <1>4, OpsAre, InsInIs
<1>10. chunk' = Append(c2, i3)
  <2> HIDE DEF i1, i2, i3
  <2> QED BY <1>0, <1>3, <1>9, Cat3
<1> QED BY <1>1, <1>8, <1>10, Simple DEF Then

(* The invariant is kept by skip.                                          *)
LEMMA SkipCompiles == ASSUME Now, Tame, Skip PROVE Then
<1> DEFINE l == Last(loopStack)
<1>0. /\ Ctx \in Context /\ Height \in Nat /\ Height = Len(locals) /\ Height + 1 \in Nat
      /\ open \in Seq(Statement) /\ locals \in Seq(Local) /\ scopeDepth \in Nat
      /\ loopStack \in Seq(LoopRecord) /\ Nesting(open, locals, scopeDepth, loopStack)
      /\ Made(chunk, Height, Ctx, Holes) /\ chunk \in Seq(Instruction)
  BY NowIs
<1>1. /\ open' = open /\ locals' = locals /\ loopStack' = loopStack /\ scopeDepth' = scopeDepth
      /\ loopStack # <<>> /\ l.each
  BY DEF Skip
<1>2. l.iter \in Nat /\ l.iter < Height
  <2>1. PICK i \in DOMAIN open : IsLoop(open[i]) /\ open[i].n + 1 = Len(loopStack)
    BY <1>1, InnerLoopIs DEF Now
  <2>2. LoopOK(open[i], l, locals) /\ l \in LoopRecord /\ open[i] \in Statement
    BY <1>0, <2>1, NestingIs DEF Last
  <2>3. open[i].kind = "foreach" BY <1>1, <2>2 DEF LoopOK
  <2>4. l.iter + 1 = l.count /\ Split(locals, open[i].d + 2, l.count + open[i].b) BY <2>2, <2>3 DEF LoopOK
  <2>5. l.iter \in Nat /\ l.count \in Nat /\ open[i].b \in Nat BY <2>2, LoopIs, ExtraIs
  <2> QED BY SMTT(60), <1>0, <2>4, <2>5 DEF Split
<1> DEFINE y == l.iter
           x == locals[l.iter + 1].d
           i1 == InsIn(Ctx, "CONSTANT", 0, 0, {}, Height)
           i2 == InsIn(Ctx, "SKIP_ITER", x, y, {}, Height + 1)
           c1 == Append(chunk, i1)
<1>3. x \in Nat /\ y \in Nat /\ y < Height
  <2>1. l.iter + 1 \in 1..Height BY <1>0, <1>2
  <2>2. locals[l.iter + 1] \in Local BY <1>0, <2>1
  <2> QED BY <1>2, <2>2 DEF Local
<1>4. chunk' = chunk \o <<i1, i2>> BY DEF Skip, Ins
<1> HIDE DEF x, y
<1>5. Made(c1, Height + 1, Ctx, Holes) BY <1>0, AddConstant
<1>6. Guarded(c1, Ctx, Height)
  <2>1. Guarded(chunk, Ctx, Height) BY MayRaiseGuards DEF Skip
  <2> QED BY <1>5, <2>1, GuardedStays
<1>7. Made(Append(c1, i2), Height, Ctx, Holes)
  <2>1. Fails("SKIP_ITER", x, y, {}, Height + 1, Height, Height) BY <1>0, <1>3 DEF Fails
  <2> HIDE DEF c1
  <2> QED BY <1>0, <1>3, <1>5, <1>6, <2>1, OpsAre, AddRaising
<1>8. i1 \in Instruction /\ i2 \in Instruction BY <1>0, <1>3, OpsAre, InsInIs
<1>9. chunk' = Append(c1, i2)
  <2> HIDE DEF i1, i2
  <2> QED BY <1>0, <1>4, <1>8, Cat2
<1> QED BY <1>1, <1>7, <1>9, Simple DEF Then

(* A simple statement may leave fewer holes.                               *)
LEMMA SimpleLess ==
  ASSUME Now, NEW c, NEW V, Made(c, Height, Ctx, V), V \subseteq Holes
  PROVE  Working(c, open, locals, scopeDepth, loopStack)
<1>1. Grown(chunk, MarkOf(open, locals), c, MarkOf(open, locals), V) BY NowIs DEF Made
<1> QED BY <1>1, Stayed DEF Now, Holes

(* A jump to the end of the code lands there.                              *)
LEMMA AtEnd ==
  ASSUME NEW c \in Seq(Instruction), NEW t \in Seq(Instruction), NEW k \in 1..Len(t)
  PROVE  (c \o t)[Len(c) + k] = t[k]
OBVIOUS

(* The invariant is kept by assert.                                        *)
LEMMA AssertCompiles == ASSUME Now, Accepted, AssertStmt PROVE Then
<1> DEFINE n == Len(chunk)
           h == Height
           W == Holes
           i1 == InsIn(Ctx, "CONSTANT", 0, 0, {}, h)
           i2 == InsIn(Ctx, "JUMP_IF_FALSE", n + 5, 0, {}, h + 1)
           i3 == InsIn(Ctx, "POP", 0, 0, {}, h + 1)
           i4 == InsIn(Ctx, "JUMP", n + 9, 0, {}, h)
           i5 == InsIn(Ctx, "POP", 0, 0, {}, h + 1)
           i6 == InsIn(Ctx, "CONSTANT", 0, 0, {}, h)
           i7 == InsIn(Ctx, "CONSTANT", 0, 0, {}, h + 1)
           i8 == InsIn(Ctx, "THROW", 0, 0, {"AssertionError"}, h + 2)
           c1 == Append(chunk, i1)
           c2 == Append(c1, i2)
           c3 == Append(c2, i3)
           c4 == Append(c3, i4)
           c5 == Append(c4, i5)
           c6 == Append(c5, i6)
           c7 == Append(c6, i7)
           c8 == Append(c7, i8)
           V == W \cup {Here(c1)}
           U == V \cup {Here(c3)}
<1>0. /\ Ctx \in Context /\ h \in Nat /\ h + 1 \in Nat /\ h + 2 \in Nat /\ h + 1 + 1 = h + 2
      /\ Made(chunk, h, Ctx, W) /\ chunk \in Seq(Instruction) /\ n \in Nat
      /\ n + 5 \in Nat /\ n + 9 \in Nat
  BY NowIs
<1>1. /\ open' = open /\ locals' = locals /\ loopStack' = loopStack /\ scopeDepth' = scopeDepth
      /\ chunk' = chunk \o <<i1, i2, i3, i4, i5, i6, i7, i8>>
  BY DEF AssertStmt, Ins
<1>2. {"AssertionError"} \in SUBSET ErrTypes BY DEF Accepted
<1>3. /\ i1 \in Instruction /\ i2 \in Instruction /\ i3 \in Instruction /\ i4 \in Instruction
      /\ i5 \in Instruction /\ i6 \in Instruction /\ i7 \in Instruction /\ i8 \in Instruction
      /\ i2.x = n + 5 /\ i4.x = n + 9
  <2>1. i1 \in Instruction /\ i3 \in Instruction /\ i5 \in Instruction BY <1>0, OpsAre, InsInIs
  <2>2. i6 \in Instruction /\ i7 \in Instruction BY <1>0, OpsAre, InsInIs
  <2>3. i2 \in Instruction /\ i2.x = n + 5 BY <1>0, OpsAre, InsInIs
  <2>4. i4 \in Instruction /\ i4.x = n + 9 BY <1>0, OpsAre, InsInIs
  <2>5. i8 \in Instruction BY <1>0, <1>2, OpsAre, InsInIs
  <2> QED BY <2>1, <2>2, <2>3, <2>4, <2>5
<1>4. chunk' = c8
  <2> HIDE DEF i1, i2, i3, i4, i5, i6, i7, i8
  <2>1. /\ i1 \in Instruction /\ i2 \in Instruction /\ i3 \in Instruction /\ i4 \in Instruction
        /\ i5 \in Instruction /\ i6 \in Instruction /\ i7 \in Instruction /\ i8 \in Instruction
        /\ chunk \in Seq(Instruction)
    BY <1>0, <1>3
  <2> DEFINE f == <<i1, i2, i3, i4, i5>>
             l == <<i6, i7, i8>>
  <2>2. f \in Seq(Instruction) /\ l \in Seq(Instruction) BY <2>1
  <2>3. <<i1, i2, i3, i4, i5, i6, i7, i8>> = f \o l BY <2>1
  <2>4. chunk \o f = c5 /\ chunk \o f \in Seq(Instruction) BY SMTT(60), <2>1, <2>2, Cat5
  <2> HIDE DEF c5
  <2>5. (chunk \o f) \o l = c8
    <3>1. c5 \in Seq(Instruction) BY <2>4
    <3>2. c5 \o l = c8 BY <2>1, <3>1, Cat3
    <3> QED BY <2>4, <3>2
  <2>6. (chunk \o f) \o l = chunk \o (f \o l)
    <3> HIDE DEF f, l
    <3> QED BY <2>1, <2>2
  <2> QED BY <1>1, <2>3, <2>5, <2>6
<1>5. Made(c1, h + 1, Ctx, W) /\ On(chunk, h, Ctx, c1, h + 1, Ctx, 1) BY <1>0, AddConstant
<1> HIDE DEF c1, n, W
<1>6. /\ Made(c2, h + 1, Ctx, V) /\ On(c1, h + 1, Ctx, c2, h + 1, Ctx, 1)
      /\ Waits(c2, Here(c1), "JUMP_IF_FALSE", h + 1, Ctx)
  <2>1. h + 1 >= 1 BY <1>0
  <2> QED BY <1>0, <1>5, <2>1, AddBranch
<1> HIDE DEF c2, V
<1>7. Made(c3, h, Ctx, V) /\ On(c2, h + 1, Ctx, c3, h, Ctx, 1) BY <1>0, <1>6, AddPop
<1> HIDE DEF c3
<1>8. /\ Made(c4, h + 1, Ctx, U) /\ On(c3, h, Ctx, c4, h + 1, Ctx, 1)
      /\ Waits(c4, Here(c3), "JUMP", h, Ctx)
  BY <1>0, <1>7, AddJump
<1> HIDE DEF c4, U
<1>9. Begun(c4, MarkIn(h + 1, Ctx), Here(c4), h + 1, Ctx) BY <1>8, HereBegun
<1>10. Made(c5, h, Ctx, U) /\ On(c4, h + 1, Ctx, c5, h, Ctx, 1) BY <1>0, <1>8, AddPop
<1> HIDE DEF c5
<1>11. Made(c6, h + 1, Ctx, U) /\ On(c5, h, Ctx, c6, h + 1, Ctx, 1) BY <1>10, AddConstant
<1> HIDE DEF c6
<1>12. Made(c7, h + 2, Ctx, U) /\ On(c6, h + 1, Ctx, c7, h + 2, Ctx, 1)
  <2>1. Made(c7, h + 1 + 1, Ctx, U) /\ On(c6, h + 1, Ctx, c7, h + 1 + 1, Ctx, 1)
    BY <1>11, AddConstant
  <2> QED BY <1>0, <2>1
<1> HIDE DEF c7
<1>13. Made(c8, h, Ctx, U) /\ On(c7, h + 2, Ctx, c8, h, Ctx, 1)
  <2>1. Fails("THROW", 0, 0, {"AssertionError"}, h + 2, h, h) BY <1>0 DEF Fails
  <2>2. Tame BY DEF Accepted
  <2>3. Guarded(chunk, Ctx, h) BY <2>2, MayRaiseGuards DEF AssertStmt
  <2>4. Guarded(c7, Ctx, h) BY <1>12, <2>3, GuardedStays
  <2> QED BY <1>0, <1>2, <1>12, <2>1, <2>4, OpsAre, AddRaising
<1>14. Begun(c8, MarkIn(h, Ctx), Here(c8), h, Ctx) BY <1>13, HereBegun
<1>15. Waits(c8, Here(c3), "JUMP", h, Ctx) /\ Begun(c8, MarkIn(h, Ctx), Here(c4), h + 1, Ctx)
  BY <1>8, <1>9, <1>10, <1>11, <1>12, <1>13 DEF On, Keeps
<1>16. Waits(c8, Here(c1), "JUMP_IF_FALSE", h + 1, Ctx)
  BY <1>6, <1>7, <1>8, <1>10, <1>11, <1>12, <1>13 DEF On, Keeps
<1>17. Here(c1) = n + 2 /\ Here(c3) = n + 4 /\ Here(c4) = n + 5 /\ Here(c8) = n + 9
  BY <1>0, <1>5, <1>6, <1>7, <1>8, <1>10, <1>11, <1>12, <1>13 DEF On, Here, n
<1>18. c8[n + 2].x = n + 5 /\ c8[n + 4].x = n + 9
  <2> HIDE DEF i1, i2, i3, i4, i5, i6, i7, i8
  <2> DEFINE t == <<i1, i2, i3, i4, i5, i6, i7, i8>>
  <2>1. c8 = chunk \o t BY <1>1, <1>4
  <2>2. t \in Seq(Instruction) /\ Len(t) = 8 /\ t[2] = i2 /\ t[4] = i4 BY <1>3
  <2> HIDE DEF t, c8
  <2>3. chunk \in Seq(Instruction) /\ 2 \in 1..Len(t) /\ 4 \in 1..Len(t) BY <1>0, <2>2
  <2>5. (chunk \o t)[Len(chunk) + 2] = t[2] BY <2>2, <2>3, AtEnd
  <2>6. (chunk \o t)[Len(chunk) + 4] = t[4] BY <2>2, <2>3, AtEnd
  <2>4. c8[n + 2] = i2 /\ c8[n + 4] = i4 BY <2>1, <2>2, <2>5, <2>6 DEF n
  <2> QED BY <1>3, <2>4
<1> HIDE DEF c8
<1>19. Made(c8, h, Ctx, U \ {n + 2})
  <2>1. "JUMP_IF_FALSE" \in Branches BY DEF Branches
  <2> QED BY <1>0, <1>13, <1>15, <1>16, <1>17, <1>18, <2>1, AddLanding
<1>20. Made(c8, h, Ctx, (U \ {n + 2}) \ {n + 4})
  <2>1. "JUMP" \in Branches BY DEF Branches
  <2> QED BY <1>0, <1>14, <1>15, <1>17, <1>18, <1>19, <2>1, AddLanding
<1>21. (U \ {n + 2}) \ {n + 4} \subseteq Holes BY <1>17 DEF U, V, W
<1>22. Working(c8, open, locals, scopeDepth, loopStack) BY <1>20, <1>21, SimpleLess
<1> QED BY <1>1, <1>4, <1>22 DEF Then

(* Extending twice.                                                        *)
LEMMA ExtendsTwice ==
  ASSUME NEW c0, NEW m0, NEW c \in Seq(Instruction), NEW m \in Mark,
         NEW c2 \in Seq(Instruction), NEW m2 \in Mark, Extends(c0, m0, c, m), Extends(c, m, c2, m2)
  PROVE  Extends(c0, m0, c2, m2)
<1>1. Keeps(c, m, c2, m2) BY ExtendsKeeps
<1>2. Begun(c2, m2, Len(c0) + 1, m0.h, m0) BY <1>1 DEF Extends, Keeps
<1> QED BY <1>2 DEF Extends

(* A return is remembered by the try statement whose body it leaves.       *)
LEMMA ReturnLeft ==
  ASSUME NEW c, NEW os, NEW ls, NEW sd, NEW lp, Working(c, os, ls, sd, lp),
         NEW os2, SameButReturns(os, os2),
         NEW c2, Sound(c2, MarkOf(os, ls), HolesIn(os, lp)),
         Extends(c, MarkOf(os, ls), c2, MarkOf(os, ls)),
         \A p \in DOMAIN c2 : c2[p].op = "RETURN" =>
           \/ p \in DOMAIN c /\ c[p].op = "RETURN" /\ c2[p].h = c[p].h /\ c2[p].hs = c[p].hs
           \/ c2[p].h = Len(ls) + 1 /\ c2[p].hs = Innermost(os).hs,
         \A i \in DOMAIN os :
           /\ os[i].kind = "try" /\ os[i].fin
           /\ Innermost(os).hs # <<>> /\ Top(Innermost(os).hs) = os[i].a
           => os2[i].ret /\ Len(ls) = os[i].h
  PROVE  Working(c2, os2, ls, sd, lp)
<1> DEFINE m == MarkOf(os, ls)
<1>1. /\ os \in Seq(Statement) /\ ls \in Seq(Local) /\ sd \in Nat /\ lp \in Seq(LoopRecord)
      /\ Nesting(os, ls, sd, lp) /\ Contexts(os) /\ c \in Seq(Instruction) /\ m \in Mark
  BY WorkingIs
<1>2. /\ os2 \in Seq(Statement) /\ DOMAIN os2 = DOMAIN os BY DEF SameButReturns
<1>3. Nesting(os2, ls, sd, lp) BY <1>1, NestingReturns
<1>4. /\ Contexts(os2) /\ Innermost(os2) = Innermost(os)
      /\ \A i \in DOMAIN os : Outer(os2, i) = Outer(os, i)
  BY <1>1, ContextsReturns
<1>5. MarkOf(os2, ls) = m BY <1>4 DEF MarkOf
<1>6. ASSUME NEW i \in DOMAIN os PROVE HolesOf(os2[i]) = HolesOf(os[i])
  BY <1>6 DEF SameButReturns, HolesOf, InBody
<1>7. HolesIn(os2, lp) = HolesIn(os, lp)
  <2>1. {HolesOf(os2[i]) : i \in DOMAIN os2} = {HolesOf(os[i]) : i \in DOMAIN os} BY <1>2, <1>6
  <2> QED BY <2>1 DEF HolesIn
<1>8. c2 \in Seq(Instruction) BY DEF Sound
<1>9. Keeps(c, m, c2, m) BY <1>1, <1>8, ExtendsKeeps
<1>10. ASSUME NEW i \in DOMAIN os
       PROVE  /\ Expects(c2, m, os2[i], Outer(os2, i), lp[os2[i].n + 1])
              /\ Intercepted(c2, os2[i])
  <2> DEFINE o == os[i]
             o2 == os2[i]
             l == lp[o.n + 1]
             out == Outer(os, i)
  <2>1. Expects(c, m, o, out, l) /\ Intercepted(c, o) BY <1>10, WorkingIs
  <2>2. /\ o2.kind = o.kind /\ o2.arm = o.arm /\ o2.a = o.a /\ o2.b = o.b /\ o2.j = o.j
        /\ o2.jumps = o.jumps /\ o2.fin = o.fin /\ o2.h = o.h /\ o2.n = o.n
        /\ o2.ret = o.ret \/ o2.ret
    BY <1>10 DEF SameButReturns
  <2>3. o.kind = "try" /\ o.fin /\ Innermost(os).hs # <<>> /\ Top(Innermost(os).hs) = o.a
          => o2.ret /\ Len(ls) = o.h
    BY <1>10
  <2>4. lp[o2.n + 1] = l /\ Outer(os2, i) = out BY <1>4, <2>2
  <2> HIDE DEF o, o2, l, out, m
  <2>5. Expects(c2, m, o, out, l)
    <3>1. SameLoop(c2, l, l, out) BY SameLoopIs
    <3> QED BY <1>9, <2>1, <3>1, ExpectsKept
  <2>6. Expects(c2, m, o2, out, l) BY <2>2, <2>5 DEF Expects, IsLoop
  <2>7. Intercepted(c2, o2)
    <3>1. SUFFICES ASSUME o.kind = "try", o.arm \in {"body", "catch"}
                   PROVE  /\ c2[o.a].y = 0
                          /\ o.fin => \A p \in DOMAIN c2 :
                               c2[p].op = "RETURN" /\ c2[p].hs # <<>> /\ Top(c2[p].hs) = o.a
                                 => o2.ret /\ c2[p].h = o.h + 1
      BY <2>2 DEF Intercepted
    <3>2. o.a \in DOMAIN c BY <2>1, <3>1 DEF Expects, Waits
    <3>3. c2[o.a].y = 0 BY <2>1, <3>1, <3>2 DEF Extends, Intercepted
    <3>4. ASSUME o.fin, NEW p \in DOMAIN c2, c2[p].op = "RETURN", c2[p].hs # <<>>, Top(c2[p].hs) = o.a
          PROVE  o2.ret /\ c2[p].h = o.h + 1
      <4>1. CASE p \in DOMAIN c /\ c[p].op = "RETURN" /\ c2[p].h = c[p].h /\ c2[p].hs = c[p].hs
        <5>1. o.ret /\ c[p].h = o.h + 1 BY <2>1, <3>1, <3>4, <4>1 DEF Intercepted
        <5> QED BY <2>2, <4>1, <5>1
      <4>2. CASE c2[p].h = Len(ls) + 1 /\ c2[p].hs = Innermost(os).hs
        BY <2>3, <3>1, <3>4, <4>2
      <4> QED BY <3>4, <4>1, <4>2
    <3> QED BY <3>3, <3>4
  <2> QED BY <2>4, <2>6, <2>7 DEF o2
<1> HIDE DEF m
<1>11. Sound(c2, MarkOf(os2, ls), HolesIn(os2, lp)) BY <1>5, <1>7 DEF m
<1> QED BY <1>1, <1>2, <1>3, <1>4, <1>5, <1>10, <1>11 DEF Working

(* Statements like themselves.                                             *)
LEMMA SameStatements ==
  ASSUME NEW os \in Seq(Statement)
  PROVE  SameButReturns(os, os)
BY DEF SameButReturns

(* ReturnStmt notes the return in the statement it leaves.                 *)
LEMMA ReturnNoted ==
  ASSUME NEW os \in Seq(Statement), NEW i \in DOMAIN os, InBody(os[i])
  PROVE  LET os2 == [os EXCEPT ![i].ret = TRUE] IN SameButReturns(os, os2) /\ os2[i].ret
<1> DEFINE o2 == [os[i] EXCEPT !.ret = TRUE]
           os2 == [os EXCEPT ![i] = o2]
<1>1. os[i] \in Statement OBVIOUS
<1>2. /\ o2 \in Statement /\ o2.ret
      /\ o2.kind = os[i].kind /\ o2.arm = os[i].arm /\ o2.a = os[i].a /\ o2.b = os[i].b
      /\ o2.j = os[i].j /\ o2.jumps = os[i].jumps /\ o2.ctx = os[i].ctx
      /\ o2.fin = os[i].fin /\ o2.h = os[i].h /\ o2.d = os[i].d /\ o2.n = os[i].n
  BY <1>1 DEF Statement
<1> HIDE DEF o2
<1>3. /\ os2 \in Seq(Statement) /\ Len(os2) = Len(os) /\ DOMAIN os2 = DOMAIN os /\ os2[i] = o2
      /\ \A k \in DOMAIN os : k # i => os2[k] = os[k]
  BY <1>2
<1>4. os2 = [os EXCEPT ![i].ret = TRUE] BY DEF o2
<1> HIDE DEF os2
<1>5. ASSUME NEW k \in DOMAIN os
      PROVE  /\ os2[k].kind = os[k].kind /\ os2[k].arm = os[k].arm /\ os2[k].a = os[k].a
             /\ os2[k].b = os[k].b /\ os2[k].j = os[k].j /\ os2[k].jumps = os[k].jumps
             /\ os2[k].ctx = os[k].ctx /\ os2[k].fin = os[k].fin /\ os2[k].h = os[k].h
             /\ os2[k].d = os[k].d /\ os2[k].n = os[k].n
             /\ os2[k].ret = os[k].ret \/ (InBody(os[k]) /\ os2[k].ret)
  <2>1. CASE k = i BY <1>2, <1>3, <2>1
  <2>2. CASE k # i
    <3>1. os2[k] = os[k] BY <1>3, <2>2
    <3>2. os2[k].ret = os[k].ret BY <3>1
    <3>3. os2[k].ret = os[k].ret \/ (InBody(os[k]) /\ os2[k].ret) BY ONLY <3>2, Zenon
    <3> HIDE DEF os2
    <3> QED BY <3>1, <3>3
  <2> QED BY <2>1, <2>2
<1>6. SameButReturns(os, os2) BY <1>3, <1>5 DEF SameButReturns
<1> QED BY <1>2, <1>3, <1>4, <1>6

(* The invariant is kept by return.                                        *)
LEMMA ReturnCompiles == ASSUME Now, Tame, ReturnStmt PROVE Then
<1> DEFINE i1 == InsIn(Ctx, "CONSTANT", 0, 0, {}, Height)
           i2 == InsIn(Ctx, "RETURN", 0, 0, {}, Height + 1)
           c1 == Append(chunk, i1)
           c2 == Append(c1, i2)
           m == MarkIn(Height, Ctx)
<1>0. /\ Ctx \in Context /\ Ctx = Innermost(open) /\ Height \in Nat /\ Height = Len(locals)
      /\ Height + 1 \in Nat /\ open \in Seq(Statement) /\ Contexts(open)
      /\ Made(chunk, Height, Ctx, Holes) /\ chunk \in Seq(Instruction)
      /\ MarkOf(open, locals) = m
  BY NowIs
<1>1. /\ locals' = locals /\ loopStack' = loopStack /\ scopeDepth' = scopeDepth
      /\ open' = IF Interceptor = 0 THEN open ELSE [open EXCEPT ![Interceptor].ret = TRUE]
      /\ chunk' = chunk \o <<i1, i2>>
  BY DEF ReturnStmt, Ins
<1>2. /\ Ctx.rf = 0
      /\ Interceptor # 0 => Height = chunk[open[Interceptor].a].h
  BY DEF ReturnStmt, Risky, Tame, Harmful
<1>3. chunk' = c2
  <2>1. i1 \in Instruction /\ i2 \in Instruction BY <1>0, OpsAre, InsInIs DEF Ops
  <2> HIDE DEF i1, i2
  <2> QED BY <1>0, <1>1, <2>1, Cat2
<1>4. Made(c1, Height + 1, Ctx, Holes) BY <1>0, AddConstant
<1>5. /\ Grown(chunk, m, c1, MarkIn(Height + 1, Ctx), Holes) /\ c1 \in Seq(Instruction)
      /\ Sound(c1, MarkIn(Height + 1, Ctx), Holes) /\ MarkIn(Height + 1, Ctx) \in Mark /\ m \in Mark
  BY <1>0, <1>4, MarkInIs DEF Made, Grown
<1> HIDE DEF c1, m
<1>6. \/ /\ Interceptor = 0 /\ Ctx.hs = <<>>
      \/ \E i \in DOMAIN open :
           /\ InBody(open[i]) /\ Ctx.hs # <<>> /\ Top(Ctx.hs) = open[i].a
           /\ Interceptor = IF open[i].fin THEN i ELSE 0
  BY <1>0, InterceptorIs DEF Now
<1>7. Ctx.hs # <<>> => c1[Top(Ctx.hs)].y = 0
  <2> SUFFICES ASSUME Ctx.hs # <<>> PROVE c1[Top(Ctx.hs)].y = 0 OBVIOUS
  <2>1. PICK i \in DOMAIN open : InBody(open[i]) /\ Top(Ctx.hs) = open[i].a BY <1>6
  <2>2. Intercepted(chunk, open[i]) BY <2>1, WorkingIs DEF Now
  <2>3. open[i].a \in DOMAIN chunk BY <2>1, TryThere DEF Now, InBody
  <2>4. chunk[open[i].a].y = 0 BY <2>1, <2>2 DEF Intercepted, InBody
  <2> QED BY <1>5, <2>1, <2>3, <2>4 DEF Grown, Extends
<1>8. /\ Sound(c2, m, Holes) /\ Extends(c1, MarkIn(Height + 1, Ctx), c2, m) /\ c2 \in Seq(Instruction)
  <2>1. Height + 1 >= 1 BY <1>0
  <2>2. LET d == Append(c1, InsIn(Ctx, "RETURN", 0, 0, {}, Height + 1)) IN
         /\ Sound(d, MarkIn(Height, Ctx), Holes)
         /\ Extends(c1, MarkIn(Height + 1, Ctx), d, MarkIn(Height, Ctx))
         /\ d \in Seq(Instruction)
    BY <1>0, <1>2, <1>5, <1>7, <2>1, ReturnAdded
  <2> QED BY <2>2 DEF m
<1>9. Extends(chunk, m, c2, m)
  <2>1. Extends(chunk, m, c1, MarkIn(Height + 1, Ctx)) BY <1>5 DEF Grown
  <2> HIDE DEF c2
  <2> QED BY <1>5, <1>8, <2>1, ExtendsTwice
<1>10. ASSUME NEW p \in DOMAIN c2, c2[p].op = "RETURN"
       PROVE  \/ p \in DOMAIN chunk /\ chunk[p].op = "RETURN" /\ c2[p].h = chunk[p].h
                   /\ c2[p].hs = chunk[p].hs
              \/ c2[p].h = Len(locals) + 1 /\ c2[p].hs = Innermost(open).hs
  <2>1. i2.h = Height + 1 /\ i2.hs = Ctx.hs BY DEF InsIn
  <2> HIDE DEF i2
  <2>2. CASE p = Len(c1) + 1
    <3>1. c2[p] = i2 BY <1>5, <2>2
    <3> QED BY <1>0, <2>1, <3>1
  <2>3. CASE p # Len(c1) + 1
    <3>1. p \in DOMAIN c1 /\ c2[p] = c1[p] BY <1>5, <2>3
    <3> QED BY <1>5, <1>10, <3>1 DEF Grown, NoNewReturn
  <2> QED BY <2>2, <2>3
<1>11. /\ SameButReturns(open, open')
       /\ \A i \in DOMAIN open :
            /\ open[i].kind = "try" /\ open[i].fin
            /\ Innermost(open).hs # <<>> /\ Top(Innermost(open).hs) = open[i].a
            => open'[i].ret /\ Len(locals) = open[i].h
  <2>1. CASE Interceptor = 0 /\ Ctx.hs = <<>>
    BY <1>0, <1>1, <2>1, SameStatements
  <2>2. CASE \E i \in DOMAIN open :
           /\ InBody(open[i]) /\ Ctx.hs # <<>> /\ Top(Ctx.hs) = open[i].a
           /\ Interceptor = IF open[i].fin THEN i ELSE 0
    <3>1. PICK i \in DOMAIN open :
           /\ InBody(open[i]) /\ Ctx.hs # <<>> /\ Top(Ctx.hs) = open[i].a
           /\ Interceptor = IF open[i].fin THEN i ELSE 0
      BY <2>2
    <3>2. open[i].kind = "try" BY <3>1 DEF InBody
    <3>3. \A k \in DOMAIN open : open[k].kind = "try" /\ open[k].a = open[i].a => k = i
      BY <1>0, <3>2 DEF Contexts
    <3>4. CASE ~open[i].fin BY <1>0, <1>1, <3>1, <3>3, <3>4, SameStatements
    <3>5. CASE open[i].fin
      <4>1. i # 0 /\ Interceptor = i BY <1>0, <3>1, <3>5
      <4>2. open' = [open EXCEPT ![i].ret = TRUE] BY <1>1, <4>1
      <4>3. SameButReturns(open, open') /\ open'[i].ret BY <1>0, <3>1, <4>2, ReturnNoted
      <4>4. Height = open[i].h
        <5>1. chunk[open[i].a].h = open[i].h BY <3>2, TryThere DEF Now
        <5> QED BY <1>2, <4>1, <5>1
      <4> QED BY <1>0, <3>1, <3>3, <4>3, <4>4
    <3> QED BY <3>4, <3>5
  <2> QED BY <1>6, <2>1, <2>2
<1> HIDE DEF c2
<1>12. Working(c2, open', locals, scopeDepth, loopStack)
  <2>1. Working(chunk, open, locals, scopeDepth, loopStack) BY DEF Now
  <2>2. Sound(c2, MarkOf(open, locals), HolesIn(open, loopStack)) BY <1>0, <1>8 DEF Holes
  <2>3. Extends(chunk, MarkOf(open, locals), c2, MarkOf(open, locals)) BY <1>0, <1>9
  <2> QED BY <1>10, <1>11, <2>1, <2>2, <2>3, ReturnLeft
<1> QED BY <1>1, <1>3, <1>12 DEF Then

----------------------------------------------------------------------------
(* break and continue.                                                     *)

(* Contexts are compared by their handlers and their finally block only.   *)
LEMMA SameContext ==
  ASSUME NEW x, NEW y, x.hs = y.hs, x.rf = y.rf
  PROVE  /\ \A c, p, op, h : Waits(c, p, op, h, x) => Waits(c, p, op, h, y)
         /\ \A c, m, q, h : Begun(c, m, q, h, x) => Begun(c, m, q, h, y)
         /\ \A c, h : Guarded(c, x, h) => Guarded(c, y, h)
         /\ \A h : MarkIn(h, x) = MarkIn(h, y)
BY DEF Waits, Begun, Guarded, MarkIn

(* The innermost loop, and the locals a jump to it pops.                   *)
LEMMA LoopHere ==
  ASSUME Now, loopStack # <<>>
  PROVE  LET o == open[InnerLoop]
             l == Last(loopStack)
         IN  /\ InnerLoop \in DOMAIN open /\ IsLoop(o) /\ o.n + 1 = Len(loopStack)
             /\ o \in Statement /\ l \in LoopRecord /\ LoopOK(o, l, locals)
             /\ l.count \in Nat /\ l.count <= Height /\ Height \in Nat
             /\ Expects(chunk, MarkIn(Height, Ctx), o, Outer(open, InnerLoop), l)
             /\ ~CrossesTry => /\ Ctx.hs = Outer(open, InnerLoop).hs
                               /\ Ctx.rf = Outer(open, InnerLoop).rf
<1> DEFINE I == InnerLoop
           o == open[I]
           l == Last(loopStack)
<1>0. /\ open \in Seq(Statement) /\ locals \in Seq(Local) /\ scopeDepth \in Nat
      /\ loopStack \in Seq(LoopRecord) /\ Height \in Nat /\ Height = Len(locals)
      /\ Nesting(open, locals, scopeDepth, loopStack) /\ Contexts(open) /\ Ctx = Innermost(open)
      /\ MarkOf(open, locals) = MarkIn(Height, Ctx)
  BY NowIs
<1>1. /\ I \in DOMAIN open /\ IsLoop(o) /\ o.n + 1 = Len(loopStack)
      /\ \A j \in (I + 1)..Len(open) : open[j].kind \notin LoopKinds
  BY InnerLoopIs DEF Now
<1> HIDE DEF I
<1>2. /\ o \in Statement /\ l \in LoopRecord /\ LoopOK(o, l, locals) /\ Split(locals, o.d, o.h)
  BY <1>0, <1>1, NestingIs DEF Last
<1>3. Expects(chunk, MarkIn(Height, Ctx), o, Outer(open, I), l)
  <2>1. Expects(chunk, MarkOf(open, locals), o, Outer(open, I), loopStack[o.n + 1])
    BY <1>1, WorkingIs DEF Now
  <2> QED BY <1>0, <1>1, <2>1 DEF Last
<1>4. ~CrossesTry => Ctx.hs = Outer(open, I).hs /\ Ctx.rf = Outer(open, I).rf
  <2> SUFFICES ASSUME ~CrossesTry PROVE Ctx.hs = Outer(open, I).hs /\ Ctx.rf = Outer(open, I).rf
    OBVIOUS
  <2>1. \A j \in (I + 1)..Len(open) : ~Crosses(open[j]) BY DEF CrossesTry, Crosses, I
  <2>2. Ctx.hs = o.ctx.hs /\ Ctx.rf = o.ctx.rf BY <1>0, <1>1, <2>1, InnermostIs
  <2>3. o.kind # "try" BY <1>1 DEF IsLoop, LoopKinds
  <2>4. o.ctx = Outer(open, I) BY <1>0, <1>1, <2>3 DEF Contexts, Within
  <2> QED BY <2>2, <2>4
<1> HIDE DEF o, l
<1>5. l.count \in Nat /\ l.count <= Height
  <2>1. o.kind \in {"while", "do", "for", "foreach", "switch"} /\ l.count \in Nat
    BY <1>1, <1>2, LoopIs, ExtraIs
  <2>2. CASE o.kind \in {"while", "for", "foreach", "switch"}
    <3>1. Split(locals, o.d + 1, l.count) BY <1>2, <2>2 DEF LoopOK
    <3> QED BY <1>0, <2>1, <3>1 DEF Split
  <2>3. CASE o.kind = "do"
    <3>1. l.count = o.h BY <1>2, <2>3 DEF LoopOK
    <3>2. o.h <= Len(locals) BY <1>2 DEF Split
    <3> QED BY <1>0, <2>1, <3>1, <3>2
  <2> QED BY <2>1, <2>2, <2>3
<1> QED BY <1>0, <1>1, <1>2, <1>3, <1>4, <1>5 DEF I, o, l

(* The locals declared since the loop registered are popped.               *)
LEMMA PoppedToLoop ==
  ASSUME Now, loopStack # <<>>
  PROVE  LET c == chunk \o Pops(LoopPops, Height) IN
         Made(c, Last(loopStack).count, Ctx, Holes)
<1> DEFINE k == Last(loopStack).count
<1>1. k \in Nat /\ k <= Height /\ Height \in Nat BY LoopHere
<1>2. LoopPops = Height - k /\ LoopPops \in Nat /\ LoopPops <= Height /\ Height - LoopPops = k
  BY <1>1 DEF LoopPops
<1>3. Made(chunk, Height, Ctx, Holes) BY NowIs
<1> HIDE DEF k
<1>4. Made(chunk \o Pops(LoopPops, Height), Height - LoopPops, Ctx, Holes) BY <1>2, <1>3, AddPops
<1> QED BY <1>2, <1>4 DEF k

(* A jump left to the innermost loop to patch.                             *)
LEMMA JumpLeft ==
  ASSUME Now, loopStack # <<>>, ~CrossesTry,
         NEW c, c = chunk \o Pops(LoopPops, Height), NEW l2 \in LoopRecord,
         LoopOK(open[InnerLoop], l2, locals), l2.count = Last(loopStack).count,
         Last(loopStack).breaks \subseteq l2.breaks, Last(loopStack).continues \subseteq l2.continues,
         l2.breaks \cup l2.continues
           = Last(loopStack).breaks \cup Last(loopStack).continues \cup {Here(c)}
  PROVE  Working(Append(c, Ins("JUMP", 0, 0, l2.count)), open, locals, scopeDepth,
                 SetLast(loopStack, l2))
<1> DEFINE l == Last(loopStack)
           I == InnerLoop
           c2 == Append(c, InsIn(Ctx, "JUMP", 0, 0, {}, l2.count))
           V == Holes \cup {Here(c)}
           out == Outer(open, InnerLoop)
<1>1. Made(c, l2.count, Ctx, Holes) BY PoppedToLoop
<1>2. /\ I \in DOMAIN open /\ IsLoop(open[I]) /\ open[I].n + 1 = Len(loopStack) /\ Height \in Nat
      /\ Ctx.hs = out.hs /\ Ctx.rf = out.rf
  BY LoopHere
<1>3. /\ Made(c2, Height, Ctx, V) /\ Waits(c2, Here(c), "JUMP", l2.count, Ctx)
  BY <1>1, <1>2, AddJump
<1>4. Waits(c2, Here(c), "JUMP", l.count, out) BY <1>2, <1>3, SameContext
<1>5. SameLoop(c2, l, l2, out) BY <1>4 DEF SameLoop
<1>6. Grown(chunk, MarkOf(open, locals), c2, MarkOf(open, locals), V) BY <1>3, NowIs DEF Made
<1>7. V \subseteq HolesIn(open, loopStack) \cup l2.breaks \cup l2.continues BY DEF Holes
<1>8. c2 = Append(c, Ins("JUMP", 0, 0, l2.count)) BY DEF Ins
<1> HIDE DEF c2, V
<1>9. Working(c2, open, locals, scopeDepth, SetLast(loopStack, l2))
  <2>1. Working(chunk, open, locals, scopeDepth, loopStack) BY DEF Now
  <2> QED BY <1>2, <1>5, <1>6, <1>7, <2>1, LeftLoop
<1> QED BY <1>8, <1>9

(* The invariant is kept by break.                                         *)
LEMMA BreakCompiles == ASSUME Now, Tame, Break PROVE Then
<1> DEFINE c == chunk \o Pops(LoopPops, Height)
           l == Last(loopStack)
           l2 == [l EXCEPT !.breaks = @ \cup {Here(c)}]
           o == open[InnerLoop]
<1>1. /\ open' = open /\ locals' = locals /\ scopeDepth' = scopeDepth
      /\ loopStack # <<>> /\ ~CrossesTry /\ o.kind # "foreach"
      /\ chunk' = Append(c, Ins("JUMP", 0, 0, l.count))
      /\ loopStack' = SetLast(loopStack, l2)
  BY DEF Break, Risky, Tame, Harmful
<1>2. /\ o \in Statement /\ l \in LoopRecord /\ LoopOK(o, l, locals) BY <1>1, LoopHere
<1>3. Here(c) \in Nat BY <1>1, PoppedToLoop DEF Made, Here
<1> HIDE DEF c, l, o
<1>4. /\ l2 \in LoopRecord /\ l2.count = l.count /\ l2.step = l.step /\ l2.each = l.each
      /\ l2.iter = l.iter /\ l2.continues = l.continues /\ l2.breaks = l.breaks \cup {Here(c)}
  BY <1>2, <1>3 DEF LoopRecord
<1> HIDE DEF l2
<1>5. LoopOK(o, l2, locals) BY <1>1, <1>2, <1>4 DEF LoopOK
<1>6. Working(Append(c, Ins("JUMP", 0, 0, l2.count)), open, locals, scopeDepth, SetLast(loopStack, l2))
  <2>1. /\ l.breaks \subseteq l2.breaks /\ l.continues \subseteq l2.continues
        /\ l2.breaks \cup l2.continues = l.breaks \cup l.continues \cup {Here(c)}
    BY <1>4
  <2> QED BY <1>1, <1>4, <1>5, <2>1, JumpLeft DEF c, l, o
<1> QED BY <1>1, <1>4, <1>6 DEF Then

(* The invariant is kept by continue.                                      *)
LEMMA ContinueCompiles == ASSUME Now, Tame, Continue PROVE Then
<1> DEFINE c == chunk \o Pops(LoopPops, Height)
           l == Last(loopStack)
           l2 == [l EXCEPT !.continues = @ \cup {Here(c)}]
           o == open[InnerLoop]
           out == Outer(open, InnerLoop)
<1>1. /\ open' = open /\ locals' = locals /\ scopeDepth' = scopeDepth
      /\ loopStack # <<>> /\ ~CrossesTry /\ o.kind # "switch"
      /\ IF l.step = 0
           THEN /\ chunk' = Append(c, Ins("JUMP", 0, 0, l.count))
                /\ loopStack' = SetLast(loopStack, l2)
           ELSE /\ chunk' = Append(c, Ins("LOOP", l.step, 0, l.count))
                /\ UNCHANGED loopStack
  BY DEF Continue, Risky, Tame, Harmful
<1>2. /\ o \in Statement /\ l \in LoopRecord /\ LoopOK(o, l, locals) /\ IsLoop(o)
      /\ Expects(chunk, MarkIn(Height, Ctx), o, out, l)
      /\ Ctx.hs = out.hs /\ Ctx.rf = out.rf /\ l.count \in Nat /\ Height \in Nat
  BY <1>1, LoopHere
<1>3. Made(c, l.count, Ctx, Holes) /\ Here(c) \in Nat BY <1>1, PoppedToLoop DEF Made, Here
<1>4. o.kind \in {"while", "foreach"} =>
        o.a # 0 /\ l.step = o.a /\ Begun(chunk, MarkIn(Height, Ctx), o.a, l.count, out)
  <2> SUFFICES ASSUME o.kind \in {"while", "foreach"}
               PROVE  o.a # 0 /\ l.step = o.a /\ Begun(chunk, MarkIn(Height, Ctx), o.a, l.count, out)
    OBVIOUS
  <2>1. l.step = o.a BY <1>2 DEF LoopOK
  <2>2. /\ chunk \in Seq(Instruction) /\ MarkIn(Height, Ctx) \in Mark
    BY NowIs, MarkInIs
  <2> HIDE DEF o, l, out
  <2>3. Begun(chunk, MarkIn(Height, Ctx), o.a, l.count, out)
    <3>1. CASE o.kind = "while" BY <1>2, <3>1 DEF Expects, LoopOK
    <3>2. CASE o.kind = "foreach"
      <4>1. Waits(chunk, o.a, "FOR_ITER", l.count, out) BY <1>2, <3>2 DEF Expects
      <4>2. o.a \in DOMAIN chunk BY <4>1 DEF Waits
      <4> DEFINE m == MarkIn(Height, Ctx)
      <4>4. m \in Mark BY <2>2
      <4> HIDE DEF m
      <4>5. o.a \in DOMAIN Ext(chunk, m) /\ Ext(chunk, m)[o.a] = chunk[o.a]
        <5>1. /\ DOMAIN chunk = 1..Len(chunk) /\ DOMAIN Ext(chunk, m) = 1..(Len(chunk) + 1)
              /\ Len(chunk) \in Nat /\ \A p \in DOMAIN chunk : Ext(chunk, m)[p] = chunk[p]
          BY <2>2, <4>4, ExtIs
        <5> QED BY <4>2, <5>1
      <4>3. /\ o.a \in DOMAIN Ext(chunk, MarkIn(Height, Ctx))
            /\ Ext(chunk, MarkIn(Height, Ctx))[o.a] = chunk[o.a]
        BY <4>5 DEF m
      <4> QED BY <4>1, <4>3 DEF Waits, Begun
    <3> QED BY <3>1, <3>2
  <2>4. o.a # 0 BY <2>2, <2>3, ExtIs DEF Begun
  <2> QED BY <2>1, <2>3, <2>4
<1> HIDE DEF c, l, o, out
<1>5. CASE l.step = 0
  <2>1. o.kind \notin {"while", "foreach", "switch"} BY <1>1, <1>4, <1>5
  <2>2. /\ l2 \in LoopRecord /\ l2.count = l.count /\ l2.step = l.step /\ l2.each = l.each
        /\ l2.iter = l.iter /\ l2.breaks = l.breaks /\ l2.continues = l.continues \cup {Here(c)}
    BY <1>2, <1>3 DEF LoopRecord
  <2> HIDE DEF l2
  <2>3. LoopOK(o, l2, locals) BY <1>2, <2>1, <2>2 DEF LoopOK
  <2>4. Working(Append(c, Ins("JUMP", 0, 0, l2.count)), open, locals, scopeDepth,
                SetLast(loopStack, l2))
    <3>1. /\ l.breaks \subseteq l2.breaks /\ l.continues \subseteq l2.continues
          /\ l2.breaks \cup l2.continues = l.breaks \cup l.continues \cup {Here(c)}
      BY <2>2
    <3> QED BY <1>1, <2>2, <2>3, <3>1, JumpLeft DEF c, l, o
  <2> QED BY <1>1, <1>5, <2>2, <2>4 DEF Then
<1>6. CASE l.step # 0
  <2>1. o.kind \in {"while", "foreach"} BY <1>2, <1>6, ExtraIs DEF LoopOK
  <2>2. l.step \in Nat BY <1>2, LoopIs
  <2>3. Begun(chunk, MarkIn(Height, Ctx), l.step, l.count, Ctx) BY <1>2, <1>4, <2>1, SameContext
  <2>4. Begun(c, MarkIn(l.count, Ctx), l.step, l.count, Ctx) BY <1>3, <2>3, MadeKeeps DEF Keeps
  <2>5. Made(Append(c, InsIn(Ctx, "LOOP", l.step, 0, {}, l.count)), Height, Ctx, Holes)
    BY <1>2, <1>3, <2>2, <2>4, AddLoop
  <2>6. chunk' = Append(c, InsIn(Ctx, "LOOP", l.step, 0, {}, l.count)) /\ loopStack' = loopStack
    BY <1>1, <1>6 DEF Ins
  <2>7. Working(Append(c, InsIn(Ctx, "LOOP", l.step, 0, {}, l.count)), open, locals, scopeDepth, loopStack)
    BY <2>5, Simple
  <2> QED BY <1>1, <2>6, <2>7 DEF Then
<1> QED BY <1>5, <1>6

----------------------------------------------------------------------------
(* Statements that begin.                                                  *)

Kinded == {"if"} \cup LoopKinds \cup {"try"}
Armed == {"then", "else", "cond", "lt", "body", "case", "default", "catch", "finally"}

(* The activation o of the statement being compiled.                       *)
Fresh(o, kind, arm, a, b, j) ==
  /\ o \in Statement /\ o.kind = kind /\ o.arm = arm /\ o.a = a /\ o.b = b /\ o.j = j
  /\ o.jumps = {} /\ o.ctx = Ctx /\ o.fin = FALSE /\ o.ret = FALSE
  /\ o.h = Height /\ o.d = scopeDepth /\ o.n = Len(loopStack)

(* The activation of a statement that begins.                              *)
LEMMA ActivationIs ==
  ASSUME Now, NEW kind \in Kinded, NEW arm \in Armed, NEW a \in Nat, NEW b \in Nat, NEW j \in Nat
  PROVE  Fresh(Activation(kind, arm, a, b, j), kind, arm, a, b, j)
<1>1. Ctx \in Context /\ Height \in Nat /\ scopeDepth \in Nat /\ Len(loopStack) \in Nat BY NowIs
<1> QED BY <1>1 DEF Fresh, Activation, Statement, Kinded, Armed

(* Nothing is declared deeper than the current scope.                      *)
LEMMA AllBelow ==
  ASSUME Now, NEW d \in Int, d >= scopeDepth
  PROVE  /\ Deeper(locals, locals, scopeDepth + 1) /\ Split(locals, d, Height)
         /\ \A k \in DOMAIN locals : locals[k].depth <= d
<1>1. /\ locals \in Seq(Local) /\ scopeDepth \in Nat /\ Height = Len(locals)
      /\ DOMAIN locals = 1..Height /\ Height \in Nat
      /\ \A k \in DOMAIN locals : locals[k].depth <= scopeDepth
  BY NowIs DEF Nesting
<1>2. \A k \in DOMAIN locals : locals[k].depth \in Nat
  <2> TAKE k \in DOMAIN locals
  <2>1. locals[k] \in Local BY <1>1
  <2> QED BY <2>1 DEF Local
<1>3. \A k \in DOMAIN locals : locals[k].depth <= d BY <1>1, <1>2
<1>4. Split(locals, d, Height) BY <1>1, <1>3 DEF Split
<1>5. Deeper(locals, locals, scopeDepth + 1) BY <1>1 DEF Deeper
<1> QED BY <1>3, <1>4, <1>5

(* A local the statement declares for itself or for its block.             *)
LEMMA OneLocal ==
  ASSUME Now, NEW d \in Nat, NEW named \in BOOLEAN
  PROVE  LET ls == addLocal(locals, scopeDepth + 1, d, named) IN
         /\ Deeper(locals, ls, scopeDepth + 1) /\ Len(ls) = Height + 1 /\ ls \in Seq(Local)
         /\ Split(ls, scopeDepth + 1, Height + 1)
         /\ \A k \in DOMAIN ls : ls[k].depth <= scopeDepth + 1
<1> DEFINE l == [depth |-> scopeDepth + 1, d |-> d, named |-> named]
           ls == Append(locals, l)
<1>1. /\ locals \in Seq(Local) /\ scopeDepth \in Nat /\ Height = Len(locals) /\ Height \in Nat
      /\ \A k \in DOMAIN locals : locals[k].depth <= scopeDepth + 1
  <2>1. locals \in Seq(Local) /\ scopeDepth \in Nat /\ Height = Len(locals) /\ Height \in Nat BY NowIs
  <2>2. scopeDepth + 1 \in Int /\ scopeDepth + 1 >= scopeDepth BY <2>1
  <2>3. \A k \in DOMAIN locals : locals[k].depth <= scopeDepth + 1 BY <2>2, AllBelow
  <2> QED BY <2>1, <2>3
<1>2. l \in Local /\ l.depth = scopeDepth + 1 BY <1>1 DEF Local
<1> HIDE DEF l
<1>3. /\ ls \in Seq(Local) /\ Len(ls) = Height + 1 /\ DOMAIN ls = 1..(Height + 1)
      /\ ls[Height + 1] = l /\ DOMAIN locals = 1..Height /\ \A k \in 1..Height : ls[k] = locals[k]
  <2>1. /\ ls \in Seq(Local) /\ Len(ls) = Len(locals) + 1 /\ DOMAIN ls = 1..(Len(locals) + 1)
        /\ DOMAIN locals = 1..Len(locals) /\ ls[Len(locals) + 1] = l
        /\ \A k \in 1..Len(locals) : ls[k] = locals[k]
    BY <1>1, <1>2, AppendIs
  <2> QED BY <1>1, <2>1
<1>4. addLocal(locals, scopeDepth + 1, d, named) = ls BY DEF addLocal, l
<1> HIDE DEF ls
<1>5. \A k \in DOMAIN ls : k = Height + 1 \/ k \in DOMAIN locals BY <1>1, <1>3
<1>6. \A k \in DOMAIN ls : ls[k].depth <= scopeDepth + 1
  <2> TAKE k \in DOMAIN ls
  <2>1. CASE k = Height + 1 BY <1>1, <1>2, <1>3, <2>1
  <2>2. CASE k \in DOMAIN locals BY <1>1, <1>3, <2>2
  <2> QED BY <1>5, <2>1, <2>2
<1>7. Split(ls, scopeDepth + 1, Height + 1) BY <1>3, <1>6 DEF Split
<1>8. Deeper(locals, ls, scopeDepth + 1) BY <1>1, <1>2, <1>3, <1>5 DEF Deeper
<1> QED BY <1>3, <1>4, <1>6, <1>7, <1>8

(* A statement other than try opens its block.                             *)
LEMMA BlockOpened ==
  ASSUME Now, NEW kind, NEW arm, NEW a, NEW b, NEW j, NEW o, Fresh(o, kind, arm, a, b, j), kind # "try",
         NEW ls, NEW sd, sd = scopeDepth + Extra(o),
         Deeper(locals, ls, scopeDepth + 1), \A k \in DOMAIN ls : ls[k].depth <= sd,
         kind = "do" => ls = locals,
         NEW l \in LoopRecord, IsLoop(o) => LoopOK(o, l, ls),
         NEW c, NEW h, h = Len(ls), NEW V, Made(c, h, Ctx, V),
         V \subseteq Holes \cup HolesOf(o),
         Expects(c, MarkIn(h, Ctx), o, Ctx, l)
  PROVE  Working(c, Append(open, o), ls, sd, IF IsLoop(o) THEN Append(loopStack, l) ELSE loopStack)
<1>1. /\ o \in Statement /\ o.kind = kind /\ o.ctx = Ctx /\ kind # "try"
      /\ o.h = Height /\ o.d = scopeDepth /\ o.n = Len(loopStack)
  BY DEF Fresh
<1>2. /\ Ctx = Innermost(open) /\ Height = Len(locals) /\ scopeDepth \in Nat
      /\ MarkOf(open, locals) = MarkIn(Height, Ctx)
  BY NowIs
<1>3. Extra(o) \in Nat BY <1>1, ExtraIs
<1>4. Grown(chunk, MarkOf(open, locals), c, MarkIn(h, Ctx), V) BY <1>2 DEF Made
<1>5. /\ Within(o, Innermost(open)) /\ Intercepted(c, o) /\ ~InBody(o)
  BY <1>1, <1>2 DEF Within, Intercepted, InBody
<1>6. Working(chunk, open, locals, scopeDepth, loopStack) BY DEF Now
<1>7. /\ o.h = Len(locals) /\ sd \in Nat
      /\ InBody(o) \/ o.kind = "do" => Len(ls) = Len(locals)
      /\ o.kind = "try" => o.a \notin DOMAIN chunk
      /\ V \subseteq HolesIn(open, loopStack) \cup HolesOf(o)
      /\ Grown(chunk, MarkOf(open, locals), c, MarkIn(Len(ls), o.ctx), V)
      /\ Expects(c, MarkIn(Len(ls), o.ctx), o, Innermost(open), l)
  BY <1>1, <1>2, <1>3, <1>4, <1>5 DEF Holes
<1> QED BY <1>1, <1>5, <1>6, <1>7, Opened

(* Addition keeps waiting jumps, beginnings and guards.                    *)
LEMMA OnKeeps ==
  ASSUME NEW c, NEW h, NEW ctx, NEW c2, NEW h2, NEW ctx2, NEW d, On(c, h, ctx, c2, h2, ctx2, d)
  PROVE  /\ \A p, op, k, x : Waits(c, p, op, k, x) => Waits(c2, p, op, k, x)
         /\ \A q, k, x : Begun(c, MarkIn(h, ctx), q, k, x) => Begun(c2, MarkIn(h2, ctx2), q, k, x)
         /\ \A k, x : Guarded(c, x, k) => Guarded(c2, x, k)
BY DEF On, Keeps

(* The holes of a statement, by its kind.                                  *)
LEMMA HolesOfIs ==
  ASSUME NEW o
  PROVE  /\ o.kind = "if" /\ o.arm = "then" => HolesOf(o) = o.jumps \cup {o.j}
         /\ o.kind = "if" /\ o.arm # "then" => HolesOf(o) = o.jumps
         /\ o.kind = "while" => HolesOf(o) = {o.j}
         /\ o.kind = "for" => HolesOf(o) = {o.j} \ {0}
         /\ o.kind = "foreach" => HolesOf(o) = {o.a}
         /\ o.kind = "switch" /\ o.arm = "case" => HolesOf(o) = {o.j}
         /\ o.kind = "switch" /\ o.arm # "case" => HolesOf(o) = {}
         /\ o.kind = "do" => HolesOf(o) = {}
         /\ o.kind = "try" /\ o.arm = "body" => HolesOf(o) = {o.a}
         /\ o.kind = "try" /\ o.arm = "catch" => HolesOf(o) = o.jumps \cup {o.b, o.j}
         /\ o.kind = "try" /\ o.arm = "finally" => HolesOf(o) = {}
<1>1. o.kind = "if" => HolesOf(o) = o.jumps \cup (IF o.arm = "then" THEN {o.j} ELSE {})
  BY DEF HolesOf, InBody
<1>2. /\ o.kind = "while" => HolesOf(o) = {o.j}
      /\ o.kind = "for" => HolesOf(o) = {o.j} \ {0}
      /\ o.kind = "foreach" => HolesOf(o) = {o.a}
      /\ o.kind = "do" => HolesOf(o) = {}
  BY DEF HolesOf, InBody
<1>3. /\ o.kind = "switch" /\ o.arm = "case" => HolesOf(o) = {o.j}
      /\ o.kind = "switch" /\ o.arm # "case" => HolesOf(o) = {}
  BY DEF HolesOf, InBody
<1>4. /\ o.kind = "try" /\ o.arm = "body" => HolesOf(o) = {o.a}
      /\ o.kind = "try" /\ o.arm = "catch" => HolesOf(o) = o.jumps \cup {o.b, o.j}
      /\ o.kind = "try" /\ o.arm = "finally" => HolesOf(o) = {}
  BY DEF HolesOf, InBody
<1> QED BY <1>1, <1>2, <1>3, <1>4

(* The invariant is kept by the beginning of if.                           *)
LEMMA IfOpenCompiles == ASSUME Now, IfOpen PROVE Then
<1> DEFINE j == Len(chunk) + 2
           o == Activation("if", "then", 0, 0, j)
           c == chunk \o Condition(Height)
           V == Holes \cup {j}
<1>0. /\ Ctx \in Context /\ Height \in Nat /\ Len(chunk) \in Nat /\ scopeDepth \in Nat
      /\ Height = Len(locals) /\ Made(chunk, Height, Ctx, Holes)
  BY NowIs
<1>1. /\ open' = Append(open, o) /\ locals' = locals /\ loopStack' = loopStack
      /\ scopeDepth' = scopeDepth + 1 /\ chunk' = c
  BY DEF IfOpen
<1>2. "if" \in Kinded /\ "then" \in Armed /\ 0 \in Nat /\ j \in Nat BY <1>0 DEF Kinded, Armed
<1>3. Made(c, Height, Ctx, V) /\ Waits(c, j, "JUMP_IF_FALSE", Height + 1, Ctx) BY <1>0, AddCondition
<1> HIDE DEF c, V, j
<1>4. Fresh(o, "if", "then", 0, 0, j) BY <1>2, ActivationIs
<1> HIDE DEF o
<1>5. /\ o.kind = "if" /\ o.arm = "then" /\ o.j = j /\ o.jumps = {} /\ o.h = Height /\ o \in Statement
  BY <1>4 DEF Fresh
<1>6. ~IsLoop(o) /\ Extra(o) = 1 BY <1>5, ExtraIs DEF IsLoop, LoopKinds
<1>7. HolesOf(o) = {j} BY <1>5, HolesOfIs
<1>8. Loop(0, Height, FALSE, 0) \in LoopRecord BY <1>0 DEF Loop, LoopRecord
<1>9. Expects(c, MarkIn(Height, Ctx), o, Ctx, Loop(0, Height, FALSE, 0)) BY <1>3, <1>5, <1>6 DEF Expects
<1>10. V \subseteq Holes \cup HolesOf(o) BY <1>7 DEF V
<1>11. /\ Deeper(locals, locals, scopeDepth + 1)
       /\ \A k \in DOMAIN locals : locals[k].depth <= scopeDepth + 1
  <2>1. scopeDepth + 1 \in Int /\ scopeDepth + 1 >= scopeDepth BY <1>0
  <2> QED BY <2>1, AllBelow
<1>12. Working(c, Append(open, o), locals, scopeDepth + 1, loopStack)
  <2>1. scopeDepth + 1 = scopeDepth + Extra(o) BY <1>6
  <2>2. "if" # "try" /\ ("if" = "do" => locals = locals) /\ Height = Len(locals) BY <1>0
  <2> HIDE DEF o
  <2>3. Working(c, Append(open, o), locals, scopeDepth + 1,
                IF IsLoop(o) THEN Append(loopStack, Loop(0, Height, FALSE, 0)) ELSE loopStack)
    BY <1>3, <1>4, <1>6, <1>8, <1>9, <1>10, <1>11, <2>1, <2>2, BlockOpened
  <2> QED BY <1>6, <2>3
<1> QED BY <1>1, <1>12 DEF Then

(* The invariant is kept by the beginning of do-while.                     *)
LEMMA DoOpenCompiles == ASSUME Now, DoOpen PROVE Then
<1> DEFINE o == Activation("do", "body", Here(chunk), 0, 0)
           l == Loop(0, Height, FALSE, 0)
<1>0. /\ Ctx \in Context /\ Height \in Nat /\ Len(chunk) \in Nat /\ scopeDepth \in Nat
      /\ Height = Len(locals) /\ Made(chunk, Height, Ctx, Holes) /\ Here(chunk) \in Nat
  BY NowIs DEF Here
<1>1. /\ open' = Append(open, o) /\ locals' = locals /\ loopStack' = Append(loopStack, l)
      /\ scopeDepth' = scopeDepth + 1 /\ chunk' = chunk
  BY DEF DoOpen
<1>2. "do" \in Kinded /\ "body" \in Armed /\ 0 \in Nat BY DEF Kinded, Armed, LoopKinds
<1>3. Begun(chunk, MarkIn(Height, Ctx), Here(chunk), Height, Ctx) BY <1>0, HereBegun
<1>4. Fresh(o, "do", "body", Here(chunk), 0, 0) BY <1>0, <1>2, ActivationIs
<1>5. /\ l \in LoopRecord /\ l.step = 0 /\ l.count = Height /\ ~l.each /\ l.breaks = {} /\ l.continues = {}
  BY <1>0 DEF Loop, LoopRecord
<1> HIDE DEF o, l
<1>6. /\ o.kind = "do" /\ o.arm = "body" /\ o.a = Here(chunk) /\ o.h = Height /\ o \in Statement
  BY <1>4 DEF Fresh
<1>7. IsLoop(o) /\ Extra(o) = 1 BY <1>6, ExtraIs DEF IsLoop, LoopKinds
<1>8. LoopOK(o, l, locals) BY <1>5, <1>6 DEF LoopOK
<1>9. Expects(chunk, MarkIn(Height, Ctx), o, Ctx, l) BY <1>3, <1>5, <1>6, <1>7 DEF Expects
<1>10. /\ Deeper(locals, locals, scopeDepth + 1)
       /\ \A k \in DOMAIN locals : locals[k].depth <= scopeDepth + 1
  <2>1. scopeDepth + 1 \in Int /\ scopeDepth + 1 >= scopeDepth BY <1>0
  <2> QED BY <2>1, AllBelow
<1>11. Working(chunk, Append(open, o), locals, scopeDepth + 1, Append(loopStack, l))
  <2>1. scopeDepth + 1 = scopeDepth + Extra(o) BY <1>7
  <2>2. "do" # "try" /\ ("do" = "do" => locals = locals) /\ Holes \subseteq Holes \cup HolesOf(o) OBVIOUS
  <2>3. Working(chunk, Append(open, o), locals, scopeDepth + 1,
                IF IsLoop(o) THEN Append(loopStack, l) ELSE loopStack)
    BY <1>0, <1>4, <1>5, <1>8, <1>9, <1>10, <2>1, <2>2, BlockOpened
  <2> QED BY <1>7, <2>3
<1> QED BY <1>1, <1>11 DEF Then

(* The invariant is kept by the beginning of while.                        *)
LEMMA WhileOpenCompiles == ASSUME Now, Tame, WhileOpen PROVE Then
<1> DEFINE start == Here(chunk)
           l == Loop(start, Height, FALSE, 0)
           MM == MarkIn(Height, Ctx)
<1>0. /\ Ctx \in Context /\ Height \in Nat /\ Len(chunk) \in Nat /\ scopeDepth \in Nat
      /\ Height = Len(locals) /\ Made(chunk, Height, Ctx, Holes) /\ start \in Nat /\ start + 1 \in Nat
      /\ start = Len(chunk) + 1 /\ start + 1 = Len(chunk) + 2
  BY NowIs DEF Here
<1>1. /\ locals' = locals /\ loopStack' = Append(loopStack, l) /\ scopeDepth' = scopeDepth + 2
  BY DEF WhileOpen
<1>2. /\ "while" \in Kinded /\ "cond" \in Armed /\ "lt" \in Armed /\ 0 \in Nat
  BY DEF Kinded, Armed, LoopKinds
<1>3. Begun(chunk, MM, start, Height, Ctx) BY <1>0, HereBegun
<1>4. /\ l \in LoopRecord /\ l.step = start /\ l.count = Height /\ ~l.each /\ l.breaks = {} /\ l.continues = {}
  BY <1>0 DEF Loop, LoopRecord
<1>5. /\ Deeper(locals, locals, scopeDepth + 1) /\ Split(locals, scopeDepth + 1, Height)
      /\ \A k \in DOMAIN locals : locals[k].depth <= scopeDepth + 2
  <2>1. scopeDepth + 1 \in Int /\ scopeDepth + 1 >= scopeDepth BY <1>0
  <2>2. scopeDepth + 2 \in Int /\ scopeDepth + 2 >= scopeDepth BY <1>0
  <2> QED BY <2>1, <2>2, AllBelow
<1> HIDE DEF start, l, MM
<1>6. ASSUME NEW arm \in {"cond", "lt"}, NEW j \in Nat, NEW o, Fresh(o, "while", arm, start, 0, j),
             NEW c, Made(c, Height, Ctx, Holes \cup {j}), Begun(c, MM, start, Height, Ctx),
             IF arm = "lt" THEN Waits(c, j, "JUMP_IF_NOT_LT", Height, Ctx)
             ELSE Waits(c, j, "JUMP_IF_FALSE", Height + 1, Ctx)
      PROVE  Working(c, Append(open, o), locals, scopeDepth + 2, Append(loopStack, l))
  <2>1. /\ o.kind = "while" /\ o.arm = arm /\ o.a = start /\ o.h = Height /\ o \in Statement /\ o.j = j
        /\ o.d = scopeDepth
    BY <1>6 DEF Fresh
  <2>2. IsLoop(o) /\ Extra(o) = 2 BY <2>1, ExtraIs DEF IsLoop, LoopKinds
  <2>3. LoopOK(o, l, locals) BY <1>4, <1>5, <2>1 DEF LoopOK
  <2>4. Expects(c, MM, o, Ctx, l) BY <1>4, <1>6, <2>1, <2>2 DEF Expects
  <2>5. HolesOf(o) = {j} BY <2>1, HolesOfIs
  <2>6. scopeDepth + 2 = scopeDepth + Extra(o) BY <2>2
  <2>7. /\ "while" # "try" /\ ("while" = "do" => locals = locals)
        /\ Holes \cup {j} \subseteq Holes \cup HolesOf(o)
    BY <2>5
  <2>8. Working(c, Append(open, o), locals, scopeDepth + 2,
                IF IsLoop(o) THEN Append(loopStack, l) ELSE loopStack)
    BY <1>0, <1>4, <1>5, <1>6, <2>3, <2>4, <2>6, <2>7, BlockOpened DEF MM
  <2> QED BY <2>2, <2>8
<1>7. CASE /\ chunk' = chunk \o Condition(Height)
           /\ open' = Append(open, Activation("while", "cond", start, 0, start + 1))
  <2> DEFINE c == chunk \o Condition(Height)
             o == Activation("while", "cond", start, 0, start + 1)
  <2>1. /\ Made(c, Height, Ctx, Holes \cup {start + 1}) /\ On(chunk, Height, Ctx, c, Height, Ctx, 3)
        /\ Waits(c, start + 1, "JUMP_IF_FALSE", Height + 1, Ctx)
    BY <1>0, AddCondition
  <2>2. Begun(c, MM, start, Height, Ctx) BY <1>3, <2>1, OnKeeps DEF MM
  <2>3. Fresh(o, "while", "cond", start, 0, start + 1) BY <1>0, <1>2, ActivationIs
  <2> HIDE DEF c, o
  <2>4. Working(c, Append(open, o), locals, scopeDepth + 2, Append(loopStack, l))
    BY <1>0, <1>6, <2>1, <2>2, <2>3
  <2> QED BY <1>1, <1>7, <2>4 DEF Then, c, o
<1>8. CASE /\ MayRaise
           /\ \E i \in DOMAIN locals :
                /\ locals[i].named
                /\ chunk' = Append(chunk, Ins("JUMP_IF_NOT_LT", 0, i - 1, Height))
           /\ open' = Append(open, Activation("while", "lt", start, 0, start))
  <2>0. PICK i \in DOMAIN locals :
          chunk' = Append(chunk, Ins("JUMP_IF_NOT_LT", 0, i - 1, Height))
    BY <1>8
  <2> DEFINE y == i - 1
             c == Append(chunk, InsIn(Ctx, "JUMP_IF_NOT_LT", 0, y, {}, Height))
             o == Activation("while", "lt", start, 0, start)
  <2>1. y \in Nat /\ y < Height
    <3>1. DOMAIN locals = 1..Height BY NowIs
    <3> QED BY <1>0, <2>0, <3>1
  <2>2. chunk' = c BY <2>0 DEF Ins
  <2> HIDE DEF y
  <2>3. Guarded(chunk, Ctx, Height) BY <1>8, MayRaiseGuards
  <2>4. /\ Made(c, Height, Ctx, Holes \cup {start}) /\ On(chunk, Height, Ctx, c, Height, Ctx, 1)
        /\ Waits(c, start, "JUMP_IF_NOT_LT", Height, Ctx)
    <3>1. Height <= Height BY <1>0
    <3> QED BY <1>0, <2>1, <2>3, <3>1, AddBranch DEF start
  <2>5. Begun(c, MM, start, Height, Ctx) BY <1>3, <2>4, OnKeeps DEF MM
  <2>6. Fresh(o, "while", "lt", start, 0, start) BY <1>0, <1>2, ActivationIs
  <2> HIDE DEF c, o
  <2>7. Working(c, Append(open, o), locals, scopeDepth + 2, Append(loopStack, l))
    BY <1>0, <1>6, <2>4, <2>5, <2>6
  <2> QED BY <1>1, <1>8, <2>2, <2>7 DEF Then, o
<1> QED BY <1>7, <1>8 DEF WhileOpen, start

(* Code made with fewer holes.                                             *)
LEMMA Loosened ==
  ASSUME NEW ls \in Seq(Local), NEW d \in Nat, \A k \in DOMAIN ls : ls[k].depth <= d, NEW d2 \in Nat, d <= d2
  PROVE  \A k \in DOMAIN ls : ls[k].depth <= d2
<1> TAKE k \in DOMAIN ls
<1>1. ls[k] \in Local OBVIOUS
<1>2. ls[k].depth \in Nat BY <1>1 DEF Local
<1> QED BY <1>2

(* The invariant is kept by the beginning of for.                          *)
LEMMA ForOpenCompiles == ASSUME Now, ForOpen PROVE Then
<1>0. /\ Ctx \in Context /\ Height \in Nat /\ Len(chunk) \in Nat /\ scopeDepth \in Nat
      /\ Height = Len(locals) /\ Made(chunk, Height, Ctx, Holes) /\ Here(chunk) \in Nat
      /\ scopeDepth + 1 \in Nat /\ scopeDepth + 2 \in Nat /\ locals \in Seq(Local)
  BY NowIs DEF Here
<1>1. PICK init \in BOOLEAN, cond \in BOOLEAN :
       LET ls   == IF init THEN addLocal(locals, scopeDepth + 1, Here(chunk), TRUE)
                   ELSE locals
           c    == IF init THEN Append(chunk, Ins("CONSTANT", 0, 0, Height)) ELSE chunk
           h    == Len(ls)
           exit == IF cond THEN Here(c) + 1 ELSE 0
       IN  /\ chunk' = IF cond THEN c \o Condition(h) ELSE c
           /\ locals' = ls
           /\ loopStack' = Append(loopStack, Loop(0, h, FALSE, 0))
           /\ open' = Append(open, Activation("for", "body", Here(c), 0, exit))
  BY DEF ForOpen
<1> DEFINE ls   == IF init THEN addLocal(locals, scopeDepth + 1, Here(chunk), TRUE)
                   ELSE locals
           c    == IF init THEN Append(chunk, Ins("CONSTANT", 0, 0, Height)) ELSE chunk
           h    == Len(ls)
           exit == IF cond THEN Here(c) + 1 ELSE 0
           c2   == IF cond THEN c \o Condition(h) ELSE c
           l    == Loop(0, h, FALSE, 0)
           o    == Activation("for", "body", Here(c), 0, exit)
           V    == Holes \cup ({exit} \ {0})
<1>2. /\ chunk' = c2 /\ locals' = ls /\ loopStack' = Append(loopStack, l) /\ open' = Append(open, o)
      /\ scopeDepth' = scopeDepth + 2
  BY <1>1 DEF ForOpen
<1>3. "for" \in Kinded /\ "body" \in Armed /\ 0 \in Nat BY DEF Kinded, Armed, LoopKinds
<1>4. /\ Made(c, h, Ctx, Holes) /\ h \in Nat /\ h \in {Height, Height + 1} /\ ls \in Seq(Local)
      /\ Deeper(locals, ls, scopeDepth + 1) /\ Split(ls, scopeDepth + 1, h)
      /\ \A k \in DOMAIN ls : ls[k].depth <= scopeDepth + 1
  <2>1. CASE init
    <3> DEFINE l1 == addLocal(locals, scopeDepth + 1, Here(chunk), TRUE)
               c1 == Append(chunk, InsIn(Ctx, "CONSTANT", 0, 0, {}, Height))
    <3>1. /\ Deeper(locals, l1, scopeDepth + 1) /\ Len(l1) = Height + 1 /\ l1 \in Seq(Local)
          /\ Split(l1, scopeDepth + 1, Height + 1)
          /\ \A k \in DOMAIN l1 : l1[k].depth <= scopeDepth + 1
      BY <1>0, OneLocal
    <3>2. Made(c1, Height + 1, Ctx, Holes) BY <1>0, AddConstant
    <3>3. ls = l1 /\ c = c1 /\ h = Height + 1 BY <2>1, <3>1 DEF Ins
    <3> HIDE DEF l1, c1, ls, c, h
    <3>4. Height + 1 \in Nat BY <1>0
    <3> QED BY <3>1, <3>2, <3>3, <3>4
  <2>2. CASE ~init
    <3>1. ls = locals /\ c = chunk /\ h = Height BY <1>0, <2>2
    <3>2. scopeDepth + 1 \in Int /\ scopeDepth + 1 >= scopeDepth BY <1>0
    <3>3. /\ Deeper(locals, locals, scopeDepth + 1) /\ Split(locals, scopeDepth + 1, Height)
          /\ \A k \in DOMAIN locals : locals[k].depth <= scopeDepth + 1
      BY <3>2, AllBelow
    <3> HIDE DEF ls, c, h
    <3> QED BY <1>0, <3>1, <3>3
  <2> QED BY <2>1, <2>2
<1>5. h = Len(ls) OBVIOUS
<1> HIDE DEF ls, c, h
<1>6. Len(c) \in Nat /\ Here(c) \in Nat /\ Here(c) = Len(c) + 1 BY <1>4 DEF Made, Here
<1>7. Begun(c, MarkIn(h, Ctx), Here(c), h, Ctx) BY <1>4, HereBegun
<1>8. /\ exit \in Nat /\ Made(c2, h, Ctx, V) /\ Begun(c2, MarkIn(h, Ctx), Here(c), h, Ctx)
      /\ exit # 0 => Waits(c2, exit, "JUMP_IF_FALSE", h + 1, Ctx)
  <2>1. CASE cond
    <3> DEFINE c3 == c \o Condition(h)
    <3>1. /\ Made(c3, h, Ctx, Holes \cup {Len(c) + 2}) /\ On(c, h, Ctx, c3, h, Ctx, 3)
          /\ Waits(c3, Len(c) + 2, "JUMP_IF_FALSE", h + 1, Ctx)
      BY <1>4, AddCondition
    <3>2. Begun(c3, MarkIn(h, Ctx), Here(c), h, Ctx) BY <1>7, <3>1, OnKeeps
    <3>3. c2 = c3 /\ exit = Len(c) + 2 /\ exit \in Nat /\ exit # 0 BY <1>6, <2>1
    <3> HIDE DEF c3, c2, exit
    <3>4. V = Holes \cup {Len(c) + 2} BY <3>3
    <3> QED BY <3>1, <3>2, <3>3, <3>4
  <2>2. CASE ~cond
    <3>1. c2 = c /\ exit = 0 BY <2>2
    <3> HIDE DEF c2, exit
    <3>2. V = Holes BY <3>1
    <3> QED BY <1>4, <1>7, <3>1, <3>2
  <2> QED BY <2>1, <2>2
<1> HIDE DEF exit, c2
<1>9. Fresh(o, "for", "body", Here(c), 0, exit) BY <1>3, <1>6, <1>8, ActivationIs
<1>10. /\ l \in LoopRecord /\ l.step = 0 /\ l.count = h /\ ~l.each /\ l.breaks = {} /\ l.continues = {}
  BY <1>4 DEF Loop, LoopRecord
<1> HIDE DEF o, l, V
<1>11. /\ o.kind = "for" /\ o.a = Here(c) /\ o.h = Height /\ o \in Statement /\ o.j = exit /\ o.d = scopeDepth
  BY <1>9 DEF Fresh
<1>12. IsLoop(o) /\ Extra(o) = 2 BY <1>11, ExtraIs DEF IsLoop, LoopKinds
<1>13. LoopOK(o, l, ls) BY <1>4, <1>10, <1>11 DEF LoopOK
<1>14. Expects(c2, MarkIn(h, Ctx), o, Ctx, l) BY <1>8, <1>10, <1>11, <1>12 DEF Expects
<1>15. V \subseteq Holes \cup HolesOf(o)
  <2>1. HolesOf(o) = {exit} \ {0} BY <1>11, HolesOfIs
  <2> QED BY <2>1 DEF V
<1>16. \A k \in DOMAIN ls : ls[k].depth <= scopeDepth + 2
  <2>1. scopeDepth + 1 <= scopeDepth + 2 BY <1>0
  <2> QED BY <1>0, <1>4, <2>1, Loosened
<1>17. Working(c2, Append(open, o), ls, scopeDepth + 2, Append(loopStack, l))
  <2>1. scopeDepth + 2 = scopeDepth + Extra(o) BY <1>12
  <2>2. "for" # "try" /\ ("for" = "do" => ls = locals) OBVIOUS
  <2>3. Working(c2, Append(open, o), ls, scopeDepth + 2,
                IF IsLoop(o) THEN Append(loopStack, l) ELSE loopStack)
    BY <1>4, <1>5, <1>8, <1>9, <1>10, <1>13, <1>14, <1>15, <1>16, <2>1, <2>2, BlockOpened
  <2> QED BY <1>12, <2>3
<1> QED BY <1>2, <1>17 DEF Then

(* The invariant is kept by the beginning of switch.                       *)
LEMMA SwitchOpenCompiles == ASSUME Now, SwitchOpen PROVE Then
<1> DEFINE h == Height + 1
           c == Append(chunk, InsIn(Ctx, "CONSTANT", 0, 0, {}, Height))
           c2 == Case(c, h)
           ls == addLocal(locals, scopeDepth + 1, Here(chunk), FALSE)
           l == Loop(0, h, FALSE, 0)
           j == Len(c) + 4
           o == Activation("switch", "case", Here(chunk), 0, j)
           V == Holes \cup {j}
<1>0. /\ Ctx \in Context /\ Height \in Nat /\ Len(chunk) \in Nat /\ scopeDepth \in Nat
      /\ Height = Len(locals) /\ Made(chunk, Height, Ctx, Holes) /\ Here(chunk) \in Nat
      /\ scopeDepth + 1 \in Nat /\ scopeDepth + 2 \in Nat /\ locals \in Seq(Local)
      /\ h \in Nat /\ h >= 1 /\ h + 1 = Height + 2
  BY NowIs DEF Here
<1>1. /\ chunk' = c2 /\ locals' = ls /\ loopStack' = Append(loopStack, l) /\ open' = Append(open, o)
      /\ scopeDepth' = scopeDepth + 2
  BY DEF SwitchOpen, Ins
<1>2. "switch" \in Kinded /\ "case" \in Armed /\ 0 \in Nat BY DEF Kinded, Armed, LoopKinds
<1>3. Made(c, h, Ctx, Holes) /\ On(chunk, Height, Ctx, c, h, Ctx, 1) BY <1>0, AddConstant
<1>4. /\ Deeper(locals, ls, scopeDepth + 1) /\ Len(ls) = h /\ ls \in Seq(Local)
      /\ Split(ls, scopeDepth + 1, h) /\ \A k \in DOMAIN ls : ls[k].depth <= scopeDepth + 1
  BY <1>0, OneLocal
<1> HIDE DEF c, ls
<1>5. j \in Nat BY <1>3 DEF Made
<1>6. /\ Made(c2, h, Ctx, V) /\ On(c, h, Ctx, c2, h, Ctx, 5)
      /\ Waits(c2, j, "JUMP_IF_FALSE", h + 1, Ctx)
  BY <1>0, <1>3, AddCase
<1>7. Begun(c2, MarkIn(h, Ctx), Here(chunk), Height, Ctx)
  <2>1. Begun(chunk, MarkIn(Height, Ctx), Here(chunk), Height, Ctx) BY <1>0, HereBegun
  <2>2. Begun(c, MarkIn(h, Ctx), Here(chunk), Height, Ctx) BY <1>3, <2>1, OnKeeps
  <2> QED BY <1>6, <2>2, OnKeeps
<1> HIDE DEF c2, j
<1>9. Fresh(o, "switch", "case", Here(chunk), 0, j) BY <1>0, <1>2, <1>5, ActivationIs
<1>10. /\ l \in LoopRecord /\ l.step = 0 /\ l.count = h /\ ~l.each /\ l.breaks = {} /\ l.continues = {}
  BY <1>0 DEF Loop, LoopRecord
<1> HIDE DEF o, l, V
<1>11. /\ o.kind = "switch" /\ o.arm = "case" /\ o.a = Here(chunk) /\ o.h = Height /\ o \in Statement
       /\ o.j = j /\ o.d = scopeDepth
  BY <1>9 DEF Fresh
<1>12. IsLoop(o) /\ Extra(o) = 2 BY <1>11, ExtraIs DEF IsLoop, LoopKinds
<1>13. LoopOK(o, l, ls) BY <1>4, <1>10, <1>11 DEF LoopOK
<1>14. Expects(c2, MarkIn(h, Ctx), o, Ctx, l)
  <2>1. Waits(c2, o.j, "JUMP_IF_FALSE", o.h + 2, Ctx) BY <1>0, <1>6, <1>11
  <2>2. Begun(c2, MarkIn(h, Ctx), o.a, o.h, Ctx) BY <1>7, <1>11
  <2> HIDE DEF h
  <2> QED BY <1>10, <1>11, <1>12, <2>1, <2>2 DEF Expects
<1>15. V \subseteq Holes \cup HolesOf(o)
  <2>1. HolesOf(o) = {j} BY <1>11, HolesOfIs
  <2> QED BY <2>1 DEF V
<1>16. \A k \in DOMAIN ls : ls[k].depth <= scopeDepth + 2
  <2>1. scopeDepth + 1 <= scopeDepth + 2 BY <1>0
  <2> QED BY <1>0, <1>4, <2>1, Loosened
<1> HIDE DEF h
<1>17. Working(c2, Append(open, o), ls, scopeDepth + 2, Append(loopStack, l))
  <2>1. scopeDepth + 2 = scopeDepth + Extra(o) BY <1>12
  <2>2. "switch" # "try" /\ ("switch" = "do" => ls = locals) /\ h = Len(ls) BY <1>4
  <2>3. Working(c2, Append(open, o), ls, scopeDepth + 2,
                IF IsLoop(o) THEN Append(loopStack, l) ELSE loopStack)
    BY <1>4, <1>6, <1>9, <1>10, <1>13, <1>14, <1>15, <1>16, <2>1, <2>2, BlockOpened
  <2> QED BY <1>12, <2>3
<1> QED BY <1>1, <1>17 DEF Then

(* TRY_ENTER.                                                              *)
LEMMA AddTry ==
  ASSUME NEW c, NEW h, NEW ctx, NEW W, Made(c, h, ctx, W), ctx.rf = 0,
         NEW ctx2 \in Context, ctx2.hs = Append(ctx.hs, Here(c)), ctx2.rf = 0
  PROVE  LET c2 == Append(c, InsIn(ctx, "TRY_ENTER", 0, 0, {}, h)) IN
         /\ Made(c2, h, ctx2, W \cup {Here(c)})
         /\ Waits(c2, Here(c), "TRY_ENTER", h, ctx) /\ c2[Here(c)].y = 0
<1>1. /\ Grown(chunk, MarkIn(Height, Ctx), c, MarkIn(h, ctx), W) /\ ctx \in Context /\ h \in Nat
      /\ Here(c) = Len(c) + 1
  BY DEF Made, Here
<1> DEFINE c2 == Append(c, InsIn(ctx, "TRY_ENTER", 0, 0, {}, h))
<1>2. ctx2.hs = Append(ctx.hs, Len(c) + 1) BY <1>1
<1>3. Leads(chunk, MarkIn(Height, Ctx), c, ctx, "TRY_ENTER", h, ctx2, W \cup {Len(c) + 1})
  BY <1>1, <1>2, TryEntered
<1>4. /\ Grown(chunk, MarkIn(Height, Ctx), c2, MarkIn(h, ctx2), W \cup {Len(c) + 1})
      /\ c2 \in Seq(Instruction) /\ Len(c2) \in Nat
      /\ Waits(c2, Len(c) + 1, "TRY_ENTER", h, ctx) /\ c2[Len(c) + 1].y = 0
  BY <1>3 DEF Leads
<1> HIDE DEF c2
<1>5. Made(c2, h, ctx2, W \cup {Here(c)}) BY <1>1, <1>4 DEF Made
<1> QED BY <1>1, <1>4, <1>5 DEF c2

(* The invariant is kept by the beginning of try.                          *)
LEMMA TryOpenCompiles == ASSUME Now, Tame, TryOpen PROVE Then
<1> DEFINE at == Here(chunk)
           c == Append(chunk, InsIn(Ctx, "TRY_ENTER", 0, 0, {}, Height))
           V == Holes \cup {at}
           l == Loop(0, Height, FALSE, 0)
           a == Activation("try", "body", at, 0, 0)
<1>0. /\ Ctx \in Context /\ Height \in Nat /\ Len(chunk) \in Nat /\ scopeDepth \in Nat
      /\ Height = Len(locals) /\ Made(chunk, Height, Ctx, Holes) /\ at \in Nat /\ at = Len(chunk) + 1
      /\ Ctx = Innermost(open) /\ MarkOf(open, locals) = MarkIn(Height, Ctx)
      /\ chunk \in Seq(Instruction) /\ DOMAIN chunk = 1..Len(chunk)
  BY NowIs DEF Here
<1>1. PICK fin \in BOOLEAN :
        open' = Append(open, [a EXCEPT !.fin = fin,
                  !.ctx = [hs |-> Append(Ctx.hs, at),
                           ow |-> IF fin THEN Ctx.ow \cup {at} ELSE Ctx.ow, rf |-> Ctx.rf]])
  BY DEF TryOpen
<1> DEFINE ctx == [hs |-> Append(Ctx.hs, at), ow |-> IF fin THEN Ctx.ow \cup {at} ELSE Ctx.ow, rf |-> Ctx.rf]
           o == [a EXCEPT !.fin = fin, !.ctx = ctx]
<1>2. /\ open' = Append(open, o) /\ locals' = locals /\ loopStack' = loopStack
      /\ scopeDepth' = scopeDepth /\ chunk' = c
  BY <1>1 DEF TryOpen, Ins
<1>3. Ctx.rf = 0 BY DEF TryOpen, Risky, Tame, Harmful
<1>4. Ctx.hs \in Seq(Nat) /\ Ctx.ow \in SUBSET Nat BY <1>0 DEF Context
<1>5. /\ ctx \in Context /\ ctx.hs = Append(Ctx.hs, Len(chunk) + 1) /\ ctx.rf = 0
  BY <1>0, <1>3, <1>4 DEF Context
<1> HIDE DEF ctx
<1>6. "try" \in Kinded /\ "body" \in Armed /\ 0 \in Nat BY DEF Kinded, Armed
<1>7. Fresh(a, "try", "body", at, 0, 0) BY <1>0, <1>6, ActivationIs
<1> HIDE DEF a
<1>8. /\ o \in Statement /\ o.kind = "try" /\ o.arm = "body" /\ o.a = at /\ o.ctx = ctx /\ o.ret = FALSE
      /\ o.h = Height /\ o.d = scopeDepth /\ o.n = Len(loopStack)
  BY <1>5, <1>7 DEF Fresh, Statement
<1> HIDE DEF o
<1>9. Grown(chunk, MarkIn(Height, Ctx), chunk, MarkIn(Height, Ctx), Holes) BY <1>0 DEF Made
<1>10. /\ Made(c, Height, ctx, V)
       /\ Waits(c, at, "TRY_ENTER", Height, Ctx) /\ c[at].y = 0
  BY <1>0, <1>3, <1>5, <1>9, AddTry
<1> HIDE DEF c, V, at
<1>12. IsLoop(o) <=> FALSE BY <1>8, ExtraIs DEF IsLoop, LoopKinds
<1>13. InBody(o) /\ Extra(o) = 0 BY <1>8, ExtraIs DEF InBody
<1>14. Expects(c, MarkIn(Height, ctx), o, Ctx, l) BY <1>8, <1>10, <1>12 DEF Expects
<1>15. Intercepted(c, o)
  <2>1. ASSUME NEW p \in DOMAIN c, c[p].op = "RETURN", c[p].hs # <<>>, Top(c[p].hs) = at PROVE FALSE
    <3>1. p \in DOMAIN chunk /\ c[p].hs = chunk[p].hs BY <1>10, <2>1 DEF Made, Grown, NoNewReturn
    <3>2. Named(chunk, chunk[p].hs) BY <1>9, <3>1 DEF Grown, Sound
    <3>3. at \in DOMAIN chunk BY <2>1, <3>1, <3>2 DEF Named
    <3> QED BY <1>0, <3>3
  <2> QED BY <1>8, <1>10, <2>1 DEF Intercepted
<1>16. Within(o, Innermost(open)) BY <1>0, <1>3, <1>5, <1>8 DEF Within, Here
<1>17. /\ Deeper(locals, locals, scopeDepth + 1) /\ \A k \in DOMAIN locals : locals[k].depth <= scopeDepth
  <2>1. scopeDepth \in Int /\ scopeDepth >= scopeDepth BY <1>0
  <2> QED BY <2>1, AllBelow
<1>18. l \in LoopRecord BY <1>0 DEF Loop, LoopRecord
<1> HIDE DEF l
<1>19. Working(c, Append(open, o), locals, scopeDepth, IF IsLoop(o) THEN Append(loopStack, l) ELSE loopStack)
  <2>1. Working(chunk, open, locals, scopeDepth, loopStack) BY DEF Now
  <2>2. o.h = Len(locals) /\ scopeDepth = scopeDepth + Extra(o) /\ Len(locals) = Len(locals)
    BY <1>0, <1>8, <1>13
  <2>3. IsLoop(o) => LoopOK(o, l, locals) BY <1>12
  <2>4. o.kind = "try" => o.a \notin DOMAIN chunk
    <3>1. at \notin DOMAIN chunk BY <1>0
    <3> QED BY <1>8, <3>1
  <2>5. Grown(chunk, MarkOf(open, locals), c, MarkIn(Len(locals), o.ctx), V) BY <1>0, <1>8, <1>10 DEF Made
  <2>6. V \subseteq HolesIn(open, loopStack) \cup HolesOf(o)
    <3>1. HolesOf(o) = {at} BY <1>8, HolesOfIs
    <3> QED BY <3>1 DEF V, Holes
  <2>7. Expects(c, MarkIn(Len(locals), o.ctx), o, Innermost(open), l) BY <1>0, <1>8, <1>14
  <2> QED BY <1>0, <1>8, <1>15, <1>16, <1>17, <1>18, <2>1, <2>2, <2>3, <2>4, <2>5, <2>6, <2>7, Opened
<1> QED BY <1>2, <1>12, <1>19 DEF Then

(* ls2 is ls with the locals xs, of depth d, behind it.                    *)
Joined(ls, xs, ls2, d) ==
  /\ ls2 \in Seq(Local) /\ Len(ls2) = Len(ls) + Len(xs)
  /\ DOMAIN ls2 = 1..(Len(ls) + Len(xs))
  /\ \A k \in 1..Len(ls) : ls2[k] = ls[k]
  /\ \A k \in DOMAIN ls2 : k > Len(ls) => ls2[k].depth = d

(* Locals of one depth declared together.                                  *)
LEMMA Declared ==
  ASSUME NEW ls \in Seq(Local), NEW xs \in Seq(Local), NEW d \in Nat,
         \A k \in DOMAIN xs : xs[k].depth = d
  PROVE  Joined(ls, xs, ls \o xs, d)
<1> DEFINE ls2 == ls \o xs
<1>1. /\ ls2 \in Seq(Local) /\ Len(ls2) = Len(ls) + Len(xs) /\ DOMAIN ls2 = 1..(Len(ls) + Len(xs))
      /\ Len(ls) \in Nat /\ Len(xs) \in Nat /\ DOMAIN xs = 1..Len(xs)
      /\ \A k \in 1..Len(ls) : ls2[k] = ls[k]
      /\ \A k \in 1..Len(xs) : ls2[Len(ls) + k] = xs[k]
  OBVIOUS
<1> HIDE DEF ls2
<1>2. ASSUME NEW k \in DOMAIN ls2, k > Len(ls) PROVE ls2[k].depth = d
  <2> DEFINE j == k - Len(ls)
  <2>1. j \in 1..Len(xs) /\ k = Len(ls) + j BY <1>1, <1>2
  <2> HIDE DEF j
  <2>2. ls2[k] = xs[j] BY <1>1, <2>1
  <2> QED BY <1>1, <2>1, <2>2
<1> QED BY <1>1, <1>2 DEF ls2, Joined

(* The locals of a for-each loop over n streams: streams and counter, then *)
(* the loop variables.                                                     *)
Streams(base, H, sd, n, counted, F) ==
  /\ F \in Seq(Local) /\ Len(counted) = H + n + 1 /\ Len(F) = H + n + 1 + n
  /\ Deeper(base, F, sd + 1)
  /\ Split(F, sd + 1, H + n + 1)
  /\ Split(F, sd + 2, H + n + 1 + n)
  /\ \A k \in DOMAIN F : F[k].depth <= sd + 3

(* The locals of a for-each: streams and counter, then the variables.      *)
LEMMA Layered ==
  ASSUME NEW H \in Nat, NEW sd \in Nat, NEW n \in Nat, n >= 1,
         NEW base \in Seq(Local), Len(base) = H, \A k \in DOMAIN base : base[k].depth <= sd,
         NEW anon, NEW one, NEW names, Len(anon) = n, Len(one) = 1, Len(names) = n,
         NEW ls, Joined(base, anon, ls, sd + 1), NEW counted, Joined(ls, one, counted, sd + 1),
         NEW F, Joined(counted, names, F, sd + 2)
  PROVE  Streams(base, H, sd, n, counted, F)
<1>0. DOMAIN base = 1..H /\ \A k \in 1..H : base[k].depth \in Nat /\ base[k].depth <= sd
  <2>1. DOMAIN base = 1..H OBVIOUS
  <2> SUFFICES ASSUME NEW k \in 1..H PROVE base[k].depth \in Nat BY <2>1
  <2>2. base[k] \in Local BY <2>1
  <2> QED BY <2>2 DEF Local
<1>6. /\ Len(ls) = H + n /\ \A k \in 1..H : ls[k] = base[k]
      /\ \A k \in 1..(H + n) : k > H => ls[k].depth = sd + 1
  BY DEF Joined
<1>7. /\ Len(counted) = H + n + 1
      /\ \A k \in 1..(H + n) : counted[k] = ls[k]
      /\ \A k \in 1..(H + n + 1) : k > H + n => counted[k].depth = sd + 1
  BY <1>6 DEF Joined
<1>8. /\ F \in Seq(Local) /\ Len(F) = H + n + 1 + n /\ DOMAIN F = 1..(H + n + 1 + n)
      /\ \A k \in 1..(H + n + 1) : F[k] = counted[k]
      /\ \A k \in 1..(H + n + 1 + n) : k > H + n + 1 => F[k].depth = sd + 2
  BY <1>7 DEF Joined
<1>9. \A k \in 1..H : F[k] = base[k]
  <2> TAKE k \in 1..H
  <2>1. k \in 1..(H + n) /\ k \in 1..(H + n + 1) OBVIOUS
  <2> QED BY <1>6, <1>7, <1>8, <2>1
<1>10. \A k \in 1..(H + n + 1) : k > H => F[k].depth = sd + 1
  <2> SUFFICES ASSUME NEW k \in 1..(H + n + 1), k > H PROVE F[k].depth = sd + 1
    OBVIOUS
  <2>1. F[k] = counted[k] BY <1>8
  <2>2. CASE k > H + n BY <1>7, <2>1, <2>2
  <2>3. CASE k <= H + n
    <3>1. k \in 1..(H + n) BY <2>3
    <3> QED BY <1>6, <1>7, <2>1, <3>1
  <2> QED BY <2>2, <2>3
<1>11. \A k \in 1..(H + n + 1 + n) :
         /\ F[k].depth \in Nat /\ F[k].depth <= sd + 2
         /\ F[k].depth <= sd + 1 <=> k <= H + n + 1
         /\ k > H => F[k].depth >= sd + 1
  <2> TAKE k \in 1..(H + n + 1 + n)
  <2>1. CASE k <= H
    <3>1. k \in 1..H BY <2>1
    <3>2. F[k].depth \in Nat /\ F[k].depth <= sd BY <1>0, <1>9, <3>1
    <3> QED BY <2>1, <3>2
  <2>2. CASE k > H /\ k <= H + n + 1
    <3>1. k \in 1..(H + n + 1) BY <2>2
    <3>2. F[k].depth = sd + 1 BY <1>10, <2>2, <3>1
    <3> QED BY <2>2, <3>2
  <2>3. CASE k > H + n + 1
    <3>1. F[k].depth = sd + 2 BY <1>8, <2>3
    <3> QED BY <2>3, <3>1
  <2> QED BY <2>1, <2>2, <2>3
<1>12. Deeper(base, F, sd + 1)
  <2>1. Len(base) <= Len(F) BY <1>8
  <2>2. \A k \in DOMAIN F : k \notin DOMAIN base => F[k].depth >= sd + 1
    <3> SUFFICES ASSUME NEW k \in DOMAIN F, k \notin DOMAIN base PROVE k > H BY <1>8, <1>11
    <3> QED BY <1>0, <1>8
  <2> QED BY <1>0, <1>8, <1>9, <2>1, <2>2 DEF Deeper
<1>13. Split(F, sd + 1, H + n + 1)
  <2>1. H + n + 1 <= Len(F) BY <1>8
  <2> QED BY <1>8, <1>11, <2>1 DEF Split
<1>14. Split(F, sd + 2, H + n + 1 + n)
  <2>1. H + n + 1 + n <= Len(F) /\ \A k \in DOMAIN F : k <= H + n + 1 + n BY <1>8
  <2> QED BY <1>8, <1>11, <2>1 DEF Split
<1>15. \A k \in DOMAIN F : F[k].depth <= sd + 3 BY <1>8, <1>11
<1> QED BY <1>7, <1>8, <1>12, <1>13, <1>14, <1>15 DEF Streams

(* The streams of a for-each loop.                                         *)
LEMMA StreamsPushed ==
  ASSUME Now, Tame, MayRaise, NEW n \in 1..2
  PROVE  LET c == chunk \o [k \in 1..n |-> Ins("NATIVE", 0, 0, Height + k - 1)] IN
         Made(c, Height + n, Ctx, Holes) /\ Len(c) = Len(chunk) + n /\ Guarded(c, Ctx, Height)
<1> DEFINE i1 == InsIn(Ctx, "NATIVE", 0, 0, {}, Height)
           i2 == InsIn(Ctx, "NATIVE", 0, 0, {}, Height + 1)
           c1 == Append(chunk, i1)
           c2 == Append(c1, i2)
           xs == [k \in 1..n |-> Ins("NATIVE", 0, 0, Height + k - 1)]
           c == chunk \o xs
<1>0. /\ Ctx \in Context /\ Height \in Nat /\ Height + 1 \in Nat /\ Height + 2 \in Nat /\ Height + 1 + 1 = Height + 2
      /\ Made(chunk, Height, Ctx, Holes) /\ chunk \in Seq(Instruction) /\ Len(chunk) \in Nat
      /\ Height <= Height + 1
  BY NowIs
<1>1. i1 \in Instruction /\ i2 \in Instruction BY <1>0, OpsAre, InsInIs
<1>2. Guarded(chunk, Ctx, Height) BY MayRaiseGuards
<1>3. Made(c1, Height + 1, Ctx, Holes)
  <2>1. Fails("NATIVE", 0, 0, {}, Height, Height + 1, Height) BY <1>0 DEF Fails
  <2> QED BY <1>0, <1>2, <2>1, OpsAre, AddRaising
<1>4. Guarded(c1, Ctx, Height) BY <1>2, <1>3, GuardedStays
<1>5. Made(c2, Height + 2, Ctx, Holes)
  <2>1. Fails("NATIVE", 0, 0, {}, Height + 1, Height + 2, Height + 1) BY <1>0 DEF Fails
  <2>2. Guarded(c1, Ctx, Height + 1)
    <3>1. \A h1 : Guarded(c1, Ctx, Height) /\ h1 = Height + 1 => Guarded(c1, Ctx, h1)
      <4> SUFFICES ASSUME Ctx.hs # <<>> PROVE c1[Top(Ctx.hs)].h <= Height + 1
        BY <1>4 DEF Guarded
      <4>1. Top(Ctx.hs) \in DOMAIN c1 /\ c1[Top(Ctx.hs)].h <= Height BY <1>4 DEF Guarded
      <4>2. c1 \in Seq(Instruction) BY <1>3 DEF Made
      <4> HIDE DEF c1
      <4>3. c1[Top(Ctx.hs)] \in Instruction BY <4>1, <4>2
      <4>4. c1[Top(Ctx.hs)].h \in Nat BY <4>3 DEF Instruction
      <4> QED BY <1>0, <4>1, <4>4
    <3> QED BY <1>4, <3>1
  <2> HIDE DEF c1
  <2> QED BY <1>0, <1>3, <2>1, <2>2, OpsAre, AddRaising
<1>6. Guarded(c2, Ctx, Height) BY <1>2, <1>5, GuardedStays
<1>7. CASE n = 1
  <2>1. DOMAIN xs = 1..1 /\ xs[1] = i1
    <3>1. Height + 1 - 1 = Height BY <1>0
    <3> QED BY <1>7, <3>1 DEF Ins
  <2>2. xs = <<i1>>
    <3> HIDE DEF i1
    <3>1. DOMAIN <<i1>> = 1..1 /\ <<i1>>[1] = i1 OBVIOUS
    <3>2. xs = [k \in 1..1 |-> xs[k]] /\ <<i1>> = [k \in 1..1 |-> <<i1>>[k]] BY <2>1
    <3> HIDE DEF xs
    <3> QED BY <2>1, <3>1, <3>2
  <2>3. c = c1 /\ Len(c1) = Len(chunk) + 1
    <3> HIDE DEF i1, xs
    <3> QED BY <1>0, <1>1, <2>2
  <2> HIDE DEF c, c1
  <2> QED BY <1>3, <1>4, <1>7, <2>3 DEF c
<1>8. CASE n = 2
  <2>1. DOMAIN xs = 1..2 /\ xs[1] = i1 /\ xs[2] = i2
    <3>1. Height + 1 - 1 = Height /\ Height + 2 - 1 = Height + 1 BY <1>0
    <3> QED BY <1>8, <3>1 DEF Ins
  <2>2. xs = <<i1, i2>>
    <3> HIDE DEF i1, i2
    <3>1. DOMAIN <<i1, i2>> = 1..2 /\ <<i1, i2>>[1] = i1 /\ <<i1, i2>>[2] = i2 OBVIOUS
    <3>2. xs = [k \in 1..2 |-> xs[k]] /\ <<i1, i2>> = [k \in 1..2 |-> <<i1, i2>>[k]] BY <2>1, <3>1
    <3> HIDE DEF xs
    <3> QED BY <2>1, <3>1, <3>2
  <2>3. c = c2 /\ Len(c2) = Len(chunk) + 2
    <3> HIDE DEF i1, i2, xs
    <3>1. chunk \o <<i1, i2>> = c2 BY <1>0, <1>1, Cat2
    <3>2. Len(c2) = Len(chunk) + 2 BY <1>0, <1>1
    <3> QED BY <2>2, <3>1, <3>2
  <2> HIDE DEF c, c2
  <2> QED BY <1>5, <1>6, <1>8, <2>3 DEF c
<1> QED BY <1>7, <1>8

(* The same for the locals the action adds.                                *)
LEMMA StreamLocals ==
  ASSUME Now, NEW n \in 1..2, NEW at \in Nat, NEW iter \in Nat
  PROVE  LET ls == locals \o [k \in 1..n |-> [depth |-> scopeDepth + 1,
                                              d |-> at + k - 1, named |-> FALSE]]
             counted == addLocal(ls, scopeDepth + 1, at + n, FALSE)
             F == counted \o [k \in 1..n |-> [depth |-> scopeDepth + 2, d |-> iter, named |-> TRUE]]
         IN
         Streams(locals, Height, scopeDepth, n, counted, F)
<1> DEFINE anon == [k \in 1..n |-> [depth |-> scopeDepth + 1, d |-> at + k - 1, named |-> FALSE]]
           x == [depth |-> scopeDepth + 1, d |-> at + n, named |-> FALSE]
           one == <<x>>
           names == [k \in 1..n |-> [depth |-> scopeDepth + 2, d |-> iter, named |-> TRUE]]
           ls == locals \o anon
           counted == addLocal(ls, scopeDepth + 1, at + n, FALSE)
           F == counted \o names
<1>0. /\ Height \in Nat /\ scopeDepth \in Nat /\ Height = Len(locals) /\ locals \in Seq(Local)
      /\ n \in Nat /\ n >= 1 /\ scopeDepth + 1 \in Nat /\ scopeDepth + 2 \in Nat
      /\ \A k \in DOMAIN locals : locals[k].depth <= scopeDepth
  BY NowIs DEF Nesting
<1>1. anon \in Seq(Local) /\ Len(anon) = n /\ \A k \in DOMAIN anon : anon[k].depth = scopeDepth + 1
  <2>1. \A k \in 1..n : [depth |-> scopeDepth + 1, d |-> at + k - 1, named |-> FALSE] \in Local
    BY <1>0 DEF Local
  <2>2. anon \in [1..n -> Local] BY <2>1
  <2>3. DOMAIN anon = 1..n /\ \A k \in DOMAIN anon : anon[k].depth = scopeDepth + 1 OBVIOUS
  <2> HIDE DEF anon
  <2> QED BY <1>0, <2>2, <2>3
<1>2. x \in Local /\ x.depth = scopeDepth + 1 BY <1>0 DEF Local
<1>3. one \in Seq(Local) /\ Len(one) = 1 /\ \A k \in DOMAIN one : one[k].depth = scopeDepth + 1
  <2> HIDE DEF x
  <2> QED BY <1>2
<1>4. names \in Seq(Local) /\ Len(names) = n /\ \A k \in DOMAIN names : names[k].depth = scopeDepth + 2
  <2>1. [depth |-> scopeDepth + 2, d |-> iter, named |-> TRUE] \in Local BY <1>0 DEF Local
  <2>2. names \in [1..n -> Local] BY <2>1
  <2>3. DOMAIN names = 1..n /\ \A k \in DOMAIN names : names[k].depth = scopeDepth + 2 OBVIOUS
  <2> HIDE DEF names
  <2> QED BY <1>0, <2>2, <2>3
<1>5. counted = Append(ls, x) BY DEF addLocal
<1> HIDE DEF anon, x, names
<1>6. Joined(locals, anon, ls, scopeDepth + 1) BY <1>0, <1>1, Declared
<1>7. ls \in Seq(Local) BY <1>6 DEF Joined
<1> HIDE DEF ls, counted
<1>8. counted = ls \o one
  <2>1. Append(ls, x) = ls \o <<x>> BY <1>2, <1>7
  <2> QED BY <1>5, <2>1
<1> HIDE DEF one
<1>9. Joined(ls, one, counted, scopeDepth + 1) BY <1>0, <1>3, <1>7, <1>8, Declared
<1>10. counted \in Seq(Local) BY <1>9 DEF Joined
<1>11. Joined(counted, names, F, scopeDepth + 2) BY <1>0, <1>4, <1>10, Declared
<1> HIDE DEF F
<1>12. Streams(locals, Height, scopeDepth, n, counted, F)
  BY <1>0, <1>1, <1>3, <1>4, <1>6, <1>9, <1>11, Layered
<1> QED BY <1>12 DEF F, counted, ls, anon, names

(* The invariant is kept by the beginning of for-each.                     *)
LEMMA ForEachOpenCompiles == ASSUME Now, Tame, ForEachOpen PROVE Then
<1>0. /\ Ctx \in Context /\ Height \in Nat /\ Len(chunk) \in Nat /\ scopeDepth \in Nat
      /\ Here(chunk) \in Nat /\ Here(chunk) = Len(chunk) + 1 /\ chunk \in Seq(Instruction)
  BY NowIs DEF Here
<1>1. PICK n \in 1..2 :
       LET at == Here(chunk)
           ls == locals \o [k \in 1..n |-> [depth |-> scopeDepth + 1,
                                           d |-> at + k - 1, named |-> FALSE]]
           counted == addLocal(ls, scopeDepth + 1, at + n, FALSE)
           iter == at + n + 1
           names == [k \in 1..n |-> [depth |-> scopeDepth + 2, d |-> iter, named |-> TRUE]]
       IN  /\ chunk' = chunk \o [k \in 1..n |-> Ins("NATIVE", 0, 0, Height + k - 1)]
                         \o <<Ins("CONSTANT", 0, 0, Height + n),
                              Ins("FOR_ITER", 0, n, Height + n + 1)>>
           /\ locals' = counted \o names
           /\ loopStack' = Append(loopStack,
                 Loop(iter, Len(counted), TRUE, Len(counted) - 1))
           /\ open' = Append(open, Activation("foreach", "body", iter, n, 0))
  BY DEF ForEachOpen
<1> DEFINE at == Here(chunk)
           ls == locals \o [k \in 1..n |-> [depth |-> scopeDepth + 1,
                                           d |-> at + k - 1, named |-> FALSE]]
           counted == addLocal(ls, scopeDepth + 1, at + n, FALSE)
           iter == at + n + 1
           F == counted \o [k \in 1..n |-> [depth |-> scopeDepth + 2, d |-> iter, named |-> TRUE]]
           cN == chunk \o [k \in 1..n |-> Ins("NATIVE", 0, 0, Height + k - 1)]
           h1 == Height + n
           h2 == Height + n + 1
           h3 == Height + n + 1 + n
           i1 == InsIn(Ctx, "CONSTANT", 0, 0, {}, h1)
           i2 == InsIn(Ctx, "FOR_ITER", 0, n, {}, h2)
           c1 == Append(cN, i1)
           c == Append(c1, i2)
           l == Loop(iter, Len(counted), TRUE, Len(counted) - 1)
           o == Activation("foreach", "body", iter, n, 0)
           V == Holes \cup {iter}
<1>2. /\ n \in Nat /\ n >= 1 /\ at \in Nat /\ iter \in Nat /\ h1 \in Nat /\ h2 \in Nat /\ h3 \in Nat
      /\ h2 >= 1 + n /\ h3 = h2 + n /\ h2 = h1 + 1 /\ Height <= h2 /\ iter = Len(chunk) + n + 2
      /\ h2 - 1 \in Nat /\ h2 - 1 + 1 = h2
  BY <1>0
<1>3. /\ chunk' = cN \o <<i1, i2>> /\ locals' = F /\ loopStack' = Append(loopStack, l)
      /\ open' = Append(open, o) /\ scopeDepth' = scopeDepth + 3
  BY <1>1 DEF ForEachOpen, Ins
<1>4. Streams(locals, Height, scopeDepth, n, counted, F) BY <1>2, StreamLocals
<1>5. MayRaise BY DEF ForEachOpen
<1>6. Made(cN, h1, Ctx, Holes) /\ Len(cN) = Len(chunk) + n /\ Guarded(cN, Ctx, Height)
  BY <1>5, StreamsPushed
<1> HIDE DEF ls, counted, F, cN, at
<1>7. Made(c1, h2, Ctx, Holes) /\ On(cN, h1, Ctx, c1, h2, Ctx, 1)
  <2>1. Made(c1, h1 + 1, Ctx, Holes) /\ On(cN, h1, Ctx, c1, h1 + 1, Ctx, 1) BY <1>6, AddConstant
  <2> QED BY <1>2, <2>1
<1>8. /\ Guarded(c1, Ctx, Height) BY <1>6, <1>7, OnKeeps
<1>9. Here(c1) = iter
  <2>1. Len(c1) = Len(cN) + 1 BY <1>7 DEF On
  <2> QED BY <1>0, <1>2, <1>6, <2>1 DEF Here
<1>10. i1 \in Instruction /\ i2 \in Instruction /\ cN \in Seq(Instruction)
  BY <1>0, <1>2, <1>6, OpsAre, InsInIs DEF Made
<1> HIDE DEF iter, h1, h2, h3
<1>11. Made(c, h3, Ctx, V) /\ Waits(c, iter, "FOR_ITER", h2, Ctx)
  <2> HIDE DEF c1
  <2>1. Made(c, h3, Ctx, Holes \cup {Here(c1)}) /\ Waits(c, Here(c1), "FOR_ITER", h2, Ctx)
    BY <1>0, <1>2, <1>7, <1>8, AddBranch
  <2> QED BY <1>9, <2>1
<1>12. chunk' = c
  <2> HIDE DEF i1, i2
  <2>1. cN \o <<i1, i2>> = Append(Append(cN, i1), i2) BY <1>10, Cat2
  <2> QED BY <1>3, <2>1
<1> HIDE DEF c
<1>13. "foreach" \in Kinded /\ "body" \in Armed /\ 0 \in Nat BY DEF Kinded, Armed, LoopKinds
<1>14. Fresh(o, "foreach", "body", iter, n, 0) BY <1>2, <1>13, ActivationIs
<1>15. /\ F \in Seq(Local) /\ Len(counted) = h2 /\ Len(F) = h3
       /\ Deeper(locals, F, scopeDepth + 1)
       /\ Split(F, scopeDepth + 1, h2) /\ Split(F, scopeDepth + 2, h3)
       /\ \A k \in DOMAIN F : F[k].depth <= scopeDepth + 3
  BY <1>4 DEF Streams, h2, h3
<1>16. /\ l \in LoopRecord /\ l.step = iter /\ l.count = h2 /\ l.each /\ l.iter + 1 = h2
       /\ l.breaks = {} /\ l.continues = {}
  BY <1>2, <1>15 DEF Loop, LoopRecord
<1> HIDE DEF o, l, V
<1>17. /\ o.kind = "foreach" /\ o.a = iter /\ o.b = n /\ o.h = Height /\ o \in Statement /\ o.d = scopeDepth
  BY <1>14 DEF Fresh
<1>18. IsLoop(o) /\ Extra(o) = 3 BY <1>17, ExtraIs DEF IsLoop, LoopKinds
<1>19. LoopOK(o, l, F)
  <2>1. l.count = o.h + o.b + 1 /\ l.count + o.b = h3 BY <1>2, <1>16, <1>17 DEF h2
  <2> QED BY <1>2, <1>15, <1>16, <1>17, <2>1 DEF LoopOK
<1>20. Expects(c, MarkIn(h3, Ctx), o, Ctx, l) BY <1>11, <1>16, <1>17, <1>18 DEF Expects
<1>21. V \subseteq Holes \cup HolesOf(o)
  <2>1. HolesOf(o) = {iter} BY <1>17, HolesOfIs
  <2> QED BY <2>1 DEF V
<1>22. Working(c, Append(open, o), F, scopeDepth + 3, Append(loopStack, l))
  <2>1. scopeDepth + 3 = scopeDepth + Extra(o) BY <1>18
  <2>2. "foreach" # "try" /\ ("foreach" = "do" => F = locals) /\ h3 = Len(F) BY <1>15
  <2>3. Working(c, Append(open, o), F, scopeDepth + 3,
                IF IsLoop(o) THEN Append(loopStack, l) ELSE loopStack)
    BY <1>11, <1>14, <1>15, <1>16, <1>19, <1>20, <1>21, <2>1, <2>2, BlockOpened
  <2> QED BY <1>18, <2>3
<1> QED BY <1>3, <1>12, <1>22 DEF Then

----------------------------------------------------------------------------
(* Statements that go on or end.                                           *)

(* The innermost open statement.                                           *)
Around == Outer(open, Len(open))

(* What is known of the innermost statement.                               *)
LEMMA CurIs ==
  ASSUME Now, open # <<>>
  PROVE  /\ Cur \in Statement /\ Cur = open[Len(open)] /\ Len(open) \in DOMAIN open
         /\ Cur.ctx = Ctx /\ Around \in Context
         /\ scopeDepth = Cur.d + Extra(Cur) /\ Cur.d \in Nat /\ Cur.h \in Nat
         /\ Split(locals, Cur.d, Cur.h) /\ Cur.h <= Height
         /\ Within(Cur, Around) /\ Intercepted(chunk, Cur)
         /\ Expects(chunk, MarkIn(Height, Ctx), Cur, Around, loopStack[Cur.n + 1])
         /\ Cur.kind # "try" => Ctx = Around
         /\ HolesOf(Cur) \subseteq Holes
<1>1. /\ open \in Seq(Statement) /\ locals \in Seq(Local) /\ scopeDepth \in Nat
      /\ loopStack \in Seq(LoopRecord) /\ Nesting(open, locals, scopeDepth, loopStack) /\ Contexts(open)
      /\ MarkOf(open, locals) = MarkIn(Height, Ctx) /\ Height = Len(locals)
  BY NowIs
<1>2. /\ Cur \in Statement /\ Cur = open[Len(open)] /\ Len(open) \in DOMAIN open
  BY <1>1, LastIs DEF Cur
<1>3. Cur.ctx = Ctx BY DEF Cur, Ctx
<1>4. Around \in Context BY <1>1, <1>2, WithinTypes DEF Around
<1>5. /\ Split(locals, Cur.d, Cur.h) /\ scopeDepth = Cur.d + Extra(Cur)
  BY <1>1, NestingPop DEF Cur
<1>6. Cur.d \in Nat /\ Cur.h \in Nat BY <1>2, ExtraIs
<1>7. Cur.h <= Height BY <1>1, <1>5 DEF Split
<1>8. Within(Cur, Around) BY <1>1, <1>2 DEF Around, Contexts
<1>9. /\ Expects(chunk, MarkIn(Height, Ctx), Cur, Around, loopStack[Cur.n + 1])
      /\ Intercepted(chunk, Cur)
  BY <1>1, <1>2 DEF Now, Working, Around
<1>10. Cur.kind # "try" => Ctx = Around BY <1>3, <1>8 DEF Within
<1>11. HolesOf(Cur) \subseteq Holes BY <1>2, HolesAre DEF Holes
<1> QED BY <1>2, <1>3, <1>4, <1>5, <1>6, <1>7, <1>8, <1>9, <1>10, <1>11

(* The loop of the innermost open statement, if it is one.                 *)
LEMMA CurLoopIs ==
  ASSUME Now, open # <<>>, IsLoop(Cur)
  PROVE  /\ Last(loopStack) \in LoopRecord /\ Last(loopStack) = loopStack[Cur.n + 1]
         /\ LoopOK(Cur, Last(loopStack), locals)
         /\ Last(loopStack).breaks \subseteq Holes /\ Last(loopStack).continues \subseteq Holes
         /\ Last(loopStack).count \in Nat
<1>1. /\ open \in Seq(Statement) /\ locals \in Seq(Local) /\ scopeDepth \in Nat
      /\ loopStack \in Seq(LoopRecord) /\ Nesting(open, locals, scopeDepth, loopStack)
  BY NowIs
<1>2. /\ LoopOK(Cur, Last(loopStack), locals) /\ Last(loopStack) = loopStack[Cur.n + 1]
      /\ Last(loopStack) \in LoopRecord /\ Len(loopStack) \in DOMAIN loopStack
  BY <1>1, NestingPop DEF Cur
<1>3. Last(loopStack) = loopStack[Len(loopStack)] BY DEF Last
<1>4. Last(loopStack).breaks \cup Last(loopStack).continues \subseteq Holes
  BY <1>2, <1>3, HolesAre DEF Holes
<1> QED BY <1>2, <1>4, LoopIs

(* The code of the end of a scope.                                         *)
LEMMA ScopeEnded ==
  ASSUME Now, NEW ls \in Seq(Local), NEW d \in Int, NEW m \in Nat, Split(ls, d, m),
         NEW c, NEW W, Made(c, Len(ls), Ctx, W)
  PROVE  /\ Kept(ls, d) = SubSeq(ls, 1, m) /\ Len(Kept(ls, d)) = m /\ Kept(ls, d) \in Seq(Local)
         /\ m <= Len(ls)
         /\ Made(c \o EndScopeCode(ls, d), m, Ctx, W)
         /\ On(c, Len(ls), Ctx, c \o EndScopeCode(ls, d), m, Ctx, Len(ls) - m)
<1>1. m <= Len(ls) /\ Len(ls) \in Nat /\ m \in 0..Len(ls) BY DEF Split
<1>2. Kept(ls, d) = SubSeq(ls, 1, m) BY KeptIs
<1>3. Len(SubSeq(ls, 1, m)) = m /\ SubSeq(ls, 1, m) \in Seq(Local) BY <1>1, CutIs
<1> DEFINE n == Len(ls) - m
           h == Len(ls)
<1>4. n \in Nat /\ n <= h /\ h - n = m BY <1>1
<1>5. EndScopeCode(ls, d) = Pops(n, h) BY <1>2, <1>3 DEF EndScopeCode
<1>6. h = Len(ls) OBVIOUS
<1> HIDE DEF n, h
<1>7. Made(c \o Pops(n, h), h - n, Ctx, W) /\ On(c, h, Ctx, c \o Pops(n, h), h - n, Ctx, n)
  BY <1>4, <1>6, AddPops
<1> QED BY <1>1, <1>2, <1>3, <1>4, <1>5, <1>6, <1>7 DEF n

(* The code at the end of a block.                                         *)
LEMMA BlockEnded ==
  ASSUME Now, NEW m \in Nat, Split(locals, scopeDepth - 1, m)
  PROVE  /\ After = SubSeq(locals, 1, m) /\ EndHeight = m /\ m <= Height /\ After \in Seq(Local)
         /\ Made(BlockEnd, m, Ctx, Holes) /\ On(chunk, Height, Ctx, BlockEnd, m, Ctx, Height - m)
<1>1. /\ locals \in Seq(Local) /\ scopeDepth - 1 \in Int /\ Height = Len(locals)
      /\ Made(chunk, Len(locals), Ctx, Holes)
  BY NowIs
<1>2. /\ Kept(locals, scopeDepth - 1) = SubSeq(locals, 1, m) /\ Len(Kept(locals, scopeDepth - 1)) = m
      /\ Kept(locals, scopeDepth - 1) \in Seq(Local) /\ m <= Len(locals)
      /\ Made(chunk \o EndScopeCode(locals, scopeDepth - 1), m, Ctx, Holes)
      /\ On(chunk, Len(locals), Ctx, chunk \o EndScopeCode(locals, scopeDepth - 1), m, Ctx, Len(locals) - m)
  BY <1>1, ScopeEnded
<1> QED BY <1>1, <1>2 DEF After, EndHeight, BlockEnd

(* The innermost statement is closed.                                      *)
LEMMA BlockClosed ==
  ASSUME Now, open # <<>>, NEW c, NEW V, Made(c, Cur.h, Around, V), V \subseteq Holes,
         V \cap HolesOf(Cur) = {},
         IsLoop(Cur) => V \cap (Last(loopStack).breaks \cup Last(loopStack).continues) = {}
  PROVE  Working(c, ButLast(open, 1), SubSeq(locals, 1, Cur.h), Cur.d,
                 IF IsLoop(Cur) THEN ButLast(loopStack, 1) ELSE loopStack)
<1>1. /\ Grown(chunk, MarkOf(open, locals), c, MarkIn(Cur.h, Around), V) BY NowIs DEF Made
<1> QED BY <1>1, Closed DEF Now, Cur, Around, Holes

(* The innermost statement goes on with another block.                     *)
LEMMA BlockTurned ==
  ASSUME Now, open # <<>>, NEW o2 \in Statement, o2.kind = Cur.kind, o2.kind # "try", o2.kind # "do",
         o2.h = Cur.h, o2.d = Cur.d, o2.n = Cur.n, o2.ctx = Ctx,
         NEW m \in Nat, Cur.h <= m, Split(locals, scopeDepth - 1, m),
         IsLoop(o2) => LoopOK(o2, Last(loopStack), SubSeq(locals, 1, m)),
         NEW c, NEW V, Made(c, m, Ctx, V), V \subseteq Holes \cup HolesOf(o2),
         \A p \in V : p \in HolesOf(Cur) => p \in HolesOf(o2),
         Expects(c, MarkIn(m, Ctx), o2, Around, loopStack[o2.n + 1])
  PROVE  Working(c, SetLast(open, o2), SubSeq(locals, 1, m), scopeDepth, loopStack)
<1>1. /\ locals \in Seq(Local) /\ scopeDepth \in Nat /\ Height = Len(locals) /\ DOMAIN locals = 1..Len(locals)
      /\ MarkOf(open, locals) = MarkIn(Height, Ctx) /\ Working(chunk, open, locals, scopeDepth, loopStack)
  BY NowIs DEF Now
<1>2. /\ Cur \in Statement /\ scopeDepth = Cur.d + Extra(Cur) /\ Cur.h \in Nat /\ Ctx = Around
  BY CurIs
<1>3. Extra(o2) = Extra(Cur) /\ Cur = Last(open)
  <2>1. ~InBody(o2) /\ ~InBody(Cur) BY DEF InBody
  <2> QED BY <2>1 DEF Extra, Cur
<1>4. m \in Last(open).h..Len(locals) BY <1>1, <1>2, <1>3 DEF Split
<1>5. \A j \in 1..m : locals[j].depth <= o2.d + Extra(o2)
  <2> TAKE j \in 1..m
  <2>1. j \in DOMAIN locals BY <1>1, <1>4
  <2>2. locals[j].depth <= scopeDepth - 1 BY <2>1 DEF Split
  <2>3. locals[j] \in Local BY <1>1, <2>1
  <2>4. locals[j].depth \in Nat BY <2>3 DEF Local
  <2> QED BY <1>1, <1>2, <1>3, <2>2, <2>4
<1>6. Within(o2, Outer(open, Len(open))) BY <1>2 DEF Within, Around
<1>7. Evolved(chunk, MarkOf(open, locals), c, MarkIn(m, o2.ctx), V, 0)
  <2>1. Grown(chunk, MarkIn(Height, Ctx), c, MarkIn(m, Ctx), V) BY DEF Made
  <2>2. Sound(chunk, MarkIn(Height, Ctx), Holes) BY NowIs DEF Made, Grown
  <2> QED BY <1>1, <2>1, <2>2, GrownEvolved
<1>8. Intercepted(c, o2) BY DEF Intercepted
<1>9. Working(c, SetLast(open, o2), SubSeq(locals, 1, m), o2.d + Extra(o2), loopStack)
  <2>1. /\ o2.kind = Last(open).kind /\ o2.h = Last(open).h /\ o2.d = Last(open).d /\ o2.n = Last(open).n
        /\ o2.kind = "try" => o2.a = Last(open).a
        /\ InBody(o2) \/ o2.kind = "do" => m = o2.h
        /\ 0 = 0 \/ (o2.kind = "try" /\ 0 = o2.a)
        /\ V \subseteq HolesIn(open, loopStack) \cup HolesOf(o2)
        /\ \A p \in V : p \in HolesOf(Last(open)) => p \in HolesOf(o2)
        /\ Expects(c, MarkIn(m, o2.ctx), o2, Outer(open, Len(open)), loopStack[o2.n + 1])
    BY <1>3 DEF InBody, Holes, Around
  <2> QED BY <1>1, <1>4, <1>5, <1>6, <1>7, <1>8, <2>1, Turned
<1> QED BY <1>1, <1>2, <1>3, <1>9

(* An if statement at the end of an arm.                                   *)
LEMMA IfIs ==
  ASSUME Now, NEW arm, Inside("if", arm)
  PROVE  /\ open # <<>> /\ Cur.kind = "if" /\ Cur.arm = arm /\ Cur \in Statement /\ Ctx = Around
         /\ Cur.h \in Nat /\ Split(locals, scopeDepth - 1, Cur.h) /\ scopeDepth = Cur.d + 1 /\ Cur.d \in Nat
         /\ After = SubSeq(locals, 1, Cur.h) /\ EndHeight = Cur.h
         /\ Made(BlockEnd, Cur.h, Ctx, Holes) /\ ~IsLoop(Cur)
         /\ \A p \in Cur.jumps : Waits(BlockEnd, p, "JUMP", Cur.h, Ctx)
         /\ arm = "then" => Waits(BlockEnd, Cur.j, "JUMP_IF_FALSE", Cur.h + 1, Ctx)
<1>1. open # <<>> /\ Cur.kind = "if" /\ Cur.arm = arm BY DEF Inside, Cur
<1>2. /\ Cur \in Statement /\ scopeDepth = Cur.d + Extra(Cur) /\ Cur.d \in Nat /\ Cur.h \in Nat
      /\ Split(locals, Cur.d, Cur.h) /\ Ctx = Around
      /\ Expects(chunk, MarkIn(Height, Ctx), Cur, Around, loopStack[Cur.n + 1])
  BY <1>1, CurIs
<1>3. Extra(Cur) = 1 /\ ~IsLoop(Cur) BY <1>1, <1>2, ExtraIs
<1>4. scopeDepth - 1 = Cur.d BY <1>2, <1>3
<1>5. Split(locals, scopeDepth - 1, Cur.h) BY <1>2, <1>4
<1>6. /\ After = SubSeq(locals, 1, Cur.h) /\ EndHeight = Cur.h
      /\ Made(BlockEnd, Cur.h, Ctx, Holes) /\ On(chunk, Height, Ctx, BlockEnd, Cur.h, Ctx, Height - Cur.h)
  BY <1>2, <1>5, BlockEnded
<1>7. /\ \A p \in Cur.jumps : Waits(chunk, p, "JUMP", Cur.h, Ctx)
      /\ arm = "then" => Waits(chunk, Cur.j, "JUMP_IF_FALSE", Cur.h + 1, Ctx)
  BY <1>1, <1>2 DEF Expects
<1>8. /\ \A p \in Cur.jumps : Waits(BlockEnd, p, "JUMP", Cur.h, Ctx)
      /\ arm = "then" => Waits(BlockEnd, Cur.j, "JUMP_IF_FALSE", Cur.h + 1, Ctx)
  BY <1>6, <1>7, OnKeeps
<1> QED BY <1>1, <1>2, <1>3, <1>5, <1>6, <1>8

(* The end of an arm and the landing of its condition's jump.              *)
LEMMA NextArmIs ==
  ASSUME Now, Inside("if", "then")
  PROVE  /\ Made(NextArm, Cur.h, Ctx, (Holes \cup {Len(ArmEnd)}) \ {Cur.j})
         /\ \A p \in ArmExits : Waits(NextArm, p, "JUMP", Cur.h, Ctx)
         /\ ArmExits \in SUBSET Nat
<1> DEFINE h == Cur.h
           W == Holes \cup {Len(ArmEnd)}
           c1 == Append(BlockEnd, InsIn(Ctx, "JUMP", 0, 0, {}, h))
           c2 == Patch(c1, {Cur.j})
           c3 == Append(c2, InsIn(Ctx, "POP", 0, 0, {}, h + 1))
<1>1. /\ h \in Nat /\ h + 1 \in Nat /\ EndHeight = h /\ Made(BlockEnd, h, Ctx, Holes) /\ Cur \in Statement
      /\ \A p \in Cur.jumps : Waits(BlockEnd, p, "JUMP", h, Ctx)
      /\ Waits(BlockEnd, Cur.j, "JUMP_IF_FALSE", h + 1, Ctx)
  BY IfIs
<1>2. /\ Made(c1, h + 1, Ctx, Holes \cup {Here(BlockEnd)})
      /\ On(BlockEnd, h, Ctx, c1, h + 1, Ctx, 1) /\ Waits(c1, Here(BlockEnd), "JUMP", h, Ctx)
  BY <1>1, AddJump
<1>3. ArmEnd = c1 BY <1>1 DEF ArmEnd, Ins
<1>4. Len(ArmEnd) = Here(BlockEnd) /\ Len(ArmEnd) \in Nat BY <1>2, <1>3 DEF On, Here, Made
<1>5. NextArm = c3 BY <1>1, <1>3 DEF NextArm, Ins
<1> HIDE DEF c1, h
<1>6. /\ \A p \in ArmExits : Waits(c1, p, "JUMP", h, Ctx)
      /\ Waits(c1, Cur.j, "JUMP_IF_FALSE", h + 1, Ctx)
  BY <1>1, <1>2, <1>4, OnKeeps DEF ArmExits
<1>7. AllWait(c1, {Cur.j}, h + 1, Ctx) BY <1>6 DEF AllWait, Branches
<1>8. Made(c2, h + 1, Ctx, W \ {Cur.j}) /\ On(c1, h + 1, Ctx, c2, h + 1, Ctx, 0)
  <2>1. Made(c1, h + 1, Ctx, W) BY <1>2, <1>4
  <2> HIDE DEF W
  <2> QED BY <1>7, <2>1, AddPatch
<1> HIDE DEF c2, W
<1>9. Made(c3, h, Ctx, W \ {Cur.j}) /\ On(c2, h + 1, Ctx, c3, h, Ctx, 1) BY <1>1, <1>8, AddPop
<1> HIDE DEF c3
<1>10. \A p \in ArmExits : Waits(c3, p, "JUMP", h, Ctx) BY <1>6, <1>8, <1>9, OnKeeps
<1>11. ArmExits \in SUBSET Nat
  <2>1. Cur.jumps \in SUBSET Nat BY <1>1, ExtraIs
  <2> QED BY <1>4, <2>1 DEF ArmExits
<1> QED BY <1>5, <1>9, <1>10, <1>11 DEF W, h

(* The invariant is kept by elif.                                          *)
LEMMA ElifCompiles == ASSUME Now, Elif PROVE Then
<1> DEFINE h == Cur.h
           j == Len(NextArm) + 2
           c == NextArm \o Condition(h)
           W == (Holes \cup {Len(ArmEnd)}) \ {Cur.j}
           V == W \cup {j}
           o2 == [Cur EXCEPT !.jumps = ArmExits, !.j = j]
<1>0. Inside("if", "then") BY DEF Elif
<1>1. /\ open # <<>> /\ Cur.kind = "if" /\ Cur.arm = "then" /\ Cur \in Statement
      /\ h \in Nat /\ Split(locals, scopeDepth - 1, h)
      /\ After = SubSeq(locals, 1, h) /\ EndHeight = h /\ Ctx = Around
  BY <1>0, IfIs
<1>2. /\ chunk' = c /\ open' = SetLast(open, o2) /\ locals' = SubSeq(locals, 1, h)
      /\ scopeDepth' = scopeDepth /\ loopStack' = loopStack
  BY <1>1 DEF Elif
<1>3. /\ Made(NextArm, h, Ctx, W) /\ ArmExits \in SUBSET Nat
      /\ \A p \in ArmExits : Waits(NextArm, p, "JUMP", h, Ctx)
  BY <1>0, NextArmIs
<1> HIDE DEF W
<1>4. /\ Made(c, h, Ctx, V) /\ On(NextArm, h, Ctx, c, h, Ctx, 3)
      /\ Waits(c, j, "JUMP_IF_FALSE", h + 1, Ctx)
  BY <1>3, AddCondition
<1>5. \A p \in ArmExits : Waits(c, p, "JUMP", h, Ctx) BY <1>3, <1>4, OnKeeps
<1>6. j \in Nat BY <1>3 DEF Made
<1> HIDE DEF c, j
<1>7. Cur.ctx = Ctx BY <1>1, CurIs
<1> DEFINE o == Cur
<1>8. /\ o2 \in Statement /\ o2.kind = "if" /\ o2.arm = "then" /\ o2.h = h /\ o2.d = Cur.d /\ o2.n = Cur.n
      /\ o2.ctx = Ctx /\ o2.j = j /\ o2.jumps = ArmExits
  BY <1>1, <1>3, <1>6, <1>7 DEF Statement
<1> HIDE DEF o2
<1>9. ~IsLoop(o2) BY <1>8 DEF IsLoop, LoopKinds
<1>10. Expects(c, MarkIn(h, Ctx), o2, Around, loopStack[o2.n + 1])
  BY <1>1, <1>4, <1>5, <1>8, <1>9 DEF Expects
<1>11. HolesOf(o2) = ArmExits \cup {j} /\ HolesOf(Cur) = Cur.jumps \cup {Cur.j}
  BY <1>1, <1>8, HolesOfIs
<1>12. ArmExits = Cur.jumps \cup {Len(ArmEnd)} BY DEF ArmExits
<1>13. V \subseteq Holes \cup HolesOf(o2) /\ \A p \in V : p \in HolesOf(Cur) => p \in HolesOf(o2)
  BY <1>11, <1>12 DEF W
<1> HIDE DEF V
<1>14. Cur.h <= h BY <1>1
<1>15. Working(c, SetLast(open, o2), SubSeq(locals, 1, h), scopeDepth, loopStack)
  <2>1. o2.kind = Cur.kind /\ o2.kind # "try" /\ o2.kind # "do" /\ o2.h = Cur.h BY <1>1, <1>8
  <2> HIDE DEF h
  <2> QED BY <1>1, <1>4, <1>8, <1>9, <1>10, <1>13, <1>14, <2>1, BlockTurned
<1> QED BY <1>2, <1>15 DEF Then, c

(* The invariant is kept by else.                                          *)
LEMMA ElseCompiles == ASSUME Now, Else PROVE Then
<1> DEFINE h == Cur.h
           c == NextArm
           V == (Holes \cup {Len(ArmEnd)}) \ {Cur.j}
           o2 == [Cur EXCEPT !.jumps = ArmExits, !.arm = "else"]
<1>0. Inside("if", "then") BY DEF Else
<1>1. /\ open # <<>> /\ Cur.kind = "if" /\ Cur.arm = "then" /\ Cur \in Statement
      /\ h \in Nat /\ Split(locals, scopeDepth - 1, h)
      /\ After = SubSeq(locals, 1, h) /\ EndHeight = h /\ Ctx = Around
  BY <1>0, IfIs
<1>2. /\ chunk' = c /\ open' = SetLast(open, o2) /\ locals' = SubSeq(locals, 1, h)
      /\ scopeDepth' = scopeDepth /\ loopStack' = loopStack
  BY <1>1 DEF Else
<1>3. /\ Made(c, h, Ctx, V) /\ ArmExits \in SUBSET Nat
      /\ \A p \in ArmExits : Waits(c, p, "JUMP", h, Ctx)
  BY <1>0, NextArmIs
<1> HIDE DEF c
<1>7. Cur.ctx = Ctx BY <1>1, CurIs
<1>8. /\ o2 \in Statement /\ o2.kind = "if" /\ o2.arm = "else" /\ o2.h = h /\ o2.d = Cur.d /\ o2.n = Cur.n
      /\ o2.ctx = Ctx /\ o2.jumps = ArmExits
  BY <1>1, <1>3, <1>7 DEF Statement
<1> HIDE DEF o2
<1>9. ~IsLoop(o2) BY <1>8 DEF IsLoop, LoopKinds
<1>10. Expects(c, MarkIn(h, Ctx), o2, Around, loopStack[o2.n + 1])
  BY <1>1, <1>3, <1>8, <1>9 DEF Expects
<1>11. HolesOf(o2) = ArmExits /\ HolesOf(Cur) = Cur.jumps \cup {Cur.j}
  <2>1. o2.arm # "then" BY <1>8
  <2> QED BY <1>1, <1>8, <2>1, HolesOfIs
<1>12. ArmExits = Cur.jumps \cup {Len(ArmEnd)} BY DEF ArmExits
<1>13. V \subseteq Holes \cup HolesOf(o2) /\ \A p \in V : p \in HolesOf(Cur) => p \in HolesOf(o2)
  BY <1>11, <1>12
<1> HIDE DEF V
<1>14. Cur.h <= h BY <1>1
<1>15. Working(c, SetLast(open, o2), SubSeq(locals, 1, h), scopeDepth, loopStack)
  <2>1. o2.kind = Cur.kind /\ o2.kind # "try" /\ o2.kind # "do" /\ o2.h = Cur.h BY <1>1, <1>8
  <2> HIDE DEF h
  <2> QED BY <1>1, <1>3, <1>8, <1>9, <1>10, <1>13, <1>14, <2>1, BlockTurned
<1> QED BY <1>2, <1>15 DEF Then, c

(* The invariant is kept by the end of if.                                 *)
LEMMA IfCloseCompiles == ASSUME Now, IfClose PROVE Then
<1> DEFINE h == Cur.h
<1>0. \/ Inside("if", "then") /\ chunk' = Patch(NextArm, ArmExits)
      \/ Inside("if", "else") /\ chunk' = Patch(BlockEnd, Cur.jumps)
  BY DEF IfClose
<1>1. PICK arm \in {"then", "else"} : Inside("if", arm) BY <1>0
<1>2. /\ open # <<>> /\ Cur.kind = "if" /\ Cur.arm = arm /\ Cur \in Statement
      /\ h \in Nat /\ After = SubSeq(locals, 1, h) /\ Ctx = Around /\ ~IsLoop(Cur)
      /\ scopeDepth = Cur.d + 1 /\ Cur.d \in Nat
  BY <1>1, IfIs
<1>3. /\ open' = ButLast(open, 1) /\ locals' = SubSeq(locals, 1, h)
      /\ scopeDepth' = Cur.d /\ loopStack' = loopStack
  BY <1>2 DEF IfClose, Close
<1>4. ASSUME NEW V, Made(chunk', h, Around, V), V \subseteq Holes, V \cap HolesOf(Cur) = {}
      PROVE  Then
  <2> DEFINE c == chunk'
  <2>1. Made(c, Cur.h, Around, V) BY <1>4
  <2> HIDE DEF c
  <2>2. Working(c, ButLast(open, 1), SubSeq(locals, 1, Cur.h), Cur.d,
                IF IsLoop(Cur) THEN ButLast(loopStack, 1) ELSE loopStack)
    BY <1>2, <1>4, <2>1, BlockClosed
  <2> QED BY <1>2, <1>3, <2>2 DEF Then, c
<1>5. CASE Inside("if", "then") /\ chunk' = Patch(NextArm, ArmExits)
  <2> DEFINE W == (Holes \cup {Len(ArmEnd)}) \ {Cur.j}
  <2>1. Made(NextArm, h, Ctx, W) /\ \A p \in ArmExits : Waits(NextArm, p, "JUMP", h, Ctx)
    BY <1>5, NextArmIs
  <2>2. AllWait(NextArm, ArmExits, h, Ctx) BY <2>1 DEF AllWait, Branches
  <2> HIDE DEF W
  <2>3. Made(Patch(NextArm, ArmExits), h, Ctx, W \ ArmExits) BY <2>1, <2>2, AddPatch
  <2>4. Cur.arm = "then" BY <1>5, IfIs
  <2>5. HolesOf(Cur) = Cur.jumps \cup {Cur.j} BY <1>2, <2>4, HolesOfIs
  <2>6. W \ ArmExits \subseteq Holes /\ (W \ ArmExits) \cap HolesOf(Cur) = {} BY <2>5 DEF W, ArmExits
  <2> QED BY <1>2, <1>4, <1>5, <2>3, <2>6
<1>6. CASE Inside("if", "else") /\ chunk' = Patch(BlockEnd, Cur.jumps)
  <2>1. Made(BlockEnd, h, Ctx, Holes) /\ \A p \in Cur.jumps : Waits(BlockEnd, p, "JUMP", h, Ctx)
    BY <1>6, IfIs
  <2>2. AllWait(BlockEnd, Cur.jumps, h, Ctx) BY <2>1 DEF AllWait, Branches
  <2>3. Made(Patch(BlockEnd, Cur.jumps), h, Ctx, Holes \ Cur.jumps) BY <2>1, <2>2, AddPatch
  <2>4. Cur.arm = "else" BY <1>6, IfIs
  <2>5. HolesOf(Cur) = Cur.jumps
    <3>1. Cur.arm # "then" BY <2>4
    <3> QED BY <1>2, <3>1, HolesOfIs
  <2>6. Holes \ Cur.jumps \subseteq Holes /\ (Holes \ Cur.jumps) \cap HolesOf(Cur) = {} BY <2>5
  <2> QED BY <1>2, <1>4, <1>6, <2>3, <2>6
<1> QED BY <1>0, <1>5, <1>6

(* The loop that is closed: its block, and the jumps that leave it.        *)
LEMMA LoopEnds ==
  ASSUME Now, NEW kind \in LoopKinds, NEW arm, Inside(kind, arm)
  PROVE  LET l == Last(loopStack) IN
         /\ open # <<>> /\ Cur.kind = kind /\ Cur.arm = arm /\ Cur \in Statement /\ Ctx = Around
         /\ IsLoop(Cur) /\ Cur.h \in Nat /\ Cur.d \in Nat /\ Cur.a \in Nat /\ Cur.b \in Nat /\ Cur.j \in Nat
         /\ scopeDepth = Cur.d + Extra(Cur)
         /\ Split(locals, Cur.d, Cur.h) /\ l.count \in Nat /\ LoopOK(Cur, l, locals)
         /\ l.breaks \subseteq Holes /\ l.continues \subseteq Holes /\ HolesOf(Cur) \subseteq Holes
         /\ Expects(chunk, MarkIn(Height, Ctx), Cur, Ctx, l) /\ l = loopStack[Cur.n + 1]
         /\ \A p \in l.breaks \cup l.continues : Waits(chunk, p, "JUMP", l.count, Ctx)
         /\ chunk \in Seq(Instruction) /\ locals \in Seq(Local) /\ Made(chunk, Height, Ctx, Holes)
         /\ Height = Len(locals) /\ Ctx \in Context
<1> DEFINE l == Last(loopStack)
<1>1. open # <<>> /\ Cur.kind = kind /\ Cur.arm = arm BY DEF Inside, Cur
<1>2. IsLoop(Cur) /\ kind # "try" BY <1>1 DEF IsLoop, LoopKinds
<1>3. /\ Cur \in Statement /\ scopeDepth = Cur.d + Extra(Cur) /\ Cur.d \in Nat /\ Cur.h \in Nat
      /\ Split(locals, Cur.d, Cur.h) /\ Ctx = Around
      /\ Expects(chunk, MarkIn(Height, Ctx), Cur, Around, loopStack[Cur.n + 1])
      /\ HolesOf(Cur) \subseteq Holes
  BY <1>1, <1>2, CurIs
<1>4. /\ l = loopStack[Cur.n + 1] /\ LoopOK(Cur, l, locals) /\ l.count \in Nat
      /\ l.breaks \subseteq Holes /\ l.continues \subseteq Holes
  BY <1>1, <1>2, CurLoopIs
<1>5. Cur.a \in Nat /\ Cur.b \in Nat /\ Cur.j \in Nat BY <1>3, ExtraIs
<1> HIDE DEF l
<1>6. Expects(chunk, MarkIn(Height, Ctx), Cur, Ctx, l) BY <1>3, <1>4
<1>7. \A p \in l.breaks \cup l.continues : Waits(chunk, p, "JUMP", l.count, Ctx) BY <1>2, <1>6 DEF Expects
<1>8. /\ chunk \in Seq(Instruction) /\ locals \in Seq(Local) /\ Made(chunk, Height, Ctx, Holes)
      /\ Height = Len(locals) /\ Ctx \in Context
  BY NowIs
<1> QED BY <1>1, <1>2, <1>3, <1>4, <1>5, <1>6, <1>7, <1>8 DEF l

(* A loop that ends keeps the invariant.                                   *)
LEMMA LoopClosed ==
  ASSUME Now, NEW kind \in LoopKinds, NEW arm, Inside(kind, arm),
         open' = ButLast(open, 1), locals' = SubSeq(locals, 1, Cur.h), scopeDepth' = Cur.d,
         loopStack' = ButLast(loopStack, 1),
         NEW c, c = chunk', NEW V, Made(c, Cur.h, Ctx, V), V \subseteq Holes, V \cap HolesOf(Cur) = {},
         V \cap (Last(loopStack).breaks \cup Last(loopStack).continues) = {}
  PROVE  Then
<1>1. open # <<>> /\ IsLoop(Cur) /\ Ctx = Around BY LoopEnds
<1>2. Working(c, ButLast(open, 1), SubSeq(locals, 1, Cur.h), Cur.d,
              IF IsLoop(Cur) THEN ButLast(loopStack, 1) ELSE loopStack)
  BY <1>1, BlockClosed
<1> QED BY <1>1, <1>2 DEF Then

(* The invariant is kept by the end of while.                              *)
LEMMA WhileCloseCompiles == ASSUME Now, WhileClose PROVE Then
<1> DEFINE h == Cur.h
           l == Last(loopStack)
           looped == Append(BlockEnd, Ins("LOOP", Cur.a, 0, EndHeight))
           exited == Patch(looped, {Cur.j})
           popped == IF Cur.arm = "lt" THEN exited
                     ELSE Append(exited, Ins("POP", 0, 0, EndHeight + 1))
<1>0. "while" \in LoopKinds BY DEF LoopKinds
<1>1. PICK arm \in {"cond", "lt"} : Inside("while", arm) BY DEF WhileClose
<1>2. /\ open # <<>> /\ Cur.kind = "while" /\ Cur.arm = arm /\ Cur \in Statement
      /\ h \in Nat /\ h + 1 \in Nat /\ Cur.d \in Nat /\ Cur.a \in Nat
      /\ scopeDepth = Cur.d + Extra(Cur) /\ LoopOK(Cur, l, locals)
      /\ l.breaks \subseteq Holes
      /\ Expects(chunk, MarkIn(Height, Ctx), Cur, Ctx, l)
      /\ \A p \in l.breaks : Waits(chunk, p, "JUMP", l.count, Ctx)
  BY <1>0, <1>1, LoopEnds
<1>3. scopeDepth - 1 = Cur.d + 1 /\ scopeDepth - 2 = Cur.d BY <1>2, ExtraIs
<1>4. l.count = h /\ Split(locals, Cur.d + 1, h) /\ l.continues = {} BY <1>2 DEF LoopOK
<1>5. /\ After = SubSeq(locals, 1, h) /\ EndHeight = h /\ Made(BlockEnd, h, Ctx, Holes)
      /\ On(chunk, Height, Ctx, BlockEnd, h, Ctx, Height - h)
  BY <1>2, <1>3, <1>4, BlockEnded
<1>6. /\ chunk' = Patch(popped, l.breaks) /\ locals' = SubSeq(locals, 1, h) /\ scopeDepth' = Cur.d
      /\ loopStack' = ButLast(loopStack, 1) /\ open' = ButLast(open, 1)
  BY <1>3, <1>5 DEF WhileClose, Close
<1>7. looped = Append(BlockEnd, InsIn(Ctx, "LOOP", Cur.a, 0, {}, h)) BY <1>5 DEF Ins
<1>8. /\ Begun(chunk, MarkIn(Height, Ctx), Cur.a, h, Ctx)
      /\ arm = "lt" => Waits(chunk, Cur.j, "JUMP_IF_NOT_LT", h, Ctx)
      /\ arm = "cond" => Waits(chunk, Cur.j, "JUMP_IF_FALSE", h + 1, Ctx)
  BY <1>2 DEF Expects
<1>9. /\ Begun(BlockEnd, MarkIn(h, Ctx), Cur.a, h, Ctx)
      /\ arm = "lt" => Waits(BlockEnd, Cur.j, "JUMP_IF_NOT_LT", h, Ctx)
      /\ arm = "cond" => Waits(BlockEnd, Cur.j, "JUMP_IF_FALSE", h + 1, Ctx)
      /\ \A p \in l.breaks : Waits(BlockEnd, p, "JUMP", h, Ctx)
  BY <1>2, <1>4, <1>5, <1>8, OnKeeps
<1> HIDE DEF looped, h, l
<1>10. \A h2 \in Nat : Made(looped, h2, Ctx, Holes) /\ On(BlockEnd, h, Ctx, looped, h2, Ctx, 1)
  BY <1>2, <1>5, <1>7, <1>9, AddLoop
<1>11. /\ Made(popped, h, Ctx, Holes \ {Cur.j})
       /\ \A p \in l.breaks : Waits(popped, p, "JUMP", h, Ctx)
  <2>1. CASE arm = "lt"
    <3>1. Made(looped, h, Ctx, Holes) /\ On(BlockEnd, h, Ctx, looped, h, Ctx, 1) BY <1>2, <1>10
    <3>2. AllWait(looped, {Cur.j}, h, Ctx) BY <1>9, <2>1, <3>1, OnKeeps DEF AllWait, Branches
    <3>3. Made(exited, h, Ctx, Holes \ {Cur.j}) /\ On(looped, h, Ctx, exited, h, Ctx, 0)
      BY <3>1, <3>2, AddPatch
    <3> HIDE DEF exited
    <3>4. \A p \in l.breaks : Waits(exited, p, "JUMP", h, Ctx) BY <1>9, <3>1, <3>3, OnKeeps
    <3> QED BY <1>2, <2>1, <3>3, <3>4
  <2>2. CASE arm = "cond"
    <3>1. Made(looped, h + 1, Ctx, Holes) /\ On(BlockEnd, h, Ctx, looped, h + 1, Ctx, 1) BY <1>2, <1>10
    <3>2. AllWait(looped, {Cur.j}, h + 1, Ctx) BY <1>9, <2>2, <3>1, OnKeeps DEF AllWait, Branches
    <3>3. Made(exited, h + 1, Ctx, Holes \ {Cur.j}) /\ On(looped, h + 1, Ctx, exited, h + 1, Ctx, 0)
      BY <3>1, <3>2, AddPatch
    <3> HIDE DEF exited
    <3> DEFINE c == Append(exited, InsIn(Ctx, "POP", 0, 0, {}, h + 1))
    <3>4. Made(c, h, Ctx, Holes \ {Cur.j}) /\ On(exited, h + 1, Ctx, c, h, Ctx, 1) BY <1>2, <3>3, AddPop
    <3>5. \A p \in l.breaks : Waits(c, p, "JUMP", h, Ctx)
      <4> HIDE DEF c
      <4> QED BY <1>9, <3>1, <3>3, <3>4, OnKeeps
    <3>6. popped = c BY <1>2, <1>5, <2>2 DEF Ins
    <3> HIDE DEF c, popped
    <3> QED BY <3>4, <3>5, <3>6
  <2> QED BY <2>1, <2>2
<1> HIDE DEF popped
<1>12. AllWait(popped, l.breaks, h, Ctx) BY <1>11 DEF AllWait, Branches
<1>13. Made(chunk', h, Ctx, (Holes \ {Cur.j}) \ l.breaks) BY <1>6, <1>11, <1>12, AddPatch
<1>14. HolesOf(Cur) = {Cur.j} BY <1>2, HolesOfIs
<1> DEFINE V == (Holes \ {Cur.j}) \ l.breaks
<1>15. V \subseteq Holes /\ V \cap HolesOf(Cur) = {} /\ V \cap (l.breaks \cup l.continues) = {}
  BY <1>4, <1>14
<1>16. Made(chunk', h, Ctx, V) BY <1>13
<1> HIDE DEF V
<1> QED BY <1>0, <1>1, <1>6, <1>15, <1>16, LoopClosed DEF h, l

(* The invariant is kept by the end of do-while.                           *)
LEMMA DoCloseCompiles == ASSUME Now, DoClose PROVE Then
<1> DEFINE h == Cur.h
           l == Last(loopStack)
           resumed == Patch(chunk, l.continues)
           c1 == resumed \o Condition(h)
           j == Len(resumed) + 2
           i1 == InsIn(Ctx, "LOOP", Cur.a, 0, {}, h)
           looped == Append(c1, i1)
           patched == Patch(looped, {j})
           exited == Append(patched, InsIn(Ctx, "POP", 0, 0, {}, h + 1))
           left == Patch(exited, l.breaks)
<1>0. "do" \in LoopKinds BY DEF LoopKinds
<1>1. Inside("do", "body") BY DEF DoClose
<1>2. /\ open # <<>> /\ Cur.kind = "do" /\ Cur \in Statement
      /\ h \in Nat /\ h + 1 \in Nat /\ Cur.d \in Nat /\ Cur.a \in Nat
      /\ scopeDepth = Cur.d + Extra(Cur) /\ LoopOK(Cur, l, locals) /\ Split(locals, Cur.d, h)
      /\ l.breaks \subseteq Holes /\ l.continues \subseteq Holes
      /\ Expects(chunk, MarkIn(Height, Ctx), Cur, Ctx, l)
      /\ \A p \in l.breaks \cup l.continues : Waits(chunk, p, "JUMP", l.count, Ctx)
      /\ Made(chunk, Height, Ctx, Holes) /\ locals \in Seq(Local) /\ Height = Len(locals)
      /\ Ctx \in Context
  BY <1>0, <1>1, LoopEnds
<1>3. scopeDepth - 1 = Cur.d /\ scopeDepth - 1 \in Int
  <2>1. Cur \in Statement /\ Cur.kind = "do" /\ Cur.d \in Nat /\ scopeDepth = Cur.d + Extra(Cur) BY <1>2
  <2> QED BY ONLY <2>1, ExtraIs
<1>4. l.count = h BY <1>2 DEF LoopOK
<1>5. Height = h
  <2>1. /\ open \in Seq(Statement) /\ scopeDepth \in Nat
        /\ loopStack \in Seq(LoopRecord) /\ Nesting(open, locals, scopeDepth, loopStack)
    BY NowIs
  <2>2. Last(open).kind = "do" BY <1>2 DEF Cur
  <2>3. Len(locals) = Last(open).h BY <1>2, <2>1, <2>2, NestingPop
  <2> QED BY <1>2, <2>3 DEF Cur
<1>6. /\ chunk' = left \o EndScopeCode(locals, scopeDepth - 1)
      /\ locals' = Kept(locals, scopeDepth - 1) /\ scopeDepth' = Cur.d
      /\ loopStack' = ButLast(loopStack, 1) /\ open' = ButLast(open, 1)
  <2>1. chunk' = Patch(Append(Patch(resumed \o Condition(Height) \o <<Ins("LOOP", Cur.a, 0, Height)>>,
                                    {Len(resumed) + 2}),
                              Ins("POP", 0, 0, Height + 1)), l.breaks)
                   \o EndScopeCode(locals, scopeDepth - 1)
    BY DEF DoClose
  <2>2. resumed \o Condition(Height) \o <<Ins("LOOP", Cur.a, 0, Height)>> = looped
    <3>1. Ins("LOOP", Cur.a, 0, Height) = i1 BY <1>5 DEF Ins
    <3>2. i1 \in Instruction BY <1>2, OpsAre, InsInIs
    <3>3. resumed \in Seq(Instruction)
      <4>1. AllWait(chunk, l.continues, h, Ctx) BY <1>2, <1>4 DEF AllWait, Branches
      <4>2. Made(resumed, h, Ctx, Holes \ l.continues) BY <1>2, <1>5, <4>1, AddPatch
      <4> QED BY <4>2 DEF Made
    <3> HIDE DEF resumed
    <3>4. c1 \in Seq(Instruction)
      <4>1. \A x \in Nat : InsIn(Ctx, "CONSTANT", 0, 0, {}, x) \in Instruction
        BY <1>2, OpsAre, InsInIs
      <4>2. \A x \in Nat : InsIn(Ctx, "JUMP_IF_FALSE", 0, 0, {}, x) \in Instruction
        BY <1>2, OpsAre, InsInIs
      <4>3. \A x \in Nat : InsIn(Ctx, "POP", 0, 0, {}, x) \in Instruction
        BY <1>2, OpsAre, InsInIs
      <4>4. Condition(h) \in Seq(Instruction) BY <1>2, <4>1, <4>2, <4>3 DEF Condition, Ins
      <4> HIDE DEF h
      <4> QED BY <3>3, <4>4
    <3> HIDE DEF c1, i1
    <3>5. resumed \o Condition(Height) = c1 BY <1>5 DEF c1
    <3>6. c1 \o <<i1>> = Append(c1, i1) BY <3>2, <3>4
    <3> QED BY <3>1, <3>5, <3>6
  <2>3. Ins("POP", 0, 0, Height + 1) = InsIn(Ctx, "POP", 0, 0, {}, h + 1) BY <1>5 DEF Ins
  <2> HIDE DEF looped, resumed, h
  <2>4. chunk' = left \o EndScopeCode(locals, scopeDepth - 1) BY <2>1, <2>2, <2>3 DEF j, h
  <2> QED BY <1>3, <2>4 DEF DoClose, Close, After
<1>7. Begun(chunk, MarkIn(h, Ctx), Cur.a, h, Ctx) BY <1>2, <1>5 DEF Expects
<1>8. AllWait(chunk, l.continues, h, Ctx) BY <1>2, <1>4 DEF AllWait, Branches
<1>9. \A p \in l.breaks : Waits(chunk, p, "JUMP", h, Ctx) BY <1>2, <1>4
<1> DEFINE W == Holes \ l.continues
<1>10. Made(resumed, h, Ctx, W) /\ On(chunk, h, Ctx, resumed, h, Ctx, 0) BY <1>2, <1>5, <1>8, AddPatch
<1> HIDE DEF h, l, resumed, W
<1>11. /\ Made(c1, h, Ctx, W \cup {j}) /\ On(resumed, h, Ctx, c1, h, Ctx, 3)
       /\ Waits(c1, j, "JUMP_IF_FALSE", h + 1, Ctx)
  BY <1>10, AddCondition
<1> HIDE DEF c1, j
<1>12. Begun(c1, MarkIn(h, Ctx), Cur.a, h, Ctx) BY <1>7, <1>10, <1>11, OnKeeps
<1>13. Made(looped, h + 1, Ctx, W \cup {j}) /\ On(c1, h, Ctx, looped, h + 1, Ctx, 1)
  BY <1>2, <1>11, <1>12, AddLoop
<1> HIDE DEF looped
<1>14. AllWait(looped, {j}, h + 1, Ctx) BY <1>11, <1>13, OnKeeps DEF AllWait, Branches
<1>15. Made(patched, h + 1, Ctx, (W \cup {j}) \ {j}) /\ On(looped, h + 1, Ctx, patched, h + 1, Ctx, 0)
  BY <1>13, <1>14, AddPatch
<1> HIDE DEF patched
<1>16. Made(exited, h, Ctx, (W \cup {j}) \ {j}) /\ On(patched, h + 1, Ctx, exited, h, Ctx, 1)
  BY <1>2, <1>15, AddPop
<1> HIDE DEF exited
<1>17. AllWait(exited, l.breaks, h, Ctx)
  <2>1. \A p \in l.breaks : Waits(c1, p, "JUMP", h, Ctx) BY <1>9, <1>10, <1>11, OnKeeps
  <2>2. \A p \in l.breaks : Waits(patched, p, "JUMP", h, Ctx) BY <1>13, <1>15, <2>1, OnKeeps
  <2>3. \A p \in l.breaks : Waits(exited, p, "JUMP", h, Ctx) BY <1>16, <2>2, OnKeeps
  <2> QED BY <2>3 DEF AllWait, Branches
<1> DEFINE V == ((W \cup {j}) \ {j}) \ l.breaks
<1>18. Made(left, h, Ctx, V) BY <1>16, <1>17, AddPatch
<1> HIDE DEF left, V
<1>19. /\ Made(left \o EndScopeCode(locals, scopeDepth - 1), h, Ctx, V)
       /\ Kept(locals, scopeDepth - 1) = SubSeq(locals, 1, h)
  <2>1. Made(left, Len(locals), Ctx, V) BY <1>2, <1>5, <1>18
  <2>2. Split(locals, scopeDepth - 1, h) BY <1>2, <1>3 DEF h
  <2> QED BY <1>2, <1>3, <2>1, <2>2, ScopeEnded
<1>20. Made(chunk', h, Ctx, V) /\ locals' = SubSeq(locals, 1, h) BY <1>6, <1>19
<1>21. V \subseteq Holes /\ V \cap HolesOf(Cur) = {} /\ V \cap (l.breaks \cup l.continues) = {}
  <2>1. HolesOf(Cur) = {} BY <1>2, HolesOfIs
  <2> QED BY <2>1 DEF V, W
<1> QED BY <1>0, <1>1, <1>6, <1>20, <1>21, LoopClosed DEF h, l

(* The scope around the block ends after it.                               *)
LEMMA OuterEnded ==
  ASSUME Now, NEW k \in 0..Len(locals), NEW d \in Int, NEW m \in Nat, Split(locals, d, m), m <= k,
         NEW c, NEW W, Made(c, k, Ctx, W)
  PROVE  LET ls == SubSeq(locals, 1, k) IN
         /\ Kept(ls, d) = SubSeq(locals, 1, m) /\ Len(Kept(ls, d)) = m
         /\ Made(c \o EndScopeCode(ls, d), m, Ctx, W)
         /\ On(c, k, Ctx, c \o EndScopeCode(ls, d), m, Ctx, k - m)
<1> DEFINE ls == SubSeq(locals, 1, k)
<1>1. locals \in Seq(Local) BY NowIs
<1>2. ls \in Seq(Local) /\ Len(ls) = k BY <1>1
<1>3. Split(ls, d, m) BY <1>1, SplitCut
<1>4. SubSeq(ls, 1, m) = SubSeq(locals, 1, m) BY <1>1
<1> HIDE DEF ls
<1>5. Made(c, Len(ls), Ctx, W) BY <1>2
<1>6. /\ Kept(ls, d) = SubSeq(ls, 1, m) /\ Len(Kept(ls, d)) = m
      /\ Made(c \o EndScopeCode(ls, d), m, Ctx, W)
      /\ On(c, Len(ls), Ctx, c \o EndScopeCode(ls, d), m, Ctx, Len(ls) - m)
  BY <1>2, <1>3, <1>5, ScopeEnded
<1>7. On(c, k, Ctx, c \o EndScopeCode(ls, d), m, Ctx, k - m) BY <1>2, <1>6
<1> QED BY <1>4, <1>6, <1>7 DEF ls

(* The invariant is kept by the end of for.                                *)
LEMMA ForCloseCompiles == ASSUME Now, ForClose PROVE Then
<1> DEFINE h == Cur.h
           l == Last(loopStack)
           n == l.count
           resumed == Patch(BlockEnd, l.continues)
           i1 == InsIn(Ctx, "CONSTANT", 0, 0, {}, n)
           i2 == InsIn(Ctx, "POP", 0, 0, {}, n + 1)
           i3 == InsIn(Ctx, "LOOP", Cur.a, 0, {}, n)
           c1 == Append(resumed, i1)
           c2 == Append(c1, i2)
           looped == Append(c2, i3)
           patched == Patch(looped, {Cur.j})
           popped == Append(patched, i2)
           exited == IF Cur.j = 0 THEN looped ELSE popped
           left == Patch(exited, l.breaks)
<1>0. "for" \in LoopKinds BY DEF LoopKinds
<1>1. Inside("for", "body") BY DEF ForClose
<1>2. /\ open # <<>> /\ Cur.kind = "for" /\ Cur \in Statement
      /\ h \in Nat /\ Cur.d \in Nat /\ Cur.a \in Nat /\ Cur.j \in Nat
      /\ scopeDepth = Cur.d + Extra(Cur) /\ LoopOK(Cur, l, locals) /\ Split(locals, Cur.d, h)
      /\ l.breaks \subseteq Holes /\ l.continues \subseteq Holes
      /\ Expects(chunk, MarkIn(Height, Ctx), Cur, Ctx, l)
      /\ \A p \in l.breaks \cup l.continues : Waits(chunk, p, "JUMP", n, Ctx)
      /\ Made(chunk, Height, Ctx, Holes) /\ locals \in Seq(Local) /\ Height = Len(locals)
      /\ Ctx \in Context /\ n \in Nat
  BY <1>0, <1>1, LoopEnds
<1>3. scopeDepth - 1 = Cur.d + 1 /\ scopeDepth - 2 = Cur.d BY <1>2, ExtraIs
<1>4. n \in {h, h + 1} /\ Split(locals, Cur.d + 1, n) BY <1>2 DEF LoopOK
<1>5. /\ After = SubSeq(locals, 1, n) /\ EndHeight = n /\ n <= Height /\ Made(BlockEnd, n, Ctx, Holes)
      /\ On(chunk, Height, Ctx, BlockEnd, n, Ctx, Height - n)
  BY <1>2, <1>3, <1>4, BlockEnded
<1>6. h <= n /\ n + 1 \in Nat /\ n \in 0..Len(locals) BY SMTT(60), <1>2, <1>4, <1>5
<1>7. /\ Begun(chunk, MarkIn(Height, Ctx), Cur.a, n, Ctx)
      /\ Cur.j # 0 => Waits(chunk, Cur.j, "JUMP_IF_FALSE", n + 1, Ctx)
  BY <1>2 DEF Expects
<1>8. AllWait(BlockEnd, l.continues, n, Ctx) BY <1>2, <1>5, OnKeeps DEF AllWait, Branches
<1> DEFINE W == Holes \ l.continues
<1>9. Made(resumed, n, Ctx, W) /\ On(BlockEnd, n, Ctx, resumed, n, Ctx, 0) BY <1>5, <1>8, AddPatch
<1>10. /\ Begun(resumed, MarkIn(n, Ctx), Cur.a, n, Ctx)
       /\ Cur.j # 0 => Waits(resumed, Cur.j, "JUMP_IF_FALSE", n + 1, Ctx)
       /\ \A p \in l.breaks : Waits(resumed, p, "JUMP", n, Ctx)
  <2>1. /\ Begun(BlockEnd, MarkIn(n, Ctx), Cur.a, n, Ctx)
        /\ Cur.j # 0 => Waits(BlockEnd, Cur.j, "JUMP_IF_FALSE", n + 1, Ctx)
        /\ \A p \in l.breaks : Waits(BlockEnd, p, "JUMP", n, Ctx)
    BY <1>2, <1>5, <1>7, OnKeeps
  <2> QED BY <1>9, <2>1, OnKeeps
<1>11. i1 \in Instruction /\ i2 \in Instruction /\ i3 \in Instruction BY <1>2, <1>6, OpsAre, InsInIs
<1>12. resumed \in Seq(Instruction) BY <1>9 DEF Made
<1>13. looped = resumed \o <<i1, i2, i3>>
  <2> HIDE DEF resumed, i1, i2, i3
  <2> QED BY <1>11, <1>12, Cat3
<1>14. /\ chunk' = left \o EndScopeCode(SubSeq(locals, 1, n), Cur.d)
       /\ locals' = Kept(SubSeq(locals, 1, n), Cur.d) /\ scopeDepth' = Cur.d
       /\ loopStack' = ButLast(loopStack, 1) /\ open' = ButLast(open, 1)
  <2>1. /\ Ins("CONSTANT", 0, 0, EndHeight) = i1 /\ Ins("POP", 0, 0, EndHeight + 1) = i2
        /\ Ins("LOOP", Cur.a, 0, EndHeight) = i3
    BY <1>5 DEF Ins
  <2>2. /\ chunk' = Patch(IF Cur.j = 0 THEN resumed \o <<i1, i2, i3>>
                          ELSE Append(Patch(resumed \o <<i1, i2, i3>>, {Cur.j}), i2), l.breaks)
                      \o EndScopeCode(After, scopeDepth - 2)
        /\ locals' = Kept(After, scopeDepth - 2) /\ scopeDepth' = scopeDepth - 2
        /\ loopStack' = ButLast(loopStack, 1) /\ open' = ButLast(open, 1)
    <3> HIDE DEF i1, i2, i3
    <3> QED BY <2>1 DEF ForClose, Close
  <2> HIDE DEF resumed, i1, i2, i3, looped
  <2> QED BY <1>3, <1>5, <1>13, <2>2
<1> HIDE DEF h, l, n, resumed, W
<1>15. Made(c1, n + 1, Ctx, W) /\ On(resumed, n, Ctx, c1, n + 1, Ctx, 1) BY <1>9, AddConstant
<1> HIDE DEF c1
<1>16. Made(c2, n, Ctx, W) /\ On(c1, n + 1, Ctx, c2, n, Ctx, 1) BY <1>2, <1>15, AddPop
<1> HIDE DEF c2
<1>17. /\ Begun(c2, MarkIn(n, Ctx), Cur.a, n, Ctx)
       /\ Cur.j # 0 => Waits(c2, Cur.j, "JUMP_IF_FALSE", n + 1, Ctx)
       /\ \A p \in l.breaks : Waits(c2, p, "JUMP", n, Ctx)
  BY <1>10, <1>15, <1>16, OnKeeps
<1>18. \A h2 \in Nat : Made(looped, h2, Ctx, W) /\ On(c2, n, Ctx, looped, h2, Ctx, 1)
  BY <1>2, <1>16, <1>17, AddLoop
<1> HIDE DEF looped
<1>19. /\ Made(exited, n, Ctx, W \ ({Cur.j} \ {0}))
       /\ \A p \in l.breaks : Waits(exited, p, "JUMP", n, Ctx)
  <2>1. CASE Cur.j = 0
    <3>1. Made(looped, n, Ctx, W) /\ On(c2, n, Ctx, looped, n, Ctx, 1) BY <1>2, <1>18
    <3>2. \A p \in l.breaks : Waits(looped, p, "JUMP", n, Ctx) BY <1>17, <3>1, OnKeeps
    <3>3. exited = looped BY <2>1
    <3>4. W \ ({Cur.j} \ {0}) = W BY <2>1
    <3> QED BY <3>1, <3>2, <3>3, <3>4
  <2>2. CASE Cur.j # 0
    <3>1. Made(looped, n + 1, Ctx, W) /\ On(c2, n, Ctx, looped, n + 1, Ctx, 1) BY <1>6, <1>18
    <3>2. AllWait(looped, {Cur.j}, n + 1, Ctx) BY <1>17, <2>2, <3>1, OnKeeps DEF AllWait, Branches
    <3>3. Made(patched, n + 1, Ctx, W \ {Cur.j}) /\ On(looped, n + 1, Ctx, patched, n + 1, Ctx, 0)
      BY <3>1, <3>2, AddPatch
    <3> HIDE DEF patched
    <3>4. Made(popped, n, Ctx, W \ {Cur.j}) /\ On(patched, n + 1, Ctx, popped, n, Ctx, 1)
      BY <1>2, <3>3, AddPop
    <3> HIDE DEF popped
    <3>5. \A p \in l.breaks : Waits(popped, p, "JUMP", n, Ctx) BY <1>17, <3>1, <3>3, <3>4, OnKeeps
    <3>6. exited = popped BY <2>2
    <3>7. W \ ({Cur.j} \ {0}) = W \ {Cur.j} BY <2>2
    <3> HIDE DEF exited
    <3> QED BY <3>4, <3>5, <3>6, <3>7
  <2> QED BY <2>1, <2>2
<1> HIDE DEF exited
<1> DEFINE V == (W \ ({Cur.j} \ {0})) \ l.breaks
<1>20. AllWait(exited, l.breaks, n, Ctx) BY <1>19 DEF AllWait, Branches
<1>21. Made(left, n, Ctx, V) BY <1>19, <1>20, AddPatch
<1>22. HolesOf(Cur) = {Cur.j} \ {0} BY <1>2, HolesOfIs
<1>23. V \subseteq Holes /\ V \cap HolesOf(Cur) = {} /\ V \cap (l.breaks \cup l.continues) = {}
  BY <1>22 DEF W
<1> HIDE DEF left, V
<1>24. /\ Kept(SubSeq(locals, 1, n), Cur.d) = SubSeq(locals, 1, h)
       /\ Made(left \o EndScopeCode(SubSeq(locals, 1, n), Cur.d), h, Ctx, V)
  BY <1>2, <1>6, <1>21, OuterEnded
<1>25. Made(chunk', h, Ctx, V) /\ locals' = SubSeq(locals, 1, h) BY <1>14, <1>24
<1> QED BY <1>0, <1>1, <1>14, <1>23, <1>25, LoopClosed DEF h, l

(* A jump back to an instruction that waits.                               *)
LEMMA WaitsBegun ==
  ASSUME NEW c, NEW h, NEW W, NEW x, Made(c, h, x, W), NEW p, NEW op, NEW k, NEW ctx,
         Waits(c, p, op, k, ctx)
  PROVE  Begun(c, MarkIn(h, x), p, k, ctx)
<1> DEFINE m == MarkIn(h, x)
<1>1. c \in Seq(Instruction) /\ m \in Mark BY MarkInIs DEF Made
<1> HIDE DEF m
<1>2. p \in DOMAIN c BY DEF Waits
<1>3. /\ DOMAIN c = 1..Len(c) /\ DOMAIN Ext(c, m) = 1..(Len(c) + 1)
      /\ Len(c) \in Nat /\ \A q \in DOMAIN c : Ext(c, m)[q] = c[q]
  BY <1>1, ExtIs
<1>4. p \in DOMAIN Ext(c, m) /\ Ext(c, m)[p] = c[p] BY <1>2, <1>3
<1>5. Begun(c, m, p, k, ctx) BY <1>4 DEF Waits, Begun
<1> QED BY <1>5 DEF m

(* The invariant is kept by the end of for-each.                           *)
LEMMA ForEachCloseCompiles == ASSUME Now, ForEachClose PROVE Then
<1> DEFINE h == Cur.h
           l == Last(loopStack)
           n == Cur.b
           k == l.count
           unbound == BlockEnd \o Pops(n, k + n)
           i == InsIn(Ctx, "LOOP", Cur.a, 0, {}, k)
           looped == Append(unbound, i)
           patched == Patch(looped, {Cur.a})
           exited == patched \o Pops(n + 1, k)
           left == Patch(exited, l.breaks)
<1>0. "foreach" \in LoopKinds BY DEF LoopKinds
<1>1. Inside("foreach", "body") BY DEF ForEachClose
<1>2. /\ open # <<>> /\ Cur.kind = "foreach" /\ Cur \in Statement
      /\ h \in Nat /\ Cur.d \in Nat /\ Cur.a \in Nat /\ n \in Nat
      /\ scopeDepth = Cur.d + Extra(Cur) /\ LoopOK(Cur, l, locals) /\ Split(locals, Cur.d, h)
      /\ Expects(chunk, MarkIn(Height, Ctx), Cur, Ctx, l)
      /\ Made(chunk, Height, Ctx, Holes) /\ locals \in Seq(Local) /\ Height = Len(locals)
      /\ Ctx \in Context /\ k \in Nat
  BY <1>0, <1>1, LoopEnds
<1>3. scopeDepth - 1 = Cur.d + 2 /\ scopeDepth - 2 = Cur.d + 1 /\ scopeDepth - 3 = Cur.d BY <1>2, ExtraIs
<1>4. /\ n >= 1 /\ k = h + n + 1 /\ Split(locals, Cur.d + 1, k) /\ Split(locals, Cur.d + 2, k + n)
      /\ l.breaks = {} /\ l.continues = {}
  BY <1>2 DEF LoopOK
<1>5. k + n \in Nat /\ n <= k + n /\ (k + n) - n = k /\ k - (n + 1) = h /\ n + 1 \in Nat /\ n + 1 <= k
      /\ Cur.d + 1 \in Int
  <2> HIDE DEF h, l, n, k
  <2>1. h \in Nat /\ n \in Nat /\ k \in Nat /\ n >= 1 /\ k = h + n + 1 /\ Cur.d \in Nat BY <1>2, <1>4
  <2> QED BY <2>1
<1>6. /\ After = SubSeq(locals, 1, k + n) /\ EndHeight = k + n /\ k + n <= Height
      /\ Made(BlockEnd, k + n, Ctx, Holes)
      /\ On(chunk, Height, Ctx, BlockEnd, k + n, Ctx, Height - (k + n))
  BY <1>2, <1>3, <1>4, <1>5, BlockEnded
<1>7. k + n \in 0..Len(locals) /\ k <= k + n BY SMTT(60), <1>2, <1>5, <1>6
<1>8. Waits(chunk, Cur.a, "FOR_ITER", k, Ctx) BY <1>2 DEF Expects
<1>9. Waits(BlockEnd, Cur.a, "FOR_ITER", k, Ctx) BY <1>6, <1>8, OnKeeps
<1>10. Kept(SubSeq(locals, 1, k + n), Cur.d + 1) = SubSeq(locals, 1, k)
  <2> HIDE DEF h, l, n, k
  <2>1. Split(locals, Cur.d + 1, k) /\ k \in Nat BY <1>2, <1>4
  <2> QED BY <1>5, <1>6, <1>7, <2>1, OuterEnded
<1>11. Made(unbound, k, Ctx, Holes) /\ On(BlockEnd, k + n, Ctx, unbound, k, Ctx, n)
  <2>1. Made(unbound, (k + n) - n, Ctx, Holes) /\ On(BlockEnd, k + n, Ctx, unbound, (k + n) - n, Ctx, n)
    BY <1>2, <1>5, <1>6, AddPops
  <2> HIDE DEF unbound
  <2> QED BY <1>5, <2>1
<1>12. i \in Instruction BY <1>2, OpsAre, InsInIs
<1>13. /\ chunk' = left /\ locals' = ButLast(SubSeq(locals, 1, k), n + 1) /\ scopeDepth' = Cur.d
       /\ loopStack' = ButLast(loopStack, 1) /\ open' = ButLast(open, 1)
  <2>1. Ins("LOOP", Cur.a, 0, EndHeight - n) = i BY <1>5, <1>6 DEF Ins
  <2>2. unbound \o <<i>> = looped
    <3>1. unbound \in Seq(Instruction) BY <1>11 DEF Made
    <3> HIDE DEF unbound, i
    <3> QED BY <1>12, <3>1
  <2>3. Len(SubSeq(locals, 1, k)) = k BY <1>2, <1>7
  <2>4. /\ chunk' = Patch(Patch(BlockEnd \o Pops(n, EndHeight) \o <<i>>, {Cur.a})
                            \o Pops(n + 1, Len(Kept(After, scopeDepth - 2))), l.breaks)
        /\ locals' = ButLast(Kept(After, scopeDepth - 2), n + 1) /\ scopeDepth' = scopeDepth - 3
        /\ loopStack' = ButLast(loopStack, 1) /\ open' = ButLast(open, 1)
    <3> HIDE DEF i
    <3> QED BY <2>1 DEF ForEachClose, Close
  <2>5. Kept(After, scopeDepth - 2) = SubSeq(locals, 1, k) BY <1>3, <1>6, <1>10
  <2>6. BlockEnd \o Pops(n, EndHeight) = unbound BY <1>6
  <2> HIDE DEF unbound, i, looped
  <2> QED BY <1>3, <2>2, <2>3, <2>4, <2>5, <2>6
<1>14. ButLast(SubSeq(locals, 1, k), n + 1) = SubSeq(locals, 1, h)
  <2>1. h <= k /\ Len(SubSeq(locals, 1, k)) = k /\ k \in 0..Len(locals) BY SMTT(60), <1>2, <1>4, <1>7
  <2>2. SubSeq(SubSeq(locals, 1, k), 1, h) = SubSeq(locals, 1, h)
    BY <1>2, <2>1
  <2>3. ButLast(SubSeq(locals, 1, k), n + 1) = SubSeq(SubSeq(locals, 1, k), 1, k - (n + 1))
    BY <2>1 DEF ButLast
  <2> QED BY <1>5, <2>2, <2>3
<1> HIDE DEF h, l, n, k
<1> HIDE DEF unbound
<1>15. Waits(unbound, Cur.a, "FOR_ITER", k, Ctx) BY <1>9, <1>11, OnKeeps
<1>16. Begun(unbound, MarkIn(k, Ctx), Cur.a, k, Ctx) BY <1>11, <1>15, WaitsBegun
<1>17. Made(looped, k, Ctx, Holes) /\ On(unbound, k, Ctx, looped, k, Ctx, 1)
  BY <1>2, <1>11, <1>16, AddLoop
<1> HIDE DEF looped
<1>18. AllWait(looped, {Cur.a}, k, Ctx) BY <1>15, <1>17, OnKeeps DEF AllWait, Branches
<1>19. Made(patched, k, Ctx, Holes \ {Cur.a}) BY <1>17, <1>18, AddPatch
<1> HIDE DEF patched
<1>20. Made(exited, h, Ctx, Holes \ {Cur.a})
  <2>1. Made(exited, k - (n + 1), Ctx, Holes \ {Cur.a}) BY <1>5, <1>19, AddPops
  <2> HIDE DEF exited
  <2> QED BY <1>5, <2>1
<1> HIDE DEF exited
<1>21. AllWait(exited, l.breaks, h, Ctx) BY <1>4 DEF AllWait
<1> DEFINE V == (Holes \ {Cur.a}) \ l.breaks
<1>22. Made(left, h, Ctx, V) BY <1>20, <1>21, AddPatch
<1>23. HolesOf(Cur) = {Cur.a} BY <1>2, HolesOfIs
<1>24. V \subseteq Holes /\ V \cap HolesOf(Cur) = {} /\ V \cap (l.breaks \cup l.continues) = {}
  BY <1>4, <1>23
<1> HIDE DEF left, V
<1>25. Made(chunk', h, Ctx, V) /\ locals' = SubSeq(locals, 1, h) BY <1>13, <1>14, <1>22
<1> QED BY <1>0, <1>1, <1>13, <1>24, <1>25, LoopClosed DEF h, l

----------------------------------------------------------------------------
(* switch.                                                                 *)

(* A switch statement at the end of a case.                                *)
LEMMA SwitchIs ==
  ASSUME Now, NEW arm, Inside("switch", arm)
  PROVE  LET h == Cur.h
             l == Last(loopStack) IN
         /\ open # <<>> /\ Cur.kind = "switch" /\ Cur.arm = arm /\ Cur \in Statement /\ Ctx = Around
         /\ h \in Nat /\ Cur.d \in Nat /\ Cur.a \in Nat /\ scopeDepth - 2 = Cur.d
         /\ locals \in Seq(Local) /\ h + 1 \in 0..Len(locals)
         /\ Split(locals, Cur.d, h) /\ Split(locals, scopeDepth - 1, h + 1) /\ Split(locals, Cur.d + 1, h + 1)
         /\ After = SubSeq(locals, 1, h + 1) /\ EndHeight = h + 1
         /\ \A h2 \in Nat : Made(Restart, h2, Ctx, Holes)
         /\ LoopOK(Cur, l, locals) /\ l.count = h + 1 /\ l.continues = {} /\ l = loopStack[Cur.n + 1]
         /\ Begun(chunk, MarkIn(Height, Ctx), Cur.a, h, Ctx)
         /\ arm = "case" => Waits(chunk, Cur.j, "JUMP_IF_FALSE", h + 2, Ctx)
         /\ \A p \in l.breaks \cup l.continues : Waits(chunk, p, "JUMP", h + 1, Ctx)
         /\ IsLoop(Cur) /\ Cur.ctx = Ctx
<1> DEFINE h == Cur.h
           l == Last(loopStack)
           c1 == Append(BlockEnd, InsIn(Ctx, "POP", 0, 0, {}, h + 1))
           c2 == Append(c1, InsIn(Ctx, "LOOP", Cur.a, 0, {}, h))
<1>0. "switch" \in LoopKinds BY DEF LoopKinds
<1>1. /\ open # <<>> /\ Cur.kind = "switch" /\ Cur.arm = arm /\ Cur \in Statement
      /\ h \in Nat /\ Cur.d \in Nat /\ Cur.a \in Nat
      /\ scopeDepth = Cur.d + Extra(Cur) /\ LoopOK(Cur, l, locals) /\ Split(locals, Cur.d, h)
      /\ Expects(chunk, MarkIn(Height, Ctx), Cur, Ctx, l)
      /\ \A p \in l.breaks \cup l.continues : Waits(chunk, p, "JUMP", l.count, Ctx)
      /\ locals \in Seq(Local) /\ Height = Len(locals) /\ Ctx \in Context /\ Ctx = Around
      /\ l = loopStack[Cur.n + 1] /\ IsLoop(Cur)
  BY <1>0, LoopEnds
<1>2. scopeDepth - 1 = Cur.d + 1 /\ scopeDepth - 2 = Cur.d
  <2>1. Extra(Cur) = 2 BY <1>1, ExtraIs
  <2> QED BY <1>1, <2>1
<1>3. l.count = h + 1 /\ Split(locals, Cur.d + 1, h + 1) /\ l.continues = {} /\ h + 1 \in Nat
  BY <1>1 DEF LoopOK
<1>4. /\ After = SubSeq(locals, 1, h + 1) /\ EndHeight = h + 1 /\ h + 1 <= Height
      /\ Made(BlockEnd, h + 1, Ctx, Holes)
  BY <1>1, <1>2, <1>3, BlockEnded
<1>5. h + 1 \in 0..Len(locals) BY <1>1, <1>3, <1>4
<1>6. /\ Begun(chunk, MarkIn(Height, Ctx), Cur.a, h, Ctx)
      /\ arm = "case" => Waits(chunk, Cur.j, "JUMP_IF_FALSE", h + 2, Ctx)
  BY <1>1 DEF Expects
<1>7. Made(c1, h, Ctx, Holes) BY <1>1, <1>4, AddPop
<1>8. Restart = c2
  <2>1. (h + 1) - 1 = h BY <1>1
  <2>2. Ins("POP", 0, 0, EndHeight) = InsIn(Ctx, "POP", 0, 0, {}, h + 1)
        /\ Ins("LOOP", Cur.a, 0, EndHeight - 1) = InsIn(Ctx, "LOOP", Cur.a, 0, {}, h)
    BY <1>4, <2>1 DEF Ins
  <2>3. InsIn(Ctx, "POP", 0, 0, {}, h + 1) \in Instruction /\ InsIn(Ctx, "LOOP", Cur.a, 0, {}, h) \in Instruction
    BY <1>1, <1>3, OpsAre, InsInIs
  <2>4. BlockEnd \in Seq(Instruction) BY <1>4 DEF Made
  <2>5. \A i1, i2 \in Instruction : BlockEnd \o <<i1, i2>> = Append(Append(BlockEnd, i1), i2)
    <3> DEFINE b == BlockEnd
    <3>1. b \in Seq(Instruction) BY <2>4
    <3> HIDE DEF b
    <3>2. \A i1, i2 \in Instruction : b \o <<i1, i2>> = Append(Append(b, i1), i2) BY <3>1
    <3> QED BY <3>2 DEF b
  <2>6. Restart = BlockEnd \o <<Ins("POP", 0, 0, EndHeight), Ins("LOOP", Cur.a, 0, EndHeight - 1)>>
    BY DEF Restart
  <2> QED BY <2>2, <2>3, <2>5, <2>6
<1> HIDE DEF h, l, c1
<1>9. Begun(c1, MarkIn(h, Ctx), Cur.a, h, Ctx) BY <1>6, <1>7, MadeKeeps DEF Keeps
<1>10. \A h2 \in Nat : Made(c2, h2, Ctx, Holes) BY <1>1, <1>7, <1>9, AddLoop
<1>11. Cur.ctx = Ctx BY <1>1, CurIs
<1> HIDE DEF c2
<1>12. \A p \in l.breaks \cup l.continues : Waits(chunk, p, "JUMP", h + 1, Ctx) BY <1>1, <1>3
<1>13. Split(locals, scopeDepth - 1, h + 1) BY <1>2, <1>3
<1> QED BY <1>1, <1>2, <1>3, <1>4, <1>5, <1>6, <1>8, <1>10, <1>11, <1>12, <1>13 DEF h, l

(* The code at the end of a case.                                          *)
LEMMA CaseEndIs ==
  ASSUME Now, Inside("switch", "case")
  PROVE  Made(CaseEnd, Cur.h + 1, Ctx, Holes \ {Cur.j})
<1> DEFINE h == Cur.h
           patched == Patch(Restart, {Cur.j})
           c == Append(patched, InsIn(Ctx, "POP", 0, 0, {}, h + 2))
<1>1. /\ h \in Nat /\ h + 1 \in Nat /\ h + 2 \in Nat /\ EndHeight = h + 1
      /\ \A h2 \in Nat : Made(Restart, h2, Ctx, Holes)
      /\ Waits(chunk, Cur.j, "JUMP_IF_FALSE", h + 2, Ctx)
  <2>1. /\ h \in Nat /\ EndHeight = h + 1
        /\ \A h2 \in Nat : Made(Restart, h2, Ctx, Holes)
        /\ Waits(chunk, Cur.j, "JUMP_IF_FALSE", h + 2, Ctx)
    BY SwitchIs
  <2>2. h + 1 \in Nat /\ h + 2 \in Nat BY <2>1
  <2> QED BY <2>1, <2>2
<1>2. Made(Restart, h + 2, Ctx, Holes) BY <1>1
<1>3. Waits(Restart, Cur.j, "JUMP_IF_FALSE", h + 2, Ctx) BY <1>1, <1>2, MadeKeeps DEF Keeps
<1>4. AllWait(Restart, {Cur.j}, h + 2, Ctx) BY <1>3 DEF AllWait, Branches
<1>5. Made(patched, h + 2, Ctx, Holes \ {Cur.j}) BY <1>2, <1>4, AddPatch
<1>6. (h + 1) + 1 = h + 2 BY <1>1
<1>7. CaseEnd = c BY <1>1, <1>6 DEF CaseEnd, Ins
<1> HIDE DEF patched
<1>8. Made(c, h + 1, Ctx, Holes \ {Cur.j})
  <2> DEFINE k == h + 1
  <2>1. k \in Nat /\ k + 1 = h + 2 /\ Made(patched, k + 1, Ctx, Holes \ {Cur.j}) BY <1>1, <1>5, <1>6
  <2> HIDE DEF k
  <2>2. Made(Append(patched, InsIn(Ctx, "POP", 0, 0, {}, k + 1)), k, Ctx, Holes \ {Cur.j})
    BY <2>1, AddPop
  <2> QED BY <2>1, <2>2 DEF k
<1> QED BY <1>7, <1>8

(* The next case, or the default, begins.                                  *)
LEMMA SwitchTurned ==
  ASSUME Now, Inside("switch", "case"), NEW o2 \in Statement,
         o2.kind = "switch", o2.arm \in {"case", "default"}, o2.a = Cur.a, o2.h = Cur.h, o2.d = Cur.d,
         o2.n = Cur.n, o2.ctx = Cur.ctx,
         NEW c, NEW V, Made(c, Cur.h + 1, Ctx, V), V \subseteq Holes \cup HolesOf(o2),
         \A p \in V : p \in HolesOf(Cur) => p \in HolesOf(o2),
         o2.arm = "case" => Waits(c, o2.j, "JUMP_IF_FALSE", Cur.h + 2, Ctx)
  PROVE  Working(c, SetLast(open, o2), SubSeq(locals, 1, Cur.h + 1), scopeDepth, loopStack)
<1> DEFINE h == Cur.h
           m == Cur.h + 1
           l == Last(loopStack)
           ls == SubSeq(locals, 1, m)
<1>1. /\ open # <<>> /\ Cur.kind = "switch" /\ Ctx = Around /\ h \in Nat /\ Cur.d \in Nat
      /\ locals \in Seq(Local) /\ m \in 0..Len(locals)
      /\ Split(locals, scopeDepth - 1, m) /\ Split(locals, Cur.d + 1, m)
      /\ LoopOK(Cur, l, locals) /\ l.count = m /\ l.continues = {} /\ l = loopStack[Cur.n + 1]
      /\ Begun(chunk, MarkIn(Height, Ctx), Cur.a, h, Ctx)
      /\ \A p \in l.breaks \cup l.continues : Waits(chunk, p, "JUMP", m, Ctx)
      /\ Cur.ctx = Ctx
  BY SwitchIs
<1>2. m \in Nat /\ h <= m /\ Cur.d + 1 \in Int BY <1>1
<1>3. IsLoop(o2) /\ l = loopStack[o2.n + 1] BY <1>1 DEF IsLoop, LoopKinds
<1>4. Split(ls, Cur.d + 1, m) BY <1>1, <1>2, SplitCut
<1>5. l.count = o2.h + 1 /\ Split(ls, o2.d + 1, l.count) BY <1>1, <1>4
<1> HIDE DEF ls, l
<1>6. LoopOK(o2, l, ls) BY <1>1, <1>5 DEF LoopOK
<1>7. /\ Begun(c, MarkIn(m, Ctx), Cur.a, h, Ctx)
      /\ \A p \in l.breaks \cup l.continues : Waits(c, p, "JUMP", m, Ctx)
  BY <1>1, MadeKeeps DEF Keeps
<1>8. Expects(c, MarkIn(m, Ctx), o2, Around, l) BY <1>1, <1>3, <1>5, <1>7 DEF Expects
<1>9. Made(c, m, Ctx, V) /\ Cur.h <= m BY <1>2
<1>10. o2.kind = Cur.kind /\ o2.kind # "try" /\ o2.kind # "do" /\ o2.ctx = Ctx BY <1>1
<1>11. IsLoop(o2) => LoopOK(o2, Last(loopStack), SubSeq(locals, 1, m)) BY <1>6 DEF l, ls
<1>12. Expects(c, MarkIn(m, Ctx), o2, Around, loopStack[o2.n + 1]) BY <1>3, <1>8
<1> HIDE DEF m
<1> QED BY <1>1, <1>2, <1>9, <1>10, <1>11, <1>12, BlockTurned DEF m

(* The invariant is kept by case.                                          *)
LEMMA SwitchCaseCompiles == ASSUME Now, SwitchCase PROVE Then
<1> DEFINE k == Cur.h + 1
           j == Len(CaseEnd) + 4
           c == Case(CaseEnd, k)
           V == (Holes \ {Cur.j}) \cup {j}
           o2 == [Cur EXCEPT !.j = j]
<1>0. Inside("switch", "case") BY DEF SwitchCase
<1>1. /\ open # <<>> /\ Cur.kind = "switch" /\ Cur.arm = "case" /\ Cur \in Statement
      /\ Cur.h \in Nat /\ After = SubSeq(locals, 1, k) /\ EndHeight = k
  BY <1>0, SwitchIs
<1>2. /\ chunk' = c /\ open' = SetLast(open, o2) /\ locals' = SubSeq(locals, 1, k)
      /\ scopeDepth' = scopeDepth /\ loopStack' = loopStack
  BY <1>1 DEF SwitchCase
<1>3. k \in Nat /\ k >= 1 /\ k + 1 = Cur.h + 2 BY <1>1
<1>4. Made(CaseEnd, k, Ctx, Holes \ {Cur.j}) BY <1>0, CaseEndIs
<1>5. Len(CaseEnd) \in Nat BY <1>4 DEF Made
<1> HIDE DEF k
<1>6. Made(c, k, Ctx, V) /\ Waits(c, j, "JUMP_IF_FALSE", k + 1, Ctx) BY <1>3, <1>4, AddCase
<1>7. j \in Nat BY <1>5
<1> HIDE DEF c, j
<1>8. /\ o2 \in Statement /\ o2.kind = "switch" /\ o2.arm = "case" /\ o2.a = Cur.a /\ o2.h = Cur.h
      /\ o2.d = Cur.d /\ o2.n = Cur.n /\ o2.ctx = Cur.ctx /\ o2.j = j
  BY <1>1, <1>7 DEF Statement
<1> HIDE DEF o2
<1>9. HolesOf(o2) = {j} /\ HolesOf(Cur) = {Cur.j} BY <1>1, <1>8, HolesOfIs
<1>10. V \subseteq Holes \cup HolesOf(o2) /\ \A p \in V : p \in HolesOf(Cur) => p \in HolesOf(o2) BY <1>9
<1> HIDE DEF V
<1>11. Made(c, Cur.h + 1, Ctx, V) BY <1>6 DEF k
<1>12. Waits(c, o2.j, "JUMP_IF_FALSE", Cur.h + 2, Ctx) BY <1>3, <1>6, <1>8
<1>13. Working(c, SetLast(open, o2), SubSeq(locals, 1, Cur.h + 1), scopeDepth, loopStack)
  BY <1>0, <1>8, <1>10, <1>11, <1>12, SwitchTurned
<1> QED BY <1>2, <1>13 DEF Then, k

(* The invariant is kept by default.                                       *)
LEMMA SwitchDefaultCompiles == ASSUME Now, SwitchDefault PROVE Then
<1> DEFINE c == CaseEnd
           V == Holes \ {Cur.j}
           o2 == [Cur EXCEPT !.arm = "default"]
<1>0. Inside("switch", "case") BY DEF SwitchDefault
<1>1. /\ open # <<>> /\ Cur.kind = "switch" /\ Cur.arm = "case" /\ Cur \in Statement
      /\ Cur.h \in Nat /\ After = SubSeq(locals, 1, Cur.h + 1)
  BY <1>0, SwitchIs
<1>2. /\ chunk' = c /\ open' = SetLast(open, o2) /\ locals' = SubSeq(locals, 1, Cur.h + 1)
      /\ scopeDepth' = scopeDepth /\ loopStack' = loopStack
  BY <1>1 DEF SwitchDefault
<1>3. Made(c, Cur.h + 1, Ctx, V) BY <1>0, CaseEndIs
<1> HIDE DEF c
<1>4. /\ o2 \in Statement /\ o2.kind = "switch" /\ o2.arm = "default" /\ o2.a = Cur.a /\ o2.h = Cur.h
      /\ o2.d = Cur.d /\ o2.n = Cur.n /\ o2.ctx = Cur.ctx
  BY <1>1 DEF Statement
<1> HIDE DEF o2
<1>5. HolesOf(Cur) = {Cur.j} BY <1>1, HolesOfIs
<1>6. V \subseteq Holes \cup HolesOf(o2) /\ \A p \in V : p \in HolesOf(Cur) => p \in HolesOf(o2) BY <1>5
<1> HIDE DEF V
<1>7. o2.arm # "case" BY <1>4
<1>8. Working(c, SetLast(open, o2), SubSeq(locals, 1, Cur.h + 1), scopeDepth, loopStack)
  BY <1>0, <1>3, <1>4, <1>6, <1>7, SwitchTurned
<1> QED BY <1>2, <1>8 DEF Then

(* The invariant is kept by the end of switch.                             *)
LEMMA SwitchCloseCompiles == ASSUME Now, SwitchClose PROVE Then
<1> DEFINE h == Cur.h
           k == Cur.h + 1
           l == Last(loopStack)
           left == Patch(Restart, l.breaks)
           V == Holes \ l.breaks
<1>0. "switch" \in LoopKinds BY DEF LoopKinds
<1>1. Inside("switch", "default") BY DEF SwitchClose
<1>2. /\ open # <<>> /\ Cur.kind = "switch" /\ Cur.arm = "default" /\ Cur \in Statement
      /\ h \in Nat /\ Cur.d \in Nat /\ scopeDepth - 2 = Cur.d
      /\ k \in 0..Len(locals) /\ Split(locals, Cur.d, h) /\ After = SubSeq(locals, 1, k)
      /\ \A h2 \in Nat : Made(Restart, h2, Ctx, Holes)
      /\ l.continues = {} /\ \A p \in l.breaks : Waits(chunk, p, "JUMP", k, Ctx)
  BY <1>1, SwitchIs
<1>3. k \in Nat /\ h <= k BY <1>2
<1>4. /\ chunk' = left \o EndScopeCode(SubSeq(locals, 1, k), Cur.d)
      /\ locals' = Kept(SubSeq(locals, 1, k), Cur.d) /\ scopeDepth' = Cur.d
      /\ loopStack' = ButLast(loopStack, 1) /\ open' = ButLast(open, 1)
  BY <1>2 DEF SwitchClose, Close
<1> HIDE DEF k, l, h
<1>5. Made(Restart, k, Ctx, Holes) BY <1>2, <1>3
<1>6. \A p \in l.breaks : Waits(Restart, p, "JUMP", k, Ctx) BY <1>2, <1>5, MadeKeeps DEF Keeps
<1>7. AllWait(Restart, l.breaks, k, Ctx) BY <1>6 DEF AllWait, Branches
<1>8. Made(left, k, Ctx, V) BY <1>5, <1>7, AddPatch
<1>9. HolesOf(Cur) = {}
  <2>1. Cur.arm # "case" BY <1>2
  <2> QED BY <1>2, <2>1, HolesOfIs
<1>10. V \subseteq Holes /\ V \cap HolesOf(Cur) = {} /\ V \cap (l.breaks \cup l.continues) = {}
  BY <1>2, <1>9
<1> HIDE DEF left, V
<1>11. /\ Kept(SubSeq(locals, 1, k), Cur.d) = SubSeq(locals, 1, h)
       /\ Made(left \o EndScopeCode(SubSeq(locals, 1, k), Cur.d), h, Ctx, V)
  BY <1>2, <1>3, <1>8, OuterEnded
<1>12. Made(chunk', h, Ctx, V) /\ locals' = SubSeq(locals, 1, h) BY <1>4, <1>11
<1> QED BY <1>0, <1>1, <1>4, <1>10, <1>12, LoopClosed DEF h, l

----------------------------------------------------------------------------
(* try.                                                                    *)

(* Holes may be forgotten to be filled, and contexts may owe more.         *)
LEMMA MadeLess ==
  ASSUME NEW c, NEW h, NEW ctx, NEW W, Made(c, h, ctx, W), NEW V, W \subseteq V,
         NEW x \in Context, x.hs = ctx.hs, x.rf = ctx.rf
  PROVE  Made(c, h, x, V)
<1>1. MarkIn(h, x) = MarkIn(h, ctx) BY DEF MarkIn
<1>2. Sound(c, MarkIn(h, x), V) BY <1>1, SoundLess DEF Made, Grown
<1> QED BY <1>1, <1>2 DEF Made, Grown

(* TRY_EXIT.                                                               *)
LEMMA AddTryExit ==
  ASSUME NEW c, NEW h, NEW ctx, NEW W, Made(c, h, ctx, W), ctx.rf = 0, ctx.hs # <<>>,
         NEW ctx2 \in Context, ctx2.hs = Drop(ctx.hs, 1), ctx2.rf = 0
  PROVE  LET c2 == Append(c, InsIn(ctx, "TRY_EXIT", 0, 0, {}, h)) IN
         Made(c2, h, ctx2, W) /\ On(c, h, ctx, c2, h, ctx2, 1)
<1>1. /\ Grown(chunk, MarkIn(Height, Ctx), c, MarkIn(h, ctx), W) /\ ctx \in Context /\ h \in Nat
  BY DEF Made
<1> DEFINE c2 == Append(c, InsIn(ctx, "TRY_EXIT", 0, 0, {}, h))
<1>2. Leads(chunk, MarkIn(Height, Ctx), c, ctx, "TRY_EXIT", h, ctx2, W) BY <1>1, TryExited
<1>3. /\ Grown(chunk, MarkIn(Height, Ctx), c2, MarkIn(h, ctx2), W)
      /\ Keeps(c, MarkIn(h, ctx), c2, MarkIn(h, ctx2))
      /\ c2 \in Seq(Instruction) /\ Len(c2) \in Nat /\ Len(c2) = Len(c) + 1
  BY <1>2 DEF Leads
<1> HIDE DEF c2
<1>4. Made(c2, h, ctx2, W) /\ On(c, h, ctx, c2, h, ctx2, 1) BY <1>1, <1>3 DEF Made, On
<1> QED BY <1>4 DEF c2

(* END_FINALLY.                                                            *)
LEMMA AddFinallyEnd ==
  ASSUME NEW c, NEW h, NEW ctx, NEW W, Made(c, h, ctx, W),
         NEW ctx2 \in Context, ctx2.hs = ctx.hs
  PROVE  Made(Append(c, InsIn(ctx, "END_FINALLY", 0, 0, {}, h)), h, ctx2, W)
<1>1. /\ Grown(chunk, MarkIn(Height, Ctx), c, MarkIn(h, ctx), W) /\ ctx \in Context /\ h \in Nat
  BY DEF Made
<1> DEFINE c2 == Append(c, InsIn(ctx, "END_FINALLY", 0, 0, {}, h))
<1>2. Leads(chunk, MarkIn(Height, Ctx), c, ctx, "END_FINALLY", h, ctx2, W) BY <1>1, FinallyEnded
<1>3. /\ Grown(chunk, MarkIn(Height, Ctx), c2, MarkIn(h, ctx2), W)
      /\ c2 \in Seq(Instruction) /\ Len(c2) \in Nat
  BY <1>2 DEF Leads
<1> HIDE DEF c2
<1>4. Made(c2, h, ctx2, W) BY <1>1, <1>3 DEF Made
<1> QED BY <1>4 DEF c2

(* The try statement's own jump to its clauses is patched.                 *)
LEMMA AddHandler ==
  ASSUME NEW c, NEW h \in Nat, NEW ctx, NEW W, Made(c, h + 1, ctx, W), NEW e, Waits(c, e, "TRY_ENTER", h, ctx)
  PROVE  LET c2 == [c EXCEPT ![e].x = Here(c)] IN
         Made(c2, h + 1, ctx, W \ {e}) /\ On(c, h + 1, ctx, c2, h + 1, ctx, 0)
<1>1. /\ Grown(chunk, MarkIn(Height, Ctx), c, MarkIn(h + 1, ctx), W) /\ ctx \in Context /\ h + 1 \in Nat
  BY DEF Made
<1> DEFINE c2 == [c EXCEPT ![e].x = Here(c)]
<1>2. /\ Grown(chunk, MarkIn(Height, Ctx), c2, MarkIn(h + 1, ctx), W \ {e})
      /\ Keeps(c, MarkIn(h + 1, ctx), c2, MarkIn(h + 1, ctx))
      /\ c2 \in Seq(Instruction) /\ Len(c2) = Len(c) /\ Len(c) \in Nat
  BY <1>1, TryPatched
<1> HIDE DEF c2
<1>3. Len(c2) = Len(c) + 0 /\ Len(c2) \in Nat BY <1>2
<1>4. Made(c2, h + 1, ctx, W \ {e}) /\ On(c, h + 1, ctx, c2, h + 1, ctx, 0)
  BY <1>1, <1>2, <1>3 DEF Made, On
<1> QED BY <1>4 DEF c2

(* The try statement whose body or catch clause is being compiled.         *)
LEMMA TryIs ==
  ASSUME Now, NEW arm, arm = "body" \/ arm = "catch", Inside("try", arm)
  PROVE  /\ open # <<>> /\ Cur.kind = "try" /\ Cur.arm = arm /\ Cur \in Statement
         /\ Cur.h \in Nat /\ Cur.d \in Nat /\ Cur.a \in Nat /\ Cur.ctx = Ctx /\ ~IsLoop(Cur)
         /\ Around \in Context /\ Around.rf = 0
         /\ CatchCtx \in Context /\ CatchCtx.hs = Around.hs /\ CatchCtx.rf = 0
         /\ Ctx.rf = 0
         /\ arm = "catch" => CatchCtx = Ctx
         /\ arm = "body" => Ctx.hs # <<>> /\ CatchCtx.hs = Drop(Ctx.hs, 1) /\ Height = Cur.h
         /\ arm = "body" => scopeDepth = Cur.d
         /\ arm = "catch" => scopeDepth = Cur.d + 1 /\ Split(locals, scopeDepth - 1, Cur.h)
         /\ Cur.h \in 0..Len(locals) /\ Split(locals, Cur.d, Cur.h)
         /\ locals \in Seq(Local) /\ Height = Len(locals) /\ scopeDepth \in Nat
         /\ Expects(chunk, MarkIn(Height, Ctx), Cur, Around, loopStack[Cur.n + 1])
         /\ Intercepted(chunk, Cur) /\ Made(chunk, Height, Ctx, Holes)
<1>1. open # <<>> /\ Cur.kind = "try" /\ Cur.arm = arm BY DEF Inside, Cur
<1>2. /\ Cur \in Statement /\ Cur.ctx = Ctx /\ Around \in Context
      /\ scopeDepth = Cur.d + Extra(Cur) /\ Cur.d \in Nat /\ Cur.h \in Nat
      /\ Split(locals, Cur.d, Cur.h) /\ Cur.h <= Height
      /\ Within(Cur, Around) /\ Intercepted(chunk, Cur)
      /\ Expects(chunk, MarkIn(Height, Ctx), Cur, Around, loopStack[Cur.n + 1])
  BY <1>1, CurIs
<1>3. /\ open \in Seq(Statement) /\ locals \in Seq(Local) /\ scopeDepth \in Nat /\ Height = Len(locals)
      /\ loopStack \in Seq(LoopRecord) /\ Nesting(open, locals, scopeDepth, loopStack)
      /\ Made(chunk, Height, Ctx, Holes) /\ Ctx \in Context
  BY NowIs
<1>4. ~IsLoop(Cur) BY <1>1, ExtraIs DEF IsLoop, LoopKinds
<1>5. Cur.a \in Nat BY <1>2, ExtraIs
<1>6. InBody(Cur) <=> arm = "body" BY <1>1 DEF InBody
<1>7. Cur.h \in 0..Len(locals) BY <1>2, <1>3
<1>8. /\ Around.rf = 0 /\ Ctx.hs = (IF arm = "body" THEN Append(Around.hs, Cur.a) ELSE Around.hs)
      /\ Ctx.rf = 0
  BY <1>1, <1>2 DEF Within
<1>9. Around.hs \in Seq(Nat) BY <1>2 DEF Context
<1>10. /\ Append(Around.hs, Cur.a) # <<>> /\ Append(Around.hs, Cur.a) \in Seq(Nat)
       /\ ButLast(Append(Around.hs, Cur.a), 1) = Around.hs /\ Drop(Append(Around.hs, Cur.a), 1) = Around.hs
  <2> DEFINE s == Around.hs
  <2>1. s \in Seq(Nat) BY <1>9
  <2> HIDE DEF s
  <2> DEFINE t == Append(s, Cur.a)
  <2>2. /\ t # <<>> /\ t \in Seq(Nat) /\ Len(t) = Len(s) + 1 /\ Len(s) \in Nat
        /\ \A i \in 1..Len(s) : t[i] = s[i]
    BY <1>5, <2>1
  <2> HIDE DEF t
  <2>3. Len(t) - 1 = Len(s) BY <2>2
  <2>4. SubSeq(t, 1, Len(s)) = s BY <2>1, <2>2
  <2> QED BY <2>2, <2>3, <2>4 DEF ButLast, Drop, s, t
<1>11. CASE arm = "body"
  <2>1. Extra(Cur) = 0 BY <1>2, <1>6, <1>11, ExtraIs
  <2>2. Len(locals) = Cur.h BY <1>1, <1>3, <1>6, <1>11, NestingPop DEF Cur
  <2>3. Ctx.hs = Append(Around.hs, Cur.a) BY <1>8, <1>11
  <2>4. CatchCtx = [Ctx EXCEPT !.hs = ButLast(@, 1)] BY <1>1, <1>11 DEF CatchCtx
  <2>5. CatchCtx \in Context /\ CatchCtx.hs = Around.hs /\ CatchCtx.rf = 0
    BY <1>3, <1>8, <1>9, <1>10, <2>3, <2>4 DEF Context
  <2> QED BY <1>1, <1>2, <1>3, <1>4, <1>5, <1>7, <1>8, <1>10, <1>11, <2>1, <2>2, <2>3, <2>5
<1>12. CASE arm = "catch"
  <2>1. Extra(Cur) = 1 BY <1>1, <1>6, <1>12 DEF Extra, IsLoop, LoopKinds
  <2>2. CatchCtx = Ctx BY <1>1, <1>12 DEF CatchCtx
  <2>3. scopeDepth - 1 = Cur.d BY <1>2, <2>1
  <2>4. Split(locals, scopeDepth - 1, Cur.h) BY <1>2, <2>3
  <2> QED BY <1>1, <1>2, <1>3, <1>4, <1>5, <1>7, <1>8, <1>12, <2>1, <2>2, <2>4
<1> QED BY <1>11, <1>12

(* The jumps that land behind the clauses.                                 *)
TryOut == Exits \cup {SkipJump}

(* The code at the end of a try body.                                      *)
LEMMA BodyDoneIs ==
  ASSUME Now, Inside("try", "body")
  PROVE  /\ Made(BodyDone, Cur.h + 1, CatchCtx, (Holes \cup {Len(BodyDone)}) \ {Cur.a})
         /\ Waits(BodyDone, Len(BodyDone), "JUMP", Cur.h, CatchCtx)
         /\ Len(BodyDone) \in Nat
<1> DEFINE h == Cur.h
           i1 == InsIn(Ctx, "TRY_EXIT", 0, 0, {}, h)
           i2 == InsIn(CatchCtx, "JUMP", 0, 0, {}, h)
           c1 == Append(chunk, i1)
           c2 == Append(c1, i2)
           c3 == [c2 EXCEPT ![Cur.a].x = Here(c2)]
<1>1. /\ Cur.kind = "try" /\ h \in Nat /\ Height = h /\ Ctx.rf = 0 /\ Ctx.hs # <<>>
      /\ CatchCtx \in Context /\ CatchCtx.hs = Drop(Ctx.hs, 1) /\ CatchCtx.rf = 0
      /\ CatchCtx.hs = Around.hs /\ Around.rf = 0
      /\ Expects(chunk, MarkIn(Height, Ctx), Cur, Around, loopStack[Cur.n + 1])
      /\ Made(chunk, Height, Ctx, Holes)
  BY TryIs
<1>2. Waits(chunk, Cur.a, "TRY_ENTER", h, CatchCtx)
  <2>1. Waits(chunk, Cur.a, "TRY_ENTER", h, Around) BY <1>1 DEF Expects
  <2> QED BY <1>1, <2>1, SameContext
<1>3. Made(c1, h, CatchCtx, Holes) /\ On(chunk, h, Ctx, c1, h, CatchCtx, 1) BY <1>1, AddTryExit
<1>4. Ctx \in Context /\ chunk \in Seq(Instruction) BY <1>1 DEF Made
<1>5. i1 \in Instruction /\ i2 \in Instruction BY <1>1, <1>4, OpsAre, InsInIs
<1>6. BodyDone = c3
  <2>1. chunk \o <<i1, i2>> = c2
    <3> HIDE DEF i1, i2
    <3> QED BY <1>4, <1>5, Cat2
  <2>2. Ins("TRY_EXIT", 0, 0, Height) = i1 /\ InsIn(CatchCtx, "JUMP", 0, 0, {}, Height) = i2
    BY <1>1 DEF Ins
  <2> HIDE DEF i1, i2, c2
  <2> QED BY <2>1, <2>2 DEF BodyDone
<1> HIDE DEF h, c1
<1>7. h + 1 \in Nat BY <1>1
<1>8. /\ Made(c2, h + 1, CatchCtx, Holes \cup {Here(c1)})
      /\ On(c1, h, CatchCtx, c2, h + 1, CatchCtx, 1) /\ Waits(c2, Here(c1), "JUMP", h, CatchCtx)
  BY <1>3, <1>7, AddJump
<1>9. Len(c2) = Here(c1) BY <1>8 DEF On, Here
<1> HIDE DEF c2
<1>10. Waits(c2, Cur.a, "TRY_ENTER", h, CatchCtx) BY <1>2, <1>3, <1>8, OnKeeps
<1>11. /\ Made(c3, h + 1, CatchCtx, (Holes \cup {Here(c1)}) \ {Cur.a})
       /\ On(c2, h + 1, CatchCtx, c3, h + 1, CatchCtx, 0)
  BY <1>1, <1>8, <1>10, AddHandler
<1> HIDE DEF c3
<1>12. Waits(c3, Here(c1), "JUMP", h, CatchCtx) BY <1>8, <1>11, OnKeeps
<1>13. Len(c3) = Here(c1) /\ Len(c3) \in Nat
  <2>1. Len(c3) = Len(c2) + 0 /\ Len(c3) \in Nat /\ Len(c2) \in Nat BY <1>8, <1>11 DEF On, Made
  <2> QED BY <1>9, <2>1
<1> QED BY <1>6, <1>11, <1>12, <1>13 DEF h

(* The code at the end of a catch clause.                                  *)
LEMMA ClauseDoneIs ==
  ASSUME Now, Inside("try", "catch")
  PROVE  LET j == Len(ClauseDone) - 1 IN
         /\ Made(ClauseDone, Cur.h + 1, Ctx, (Holes \cup {j}) \ {Cur.j})
         /\ j \in Nat
         /\ Waits(ClauseDone, Cur.b, "JUMP", Cur.h, Ctx)
         /\ \A p \in Cur.jumps \cup {j} : Waits(ClauseDone, p, "JUMP", Cur.h, Ctx)
         /\ After = SubSeq(locals, 1, Cur.h)
<1> DEFINE h == Cur.h
           i2 == InsIn(Ctx, "JUMP", 0, 0, {}, h)
           c2 == Append(BlockEnd, i2)
           c3 == Patch(c2, {Cur.j})
           c4 == Append(c3, InsIn(Ctx, "POP", 0, 0, {}, h + 2))
<1>1. /\ Cur.kind = "try" /\ Cur.arm = "catch" /\ h \in Nat /\ Ctx.rf = 0
      /\ Ctx.hs = Around.hs /\ Around.rf = 0 /\ Split(locals, scopeDepth - 1, h)
      /\ Expects(chunk, MarkIn(Height, Ctx), Cur, Around, loopStack[Cur.n + 1])
  BY TryIs
<1>2. /\ After = SubSeq(locals, 1, h) /\ EndHeight = h /\ Made(BlockEnd, h, Ctx, Holes)
      /\ On(chunk, Height, Ctx, BlockEnd, h, Ctx, Height - h)
  BY <1>1, BlockEnded
<1>3. /\ Waits(chunk, Cur.b, "JUMP", h, Ctx) /\ Waits(chunk, Cur.j, "JUMP_IF_FALSE", h + 2, Ctx)
      /\ \A p \in Cur.jumps : Waits(chunk, p, "JUMP", h, Ctx)
  <2>1. /\ Waits(chunk, Cur.b, "JUMP", h, Around) /\ Waits(chunk, Cur.j, "JUMP_IF_FALSE", h + 2, Around)
        /\ \A p \in Cur.jumps : Waits(chunk, p, "JUMP", h, Around)
    BY <1>1 DEF Expects
  <2> QED BY <1>1, <2>1, SameContext
<1>4. /\ Waits(BlockEnd, Cur.b, "JUMP", h, Ctx) /\ Waits(BlockEnd, Cur.j, "JUMP_IF_FALSE", h + 2, Ctx)
      /\ \A p \in Cur.jumps : Waits(BlockEnd, p, "JUMP", h, Ctx)
  BY <1>2, <1>3, OnKeeps
<1>5. h + 1 \in Nat /\ h + 2 \in Nat /\ (h + 1) + 1 = h + 2 BY <1>1
<1>6. ClauseDone = c4 BY <1>2, <1>5 DEF ClauseDone, Ins
<1> HIDE DEF h
<1>7. /\ Made(c2, h + 2, Ctx, Holes \cup {Here(BlockEnd)})
      /\ On(BlockEnd, h, Ctx, c2, h + 2, Ctx, 1) /\ Waits(c2, Here(BlockEnd), "JUMP", h, Ctx)
  BY <1>2, <1>5, AddJump
<1>8. Len(c2) = Here(BlockEnd) BY <1>7 DEF On, Here
<1> HIDE DEF c2
<1>9. /\ Waits(c2, Cur.b, "JUMP", h, Ctx) /\ Waits(c2, Cur.j, "JUMP_IF_FALSE", h + 2, Ctx)
      /\ \A p \in Cur.jumps : Waits(c2, p, "JUMP", h, Ctx)
  BY <1>4, <1>7, OnKeeps
<1>10. AllWait(c2, {Cur.j}, h + 2, Ctx) BY <1>9 DEF AllWait, Branches
<1> DEFINE V == (Holes \cup {Here(BlockEnd)}) \ {Cur.j}
<1>11. Made(c3, h + 2, Ctx, V) /\ On(c2, h + 2, Ctx, c3, h + 2, Ctx, 0) BY <1>7, <1>10, AddPatch
<1> HIDE DEF c3, V
<1>12. Made(c4, h + 1, Ctx, V) /\ On(c3, h + 2, Ctx, c4, h + 1, Ctx, 1)
  <2> DEFINE k == h + 1
  <2>1. k \in Nat /\ k + 1 = h + 2 BY <1>5
  <2>2. Made(c3, k + 1, Ctx, V) BY <1>11, <2>1
  <2> HIDE DEF k
  <2>3. LET c == Append(c3, InsIn(Ctx, "POP", 0, 0, {}, k + 1)) IN
        Made(c, k, Ctx, V) /\ On(c3, k + 1, Ctx, c, k, Ctx, 1)
    BY <2>1, <2>2, AddPop
  <2> QED BY <2>1, <2>3 DEF k
<1> HIDE DEF c4
<1>13. /\ Waits(c4, Cur.b, "JUMP", h, Ctx) /\ Waits(c4, Here(BlockEnd), "JUMP", h, Ctx)
       /\ \A p \in Cur.jumps : Waits(c4, p, "JUMP", h, Ctx)
  BY <1>7, <1>9, <1>11, <1>12, OnKeeps
<1>14. Len(c4) - 1 = Here(BlockEnd) /\ Len(c4) - 1 \in Nat
  <2>1. Len(c4) = Len(c3) + 1 /\ Len(c3) = Len(c2) + 0 /\ Len(c2) \in Nat BY <1>7, <1>11, <1>12 DEF On, Made
  <2> QED BY <1>8, <2>1
<1> QED BY <1>2, <1>6, <1>12, <1>13, <1>14 DEF V, h

(* The code up to the place where the next clause begins.                  *)
LEMMA NextClauseIs ==
  ASSUME Now, NEW arm, arm = "body" \/ arm = "catch", Inside("try", arm)
  PROVE  /\ Made(NextClause, Cur.h + 1, CatchCtx, (Holes \ HolesOf(Cur)) \cup TryOut)
         /\ \A p \in TryOut : Waits(NextClause, p, "JUMP", Cur.h, CatchCtx)
         /\ SkipJump \in Nat /\ Exits \in SUBSET Nat
         /\ ClauseLocals = SubSeq(locals, 1, Cur.h) /\ Len(ClauseLocals) = Cur.h
<1>1. /\ Cur.kind = "try" /\ Cur.arm = arm /\ CatchCtx \in Context /\ Cur \in Statement
      /\ arm = "body" => Height = Cur.h
      /\ arm = "catch" => CatchCtx = Ctx
      /\ locals \in Seq(Local) /\ Height = Len(locals) /\ Cur.h \in 0..Len(locals)
  BY TryIs
<1>2. Len(SubSeq(locals, 1, Cur.h)) = Cur.h BY <1>1
<1> DEFINE V == (Holes \ HolesOf(Cur)) \cup TryOut
<1>3. CASE arm = "body"
  <2>1. /\ NextClause = BodyDone /\ SkipJump = Len(BodyDone) /\ Exits = {} /\ ClauseLocals = locals
    BY <1>1, <1>3 DEF NextClause, SkipJump, Exits, ClauseLocals
  <2> DEFINE W == (Holes \cup {Len(BodyDone)}) \ {Cur.a}
  <2>2. /\ Made(BodyDone, Cur.h + 1, CatchCtx, W)
        /\ Waits(BodyDone, Len(BodyDone), "JUMP", Cur.h, CatchCtx) /\ Len(BodyDone) \in Nat
    BY <1>3, BodyDoneIs
  <2>3. TryOut = {Len(BodyDone)} BY <2>1 DEF TryOut
  <2>4. HolesOf(Cur) = {Cur.a} BY <1>1, <1>3, HolesOfIs
  <2>5. W \subseteq V BY <2>3, <2>4
  <2> HIDE DEF W, V
  <2>6. Made(BodyDone, Cur.h + 1, CatchCtx, V) BY <1>1, <2>2, <2>5, MadeLess
  <2>7. locals = SubSeq(locals, 1, Cur.h) BY <1>1, <1>3
  <2> QED BY <1>2, <2>1, <2>2, <2>3, <2>6, <2>7 DEF V
<1>4. CASE arm = "catch"
  <2> DEFINE j == Len(ClauseDone) - 1
             W == (Holes \cup {j}) \ {Cur.j}
  <2>1. /\ NextClause = ClauseDone /\ SkipJump = Cur.b /\ Exits = Cur.jumps \cup {j} /\ ClauseLocals = After
    BY <1>1, <1>4 DEF NextClause, SkipJump, Exits, ClauseLocals
  <2>2. /\ Made(ClauseDone, Cur.h + 1, Ctx, W) /\ j \in Nat
        /\ Waits(ClauseDone, Cur.b, "JUMP", Cur.h, Ctx)
        /\ \A p \in Cur.jumps \cup {j} : Waits(ClauseDone, p, "JUMP", Cur.h, Ctx)
        /\ After = SubSeq(locals, 1, Cur.h)
    BY <1>4, ClauseDoneIs
  <2>3. TryOut = Cur.jumps \cup {j, Cur.b} BY <2>1 DEF TryOut
  <2>4. HolesOf(Cur) = Cur.jumps \cup {Cur.b, Cur.j} BY <1>1, <1>4, HolesOfIs
  <2>5. W \subseteq V BY <2>3, <2>4
  <2>6. Cur.b \in Nat /\ Cur.jumps \in SUBSET Nat BY <1>1, ExtraIs
  <2> HIDE DEF W, V, j
  <2>7. Ctx \in Context /\ CatchCtx = Ctx BY <1>1, <1>4
  <2>8. Made(ClauseDone, Cur.h + 1, Ctx, V) BY <2>2, <2>5, <2>7, MadeLess
  <2> QED BY <1>2, <2>1, <2>2, <2>3, <2>6, <2>7, <2>8 DEF V
<1> QED BY <1>3, <1>4

(* The statement is known to the code that has grown.                      *)
LEMMA TryStill ==
  ASSUME Now, NEW arm, arm = "body" \/ arm = "catch", Inside("try", arm),
         NEW c, NEW h, NEW ctx, NEW W, Made(c, h, ctx, W)
  PROVE  /\ Evolved(chunk, MarkIn(Height, Ctx), c, MarkIn(h, ctx), W, 0)
         /\ Waits(c, Cur.a, "TRY_ENTER", Cur.h, Around)
         /\ c[Cur.a].y = 0
         /\ Cur.fin => \A p \in DOMAIN c :
              c[p].op = "RETURN" /\ c[p].hs # <<>> /\ Top(c[p].hs) = Cur.a =>
                Cur.ret /\ c[p].h = Cur.h + 1
<1> DEFINE m == MarkIn(Height, Ctx)
           m2 == MarkIn(h, ctx)
           l == loopStack[Cur.n + 1]
<1>1. /\ Cur.kind = "try" /\ Cur.arm = arm /\ Expects(chunk, m, Cur, Around, l)
      /\ Intercepted(chunk, Cur) /\ Made(chunk, Height, Ctx, Holes)
  BY TryIs
<1>2. Sound(chunk, m, Holes) /\ Grown(chunk, m, c, m2, W) BY <1>1 DEF Made, Grown
<1> HIDE DEF m, m2, l
<1>3. \A e : Evolved(chunk, m, c, m2, W, e) BY <1>2, GrownEvolved
<1>4. Waits(chunk, Cur.a, "TRY_ENTER", Cur.h, Around) BY <1>1 DEF Expects
<1>5. Waits(c, Cur.a, "TRY_ENTER", Cur.h, Around) BY <1>3, <1>4 DEF Evolved, Keeps
<1>6. Cur.a # Cur.a + 1
  <2>1. Cur.a \in Nat BY TryIs
  <2> QED BY <2>1
<1>7. Intercepted(c, Cur)
  <2>1. PICK e : Cur.a # e BY <1>6
  <2>2. Evolved(chunk, m, c, m2, W, e) BY <1>3
  <2> QED BY <1>1, <2>1, <2>2, InterceptedOn
<1>8. /\ c[Cur.a].y = 0
      /\ Cur.fin => \A p \in DOMAIN c :
           c[p].op = "RETURN" /\ c[p].hs # <<>> /\ Top(c[p].hs) = Cur.a =>
             Cur.ret /\ c[p].h = Cur.h + 1
  BY <1>1, <1>7 DEF Intercepted
<1>9. Evolved(chunk, m, c, m2, W, 0) BY <1>3
<1> QED BY <1>5, <1>8, <1>9 DEF m, m2

(* The next block of the statement begins.                                 *)
LEMMA TryTurned ==
  ASSUME Now, NEW arm, arm = "body" \/ arm = "catch", Inside("try", arm),
         NEW o2 \in Statement, o2.kind = "try", o2.arm # "body", o2.a = Cur.a, o2.h = Cur.h, o2.d = Cur.d,
         o2.n = Cur.n, Within(o2, Around),
         NEW c, NEW V, NEW e, e = 0 \/ e = Cur.a,
         Evolved(chunk, MarkIn(Height, Ctx), c, MarkIn(Cur.h, o2.ctx), V, e),
         V \subseteq (Holes \ HolesOf(Cur)) \cup HolesOf(o2),
         Expects(c, MarkIn(Cur.h, o2.ctx), o2, Around, loopStack[o2.n + 1]), Intercepted(c, o2)
  PROVE  Working(c, SetLast(open, o2), SubSeq(locals, 1, Cur.h), Cur.d + 1, loopStack)
<1>1. /\ open # <<>> /\ Cur.kind = "try" /\ Cur \in Statement /\ Cur.h \in Nat /\ Cur.d \in Nat
      /\ Cur.h \in 0..Len(locals) /\ Split(locals, Cur.d, Cur.h) /\ locals \in Seq(Local)
  BY TryIs
<1>2. Extra(o2) = 1 /\ ~InBody(o2) /\ ~IsLoop(o2) BY DEF Extra, InBody, IsLoop, LoopKinds
<1>3. Working(chunk, open, locals, scopeDepth, loopStack) BY DEF Now
<1>4. MarkOf(open, locals) = MarkIn(Height, Ctx) BY NowIs
<1>5. \A j \in 1..Cur.h : locals[j].depth <= o2.d + Extra(o2)
  <2> TAKE j \in 1..Cur.h
  <2>1. j \in DOMAIN locals BY <1>1
  <2>2. locals[j].depth <= Cur.d /\ locals[j] \in Local BY <1>1, <2>1 DEF Split
  <2>3. locals[j].depth \in Nat BY <2>2 DEF Local
  <2> QED BY <1>1, <1>2, <2>2, <2>3
<1>6. Cur.h \in Last(open).h..Len(locals) BY <1>1 DEF Cur
<1>7. V \subseteq HolesIn(open, loopStack) \cup HolesOf(o2) /\ \A p \in V : p \in HolesOf(Last(open)) => p \in HolesOf(o2)
  BY DEF Holes, Cur
<1>8. /\ o2.kind = Last(open).kind /\ o2.h = Last(open).h /\ o2.d = Last(open).d /\ o2.n = Last(open).n
      /\ o2.a = Last(open).a /\ Within(o2, Outer(open, Len(open)))
      /\ Expects(c, MarkIn(Cur.h, o2.ctx), o2, Outer(open, Len(open)), loopStack[o2.n + 1])
      /\ e = 0 \/ e = o2.a
      /\ Cur.h = o2.h
      /\ Evolved(chunk, MarkOf(open, locals), c, MarkIn(Cur.h, o2.ctx), V, e)
  BY <1>1, <1>4 DEF Cur, Around
<1> DEFINE k == Cur.h
<1>9. k \in Last(open).h..Len(locals) /\ k = o2.h BY <1>6, <1>8
<1> HIDE DEF k
<1>10. /\ Evolved(chunk, MarkOf(open, locals), c, MarkIn(k, o2.ctx), V, e)
       /\ Expects(c, MarkIn(k, o2.ctx), o2, Outer(open, Len(open)), loopStack[o2.n + 1])
       /\ \A j \in 1..k : locals[j].depth <= o2.d + Extra(o2)
  BY <1>5, <1>8 DEF k
<1>11. e = 0 \/ (o2.kind = "try" /\ e = o2.a) BY <1>8
<1>12. o2.kind = "try" => o2.a = Last(open).a BY <1>8
<1>13. InBody(o2) \/ o2.kind = "do" => k = o2.h BY <1>9
<1>14. IsLoop(o2) => LoopOK(o2, Last(loopStack), SubSeq(locals, 1, k)) BY <1>2
<1>15. Working(c, SetLast(open, o2), SubSeq(locals, 1, k), o2.d + Extra(o2), loopStack)
  BY <1>1, <1>3, <1>7, <1>8, <1>9, <1>10, <1>11, <1>12, <1>13, <1>14, Turned
<1> QED BY <1>2, <1>8, <1>15 DEF k, Cur

(* The invariant is kept by catch.                                         *)
LEMMA CatchClauseCompiles == ASSUME Now, Accepted, CatchClause PROVE Then
<1> DEFINE h == Cur.h
           x == CatchCtx
           c0 == NextClause
           W == (Holes \ HolesOf(Cur)) \cup TryOut
<1>1. PICK arm \in {"body", "catch"} : Inside("try", arm) BY DEF CatchClause
<1>2. arm = "body" \/ arm = "catch" OBVIOUS
<1>3. /\ open # <<>> /\ Cur.kind = "try" /\ Cur.arm = arm /\ Cur \in Statement
      /\ h \in Nat /\ Cur.d \in Nat /\ Cur.a \in Nat /\ Around \in Context /\ Around.rf = 0
      /\ x \in Context /\ x.hs = Around.hs /\ x.rf = 0
      /\ arm = "body" => scopeDepth = Cur.d
      /\ arm = "catch" => scopeDepth = Cur.d + 1
  BY <1>1, <1>2, TryIs
<1>4. /\ Made(c0, h + 1, x, W) /\ \A p \in TryOut : Waits(c0, p, "JUMP", h, x)
      /\ SkipJump \in Nat /\ Exits \in SUBSET Nat
      /\ ClauseLocals = SubSeq(locals, 1, h) /\ Len(ClauseLocals) = h
  BY <1>1, <1>2, NextClauseIs
<1>5. PICK types \in CatchTypes :
        /\ chunk' = c0 \o
            <<InsIn(x, "CATCH", 0, 0, types, h + 1),
              InsIn(x, "JUMP_IF_FALSE", 0, 0, {}, h + 2),
              InsIn(x, "POP", 0, 0, {}, h + 2),
              InsIn(x, "POP", 0, 0, {}, h + 1)>>
        /\ open' = SetLast(open,
            [Cur EXCEPT !.arm = "catch", !.b = SkipJump, !.j = Len(c0) + 2,
                        !.jumps = Exits, !.ctx = x,
                        !.all = @ \/ "Error" \in types])
  BY <1>4 DEF CatchClause
<1> DEFINE i1 == InsIn(x, "CATCH", 0, 0, types, h + 1)
           i2 == InsIn(x, "JUMP_IF_FALSE", 0, 0, {}, h + 2)
           i3 == InsIn(x, "POP", 0, 0, {}, h + 2)
           i4 == InsIn(x, "POP", 0, 0, {}, h + 1)
           c1 == Append(c0, i1)
           c2 == Append(c1, i2)
           c3 == Append(c2, i3)
           c4 == Append(c3, i4)
           j == Len(c0) + 2
           o2 == [Cur EXCEPT !.arm = "catch", !.b = SkipJump, !.j = j,
                             !.jumps = Exits, !.ctx = x, !.all = @ \/ "Error" \in types]
           V == W \cup {j}
<1>6. types \in SUBSET ErrTypes BY <1>5 DEF Accepted
<1>7. /\ h + 1 \in Nat /\ h + 2 \in Nat /\ (h + 1) + 1 = h + 2 /\ h + 1 >= 1 /\ h + 2 >= 1 BY <1>3
<1>8. i1 \in Instruction /\ i2 \in Instruction /\ i3 \in Instruction /\ i4 \in Instruction
  BY <1>3, <1>6, <1>7, OpsAre, InsInIs
<1>9. c0 \in Seq(Instruction) /\ Len(c0) \in Nat BY <1>4 DEF Made
<1>10. chunk' = c4
  <2>1. c0 \o <<i1, i2, i3, i4>> = c4
    <3> HIDE DEF i1, i2, i3, i4, c0
    <3> QED BY <1>8, <1>9, Cat4
  <2>2. chunk' = c0 \o <<i1, i2, i3, i4>> BY <1>5
  <2> QED BY <2>1, <2>2
<1>11. /\ open' = SetLast(open, o2) /\ locals' = SubSeq(locals, 1, h) /\ scopeDepth' = Cur.d + 1
       /\ loopStack' = loopStack
  BY <1>3, <1>4, <1>5 DEF CatchClause
<1>12. j \in Nat BY <1>9
<1>13. /\ o2 \in Statement /\ o2.kind = "try" /\ o2.arm = "catch" /\ o2.a = Cur.a /\ o2.h = h
       /\ o2.d = Cur.d /\ o2.n = Cur.n /\ o2.ctx = x /\ o2.b = SkipJump /\ o2.j = j /\ o2.jumps = Exits
       /\ o2.fin = Cur.fin /\ o2.ret = Cur.ret
  <2> HIDE DEF x, j
  <2> QED BY <1>3, <1>4, <1>12 DEF Statement
<1> HIDE DEF o2, h, x, c0, W
<1>14. Made(c1, h + 2, x, W) /\ On(c0, h + 1, x, c1, h + 2, x, 1)
  <2>1. Adds("CATCH", 0, h + 1, h + 2) BY <1>7 DEF Adds
  <2>2. "CATCH" \in Ops \ {"RETURN"} BY OpsAre
  <2> QED BY <1>4, <1>6, <1>7, <2>1, <2>2, AddPlain
<1>15. Here(c1) = j
  <2>1. Len(c1) = Len(c0) + 1 BY <1>14 DEF On
  <2> QED BY <1>9, <2>1 DEF Here
<1> HIDE DEF c1, j
<1>16. /\ Made(c2, h + 2, x, V) /\ On(c1, h + 2, x, c2, h + 2, x, 1)
       /\ Waits(c2, j, "JUMP_IF_FALSE", h + 2, x)
  <2>1. /\ Made(c2, h + 2, x, W \cup {Here(c1)}) /\ On(c1, h + 2, x, c2, h + 2, x, 1)
        /\ Waits(c2, Here(c1), "JUMP_IF_FALSE", h + 2, x)
    BY <1>7, <1>14, AddBranch
  <2> QED BY <1>15, <2>1
<1> HIDE DEF c2, V
<1>17. Made(c3, h + 1, x, V) /\ On(c2, h + 2, x, c3, h + 1, x, 1)
  <2> DEFINE k == h + 1
  <2>1. k \in Nat /\ k + 1 = h + 2 BY <1>7
  <2>2. Made(c2, k + 1, x, V) BY <1>16, <2>1
  <2> HIDE DEF k
  <2>3. LET c == Append(c2, InsIn(x, "POP", 0, 0, {}, k + 1)) IN
        Made(c, k, x, V) /\ On(c2, k + 1, x, c, k, x, 1)
    BY <2>1, <2>2, AddPop
  <2> QED BY <2>1, <2>3 DEF k
<1> HIDE DEF c3
<1>18. Made(c4, h, x, V) /\ On(c3, h + 1, x, c4, h, x, 1) BY <1>3, <1>17, AddPop DEF h
<1> HIDE DEF c4
<1>19. /\ Waits(c4, j, "JUMP_IF_FALSE", h + 2, x)
       /\ \A p \in TryOut : Waits(c4, p, "JUMP", h, x)
  BY <1>4, <1>14, <1>16, <1>17, <1>18, OnKeeps
<1>20. /\ Evolved(chunk, MarkIn(Height, Ctx), c4, MarkIn(h, x), V, 0)
       /\ Waits(c4, Cur.a, "TRY_ENTER", h, Around)
       /\ c4[Cur.a].y = 0
       /\ Cur.fin => \A p \in DOMAIN c4 :
            c4[p].op = "RETURN" /\ c4[p].hs # <<>> /\ Top(c4[p].hs) = Cur.a =>
              Cur.ret /\ c4[p].h = h + 1
  BY <1>1, <1>2, <1>18, TryStill DEF h
<1>21. Intercepted(c4, o2) BY <1>13, <1>20 DEF Intercepted
<1>22. Within(o2, Around) BY <1>3, <1>13 DEF Within
<1>23. /\ Waits(c4, j, "JUMP_IF_FALSE", h + 2, Around)
       /\ Waits(c4, SkipJump, "JUMP", h, Around)
       /\ \A p \in Exits : Waits(c4, p, "JUMP", h, Around)
  BY <1>3, <1>19, SameContext DEF TryOut
<1>24. ~IsLoop(o2) BY <1>13 DEF IsLoop, LoopKinds
<1>25. Expects(c4, MarkIn(h, x), o2, Around, loopStack[o2.n + 1])
  BY <1>13, <1>20, <1>23, <1>24 DEF Expects
<1>26. HolesOf(o2) = Exits \cup {SkipJump, j} BY <1>13, HolesOfIs
<1>27. V \subseteq (Holes \ HolesOf(Cur)) \cup HolesOf(o2) BY <1>26 DEF V, W, TryOut
<1>28. Working(c4, SetLast(open, o2), SubSeq(locals, 1, Cur.h), Cur.d + 1, loopStack)
  <2>1. o2.arm # "body" /\ o2.h = Cur.h BY <1>13 DEF h
  <2>2. /\ Evolved(chunk, MarkIn(Height, Ctx), c4, MarkIn(Cur.h, o2.ctx), V, 0)
        /\ Expects(c4, MarkIn(Cur.h, o2.ctx), o2, Around, loopStack[o2.n + 1])
    BY <1>13, <1>20, <1>25 DEF h
  <2> QED BY <1>1, <1>2, <1>13, <1>21, <1>22, <1>27, <2>1, <2>2, TryTurned
<1> QED BY <1>10, <1>11, <1>28 DEF Then, h

(* An error no clause took finds the handler around the statement.         *)
LEMMA AroundGuarded ==
  ASSUME Now, NEW arm, arm = "body" \/ arm = "catch", Inside("try", arm),
         NEW c, NEW h, NEW ctx, NEW W, Made(c, h, ctx, W)
  PROVE  Guarded(c, CatchCtx, Cur.h)
<1> DEFINE os == ButLast(open, 1)
           ls == SubSeq(locals, 1, Cur.h)
           lp == SubSeq(loopStack, 1, Cur.n)
<1>1. /\ open \in Seq(Statement) /\ locals \in Seq(Local) /\ scopeDepth \in Nat
      /\ loopStack \in Seq(LoopRecord) /\ Nesting(open, locals, scopeDepth, loopStack) /\ Contexts(open)
  BY NowIs
<1>2. /\ open # <<>> /\ Cur.h \in 0..Len(locals) /\ Cur.d \in Nat /\ Around.rf = 0
      /\ CatchCtx.hs = Around.hs /\ CatchCtx.rf = 0
  BY TryIs
<1>3. /\ os \in Seq(Statement) /\ ls \in Seq(Local) /\ lp \in Seq(LoopRecord)
      /\ Nesting(os, ls, Cur.d, lp)
      /\ \A i \in DOMAIN os : os[i] = open[i] /\ i \in DOMAIN open
  BY <1>1, <1>2, NestingPop DEF Cur
<1>4. Contexts(os) /\ Innermost(os) = Around BY <1>1, <1>2, ContextsPop DEF Around
<1>5. Len(ls) = Cur.h BY <1>1, <1>2
<1>6. \A i \in DOMAIN open : open[i].kind = "try" =>
        open[i].a \in DOMAIN chunk /\ chunk[open[i].a].h = open[i].h
  BY TryThere DEF Now
<1> HIDE DEF os, ls, lp
<1>7. \A i \in DOMAIN os : os[i].kind = "try" => os[i].a \in DOMAIN chunk /\ chunk[os[i].a].h = os[i].h
  BY <1>3, <1>6
<1>8. Guarded(chunk, Around, Cur.h)
  <2>1. Innermost(os).rf = 0 BY <1>2, <1>4
  <2>2. Guarded(chunk, Innermost(os), Len(ls)) BY <1>2, <1>3, <1>4, <1>7, <2>1, GuardedIs
  <2> QED BY <1>4, <1>5, <2>2
<1>9. Guarded(c, Around, Cur.h) BY <1>8, MadeKeeps DEF Keeps
<1> QED BY <1>2, <1>9, SameContext

(* The code after the last clause.                                         *)
LEMMA ClausesDoneIs ==
  ASSUME Now, NEW arm, arm = "body" \/ arm = "catch", Inside("try", arm)
  PROVE  /\ Made(ClausesDone, Cur.h, CatchCtx, Holes \ HolesOf(Cur))
         /\ Len(ClausesDone) > Len(chunk)
<1> DEFINE h == Cur.h
           x == CatchCtx
           c0 == NextClause
           W == (Holes \ HolesOf(Cur)) \cup TryOut
           i == InsIn(x, "RETHROW", 0, 0, {}, h + 1)
           c1 == Append(c0, i)
<1>1. h \in Nat /\ h + 1 \in Nat
  <2>1. h \in Nat BY TryIs
  <2> QED BY <2>1
<1>2. /\ Made(c0, h + 1, x, W) /\ \A p \in TryOut : Waits(c0, p, "JUMP", h, x)
      /\ Len(ClauseLocals) = h
  BY NextClauseIs
<1>3. ClausesDone = Patch(c1, TryOut) BY <1>2 DEF ClausesDone, TryOut
<1>4. Guarded(c0, x, h) BY <1>2, AroundGuarded
<1>5. CatchCtx \in Context BY TryIs
<1> HIDE DEF h, x, c0, W
<1>6. Made(c1, h, x, W) /\ On(c0, h + 1, x, c1, h, x, 1)
  <2>1. Fails("RETHROW", 0, 0, {}, h + 1, h, h) BY <1>1 DEF Fails
  <2>2. "RETHROW" \in Ops \ {"RETURN"} BY OpsAre
  <2> QED BY <1>1, <1>2, <1>4, <2>1, <2>2, OpsAre, AddRaising
<1>7. Len(c1) = Len(c0) + 1 BY <1>6 DEF On
<1> HIDE DEF c1
<1>8. AllWait(c1, TryOut, h, x) BY <1>2, <1>6, OnKeeps DEF AllWait, Branches
<1>9. Made(Patch(c1, TryOut), h, x, W \ TryOut) /\ On(c1, h, x, Patch(c1, TryOut), h, x, 0)
  BY <1>6, <1>8, AddPatch
<1>10. W \ TryOut \subseteq Holes \ HolesOf(Cur) BY DEF W
<1>11. Made(ClausesDone, h, x, Holes \ HolesOf(Cur)) BY <1>3, <1>5, <1>9, <1>10, MadeLess DEF x
<1>12. Len(ClausesDone) > Len(chunk)
  <2>1. Grown(chunk, MarkIn(Height, Ctx), c0, MarkIn(h + 1, x), W) /\ Len(c0) \in Nat /\ c0 \in Seq(Instruction)
    BY <1>2 DEF Made
  <2>2. Len(chunk) \in Nat /\ chunk \in Seq(Instruction) BY NowIs
  <2>3. DOMAIN chunk \subseteq DOMAIN c0 BY <2>1 DEF Grown, Extends
  <2>4. Len(chunk) <= Len(c0)
    <3>1. DOMAIN chunk = 1..Len(chunk) /\ DOMAIN c0 = 1..Len(c0) BY <2>1, <2>2
    <3>2. Len(chunk) = 0 \/ Len(chunk) \in 1..Len(c0) BY <2>2, <2>3, <3>1
    <3> QED BY <2>1, <3>2
  <2>5. Len(ClausesDone) = Len(c1) + 0 BY <1>3, <1>9 DEF On
  <2> QED BY <1>7, <2>1, <2>2, <2>4, <2>5
<1> QED BY <1>11, <1>12 DEF h, x

(* What the actions that end the clauses do to the scope.                  *)
LEMMA ScopeOutsideIs ==
  ASSUME Now, NEW arm, arm = "body" \/ arm = "catch", Inside("try", arm)
  PROVE  ScopeOutside = Cur.d
<1>1. /\ Cur.arm = arm /\ Cur.d \in Nat
      /\ arm = "body" => scopeDepth = Cur.d
      /\ arm = "catch" => scopeDepth = Cur.d + 1
  BY TryIs
<1> QED BY <1>1 DEF ScopeOutside

(* The invariant is kept by the end of try.                                *)
LEMMA TryCloseCompiles == ASSUME Now, TryClose PROVE Then
<1> DEFINE c == ClausesDone
           V == Holes \ HolesOf(Cur)
<1>1. PICK arm \in {"body", "catch"} : Inside("try", arm) BY DEF TryClose
<1>2. arm = "body" \/ arm = "catch" OBVIOUS
<1>3. Made(c, Cur.h, CatchCtx, V) BY <1>1, <1>2, ClausesDoneIs
<1>4. /\ open # <<>> /\ ~IsLoop(Cur) /\ Around \in Context /\ Around.rf = 0
      /\ CatchCtx.hs = Around.hs /\ CatchCtx.rf = 0
  BY <1>1, <1>2, TryIs
<1>5. /\ chunk' = c /\ open' = ButLast(open, 1) /\ locals' = SubSeq(locals, 1, Cur.h)
      /\ scopeDepth' = Cur.d /\ loopStack' = loopStack
  <2>1. ClauseLocals = SubSeq(locals, 1, Cur.h) BY <1>1, <1>2, NextClauseIs
  <2>2. ScopeOutside = Cur.d BY <1>1, <1>2, ScopeOutsideIs
  <2> QED BY <2>1, <2>2 DEF TryClose, Close
<1> HIDE DEF c
<1>6. V \subseteq Holes /\ V \cap HolesOf(Cur) = {} OBVIOUS
<1> HIDE DEF V
<1>7. Made(c, Cur.h, Around, V) BY <1>3, <1>4, MadeLess
<1>8. Working(c, ButLast(open, 1), SubSeq(locals, 1, Cur.h), Cur.d,
              IF IsLoop(Cur) THEN ButLast(loopStack, 1) ELSE loopStack)
  BY <1>4, <1>6, <1>7, BlockClosed
<1> QED BY <1>4, <1>5, <1>8 DEF Then

(* The invariant is kept by the end of finally.                            *)
LEMMA FinallyCloseCompiles == ASSUME Now, FinallyClose PROVE Then
<1> DEFINE h == Cur.h
           c == Append(BlockEnd, InsIn(Ctx, "END_FINALLY", 0, 0, {}, h))
<1>1. open # <<>> /\ Cur.kind = "try" /\ Cur.arm = "finally" BY DEF FinallyClose, Inside, Cur
<1>2. /\ Cur \in Statement /\ Cur.ctx = Ctx /\ Around \in Context
      /\ scopeDepth = Cur.d + Extra(Cur) /\ Cur.d \in Nat /\ h \in Nat
      /\ Split(locals, Cur.d, h) /\ Within(Cur, Around)
  BY <1>1, CurIs
<1>3. Extra(Cur) = 1 /\ ~IsLoop(Cur) BY <1>1 DEF Extra, InBody, IsLoop, LoopKinds
<1>4. scopeDepth - 1 = Cur.d BY <1>2, <1>3
<1>5. Split(locals, scopeDepth - 1, h) BY <1>2, <1>4
<1>6. /\ After = SubSeq(locals, 1, h) /\ EndHeight = h /\ Made(BlockEnd, h, Ctx, Holes)
  BY <1>2, <1>5, BlockEnded
<1>7. Around.hs = Ctx.hs BY <1>1, <1>2 DEF Within
<1>8. Made(c, h, Around, Holes) BY <1>2, <1>6, <1>7, AddFinallyEnd
<1>9. /\ chunk' = c /\ open' = ButLast(open, 1) /\ locals' = SubSeq(locals, 1, h)
      /\ scopeDepth' = Cur.d /\ loopStack' = loopStack
  BY <1>4, <1>6 DEF FinallyClose, Close, Ins
<1>10. HolesOf(Cur) = {} BY <1>1, HolesOfIs
<1> HIDE DEF c
<1>11. Holes \subseteq Holes /\ Holes \cap HolesOf(Cur) = {} BY <1>10
<1>12. Working(c, ButLast(open, 1), SubSeq(locals, 1, Cur.h), Cur.d,
               IF IsLoop(Cur) THEN ButLast(loopStack, 1) ELSE loopStack)
  BY <1>1, <1>3, <1>8, <1>11, BlockClosed
<1> QED BY <1>3, <1>9, <1>12 DEF Then

(* The invariant is kept by the beginning of finally.                      *)
LEMMA FinallyOpenCompiles == ASSUME Now, FinallyOpen PROVE Then
<1> DEFINE h == Cur.h
           e == Cur.a
           c0 == ClausesDone
           V == Holes \ HolesOf(Cur)
           c == [c0 EXCEPT ![e].y = Here(c0)]
           x2 == [AfterCtx EXCEPT !.rf = IF Cur.ret THEN Cur.a ELSE @]
           o2 == [Cur EXCEPT !.arm = "finally", !.ctx = x2]
           m0 == MarkIn(Height, Ctx)
           m == MarkIn(h, CatchCtx)
           m2 == MarkIn(h, x2)
<1>1. PICK arm \in {"body", "catch"} : Inside("try", arm) BY DEF FinallyOpen
<1>2. arm = "body" \/ arm = "catch" OBVIOUS
<1>3. /\ open # <<>> /\ Cur.kind = "try" /\ Cur \in Statement /\ h \in Nat /\ Cur.d \in Nat /\ e \in Nat
      /\ Around \in Context /\ Around.rf = 0
      /\ CatchCtx \in Context /\ CatchCtx.hs = Around.hs /\ CatchCtx.rf = 0
  BY <1>1, <1>2, TryIs
<1>4. Cur.fin BY DEF FinallyOpen
<1>5. Made(c0, h, CatchCtx, V) /\ Len(c0) > Len(chunk) BY <1>1, <1>2, ClausesDoneIs
<1>6. /\ chunk' = c /\ open' = SetLast(open, o2) /\ locals' = SubSeq(locals, 1, Cur.h)
      /\ scopeDepth' = Cur.d + 1 /\ loopStack' = loopStack
  <2>1. ClauseLocals = SubSeq(locals, 1, Cur.h) BY <1>1, <1>2, NextClauseIs
  <2>2. ScopeOutside = Cur.d BY <1>1, <1>2, ScopeOutsideIs
  <2> QED BY <2>1, <2>2 DEF FinallyOpen
<1>7. /\ x2 \in Context /\ x2.hs = Around.hs /\ x2.rf = (IF Cur.ret THEN e ELSE 0)
  <2>1. AfterCtx \in Context /\ AfterCtx.hs = Around.hs /\ AfterCtx.rf = 0
    BY <1>3 DEF AfterCtx, Context
  <2> QED BY <1>3, <2>1 DEF Context
<1> HIDE DEF x2
<1>8. /\ o2 \in Statement /\ o2.kind = "try" /\ o2.arm = "finally" /\ o2.a = Cur.a /\ o2.h = Cur.h
      /\ o2.d = Cur.d /\ o2.n = Cur.n /\ o2.ctx = x2 /\ o2.ret = Cur.ret
  BY <1>3, <1>7 DEF Statement
<1> HIDE DEF o2
<1>9. /\ m \in Mark /\ m.h = h /\ m.hs = Around.hs /\ m.rf = 0
      /\ m2 \in Mark /\ m2.h = h /\ m2.hs = Around.hs /\ m2.rf = (IF Cur.ret THEN e ELSE 0)
  BY <1>3, <1>7, MarkInIs
<1>10. /\ Evolved(chunk, m0, c0, m, V, 0)
       /\ Waits(c0, e, "TRY_ENTER", h, Around) /\ c0[e].y = 0
       /\ \A p \in DOMAIN c0 :
            c0[p].op = "RETURN" /\ c0[p].hs # <<>> /\ Top(c0[p].hs) = e => Cur.ret /\ c0[p].h = h + 1
  BY <1>1, <1>2, <1>4, <1>5, TryStill
<1>11. chunk \in Seq(Instruction) /\ Len(chunk) \in Nat /\ c0 \in Seq(Instruction) /\ Len(c0) \in Nat
  BY <1>5, NowIs DEF Made
<1>12. m0 \in Mark BY NowIs, MarkInIs
<1> HIDE DEF m0, m, m2, c0, V, h, e
<1>13. Sound(c0, m, V) BY <1>10 DEF Evolved
<1>14. Waits(c0, e, "TRY_ENTER", m.h, m) BY <1>3, <1>9, <1>10 DEF Waits
<1>15. \A p \in DOMAIN c0 :
         c0[p].op = "RETURN" /\ c0[p].hs # <<>> /\ Top(c0[p].hs) = e => c0[p].h = m.h + 1 /\ m2.rf = e
  BY <1>9, <1>10
<1>16. /\ Sound(c, m2, V) /\ DOMAIN c = DOMAIN c0
       /\ \A p \in DOMAIN c0 :
            /\ c[p].op = c0[p].op /\ c[p].h = c0[p].h /\ c[p].hs = c0[p].hs /\ c[p].rf = c0[p].rf
            /\ p # e => c[p].y = c0[p].y
       /\ \A q \in DOMAIN c0 : \A k, ctx : Begun(c0, m, q, k, ctx) => Begun(c, m2, q, k, ctx)
  <2>1. m2.h = m.h /\ m2.hs = m.hs /\ m.rf = 0 BY <1>9
  <2>2. Entered(c0, m, V, e, m2) BY <1>9, <1>10, <1>13, <1>14, <1>15, <2>1, FinallyBegun
  <2> QED BY <2>2 DEF Entered
<1> HIDE DEF c
<1>17. Evolved(chunk, m0, c, m2, V, e)
  <2>1. \A p, op, k, ctx : Waits(chunk, p, op, k, ctx) => Waits(c, p, op, k, ctx)
    <3>1. \A p, op, k, ctx : Waits(chunk, p, op, k, ctx) => Waits(c0, p, op, k, ctx)
      BY <1>10 DEF Evolved, Keeps
    <3>2. \A p, op, k, ctx : Waits(c0, p, op, k, ctx) => Waits(c, p, op, k, ctx) BY <1>16 DEF Waits
    <3> QED BY <3>1, <3>2
  <2>2. ASSUME NEW q, NEW k, NEW ctx, Begun(chunk, m0, q, k, ctx) PROVE Begun(c, m2, q, k, ctx)
    <3>1. Begun(c0, m, q, k, ctx) BY <1>10, <2>2 DEF Evolved, Keeps
    <3>2. q \in DOMAIN Ext(chunk, m0) BY <2>2 DEF Begun
    <3>3. q \in 1..(Len(chunk) + 1) BY <1>11, <1>12, <3>2, ExtIs
    <3>4. q \in DOMAIN c0 BY <1>5, <1>11, <3>3
    <3> QED BY <1>16, <3>1, <3>4
  <2>3. \A k, ctx : Guarded(chunk, ctx, k) => Guarded(c, ctx, k)
    <3>1. \A k, ctx : Guarded(chunk, ctx, k) => Guarded(c0, ctx, k) BY <1>10 DEF Evolved, Keeps
    <3>2. \A k, ctx : Guarded(c0, ctx, k) => Guarded(c, ctx, k) BY <1>16 DEF Guarded
    <3> QED BY <3>1, <3>2
  <2>4. NoNewReturn(chunk, c) BY <1>10, <1>16 DEF Evolved, NoNewReturn
  <2>5. \A p \in DOMAIN chunk : p # e => c[p].y = chunk[p].y
    <3> SUFFICES ASSUME NEW p \in DOMAIN chunk, p # e PROVE c[p].y = chunk[p].y OBVIOUS
    <3>1. p \in DOMAIN c0 /\ p # 0 BY <1>5, <1>11
    <3>2. c0[p].y = chunk[p].y BY <1>10, <3>1 DEF Evolved
    <3> QED BY <1>16, <3>1, <3>2
  <2> QED BY <1>16, <2>1, <2>2, <2>3, <2>4, <2>5 DEF Evolved, Keeps
<1>18. Waits(c, e, "TRY_ENTER", h, Around) BY <1>10, <1>16 DEF Waits
<1>19. Within(o2, Around) BY <1>3, <1>7, <1>8 DEF Within, e
<1>20. ~IsLoop(o2) BY <1>8 DEF IsLoop, LoopKinds
<1>21. Expects(c, m2, o2, Around, loopStack[o2.n + 1]) BY <1>8, <1>18, <1>20 DEF Expects, e, h
<1>22. Intercepted(c, o2) BY <1>8 DEF Intercepted
<1>23. HolesOf(o2) = {} BY <1>8, HolesOfIs
<1>24. V \subseteq (Holes \ HolesOf(Cur)) \cup HolesOf(o2) BY DEF V
<1>25. Working(c, SetLast(open, o2), SubSeq(locals, 1, Cur.h), Cur.d + 1, loopStack)
  <2>1. o2.arm # "body" BY <1>8
  <2>2. /\ Evolved(chunk, MarkIn(Height, Ctx), c, MarkIn(Cur.h, o2.ctx), V, Cur.a)
        /\ Expects(c, MarkIn(Cur.h, o2.ctx), o2, Around, loopStack[o2.n + 1])
    BY <1>8, <1>17, <1>21 DEF m0, m2, e, h
  <2> QED BY <1>1, <1>2, <1>8, <1>19, <1>22, <1>24, <2>1, <2>2, TryTurned
<1> QED BY <1>6, <1>25 DEF Then, c

----------------------------------------------------------------------------
(* Chunks.                                                                 *)

(* The state in which a chunk begins.                                      *)
LEMMA FreshWorks == ASSUME NEW sd \in Nat PROVE Working(<<>>, <<>>, <<>>, sd, <<>>)
<1>1. /\ <<>> \in Seq(Statement) /\ <<>> \in Seq(Local) /\ <<>> \in Seq(LoopRecord)
      /\ <<>> \in Seq(Instruction)
  OBVIOUS
<1>2. Nesting(<<>>, <<>>, sd, <<>>) BY DEF Nesting
<1>3. Contexts(<<>>) BY DEF Contexts
<1> DEFINE m == MarkOf(<<>>, <<>>)
<1>4. m = MarkIn(0, Outermost) /\ Outermost \in Context
  BY DEF MarkOf, Innermost, Outermost, Context
<1>5. m \in Mark /\ m.h = 0 /\ m.hs = <<>> /\ m.rf = 0 BY <1>4, MarkInIs DEF Outermost
<1> HIDE DEF m
<1>6. Ext(<<>>, m)[1].h = 0 /\ Ext(<<>>, m)[1].hs = <<>>
  <2>1. Len(<<>>) + 1 = 1 OBVIOUS
  <2>2. LET i == Ext(<<>>, m)[Len(<<>>) + 1] IN i.h = m.h /\ i.hs = m.hs BY <1>1, <1>5, ExtIs
  <2> QED BY <1>5, <2>1, <2>2
<1>7. Sound(<<>>, m, HolesIn(<<>>, <<>>)) BY <1>1, <1>5, <1>6 DEF Sound, Named
<1> QED BY <1>1, <1>2, <1>3, <1>7 DEF Working, m

(* The end of a chunk: what NOTYPE and RETURN complete is accepted.        *)
LEMMA ChunkFinished ==
  ASSUME Now, FinishChunk
  PROVE  LET c == chunk \o <<Ins("NOTYPE", 0, 0, Height), Ins("RETURN", 0, 0, Height + 1)>> IN
         c \in Seq(Instruction) /\ ChunkOK(c)
<1>0. /\ Ctx \in Context /\ Height \in Nat /\ Height + 1 \in Nat /\ chunk \in Seq(Instruction)
      /\ Nesting(open, locals, scopeDepth, loopStack) /\ loopStack \in Seq(LoopRecord)
      /\ Made(chunk, Height, Ctx, Holes)
  BY NowIs
<1>1. open = <<>> BY DEF FinishChunk
<1>2. Ctx = Outermost BY <1>1 DEF Ctx
<1>3. DOMAIN loopStack = {}
  <2>1. DOMAIN open = {} BY <1>1
  <2> QED BY <1>0, <2>1 DEF Nesting
<1>4. Holes = {}
  <2>1. \A p : p \notin Holes BY <1>1, <1>3, HolesAre DEF Holes
  <2> QED BY <2>1
<1> DEFINE i1 == InsIn(Ctx, "NOTYPE", 0, 0, {}, Height)
           i2 == InsIn(Ctx, "RETURN", 0, 0, {}, Height + 1)
           c1 == Append(chunk, i1)
           m  == MarkIn(Height + 1, Ctx)
<1>5. "NOTYPE" \in Ops \ {"RETURN"} /\ "RETURN" \in Ops /\ "NOTYPE" \in Ops /\ 0 \in Nat
      /\ {} \in SUBSET ErrTypes
  BY OpsAre DEF Ops
<1>6. Ins("NOTYPE", 0, 0, Height) = i1 /\ i1 \in Instruction BY <1>0, <1>5, InsIs
<1>7. Ins("RETURN", 0, 0, Height + 1) = i2 /\ i2 \in Instruction BY <1>0, <1>5, InsIs
<1>8. /\ i2.op = "RETURN" /\ i2.y = 0 /\ i2.h = Height + 1 /\ i2.hs = Ctx.hs /\ i2.rf = Ctx.rf
  BY <1>0, <1>5, InsInIs
<1>9. Adds("NOTYPE", 0, Height, Height + 1) BY DEF Adds
<1>10. Made(c1, Height + 1, Ctx, Holes) BY <1>0, <1>5, <1>9, AddPlain
<1>11. m.h = Height + 1 /\ m.hs = Ctx.hs /\ m.rf = Ctx.rf BY <1>0, MarkInIs
<1>12. m.h >= 1 /\ m.hs = <<>> /\ m.rf = 0 BY <1>0, <1>2, <1>11 DEF Outermost
<1>13. chunk \o <<i1, i2>> = Append(c1, i2) BY <1>0, <1>6, <1>7, Cat2
<1> HIDE DEF i1, i2, c1, m
<1>14. Sound(c1, m, {}) BY <1>4, <1>10 DEF Made, Grown, m
<1>15. Append(c1, i2) \in Seq(Instruction) /\ ChunkOK(Append(c1, i2))
  BY <1>7, <1>8, <1>11, <1>12, <1>14, ClosedOK
<1> QED BY <1>6, <1>7, <1>13, <1>15

(* The invariant is kept by the end of a chunk.                            *)
LEMMA FinishChunkCompiles == ASSUME CGInv, FinishChunk PROVE CGInv'
<1> DEFINE c == chunk \o <<Ins("NOTYPE", 0, 0, Height), Ins("RETURN", 0, 0, Height + 1)>>
<1>1. Now /\ CGTypes /\ Finished BY DEF CGInv, Now
<1>2. c \in Seq(Instruction) /\ ChunkOK(c) BY <1>1, ChunkFinished
<1>3. /\ fn <= NumFuncs /\ compiled' = [compiled EXCEPT ![fn] = c] /\ fn' = fn + 1
      /\ chunk' = <<>> /\ locals' = <<>> /\ scopeDepth' = FirstDepth(fn + 1) /\ open' = <<>>
      /\ loopStack' = loopStack
  BY DEF FinishChunk
<1> HIDE DEF c
<1>4. fn \in 1..NumFuncs /\ fn + 1 \in 1..(NumFuncs + 1) /\ NumFuncs \in Nat
  BY <1>1, <1>3, CodeGenAssumption DEF CGTypes
<1>5. CGTypes' BY <1>1, <1>2, <1>3, <1>4 DEF CGTypes
<1>6. loopStack = <<>>
  <2>1. open = <<>> BY DEF FinishChunk
  <2>2. loopStack \in Seq(LoopRecord) /\ Nesting(open, locals, scopeDepth, loopStack)
    BY <1>1, NowIs
  <2>3. DOMAIN open = {} BY <2>1
  <2>4. DOMAIN loopStack = {} BY <2>2, <2>3 DEF Nesting
  <2> QED BY <2>2, <2>4
<1>7. FirstDepth(fn + 1) \in Nat BY DEF FirstDepth
<1>8. Working(chunk', open', locals', scopeDepth', loopStack') BY <1>3, <1>6, <1>7, FreshWorks
<1>9. Finished'
  <2> SUFFICES ASSUME NEW f \in 1..NumFuncs, f < fn' PROVE ChunkOK(compiled'[f]) BY DEF Finished
  <2>1. CASE f = fn BY <1>1, <1>2, <1>3, <1>4, <2>1 DEF CGTypes
  <2>2. CASE f # fn
    <3>1. f < fn BY <1>3, <1>4, <2>2
    <3>2. compiled'[f] = compiled[f] BY <1>1, <1>3, <2>2 DEF CGTypes
    <3> QED BY <1>1, <3>1, <3>2 DEF Finished
  <2> QED BY <2>1, <2>2
<1> QED BY <1>5, <1>8, <1>9 DEF CGInv

(* The compiler starts in the invariant.                                   *)
LEMMA CompilerStarts == ASSUME CGInit PROVE CGInv
<1>1. NumFuncs \in Nat \ {0} BY CodeGenAssumption
<1>2. CGTypes BY <1>1 DEF CGInit, CGTypes
<1>3. FirstDepth(1) \in Nat BY DEF FirstDepth
<1>4. Working(chunk, open, locals, scopeDepth, loopStack) BY <1>3, FreshWorks DEF CGInit
<1>5. Finished BY DEF CGInit, Finished
<1> QED BY <1>2, <1>4, <1>5 DEF CGInv

----------------------------------------------------------------------------
(* The compiler and the machine.                                           *)

(* While the compiler works the machine is idle and empty. *)
RInv ==
  /\ TypeInv
  /\ status = "idle" => frames = <<>> /\ stack = <<>>
  /\ status # "idle" => VInv

(* The machine starts idle, in its invariant.                              *)
LEMMA RunInit == ASSUME Funcs = 1..NumFuncs, Init PROVE RInv
<1>1. pendingReturn \in Value BY DEF Init, VMIdle, Value
<1>2. frames \in Seq(Frame) /\ stack \in Seq(Value) BY DEF Init, VMIdle
<1>3. IsProgram(code)
  <2>1. \A f \in Funcs : <<>> \in Seq(Instruction) OBVIOUS
  <2> QED BY <2>1 DEF Init, IsProgram, CallsNameFunctions
<1> QED BY <1>1, <1>2, <1>3 DEF Init, VMIdle, RInv, TypeInv, VMTypeOK, Running

(* Every step keeps the machine's invariant, if what is started is         *)
(* verified.                                                               *)
LEMMA RunStep ==
  ASSUME RInv, CompilesToVerified, [Next]_vars
  PROVE  RInv'
<1>1. CASE UNCHANGED vmVars
  BY <1>1 DEF vmVars, RInv, VInv, TypeInv, VMTypeOK, Verified, StackDiscipline,
              HandlersFollowText, NeverUndefined, Running, HeightOf, Annotation, chunkOf
<1>2. CASE Start
  <2>1. /\ BeginRunOf(compiled) /\ IsProgram(compiled) /\ Verified(compiled)
        /\ frames = <<>> /\ stack = <<>> /\ code' = compiled /\ status' = "running"
    BY <1>2 DEF Start, BeginRunOf, CompilesToVerified, RInv
  <2>2. TypeInv' BY <2>1, BeginType DEF RInv
  <2>3. StackDiscipline' /\ HandlersFollowText' /\ NeverUndefined' BY <2>1, BeginStep
  <2> QED BY <2>1, <2>2, <2>3 DEF RInv, VInv
<1>3. CASE Run
  <2>1. VInv /\ VMNext BY <1>3 DEF Run, RInv, VMNext
  <2>2. VInv' BY <2>1, VInvStep
  <2>3. status' # "idle" BY <2>1, CodeStays DEF VInv
  <2> QED BY <2>2, <2>3 DEF RInv, VInv
<1> QED BY <1>1, <1>2, <1>3 DEF Next, Compile, vars

(* Whatever program is compiled, and for every stack limit and every set   *)
(* of error types, the machine keeps the stack discipline, its handlers    *)
(* follow the text and nothing is undefined, provided the compiler's       *)
(* output passes the verifier.                                             *)
THEOREM CompiledRunsSafely ==
  ASSUME Funcs = 1..NumFuncs
  PROVE  Spec /\ []CompilesToVerified
           => [](StackDiscipline /\ HandlersFollowText /\ NeverUndefined)
<1>1. RInv => StackDiscipline /\ HandlersFollowText /\ NeverUndefined
  BY DEF RInv, VInv, StackDiscipline, HandlersFollowText, NeverUndefined, Running
<1>2. Init => RInv BY RunInit
<1>3. RInv /\ CompilesToVerified /\ [Next]_vars => RInv' BY RunStep
<1> QED BY <1>1, <1>2, <1>3, PTL DEF Spec

(* Every step of the compiler keeps the invariant.                         *)
LEMMA CompilerStep == ASSUME CGInv, Accepted, CGStep PROVE CGInv'
<1>0. Now /\ CGTypes /\ Finished /\ Tame BY DEF CGInv, Now, Accepted
<1>1. ASSUME Then, fn' = fn, compiled' = compiled PROVE CGInv'
  BY <1>0, <1>1 DEF CGInv, CGTypes, Finished, Then
<1>2. CASE Let \/ Use \/ Assign \/ Eval
  <2>1. fn' = fn /\ compiled' = compiled BY <1>2 DEF Let, Use, Assign, Eval, Same
  <2>2. Then BY <1>0, <1>2, LetCompiles, UseCompiles, AssignCompiles, EvalCompiles
  <2> QED BY <1>1, <2>1, <2>2
<1>3. CASE CallStmt \/ ThrowStmt \/ AssertStmt \/ ReturnStmt
  <2>1. fn' = fn /\ compiled' = compiled
    BY <1>3 DEF CallStmt, ThrowStmt, AssertStmt, ReturnStmt, Same
  <2>2. Then BY <1>0, <1>3, CallCompiles, ThrowCompiles, AssertCompiles, ReturnCompiles
  <2> QED BY <1>1, <2>1, <2>2
<1>4. CASE Break \/ Continue \/ Skip
  <2>1. fn' = fn /\ compiled' = compiled BY <1>4 DEF Break, Continue, Skip, Same
  <2>2. Then BY <1>0, <1>4, BreakCompiles, ContinueCompiles, SkipCompiles
  <2> QED BY <1>1, <2>1, <2>2
<1>5. CASE IfOpen \/ Elif \/ Else \/ IfClose
  <2>1. fn' = fn /\ compiled' = compiled BY <1>5 DEF IfOpen, Elif, Else, IfClose, Same
  <2>2. Then BY <1>0, <1>5, IfOpenCompiles, ElifCompiles, ElseCompiles, IfCloseCompiles
  <2> QED BY <1>1, <2>1, <2>2
<1>6. CASE WhileOpen \/ WhileClose \/ DoOpen \/ DoClose \/ ForOpen \/ ForClose
  <2>1. fn' = fn /\ compiled' = compiled
    BY <1>6 DEF WhileOpen, WhileClose, DoOpen, DoClose, ForOpen, ForClose, Same
  <2>2. Then
    BY <1>0, <1>6, WhileOpenCompiles, WhileCloseCompiles, DoOpenCompiles, DoCloseCompiles,
       ForOpenCompiles, ForCloseCompiles
  <2> QED BY <1>1, <2>1, <2>2
<1>7. CASE ForEachOpen \/ ForEachClose
  <2>1. fn' = fn /\ compiled' = compiled BY <1>7 DEF ForEachOpen, ForEachClose, Same
  <2>2. Then BY <1>0, <1>7, ForEachOpenCompiles, ForEachCloseCompiles
  <2> QED BY <1>1, <2>1, <2>2
<1>8. CASE SwitchOpen \/ SwitchCase \/ SwitchDefault \/ SwitchClose
  <2>1. fn' = fn /\ compiled' = compiled
    BY <1>8 DEF SwitchOpen, SwitchCase, SwitchDefault, SwitchClose, Same
  <2>2. Then
    BY <1>0, <1>8, SwitchOpenCompiles, SwitchCaseCompiles, SwitchDefaultCompiles,
       SwitchCloseCompiles
  <2> QED BY <1>1, <2>1, <2>2
<1>9. CASE TryOpen \/ CatchClause \/ TryClose \/ FinallyOpen \/ FinallyClose
  <2>1. fn' = fn /\ compiled' = compiled
    BY <1>9 DEF TryOpen, CatchClause, TryClose, FinallyOpen, FinallyClose, Same
  <2>2. Then
    BY <1>0, <1>9, Accepted, TryOpenCompiles, CatchClauseCompiles, TryCloseCompiles,
       FinallyOpenCompiles, FinallyCloseCompiles
  <2> QED BY <1>1, <2>1, <2>2
<1>10. CASE FinishChunk BY <1>10, FinishChunkCompiles
<1> QED BY <1>2, <1>3, <1>4, <1>5, <1>6, <1>7, <1>8, <1>9, <1>10 DEF CGStep

(* What the invariant says of the compiler's output.                       *)
LEMMA OutputVerified ==
  ASSUME CGInv, Funcs = 1..NumFuncs, Compiled
  PROVE  IsProgram(compiled) /\ Verified(compiled)
<1>1. NumFuncs \in Nat /\ fn \in 1..(NumFuncs + 1) /\ fn > NumFuncs
      /\ compiled \in [1..NumFuncs -> Seq(Instruction)] /\ Finished
  BY CodeGenAssumption DEF CGInv, CGTypes, Compiled
<1>2. \A f \in Funcs : ChunkOK(compiled[f]) BY <1>1 DEF Finished
<1>3. CallsNameFunctions(compiled)
  <2> SUFFICES ASSUME NEW f \in Funcs, NEW p \in DOMAIN compiled[f], compiled[f][p].op = "CALL"
               PROVE  compiled[f][p].x \in Funcs
    BY DEF CallsNameFunctions
  <2>1. InstrOK(compiled[f], p) BY <1>2 DEF ChunkOK
  <2> QED BY <2>1 DEF InstrOK
<1> QED BY <1>1, <1>2, <1>3 DEF IsProgram, Verified

(* The compiler's invariant holds until the machine starts, the machine's  *)
(* for good.                                                               *)
WholeInv == RInv /\ (status = "idle" => CGInv)

(* The invariant says what the compiler promises.                          *)
LEMMA WholeVerified == ASSUME WholeInv, Funcs = 1..NumFuncs PROVE CompilesToVerified
BY OutputVerified DEF WholeInv, CompilesToVerified

(* The invariant holds initially.                                          *)
LEMMA WholeInit == ASSUME Funcs = 1..NumFuncs, Init PROVE WholeInv
BY RunInit, CompilerStarts DEF WholeInv, Init

(* Every step of the compiler and of the machine keeps it.                 *)
LEMMA WholeStep == ASSUME WholeInv, Accepted, [Next]_vars PROVE WholeInv'
<1>1. CompilesToVerified BY WholeVerified DEF Accepted
<1>2. RInv' BY <1>1, RunStep DEF WholeInv
<1>3. ASSUME status' = "idle" PROVE CGInv'
  <2>1. CASE Compile
    <3>1. CGStep /\ UNCHANGED vmVars BY <2>1 DEF Compile
    <3>2. status = "idle" BY <1>3, <3>1 DEF vmVars
    <3> QED BY <3>1, <3>2, CompilerStep DEF WholeInv
  <2>2. CASE Start BY <1>3, <2>2 DEF Start, BeginRunOf
  <2>3. CASE Run
    <3>1. VInv /\ VMNext BY <2>3 DEF Run, WholeInv, RInv, VMNext
    <3>2. status' # "idle" BY <3>1, <2>3, CodeStays DEF VInv, Run
    <3> QED BY <1>3, <3>2
  <2>4. CASE UNCHANGED vars
    <3>1. status = "idle" /\ UNCHANGED cgVars BY <1>3, <2>4 DEF vars, vmVars
    <3>2. CGInv BY <3>1 DEF WholeInv
    <3>3. /\ fn' = fn /\ chunk' = chunk /\ locals' = locals /\ scopeDepth' = scopeDepth
          /\ loopStack' = loopStack /\ open' = open /\ compiled' = compiled
      BY <3>1 DEF cgVars
    <3> QED BY <3>2, <3>3 DEF CGInv, CGTypes, Finished
  <2> QED BY <2>1, <2>2, <2>3, <2>4 DEF Next
<1> QED BY <1>2, <1>3 DEF WholeInv

(* Every chunk the compiler hands over is accepted by the verifier,        *)
(* whatever the statements of the program, however many and however deeply *)
(* nested, as long as the program uses none of the harmful combinations.   *)
THEOREM CompilerCorrect ==
  ASSUME Accepted PROVE Spec => []CompilesToVerified
<1>1. Init => WholeInv BY WholeInit DEF Accepted
<1>2. WholeInv /\ [Next]_vars => WholeInv' BY WholeStep
<1>3. WholeInv => CompilesToVerified BY WholeVerified DEF Accepted
<1> QED BY <1>1, <1>2, <1>3, PTL DEF Spec

(* In every run of a compiled program the top frame holds what the         *)
(* compiler counted and every suspended frame what its call left.          *)
THEOREM CompiledKeepsDiscipline ==
  ASSUME Accepted PROVE Spec => []StackDiscipline
<1>1. Spec => []CompilesToVerified BY CompilerCorrect
<1>2. Spec /\ []CompilesToVerified
        => [](StackDiscipline /\ HandlersFollowText /\ NeverUndefined)
  BY CompiledRunsSafely DEF Accepted
<1> QED BY <1>1, <1>2, PTL

(* In every run of a compiled program an error goes to the innermost catch *)
(* clause that encloses it in the text.                                    *)
THEOREM CompiledHandlersFollowText ==
  ASSUME Accepted PROVE Spec => []HandlersFollowText
<1>1. Spec => []CompilesToVerified BY CompilerCorrect
<1>2. Spec /\ []CompilesToVerified
        => [](StackDiscipline /\ HandlersFollowText /\ NeverUndefined)
  BY CompiledRunsSafely DEF Accepted
<1> QED BY <1>1, <1>2, PTL

(* No run of a compiled program takes an operand from an empty stack,      *)
(* reads a slot beyond the end or leaves its chunk.                        *)
THEOREM CompiledNeverUndefined ==
  ASSUME Accepted PROVE Spec => []NeverUndefined
<1>1. Spec => []CompilesToVerified BY CompilerCorrect
<1>2. Spec /\ []CompilesToVerified
        => [](StackDiscipline /\ HandlersFollowText /\ NeverUndefined)
  BY CompiledRunsSafely DEF Accepted
<1> QED BY <1>1, <1>2, PTL

(* A return that is under way always belongs to a finally block that is    *)
(* running: the flag of VM::run is never stale.                            *)
THEOREM CompiledReturnOwned ==
  ASSUME Accepted PROVE Spec => []PendingReturnOwned
<1>1. ASSUME WholeInv PROVE PendingReturnOwned
  <2> SUFFICES ASSUME Running, isReturning
               PROVE  \E i \in DOMAIN frames : \E j \in DOMAIN frames[i].handlers :
                        frames[i].handlers[j].inside
    BY DEF PendingReturnOwned
  <2> DEFINE i == Len(frames)
  <2>1. RInv /\ VInv BY <1>1 DEF WholeInv, RInv, Running
  <2>2. /\ frames \in Seq(Frame) /\ HandlersFollowText /\ frames # <<>>
        /\ frame.handlers \in Seq(Handler)
    BY <2>1, FrameTypes DEF VInv
  <2>3. i \in DOMAIN frames BY <2>2
  <2> HIDE DEF i
  <2>4. Returning(chunkOf(frames[i]), frames[i]) BY <2>2, <2>3 DEF HandlersFollowText, i
  <2>5. frames[i].handlers \in Seq(Handler) /\ frames[i].handlers # <<>>
        /\ Top(frames[i].handlers).inside
    BY <2>2, <2>4 DEF Returning, frame, Top, i
  <2>6. Len(frames[i].handlers) \in DOMAIN frames[i].handlers BY <2>5
  <2> QED BY <2>3, <2>5, <2>6 DEF Top
<1>2. Init => WholeInv BY WholeInit DEF Accepted
<1>3. WholeInv /\ [Next]_vars => WholeInv' BY WholeStep
<1> QED BY <1>1, <1>2, <1>3, PTL DEF Spec
============================================================================
