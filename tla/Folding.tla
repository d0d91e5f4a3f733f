------------------------------ MODULE Folding ------------------------------
(***************************************************************************)
(* The optimizing part of ByteCodeCompiler and the code it emits for the   *)
(* statements of a block: constant folding (tryExtractConstant), calls     *)
(* evaluated while compiling, loops evaluated while compiling              *)
(* (tryEvaluateCompileTimeLoop), typed arithmetic (OP_FAST_IADD,           *)
(* OP_FAST_IDIV), OP_INC_LOCAL and OP_JUMP_IF_NOT_LT.  The whole block is  *)
(* compiled, then executed.  Optimizing must not show: the execution       *)
(* implements Source.                                                      *)
(***************************************************************************)
EXTENDS Values

CONSTANTS
  Statements, MaxStmts, Preamble,  \* as in Source
  Exact,   \* the integers up to here are exact as doubles, then every other
  Risks    \* the harmful combinations blocks may contain

VARIABLES
  prog, status, ip, slots, globals, out,  \* as in Source
  code,         \* one entry per statement
  locals,       \* the compiler's vector: name, flag, known value, known type
  knownGlobals  \* name -> value

srcVars == <<prog, status, ip, slots, globals, out>>
vars == <<prog, status, ip, slots, globals, out, code, locals, knownGlobals>>

Direct == INSTANCE Source
  WITH prog <- prog, status <- status, ip <- ip, slots <- slots, globals <- globals, out <- out

LoopKinds == {"for", "while", "idle"}

Unknown == Val("unknown", 0, 1)
Known(v) == v.t # "unknown"

----------------------------------------------------------------------------
(* What the compiler knows. *)

(* A literal is parsed as a double.  What a conversion beyond the range of *)
(* long long gives is undefined; the processor gives the least integer.    *)
DoubleOf(n) ==
  CASE n <= Exact -> n
    [] n % 4 = 1 -> n - 1
    [] n % 4 = 3 -> n + 1
    [] OTHER -> n
LiteralAsDouble(n) ==
  IF InRange(DoubleOf(n)) THEN IntV(DoubleOf(n)) ELSE IntV(-MaxInt - 1)

KnownGlobal(x) == IF x \in DOMAIN knownGlobals THEN knownGlobals[x] ELSE Unknown
KnownVar(ls, x) ==
  IF Slot(ls, x) # 0 /\ Known(ls[Slot(ls, x)].val) THEN ls[Slot(ls, x)].val
                                                  ELSE KnownGlobal(x)

(* A call of a known function without arguments is run by a nested VM.     *)
KnownCall(f) == IF f.t = "fun" THEN Literal(f.n) ELSE Unknown
KnownAtom(ls, e) ==
  CASE e.k = "lit" -> LiteralAsDouble(e.n)
    [] e.k = "var" -> KnownVar(ls, e.v)
    [] e.k = "call" -> KnownCall(KnownGlobal(e.v))

KnownApply(op, a, b) ==
  IF ~Known(a) \/ ~Known(b) \/ Failed(EvaluateConstBinary(op, a, b)) THEN Unknown
  ELSE EvaluateConstBinary(op, a, b)

tryExtractConstant(ls, e) ==
  CASE e.k = "none" -> Unknown
    [] e.k \in {"lit", "var", "call"} -> KnownAtom(ls, e)
    [] e.k = "bin" -> KnownApply(e.op, KnownAtom(ls, e.a), KnownAtom(ls, e.b))

tryExtractType(ls, e) ==
  CASE e.k = "lit" -> "int"
    [] e.k = "var" ->
         IF Slot(ls, e.v) # 0 /\ ls[Slot(ls, e.v)].type # "notype"
         THEN ls[Slot(ls, e.v)].type ELSE
         IF e.v \in DOMAIN knownGlobals THEN knownGlobals[e.v].t ELSE "notype"
    [] OTHER -> "notype"

----------------------------------------------------------------------------
(* Code of an expression: a constant, or the expression with its variables *)
(* resolved (slot 0 is a global) and the form of its operator.             *)

Const(v) == [k |-> "const", val |-> v]
Folds(ls, e) == e.k \in {"bin", "call"} /\ Known(tryExtractConstant(ls, e))

Resolved(ls, e) ==
  CASE e.k = "lit" -> Const(Literal(e.n))
    [] e.k = "call" /\ Folds(ls, e) -> Const(tryExtractConstant(ls, e))
    [] OTHER -> [k |-> IF e.k = "var" THEN "load" ELSE "call",
                 slot |-> Slot(ls, e.v), name |-> e.v]

Compile(ls, e) ==
  CASE e.k = "none" -> Const(NoType)
    [] e.k \in {"lit", "var", "call"} -> Resolved(ls, e)
    [] e.k = "bin" /\ Folds(ls, e) -> Const(tryExtractConstant(ls, e))
    [] e.k = "bin" /\ ~Folds(ls, e) ->
         [k |-> "bin", op |-> e.op, a |-> Resolved(ls, e.a), b |-> Resolved(ls, e.b),
          fast |-> tryExtractType(ls, e.a) = "int" /\ tryExtractType(ls, e.b) = "int"]

----------------------------------------------------------------------------
(* Executing code. *)

LoadVar(ss, gs, c) == IF c.slot = 0 THEN ReadGlobal(gs, c.name) ELSE ReadSlot(ss, c.slot)
Load(ss, gs, c) ==
  CASE c.k = "const" -> c.val
    [] c.k = "load" -> LoadVar(ss, gs, c)
    [] c.k = "call" -> CallOf(LoadVar(ss, gs, c))

(* The typed opcodes read Value::iVal whatever the value is.               *)
Truncated(a, b) == IF (a >= 0) = (b >= 0) \/ a % b = 0 THEN a \div b ELSE (a \div b) + 1
Typed(op, a, b) ==
  CASE a.t # "int" \/ b.t # "int" -> Garbage
    [] op = "add" -> Sum(a, b)
    [] b.n = 0 -> Fail("ValueError")
    [] OTHER -> IntV(Truncated(a.n, b.n))

Perform(c, a, b) ==
  CASE Failed(a) -> a
    [] Failed(b) -> b
    [] c.fast -> Typed(c.op, a, b)
    [] OTHER -> EvaluateConstBinary(c.op, a, b)

Run(ss, gs, c) ==
  CASE c.k \in {"const", "load", "call"} -> Load(ss, gs, c)
    [] c.k = "bin" -> Perform(c, Load(ss, gs, c.a), Load(ss, gs, c.b))

Evaluate(ss, gs, c) ==
  LET v == Run(ss, gs, c) IN Outcome(ss, gs, IF Failed(v) THEN v.e ELSE "none")

Store(ss, gs, slot, x, v) ==
  CASE Failed(v) -> Outcome(ss, gs, v.e)
    [] slot # 0 -> WriteSlot(ss, gs, slot, v)
    [] OTHER -> WriteGlobal(ss, gs, x, v)

(* OP_INC_LOCAL asks neither for const nor for lock, and overflows as the  *)
(* machine does; a bigint is not incremented.                              *)
Incremented(v) ==
  CASE v.t = "notype" -> Fail("aborted")
    [] v.t = "int" -> IntV(IF v.n = MaxInt THEN -MaxInt - 1 ELSE v.n + 1)
    [] v.t = "float" -> FloatV(v.n + v.d, v.d)
    [] OTHER -> v

IncLocal(ss, gs, slot) ==
  LET v == Incremented(ss[slot].val)
  IN  IF Failed(v) THEN Outcome(ss, gs, v.e)
      ELSE Outcome([ss EXCEPT ![slot].val = v], gs, "none")

LoopFor(ss, gs, c) ==
  LET run[i \in 0 .. c.n] ==
        IF i = 0 THEN Outcome(ss, gs, "none")
        ELSE LET o == run[i - 1] IN
             IF o.err # "none" THEN o
             ELSE Store(o.slots, o.globals, c.slot, c.name, Run(o.slots, o.globals, c.rhs))
  IN  run[c.n]

(* OP_JUMP_IF_NOT_LT takes the limit truncated, and ints only.             *)
JumpIfNotLt(ss, gs, c) ==
  LET v == ss[c.slot].val IN
  CASE v.t = "notype" -> Outcome(ss, gs, "aborted")
    [] v.t # "int" -> Outcome(ss, gs, "TypeError")
    [] v.n >= c.n \div c.q -> Outcome(ss, gs, "left")
    [] OTHER -> IncLocal(ss, gs, c.slot)

(* The condition and the body of a loop over a global.                     *)
NextRound(ss, gs, c) ==
  LET v == ReadGlobal(gs, c.name) IN
  CASE Failed(v) -> Outcome(ss, gs, v.e)
    [] ~Less(v, c.n, c.q) -> Outcome(ss, gs, "left")
    [] OTHER -> Store(ss, gs, 0, c.name, Sum(v, IntV(1)))

LoopWhile(ss, gs, c) ==
  LET run[i \in 0 .. 2 * MaxInt + 2] ==
        IF i = 0 THEN Outcome(ss, gs, "none")
        ELSE LET o == run[i - 1] IN
             IF o.err # "none" THEN o
             ELSE IF c.slot # 0 THEN JumpIfNotLt(o.slots, o.globals, c)
             ELSE NextRound(o.slots, o.globals, c)
      o == run[2 * MaxInt + 2]
  IN  IF o.err = "left" THEN [o EXCEPT !.err = "none"] ELSE o

LoopRun(ss, gs, c) ==
  CASE c.k = "for" -> LoopFor(ss, gs, c)
    [] c.k = "while" -> LoopWhile(ss, gs, c)
    [] c.k = "idle" -> Evaluate(ss, gs, c.rhs)

(* The code a folded loop leaves: every local is set to a value.           *)
SetLocals(ss, gs, vals) ==
  LET run[i \in 0 .. Len(vals)] ==
        IF i = 0 THEN Outcome(ss, gs, "none")
        ELSE LET o == run[i - 1] IN
             IF o.err # "none" THEN o ELSE WriteSlot(o.slots, o.globals, i, vals[i])
  IN  run[Len(vals)]

DeclareLocal(ss, gs, c) ==
  LET v == Run(ss, gs, c.rhs) IN
  IF Failed(v) THEN Outcome(ss, gs, v.e)
  ELSE Outcome(Append(ss, [name |-> c.name, val |-> v, const |-> c.m = "const",
                           lock |-> c.m = "lock"]), gs, "none")

Define(gs, x, v) == [y \in DOMAIN gs \cup {x} |-> IF y = x THEN v ELSE gs[y]]

Executed(c) ==
  CASE c.k = "let" -> DeclareLocal(slots, globals, c)
    [] c.k = "set" -> Store(slots, globals, c.slot, c.name, Run(slots, globals, c.rhs))
    [] c.k = "inc" -> IncLocal(slots, globals, c.slot)
    [] c.k \in LoopKinds -> LoopRun(slots, globals, c)
    [] c.k = "fold" -> SetLocals(slots, globals, c.vals)
    [] c.k = "fun" -> Outcome(slots, Define(globals, c.name, FunV(c.n)), "none")
    [] c.k = "out" -> Evaluate(slots, globals, c.rhs)

PrintedBy(c) == IF c.k = "out" THEN <<Run(slots, globals, c.rhs)>> ELSE <<>>

----------------------------------------------------------------------------
(* Compiling a statement: its code and the locals afterwards. *)

Local(x, val, type) == [name |-> x, val |-> val, type |-> type]

(* The value is looked at once more after addLocal.                        *)
NewLocalAnyKnown(s) ==
  LET ls == Append(locals, Local(s.v, Unknown, "notype")) IN
  Local(s.v, tryExtractConstant(ls, s.e), IF s.m = "lock" THEN tryExtractType(ls, s.e) ELSE "notype")
NewLocal(s) ==
  LET ls == Append(locals, Local(s.v, Unknown, "notype")) IN
  Local(s.v, IF s.m = "const" THEN tryExtractConstant(ls, s.e) ELSE Unknown,
             IF s.m = "lock" THEN tryExtractType(ls, s.e) ELSE "notype")

CompileLet(s) ==
  [code |-> [k |-> "let", name |-> s.v, rhs |-> Compile(locals, s.e), m |-> s.m],
   locals |-> Append(locals, NewLocal(s))]

StoreCode(x, rhs) == [k |-> "set", slot |-> Slot(locals, x), name |-> x, rhs |-> rhs]

CompileSet(s) == [code |-> StoreCode(s.v, Compile(locals, s.e)), locals |-> locals]

(* A local is incremented in place, a global by OP_IADD.                   *)
CompileInc(s) ==
  [code |-> IF Slot(locals, s.v) # 0 THEN [k |-> "inc", slot |-> Slot(locals, s.v)]
            ELSE StoreCode(s.v, [k |-> "bin", op |-> "add", fast |-> FALSE,
                                 a |-> Resolved(locals, [k |-> "var", v |-> s.v]),
                                 b |-> Resolved(locals, [k |-> "lit", n |-> 1])]),
   locals |-> locals]

LoopCode(s) ==
  CASE s.k = "for" -> [k |-> "for", n |-> s.n, slot |-> Slot(locals, s.v), name |-> s.v,
                       rhs |-> Compile(locals, s.e)]
    [] s.k = "while" -> [k |-> "while", n |-> IF s.q = 1 THEN LiteralAsDouble(s.n).n ELSE s.n,
                         q |-> s.q, slot |-> Slot(locals, s.v), name |-> s.v]
    [] s.k = "idle" -> [k |-> "idle", rhs |-> Compile(locals, s.e)]

(* The nested VM starts with the locals it knows and no globals; reading   *)
(* any other local aborts it, and calls are not even compiled.             *)
Sandbox ==
  [i \in DOMAIN locals |->
     [name |-> locals[i].name, const |-> FALSE, lock |-> FALSE,
      val |-> IF Known(locals[i].val) THEN locals[i].val ELSE NoType]]

Calls(c) == "call" \in IF c.k = "bin" THEN {c.a.k, c.b.k} ELSE {c.k}
NestedRun(c) ==
  IF c.k # "while" /\ Calls(c.rhs) THEN Outcome(Sandbox, <<>>, "aborted")
                                 ELSE LoopRun(Sandbox, <<>>, c)

(* The scopes of the nested compiler start at 0, those of the locals it is *)
(* given do not: the end of the loop pops these locals, in a deeper block  *)
(* the end of each round of a while.  The run then works, and the values   *)
(* are read back, beyond the end of the stack: what comes back is what the *)
(* loop left there, or anything.                                           *)
ReadBack(o) ==
  {vs \in [DOMAIN o.slots -> {o.slots[i].val : i \in DOMAIN o.slots} \cup {Garbage}] :
     \A i \in DOMAIN vs : vs[i] \in {o.slots[i].val, Garbage}}

LoopStays(s) == [code |-> LoopCode(s), locals |-> locals]
LoopFolded(vs) ==
  [code |-> [k |-> "fold", vals |-> vs],
   locals |-> [i \in DOMAIN locals |-> [locals[i] EXCEPT !.val = vs[i]]]]

Completes(o) == o.err = "none"
tryEvaluateCompileTimeLoop(s) ==
  LET o == NestedRun(LoopCode(s)) IN
  IF ~Completes(o) THEN {LoopStays(s)}
  ELSE {IF \E i \in DOMAIN vs : vs[i].t = "notype" THEN LoopStays(s) ELSE LoopFolded(vs) :
          vs \in ReadBack(o)}

(* What the compiler may make of a statement.                              *)
compileStmt(s) ==
  CASE s.k = "let" -> {CompileLet(s)}
    [] s.k = "set" -> {CompileSet(s)}
    [] s.k = "inc" -> {CompileInc(s)}
    [] s.k \in LoopKinds -> tryEvaluateCompileTimeLoop(s)
    [] s.k = "fun" -> {[code |-> [k |-> "fun", name |-> s.v, n |-> s.n], locals |-> locals]}
    [] s.k = "out" -> {[code |-> [k |-> "out", rhs |-> Compile(locals, s.e)],
                        locals |-> locals]}

emitFunctionOnce(s) ==
  IF s.k = "fun" /\ s.v \notin DOMAIN knownGlobals
  THEN Define(knownGlobals, s.v, FunV(s.n)) ELSE knownGlobals
emitFunction(s) == IF s.k = "fun" THEN Define(knownGlobals, s.v, FunV(s.n)) ELSE knownGlobals

----------------------------------------------------------------------------
(* Combinations in which optimizing does show.  Blocks contain those in    *)
(* Risks only.                                                             *)

Writes(s) == s.k \in {"set", "inc", "for", "while"}
HasExpr(s) == s.k \in {"let", "set", "for", "idle", "out"}

(* The declaration of the i-th local.                                      *)
Declared(i) == SelectSeq(prog, LAMBDA s : s.k = "let")[i].m
IsConst(x) == Slot(locals, x) # 0 /\ Declared(Slot(locals, x)) = "const"

LitsOf(e) ==
  CASE e.k = "lit" -> {e.n}
    [] e.k = "bin" -> {a.n : a \in {x \in {e.a, e.b} : x.k = "lit"}}
    [] OTHER -> {}

Counts(s) == s.k \in {"inc", "while"} /\ Slot(locals, s.v) # 0
Divides(e) == e.k = "bin" /\ e.op = "div"
Extreme(e) == \E n \in LitsOf(e) : n >= MaxInt

(* The values read back are set in every local, const ones included, and   *)
(* count as known ever after, even if the loop stood in a branch.          *)
FoldsLocals(s) == s.k \in LoopKinds /\ locals # <<>> /\ Completes(NestedRun(LoopCode(s)))

(* A local hides a global, not what is known of the global.                *)
Shadows(s) ==
  \/ s.k = "let" /\ s.v \in DOMAIN knownGlobals
  \/ s.k = "fun" /\ Slot(locals, s.v) # 0

(* A function's variable is an ordinary variable.                          *)
RedefinesFunction(s) ==
  \/ Writes(s) /\ Slot(locals, s.v) = 0 /\ KnownGlobal(s.v).t = "fun"
  \/ s.k = "fun" /\ s.guarded

(* The paths for counting expect a variable that is not const, and ints    *)
(* that do not overflow.                                                   *)
CountsConst(s) == Counts(s) /\ IsConst(s.v)
CountsWide(s) ==
  \/ Counts(s) /\ \E i \in DOMAIN prog : HasExpr(prog[i]) /\ (Divides(prog[i].e) \/ Extreme(prog[i].e))
  \/ Counts(s) /\ s.k = "while" /\ s.n >= MaxInt
  \/ HasExpr(s) /\ (Divides(s.e) \/ Extreme(s.e))
       /\ \E i \in DOMAIN prog : prog[i].k \in {"inc", "while"}
FloatLimit(s) == Counts(s) /\ s.k = "while" /\ s.q # 1

(* Two locked ints divide as ints.                                         *)
DividesTyped(s) ==
  /\ HasExpr(s)
  /\ LET c == Compile(locals, s.e) IN c.k = "bin" /\ c.fast /\ c.op = "div"

(* What is known of a literal is what a double holds of it.                *)
BigLiteral(s) ==
  /\ HasExpr(s)
  /\ s.e.k = "bin" \/ (s.k = "let" /\ s.m # "plain")
  /\ \E n \in LitsOf(s.e) : LiteralAsDouble(n) # Literal(n)

RiskOf(s) ==
  {r \in {"fold_locals", "shadow", "redefine_function", "count_const", "count_wide",
          "float_limit", "typed_div", "big_literal"} :
     CASE r = "fold_locals" -> FoldsLocals(s)
       [] r = "shadow" -> Shadows(s)
       [] r = "redefine_function" -> RedefinesFunction(s)
       [] r = "count_const" -> CountsConst(s)
       [] r = "count_wide" -> CountsWide(s)
       [] r = "float_limit" -> FloatLimit(s)
       [] r = "typed_div" -> DividesTyped(s)
       [] r = "big_literal" -> BigLiteral(s)}

----------------------------------------------------------------------------

Init ==
  /\ Direct!Init
  /\ code = <<>>
  /\ locals = <<>>
  /\ knownGlobals = [x \in {y \in DOMAIN Preamble : y \in Consts \/ Preamble[y].t = "fun"} |->
                       Preamble[x]]

(* Statements are compiled in the order they are written.                  *)
WriteStmt ==
  /\ status = "writing"
  /\ Len(prog) < MaxStmts
  /\ \E s \in Statements :
       /\ RiskOf(s) \subseteq Risks
       /\ prog' = Append(prog, s)
       /\ \E c \in compileStmt(s) :
            /\ code' = Append(code, [does |-> c.code, knows |-> c.locals])
            /\ locals' = c.locals
       /\ knownGlobals' = emitFunction(s)
  /\ UNCHANGED <<status, ip, slots, globals, out>>

Start == Direct!Start /\ UNCHANGED <<code, locals, knownGlobals>>

Execute ==
  /\ status = "running"
  /\ Direct!Take(Executed(code[ip].does), PrintedBy(code[ip].does))
  /\ UNCHANGED <<code, locals, knownGlobals>>

PassBy == Direct!PassBy /\ UNCHANGED <<code, locals, knownGlobals>>

Next == WriteStmt \/ Start \/ Execute \/ PassBy

Spec == Init /\ [][Next]_vars

----------------------------------------------------------------------------
(* Properties. *)

(* Whatever the compiler folds, evaluates beforehand or specializes, each  *)
(* statement changes the variables, prints and fails as written            *)
(* (README.md:132).                                                        *)
ImplementsSource == Direct!Spec

(* tryExtractConstant and tryExtractType are only as good as locals and    *)
(* knownGlobals: after each statement a local has the value and the type   *)
(* the compiler then knew of it, a global the value known of it            *)
(* (compiler.cpp:346, 356, 1143, compiler.hpp:766).                        *)
KnowledgeSound ==
  status \in {"running", "ended"} /\ ip > 1 =>
    /\ \A i \in DOMAIN slots :
         LET k == code[ip - 1].knows[i] IN
         /\ Known(k.val) => slots[i].val = k.val
         /\ k.type # "notype" => slots[i].val.t = k.type
    /\ \A x \in DOMAIN knownGlobals \cap DOMAIN globals :
         (ip = Len(prog) + 1) => globals[x] = knownGlobals[x]
=============================================================================
