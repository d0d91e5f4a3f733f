------------------------------- MODULE Values -------------------------------
(***************************************************************************)
(* Numbers, variables and expressions of a straight-line y-- program.      *)
(*                                                                         *)
(* A number is exact: an int within the machine's range, a bigint, or a    *)
(* float kept as a fraction.  A function has no parameters and returns a   *)
(* literal.  `ss` is the sequence of locals, `gs` maps the names of the    *)
(* globals to their values.                                                *)
(***************************************************************************)
EXTENDS Integers, Sequences

CONSTANTS
  MaxInt,  \* the greatest long long; the least is -MaxInt - 1
  Consts   \* the globals declared const

ASSUME MaxIntAssumption == MaxInt \in Nat \ {0}

----------------------------------------------------------------------------
(* Values. *)

Val(t, n, d) == [t |-> t, n |-> n, d |-> d]
IntV(n) == Val("int", n, 1)
BigV(n) == Val("big", n, 1)
FunV(n) == Val("fun", n, 1)
FloatV(n, d) == IF d < 0 THEN Val("float", -n, -d) ELSE Val("float", n, d)
NoType == Val("notype", 0, 1)
Garbage == Val("garbage", 0, 1)  \* what undefined behaviour gives: any value
Fail(e) == [t |-> "error", e |-> e]

Failed(v) == v.t = "error"
InRange(n) == -MaxInt - 1 <= n /\ n <= MaxInt
Literal(n) == IF InRange(n) THEN IntV(n) ELSE BigV(n)

(* Value::asFloat knows int and float; a bigint counts as zero.            *)
AsFloat(v) == IF v.t \in {"int", "float"} THEN v ELSE IntV(0)

Quotient(a, b) ==
  IF b.n = 0 THEN Fail("DivisionByZeroError") ELSE FloatV(a.n * b.d, a.d * b.n)

Sum(a, b) ==
  CASE a.t = "int" /\ b.t = "int" -> Literal(a.n + b.n)
    [] "float" \in {a.t, b.t} ->
         LET x == AsFloat(a)  y == AsFloat(b)
         IN  FloatV(x.n * y.d + y.n * x.d, x.d * y.d)
    [] OTHER -> BigV(a.n + b.n)

EvaluateConstBinary(op, a, b) ==
  CASE "garbage" \in {a.t, b.t} -> Garbage
    [] "fun" \in {a.t, b.t} -> Fail("ValueError")
    [] op = "add" -> Sum(a, b)
    [] op = "div" -> Quotient(AsFloat(a), AsFloat(b))

(* Less(v, p, q): v < p / q. *)
Less(v, p, q) == v.n * q < p * v.d

----------------------------------------------------------------------------
(* Variables.  A name means its last local, or else the global.            *)

Slot(ss, x) ==
  LET is == {i \in DOMAIN ss : ss[i].name = x}
  IN  IF is = {} THEN 0 ELSE CHOOSE i \in is : \A j \in is : j <= i

ReadSlot(ss, i) == IF ss[i].val.t = "notype" THEN Fail("aborted") ELSE ss[i].val
ReadGlobal(gs, x) == IF x \in DOMAIN gs THEN gs[x] ELSE Fail("NameError")
Read(ss, gs, x) ==
  IF Slot(ss, x) # 0 THEN ReadSlot(ss, Slot(ss, x)) ELSE ReadGlobal(gs, x)

(* The outcome of a statement: the locals, the globals, and its error.     *)
Outcome(ss, gs, err) == [slots |-> ss, globals |-> gs, err |-> err]

WriteSlot(ss, gs, i, v) ==
  CASE ss[i].const -> Outcome(ss, gs, "ConstError")
    [] ss[i].lock /\ ss[i].val.t # v.t -> Outcome(ss, gs, "ConstError")
    [] OTHER -> Outcome([ss EXCEPT ![i].val = v], gs, "none")

WriteGlobal(ss, gs, x, v) ==
  CASE x \notin DOMAIN gs -> Outcome(ss, gs, "NameError")
    [] x \in Consts -> Outcome(ss, gs, "ConstError")
    [] OTHER -> Outcome(ss, [gs EXCEPT ![x] = v], "none")

Write(ss, gs, x, v) ==
  CASE Failed(v) -> Outcome(ss, gs, v.e)
    [] Slot(ss, x) # 0 -> WriteSlot(ss, gs, Slot(ss, x), v)
    [] OTHER -> WriteGlobal(ss, gs, x, v)

----------------------------------------------------------------------------
(* Expressions: a literal, a variable, a call, a sum or quotient of two    *)
(* of these.                                                               *)

CallOf(f) == IF f.t = "fun" THEN Literal(f.n) ELSE IF Failed(f) THEN f ELSE Fail("TypeError")

Operand(ss, gs, e) ==
  CASE e.k = "lit" -> Literal(e.n)
    [] e.k = "var" -> Read(ss, gs, e.v)
    [] e.k = "call" -> CallOf(Read(ss, gs, e.v))

Apply(op, a, b) ==
  CASE Failed(a) -> a
    [] Failed(b) -> b
    [] OTHER -> EvaluateConstBinary(op, a, b)

Eval(ss, gs, e) ==
  CASE e.k = "none" -> NoType
    [] e.k \in {"lit", "var", "call"} -> Operand(ss, gs, e)
    [] e.k = "bin" -> Apply(e.op, Operand(ss, gs, e.a), Operand(ss, gs, e.b))

=============================================================================
