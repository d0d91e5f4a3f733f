----------------------------- MODULE ClassText -----------------------------
(***************************************************************************)
(* The texts of class statements, the operations on classes and objects,   *)
(* and their answers.  Values are left out: what matters of a property is  *)
(* whose it is.                                                            *)
(***************************************************************************)
EXTENDS Naturals, FiniteSets, SequencesExt

CONSTANTS
  Texts,   \* the class statements of the program
  Arity    \* function -> the number of its arguments

Levels == {"public", "private", "protected"}
Constructor == "__construct__"
Operator == "__plus__"

(* A text is [name, parents, body]; the body consists of members.  A       *)
(* method has its function, an instance field the level its let states.    *)
Method(name, access, f) == [k |-> "method", name |-> name, access |-> access, f |-> f, let |-> "public"]
Field(name, access, let) == [k |-> "field", name |-> name, access |-> access, f |-> "none", let |-> let]
Static(name, access) == [k |-> "static", name |-> name, access |-> access, f |-> "none", let |-> "public"]
Members(t, k, name) == {d \in Range(t.body) : d.k = k /\ d.name = name}
Names(t, k) == {d.name : d \in {d \in Range(t.body) : d.k = k}}
NamesOf(k) == UNION {Names(t, k) : t \in Texts}
MethodNames == NamesOf("method")
FieldNames == NamesOf("field")
StaticNames == NamesOf("static")
Counts == Range(Arity)

ASSUME TextsAssumption ==
  /\ \A t \in Texts : \A d \in Range(t.body) :
       /\ d.k \in {"method", "field", "static"} /\ {d.access, d.let} \subseteq Levels
       /\ d.k = "method" => Arity[d.f] \in Nat
       /\ d.name = Constructor => d.access = "public"
  /\ \A j, k \in {"method", "field", "static"} : j # k => NamesOf(j) \cap NamesOf(k) = {}
  /\ \A t \in Texts : \A m \in MethodNames : \A d, e \in Members(t, "method", m) :
       d # e => Arity[d.f] # Arity[e.f]

(* Operations.                                                             *)
DefineLine(t) == [k |-> "class", t |-> t]
EndLine(n) == [k |-> "end", n |-> n]
NewLine(c, n) == [k |-> "new", c |-> c, n |-> n]
CallLine(k, r, m, n) == [k |-> k, r |-> r, m |-> m, n |-> n]
GetLine(k, r, x) == [k |-> k, r |-> r, m |-> x]
SetLine(k, r, x, a) == [k |-> k, r |-> r, m |-> x, a |-> a]
ReturnLine == [k |-> "return"]

(* Answers.                                                                *)
Done == [k |-> "done"]
Error(e) == [k |-> "error", e |-> e]
Failed(r) == r.k = "error"
Undefined == [k |-> "undefined"]
Found(k, c) == [k |-> k, c |-> c]
=============================================================================
