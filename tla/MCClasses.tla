----------------------------- MODULE MCClasses -----------------------------
(***************************************************************************)
(* A small instance of Classes: a diamond with a helper for the class      *)
(* itself, one for subclasses, an overloaded method, an operator and a     *)
(* static field that both parents have.                                    *)
(***************************************************************************)
EXTENDS Classes

Text(name, parents, body) == [name |-> name, parents |-> parents, body |-> body]

Base == Text("A", <<>>,
  <<Method(Constructor, "public", "A.new"), Method("m", "public", "A.m"),
    Method("h", "private", "A.h"), Method(Operator, "public", "A.plus")>>)
Left == Text("B", <<"A">>,
  <<Method(Constructor, "public", "B.new"), Method("m", "public", "B.m"), Method("m", "public", "B.m1"),
    Method("g", "protected", "B.g"), Field("x", "private", "private"), Static("s", "public")>>)
Right == Text("C", <<"A">>,
  <<Method(Constructor, "public", "C.new"), Method("m", "public", "C.m"), Field("y", "protected", "protected"),
    Static("s", "public")>>)
Bottom == Text("D", <<"B", "C">>, <<Method(Constructor, "public", "D.new"), Method("h", "public", "D.h")>>)

MCTexts == {Base, Left, Right, Bottom}
MCArity ==
  [f \in {d.f : d \in {d \in UNION {Range(t.body) : t \in MCTexts} : d.k = "method"}} |->
     IF f \in {"A.plus", "B.m1"} THEN 1 ELSE 0]

(* The last operation and its answer decide nothing.                       *)
State == <<classes, named, owner, objects, frames>>
=============================================================================
