--------------------------- MODULE MCEnvironment ---------------------------
(***************************************************************************)
(* A small instance of Environment: three names, one of them a native's;   *)
(* two ints; a native and three functions that rank differently for ints.  *)
(***************************************************************************)
EXTENDS Environment

MCNames == {"a", "b", "p"}
MCBuiltins == [n \in {"p"} |-> "print"]
MCFuncs == {"print", "real", "optional", "many"}
MCParams ==
  [f \in MCFuncs |->
     CASE f = "real" -> <<"float", "float", "float">>
       [] f = "optional" -> <<"any", "int", "any">>
       [] f = "many" -> <<"int">>
       [] OTHER -> <<>>]
MCDefaults == [f \in MCFuncs |-> IF f \in {"real", "optional"} THEN 2 ELSE 0]
One == Value("int", 1)
MCLiterals == {One, Value("int", 2)}
MCArgLists == {<<>>, <<One>>, <<One, One, One>>, <<One, One, One, One>>}
=============================================================================
