--------------------------- MODULE Reachability ---------------------------
(* What can be reached in a heap: c gives the objects in each object.      *)
CONSTANT Objects

Closed(c, T) == \A o \in T \cap DOMAIN c : c[o] \subseteq T

(* What is in S, and what no closed set that holds S leaves out.           *)
Reachable(c, S) ==
  {o \in Objects : o \in S \/ \A T \in SUBSET (Objects \ {o}) : S \subseteq T => ~Closed(c, T)}

Visible(c, S) == [o \in Reachable(c, S) \cap DOMAIN c |-> c[o]]
=============================================================================
