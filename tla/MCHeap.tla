------------------------------ MODULE MCHeap ------------------------------
(* The heap with three objects, one global variable and one native that    *)
(* calls back: room for a cycle of two objects, garbage or not, beside     *)
(* another object.  Addresses are alike: a new object takes any.           *)
EXTENDS Heap, TLC

CONSTANTS A1, A2, A3
MCObjects == {A1, A2, A3}
MCNames == {"g"}
Addresses == Permutations(MCObjects)
=============================================================================
