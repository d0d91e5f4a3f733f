------------------------------ MODULE Memory ------------------------------
(***************************************************************************)
(* What a program may rely on of its memory: an object that is held, or is *)
(* in an object that can be reached from one that is held, exists and has  *)
(* the contents the program gave it.  Only the program changes what is     *)
(* held and what an object contains; while a collection is under way       *)
(* nothing changes.                                                        *)
(***************************************************************************)
EXTENDS Reachability

VARIABLES
  held,       \* the objects a program's variables and temporaries hold
  contents,   \* reachable object -> the objects in it
  collecting  \* a collection is under way

Init ==
  /\ held = {} /\ collecting = FALSE
  /\ contents = [o \in {} |-> {}]

(* The program, from contents c to d, picks up what it reaches and drops   *)
(* what it holds.                                                          *)
Hold(c, d) ==
  /\ held' \subseteq DOMAIN c
  /\ d = Visible(c, held')

(* It makes an object of what it reaches.                                  *)
Allocate(c, d) ==
  \E o \in held' \ DOMAIN c :
    /\ held' \ {o} \subseteq DOMAIN c
    /\ d[o] \subseteq DOMAIN c
    /\ d = Visible([x \in DOMAIN c \cup {o} |-> IF x = o THEN d[o] ELSE c[x]], held')

(* It changes what is in an object it reaches.                             *)
Write(c, d) ==
  /\ held' \subseteq DOMAIN c
  /\ \E o \in DOMAIN c \cap DOMAIN d :
       /\ d[o] \subseteq DOMAIN c
       /\ d = Visible([c EXCEPT ![o] = d[o]], held')

Program ==
  /\ ~collecting /\ UNCHANGED collecting
  /\ \E c \in {contents}, d \in {contents'} : Hold(c, d) \/ Allocate(c, d) \/ Write(c, d)
Collector == collecting' = ~collecting /\ UNCHANGED <<held, contents>>

Next == Program \/ Collector
Spec == Init /\ [][Next]_<<held, contents, collecting>>
=============================================================================
