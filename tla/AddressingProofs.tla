-------------------------- MODULE AddressingProofs --------------------------
(***************************************************************************)
(* Every instruction on a local finds in its slot the declaration the      *)
(* compiler resolved the name to.  VerifierProofs has the machine's half:  *)
(* a chunk that can be labelled is run as its labels say.  Here the        *)
(* compiler labels what it emits with its own table of locals, and every   *)
(* statement keeps the labels of the chunk.                                *)
(***************************************************************************)
EXTENDS CompileAndRunProofs

----------------------------------------------------------------------------
(* Labels.  The compiler's locals are the label of the code that comes     *)
(* next; `Knit` says that the labels P of the code c, one for each         *)
(* instruction and one for the next, satisfy the conditions of `Addressed` *)
(* but for jumps that still have no target.                                *)

Label(ls, n) == [k \in 1..n |-> ls[k].d]
Full(ls) == Label(ls, Len(ls))

Targeted == Branches \cup {"TRY_ENTER"}

Wired(c, P, p) ==
  LET i == c[p] IN
  /\ P[p] \in Seq(Nat) /\ Len(P[p]) + Spare(i.op) <= i.h
  /\ i.op \notin {"JUMP", "LOOP", "RETURN"} => Onto(c, P, p)
  /\ i.op \in Targeted /\ i.x # 0 => i.x \in DOMAIN P /\ Knows(P[p], P[i.x])
  /\ i.op = "TRY_ENTER" /\ i.y # 0 => i.y \in DOMAIN P /\ Knows(P[p], P[i.y])
  /\ i.op \in Fallible \cup {"RETURN"} /\ i.hs # <<>> =>
       Top(i.hs) \in DOMAIN c /\ Knows(P[p], P[Top(i.hs)])
  /\ Names(i) => i.y + 1 \in DOMAIN P[p] /\ P[p][i.y + 1] = i.x

Knit(c, P) ==
  /\ c \in Seq(Instruction) /\ P \in Seq(Seq(Nat)) /\ Len(P) = Len(c) + 1
  /\ \A p \in DOMAIN c : Wired(c, P, p)

(* The code c2 is c with more behind it; what is known where c ends may    *)
(* have been forgotten.                                                    *)
Carries(c, P, c2, P2) ==
  /\ Knit(c2, P2) /\ Len(c) <= Len(c2)
  /\ \A p \in DOMAIN c : c2[p].op = c[p].op /\ P2[p] = P[p]
  /\ Knows(P[Len(c) + 1], P2[Len(c) + 1])

(* A jump to be patched, and a place to jump back to.                      *)
Hole(c, P, p, l) == p \in DOMAIN c /\ c[p].op \in Targeted /\ Knows(P[p], l)
Back(P, q, l) == q \in DOMAIN P /\ Knows(l, P[q])

(* What `Knit` says of the code and of its labels. *)
LEMMA KnitIs ==
  ASSUME NEW c, NEW P, Knit(c, P)
  PROVE  /\ c \in Seq(Instruction) /\ Len(c) \in Nat /\ DOMAIN c = 1..Len(c)
         /\ P \in Seq(Seq(Nat)) /\ Len(P) = Len(c) + 1 /\ DOMAIN P = 1..(Len(c) + 1)
         /\ \A p \in DOMAIN c : Wired(c, P, p) /\ c[p] \in Instruction
         /\ \A q \in 1..(Len(c) + 1) : P[q] \in Seq(Nat)
         /\ Last(P) = P[Len(c) + 1] /\ Last(P) \in Seq(Nat)
         /\ Len(c) + 1 \in DOMAIN P
<1>1. /\ c \in Seq(Instruction) /\ P \in Seq(Seq(Nat)) /\ Len(P) = Len(c) + 1
      /\ \A p \in DOMAIN c : Wired(c, P, p)
  BY DEF Knit
<1>2. Len(c) \in Nat /\ DOMAIN c = 1..Len(c) /\ DOMAIN P = 1..(Len(c) + 1) BY <1>1
<1>3. Len(c) + 1 \in 1..(Len(c) + 1) BY <1>2
<1>4. \A q \in 1..(Len(c) + 1) : P[q] \in Seq(Nat) BY <1>1, <1>2
<1>5. Last(P) = P[Len(c) + 1] BY <1>1 DEF Last
<1> QED BY <1>1, <1>2, <1>3, <1>4, <1>5

(* A label knows itself. *)
LEMMA KnowsSelf == \A l : Knows(l, l)
BY DEF Knows

(* A knit chunk carries itself. *)
LEMMA CarriesIs == ASSUME NEW c, NEW P, Knit(c, P) PROVE Carries(c, P, c, P)
<1>1. Len(c) <= Len(c) BY KnitIs
<1> QED BY <1>1, KnowsSelf DEF Carries

(* What carries what carries a chunk carries the chunk. *)
LEMMA CarriesOn ==
  ASSUME NEW c1, NEW P1, NEW c2, NEW P2, NEW c3, NEW P3, Knit(c1, P1),
         Carries(c1, P1, c2, P2), Carries(c2, P2, c3, P3)
  PROVE  Carries(c1, P1, c3, P3)
<1>1. /\ Knit(c2, P2) /\ Knit(c3, P3) /\ Len(c1) <= Len(c2) /\ Len(c2) <= Len(c3)
      /\ \A p \in DOMAIN c1 : c2[p].op = c1[p].op /\ P2[p] = P1[p]
      /\ \A p \in DOMAIN c2 : c3[p].op = c2[p].op /\ P3[p] = P2[p]
      /\ Knows(P1[Len(c1) + 1], P2[Len(c1) + 1]) /\ Knows(P2[Len(c2) + 1], P3[Len(c2) + 1])
  BY DEF Carries
<1>2. /\ Len(c1) \in Nat /\ Len(c2) \in Nat /\ Len(c3) \in Nat
      /\ DOMAIN c1 = 1..Len(c1) /\ DOMAIN c2 = 1..Len(c2)
  BY <1>1, KnitIs
<1>3. Len(c1) <= Len(c3) /\ DOMAIN c1 \subseteq DOMAIN c2 BY <1>1, <1>2
<1>4. Knows(P1[Len(c1) + 1], P3[Len(c1) + 1])
  <2>1. CASE Len(c1) = Len(c2) BY <1>1, <2>1, KnowsOn
  <2>2. CASE Len(c1) # Len(c2)
    <3>0. Len(c1) \in Nat /\ Len(c2) \in Nat /\ Len(c1) <= Len(c2) /\ Len(c1) # Len(c2)
      BY <1>1, <1>2, <2>2
    <3>1. Len(c1) + 1 \in DOMAIN c2
      <4>1. Len(c1) + 1 \in 1..Len(c2) BY ONLY <3>0
      <4> QED BY <1>2, <4>1
    <3> QED BY <1>1, <3>1
  <2> QED BY <2>1, <2>2
<1>5. \A p \in DOMAIN c1 : c3[p].op = c1[p].op /\ P3[p] = P1[p] BY <1>1, <1>3
<1> QED BY <1>1, <1>3, <1>4, <1>5 DEF Carries

(* A jump to be patched stays one when code is emitted. *)
LEMMA HoleOn ==
  ASSUME NEW c, NEW P, Knit(c, P), NEW c2, NEW P2, Carries(c, P, c2, P2), NEW p, NEW l, Hole(c, P, p, l)
  PROVE  Hole(c2, P2, p, l)
<1>1. Knit(c2, P2) /\ Len(c) <= Len(c2) /\ c2[p].op = c[p].op /\ P2[p] = P[p] BY DEF Carries, Hole
<1>2. p \in DOMAIN c2
  <2>1. DOMAIN c = 1..Len(c) /\ DOMAIN c2 = 1..Len(c2) /\ Len(c) \in Nat /\ Len(c2) \in Nat
    BY <1>1, KnitIs
  <2> QED BY <1>1, <2>1 DEF Hole
<1> QED BY <1>1, <1>2 DEF Hole

(* A place to go back to stays one when code is emitted. *)
LEMMA BackOn ==
  ASSUME NEW c, NEW P, Knit(c, P), NEW c2, NEW P2, Carries(c, P, c2, P2), NEW q, NEW l, Back(P, q, l)
  PROVE  Back(P2, q, l)
<1>1. /\ Knit(c2, P2) /\ Len(c) <= Len(c2) /\ \A p \in DOMAIN c : P2[p] = P[p]
      /\ Knows(P[Len(c) + 1], P2[Len(c) + 1])
  BY DEF Carries
<1>2. DOMAIN c = 1..Len(c) /\ DOMAIN P = 1..(Len(c) + 1) /\ DOMAIN P2 = 1..(Len(c2) + 1)
      /\ Len(c) \in Nat /\ Len(c2) \in Nat
  BY <1>1, KnitIs
<1>3. q \in DOMAIN P /\ Knows(l, P[q]) BY DEF Back
<1>4. q \in DOMAIN P2 BY <1>1, <1>2, <1>3
<1>5. q \in DOMAIN c \/ q = Len(c) + 1 BY <1>2, <1>3
<1> QED BY <1>1, <1>3, <1>4, <1>5, KnowsOn DEF Back

(* An instruction that may be emitted where the label is D; R are the      *)
(* places of the same code that have the same label.                       *)
Calm(c, P, R, D, i) ==
  /\ i \in Instruction /\ Len(D) + Spare(i.op) <= i.h
  /\ i.op \in Branches => i.x = 0 \/ i.x \in R \/ (i.x \in DOMAIN c /\ Knows(D, P[i.x]))
  /\ i.op = "TRY_ENTER" => i.x = 0 /\ i.y = 0
  /\ i.op \in Fallible \cup {"RETURN"} /\ i.hs # <<>> =>
       Top(i.hs) \in DOMAIN c /\ Knows(D, P[Top(i.hs)])
  /\ Names(i) => i.y + 1 \in DOMAIN D /\ D[i.y + 1] = i.x

(* The instructions so far are wired as before.                            *)
LEMMA WiredOn ==
  ASSUME NEW c, NEW P, Knit(c, P), NEW c2 \in Seq(Instruction), NEW P2 \in Seq(Seq(Nat)),
         Len(P2) = Len(c2) + 1, Len(c) <= Len(c2), \A p \in DOMAIN c : c2[p] = c[p] /\ P2[p] = P[p],
         Knows(P[Len(c) + 1], P2[Len(c) + 1]), NEW p \in DOMAIN c
  PROVE  Wired(c2, P2, p)
<1>1. /\ Len(c) \in Nat /\ DOMAIN c = 1..Len(c) /\ DOMAIN P = 1..(Len(c) + 1)
      /\ Wired(c, P, p) /\ DOMAIN P2 = 1..(Len(c2) + 1) /\ DOMAIN c2 = 1..Len(c2) /\ Len(c2) \in Nat
  BY KnitIs
<1>2. c2[p] = c[p] /\ P2[p] = P[p] OBVIOUS
<1>3. \A q \in DOMAIN P : q \in DOMAIN P2 /\ Knows(P[q], P2[q])
  <2> SUFFICES ASSUME NEW q \in DOMAIN P PROVE q \in DOMAIN P2 /\ Knows(P[q], P2[q]) OBVIOUS
  <2>1. q \in DOMAIN c \/ q = Len(c) + 1 BY <1>1
  <2>2. q \in DOMAIN P2 BY <1>1
  <2> QED BY <2>1, <2>2, KnowsSelf
<1>4. \A l, q : q \in DOMAIN P /\ Knows(l, P[q]) => q \in DOMAIN P2 /\ Knows(l, P2[q]) BY <1>3, KnowsOn
<1>5. Onto(c, P, p) => Onto(c2, P2, p)
  <2> SUFFICES ASSUME Onto(c, P, p), NEW k \in DOMAIN P2[p + 1]
               PROVE  \/ k \in DOMAIN P2[p] /\ P2[p + 1][k] = P2[p][k]
                      \/ c2[p].op \in Pushing /\ k > c2[p].h /\ P2[p + 1][k] = p
    BY DEF Onto
  <2>1. p + 1 \in DOMAIN P BY <1>1
  <2>2. k \in DOMAIN P[p + 1] /\ P2[p + 1][k] = P[p + 1][k] BY <1>3, <2>1 DEF Knows
  <2> QED BY <1>2, <2>2 DEF Onto
<1>6. DOMAIN c \subseteq DOMAIN P /\ DOMAIN c \subseteq DOMAIN c2 BY <1>1
<1> DEFINE i == c[p]
           D == P[p]
<1>7. /\ D \in Seq(Nat) /\ Len(D) + Spare(i.op) <= i.h
      /\ i.op \notin {"JUMP", "LOOP", "RETURN"} => Onto(c2, P2, p)
      /\ i.op \in Targeted /\ i.x # 0 => i.x \in DOMAIN P /\ Knows(D, P[i.x])
      /\ i.op = "TRY_ENTER" /\ i.y # 0 => i.y \in DOMAIN P /\ Knows(D, P[i.y])
      /\ i.op \in Fallible \cup {"RETURN"} /\ i.hs # <<>> =>
           Top(i.hs) \in DOMAIN c /\ Knows(D, P[Top(i.hs)])
      /\ Names(i) => i.y + 1 \in DOMAIN D /\ D[i.y + 1] = i.x
  BY <1>1, <1>5 DEF Wired
<1>8. c2[p] = i /\ P2[p] = D BY <1>2
<1> HIDE DEF i, D
<1> QED BY <1>4, <1>6, <1>7, <1>8 DEF Wired

(* What the instruction i behind the code c leaves known, or pushes.       *)
Brings(c, P, i, E) ==
  i.op \notin {"JUMP", "LOOP", "RETURN"} =>
    \A k \in DOMAIN E : \/ k \in DOMAIN Last(P) /\ E[k] = Last(P)[k]
                        \/ i.op \in Pushing /\ k > i.h /\ E[k] = Len(c) + 1

(* One instruction more, with the label E behind it.                       *)
LEMMA OneWired ==
  ASSUME NEW c, NEW P, Knit(c, P), NEW i, Calm(c, P, {Len(c) + 1}, Last(P), i), NEW E, E \in Seq(Nat),
         Brings(c, P, i, E)
  PROVE  /\ Carries(c, P, Append(c, i), Append(P, E)) /\ Last(Append(P, E)) = E
         /\ Len(Append(c, i)) = Len(c) + 1 /\ Append(P, E)[Len(c) + 1] = Last(P)
<1> DEFINE c2 == Append(c, i)
           P2 == Append(P, E)
           n == Len(c)
           D == Last(P)
<1>1. /\ c \in Seq(Instruction) /\ n \in Nat /\ DOMAIN c = 1..n
      /\ P \in Seq(Seq(Nat)) /\ Len(P) = n + 1 /\ DOMAIN P = 1..(n + 1)
      /\ D = P[n + 1] /\ D \in Seq(Nat) /\ i \in Instruction
  BY KnitIs DEF Calm
<1>2. /\ c2 \in Seq(Instruction) /\ Len(c2) = n + 1 /\ DOMAIN c2 = 1..(n + 1) /\ c2[n + 1] = i
      /\ \A p \in 1..n : c2[p] = c[p]
  BY <1>1, AppendIs
<1>3. /\ P2 \in Seq(Seq(Nat)) /\ Len(P2) = n + 2 /\ DOMAIN P2 = 1..(n + 2) /\ P2[n + 2] = E
      /\ \A q \in 1..(n + 1) : P2[q] = P[q]
  BY <1>1
<1> HIDE DEF c2, P2, n, D
<1>4. /\ Len(P2) = Len(c2) + 1 /\ n <= Len(c2) /\ n + 1 \in 1..(n + 1)
      /\ \A p \in 1..n : p \in 1..(n + 1)
      /\ \A p \in 1..(n + 1) : p \in 1..n \/ p = n + 1
  BY <1>1, <1>2, <1>3
<1>5. P2[n + 1] = D /\ Knows(P[n + 1], P2[n + 1]) BY <1>1, <1>3, <1>4, KnowsSelf
<1>6. \A p \in DOMAIN c : c2[p] = c[p] /\ P2[p] = P[p] BY <1>1, <1>2, <1>3, <1>4
<1>7. ASSUME NEW p \in DOMAIN c PROVE Wired(c2, P2, p)
  BY <1>1, <1>2, <1>3, <1>4, <1>5, <1>6, WiredOn DEF n
<1>8. Wired(c2, P2, n + 1)
  <2>1. /\ Len(D) + Spare(i.op) <= i.h
        /\ i.op \in Branches => i.x = 0 \/ i.x = n + 1 \/ (i.x \in DOMAIN c /\ Knows(D, P[i.x]))
        /\ i.op = "TRY_ENTER" => i.x = 0 /\ i.y = 0
        /\ i.op \in Fallible \cup {"RETURN"} /\ i.hs # <<>> =>
             Top(i.hs) \in DOMAIN c /\ Knows(D, P[Top(i.hs)])
        /\ Names(i) => i.y + 1 \in DOMAIN D /\ D[i.y + 1] = i.x
    BY DEF Calm, D, n
  <2>2. \A q \in DOMAIN c : q \in DOMAIN c2 /\ q \in DOMAIN P2 /\ P2[q] = P[q]
    BY <1>1, <1>2, <1>3, <1>4
  <2>4. n + 1 \in DOMAIN P2 /\ Knows(D, P2[n + 1]) BY <1>1, <1>3, <1>5, KnowsSelf
  <2>3. i.op \notin {"JUMP", "LOOP", "RETURN"} => Onto(c2, P2, n + 1)
    <3>1. n + 1 + 1 = n + 2 BY <1>1
    <3> QED BY <1>2, <1>3, <1>5, <3>1 DEF Onto, Brings, n, D
  <2> QED BY <1>1, <1>2, <1>5, <2>1, <2>2, <2>3, <2>4 DEF Wired, Targeted
<1>9. Knit(c2, P2)
  <2>1. ASSUME NEW p \in DOMAIN c2 PROVE Wired(c2, P2, p)
    <3>1. p \in DOMAIN c \/ p = n + 1 BY <1>1, <1>2, <1>4
    <3> QED BY <1>7, <1>8, <3>1
  <2> QED BY <1>2, <1>3, <1>4, <2>1 DEF Knit
<1>10. Carries(c, P, c2, P2) BY <1>4, <1>5, <1>6, <1>9 DEF Carries, n
<1>11. Last(P2) = E BY <1>3 DEF Last
<1> QED BY <1>1, <1>2, <1>5, <1>10, <1>11 DEF c2, P2, n, D

(* The places of a block of k instructions behind the code c.              *)
Block(c, k) == (Len(c) + 1)..(Len(c) + k + 1)

(* A block of code that declares nothing; D is what is known throughout.   *)
LEMMA BlockWired ==
  ASSUME NEW c, NEW P, Knit(c, P), NEW t \in Seq(Instruction), NEW D \in Seq(Nat), Knows(Last(P), D),
         \A k \in DOMAIN t : Calm(c, P, Block(c, Len(t)), D, t[k])
  PROVE  \E P2 : /\ Carries(c, P, c \o t, P2) /\ Last(P2) = D
                 /\ Len(c \o t) = Len(c) + Len(t)
                 /\ \A q \in Block(c, Len(t)) : P2[q] = D
<1> DEFINE c2 == c \o t
           n == Len(c)
           m == Len(t)
           P2 == [q \in 1..(n + m + 1) |-> IF q <= n THEN P[q] ELSE D]
<1>1. /\ c \in Seq(Instruction) /\ n \in Nat /\ DOMAIN c = 1..n /\ m \in Nat /\ DOMAIN t = 1..m
      /\ P \in Seq(Seq(Nat)) /\ Len(P) = n + 1 /\ DOMAIN P = 1..(n + 1)
      /\ Last(P) = P[n + 1] /\ \A q \in 1..(n + 1) : P[q] \in Seq(Nat)
  BY KnitIs
<1>2. /\ c2 \in Seq(Instruction) /\ Len(c2) = n + m /\ DOMAIN c2 = 1..(n + m)
      /\ \A p \in 1..n : c2[p] = c[p]
      /\ \A k \in 1..m : c2[n + k] = t[k]
  BY <1>1
<1>3. /\ \A q \in 1..n : q \in 1..(n + 1) /\ q \in 1..(n + m) /\ q \in 1..(n + m + 1) /\ q <= n
      /\ \A q \in (n + 1)..(n + m + 1) : q \in 1..(n + m + 1) /\ ~(q <= n)
      /\ \A q \in 1..(n + m + 1) : q \in 1..n \/ q \in (n + 1)..(n + m + 1)
      /\ \A p \in 1..(n + m) :
           p \in 1..n \/ (p - n \in 1..m /\ p = n + (p - n) /\ p + 1 \in (n + 1)..(n + m + 1)
                          /\ p \in (n + 1)..(n + m + 1))
      /\ n + m + 1 \in (n + 1)..(n + m + 1) /\ n + 1 \in (n + 1)..(n + m + 1)
      /\ n + m + 1 \in Nat /\ n <= n + m
  <2> HIDE DEF n, m
  <2> QED BY ONLY <1>1
<1>4. /\ P2 \in Seq(Seq(Nat)) /\ Len(P2) = n + m + 1 /\ DOMAIN P2 = 1..(n + m + 1)
      /\ \A q \in 1..n : P2[q] = P[q]
      /\ \A q \in (n + 1)..(n + m + 1) : P2[q] = D
  <2>1. \A q \in 1..(n + m + 1) : (IF q <= n THEN P[q] ELSE D) \in Seq(Nat) BY <1>1, <1>3
  <2>2. DOMAIN P2 = 1..(n + m + 1) /\ \A q \in 1..(n + m + 1) : P2[q] = IF q <= n THEN P[q] ELSE D
    OBVIOUS
  <2>3. P2 \in [1..(n + m + 1) -> Seq(Nat)] BY <2>1
  <2> HIDE DEF P2
  <2>4. P2 \in Seq(Seq(Nat)) /\ Len(P2) = n + m + 1
    <3> DEFINE w == n + m + 1
               S == Seq(Nat)
    <3>1. P2 \in [1..w -> S] /\ w \in Nat /\ DOMAIN P2 = 1..w BY <1>3, <2>2, <2>3
    <3> HIDE DEF w, S
    <3>2. P2 \in Seq(S) /\ Len(P2) = w BY ONLY <3>1
    <3> QED BY <3>2 DEF w, S
  <2> QED BY <1>3, <2>2, <2>4
<1> HIDE DEF c2, P2, n, m
<1>5. /\ Len(P2) = Len(c2) + 1 /\ n <= Len(c2) /\ \A p \in DOMAIN c : c2[p] = c[p] /\ P2[p] = P[p]
      /\ P2[n + 1] = D /\ Knows(P[n + 1], P2[n + 1])
  BY <1>1, <1>2, <1>3, <1>4
<1>6. ASSUME NEW p \in DOMAIN c PROVE Wired(c2, P2, p)
  <2>1. /\ Len(c) <= Len(c2) /\ Knows(P[Len(c) + 1], P2[Len(c) + 1]) /\ c2 \in Seq(Instruction)
        /\ P2 \in Seq(Seq(Nat)) /\ Len(P2) = Len(c2) + 1
    BY <1>2, <1>4, <1>5 DEF n
  <2> QED BY <1>5, <2>1, WiredOn
<1>7. ASSUME NEW p \in DOMAIN c2, p \notin DOMAIN c PROVE Wired(c2, P2, p)
  <2>1. p - n \in 1..m /\ p + 1 \in (n + 1)..(n + m + 1) /\ p \in (n + 1)..(n + m + 1) /\ c2[p] = t[p - n]
    <3>1. p \in 1..(n + m) /\ p \notin 1..n BY <1>1, <1>2, <1>7
    <3>2. /\ p - n \in 1..m /\ p = n + (p - n) /\ p + 1 \in (n + 1)..(n + m + 1)
          /\ p \in (n + 1)..(n + m + 1)
      BY <1>3, <3>1
    <3> DEFINE k == p - n
    <3>3. k \in 1..m /\ p = n + k BY <3>2
    <3> HIDE DEF k
    <3>4. c2[n + k] = t[k] BY <1>2, <3>3
    <3> QED BY <3>2, <3>3, <3>4 DEF k
  <2> DEFINE i == t[p - n]
  <2>2. Calm(c, P, Block(c, m), D, i) BY <1>1, <2>1 DEF m
  <2>3. P2[p] = D /\ P2[p + 1] = D BY <1>4, <2>1
  <2>4. Onto(c2, P2, p) BY <2>3 DEF Onto
  <2>5. \A q \in DOMAIN c : q \in DOMAIN c2 /\ q \in DOMAIN P2 /\ P2[q] = P[q]
    BY <1>1, <1>2, <1>3, <1>4
  <2>6. \A q \in Block(c, m) : q \in DOMAIN P2 /\ P2[q] = D BY <1>3, <1>4 DEF Block, n
  <2>7. Knows(D, D) BY KnowsSelf
  <2>8. /\ Len(D) + Spare(i.op) <= i.h
        /\ i.op \in Branches => i.x = 0 \/ i.x \in Block(c, m) \/ (i.x \in DOMAIN c /\ Knows(D, P[i.x]))
        /\ i.op = "TRY_ENTER" => i.x = 0 /\ i.y = 0
        /\ i.op \in Fallible \cup {"RETURN"} /\ i.hs # <<>> =>
             Top(i.hs) \in DOMAIN c /\ Knows(D, P[Top(i.hs)])
        /\ Names(i) => i.y + 1 \in DOMAIN D /\ D[i.y + 1] = i.x
    BY <2>2 DEF Calm
  <2>9. c2[p] = i BY <2>1
  <2> HIDE DEF i
  <2> QED BY <2>3, <2>4, <2>5, <2>6, <2>7, <2>8, <2>9 DEF Wired, Targeted
<1>8. Knit(c2, P2) BY <1>2, <1>4, <1>5, <1>6, <1>7 DEF Knit
<1>9. Carries(c, P, c2, P2) BY <1>5, <1>8 DEF Carries, n
<1>10. Last(P2) = D
  <2>1. Last(P2) = P2[n + m + 1] BY <1>4 DEF Last
  <2> QED BY <1>3, <1>4, <2>1
<1>11. \A q \in Block(c, m) : P2[q] = D BY <1>4 DEF Block, n
<1> QED BY <1>2, <1>9, <1>10, <1>11 DEF c2, n, m

(* Patching: the holes that what is known at the end does not contradict.  *)
LEMMA AimedWired ==
  ASSUME NEW c, NEW P, Knit(c, P), NEW c2 \in Seq(Instruction), DOMAIN c2 = DOMAIN c,
         \A p \in DOMAIN c :
           \/ c2[p] = c[p]
           \/ /\ Hole(c, P, p, Last(P))
              /\ c2[p].op = c[p].op /\ c2[p].h = c[p].h /\ c2[p].hs = c[p].hs
              /\ c2[p].x \in {c[p].x, Len(c) + 1} /\ c2[p].y \in {c[p].y, Len(c) + 1}
  PROVE  Carries(c, P, c2, P) /\ Len(c2) = Len(c)
<1>1. /\ Len(c) \in Nat /\ DOMAIN c = 1..Len(c) /\ P \in Seq(Seq(Nat)) /\ Len(P) = Len(c) + 1
      /\ Last(P) = P[Len(c) + 1] /\ Len(c) + 1 \in DOMAIN P
      /\ \A p \in DOMAIN c : Wired(c, P, p)
  BY KnitIs
<1>2. Len(c2) = Len(c)
  <2>1. Len(c2) \in Nat /\ DOMAIN c2 = 1..Len(c2) OBVIOUS
  <2> DEFINE a == Len(c)
             b == Len(c2)
  <2>2. a \in Nat /\ b \in Nat /\ 1..a = 1..b BY <1>1, <2>1
  <2> HIDE DEF a, b
  <2>3. a = b BY ONLY <2>2
  <2> QED BY <2>3 DEF a, b
<1>3. ASSUME NEW p \in DOMAIN c PROVE Wired(c2, P, p) /\ c2[p].op = c[p].op
  <2>1. CASE c2[p] = c[p] BY <1>1, <2>1 DEF Wired, Onto
  <2>2. CASE /\ Hole(c, P, p, Last(P))
             /\ c2[p].op = c[p].op /\ c2[p].h = c[p].h /\ c2[p].hs = c[p].hs
             /\ c2[p].x \in {c[p].x, Len(c) + 1} /\ c2[p].y \in {c[p].y, Len(c) + 1}
    <3>1. c[p].op \in Targeted /\ Knows(P[p], P[Len(c) + 1]) BY <1>1, <2>2 DEF Hole
    <3>2. ~Names(c2[p]) /\ c[p].op # "RETURN"
      BY <2>2, <3>1 DEF Names, Targeted, Branches
    <3>3. Onto(c, P, p) => Onto(c2, P, p) BY <2>2 DEF Onto
    <3>4. /\ P[p] \in Seq(Nat) /\ Len(P[p]) + Spare(c[p].op) <= c[p].h
          /\ c[p].op \notin {"JUMP", "LOOP", "RETURN"} => Onto(c, P, p)
          /\ c[p].op \in Targeted /\ c[p].x # 0 => c[p].x \in DOMAIN P /\ Knows(P[p], P[c[p].x])
          /\ c[p].op = "TRY_ENTER" /\ c[p].y # 0 => c[p].y \in DOMAIN P /\ Knows(P[p], P[c[p].y])
          /\ c[p].op \in Fallible \cup {"RETURN"} /\ c[p].hs # <<>> =>
               Top(c[p].hs) \in DOMAIN c /\ Knows(P[p], P[Top(c[p].hs)])
      BY <1>1 DEF Wired
    <3>5. c2[p].x # 0 => c2[p].x \in DOMAIN P /\ Knows(P[p], P[c2[p].x])
      BY <1>1, <2>2, <3>1, <3>4
    <3>6. c[p].op = "TRY_ENTER" /\ c2[p].y # 0 => c2[p].y \in DOMAIN P /\ Knows(P[p], P[c2[p].y])
      BY <1>1, <2>2, <3>1, <3>4
    <3> QED BY <2>2, <3>2, <3>3, <3>4, <3>5, <3>6 DEF Wired
  <2> QED BY <2>1, <2>2
<1>4. Knit(c2, P) BY <1>1, <1>2, <1>3 DEF Knit
<1>5. Len(c) <= Len(c2) BY <1>1, <1>2
<1> QED BY <1>2, <1>3, <1>4, <1>5, KnowsSelf DEF Carries

(* The instructions that may be emitted there, in a block of n.            *)
Calming(c, P, n, D) == {i \in Instruction : Calm(c, P, Block(c, n), D, i)}

(* A block of calm instructions behind a knit chunk leaves it knit, its    *)
(* label the one the block keeps.                                          *)
LEMMA Sewed ==
  ASSUME NEW c, NEW P, Knit(c, P), NEW D \in Seq(Nat), Knows(Last(P), D),
         NEW n, NEW t \in Seq(Calming(c, P, n, D)), Len(t) = n
  PROVE  \E P2 : /\ Carries(c, P, c \o t, P2) /\ Last(P2) = D /\ Len(c \o t) = Len(c) + n
                 /\ Knit(c \o t, P2) /\ n \in Nat
                 /\ \A k \in 1..n : t[k].op \in Targeted => Hole(c \o t, P2, Len(c) + k, D)
                 /\ \A q \in Block(c, n) : Back(P2, q, D)
<1>1. \A k \in DOMAIN t : t[k] \in Instruction /\ Calm(c, P, Block(c, n), D, t[k]) BY DEF Calming
<1>2. t \in Seq(Instruction) /\ n \in Nat /\ DOMAIN t = 1..n
  <2>1. Calming(c, P, n, D) \subseteq Instruction BY DEF Calming
  <2> QED BY <2>1
<1>3. PICK P2 : /\ Carries(c, P, c \o t, P2) /\ Last(P2) = D
                /\ Len(c \o t) = Len(c) + n /\ \A q \in Block(c, n) : P2[q] = D
  BY <1>1, <1>2, BlockWired
<1>4. Knit(c \o t, P2) BY <1>3 DEF Carries
<1>5. /\ c \in Seq(Instruction) /\ Len(c) \in Nat /\ DOMAIN (c \o t) = 1..(Len(c) + n)
      /\ DOMAIN P2 = 1..(Len(c) + n + 1)
  BY <1>3, <1>4, KnitIs
<1>6. ASSUME NEW k \in 1..n, t[k].op \in Targeted PROVE Hole(c \o t, P2, Len(c) + k, D)
  <2>1. (c \o t)[Len(c) + k] = t[k] BY <1>2, <1>5
  <2>2. Len(c) + k \in 1..(Len(c) + n) /\ Len(c) + k \in (Len(c) + 1)..(Len(c) + n + 1)
    <3> DEFINE m == Len(c)
    <3>1. m \in Nat BY <1>5
    <3> HIDE DEF m
    <3>2. m + k \in 1..(m + n) /\ m + k \in (m + 1)..(m + n + 1) BY <1>2, <3>1
    <3> QED BY <3>2 DEF m
  <2>3. P2[Len(c) + k] = D BY <1>3, <2>2 DEF Block
  <2> QED BY <1>5, <1>6, <2>1, <2>2, <2>3, KnowsSelf DEF Hole
<1>7. ASSUME NEW q \in Block(c, n) PROVE Back(P2, q, D)
  <2>1. q \in 1..(Len(c) + n + 1)
    <3> DEFINE m == Len(c)
    <3>1. m \in Nat BY <1>5
    <3>2. q \in (m + 1)..(m + n + 1) BY DEF Block
    <3> HIDE DEF m
    <3>3. q \in 1..(m + n + 1) BY <1>2, <3>1, <3>2
    <3> QED BY <3>3 DEF m
  <2> QED BY <1>3, <1>5, <2>1, KnowsSelf DEF Back
<1> QED BY <1>2, <1>3, <1>4, <1>6, <1>7

(* The label of the first n locals. *)
LEMMA LabelIs ==
  ASSUME NEW ls \in Seq(Local), NEW n \in Nat, n <= Len(ls)
  PROVE  /\ Label(ls, n) \in Seq(Nat) /\ Len(Label(ls, n)) = n /\ DOMAIN Label(ls, n) = 1..n
         /\ \A k \in 1..n : Label(ls, n)[k] = ls[k].d
<1>1. \A k \in 1..n : ls[k].d \in Nat
  <2> SUFFICES ASSUME NEW k \in 1..n PROVE ls[k].d \in Nat OBVIOUS
  <2>1. ls[k] \in Local OBVIOUS
  <2> QED BY <2>1 DEF Local
<1>2. Label(ls, n) \in [1..n -> Nat] BY <1>1 DEF Label
<1> QED BY <1>2 DEF Label

(* The label of more locals knows that of fewer. *)
LEMMA LabelKnows ==
  ASSUME NEW ls, NEW m \in Nat, NEW n \in Nat, n <= m
  PROVE  Knows(Label(ls, m), Label(ls, n))
BY DEF Label, Knows

(* Locals that agree on their declarations have the same label. *)
LEMMA LabelSame ==
  ASSUME NEW ls, NEW ls2, NEW n, \A k \in 1..n : ls2[k].d = ls[k].d
  PROVE  Label(ls2, n) = Label(ls, n)
BY DEF Label

(* The label of the locals that a scope's end leaves. *)
LEMMA LabelCut ==
  ASSUME NEW ls \in Seq(Local), NEW m \in 0..Len(ls)
  PROVE  /\ Full(SubSeq(ls, 1, m)) = Label(ls, m)
         /\ \A n \in 0..m : Label(SubSeq(ls, 1, m), n) = Label(ls, n)
<1>1. Len(SubSeq(ls, 1, m)) = m /\ \A k \in 1..m : SubSeq(ls, 1, m)[k] = ls[k] BY CutIs
<1>2. ASSUME NEW n \in 0..m PROVE Label(SubSeq(ls, 1, m), n) = Label(ls, n)
  <2>1. \A k \in 1..n : SubSeq(ls, 1, m)[k].d = ls[k].d BY <1>1
  <2> QED BY <2>1, LabelSame
<1> QED BY <1>1, <1>2 DEF Full

(* A handler that an error in the context may find.                        *)
Handled(c, P, D, ctx) ==
  ctx.hs # <<>> => Top(ctx.hs) \in DOMAIN c /\ Knows(D, P[Top(ctx.hs)])

(* When an instruction of a context may stand in a block that keeps D. *)
LEMMA CalmIns ==
  ASSUME NEW c, NEW P, NEW n, NEW D, NEW ctx \in Context, NEW op \in Ops,
         NEW x \in Nat, NEW y \in Nat, NEW ty \in SUBSET ErrTypes, NEW h \in Nat,
         Len(D) + Spare(op) <= h,
         op \in Branches => x = 0 \/ x \in Block(c, n) \/ (x \in DOMAIN c /\ Knows(D, P[x])),
         op = "TRY_ENTER" => x = 0 /\ y = 0,
         op \in Fallible \cup {"RETURN"} => Handled(c, P, D, ctx),
         op = "SET_LOCAL" \/ (op \in {"GET_LOCAL", "SKIP_ITER"} /\ x # 0) =>
           y + 1 \in DOMAIN D /\ D[y + 1] = x
  PROVE  InsIn(ctx, op, x, y, ty, h) \in Calming(c, P, n, D)
<1> DEFINE i == InsIn(ctx, op, x, y, ty, h)
<1>1. /\ i \in Instruction
      /\ i.op = op /\ i.x = x /\ i.y = y /\ i.h = h /\ i.hs = ctx.hs
  BY InsInIs
<1> HIDE DEF i
<1>2. Calm(c, P, Block(c, n), D, i) BY <1>1 DEF Calm, Names, Handled
<1> QED BY <1>1, <1>2 DEF Calming, i

Placid == {"CONSTANT", "NOTYPE", "POP", "DEFINE_VAR", "TRY_EXIT", "CATCH", "END_FINALLY", "JUMP",
          "JUMP_IF_FALSE", "GET_LOCAL", "TRY_ENTER"}

(* An instruction that neither fails nor jumps may stand in any block. *)
LEMMA CalmQuiet ==
  ASSUME NEW c, NEW P, NEW n, NEW D, NEW ctx \in Context, NEW op \in Placid,
         NEW y \in Nat, op = "TRY_ENTER" => y = 0, NEW ty \in SUBSET ErrTypes, NEW h \in Nat, Len(D) \in Nat, Len(D) <= h
  PROVE  InsIn(ctx, op, 0, y, ty, h) \in Calming(c, P, n, D)
<1>1. op \in Ops BY DEF Placid, Ops
<1>2. op \notin Fallible \cup {"RETURN"} /\ op # "SET_LOCAL" /\ Spare(op) = 0
  BY DEF Placid, Fallible, Spare
<1>3. Len(D) + Spare(op) <= h BY <1>2
<1>4. /\ op \in Branches => 0 = 0 \/ 0 \in Block(c, n) \/ (0 \in DOMAIN c /\ Knows(D, P[0]))
      /\ op = "TRY_ENTER" => 0 = 0 /\ y = 0
      /\ op \in Fallible \cup {"RETURN"} => Handled(c, P, D, ctx)
      /\ op = "SET_LOCAL" \/ (op \in {"GET_LOCAL", "SKIP_ITER"} /\ 0 # 0) =>
           y + 1 \in DOMAIN D /\ D[y + 1] = 0
      /\ 0 \in Nat
  BY <1>2
<1> QED BY <1>1, <1>3, <1>4, CalmIns

(* A run of pops down to what D names.                                     *)
LEMMA CalmPops ==
  ASSUME Now, NEW c, NEW P, NEW k, NEW D, NEW n \in Nat, NEW h \in Nat, Len(D) \in Nat, n + Len(D) <= h
  PROVE  Pops(n, h) \in Seq(Calming(c, P, k, D)) /\ Len(Pops(n, h)) = n
<1>1. \A j \in 1..n : Pops(n, h)[j] \in Calming(c, P, k, D)
  <2> SUFFICES ASSUME NEW j \in 1..n PROVE Pops(n, h)[j] \in Calming(c, P, k, D) OBVIOUS
  <2> DEFINE m == h - j + 1
  <2>1. Pops(n, h)[j] = InsIn(Ctx, "POP", 0, 0, {}, m) BY DEF Pops, Ins
  <2>2. m \in Nat /\ Len(D) <= m /\ {} \in SUBSET ErrTypes /\ 0 \in Nat OBVIOUS
  <2>3. "POP" \in Placid /\ ("POP" = "TRY_ENTER" => 0 = 0) BY DEF Placid
  <2>4. Ctx \in Context /\ Len(D) \in Nat BY NowIs
  <2> HIDE DEF m
  <2>5. InsIn(Ctx, "POP", 0, 0, {}, m) \in Calming(c, P, k, D) BY ONLY <2>2, <2>3, <2>4, CalmQuiet
  <2> QED BY <2>1, <2>5
<1>2. Pops(n, h) \in [1..n -> Calming(c, P, k, D)] BY <1>1 DEF Pops
<1> QED BY <1>2

(* The pops of a scope's end may stand in a block that keeps what is known *)
(* below the scope.                                                        *)
LEMMA CalmEnd ==
  ASSUME Now, NEW c, NEW P, NEW k, NEW ls \in Seq(Local), NEW d \in Int, NEW m \in Nat, Split(ls, d, m),
         NEW D, Len(D) \in Nat, Len(D) <= m
  PROVE  /\ EndScopeCode(ls, d) \in Seq(Calming(c, P, k, D))
         /\ Len(EndScopeCode(ls, d)) = Len(ls) - m /\ Len(ls) - m \in Nat
         /\ Kept(ls, d) = SubSeq(ls, 1, m)
<1>1. Kept(ls, d) = SubSeq(ls, 1, m) BY KeptIs
<1>2. m <= Len(ls) /\ Len(ls) \in Nat BY DEF Split
<1>3. Len(SubSeq(ls, 1, m)) = m BY <1>2, CutIs
<1> DEFINE n == Len(ls) - m
<1>4. EndScopeCode(ls, d) = Pops(n, Len(ls)) BY <1>1, <1>3 DEF EndScopeCode
<1>5. n \in Nat /\ n + Len(D) <= Len(ls) BY <1>2
<1> HIDE DEF n
<1>6. Len(ls) \in Nat /\ Len(D) \in Nat BY <1>2
<1>7. Pops(n, Len(ls)) \in Seq(Calming(c, P, k, D)) /\ Len(Pops(n, Len(ls))) = n
  BY ONLY Now, <1>5, <1>6, CalmPops
<1> QED BY <1>1, <1>4, <1>5, <1>7 DEF n

----------------------------------------------------------------------------
(* What an open statement keeps: jumps to patch, and places to go back to. *)
Tied(c, P, o, l, ls) ==
  /\ o.kind = "if" =>
       /\ o.arm = "then" => Hole(c, P, o.j, Label(ls, o.h))
       /\ \A p \in o.jumps : Hole(c, P, p, Label(ls, o.h))
  /\ o.kind = "while" => Back(P, o.a, Label(ls, o.h)) /\ Hole(c, P, o.j, Label(ls, o.h))
  /\ o.kind = "do" => Back(P, o.a, Label(ls, o.h))
  /\ o.kind = "for" =>
       /\ Back(P, o.a, Label(ls, l.count))
       /\ o.j # 0 => Hole(c, P, o.j, Label(ls, l.count))
  /\ o.kind = "foreach" => Back(P, o.a, Label(ls, l.count)) /\ Hole(c, P, o.a, Label(ls, l.count))
  /\ o.kind = "switch" =>
       /\ Back(P, o.a, Label(ls, o.h))
       /\ o.arm = "case" => Hole(c, P, o.j, Label(ls, l.count))
  /\ o.kind = "try" =>
       /\ Back(P, o.a, Label(ls, o.h)) /\ Hole(c, P, o.a, Label(ls, o.h))
       /\ o.arm = "catch" =>
            /\ Hole(c, P, o.b, Label(ls, o.h)) /\ Hole(c, P, o.j, Label(ls, o.h))
            /\ \A p \in o.jumps : Hole(c, P, p, Label(ls, o.h))
  /\ IsLoop(o) => \A p \in l.breaks \cup l.continues : Hole(c, P, p, Label(ls, l.count))

SameTie(o, o2) ==
  /\ o2.kind = o.kind /\ o2.arm = o.arm /\ o2.a = o.a /\ o2.b = o.b /\ o2.j = o.j
  /\ o2.jumps = o.jumps /\ o2.h = o.h /\ o2.n = o.n

Laced(c, P, os, ls, lp) ==
  /\ Knit(c, P) /\ Last(P) = Full(ls)
  /\ \A i \in DOMAIN os : Tied(c, P, os[i], lp[os[i].n + 1], ls)

(* An open statement keeps its jumps and places when code is emitted and   *)
(* its locals stay.                                                        *)
LEMMA TiedOn ==
  ASSUME NEW c, NEW P, Knit(c, P), NEW c2, NEW P2, Carries(c, P, c2, P2),
         NEW o, NEW l, NEW ls, Tied(c, P, o, l, ls), NEW o2, SameTie(o, o2), NEW l2, NEW ls2,
         Label(ls2, o.h) = Label(ls, o.h),
         IsLoop(o) =>
           /\ l2.count = l.count /\ Label(ls2, l.count) = Label(ls, l.count)
           /\ \A p \in l2.breaks \cup l2.continues :
                p \in l.breaks \cup l.continues \/ Hole(c2, P2, p, Label(ls2, l2.count))
  PROVE  Tied(c2, P2, o2, l2, ls2)
<1>1. \A p, x : Hole(c, P, p, x) => Hole(c2, P2, p, x) BY HoleOn
<1>2. \A q, x : Back(P, q, x) => Back(P2, q, x) BY BackOn
<1>3. /\ o2.kind = o.kind /\ o2.arm = o.arm /\ o2.a = o.a /\ o2.b = o.b /\ o2.j = o.j
      /\ o2.jumps = o.jumps /\ o2.h = o.h
  BY DEF SameTie
<1>4. o.kind \in {"while", "do", "for", "foreach", "switch"} <=> IsLoop(o) BY DEF IsLoop, LoopKinds
<1>5. IsLoop(o2) <=> IsLoop(o) BY <1>3 DEF IsLoop
<1> DEFINE D == Label(ls, o.h)
           E == Label(ls, l.count)
<1>6. Label(ls2, o.h) = D /\ (IsLoop(o) => Label(ls2, l.count) = E /\ l2.count = l.count) OBVIOUS
<1>7. /\ o.kind = "if" =>
           /\ o.arm = "then" => Hole(c, P, o.j, D)
           /\ \A p \in o.jumps : Hole(c, P, p, D)
      /\ o.kind = "while" => Back(P, o.a, D) /\ Hole(c, P, o.j, D)
      /\ o.kind = "do" => Back(P, o.a, D)
      /\ o.kind = "for" => Back(P, o.a, E) /\ (o.j # 0 => Hole(c, P, o.j, E))
      /\ o.kind = "foreach" => Back(P, o.a, E) /\ Hole(c, P, o.a, E)
      /\ o.kind = "switch" => Back(P, o.a, D) /\ (o.arm = "case" => Hole(c, P, o.j, E))
      /\ o.kind = "try" =>
           /\ Back(P, o.a, D) /\ Hole(c, P, o.a, D)
           /\ o.arm = "catch" =>
                Hole(c, P, o.b, D) /\ Hole(c, P, o.j, D) /\ \A p \in o.jumps : Hole(c, P, p, D)
      /\ IsLoop(o) => \A p \in l.breaks \cup l.continues : Hole(c, P, p, E)
  BY DEF Tied
<1>8. IsLoop(o) => \A p \in l2.breaks \cup l2.continues : Hole(c2, P2, p, E)
  BY <1>1, <1>6, <1>7
<1> HIDE DEF D, E
<1> QED BY <1>1, <1>2, <1>3, <1>4, <1>5, <1>6, <1>7, <1>8 DEF Tied

(* Every level an open statement refers to is one of the locals.           *)
LEMMA LevelIs ==
  ASSUME NEW os \in Seq(Statement), NEW ls \in Seq(Local), NEW sd, NEW lp \in Seq(LoopRecord),
         Nesting(os, ls, sd, lp), NEW i \in DOMAIN os
  PROVE  /\ os[i].h \in Nat /\ os[i].h <= Len(ls) /\ os[i].n \in Nat
         /\ IsLoop(os[i]) => /\ os[i].n + 1 \in DOMAIN lp /\ lp[os[i].n + 1].count \in Nat
                             /\ lp[os[i].n + 1].count <= Len(ls)
<1> DEFINE o == os[i]
           l == lp[o.n + 1]
<1>1. o \in Statement OBVIOUS
<1>2. o.h \in Nat /\ o.n \in Nat BY <1>1 DEF Statement
<1>3. /\ Split(ls, o.d, o.h) /\ Len(lp) >= o.n + Beyond(o)
      /\ IsLoop(o) => LoopOK(o, l, ls)
  BY DEF Nesting
<1>4. o.h <= Len(ls) BY <1>3 DEF Split
<1>5. ASSUME IsLoop(o) PROVE o.n + 1 \in DOMAIN lp /\ l.count \in Nat /\ l.count <= Len(ls)
  <2>1. Len(lp) >= o.n + 1 BY <1>3, <1>5 DEF Beyond
  <2>2. o.n + 1 \in DOMAIN lp BY <1>2, <2>1
  <2>3. l \in LoopRecord BY <2>2
  <2>4. l.count \in Nat BY <2>3 DEF LoopRecord
  <2>5. LoopOK(o, l, ls) BY <1>3, <1>5
  <2>6. CASE o.kind = "do"
    <3>1. o.kind \in {"while", "do"} BY <2>6
    <3>2. l.count = o.h BY <2>5, <3>1 DEF LoopOK
    <3> QED BY <1>4, <2>2, <2>4, <3>2
  <2>7. CASE o.kind # "do"
    <3>1. o.kind \in {"while", "for", "foreach", "switch"} BY <1>5, <2>7 DEF IsLoop, LoopKinds
    <3>2. Split(ls, o.d + 1, l.count) BY <2>5, <3>1 DEF LoopOK
    <3> QED BY <3>2, <2>2, <2>4 DEF Split
  <2> QED BY <2>2, <2>4, <2>6, <2>7
<1> QED BY <1>2, <1>4, <1>5

(* All of the open statements keep theirs. *)
LEMMA LacedOn ==
  ASSUME NEW os \in Seq(Statement), NEW ls \in Seq(Local), NEW sd, NEW lp \in Seq(LoopRecord),
         Nesting(os, ls, sd, lp),
         NEW os2 \in Seq(Statement), NEW ls2 \in Seq(Local), NEW sd2, NEW lp2 \in Seq(LoopRecord),
         Nesting(os2, ls2, sd2, lp2),
         NEW c, NEW P, Laced(c, P, os, ls, lp), NEW c2, NEW P2, Carries(c, P, c2, P2),
         Last(P2) = Full(ls2),
         \A k \in DOMAIN ls : k \in DOMAIN ls2 => ls2[k].d = ls[k].d,
         \A q \in DOMAIN lp : q \in DOMAIN lp2 =>
           /\ lp2[q].count = lp[q].count
           /\ \A p \in lp2[q].breaks \cup lp2[q].continues :
                p \in lp[q].breaks \cup lp[q].continues \/ Hole(c2, P2, p, Label(ls2, lp2[q].count)),
         \A i \in DOMAIN os2 :
           \/ i \in DOMAIN os /\ SameTie(os[i], os2[i])
           \/ Tied(c2, P2, os2[i], lp2[os2[i].n + 1], ls2)
  PROVE  Laced(c2, P2, os2, ls2, lp2)
<1>1. Knit(c, P) /\ Knit(c2, P2) BY DEF Laced, Carries
<1>2. ASSUME NEW n \in Nat, n <= Len(ls), n <= Len(ls2) PROVE Label(ls2, n) = Label(ls, n)
  <2>1. \A k \in 1..n : k \in DOMAIN ls /\ k \in DOMAIN ls2 BY <1>2
  <2> QED BY <2>1, LabelSame
<1>3. ASSUME NEW i \in DOMAIN os2 PROVE Tied(c2, P2, os2[i], lp2[os2[i].n + 1], ls2)
  <2>1. SUFFICES ASSUME i \in DOMAIN os, SameTie(os[i], os2[i])
                 PROVE  Tied(c2, P2, os2[i], lp2[os2[i].n + 1], ls2)
    OBVIOUS
  <2> DEFINE o == os[i]
             o2 == os2[i]
             l == lp[o.n + 1]
             l2 == lp2[o2.n + 1]
  <2>2. o2.h = o.h /\ o2.n = o.n /\ (IsLoop(o2) <=> IsLoop(o)) BY <2>1 DEF SameTie, IsLoop
  <2>3. /\ o.h \in Nat /\ o.h <= Len(ls)
        /\ IsLoop(o) => o.n + 1 \in DOMAIN lp /\ l.count \in Nat /\ l.count <= Len(ls)
    BY <2>1, LevelIs
  <2>4. o2.h <= Len(ls2) /\ (IsLoop(o2) => o2.n + 1 \in DOMAIN lp2 /\ l2.count <= Len(ls2))
    BY LevelIs
  <2>5. Label(ls2, o.h) = Label(ls, o.h) BY <1>2, <2>2, <2>3, <2>4
  <2>6. ASSUME IsLoop(o)
        PROVE  /\ l2.count = l.count /\ Label(ls2, l.count) = Label(ls, l.count)
               /\ \A p \in l2.breaks \cup l2.continues :
                    p \in l.breaks \cup l.continues \/ Hole(c2, P2, p, Label(ls2, l2.count))
    <3>1. o.n + 1 \in DOMAIN lp /\ o.n + 1 \in DOMAIN lp2 /\ l2 = lp2[o.n + 1] BY <2>2, <2>3, <2>4, <2>6
    <3>2. /\ l2.count = l.count
          /\ \A p \in l2.breaks \cup l2.continues :
               p \in l.breaks \cup l.continues \/ Hole(c2, P2, p, Label(ls2, l2.count))
      BY <3>1
    <3>3. Label(ls2, l.count) = Label(ls, l.count) BY <1>2, <2>2, <2>3, <2>4, <2>6, <3>2
    <3> QED BY <3>2, <3>3
  <2>7. Tied(c, P, o, l, ls) BY <2>1 DEF Laced
  <2> HIDE DEF o, o2, l, l2
  <2>8. SameTie(o, o2) BY <2>1 DEF o, o2
  <2>9. Tied(c2, P2, o2, l2, ls2) BY <1>1, <2>5, <2>6, <2>7, <2>8, TiedOn
  <2> QED BY <2>9 DEF o2, l2
<1> QED BY <1>1, <1>3 DEF Laced

(* The compiler's own labelling.                                           *)
Laces == \E P : Laced(chunk, P, open, locals, loopStack)

(* The handlers around a place know no more than the place. *)
LEMMA HandlerKnown ==
  ASSUME Now, NEW P, Laced(chunk, P, open, locals, loopStack), NEW k \in 0..Len(open),
         NEW ctx, Handles(open, k, ctx.hs), NEW D, \A i \in 1..k : Knows(D, Label(locals, open[i].h))
  PROVE  Handled(chunk, P, D, ctx)
<1> SUFFICES ASSUME ctx.hs # <<>> PROVE Top(ctx.hs) \in DOMAIN chunk /\ Knows(D, P[Top(ctx.hs)])
  BY DEF Handled
<1>1. PICK i \in 1..k : InBody(open[i]) /\ Last(ctx.hs) = open[i].a BY DEF Handles
<1>2. i \in DOMAIN open /\ Top(ctx.hs) = open[i].a
  <2>1. i \in DOMAIN open BY NowIs
  <2> QED BY <1>1, <2>1 DEF Top, Last
<1>3. Tied(chunk, P, open[i], loopStack[open[i].n + 1], locals) BY <1>2 DEF Laced
<1>4. /\ Back(P, open[i].a, Label(locals, open[i].h))
      /\ Hole(chunk, P, open[i].a, Label(locals, open[i].h))
  BY <1>1, <1>3 DEF Tied, InBody
<1>5. Knows(D, Label(locals, open[i].h)) OBVIOUS
<1> QED BY <1>2, <1>4, <1>5, KnowsOn DEF Hole, Back

(* An error where the statement stands.                                    *)
LEMMA HandledHere ==
  ASSUME Now, NEW P, Laced(chunk, P, open, locals, loopStack)
  PROVE  Handled(chunk, P, Full(locals), Ctx)
<1>1. /\ open \in Seq(Statement) /\ locals \in Seq(Local) /\ loopStack \in Seq(LoopRecord)
      /\ Nesting(open, locals, scopeDepth, loopStack) /\ Contexts(open) /\ Len(open) \in Nat
  BY NowIs
<1>2. CASE open = <<>> BY <1>2 DEF Ctx, Outermost, Handled
<1>3. CASE open # <<>>
  <2>1. Len(open) \in DOMAIN open /\ Len(open) \in 0..Len(open) BY <1>1, <1>3
  <2>2. Handles(open, Len(open), Ctx.hs) BY <1>3, <2>1, <1>1 DEF Ctx, Last, Contexts
  <2>3. \A i \in 1..Len(open) : Knows(Full(locals), Label(locals, open[i].h))
    <3> SUFFICES ASSUME NEW i \in 1..Len(open) PROVE Knows(Full(locals), Label(locals, open[i].h))
      OBVIOUS
    <3>1. i \in DOMAIN open BY <1>1
    <3>2. open[i].h \in Nat /\ open[i].h <= Len(locals) BY <1>1, <3>1, LevelIs
    <3> QED BY <3>2, <1>1, LabelKnows DEF Full
  <2> QED BY <2>1, <2>2, <2>3, HandlerKnown
<1> QED BY <1>2, <1>3

----------------------------------------------------------------------------
(* Statements that open and close nothing.                                 *)

(* What a step of the compiler that emits code has to show to keep the     *)
(* labels.                                                                 *)
LEMMA LacesNext ==
  ASSUME Now, Then, NEW P, Laced(chunk, P, open, locals, loopStack),
         NEW P2, Carries(chunk, P, chunk', P2), Last(P2) = Full(locals'),
         \A k \in DOMAIN locals : k \in DOMAIN locals' => locals'[k].d = locals[k].d,
         \A q \in DOMAIN loopStack : q \in DOMAIN loopStack' =>
           /\ loopStack'[q].count = loopStack[q].count
           /\ \A p \in loopStack'[q].breaks \cup loopStack'[q].continues :
                \/ p \in loopStack[q].breaks \cup loopStack[q].continues
                \/ Hole(chunk', P2, p, Label(locals', loopStack'[q].count)),
         \A i \in DOMAIN open' :
           \/ i \in DOMAIN open /\ SameTie(open[i], open'[i])
           \/ Tied(chunk', P2, open'[i], loopStack'[open'[i].n + 1], locals')
  PROVE  Laces'
<1>1. /\ open \in Seq(Statement) /\ locals \in Seq(Local) /\ loopStack \in Seq(LoopRecord)
      /\ Nesting(open, locals, scopeDepth, loopStack)
  BY NowIs
<1>2. /\ open' \in Seq(Statement) /\ locals' \in Seq(Local) /\ loopStack' \in Seq(LoopRecord)
      /\ Nesting(open', locals', scopeDepth', loopStack')
  BY WorkingIs DEF Then
<1>3. Laced(chunk', P2, open', locals', loopStack') BY <1>1, <1>2, LacedOn
<1> QED BY <1>3 DEF Laces

(* A statement refers to what it refers to. *)
LEMMA SameTieIs == \A o : SameTie(o, o)
BY DEF SameTie

(* The label of all the locals there are. *)
LEMMA FullIs ==
  ASSUME Now
  PROVE  /\ Full(locals) \in Seq(Nat) /\ Len(Full(locals)) = Height /\ Height \in Nat
         /\ DOMAIN Full(locals) = 1..Height /\ \A k \in 1..Height : Full(locals)[k] = locals[k].d
         /\ Height = Len(locals) /\ locals \in Seq(Local) /\ DOMAIN locals = 1..Height
<1>1. Height = Len(locals) /\ Height \in Nat /\ locals \in Seq(Local) BY NowIs
<1>2. DOMAIN locals = 1..Height /\ Len(locals) <= Len(locals) /\ Len(locals) \in Nat BY <1>1
<1>3. /\ Label(locals, Len(locals)) \in Seq(Nat) /\ Len(Label(locals, Len(locals))) = Len(locals)
      /\ DOMAIN Label(locals, Len(locals)) = 1..Len(locals)
      /\ \A k \in 1..Len(locals) : Label(locals, Len(locals))[k] = locals[k].d
  BY ONLY <1>1, <1>2, LabelIs
<1> QED BY <1>1, <1>2, <1>3 DEF Full

(* A block where the statement stands.                                     *)
LEMMA LacesBlock ==
  ASSUME Now, Then, NEW P, Laced(chunk, P, open, locals, loopStack),
         NEW n, NEW t \in Seq(Calming(chunk, P, n, Full(locals))), Len(t) = n,
         chunk' = chunk \o t, locals' = locals, loopStack' = loopStack,
         DOMAIN open' = DOMAIN open, \A i \in DOMAIN open : SameTie(open[i], open'[i])
  PROVE  Laces'
<1>1. Knit(chunk, P) /\ Last(P) = Full(locals) BY DEF Laced
<1>2. Full(locals) \in Seq(Nat) BY FullIs
<1>3. PICK P2 : Carries(chunk, P, chunk \o t, P2) /\ Last(P2) = Full(locals)
  BY <1>1, <1>2, KnowsSelf, Sewed
<1>4. Carries(chunk, P, chunk', P2) /\ Last(P2) = Full(locals') BY <1>3
<1> QED BY <1>4, LacesNext

(* A quiet instruction at a height that holds what is known may be         *)
(* emitted.                                                                *)
LEMMA QuietAt ==
  ASSUME Now, NEW D, Len(D) \in Nat, NEW c, NEW P, NEW n
  PROVE  \A op \in Placid : \A h \in Nat : Len(D) <= h => Ins(op, 0, 0, h) \in Calming(c, P, n, D)
<1>1. Ctx \in Context /\ {} \in SUBSET ErrTypes /\ 0 \in Nat BY NowIs
<1> QED BY <1>1, CalmQuiet DEF Ins

(* The sets of operation codes that the statements emit. *)
LEMMA FalliblesAre ==
  /\ {"NATIVE", "CALL", "THROW", "SKIP_ITER", "RETHROW", "RETURN", "LOOP", "POP2_PUSH", "JUMP", "JUMP_IF_FALSE"} \subseteq Ops
  /\ {"NATIVE", "CALL", "THROW", "SKIP_ITER", "RETHROW", "RETURN", "POP2_PUSH"} \cap Branches = {}
  /\ {"NATIVE", "THROW", "SKIP_ITER", "RETHROW", "RETURN", "JUMP", "JUMP_IF_FALSE", "LOOP"} \cap {"CALL", "POP2_PUSH"} = {}
  /\ {"JUMP", "JUMP_IF_FALSE", "LOOP", "POP2_PUSH"} \cap (Fallible \cup {"RETURN"}) = {}
  /\ \A op : op \notin {"CALL", "POP2_PUSH"} => Spare(op) = 0
  /\ Spare("CALL") = 1 /\ Spare("POP2_PUSH") = 2
BY DEF Ops, Branches, Fallible, Spare

(* An instruction that may fail where the statement stands.                *)
LEMMA CalmFailing ==
  ASSUME Now, NEW c, NEW P, NEW D, Len(D) \in Nat, NEW ctx \in Context, Handled(c, P, D, ctx), NEW n,
         NEW op \in {"NATIVE", "THROW", "RETHROW", "RETURN"}, NEW ty \in SUBSET ErrTypes,
         NEW h \in Nat, Len(D) <= h
  PROVE  InsIn(ctx, op, 0, 0, ty, h) \in Calming(c, P, n, D)
<1>1. /\ op \in Ops /\ op \notin Branches /\ Spare(op) = 0 /\ op # "TRY_ENTER" /\ 0 \in Nat
      /\ Len(D) + Spare(op) <= h
  BY FalliblesAre
<1>2. /\ op \in Branches => 0 = 0 \/ 0 \in Block(c, n) \/ (0 \in DOMAIN c /\ Knows(D, P[0]))
      /\ op = "TRY_ENTER" => 0 = 0 /\ 0 = 0
      /\ op \in Fallible \cup {"RETURN"} => Handled(c, P, D, ctx)
      /\ op = "SET_LOCAL" \/ (op \in {"GET_LOCAL", "SKIP_ITER"} /\ 0 # 0) =>
           0 + 1 \in DOMAIN D /\ D[0 + 1] = 0
  BY <1>1
<1> QED BY <1>1, <1>2, CalmIns

(* A pair as a sequence. *)
LEMMA Tuple2 ==
  ASSUME NEW S, NEW i \in S, NEW j \in S
  PROVE  <<i, j>> \in Seq(S) /\ Len(<<i, j>>) = 2
OBVIOUS

(* A triple as a sequence. *)
LEMMA Tuple3 ==
  ASSUME NEW S, NEW i \in S, NEW j \in S, NEW k \in S
  PROVE  <<i, j, k>> \in Seq(S) /\ Len(<<i, j, k>>) = 3
OBVIOUS

(* An expression statement keeps the labels. *)
LEMMA EvalLaces == ASSUME Now, Then, Laces, Eval PROVE Laces'
<1>1. PICK P : Laced(chunk, P, open, locals, loopStack) BY DEF Laces
<1> DEFINE D == Full(locals)
           S == Calming(chunk, P, 2, D)
<1>2. Len(D) = Height /\ Height \in Nat /\ Height + 1 \in Nat /\ Height <= Height + 1 /\ Height <= Height BY FullIs
<1>3. Handled(chunk, P, D, Ctx) /\ Ctx \in Context BY <1>1, HandledHere, NowIs
<1> HIDE DEF D
<1>4. Ins("NATIVE", 0, 0, Height) \in S BY <1>2, <1>3, CalmFailing DEF Ins
<1>5. Ins("POP", 0, 0, Height + 1) \in S
  <2>1. "POP" \in Placid BY DEF Placid
  <2> QED BY <1>2, <2>1, QuietAt
<1> HIDE DEF S
<1>6. <<Ins("NATIVE", 0, 0, Height), Ins("POP", 0, 0, Height + 1)>> \in Seq(S)
      /\ Len(<<Ins("NATIVE", 0, 0, Height), Ins("POP", 0, 0, Height + 1)>>) = 2
  BY <1>4, <1>5, Tuple2
<1>7. /\ chunk' = chunk \o <<Ins("NATIVE", 0, 0, Height), Ins("POP", 0, 0, Height + 1)>>
      /\ locals' = locals /\ loopStack' = loopStack /\ open' = open
  BY DEF Eval
<1> QED BY <1>1, <1>6, <1>7, SameTieIs, LacesBlock DEF S, D

(* The instruction that pushes a local, and the local.                     *)
LEMMA Declares ==
  ASSUME NEW c, NEW P, Knit(c, P), NEW ls \in Seq(Local), Last(P) = Full(ls),
         NEW n, NEW i \in Calming(c, P, n, Full(ls)), i.op \in Pushing \ {"FOR_ITER"}, i.h = Len(ls),
         NEW l \in Local, l.d = Len(c) + 1
  PROVE  \E P2 : /\ Carries(c, P, Append(c, i), P2) /\ Last(P2) = Full(Append(ls, l))
                 /\ Knit(Append(c, i), P2) /\ Len(Append(c, i)) = Len(c) + 1
                 /\ P2[Len(c) + 1] = Full(ls)
                 /\ Append(ls, l) \in Seq(Local) /\ Len(Append(ls, l)) = Len(ls) + 1
                 /\ \A k \in DOMAIN ls : k \in DOMAIN Append(ls, l) /\ Append(ls, l)[k].d = ls[k].d
                 /\ Knows(Full(Append(ls, l)), Full(ls))
<1> DEFINE ls2 == Append(ls, l)
           D == Full(ls)
           E == Full(ls2)
           h == Len(ls)
<1>1. /\ ls2 \in Seq(Local) /\ Len(ls2) = h + 1 /\ DOMAIN ls2 = 1..(h + 1) /\ ls2[h + 1] = l
      /\ DOMAIN ls = 1..h /\ h \in Nat /\ \A k \in 1..h : ls2[k] = ls[k]
  BY AppendIs
<1> HIDE DEF ls2, h
<1>2. /\ D \in Seq(Nat) /\ DOMAIN D = 1..h /\ \A k \in 1..h : D[k] = ls[k].d
  <2>1. Len(ls) \in Nat /\ Len(ls) <= Len(ls) /\ h = Len(ls) BY <1>1 DEF h
  <2>2. /\ Full(ls) \in Seq(Nat) /\ DOMAIN Full(ls) = 1..Len(ls)
        /\ \A k \in 1..Len(ls) : Full(ls)[k] = ls[k].d
    BY <2>1, LabelIs DEF Full
  <2> QED BY <2>1, <2>2
<1>3. /\ E \in Seq(Nat) /\ DOMAIN E = 1..(h + 1) /\ \A k \in 1..(h + 1) : E[k] = ls2[k].d
  <2>1. h + 1 \in Nat /\ h + 1 <= Len(ls2) BY <1>1
  <2> QED BY <1>1, <2>1, LabelIs DEF Full
<1> HIDE DEF D, E
<1>4. Calm(c, P, {Len(c) + 1}, D, i)
  <2>1. i \in Instruction /\ Calm(c, P, Block(c, n), D, i) BY DEF Calming, D
  <2>2. i.op \notin Branches BY DEF Pushing, Branches
  <2> QED BY <2>1, <2>2 DEF Calm
<1>5. ASSUME NEW k \in DOMAIN E
      PROVE  \/ k \in DOMAIN D /\ E[k] = D[k]
             \/ i.op \in Pushing /\ k > i.h /\ E[k] = Len(c) + 1
  <2>1. CASE k \in 1..h BY <1>1, <1>2, <1>3, <2>1
  <2>2. CASE k \notin 1..h
    <3>1. k = h + 1 BY <1>1, <1>3, <2>2
    <3>2. k > i.h BY <1>1, <3>1 DEF h
    <3>3. E[k] = Len(c) + 1 BY <1>1, <1>3, <3>1
    <3> QED BY <3>2, <3>3
  <2> QED BY <2>1, <2>2
<1>6. Last(P) = D BY DEF D
<1>7. /\ Carries(c, P, Append(c, i), Append(P, E)) /\ Last(Append(P, E)) = E
      /\ Len(Append(c, i)) = Len(c) + 1 /\ Append(P, E)[Len(c) + 1] = Last(P)
  <2>1. Calm(c, P, {Len(c) + 1}, Last(P), i) BY <1>4, <1>6
  <2>2. \A k \in DOMAIN E : \/ k \in DOMAIN Last(P) /\ E[k] = Last(P)[k]
                            \/ i.op \in Pushing /\ k > i.h /\ E[k] = Len(c) + 1
    BY <1>5, <1>6
  <2>3. E \in Seq(Nat) BY <1>3
  <2>4. Brings(c, P, i, E) BY <2>2 DEF Brings
  <2>5. Knit(c, P) OBVIOUS
  <2>6. \A F : F \in Seq(Nat) /\ Brings(c, P, i, F) =>
             /\ Carries(c, P, Append(c, i), Append(P, F)) /\ Last(Append(P, F)) = F
             /\ Len(Append(c, i)) = Len(c) + 1 /\ Append(P, F)[Len(c) + 1] = Last(P)
    <3> HIDE DEF D, E, h, ls2
    <3> SUFFICES ASSUME NEW F, F \in Seq(Nat), Brings(c, P, i, F)
                 PROVE  /\ Carries(c, P, Append(c, i), Append(P, F)) /\ Last(Append(P, F)) = F
                        /\ Len(Append(c, i)) = Len(c) + 1 /\ Append(P, F)[Len(c) + 1] = Last(P)
      OBVIOUS
    <3>1. Carries(c, P, Append(c, i), Append(P, F)) BY <2>1, <2>5, OneWired, Zenon
    <3>2. Last(Append(P, F)) = F BY <2>1, <2>5, OneWired
    <3>3. Len(Append(c, i)) = Len(c) + 1 BY <2>1, <2>5, OneWired
    <3>4. Append(P, F)[Len(c) + 1] = Last(P)
      <4>1. /\ P \in Seq(Seq(Nat)) /\ Len(P) = Len(c) + 1 /\ Len(c) \in Nat
            /\ Last(P) = P[Len(c) + 1]
        BY <2>5, KnitIs
      <4> DEFINE k == Len(c) + 1
      <4>2. k \in 1..Len(P) BY <4>1
      <4>3. Append(P, F)[k] = P[k] BY <4>1, <4>2
      <4> QED BY <4>1, <4>3
    <3> QED BY <3>1, <3>2, <3>3, <3>4
  <2> QED BY <2>3, <2>4, <2>6
<1>8. Knit(Append(c, i), Append(P, E)) BY <1>7 DEF Carries
<1>9. \A k \in DOMAIN ls : k \in DOMAIN ls2 /\ ls2[k].d = ls[k].d BY <1>1
<1>10. Knows(E, D)
  <2>1. ASSUME NEW k \in DOMAIN D PROVE k \in DOMAIN E /\ E[k] = D[k]
    <3>1. k \in 1..h /\ D[k] = ls[k].d BY <1>2
    <3>2. k \in 1..(h + 1) /\ ls2[k] = ls[k] BY <1>1, <3>1
    <3> QED BY <1>3, <3>1, <3>2
  <2> QED BY <2>1 DEF Knows
<1> QED BY <1>1, <1>6, <1>7, <1>8, <1>9, <1>10 DEF ls2, D, E, h

(* A declaration keeps the labels: what comes next knows its local too. *)
LEMMA LetLaces == ASSUME Now, Then, Laces, Let PROVE Laces'
<1>1. PICK P : Laced(chunk, P, open, locals, loopStack) BY DEF Laces
<1> DEFINE D == Full(locals)
<1>2. Len(D) = Height /\ Height \in Nat /\ Height + 1 \in Nat /\ Height <= Height + 1 /\ Height <= Height BY FullIs
<1>3. PICK value \in {"CONSTANT", "NOTYPE"} :
        IF scopeDepth > 0
          THEN /\ chunk' = Append(chunk, Ins(value, 0, 0, Height))
               /\ locals' = addLocal(locals, scopeDepth, Here(chunk), TRUE)
          ELSE /\ chunk' = chunk \o <<Ins(value, 0, 0, Height), Ins("DEFINE_VAR", 0, 0, Height + 1)>>
               /\ UNCHANGED locals
  BY DEF Let
<1>4. loopStack' = loopStack /\ open' = open BY DEF Let
<1>5. value \in Placid /\ "DEFINE_VAR" \in Placid BY DEF Placid
<1>6. ASSUME NEW n PROVE Ins(value, 0, 0, Height) \in Calming(chunk, P, n, D)
                         /\ Ins("DEFINE_VAR", 0, 0, Height + 1) \in Calming(chunk, P, n, D)
  <2> HIDE DEF D
  <2> QED BY <1>2, <1>5, QuietAt
<1>7. CASE scopeDepth > 0
  <2> DEFINE l == [depth |-> scopeDepth, d |-> Here(chunk), named |-> TRUE]
             i == Ins(value, 0, 0, Height)
  <2>1. chunk' = Append(chunk, i) /\ locals' = Append(locals, l) BY <1>3, <1>7 DEF addLocal
  <2>2. /\ Knit(chunk, P) /\ Last(P) = D /\ locals \in Seq(Local) /\ Height = Len(locals)
        /\ scopeDepth \in Nat /\ Len(chunk) \in Nat
    BY <1>1, NowIs DEF Laced
  <2>3. l \in Local /\ l.d = Len(chunk) + 1 BY <2>2 DEF Local, Here
  <2>4. i \in Calming(chunk, P, 1, D) BY <1>6
  <2>5. i.op \in Pushing \ {"FOR_ITER"} /\ i.h = Height BY DEF Ins, InsIn, Pushing
  <2> HIDE DEF l, i
  <2>6. PICK P2 : /\ Carries(chunk, P, Append(chunk, i), P2) /\ Last(P2) = Full(Append(locals, l))
                  /\ \A k \in DOMAIN locals :
                       k \in DOMAIN Append(locals, l) /\ Append(locals, l)[k].d = locals[k].d
    BY <2>2, <2>3, <2>4, <2>5, Declares
  <2>7. /\ Carries(chunk, P, chunk', P2) /\ Last(P2) = Full(locals')
        /\ \A k \in DOMAIN locals : k \in DOMAIN locals' => locals'[k].d = locals[k].d
    BY <2>1, <2>6
  <2> QED BY <1>1, <1>4, <2>7, SameTieIs, LacesNext
<1>8. CASE ~(scopeDepth > 0)
  <2> DEFINE t == <<Ins(value, 0, 0, Height), Ins("DEFINE_VAR", 0, 0, Height + 1)>>
  <2>1. t \in Seq(Calming(chunk, P, 2, D)) /\ Len(t) = 2
    <3>1. Ins(value, 0, 0, Height) \in Calming(chunk, P, 2, D)
          /\ Ins("DEFINE_VAR", 0, 0, Height + 1) \in Calming(chunk, P, 2, D)
      BY <1>6
    <3> QED BY <3>1, Tuple2
  <2>2. chunk' = chunk \o t /\ locals' = locals BY <1>3, <1>8
  <2> HIDE DEF t
  <2> QED BY <1>1, <1>4, <2>1, <2>2, SameTieIs, LacesBlock
<1> QED BY <1>7, <1>8

(* A read of a local names what the compiler resolved. *)
LEMMA UseLaces == ASSUME Now, Then, Laces, Use PROVE Laces'
<1>1. PICK P : Laced(chunk, P, open, locals, loopStack) BY DEF Laces
<1> DEFINE D == Full(locals)
           S == Calming(chunk, P, 2, D)
<1>2. /\ Len(D) = Height /\ Height \in Nat /\ Height + 1 \in Nat /\ Height <= Height + 1
      /\ DOMAIN D = 1..Height /\ \A k \in 1..Height : D[k] = locals[k].d
      /\ locals \in Seq(Local) /\ DOMAIN locals = 1..Height
  BY FullIs
<1>3. PICK i \in DOMAIN locals :
        chunk' = chunk \o <<Ins("GET_LOCAL", locals[i].d, i - 1, Height), Ins("POP", 0, 0, Height + 1)>>
  BY DEF Use
<1>4. locals' = locals /\ loopStack' = loopStack /\ open' = open BY DEF Use
<1> DEFINE x == locals[i].d
           y == i - 1
<1>5. x \in Nat /\ y \in Nat /\ y + 1 = i /\ y + 1 \in DOMAIN D /\ D[y + 1] = x
  <2>1. locals[i] \in Local BY <1>2
  <2> QED BY <1>2, <2>1 DEF Local
<1> HIDE DEF D, x, y
<1>6. Ins("GET_LOCAL", x, y, Height) \in S
  <2>1. "GET_LOCAL" \in Ops /\ "GET_LOCAL" \notin Branches /\ "GET_LOCAL" \notin Fallible \cup {"RETURN"}
        /\ Spare("GET_LOCAL") = 0
    BY DEF Ops, Branches, Fallible, Spare
  <2>2. Len(D) + Spare("GET_LOCAL") <= Height BY <1>2, <2>1
  <2>3. Ctx \in Context /\ {} \in SUBSET ErrTypes BY NowIs
  <2> QED BY <1>2, <1>5, <2>1, <2>2, <2>3, CalmIns DEF Ins
<1>7. Ins("POP", 0, 0, Height + 1) \in S
  <2>1. "POP" \in Placid BY DEF Placid
  <2> QED BY <1>2, <2>1, QuietAt
<1> HIDE DEF S
<1>8. <<Ins("GET_LOCAL", x, y, Height), Ins("POP", 0, 0, Height + 1)>> \in Seq(S)
      /\ Len(<<Ins("GET_LOCAL", x, y, Height), Ins("POP", 0, 0, Height + 1)>>) = 2
  BY <1>6, <1>7, Tuple2
<1>9. chunk' = chunk \o <<Ins("GET_LOCAL", x, y, Height), Ins("POP", 0, 0, Height + 1)>>
  BY <1>3 DEF x, y
<1> QED BY <1>1, <1>4, <1>8, <1>9, SameTieIs, LacesBlock DEF S, D

(* A write to a local names what the compiler resolved. *)
LEMMA AssignLaces == ASSUME Now, Then, Laces, Assign PROVE Laces'
<1>1. PICK P : Laced(chunk, P, open, locals, loopStack) BY DEF Laces
<1> DEFINE D == Full(locals)
           S == Calming(chunk, P, 3, D)
<1>2. /\ Len(D) = Height /\ Height \in Nat /\ Height + 1 \in Nat /\ Height <= Height + 1 /\ Height <= Height
      /\ DOMAIN D = 1..Height /\ \A k \in 1..Height : D[k] = locals[k].d
      /\ locals \in Seq(Local) /\ DOMAIN locals = 1..Height
  BY FullIs
<1>3. PICK i \in DOMAIN locals :
        chunk' = chunk \o <<Ins("CONSTANT", 0, 0, Height),
                            Ins("SET_LOCAL", locals[i].d, i - 1, Height + 1), Ins("POP", 0, 0, Height + 1)>>
  BY DEF Assign
<1>4. locals' = locals /\ loopStack' = loopStack /\ open' = open BY DEF Assign
<1> DEFINE x == locals[i].d
           y == i - 1
<1>5. x \in Nat /\ y \in Nat /\ y + 1 = i /\ y + 1 \in DOMAIN D /\ D[y + 1] = x
  <2>1. locals[i] \in Local BY <1>2
  <2> QED BY <1>2, <2>1 DEF Local
<1> HIDE DEF D, x, y
<1>6. Ins("SET_LOCAL", x, y, Height + 1) \in S
  <2>1. "SET_LOCAL" \in Ops /\ "SET_LOCAL" \notin Branches /\ "SET_LOCAL" \notin Fallible \cup {"RETURN"}
        /\ Spare("SET_LOCAL") = 0
    BY DEF Ops, Branches, Fallible, Spare
  <2>2. Len(D) + Spare("SET_LOCAL") <= Height + 1 BY <1>2, <2>1
  <2>3. Ctx \in Context /\ {} \in SUBSET ErrTypes BY NowIs
  <2> QED BY <1>2, <1>5, <2>1, <2>2, <2>3, CalmIns DEF Ins
<1>7. Ins("POP", 0, 0, Height + 1) \in S /\ Ins("CONSTANT", 0, 0, Height) \in S
  <2>1. "POP" \in Placid /\ "CONSTANT" \in Placid BY DEF Placid
  <2> QED BY <1>2, <2>1, QuietAt
<1> HIDE DEF S
<1> DEFINE t == <<Ins("CONSTANT", 0, 0, Height), Ins("SET_LOCAL", x, y, Height + 1),
                  Ins("POP", 0, 0, Height + 1)>>
<1>8. t \in Seq(S) /\ Len(t) = 3 BY <1>6, <1>7, Tuple3
<1>9. chunk' = chunk \o t BY <1>3 DEF x, y
<1> HIDE DEF t
<1> QED BY <1>1, <1>4, <1>8, <1>9, SameTieIs, LacesBlock DEF S, D

(* A call keeps the labels. *)
LEMMA CallLaces == ASSUME Now, Then, Funcs = 1..NumFuncs, CGTypes, Laces, CallStmt PROVE Laces'
<1>1. PICK P : Laced(chunk, P, open, locals, loopStack) BY DEF Laces
<1> DEFINE D == Full(locals)
           S == Calming(chunk, P, 3, D)
<1>2. /\ Len(D) = Height /\ Height \in Nat /\ Height + 1 \in Nat /\ Height <= Height + 1 /\ Height <= Height
  BY FullIs
<1>3. Handled(chunk, P, D, Ctx) /\ Ctx \in Context /\ {} \in SUBSET ErrTypes BY <1>1, HandledHere, NowIs
<1>4. PICK f \in 1..fn \ {NumFuncs} :
        chunk' = chunk \o <<Ins("CONSTANT", 0, 0, Height), Ins("CALL", f, 0, Height + 1),
                            Ins("POP", 0, 0, Height + 1)>>
  BY DEF CallStmt
<1>5. locals' = locals /\ loopStack' = loopStack /\ open' = open BY DEF CallStmt
<1> HIDE DEF D
<1>6. Ins("CALL", f, 0, Height + 1) \in S
  <2>1. "CALL" \in Ops /\ "CALL" \notin Branches /\ Spare("CALL") = 1 BY FalliblesAre
  <2>2. Len(D) + Spare("CALL") <= Height + 1 BY <1>2, <2>1
  <2>3. f \in Nat BY DEF CGTypes
  <2> QED BY <1>2, <1>3, <2>1, <2>2, <2>3, CalmIns DEF Ins
<1>7. Ins("POP", 0, 0, Height + 1) \in S /\ Ins("CONSTANT", 0, 0, Height) \in S
  <2>1. "POP" \in Placid /\ "CONSTANT" \in Placid BY DEF Placid
  <2> QED BY <1>2, <2>1, QuietAt
<1> HIDE DEF S
<1> DEFINE t == <<Ins("CONSTANT", 0, 0, Height), Ins("CALL", f, 0, Height + 1),
                  Ins("POP", 0, 0, Height + 1)>>
<1>8. t \in Seq(S) /\ Len(t) = 3 BY <1>6, <1>7, Tuple3
<1>9. chunk' = chunk \o t BY <1>4
<1> HIDE DEF t
<1> QED BY <1>1, <1>5, <1>8, <1>9, SameTieIs, LacesBlock DEF S, D

(* A throw keeps the labels: the handler knows no more than the place. *)
LEMMA ThrowLaces == ASSUME Now, Then, Accepted, Laces, ThrowStmt PROVE Laces'
<1>1. PICK P : Laced(chunk, P, open, locals, loopStack) BY DEF Laces
<1> DEFINE D == Full(locals)
           S == Calming(chunk, P, 3, D)
<1>2. /\ Len(D) = Height /\ Height \in Nat /\ Height + 1 \in Nat /\ Height <= Height + 1 /\ Height <= Height
      /\ Height + 2 \in Nat /\ Height <= Height + 2
  BY FullIs
<1>3. Handled(chunk, P, D, Ctx) /\ Ctx \in Context BY <1>1, HandledHere, NowIs
<1>4. PICK e \in ThrowTypes :
        chunk' = chunk \o <<Ins("CONSTANT", 0, 0, Height), Ins("CONSTANT", 0, 0, Height + 1),
                            InsIn(Ctx, "THROW", 0, 0, {e}, Height + 2)>>
  BY DEF ThrowStmt
<1>5. locals' = locals /\ loopStack' = loopStack /\ open' = open BY DEF ThrowStmt
<1>6. {e} \in SUBSET ErrTypes BY DEF Accepted
<1> HIDE DEF D
<1>7. InsIn(Ctx, "THROW", 0, 0, {e}, Height + 2) \in S BY <1>2, <1>3, <1>6, CalmFailing
<1>8. Ins("CONSTANT", 0, 0, Height) \in S /\ Ins("CONSTANT", 0, 0, Height + 1) \in S
  <2>1. "CONSTANT" \in Placid BY DEF Placid
  <2> QED BY <1>2, <2>1, QuietAt
<1> HIDE DEF S
<1> DEFINE t == <<Ins("CONSTANT", 0, 0, Height), Ins("CONSTANT", 0, 0, Height + 1),
                  InsIn(Ctx, "THROW", 0, 0, {e}, Height + 2)>>
<1>9. t \in Seq(S) /\ Len(t) = 3 BY <1>7, <1>8, Tuple3
<1>10. chunk' = chunk \o t BY <1>4
<1> HIDE DEF t
<1> QED BY <1>1, <1>5, <1>9, <1>10, SameTieIs, LacesBlock DEF S, D

----------------------------------------------------------------------------
(* Blocks.                                                                 *)

(* A jump back to a place that knows no more may be emitted. *)
LEMMA CalmLoop ==
  ASSUME Now, NEW c, NEW P, Knit(c, P), NEW n \in Nat, NEW D, Len(D) \in Nat, NEW x, Back(P, x, D),
         NEW h \in Nat, Len(D) <= h
  PROVE  Ins("LOOP", x, 0, h) \in Calming(c, P, n, D) /\ Calm(c, P, {Len(c) + 1}, D, Ins("LOOP", x, 0, h))
<1>1. /\ x \in DOMAIN P /\ Knows(D, P[x]) /\ DOMAIN c = 1..Len(c) /\ DOMAIN P = 1..(Len(c) + 1)
      /\ Len(c) \in Nat
  BY KnitIs DEF Back
<1>2. x \in Nat /\ (x \in DOMAIN c \/ x = Len(c) + 1) BY <1>1
<1>3. Len(c) + 1 \in Block(c, n)
  <2> DEFINE k == Len(c)
  <2>1. k \in Nat BY <1>1
  <2> HIDE DEF k
  <2>2. k + 1 \in (k + 1)..(k + n + 1) BY <2>1
  <2> QED BY <2>2 DEF Block, k
<1>4. /\ "LOOP" \in Ops /\ "LOOP" \notin Fallible \cup {"RETURN"} /\ Spare("LOOP") = 0
      /\ "LOOP" \notin {"TRY_ENTER", "SET_LOCAL", "GET_LOCAL", "SKIP_ITER"}
  BY FalliblesAre
<1>5. Ctx \in Context /\ {} \in SUBSET ErrTypes /\ 0 \in Nat BY NowIs
<1>6. Ins("LOOP", x, 0, h) \in Calming(c, P, n, D)
  <2>1. Len(D) + Spare("LOOP") <= h BY <1>4
  <2> QED BY <1>1, <1>2, <1>3, <1>4, <1>5, <2>1, CalmIns DEF Ins
<1>7. Calm(c, P, {Len(c) + 1}, D, Ins("LOOP", x, 0, h))
  <2>1. Calm(c, P, Block(c, n), D, Ins("LOOP", x, 0, h)) BY <1>6 DEF Calming
  <2>2. Ins("LOOP", x, 0, h).x = x BY DEF Ins, InsIn
  <2> QED BY <1>1, <1>2, <2>1, <2>2 DEF Calm
<1> QED BY <1>6, <1>7

(* One instruction that leaves the label D as it is.                       *)
LEMMA SewedOne ==
  ASSUME NEW c, NEW P, Knit(c, P), NEW D \in Seq(Nat), Knows(Last(P), D),
         NEW i \in Calming(c, P, 1, D)
  PROVE  \E P2 : /\ Carries(c, P, Append(c, i), P2) /\ Last(P2) = D
                 /\ Knit(Append(c, i), P2) /\ Len(Append(c, i)) = Len(c) + 1
                 /\ i.op \in Targeted => Hole(Append(c, i), P2, Len(c) + 1, D)
                 /\ Back(P2, Len(c) + 1, D)
<1> DEFINE t == <<i>>
<1>1. t \in Seq(Calming(c, P, 1, D)) /\ Len(t) = 1 /\ t[1] = i OBVIOUS
<1>2. c \in Seq(Instruction) /\ Len(c) \in Nat BY KnitIs
<1>3. c \o t = Append(c, i) BY <1>2 DEF Calming
<1> HIDE DEF t
<1>4. PICK P2 : /\ Carries(c, P, c \o t, P2) /\ Last(P2) = D /\ Len(c \o t) = Len(c) + 1
                /\ Knit(c \o t, P2)
                /\ \A k \in 1..1 : t[k].op \in Targeted => Hole(c \o t, P2, Len(c) + k, D)
                /\ \A q \in Block(c, 1) : Back(P2, q, D)
  BY <1>1, Sewed
<1>5. Len(c) + 1 \in Block(c, 1)
  <2> DEFINE k == Len(c)
  <2>1. k \in Nat BY <1>2
  <2> HIDE DEF k
  <2>2. k + 1 \in (k + 1)..(k + 1 + 1) BY <2>1
  <2> QED BY <2>2 DEF Block, k
<1>6. 1 \in 1..1 OBVIOUS
<1> QED BY <1>1, <1>3, <1>4, <1>5, <1>6

(* Jumps patched to the end of the code, where no more is known than at    *)
(* each of them.                                                           *)
LEMMA PatchWired ==
  ASSUME NEW c, NEW P, Knit(c, P), NEW A, \A p \in A : Hole(c, P, p, Last(P))
  PROVE  /\ Carries(c, P, Patch(c, A), P) /\ Knit(Patch(c, A), P) /\ Len(Patch(c, A)) = Len(c)
<1> DEFINE c2 == Patch(c, A)
           n == Len(c)
<1>1. c \in Seq(Instruction) /\ n \in Nat /\ DOMAIN c = 1..n /\ n + 1 \in Nat
      /\ \A p \in 1..n : c[p] \in Instruction
  BY KnitIs
<1>2. DOMAIN c2 = 1..n /\ \A p \in 1..n : c2[p] = IF p \in A THEN [c[p] EXCEPT !.x = n + 1] ELSE c[p]
  BY <1>1 DEF Patch, Here
<1> HIDE DEF c2, n
<1>3. ASSUME NEW p \in 1..n
      PROVE  /\ c2[p] \in Instruction /\ c2[p].op = c[p].op /\ c2[p].h = c[p].h /\ c2[p].hs = c[p].hs
             /\ c2[p].y = c[p].y /\ c2[p].x \in {c[p].x, n + 1}
             /\ p \notin A => c2[p] = c[p]
  <2>1. CASE p \notin A BY <1>1, <1>2, <2>1
  <2>2. CASE p \in A
    <3>1. c2[p] = [c[p] EXCEPT !.x = n + 1] /\ c[p] \in Instruction BY <1>1, <1>2, <2>2
    <3> QED BY <1>1, <2>2, <3>1 DEF Instruction
  <2> QED BY <2>1, <2>2
<1>4. c2 \in Seq(Instruction)
  <2>1. c2 \in [1..n -> Instruction]
    <3>1. c2 = [p \in 1..n |-> c2[p]] BY <1>1 DEF c2, Patch
    <3> QED BY <1>3, <3>1
  <2> QED BY <1>1, <2>1
<1>5. ASSUME NEW p \in DOMAIN c
      PROVE  \/ c2[p] = c[p]
             \/ /\ Hole(c, P, p, Last(P))
                /\ c2[p].op = c[p].op /\ c2[p].h = c[p].h /\ c2[p].hs = c[p].hs
                /\ c2[p].x \in {c[p].x, Len(c) + 1} /\ c2[p].y \in {c[p].y, Len(c) + 1}
  BY <1>1, <1>3 DEF n
<1>6. DOMAIN c2 = DOMAIN c BY <1>1, <1>2
<1>7. Carries(c, P, c2, P) /\ Len(c2) = Len(c) BY <1>4, <1>5, <1>6, AimedWired
<1> QED BY <1>7 DEF Carries, c2

(* A jump to be patched may go where less is known. *)
LEMMA HoleKnows ==
  ASSUME NEW c, NEW P, NEW p, NEW l, NEW m, Knows(l, m), Hole(c, P, p, l)
  PROVE  Hole(c, P, p, m)
BY KnowsOn DEF Hole

(* A place to go back to may be reached from where more is known. *)
LEMMA BackKnows ==
  ASSUME NEW P, NEW p, NEW l, NEW m, Knows(m, l), Back(P, p, l)
  PROVE  Back(P, p, m)
BY KnowsOn DEF Back

(* A sequence without its last element. *)
LEMMA ButLastIs ==
  ASSUME NEW S, NEW s \in Seq(S), s # <<>>
  PROVE  /\ ButLast(s, 1) \in Seq(S) /\ DOMAIN ButLast(s, 1) \subseteq DOMAIN s
         /\ \A i \in DOMAIN ButLast(s, 1) : ButLast(s, 1)[i] = s[i]
<1>1. Len(s) - 1 \in 0..Len(s) /\ Len(s) \in Nat OBVIOUS
<1>2. /\ SubSeq(s, 1, Len(s) - 1) \in Seq(S) /\ DOMAIN SubSeq(s, 1, Len(s) - 1) = 1..(Len(s) - 1)
      /\ DOMAIN s = 1..Len(s) /\ \A i \in 1..(Len(s) - 1) : SubSeq(s, 1, Len(s) - 1)[i] = s[i]
  BY <1>1, CutIs
<1>3. 1..(Len(s) - 1) \subseteq 1..Len(s) BY <1>1
<1> QED BY <1>2, <1>3 DEF ButLast

(* The end of the innermost statement.                                     *)
LEMMA LacesClosed ==
  ASSUME Now, Then, open # <<>>, NEW P, Laced(chunk, P, open, locals, loopStack),
         NEW P2, Carries(chunk, P, chunk', P2), Last(P2) = Label(locals, Cur.h),
         locals' = SubSeq(locals, 1, Cur.h), open' = ButLast(open, 1),
         loopStack' = loopStack \/ (loopStack # <<>> /\ loopStack' = ButLast(loopStack, 1))
  PROVE  Laces'
<1>1. /\ open \in Seq(Statement) /\ locals \in Seq(Local) /\ loopStack \in Seq(LoopRecord)
      /\ Cur.h \in 0..Len(locals)
  <2>1. Cur.h \in Nat /\ Cur.h <= Height /\ Height = Len(locals) /\ Len(locals) \in Nat BY CurIs, NowIs
  <2> QED BY <2>1, NowIs
<1>2. Full(locals') = Label(locals, Cur.h) BY <1>1, LabelCut
<1>3. \A k \in DOMAIN locals : k \in DOMAIN locals' => locals'[k].d = locals[k].d
  <2>1. \A k \in 1..Cur.h : SubSeq(locals, 1, Cur.h)[k] = locals[k] BY <1>1, CutIs
  <2>2. DOMAIN locals' = 1..Cur.h BY <1>1, CutIs
  <2> QED BY <2>1, <2>2
<1>4. \A q \in DOMAIN loopStack : q \in DOMAIN loopStack' => loopStack'[q] = loopStack[q]
  BY <1>1, ButLastIs
<1>5. \A i \in DOMAIN open' : i \in DOMAIN open /\ SameTie(open[i], open'[i])
  BY <1>1, ButLastIs, SameTieIs
<1> QED BY <1>2, <1>3, <1>4, <1>5, LacesNext

(* The next block of the innermost statement.                              *)
LEMMA LacesTurned ==
  ASSUME Now, Then, open # <<>>, NEW P, Laced(chunk, P, open, locals, loopStack),
         NEW P2, Carries(chunk, P, chunk', P2), NEW m \in 0..Len(locals), Last(P2) = Label(locals, m),
         locals' = SubSeq(locals, 1, m), loopStack' = loopStack,
         NEW o2 \in Statement, open' = SetLast(open, o2),
         Tied(chunk', P2, o2, loopStack[o2.n + 1], locals')
  PROVE  Laces'
<1>1. /\ open \in Seq(Statement) /\ locals \in Seq(Local) /\ loopStack \in Seq(LoopRecord)
  BY NowIs
<1>2. Full(locals') = Label(locals, m) BY <1>1, LabelCut
<1>3. \A k \in DOMAIN locals : k \in DOMAIN locals' => locals'[k].d = locals[k].d
  <2>1. \A k \in 1..m : SubSeq(locals, 1, m)[k] = locals[k] BY <1>1, CutIs
  <2>2. DOMAIN locals' = 1..m BY <1>1, CutIs
  <2> QED BY <2>1, <2>2
<1>4. \A i \in DOMAIN open' :
        \/ i \in DOMAIN open /\ SameTie(open[i], open'[i])
        \/ Tied(chunk', P2, open'[i], loopStack'[open'[i].n + 1], locals')
  <2>1. DOMAIN open' = DOMAIN open /\ open'[Len(open)] = o2
        /\ \A i \in DOMAIN open : i # Len(open) => open'[i] = open[i]
    <3>0. open \in Seq(Statement) /\ open # <<>> /\ o2 \in Statement BY <1>1
    <3>1. DOMAIN SetLast(open, o2) = DOMAIN open BY ONLY <3>0, SetLastIs
    <3>2. SetLast(open, o2)[Len(open)] = o2 BY ONLY <3>0, SetLastIs
    <3>3. \A i \in DOMAIN open : i # Len(open) => SetLast(open, o2)[i] = open[i]
      BY ONLY <3>0, SetLastIs
    <3> QED BY <3>1, <3>2, <3>3
  <2> SUFFICES ASSUME NEW i \in DOMAIN open'
               PROVE  \/ i \in DOMAIN open /\ SameTie(open[i], open'[i])
                      \/ Tied(chunk', P2, open'[i], loopStack'[open'[i].n + 1], locals')
    OBVIOUS
  <2>2. CASE i = Len(open) BY <2>1, <2>2
  <2>3. CASE i # Len(open) BY <2>1, <2>3, SameTieIs
  <2> QED BY <2>2, <2>3
<1> QED BY <1>2, <1>3, <1>4, LacesNext

(* A statement opened.                                                     *)
LEMMA LacesOpened ==
  ASSUME Now, Then, NEW P, Laced(chunk, P, open, locals, loopStack),
         NEW P2, Carries(chunk, P, chunk', P2), Last(P2) = Full(locals'),
         \A k \in DOMAIN locals : k \in DOMAIN locals' => locals'[k].d = locals[k].d,
         NEW o2 \in Statement, open' = Append(open, o2),
         loopStack' = loopStack \/ \E l \in LoopRecord : loopStack' = Append(loopStack, l),
         Tied(chunk', P2, o2, loopStack'[o2.n + 1], locals')
  PROVE  Laces'
<1>1. open \in Seq(Statement) /\ loopStack \in Seq(LoopRecord) BY NowIs
<1>2. \A q \in DOMAIN loopStack : q \in DOMAIN loopStack' => loopStack'[q] = loopStack[q]
  <2> SUFFICES ASSUME NEW l \in LoopRecord, loopStack' = Append(loopStack, l), NEW q \in DOMAIN loopStack
               PROVE  loopStack'[q] = loopStack[q]
    OBVIOUS
  <2> QED BY <1>1, AppendIs
<1>3. \A i \in DOMAIN open' :
        \/ i \in DOMAIN open /\ SameTie(open[i], open'[i])
        \/ Tied(chunk', P2, open'[i], loopStack'[open'[i].n + 1], locals')
  <2> SUFFICES ASSUME NEW i \in DOMAIN open'
               PROVE  \/ i \in DOMAIN open /\ SameTie(open[i], open'[i])
                      \/ Tied(chunk', P2, open'[i], loopStack'[open'[i].n + 1], locals')
    OBVIOUS
  <2>1. /\ DOMAIN open' = 1..(Len(open) + 1) /\ DOMAIN open = 1..Len(open) /\ Len(open) \in Nat
        /\ open'[Len(open) + 1] = o2
        /\ \A k \in 1..Len(open) : open'[k] = open[k]
    BY <1>1, AppendIs
  <2>2. i \in DOMAIN open \/ i = Len(open) + 1 BY <2>1
  <2> QED BY <2>1, <2>2, SameTieIs
<1> QED BY <1>2, <1>3, LacesNext

(* A quintuple as a sequence. *)
LEMMA Tuple5 ==
  ASSUME NEW S, NEW a \in S, NEW b \in S, NEW c \in S, NEW d \in S, NEW e \in S
  PROVE  <<a, b, c, d, e>> \in Seq(S) /\ Len(<<a, b, c, d, e>>) = 5
OBVIOUS

(* Eight elements as a sequence. *)
LEMMA Tuple8 ==
  ASSUME NEW S, NEW a \in S, NEW b \in S, NEW c \in S, NEW d \in S, NEW e \in S, NEW f \in S,
         NEW g \in S, NEW h \in S
  PROVE  <<a, b, c, d, e, f, g, h>> \in Seq(S) /\ Len(<<a, b, c, d, e, f, g, h>>) = 8
OBVIOUS

(* An assertion keeps the labels. *)
LEMMA AssertLaces == ASSUME Now, Then, Accepted, Laces, AssertStmt PROVE Laces'
<1>1. PICK P : Laced(chunk, P, open, locals, loopStack) BY DEF Laces
<1> DEFINE D == Full(locals)
           S == Calming(chunk, P, 8, D)
           n == Len(chunk)
<1>2. /\ Len(D) = Height /\ Height \in Nat /\ Height + 1 \in Nat /\ Height <= Height + 1 /\ Height <= Height
      /\ Height + 2 \in Nat /\ Height <= Height + 2 /\ n \in Nat
  BY FullIs, NowIs
<1>3. Handled(chunk, P, D, Ctx) /\ Ctx \in Context /\ {} \in SUBSET ErrTypes /\ 0 \in Nat BY <1>1, HandledHere, NowIs
<1>4. chunk' = chunk \o
        <<Ins("CONSTANT", 0, 0, Height), Ins("JUMP_IF_FALSE", n + 5, 0, Height + 1),
          Ins("POP", 0, 0, Height + 1), Ins("JUMP", n + 9, 0, Height),
          Ins("POP", 0, 0, Height + 1),
          Ins("CONSTANT", 0, 0, Height), Ins("CONSTANT", 0, 0, Height + 1),
          InsIn(Ctx, "THROW", 0, 0, {"AssertionError"}, Height + 2)>>
  BY DEF AssertStmt
<1>5. locals' = locals /\ loopStack' = loopStack /\ open' = open BY DEF AssertStmt
<1>6. {"AssertionError"} \in SUBSET ErrTypes BY DEF Accepted
<1> HIDE DEF D
<1>7. InsIn(Ctx, "THROW", 0, 0, {"AssertionError"}, Height + 2) \in S BY <1>2, <1>3, <1>6, CalmFailing
<1>8. /\ Ins("CONSTANT", 0, 0, Height) \in S /\ Ins("CONSTANT", 0, 0, Height + 1) \in S
      /\ Ins("POP", 0, 0, Height + 1) \in S
  <2>1. "CONSTANT" \in Placid /\ "POP" \in Placid BY DEF Placid
  <2> QED BY <1>2, <2>1, QuietAt
<1>9. n + 5 \in Block(chunk, 8) /\ n + 9 \in Block(chunk, 8) /\ n + 5 \in Nat /\ n + 9 \in Nat
  <2> HIDE DEF n
  <2>1. n + 5 \in (n + 1)..(n + 8 + 1) /\ n + 9 \in (n + 1)..(n + 8 + 1) /\ n + 5 \in Nat /\ n + 9 \in Nat
    BY <1>2
  <2> QED BY <2>1 DEF Block, n
<1> HIDE DEF n
<1>10. ASSUME NEW op \in {"JUMP", "JUMP_IF_FALSE"}, NEW x \in Block(chunk, 8) \cap Nat, NEW h \in Nat, Height <= h
       PROVE  Ins(op, x, 0, h) \in S
  <2>1. /\ op \in Ops /\ op \notin Fallible \cup {"RETURN"} /\ Spare(op) = 0
        /\ op \notin {"TRY_ENTER", "SET_LOCAL", "GET_LOCAL", "SKIP_ITER"}
    BY FalliblesAre
  <2>2. Len(D) + Spare(op) <= h BY <1>2, <1>10, <2>1
  <2> QED BY <1>2, <1>3, <2>1, <2>2, CalmIns DEF Ins
<1>11. Ins("JUMP_IF_FALSE", n + 5, 0, Height + 1) \in S /\ Ins("JUMP", n + 9, 0, Height) \in S
  BY <1>2, <1>9, <1>10
<1> HIDE DEF S
<1> DEFINE t == <<Ins("CONSTANT", 0, 0, Height), Ins("JUMP_IF_FALSE", n + 5, 0, Height + 1),
          Ins("POP", 0, 0, Height + 1), Ins("JUMP", n + 9, 0, Height),
          Ins("POP", 0, 0, Height + 1),
          Ins("CONSTANT", 0, 0, Height), Ins("CONSTANT", 0, 0, Height + 1),
          InsIn(Ctx, "THROW", 0, 0, {"AssertionError"}, Height + 2)>>
<1>12. t \in Seq(S) /\ Len(t) = 8 BY <1>7, <1>8, <1>11, Tuple8
<1>13. chunk' = chunk \o t BY <1>4
<1> HIDE DEF t
<1> QED BY <1>1, <1>5, <1>12, <1>13, SameTieIs, LacesBlock DEF S, D

(* A failing step of a stream that skips the iteration keeps the labels. *)
LEMMA SkipLaces == ASSUME Now, Then, Laces, Skip PROVE Laces'
<1>1. PICK P : Laced(chunk, P, open, locals, loopStack) BY DEF Laces
<1> DEFINE D == Full(locals)
           S == Calming(chunk, P, 2, D)
           y == Last(loopStack).iter
           x == locals[y + 1].d
<1>2. /\ Len(D) = Height /\ Height \in Nat /\ Height + 1 \in Nat /\ Height <= Height + 1 /\ Height <= Height
      /\ DOMAIN D = 1..Height /\ \A k \in 1..Height : D[k] = locals[k].d
      /\ locals \in Seq(Local) /\ DOMAIN locals = 1..Height
  BY FullIs
<1>3. Handled(chunk, P, D, Ctx) /\ Ctx \in Context /\ {} \in SUBSET ErrTypes BY <1>1, HandledHere, NowIs
<1>4. /\ chunk' = chunk \o <<Ins("CONSTANT", 0, 0, Height), Ins("SKIP_ITER", x, y, Height + 1)>>
      /\ loopStack # <<>> /\ Last(loopStack).each
      /\ locals' = locals /\ loopStack' = loopStack /\ open' = open
  BY DEF Skip
<1>5. y \in Nat /\ y + 1 \in 1..Height
  <2>1. /\ Last(loopStack) \in LoopRecord /\ LoopOK(open[InnerLoop], Last(loopStack), locals)
        /\ Last(loopStack).count \in Nat /\ Last(loopStack).count <= Height
    BY <1>4, LoopHere
  <2>2. y \in Nat BY <2>1 DEF LoopRecord
  <2>3. y < Last(loopStack).count BY <1>4, <2>1, <2>2 DEF LoopOK
  <2> HIDE DEF y
  <2> QED BY <1>2, <2>1, <2>2, <2>3
<1> HIDE DEF y
<1>6. x \in Nat /\ y + 1 \in DOMAIN D /\ D[y + 1] = x
  <2>1. locals[y + 1] \in Local BY <1>2, <1>5
  <2> QED BY <1>2, <1>5, <2>1 DEF Local
<1> HIDE DEF D, x
<1>7. Ins("SKIP_ITER", x, y, Height + 1) \in S
  <2>1. "SKIP_ITER" \in Ops /\ "SKIP_ITER" \notin Branches /\ Spare("SKIP_ITER") = 0 BY FalliblesAre
  <2>2. Len(D) + Spare("SKIP_ITER") <= Height + 1 BY <1>2, <2>1
  <2> QED BY <1>2, <1>3, <1>5, <1>6, <2>1, <2>2, CalmIns DEF Ins
<1>8. Ins("CONSTANT", 0, 0, Height) \in S
  <2>1. "CONSTANT" \in Placid BY DEF Placid
  <2> QED BY <1>2, <2>1, QuietAt
<1> HIDE DEF S
<1>9. <<Ins("CONSTANT", 0, 0, Height), Ins("SKIP_ITER", x, y, Height + 1)>> \in Seq(S)
      /\ Len(<<Ins("CONSTANT", 0, 0, Height), Ins("SKIP_ITER", x, y, Height + 1)>>) = 2
  BY <1>7, <1>8, Tuple2
<1> QED BY <1>1, <1>4, <1>9, SameTieIs, LacesBlock DEF S, D

(* A return keeps the labels. *)
LEMMA ReturnLaces == ASSUME Now, Then, Laces, ReturnStmt PROVE Laces'
<1>1. PICK P : Laced(chunk, P, open, locals, loopStack) BY DEF Laces
<1> DEFINE D == Full(locals)
           S == Calming(chunk, P, 2, D)
<1>2. /\ Len(D) = Height /\ Height \in Nat /\ Height + 1 \in Nat /\ Height <= Height + 1 /\ Height <= Height
      /\ open \in Seq(Statement)
  BY FullIs, NowIs
<1>3. Handled(chunk, P, D, Ctx) /\ Ctx \in Context /\ {} \in SUBSET ErrTypes BY <1>1, HandledHere, NowIs
<1> HIDE DEF D
<1>4. Ins("RETURN", 0, 0, Height + 1) \in S BY <1>2, <1>3, CalmFailing DEF Ins
<1>5. Ins("CONSTANT", 0, 0, Height) \in S
  <2>1. "CONSTANT" \in Placid BY DEF Placid
  <2> QED BY <1>2, <2>1, QuietAt
<1> HIDE DEF S
<1>6. <<Ins("CONSTANT", 0, 0, Height), Ins("RETURN", 0, 0, Height + 1)>> \in Seq(S)
      /\ Len(<<Ins("CONSTANT", 0, 0, Height), Ins("RETURN", 0, 0, Height + 1)>>) = 2
  BY <1>4, <1>5, Tuple2
<1>7. /\ chunk' = chunk \o <<Ins("CONSTANT", 0, 0, Height), Ins("RETURN", 0, 0, Height + 1)>>
      /\ locals' = locals /\ loopStack' = loopStack
      /\ open' = IF Interceptor = 0 THEN open ELSE [open EXCEPT ![Interceptor].ret = TRUE]
  BY DEF ReturnStmt
<1>8. DOMAIN open' = DOMAIN open BY <1>7
<1>9. ASSUME NEW i \in DOMAIN open PROVE SameTie(open[i], open'[i])
  <2>1. open[i] \in Statement BY <1>2
  <2>2. open'[i] = open[i] \/ open'[i] = [open[i] EXCEPT !.ret = TRUE] BY <1>7
  <2> DEFINE o == open[i]
             o2 == open'[i]
  <2> HIDE DEF o, o2
  <2>3. o \in Statement /\ (o2 = o \/ o2 = [o EXCEPT !.ret = TRUE]) BY <2>1, <2>2 DEF o, o2
  <2>4. SameTie(o, o2) BY <2>3 DEF SameTie, Statement
  <2> QED BY <2>4 DEF o, o2
<1> QED BY <1>1, <1>6, <1>7, <1>8, <1>9, LacesBlock DEF S, D

(* An instruction of a block that has no target may be emitted alone. *)
LEMMA QuietCalm ==
  ASSUME NEW c, NEW P, NEW n, NEW D, NEW i \in Calming(c, P, n, D), i.x = 0, NEW R
  PROVE  Calm(c, P, R, D, i)
BY DEF Calming, Calm

(* A jump, and the code behind it, whose label is not bound by it.         *)
LEMMA Leaps ==
  ASSUME NEW c, NEW P, Knit(c, P), NEW i, Calm(c, P, {Len(c) + 1}, Last(P), i),
         i.op \in {"JUMP", "LOOP"}, NEW E, E \in Seq(Nat)
  PROVE  \E P2 : /\ Carries(c, P, Append(c, i), P2) /\ Last(P2) = E
                 /\ Knit(Append(c, i), P2) /\ Len(Append(c, i)) = Len(c) + 1
                 /\ i.op = "JUMP" => Hole(Append(c, i), P2, Len(c) + 1, Last(P))
<1> DEFINE P2 == Append(P, E)
           c2 == Append(c, i)
           n == Len(c) + 1
<1>1. Brings(c, P, i, E) BY DEF Brings
<1>2. Carries(c, P, c2, P2) /\ Last(P2) = E /\ Len(c2) = Len(c) + 1 BY <1>1, OneWired
<1>3. Knit(c2, P2) BY <1>2 DEF Carries
<1>4. /\ P \in Seq(Seq(Nat)) /\ Len(P) = n /\ n \in Nat /\ n \in 1..n /\ Last(P) = P[n]
      /\ c \in Seq(Instruction) /\ Len(c) \in Nat
  BY KnitIs
<1>5. P2[n] = P[n] BY <1>4
<1>6. c2[n] = i /\ n \in DOMAIN c2
  <2>1. i \in Instruction BY DEF Calm
  <2> QED BY <1>4, <2>1, AppendIs
<1>7. i.op = "JUMP" => Hole(c2, P2, n, Last(P))
  <2>1. "JUMP" \in Targeted BY DEF Targeted, Branches
  <2> HIDE DEF P2, c2, n
  <2> QED BY <1>4, <1>5, <1>6, <2>1, KnowsSelf DEF Hole
<1> QED BY <1>2, <1>3, <1>7

(* The locals declared since the loop registered are popped.               *)
LEMMA LoopPopped ==
  ASSUME Now, loopStack # <<>>, NEW P, Laced(chunk, P, open, locals, loopStack)
  PROVE  LET c == chunk \o Pops(LoopPops, Height)
             l == Last(loopStack)
             D == Label(locals, l.count) IN
         /\ D \in Seq(Nat) /\ Len(D) = l.count /\ l.count \in Nat
         /\ \E P1 : Carries(chunk, P, c, P1) /\ Knit(c, P1) /\ Last(P1) = D
<1> DEFINE l == Last(loopStack)
           D == Label(locals, l.count)
<1>1. l.count \in Nat /\ l.count <= Height /\ Height \in Nat /\ Height = Len(locals) /\ locals \in Seq(Local)
  BY LoopHere, NowIs
<1>2. D \in Seq(Nat) /\ Len(D) = l.count BY <1>1, LabelIs
<1>3. Knit(chunk, P) /\ Last(P) = Full(locals) BY DEF Laced
<1>4. Knows(Last(P), D) BY <1>1, <1>3, LabelKnows DEF Full
<1> DEFINE n == LoopPops
<1>5. n \in Nat /\ n + Len(D) <= Height BY <1>1, <1>2 DEF LoopPops
<1> HIDE DEF D, n, l
<1>6. Pops(n, Height) \in Seq(Calming(chunk, P, n, D)) /\ Len(Pops(n, Height)) = n
  BY ONLY Now, <1>1, <1>2, <1>5, CalmPops
<1>7. \E P1 : Carries(chunk, P, chunk \o Pops(n, Height), P1) /\ Last(P1) = D
              /\ Knit(chunk \o Pops(n, Height), P1)
  BY ONLY <1>2, <1>3, <1>4, <1>6, Sewed
<1> QED BY <1>1, <1>2, <1>7 DEF D, l, n

(* A jump to be patched may be emitted alone. *)
LEMMA JumpCalm ==
  ASSUME Now, NEW c, NEW P, NEW R, NEW D, Len(D) \in Nat, NEW h \in Nat, Len(D) <= h
  PROVE  /\ Calm(c, P, R, D, Ins("JUMP", 0, 0, h))
         /\ Ins("JUMP", 0, 0, h).op = "JUMP" /\ Ins("JUMP", 0, 0, h).x = 0
<1>1. "JUMP" \in Placid BY DEF Placid
<1>2. Ins("JUMP", 0, 0, h) \in Calming(c, P, 0, D) BY <1>1, QuietAt
<1>3. Ins("JUMP", 0, 0, h).op = "JUMP" /\ Ins("JUMP", 0, 0, h).x = 0 BY DEF Ins, InsIn
<1> QED BY <1>2, <1>3, QuietCalm

(* A jump that leaves the loop, or goes on with it, to be patched.         *)
LEMMA JumpLaces ==
  ASSUME Now, Then, loopStack # <<>>, NEW P, Laced(chunk, P, open, locals, loopStack),
         NEW l2 \in LoopRecord, l2.count = Last(loopStack).count,
         l2.breaks \cup l2.continues
           \subseteq Last(loopStack).breaks \cup Last(loopStack).continues
                      \cup {Here(chunk \o Pops(LoopPops, Height))},
         chunk' = Append(chunk \o Pops(LoopPops, Height), Ins("JUMP", 0, 0, Last(loopStack).count)),
         loopStack' = SetLast(loopStack, l2), locals' = locals, open' = open
  PROVE  Laces'
<1> DEFINE l == Last(loopStack)
           D == Label(locals, l.count)
           c == chunk \o Pops(LoopPops, Height)
           i == Ins("JUMP", 0, 0, l.count)
<1>1. D \in Seq(Nat) /\ Len(D) = l.count /\ l.count \in Nat BY LoopPopped
<1>2. PICK P1 : Carries(chunk, P, c, P1) /\ Knit(c, P1) /\ Last(P1) = D BY LoopPopped
<1>3. Calm(c, P1, {Len(c) + 1}, D, i) /\ i.op = "JUMP"
  <2>1. Len(D) <= l.count BY <1>1
  <2> HIDE DEF D, c
  <2> QED BY <1>1, <2>1, JumpCalm
<1>4. Full(locals) \in Seq(Nat) /\ loopStack \in Seq(LoopRecord) BY FullIs, NowIs
<1>5. PICK P2 : /\ Carries(c, P1, Append(c, i), P2) /\ Last(P2) = Full(locals)
                /\ Hole(Append(c, i), P2, Len(c) + 1, D)
  <2>1. Calm(c, P1, {Len(c) + 1}, Last(P1), i) /\ i.op \in {"JUMP", "LOOP"} BY <1>2, <1>3
  <2> HIDE DEF c, i, D
  <2>2. PICK P2 : /\ Carries(c, P1, Append(c, i), P2) /\ Last(P2) = Full(locals)
                  /\ i.op = "JUMP" => Hole(Append(c, i), P2, Len(c) + 1, Last(P1))
    BY <1>2, <1>4, <2>1, Leaps
  <2> QED BY <1>2, <1>3, <2>2
<1>6. chunk' = Append(c, i) OBVIOUS
<1>7. Carries(chunk, P, chunk', P2)
  <2>1. Knit(chunk, P) BY DEF Laced
  <2> HIDE DEF c, i
  <2> QED BY <1>2, <1>5, <1>6, <2>1, CarriesOn
<1>8. Here(c) = Len(c) + 1 BY DEF Here
<1>9. ASSUME NEW q \in DOMAIN loopStack, q \in DOMAIN loopStack'
      PROVE  /\ loopStack'[q].count = loopStack[q].count
             /\ \A p \in loopStack'[q].breaks \cup loopStack'[q].continues :
                  \/ p \in loopStack[q].breaks \cup loopStack[q].continues
                  \/ Hole(chunk', P2, p, Label(locals', loopStack'[q].count))
  <2>0. loopStack \in Seq(LoopRecord) /\ loopStack # <<>> /\ l2 \in LoopRecord BY <1>4
  <2>1. SetLast(loopStack, l2)[Len(loopStack)] = l2 BY ONLY <2>0, SetLastIs
  <2>2. \A k \in DOMAIN loopStack : k # Len(loopStack) => SetLast(loopStack, l2)[k] = loopStack[k]
    BY ONLY <2>0, SetLastIs
  <2>3. CASE q # Len(loopStack) BY <2>2, <2>3
  <2>4. CASE q = Len(loopStack)
    <3>1. loopStack'[q] = l2 /\ loopStack[q] = l BY <2>1, <2>4 DEF Last
    <3>2. Hole(chunk', P2, Here(c), Label(locals', l2.count)) BY <1>5, <1>6, <1>8
    <3> HIDE DEF c, l
    <3>3. l2.count = l.count /\ l2.breaks \cup l2.continues \subseteq l.breaks \cup l.continues \cup {Here(c)}
      BY DEF c, l
    <3> QED BY <3>1, <3>2, <3>3
  <2> QED BY <2>3, <2>4
<1> HIDE DEF c, i, D
<1>10. \A k \in DOMAIN locals : k \in DOMAIN locals' => locals'[k].d = locals[k].d OBVIOUS
<1>11. \A k \in DOMAIN open' : k \in DOMAIN open /\ SameTie(open[k], open'[k]) BY SameTieIs
<1>12. Last(P2) = Full(locals') BY <1>5
<1> QED BY <1>7, <1>9, <1>10, <1>11, <1>12, LacesNext

(* A break keeps the labels: its jump knows what the loop knew where it    *)
(* began.                                                                  *)
LEMMA BreakLaces == ASSUME Now, Then, Laces, Break PROVE Laces'
<1> DEFINE c == chunk \o Pops(LoopPops, Height)
           l == Last(loopStack)
           l2 == [l EXCEPT !.breaks = @ \cup {Here(c)}]
<1>1. /\ open' = open /\ locals' = locals /\ loopStack # <<>>
      /\ chunk' = Append(c, Ins("JUMP", 0, 0, l.count))
      /\ loopStack' = SetLast(loopStack, l2)
  BY DEF Break
<1>2. l \in LoopRecord BY <1>1, LoopHere
<1>3. Here(c) \in Nat BY <1>1, PoppedToLoop DEF Made, Here
<1>4. PICK P : Laced(chunk, P, open, locals, loopStack) BY DEF Laces
<1> HIDE DEF c, l
<1>5. /\ l2 \in LoopRecord /\ l2.count = l.count
      /\ l2.breaks \cup l2.continues \subseteq l.breaks \cup l.continues \cup {Here(c)}
  BY <1>2, <1>3 DEF LoopRecord
<1> HIDE DEF l2
<1> QED BY <1>1, <1>4, <1>5, JumpLaces DEF c, l

(* A continue keeps the labels: its jump knows what the next iteration     *)
(* does.                                                                   *)
LEMMA ContinueLaces == ASSUME Now, Then, Laces, Continue PROVE Laces'
<1> DEFINE c == chunk \o Pops(LoopPops, Height)
           l == Last(loopStack)
           l2 == [l EXCEPT !.continues = @ \cup {Here(c)}]
           o == open[InnerLoop]
           i == Ins("LOOP", l.step, 0, l.count)
           D == Label(locals, l.count)
<1>1. /\ open' = open /\ locals' = locals /\ loopStack # <<>>
      /\ IF l.step = 0
           THEN /\ chunk' = Append(c, Ins("JUMP", 0, 0, l.count))
                /\ loopStack' = SetLast(loopStack, l2)
           ELSE /\ chunk' = Append(c, i) /\ UNCHANGED loopStack
  BY DEF Continue
<1>2. /\ l \in LoopRecord /\ LoopOK(o, l, locals) /\ IsLoop(o) /\ InnerLoop \in DOMAIN open
      /\ o.n + 1 = Len(loopStack) /\ l.count \in Nat
  BY <1>1, LoopHere
<1>3. Here(c) \in Nat BY <1>1, PoppedToLoop DEF Made, Here
<1>4. PICK P : Laced(chunk, P, open, locals, loopStack) BY DEF Laces
<1>5. CASE l.step = 0
  <2>1. chunk' = Append(c, Ins("JUMP", 0, 0, l.count)) /\ loopStack' = SetLast(loopStack, l2) BY <1>1, <1>5
  <2> HIDE DEF c, l
  <2>2. /\ l2 \in LoopRecord /\ l2.count = l.count
        /\ l2.breaks \cup l2.continues \subseteq l.breaks \cup l.continues \cup {Here(c)}
    BY <1>2, <1>3 DEF LoopRecord
  <2> HIDE DEF l2
  <2> QED BY <1>1, <1>4, <2>1, <2>2, JumpLaces DEF c, l
<1>6. CASE l.step # 0
  <2>1. o.kind \in {"while", "foreach"} /\ l.step = o.a BY <1>2, <1>6 DEF LoopOK
  <2>2. Back(P, l.step, D)
    <3>1. Tied(chunk, P, o, l, locals)
      <4>1. Tied(chunk, P, o, loopStack[o.n + 1], locals) BY <1>2, <1>4 DEF Laced
      <4> QED BY <1>2, <4>1 DEF Last
    <3> HIDE DEF o, l, D
    <3>2. CASE o.kind = "while" BY <1>2, <2>1, <3>1, <3>2 DEF Tied, LoopOK, D
    <3>3. CASE o.kind = "foreach" BY <2>1, <3>1, <3>3 DEF Tied, D
    <3> QED BY <2>1, <3>2, <3>3
  <2>3. D \in Seq(Nat) /\ Len(D) = l.count BY <1>1, <1>4, LoopPopped
  <2>4. PICK P1 : Carries(chunk, P, c, P1) /\ Knit(c, P1) /\ Last(P1) = D BY <1>1, <1>4, LoopPopped
  <2>5. chunk' = Append(c, i) /\ loopStack' = loopStack BY <1>1, <1>6
  <2>6. Knit(chunk, P) BY <1>4 DEF Laced
  <2>7. Back(P1, l.step, D) BY <2>2, <2>4, <2>6, BackOn
  <2>8. Full(locals) \in Seq(Nat) BY FullIs
  <2> HIDE DEF c, l, o, D
  <2>9. Calm(c, P1, {Len(c) + 1}, D, i)
    <3>1. Len(D) \in Nat /\ Len(D) <= l.count /\ 0 \in Nat BY <1>2, <2>3
    <3> QED BY <1>2, <2>4, <2>7, <3>1, CalmLoop
  <2>10. i.op = "LOOP" BY DEF Ins, InsIn
  <2> HIDE DEF i
  <2>11. PICK P2 : Carries(c, P1, Append(c, i), P2) /\ Last(P2) = Full(locals)
    <3>1. Calm(c, P1, {Len(c) + 1}, Last(P1), i) /\ i.op \in {"JUMP", "LOOP"} BY <2>4, <2>9, <2>10
    <3> QED BY <2>4, <2>8, <3>1, Leaps
  <2>12. Carries(chunk, P, chunk', P2) BY <2>4, <2>5, <2>6, <2>11, CarriesOn
  <2>13. Last(P2) = Full(locals') BY <1>1, <2>11
  <2>14. \A k \in DOMAIN open' : k \in DOMAIN open /\ SameTie(open[k], open'[k]) BY <1>1, SameTieIs
  <2> QED BY <1>1, <1>4, <2>5, <2>12, <2>13, <2>14, LacesNext
<1> QED BY <1>5, <1>6

----------------------------------------------------------------------------
(* Statements that begin.                                                  *)

(* A condition: the jump to be patched is its second instruction.          *)
LEMMA ConditionSewed ==
  ASSUME Now, NEW c, NEW P, Knit(c, P), NEW D \in Seq(Nat), Knows(Last(P), D),
         NEW h \in Nat, Len(D) <= h
  PROVE  \E P2 : /\ Carries(c, P, c \o Condition(h), P2) /\ Last(P2) = D
                 /\ Knit(c \o Condition(h), P2) /\ Len(c \o Condition(h)) = Len(c) + 3
                 /\ Hole(c \o Condition(h), P2, Len(c) + 2, D) /\ Back(P2, Len(c) + 1, D)
<1> DEFINE S == Calming(c, P, 3, D)
<1>1. Len(D) \in Nat /\ h + 1 \in Nat /\ Len(D) <= h + 1 /\ Len(c) \in Nat BY KnitIs
<1>2. /\ Ins("CONSTANT", 0, 0, h) \in S /\ Ins("JUMP_IF_FALSE", 0, 0, h + 1) \in S
      /\ Ins("POP", 0, 0, h + 1) \in S
  <2>1. "CONSTANT" \in Placid /\ "JUMP_IF_FALSE" \in Placid /\ "POP" \in Placid BY DEF Placid
  <2> QED BY <1>1, <2>1, QuietAt
<1> HIDE DEF S
<1>3. Condition(h) \in Seq(S) /\ Len(Condition(h)) = 3 /\ Condition(h)[2] = Ins("JUMP_IF_FALSE", 0, 0, h + 1)
  BY <1>2, Tuple3 DEF Condition
<1>4. Condition(h)[2].op \in Targeted BY <1>3 DEF Ins, InsIn, Targeted, Branches
<1> DEFINE t == Condition(h)
<1> HIDE DEF t
<1>5. PICK P2 : /\ Carries(c, P, c \o t, P2) /\ Last(P2) = D /\ Len(c \o t) = Len(c) + 3
                /\ Knit(c \o t, P2)
                /\ \A k \in 1..3 : t[k].op \in Targeted => Hole(c \o t, P2, Len(c) + k, D)
                /\ \A q \in Block(c, 3) : Back(P2, q, D)
  BY <1>3, Sewed DEF S, t
<1>6. Len(c) + 1 \in Block(c, 3)
  <2> DEFINE k == Len(c)
  <2>1. k \in Nat BY <1>1
  <2> HIDE DEF k
  <2>2. k + 1 \in (k + 1)..(k + 3 + 1) BY <2>1
  <2> QED BY <2>2 DEF Block, k
<1>7. 2 \in 1..3 OBVIOUS
<1> QED BY <1>4, <1>5, <1>6, <1>7 DEF t

(* An if that opens keeps the labels. *)
LEMMA IfOpenLaces == ASSUME Now, Then, Laces, IfOpen PROVE Laces'
<1> DEFINE o2 == Activation("if", "then", 0, 0, Len(chunk) + 2)
           D == Full(locals)
<1>1. PICK P : Laced(chunk, P, open, locals, loopStack) BY DEF Laces
<1>2. /\ chunk' = chunk \o Condition(Height) /\ open' = Append(open, o2)
      /\ locals' = locals /\ loopStack' = loopStack
  BY DEF IfOpen
<1>3. D \in Seq(Nat) /\ Len(D) = Height /\ Height \in Nat /\ Height <= Height BY FullIs
<1>4. Knit(chunk, P) /\ Last(P) = D BY <1>1 DEF Laced
<1>5. Fresh(o2, "if", "then", 0, 0, Len(chunk) + 2)
  <2>1. Len(chunk) + 2 \in Nat /\ 0 \in Nat /\ "if" \in Kinded /\ "then" \in Armed
    BY NowIs DEF Kinded, Armed
  <2> QED BY <2>1, ActivationIs
<1> HIDE DEF D, o2
<1>6. PICK P2 : /\ Carries(chunk, P, chunk', P2) /\ Last(P2) = D
                /\ Hole(chunk', P2, Len(chunk) + 2, D)
  BY <1>2, <1>3, <1>4, KnowsSelf, ConditionSewed
<1>7. Tied(chunk', P2, o2, loopStack'[o2.n + 1], locals')
  <2>1. Label(locals', o2.h) = D /\ o2.j = Len(chunk) + 2 /\ o2.jumps = {} /\ o2.kind = "if"
    BY <1>2, <1>5 DEF Fresh, D, Full, Height
  <2> QED BY <1>6, <2>1 DEF Tied, IsLoop, LoopKinds
<1>8. Last(P2) = Full(locals') BY <1>2, <1>6 DEF D
<1>9. o2 \in Statement BY <1>5 DEF Fresh
<1> QED BY <1>1, <1>2, <1>6, <1>7, <1>8, <1>9, LacesOpened

(* One may go back to the end of the code. *)
LEMMA HereBack == ASSUME NEW c, NEW P, Knit(c, P) PROVE Back(P, Len(c) + 1, Last(P))
<1>1. Len(c) + 1 \in DOMAIN P /\ Last(P) = P[Len(c) + 1] BY KnitIs
<1> QED BY <1>1, KnowsSelf DEF Back

(* A loop just registered has no jumps to patch. *)
LEMMA LoopIsNew ==
  ASSUME NEW step \in Nat, NEW count \in Nat, NEW each \in BOOLEAN, NEW iter \in Nat
  PROVE  /\ Loop(step, count, each, iter) \in LoopRecord /\ Loop(step, count, each, iter).count = count
         /\ Loop(step, count, each, iter).breaks = {} /\ Loop(step, count, each, iter).continues = {}
BY DEF Loop, LoopRecord

(* The loop that was registered last. *)
LEMMA LoopAdded ==
  ASSUME Now, NEW l \in LoopRecord
  PROVE  Append(loopStack, l)[Len(loopStack) + 1] = l
<1>1. loopStack \in Seq(LoopRecord) BY NowIs
<1> QED BY <1>1

(* A do-while that opens keeps the labels. *)
LEMMA DoOpenLaces == ASSUME Now, Then, Laces, DoOpen PROVE Laces'
<1> DEFINE o2 == Activation("do", "body", Here(chunk), 0, 0)
           l == Loop(0, Height, FALSE, 0)
           D == Full(locals)
<1>1. PICK P : Laced(chunk, P, open, locals, loopStack) BY DEF Laces
<1>2. /\ chunk' = chunk /\ open' = Append(open, o2)
      /\ locals' = locals /\ loopStack' = Append(loopStack, l)
  BY DEF DoOpen
<1>3. Knit(chunk, P) /\ Last(P) = D BY <1>1 DEF Laced
<1>4. Fresh(o2, "do", "body", Here(chunk), 0, 0)
  <2>1. Here(chunk) \in Nat /\ 0 \in Nat /\ "do" \in Kinded /\ "body" \in Armed
    BY NowIs DEF Kinded, Armed, LoopKinds, Here
  <2> QED BY <2>1, ActivationIs
<1>5. l \in LoopRecord /\ l.breaks = {} /\ l.continues = {} BY NowIs, LoopIsNew
<1> HIDE DEF D, o2, l
<1>6. Carries(chunk, P, chunk', P) BY <1>2, <1>3, CarriesIs
<1>7. Tied(chunk', P, o2, loopStack'[o2.n + 1], locals')
  <2>1. Label(locals', o2.h) = D /\ o2.a = Len(chunk) + 1 /\ o2.kind = "do" /\ o2.n = Len(loopStack)
    BY <1>2, <1>4 DEF Fresh, D, Full, Height, Here
  <2>2. loopStack'[o2.n + 1] = l BY <1>2, <1>5, <2>1, LoopAdded
  <2>3. Back(P, o2.a, D) BY <1>3, <2>1, HereBack
  <2> QED BY <1>5, <2>1, <2>2, <2>3 DEF Tied
<1>8. Last(P) = Full(locals') BY <1>2, <1>3 DEF D
<1>9. o2 \in Statement BY <1>4 DEF Fresh
<1> QED BY <1>1, <1>2, <1>5, <1>6, <1>7, <1>8, <1>9, LacesOpened

(* A while that opens keeps the labels. *)
LEMMA WhileOpenLaces == ASSUME Now, Then, Laces, WhileOpen PROVE Laces'
<1> DEFINE start == Here(chunk)
           l == Loop(start, Height, FALSE, 0)
           D == Full(locals)
<1>1. PICK P : Laced(chunk, P, open, locals, loopStack) BY DEF Laces
<1>2. locals' = locals /\ loopStack' = Append(loopStack, l) BY DEF WhileOpen
<1>3. Knit(chunk, P) /\ Last(P) = D BY <1>1 DEF Laced
<1>4. /\ D \in Seq(Nat) /\ Len(D) = Height /\ Height \in Nat /\ Height <= Height /\ Len(chunk) \in Nat
      /\ start = Len(chunk) + 1 /\ start \in Nat /\ start + 1 = Len(chunk) + 2 /\ start + 1 \in Nat
  BY FullIs, NowIs DEF Here
<1>5. l \in LoopRecord /\ l.breaks = {} /\ l.continues = {} BY <1>4, LoopIsNew
<1>6. "while" \in Kinded /\ "cond" \in Armed /\ "lt" \in Armed /\ 0 \in Nat BY DEF Kinded, Armed, LoopKinds
<1> HIDE DEF D, l, start
<1>7. ASSUME NEW arm, NEW j, NEW o2, open' = Append(open, o2), Fresh(o2, "while", arm, start, 0, j),
             NEW P2, Carries(chunk, P, chunk', P2), Last(P2) = D,
             Back(P2, start, D), Hole(chunk', P2, j, D)
      PROVE  Laces'
  <2>1. /\ Label(locals', o2.h) = D /\ o2.a = start /\ o2.kind = "while" /\ o2.n = Len(loopStack)
        /\ o2.j = j /\ o2 \in Statement
    BY <1>2, <1>7 DEF Fresh, D, Full, Height
  <2>2. loopStack'[o2.n + 1] = l BY <1>2, <1>5, <2>1, LoopAdded
  <2>3. Tied(chunk', P2, o2, loopStack'[o2.n + 1], locals') BY <1>5, <1>7, <2>1, <2>2 DEF Tied
  <2>4. Last(P2) = Full(locals') BY <1>2, <1>7 DEF D
  <2> QED BY <1>1, <1>2, <1>5, <1>7, <2>1, <2>3, <2>4, LacesOpened
<1>8. CASE /\ chunk' = chunk \o Condition(Height)
           /\ open' = Append(open, Activation("while", "cond", start, 0, start + 1))
  <2>1. Fresh(Activation("while", "cond", start, 0, start + 1), "while", "cond", start, 0, start + 1)
    BY <1>4, <1>6, ActivationIs
  <2>2. PICK P2 : /\ Carries(chunk, P, chunk', P2) /\ Last(P2) = D
                  /\ Hole(chunk', P2, Len(chunk) + 2, D) /\ Back(P2, Len(chunk) + 1, D)
    BY <1>3, <1>4, <1>8, KnowsSelf, ConditionSewed
  <2> QED BY <1>4, <1>7, <1>8, <2>1, <2>2
<1>9. CASE /\ \E i \in DOMAIN locals :
                chunk' = Append(chunk, Ins("JUMP_IF_NOT_LT", 0, i - 1, Height))
           /\ open' = Append(open, Activation("while", "lt", start, 0, start))
  <2>0. PICK i \in DOMAIN locals : chunk' = Append(chunk, Ins("JUMP_IF_NOT_LT", 0, i - 1, Height)) BY <1>9
  <2> DEFINE y == i - 1
             q == Ins("JUMP_IF_NOT_LT", 0, y, Height)
  <2>1. y \in Nat
    <3>1. DOMAIN locals = 1..Height BY NowIs
    <3> QED BY <1>4, <2>0, <3>1
  <2>2. Handled(chunk, P, D, Ctx) /\ Ctx \in Context /\ {} \in SUBSET ErrTypes /\ 0 \in Nat
    BY <1>1, HandledHere, NowIs DEF D
  <2> HIDE DEF y
  <2>3. q \in Calming(chunk, P, 1, D)
    <3>1. /\ "JUMP_IF_NOT_LT" \in Ops /\ Spare("JUMP_IF_NOT_LT") = 0
          /\ "JUMP_IF_NOT_LT" \notin {"TRY_ENTER", "SET_LOCAL", "GET_LOCAL", "SKIP_ITER"}
      BY DEF Ops, Branches, Spare
    <3>2. Len(D) + Spare("JUMP_IF_NOT_LT") <= Height BY <1>4, <3>1
    <3> QED BY <1>4, <2>1, <2>2, <3>1, <3>2, CalmIns DEF Ins
  <2>4. q.op \in Targeted BY DEF Ins, InsIn, Targeted, Branches
  <2>5. Fresh(Activation("while", "lt", start, 0, start), "while", "lt", start, 0, start)
    BY <1>4, <1>6, ActivationIs
  <2>6. chunk' = Append(chunk, q) BY <2>0 DEF y
  <2> HIDE DEF q
  <2>7. PICK P2 : /\ Carries(chunk, P, chunk', P2) /\ Last(P2) = D
                  /\ Hole(chunk', P2, Len(chunk) + 1, D) /\ Back(P2, Len(chunk) + 1, D)
    BY <1>3, <1>4, <2>3, <2>4, <2>6, KnowsSelf, SewedOne
  <2> QED BY <1>4, <1>7, <1>9, <2>5, <2>7
<1> QED BY <1>8, <1>9 DEF WhileOpen, start

(* A try that opens keeps the labels. *)
LEMMA TryOpenLaces == ASSUME Now, Then, Laces, TryOpen PROVE Laces'
<1> DEFINE at == Here(chunk)
           D == Full(locals)
           i == Ins("TRY_ENTER", 0, 0, Height)
<1>1. PICK P : Laced(chunk, P, open, locals, loopStack) BY DEF Laces
<1>2. /\ chunk' = Append(chunk, i) /\ locals' = locals /\ loopStack' = loopStack
  BY DEF TryOpen
<1>3. PICK fin, ctx : open' = Append(open, [Activation("try", "body", at, 0, 0) EXCEPT !.fin = fin, !.ctx = ctx])
  BY DEF TryOpen
<1>4. Knit(chunk, P) /\ Last(P) = D BY <1>1 DEF Laced
<1>5. /\ D \in Seq(Nat) /\ Len(D) = Height /\ Height \in Nat /\ Height <= Height /\ at = Len(chunk) + 1
      /\ open \in Seq(Statement) /\ Len(chunk) \in Nat /\ at \in Nat
  BY FullIs, NowIs DEF Here
<1>6. Fresh(Activation("try", "body", at, 0, 0), "try", "body", at, 0, 0)
  <2>1. "try" \in Kinded /\ "body" \in Armed /\ 0 \in Nat BY DEF Kinded, Armed
  <2> QED BY <1>5, <2>1, ActivationIs
<1> DEFINE o2 == [Activation("try", "body", at, 0, 0) EXCEPT !.fin = fin, !.ctx = ctx]
<1>7. /\ o2.kind = "try" /\ o2.arm = "body" /\ o2.a = at /\ o2.h = Height
  BY DEF Activation
<1>8. o2 \in Statement
  <2>1. open' \in Seq(Statement) BY WorkingIs DEF Then
  <2>2. Append(open, o2) \in Seq(Statement) BY <1>3, <2>1
  <2> HIDE DEF o2
  <2>3. Len(Append(open, o2)) = Len(open) + 1 /\ Len(open) \in Nat BY <1>5
  <2>4. Len(open) + 1 \in DOMAIN Append(open, o2) BY <2>2, <2>3
  <2>5. Append(open, o2)[Len(open) + 1] = o2 BY <1>5
  <2> QED BY <2>2, <2>4, <2>5
<1>9. i \in Calming(chunk, P, 1, D) /\ i.op \in Targeted
  <2>1. "TRY_ENTER" \in Placid BY DEF Placid
  <2>2. i.op \in Targeted BY DEF Ins, InsIn, Targeted
  <2> HIDE DEF D
  <2> QED BY <1>5, <2>1, <2>2, QuietAt
<1> HIDE DEF D, o2, i
<1>10. PICK P2 : /\ Carries(chunk, P, chunk', P2) /\ Last(P2) = D
                 /\ Hole(chunk', P2, Len(chunk) + 1, D) /\ Back(P2, Len(chunk) + 1, D)
  BY <1>2, <1>4, <1>5, <1>9, KnowsSelf, SewedOne
<1>11. Tied(chunk', P2, o2, loopStack'[o2.n + 1], locals')
  <2>1. Label(locals', o2.h) = D BY <1>2, <1>7 DEF D, Full, Height
  <2> QED BY <1>5, <1>7, <1>10, <2>1 DEF Tied, IsLoop, LoopKinds
<1>12. Last(P2) = Full(locals') BY <1>2, <1>10 DEF D
<1>13. open' = Append(open, o2) BY <1>3 DEF o2
<1> QED BY <1>1, <1>2, <1>8, <1>10, <1>11, <1>12, <1>13, LacesOpened

(* A constant that becomes a local of the compiler.                        *)
LEMMA ConstantDeclared ==
  ASSUME Now, NEW P, Laced(chunk, P, open, locals, loopStack), NEW named \in BOOLEAN, NEW d \in Nat
  PROVE  LET c == Append(chunk, Ins("CONSTANT", 0, 0, Height))
             ls == addLocal(locals, d, Here(chunk), named) IN
         \E P1 : /\ Carries(chunk, P, c, P1) /\ Last(P1) = Full(ls) /\ Knit(c, P1)
                 /\ Len(c) = Len(chunk) + 1
                 /\ Back(P1, Len(chunk) + 1, Full(locals))
                 /\ ls \in Seq(Local) /\ Len(ls) = Height + 1
                 /\ \A k \in DOMAIN locals : k \in DOMAIN ls /\ ls[k].d = locals[k].d
                 /\ Knows(Full(ls), Full(locals))
<1> DEFINE i == Ins("CONSTANT", 0, 0, Height)
           l == [depth |-> d, d |-> Here(chunk), named |-> named]
           D == Full(locals)
<1>1. /\ Knit(chunk, P) /\ Last(P) = D /\ locals \in Seq(Local) /\ Height = Len(locals)
      /\ Len(chunk) \in Nat /\ Len(D) = Height /\ Height \in Nat /\ Height <= Height
  BY NowIs, FullIs DEF Laced
<1>2. l \in Local /\ l.d = Len(chunk) + 1 BY <1>1 DEF Local, Here
<1>3. i.op \in Pushing \ {"FOR_ITER"} /\ i.h = Height BY DEF Ins, InsIn, Pushing
<1>4. i \in Calming(chunk, P, 1, D)
  <2>1. "CONSTANT" \in Placid BY DEF Placid
  <2> HIDE DEF D
  <2> QED BY <1>1, <2>1, QuietAt
<1>5. addLocal(locals, d, Here(chunk), named) = Append(locals, l) BY DEF addLocal
<1> HIDE DEF i, l, D
<1>6. PICK P1 : /\ Carries(chunk, P, Append(chunk, i), P1) /\ Last(P1) = Full(Append(locals, l))
                /\ Knit(Append(chunk, i), P1) /\ Len(Append(chunk, i)) = Len(chunk) + 1
                /\ P1[Len(chunk) + 1] = Full(locals)
                /\ Append(locals, l) \in Seq(Local) /\ Len(Append(locals, l)) = Len(locals) + 1
                /\ \A k \in DOMAIN locals :
                     k \in DOMAIN Append(locals, l) /\ Append(locals, l)[k].d = locals[k].d
                /\ Knows(Full(Append(locals, l)), Full(locals))
  BY <1>1, <1>2, <1>3, <1>4, Declares DEF D
<1>7. Back(P1, Len(chunk) + 1, Full(locals))
  <2>1. DOMAIN P1 = 1..(Len(Append(chunk, i)) + 1) BY <1>6, KnitIs
  <2>2. Len(chunk) + 1 \in DOMAIN P1 BY <1>1, <1>6, <2>1
  <2> QED BY <1>6, <2>2, KnowsSelf DEF Back
<1> QED BY <1>1, <1>5, <1>6, <1>7 DEF i

(* A for that opens keeps the labels. *)
LEMMA ForOpenLaces == ASSUME Now, Then, Laces, ForOpen PROVE Laces'
<1>1. PICK P : Laced(chunk, P, open, locals, loopStack) BY DEF Laces
<1>2. PICK init \in BOOLEAN, cond \in BOOLEAN :
       LET ls   == IF init THEN addLocal(locals, scopeDepth + 1, Here(chunk), TRUE)
                   ELSE locals
           c    == IF init THEN Append(chunk, Ins("CONSTANT", 0, 0, Height)) ELSE chunk
           h    == Len(ls)
           exit == IF cond THEN Here(c) + 1 ELSE 0
       IN  /\ chunk' = IF cond THEN c \o Condition(h) ELSE c
           /\ locals' = ls
           /\ loopStack' = Append(loopStack, Loop(0, h, FALSE, 0))
           /\ open' = Append(open, Activation("for", "body", Here(c), 0, exit))
  BY DEF ForOpen
<1> DEFINE ls   == IF init THEN addLocal(locals, scopeDepth + 1, Here(chunk), TRUE)
                   ELSE locals
           c    == IF init THEN Append(chunk, Ins("CONSTANT", 0, 0, Height)) ELSE chunk
           h    == Len(ls)
           exit == IF cond THEN Here(c) + 1 ELSE 0
           c2   == IF cond THEN c \o Condition(h) ELSE c
           l    == Loop(0, h, FALSE, 0)
           o    == Activation("for", "body", Here(c), 0, exit)
           D    == Full(ls)
<1>3. chunk' = c2 /\ locals' = ls /\ loopStack' = Append(loopStack, l) /\ open' = Append(open, o)
  BY <1>2
<1>4. Knit(chunk, P) /\ Last(P) = Full(locals) /\ scopeDepth + 1 \in Nat /\ locals \in Seq(Local)
  BY <1>1, NowIs DEF Laced
<1>5. /\ ls \in Seq(Local) /\ \A k \in DOMAIN locals : k \in DOMAIN ls /\ ls[k].d = locals[k].d
      /\ \E P1 : Carries(chunk, P, c, P1) /\ Last(P1) = D /\ Knit(c, P1)
  <2>1. CASE init
    <3> DEFINE e == Append(chunk, Ins("CONSTANT", 0, 0, Height))
               k == addLocal(locals, scopeDepth + 1, Here(chunk), TRUE)
    <3>1. \E P1 : /\ Carries(chunk, P, e, P1) /\ Last(P1) = Full(k) /\ Knit(e, P1)
                  /\ k \in Seq(Local) /\ \A q \in DOMAIN locals : q \in DOMAIN k /\ k[q].d = locals[q].d
      BY <1>1, <1>4, ConstantDeclared
    <3>2. c = e /\ ls = k BY <2>1
    <3> HIDE DEF e, k, c, ls
    <3> QED BY <3>1, <3>2
  <2>2. CASE ~init
    <3>1. c = chunk /\ ls = locals BY <2>2
    <3> HIDE DEF c, ls
    <3> QED BY <1>4, <3>1, CarriesIs
  <2> QED BY <2>1, <2>2
<1>6. PICK P1 : Carries(chunk, P, c, P1) /\ Last(P1) = D /\ Knit(c, P1) BY <1>5
<1>7. D \in Seq(Nat) /\ Len(D) = h /\ h \in Nat /\ h <= h /\ D = Label(ls, h)
  <2> HIDE DEF ls
  <2>1. Len(ls) \in Nat /\ Len(ls) <= Len(ls) BY <1>5
  <2> QED BY <1>5, <2>1, LabelIs DEF Full
<1> HIDE DEF ls, c, h, D
<1>8. Len(c) \in Nat /\ Here(c) \in Nat /\ Here(c) = Len(c) + 1 BY <1>6, KnitIs DEF Here
<1>9. exit \in Nat /\ \E P2 : /\ Carries(c, P1, c2, P2) /\ Last(P2) = D /\ Back(P2, Here(c), D)
                              /\ exit # 0 => Hole(c2, P2, exit, D)
  <2>1. CASE cond
    <3>1. \E P2 : /\ Carries(c, P1, c \o Condition(h), P2) /\ Last(P2) = D
                  /\ Hole(c \o Condition(h), P2, Len(c) + 2, D) /\ Back(P2, Len(c) + 1, D)
      BY <1>6, <1>7, KnowsSelf, ConditionSewed
    <3>2. c2 = c \o Condition(h) /\ exit = Len(c) + 2 /\ exit \in Nat BY <1>8, <2>1
    <3> HIDE DEF c2, exit
    <3> QED BY <1>8, <3>1, <3>2
  <2>2. CASE ~cond
    <3>1. c2 = c /\ exit = 0 BY <2>2
    <3>2. Back(P1, Here(c), D) BY <1>6, <1>8, HereBack
    <3>3. Carries(c, P1, c, P1) BY <1>6, CarriesIs
    <3> HIDE DEF c2, exit
    <3> QED BY <1>6, <3>1, <3>2, <3>3
  <2> QED BY <2>1, <2>2
<1> HIDE DEF c2, exit
<1>10. PICK P2 : /\ Carries(c, P1, c2, P2) /\ Last(P2) = D /\ Back(P2, Here(c), D)
                 /\ exit # 0 => Hole(c2, P2, exit, D)
  BY <1>9
<1>11. Fresh(o, "for", "body", Here(c), 0, exit)
  <2>1. "for" \in Kinded /\ "body" \in Armed /\ 0 \in Nat BY DEF Kinded, Armed, LoopKinds
  <2> QED BY <1>8, <1>9, <2>1, ActivationIs
<1>12. l \in LoopRecord /\ l.count = h /\ l.breaks = {} /\ l.continues = {}
  BY <1>7 DEF Loop, LoopRecord
<1> HIDE DEF o, l
<1>13. Carries(chunk, P, chunk', P2) BY <1>3, <1>4, <1>6, <1>10, CarriesOn
<1>14. Tied(chunk', P2, o, loopStack'[o.n + 1], locals')
  <2>1. o.kind = "for" /\ o.a = Here(c) /\ o.j = exit /\ o.n = Len(loopStack) BY <1>11 DEF Fresh
  <2>2. loopStack'[o.n + 1] = l BY <1>3, <1>12, <2>1, LoopAdded
  <2>3. Label(locals', l.count) = D BY <1>3, <1>7, <1>12
  <2> QED BY <1>3, <1>10, <1>12, <2>1, <2>2, <2>3 DEF Tied
<1>15. Last(P2) = Full(locals') BY <1>3, <1>10 DEF D
<1>16. o \in Statement BY <1>11 DEF Fresh
<1>17. \A k \in DOMAIN locals : k \in DOMAIN locals' => locals'[k].d = locals[k].d BY <1>3, <1>5
<1> QED BY <1>1, <1>3, <1>12, <1>13, <1>14, <1>15, <1>16, <1>17, LacesOpened

(* The comparison of a case: the jump to be patched is its fourth.         *)
LEMMA CaseSewed ==
  ASSUME Now, NEW c, NEW P, Knit(c, P), NEW D \in Seq(Nat), Knows(Last(P), D),
         NEW h \in Nat \ {0}, Len(D) <= h
  PROVE  \E P2 : /\ Carries(c, P, Case(c, h), P2) /\ Last(P2) = D
                 /\ Knit(Case(c, h), P2) /\ Hole(Case(c, h), P2, Len(c) + 4, D)
<1> DEFINE S == Calming(c, P, 5, D)
           t == <<Ins("GET_LOCAL", 0, h - 1, h), Ins("CONSTANT", 0, 0, h + 1),
                  Ins("POP2_PUSH", 0, 0, h + 2), Ins("JUMP_IF_FALSE", 0, 0, h + 1),
                  Ins("POP", 0, 0, h + 1)>>
<1>1. /\ Len(D) \in Nat /\ h + 1 \in Nat /\ Len(D) <= h + 1 /\ h + 2 \in Nat /\ Len(D) + 2 <= h + 2
      /\ h - 1 \in Nat /\ Len(c) \in Nat
  BY KnitIs
<1>2. Ctx \in Context /\ {} \in SUBSET ErrTypes /\ 0 \in Nat BY NowIs
<1>3. /\ Ins("CONSTANT", 0, 0, h + 1) \in S /\ Ins("JUMP_IF_FALSE", 0, 0, h + 1) \in S
      /\ Ins("POP", 0, 0, h + 1) \in S
  <2>1. "CONSTANT" \in Placid /\ "JUMP_IF_FALSE" \in Placid /\ "POP" \in Placid BY DEF Placid
  <2> QED BY <1>1, <2>1, QuietAt
<1>4. Ins("GET_LOCAL", 0, h - 1, h) \in S
  <2>1. "GET_LOCAL" \in Placid /\ "GET_LOCAL" # "TRY_ENTER" BY DEF Placid
  <2> QED BY <1>1, <1>2, <2>1, CalmQuiet DEF Ins
<1>5. Ins("POP2_PUSH", 0, 0, h + 2) \in S
  <2>1. /\ "POP2_PUSH" \in Ops /\ "POP2_PUSH" \notin Branches /\ Spare("POP2_PUSH") = 2
        /\ "POP2_PUSH" \notin Fallible \cup {"RETURN"}
    BY FalliblesAre
  <2>2. Len(D) + Spare("POP2_PUSH") <= h + 2 BY <1>1, <2>1
  <2> QED BY <1>1, <1>2, <2>1, <2>2, CalmIns DEF Ins
<1> HIDE DEF S
<1>6. t \in Seq(S) /\ Len(t) = 5 BY <1>3, <1>4, <1>5, Tuple5
<1>7. t[4].op \in Targeted
  <2>1. t[4] = Ins("JUMP_IF_FALSE", 0, 0, h + 1) OBVIOUS
  <2> QED BY <2>1 DEF Ins, InsIn, Targeted, Branches
<1>8. Case(c, h) = c \o t BY DEF Case
<1> HIDE DEF t
<1>9. PICK P2 : /\ Carries(c, P, c \o t, P2) /\ Last(P2) = D /\ Knit(c \o t, P2)
                /\ \A k \in 1..5 : t[k].op \in Targeted => Hole(c \o t, P2, Len(c) + k, D)
  BY <1>6, Sewed DEF S
<1>10. 4 \in 1..5 OBVIOUS
<1> QED BY <1>7, <1>8, <1>9, <1>10

(* A switch that opens keeps the labels. *)
LEMMA SwitchOpenLaces == ASSUME Now, Then, Laces, SwitchOpen PROVE Laces'
<1>1. PICK P : Laced(chunk, P, open, locals, loopStack) BY DEF Laces
<1> DEFINE c == Append(chunk, Ins("CONSTANT", 0, 0, Height))
           ls == addLocal(locals, scopeDepth + 1, Here(chunk), FALSE)
           h == Height + 1
           l == Loop(0, h, FALSE, 0)
           o == Activation("switch", "case", Here(chunk), 0, Len(c) + 4)
           D == Full(ls)
<1>2. /\ locals' = ls /\ chunk' = Case(c, h) /\ loopStack' = Append(loopStack, l)
      /\ open' = Append(open, o)
  BY DEF SwitchOpen
<1>3. /\ Knit(chunk, P) /\ scopeDepth + 1 \in Nat /\ Height \in Nat /\ h \in Nat /\ h \in Nat \ {0}
      /\ Here(chunk) = Len(chunk) + 1 /\ Here(chunk) \in Nat /\ h <= h /\ Height = Len(locals)
  BY <1>1, NowIs DEF Laced, Here
<1>4. PICK P1 : /\ Carries(chunk, P, c, P1) /\ Last(P1) = D /\ Knit(c, P1)
                /\ Back(P1, Len(chunk) + 1, Full(locals))
                /\ ls \in Seq(Local) /\ Len(ls) = h
                /\ \A k \in DOMAIN locals : k \in DOMAIN ls /\ ls[k].d = locals[k].d
  BY <1>1, <1>3, ConstantDeclared
<1> HIDE DEF c, ls, D
<1>5. D \in Seq(Nat) /\ Len(D) = h /\ D = Label(ls, h) BY <1>3, <1>4, LabelIs DEF D, Full
<1>6. Len(c) + 4 \in Nat BY <1>4, KnitIs
<1> HIDE DEF h
<1>7. PICK P2 : /\ Carries(c, P1, Case(c, h), P2) /\ Last(P2) = D
                /\ Hole(Case(c, h), P2, Len(c) + 4, D)
  <2>1. Knows(Last(P1), D) /\ Len(D) <= h BY <1>3, <1>4, <1>5, KnowsSelf
  <2> QED BY <1>3, <1>4, <1>5, <2>1, CaseSewed
<1>8. Carries(chunk, P, chunk', P2) BY <1>2, <1>3, <1>4, <1>7, CarriesOn
<1>9. Fresh(o, "switch", "case", Here(chunk), 0, Len(c) + 4)
  <2>1. "switch" \in Kinded /\ "case" \in Armed /\ 0 \in Nat BY DEF Kinded, Armed, LoopKinds
  <2> QED BY <1>3, <1>6, <2>1, ActivationIs
<1>10. l \in LoopRecord /\ l.count = h /\ l.breaks = {} /\ l.continues = {}
  BY <1>3 DEF Loop, LoopRecord
<1> HIDE DEF o, l
<1>11. Tied(chunk', P2, o, loopStack'[o.n + 1], locals')
  <2>1. /\ o.kind = "switch" /\ o.a = Len(chunk) + 1 /\ o.j = Len(c) + 4 /\ o.n = Len(loopStack)
        /\ o.h = Height
    BY <1>3, <1>9 DEF Fresh
  <2>2. loopStack'[o.n + 1] = l BY <1>2, <1>10, <2>1, LoopAdded
  <2>3. Label(locals', l.count) = D BY <1>2, <1>5, <1>10
  <2>4. Label(locals', o.h) = Full(locals)
    <3>1. \A k \in 1..Height : ls[k].d = locals[k].d
      <4>1. DOMAIN locals = 1..Height BY NowIs
      <4> QED BY <1>4, <4>1
    <3> QED BY <1>2, <1>3, <2>1, <3>1, LabelSame DEF Full
  <2>5. Back(P2, o.a, Full(locals)) BY <1>4, <1>7, <2>1, BackOn
  <2> QED BY <1>2, <1>7, <1>10, <2>1, <2>2, <2>3, <2>4, <2>5 DEF Tied
<1>12. Last(P2) = Full(locals') BY <1>2, <1>7 DEF D
<1>13. o \in Statement BY <1>9 DEF Fresh
<1>14. \A k \in DOMAIN locals : k \in DOMAIN locals' => locals'[k].d = locals[k].d BY <1>2, <1>4
<1> QED BY <1>1, <1>2, <1>8, <1>10, <1>11, <1>12, <1>13, <1>14, LacesOpened

(* A handler stays reachable when code is emitted, from where more is      *)
(* known too.                                                              *)
LEMMA HandledOn ==
  ASSUME NEW c, NEW P, Knit(c, P), NEW c2, NEW P2, Carries(c, P, c2, P2), NEW D, NEW E, Knows(E, D),
         NEW ctx, Handled(c, P, D, ctx)
  PROVE  Handled(c2, P2, E, ctx)
<1> SUFFICES ASSUME ctx.hs # <<>> PROVE Top(ctx.hs) \in DOMAIN c2 /\ Knows(E, P2[Top(ctx.hs)])
  BY DEF Handled
<1>1. Top(ctx.hs) \in DOMAIN c /\ Knows(D, P[Top(ctx.hs)]) BY DEF Handled
<1>2. /\ Knit(c2, P2) /\ Len(c) <= Len(c2) /\ \A p \in DOMAIN c : P2[p] = P[p] BY DEF Carries
<1>3. DOMAIN c = 1..Len(c) /\ DOMAIN c2 = 1..Len(c2) /\ Len(c) \in Nat /\ Len(c2) \in Nat
  BY <1>2, KnitIs
<1>4. DOMAIN c \subseteq DOMAIN c2 BY <1>2, <1>3
<1> QED BY <1>1, <1>2, <1>4, KnowsOn

(* A stream of a for-each loop becomes a local.                            *)
LEMMA NativeDeclared ==
  ASSUME Now, NEW c, NEW P, Knit(c, P), NEW ls \in Seq(Local), Last(P) = Full(ls),
         Handled(c, P, Full(ls), Ctx), NEW l \in Local, l.d = Len(c) + 1,
         NEW h, h = Len(ls)
  PROVE  LET c2 == Append(c, Ins("NATIVE", 0, 0, h))
             ls2 == Append(ls, l) IN
         \E P2 : /\ Carries(c, P, c2, P2) /\ Last(P2) = Full(ls2) /\ Knit(c2, P2) /\ Len(c2) = Len(c) + 1
                 /\ ls2 \in Seq(Local) /\ Len(ls2) = h + 1
                 /\ \A k \in DOMAIN ls : k \in DOMAIN ls2 /\ ls2[k].d = ls[k].d
                 /\ Handled(c2, P2, Full(ls2), Ctx)
<1> DEFINE i == Ins("NATIVE", 0, 0, h)
           D == Full(ls)
<1>1. Len(D) = h /\ h \in Nat /\ h <= h /\ Ctx \in Context /\ {} \in SUBSET ErrTypes
  <2>1. Len(ls) \in Nat /\ Len(ls) <= Len(ls) OBVIOUS
  <2> QED BY <2>1, LabelIs, NowIs DEF Full
<1>2. i.op \in Pushing \ {"FOR_ITER"} /\ i.h = h BY DEF Ins, InsIn, Pushing
<1>3. i \in Calming(c, P, 1, D)
  <2> HIDE DEF D
  <2>1. Handled(c, P, D, Ctx) BY DEF D
  <2> QED BY <1>1, <2>1, CalmFailing DEF Ins
<1> HIDE DEF i, D
<1>4. PICK P2 : /\ Carries(c, P, Append(c, i), P2) /\ Last(P2) = Full(Append(ls, l))
                /\ Knit(Append(c, i), P2) /\ Len(Append(c, i)) = Len(c) + 1
                /\ Append(ls, l) \in Seq(Local) /\ Len(Append(ls, l)) = Len(ls) + 1
                /\ \A k \in DOMAIN ls : k \in DOMAIN Append(ls, l) /\ Append(ls, l)[k].d = ls[k].d
                /\ Knows(Full(Append(ls, l)), Full(ls))
  BY <1>2, <1>3, Declares DEF D
<1>5. Handled(Append(c, i), P2, Full(Append(ls, l)), Ctx) BY <1>4, HandledOn
<1> QED BY <1>4, <1>5 DEF i

(* One or two instructions appended one after the other. *)
LEMMA OneOrTwo ==
  ASSUME NEW S, NEW c \in Seq(S), NEW t \in Seq(S)
  PROVE  /\ Len(t) = 1 => c \o t = Append(c, t[1])
         /\ Len(t) = 2 => c \o t = Append(Append(c, t[1]), t[2])
<1>1. ASSUME Len(t) = 1 PROVE c \o t = Append(c, t[1])
  <2>1. t = <<t[1]>> BY <1>1
  <2> DEFINE a == t[1]
  <2>2. a \in S
    <3>1. 1 \in 1..Len(t) BY <1>1
    <3>2. \A k \in 1..Len(t) : t[k] \in S OBVIOUS
    <3> QED BY <3>1, <3>2
  <2> HIDE DEF a
  <2>3. c \o <<a>> = Append(c, a) BY <2>2
  <2> QED BY <2>1, <2>3 DEF a
<1>2. ASSUME Len(t) = 2 PROVE c \o t = Append(Append(c, t[1]), t[2])
  <2>1. t = <<t[1], t[2]>> BY <1>2
  <2> DEFINE a == t[1]
             b == t[2]
  <2>2. a \in S /\ b \in S BY <1>2
  <2> HIDE DEF a, b
  <2>3. c \o <<a, b>> = Append(Append(c, a), b)
    <3> DEFINE u == c \o <<a, b>>
               v == Append(Append(c, a), b)
    <3>1. u \in Seq(S) /\ v \in Seq(S) /\ Len(u) = Len(c) + 2 /\ Len(v) = Len(c) + 2 /\ Len(c) \in Nat
      BY <2>2
    <3>2. ASSUME NEW k \in 1..(Len(c) + 2) PROVE u[k] = v[k]
      <4>1. CASE k \in 1..Len(c) BY <2>2, <4>1
      <4>2. CASE k = Len(c) + 1 BY <2>2, <4>2
      <4>3. CASE k = Len(c) + 2 BY <2>2, <4>3
      <4> QED BY <3>1, <4>1, <4>2, <4>3
    <3> HIDE DEF u, v
    <3>3. u = v BY <3>1, <3>2
    <3> QED BY <3>3 DEF u, v
  <2> QED BY <2>1, <2>3 DEF a, b
<1> QED BY <1>1, <1>2

(* The streams of a for-each loop become locals. *)
LEMMA StreamsWired ==
  ASSUME Now, NEW P, Laced(chunk, P, open, locals, loopStack), NEW n \in 1..2
  PROVE  LET cN == chunk \o [k \in 1..n |-> Ins("NATIVE", 0, 0, Height + k - 1)]
             ls == locals \o [k \in 1..n |-> [depth |-> scopeDepth + 1,
                                             d |-> Here(chunk) + k - 1, named |-> FALSE]] IN
         \E P1 : /\ Carries(chunk, P, cN, P1) /\ Last(P1) = Full(ls) /\ Knit(cN, P1)
                 /\ Len(cN) = Len(chunk) + n
                 /\ ls \in Seq(Local) /\ Len(ls) = Height + n
                 /\ \A k \in DOMAIN locals : k \in DOMAIN ls /\ ls[k].d = locals[k].d
<1> DEFINE L(k) == [depth |-> scopeDepth + 1, d |-> Here(chunk) + k - 1, named |-> FALSE]
           N(k) == Ins("NATIVE", 0, 0, Height + k - 1)
           t == [k \in 1..n |-> N(k)]
           u == [k \in 1..n |-> L(k)]
           l1 == L(1)
           l2 == L(2)
           i1 == Ins("NATIVE", 0, 0, Height)
           i2 == Ins("NATIVE", 0, 0, Height + 1)
<1>1. /\ Knit(chunk, P) /\ Last(P) = Full(locals) /\ locals \in Seq(Local) /\ chunk \in Seq(Instruction)
      /\ Height = Len(locals) /\ Height \in Nat /\ Len(chunk) \in Nat /\ scopeDepth + 1 \in Nat
      /\ Handled(chunk, P, Full(locals), Ctx) /\ Ctx \in Context /\ DOMAIN locals = 1..Height
  BY NowIs, HandledHere, FullIs DEF Laced
<1>2. /\ l1 \in Local /\ l2 \in Local /\ l1.d = Len(chunk) + 1 /\ l2.d = Len(chunk) + 2
  BY <1>1 DEF Local, Here
<1>3. i1 \in Instruction /\ i2 \in Instruction
  <2>1. Height \in Nat /\ Height + 1 \in Nat BY <1>1
  <2> QED BY <1>1, <2>1, OpsAre, InsInIs DEF Ins
<1>4. N(1) = i1 /\ N(2) = i2
  <2>1. Height + 1 - 1 = Height /\ Height + 2 - 1 = Height + 1 BY <1>1
  <2> QED BY <2>1
<1>5. n = 1 \/ n = 2 OBVIOUS
<1>6. /\ t \in Seq(Instruction) /\ Len(t) = n /\ t[1] = i1 /\ (n = 2 => t[2] = i2)
      /\ u \in Seq(Local) /\ Len(u) = n /\ u[1] = l1 /\ (n = 2 => u[2] = l2)
  <2>1. \A k \in 1..n : k = 1 \/ (k = 2 /\ n = 2) BY <1>5
  <2>2. t[1] = N(1) /\ u[1] = l1 BY <1>5
  <2>3. n = 2 => t[2] = N(2) /\ u[2] = l2 BY <1>5
  <2>4. \A k \in 1..n : t[k] \in Instruction /\ u[k] \in Local BY <1>2, <1>3, <1>4, <2>1, <2>2, <2>3
  <2>5. DOMAIN t = 1..n /\ DOMAIN u = 1..n /\ n \in Nat /\ t = [k \in 1..n |-> t[k]] /\ u = [k \in 1..n |-> u[k]]
    BY <1>5
  <2> HIDE DEF t, u, i1, i2, l1, l2
  <2>6. t \in [1..n -> Instruction] /\ u \in [1..n -> Local] BY <2>4, <2>5
  <2>7. t \in Seq(Instruction) /\ Len(t) = n /\ u \in Seq(Local) /\ Len(u) = n BY <2>5, <2>6
  <2> QED BY <1>4, <2>2, <2>3, <2>7
<1> DEFINE cN == chunk \o t
           ls == locals \o u
           k1 == Append(locals, l1)
           c1 == Append(chunk, i1)
<1> HIDE DEF t, u, i2, l1, l2
<1>7. PICK P1 : /\ Carries(chunk, P, c1, P1) /\ Last(P1) = Full(k1) /\ Knit(c1, P1)
                /\ Len(c1) = Len(chunk) + 1 /\ k1 \in Seq(Local) /\ Len(k1) = Height + 1
                /\ \A k \in DOMAIN locals : k \in DOMAIN k1 /\ k1[k].d = locals[k].d
                /\ Handled(c1, P1, Full(k1), Ctx)
  BY <1>1, <1>2, NativeDeclared
<1> HIDE DEF c1, k1
<1>8. CASE n = 1
  <2>1. cN = c1 /\ ls = k1 BY <1>1, <1>6, <1>8, OneOrTwo DEF c1, k1
  <2> HIDE DEF cN, ls
  <2>2. /\ Carries(chunk, P, cN, P1) /\ Last(P1) = Full(ls) /\ Knit(cN, P1) /\ Len(cN) = Len(chunk) + n
        /\ ls \in Seq(Local) /\ Len(ls) = Height + n
        /\ \A k \in DOMAIN locals : k \in DOMAIN ls /\ ls[k].d = locals[k].d
    BY <1>7, <1>8, <2>1
  <2> QED BY <2>2 DEF cN, ls, t, u
<1>9. CASE n = 2
  <2>1. cN = Append(c1, i2) /\ ls = Append(k1, l2) BY <1>1, <1>6, <1>9, OneOrTwo DEF c1, k1
  <2>2. l2.d = Len(c1) + 1 BY <1>1, <1>2, <1>7
  <2>3. PICK P2 : /\ Carries(c1, P1, Append(c1, i2), P2) /\ Last(P2) = Full(Append(k1, l2))
                  /\ Knit(Append(c1, i2), P2)
                  /\ Len(Append(c1, i2)) = Len(c1) + 1 /\ Append(k1, l2) \in Seq(Local)
                  /\ Len(Append(k1, l2)) = Height + 1 + 1
                  /\ \A k \in DOMAIN k1 : k \in DOMAIN Append(k1, l2) /\ Append(k1, l2)[k].d = k1[k].d
    BY <1>2, <1>7, <2>2, NativeDeclared DEF i2
  <2> HIDE DEF cN, ls
  <2>4. Carries(chunk, P, cN, P2) BY <1>1, <1>7, <2>1, <2>3, CarriesOn
  <2>5. /\ Last(P2) = Full(ls) /\ Knit(cN, P2) /\ Len(cN) = Len(chunk) + n
        /\ ls \in Seq(Local) /\ Len(ls) = Height + n
        /\ \A k \in DOMAIN locals : k \in DOMAIN ls /\ ls[k].d = locals[k].d
    BY <1>1, <1>7, <1>9, <2>1, <2>3
  <2> QED BY <2>4, <2>5 DEF cN, ls, t, u
<1> QED BY <1>5, <1>8, <1>9

(* One instruction more, and what may be said of its place.                *)
LEMMA SewedNext ==
  ASSUME NEW c, NEW P, Knit(c, P), NEW i, Calm(c, P, {Len(c) + 1}, Last(P), i), NEW E, E \in Seq(Nat),
         Brings(c, P, i, E)
  PROVE  \E P2 : /\ Carries(c, P, Append(c, i), P2) /\ Last(P2) = E /\ Knit(Append(c, i), P2)
                 /\ Len(Append(c, i)) = Len(c) + 1
                 /\ i.op \in Targeted => Hole(Append(c, i), P2, Len(c) + 1, Last(P))
                 /\ Back(P2, Len(c) + 1, Last(P))
<1> DEFINE c2 == Append(c, i)
           R == Append(P, E)
           x == Len(c) + 1
<1>1. Carries(c, P, c2, R) BY OneWired, Zenon
<1>2. Last(R) = E BY OneWired
<1>3. Len(c2) = Len(c) + 1 BY OneWired
<1>4. Knit(c2, R) BY <1>1 DEF Carries
<1>5. /\ P \in Seq(Seq(Nat)) /\ Len(P) = x /\ x \in 1..x /\ x \in Nat /\ Last(P) = P[x]
      /\ c \in Seq(Instruction) /\ Len(c) \in Nat
  BY KnitIs
<1>6. i \in Instruction BY DEF Calm
<1>7. c2[x] = i /\ x \in DOMAIN c2
  <2>1. /\ DOMAIN c2 = 1..(Len(c) + 1) /\ c2[Len(c) + 1] = i BY <1>5, <1>6, AppendIs
  <2> HIDE DEF c2
  <2> QED BY <1>5, <2>1
<1>8. R[x] = Last(P)
  <2> HIDE DEF x
  <2> QED BY <1>5
<1>9. x \in DOMAIN R
  <2>1. DOMAIN R = 1..(Len(c2) + 1) BY <1>4, KnitIs
  <2> HIDE DEF c2, R
  <2> QED BY <1>3, <1>5, <2>1
<1> HIDE DEF c2, R, x
<1>10. Knows(Last(P), Last(P)) BY KnowsSelf
<1>11. i.op \in Targeted => Hole(c2, R, x, Last(P)) BY <1>7, <1>8, <1>10 DEF Hole
<1>12. Back(R, x, Last(P)) BY <1>8, <1>9, <1>10 DEF Back
<1>13. /\ Carries(c, P, c2, R) /\ Last(R) = E /\ Knit(c2, R) /\ Len(c2) = Len(c) + 1
       /\ i.op \in Targeted => Hole(c2, R, x, Last(P))
       /\ Back(R, x, Last(P))
  BY <1>1, <1>2, <1>3, <1>4, <1>11, <1>12
<1>14. \E Q : /\ Carries(c, P, c2, Q) /\ Last(Q) = E /\ Knit(c2, Q) /\ Len(c2) = Len(c) + 1
              /\ i.op \in Targeted => Hole(c2, Q, x, Last(P))
              /\ Back(Q, x, Last(P))
  BY <1>13
<1> QED BY <1>14 DEF c2, x

(* The label of more locals knows that of the locals before them. *)
LEMMA FullKnows ==
  ASSUME NEW ls \in Seq(Local), NEW ls2 \in Seq(Local),
         \A k \in DOMAIN ls : k \in DOMAIN ls2 /\ ls2[k].d = ls[k].d
  PROVE  Knows(Full(ls2), Full(ls)) /\ Label(ls2, Len(ls)) = Full(ls)
<1>1. DOMAIN ls = 1..Len(ls) /\ DOMAIN ls2 = 1..Len(ls2) OBVIOUS
<1>2. Label(ls2, Len(ls)) = Full(ls) BY <1>1 DEF Full, Label
<1>3. Knows(Full(ls2), Full(ls)) BY <1>1 DEF Full, Label, Knows
<1> QED BY <1>2, <1>3

(* The variables of a for-each loop, given their values at the same place. *)
IterFits(c, P, ls, n, x, h, t, i) ==
    /\ Knit(c, P) /\ ls \in Seq(Local) /\ Last(P) = Full(ls)
    /\ n \in 1..2 /\ x = Len(c) + 1 /\ h = Len(ls)
    /\ t \in Seq(Local) /\ Len(t) = n
    /\ \A k \in 1..n : t[k].d = x
    /\ i \in Calming(c, P, 1, Full(ls)) /\ i.op = "FOR_ITER" /\ i.h = h /\ i.x = 0
IterGives(c, P, ls, x, F, c2) ==
    /\ \E P2 : /\ Carries(c, P, c2, P2) /\ Last(P2) = Full(F)
               /\ Hole(c2, P2, x, Full(ls)) /\ Back(P2, x, Full(ls))
    /\ F \in Seq(Local)
    /\ \A k \in DOMAIN ls : k \in DOMAIN F /\ F[k].d = ls[k].d

(* The step of a stream declares the variable of the loop. *)
LEMMA IterDeclared ==
  ASSUME Now, NEW c, NEW P, NEW ls, NEW n, NEW x, NEW h, NEW t, NEW i, IterFits(c, P, ls, n, x, h, t, i)
  PROVE  IterGives(c, P, ls, x, ls \o t, Append(c, i))
<1>0. /\ Knit(c, P) /\ ls \in Seq(Local) /\ Last(P) = Full(ls)
      /\ n \in 1..2 /\ x = Len(c) + 1 /\ h = Len(ls)
      /\ t \in Seq(Local) /\ Len(t) = n
      /\ \A k \in 1..n : t[k].d = x
      /\ i \in Calming(c, P, 1, Full(ls)) /\ i.op = "FOR_ITER" /\ i.h = h /\ i.x = 0
  BY DEF IterFits
<1> DEFINE F == ls \o t
<1> DEFINE D == Full(ls)
           E == Full(F)
<1>1. /\ c \in Seq(Instruction) /\ Len(c) \in Nat /\ x \in Nat /\ h \in Nat /\ n \in Nat /\ DOMAIN ls = 1..h
      /\ P \in Seq(Seq(Nat)) /\ Len(P) = x /\ x \in 1..x /\ Last(P) = P[x] /\ 0 \in Nat
  BY <1>0, KnitIs
<1>2. D \in Seq(Nat) /\ Len(D) = h /\ DOMAIN D = 1..h /\ \A k \in 1..h : D[k] = ls[k].d
  <2>1. h <= Len(ls) /\ h = Len(ls) /\ h \in Nat BY <1>1
  <2>2. /\ Label(ls, h) \in Seq(Nat) /\ Len(Label(ls, h)) = h /\ DOMAIN Label(ls, h) = 1..h
        /\ \A k \in 1..h : Label(ls, h)[k] = ls[k].d
    BY <1>0, <2>1, LabelIs
  <2>3. Label(ls, h) = D BY <2>1 DEF Full
  <2> HIDE DEF D
  <2> QED BY <2>2, <2>3
<1>4. /\ F \in Seq(Local) /\ Len(F) = h + n
      /\ \A k \in 1..h : F[k] = ls[k]
      /\ \A k \in (h + 1)..(h + n) : F[k].d = x
  <2>3. F \in Seq(Local) /\ Len(F) = h + n /\ \A k \in 1..h : F[k] = ls[k] BY <1>0, <1>1
  <2>4. ASSUME NEW k \in (h + 1)..(h + n) PROVE F[k].d = x
    <3>1. k - h \in 1..n /\ F[k] = t[k - h] BY <1>0, <1>1
    <3> QED BY <1>0, <3>1
  <2> QED BY <2>3, <2>4
<1> HIDE DEF F
<1>5. E \in Seq(Nat) /\ DOMAIN E = 1..(h + n) /\ \A k \in 1..(h + n) : E[k] = F[k].d
  <2>1. Len(F) \in Nat /\ Len(F) <= Len(F) /\ Len(F) = h + n BY <1>1, <1>4
  <2>2. /\ Label(F, Len(F)) \in Seq(Nat) /\ DOMAIN Label(F, Len(F)) = 1..Len(F)
        /\ \A k \in 1..Len(F) : Label(F, Len(F))[k] = F[k].d
    BY <1>4, <2>1, LabelIs
  <2>3. E = Label(F, Len(F)) BY DEF Full
  <2> HIDE DEF E
  <2> QED BY <2>1, <2>2, <2>3
<1>6. \A k \in DOMAIN ls : k \in DOMAIN F /\ F[k].d = ls[k].d BY <1>1, <1>4
<1> HIDE DEF D, E
<1>7. i \in Calming(c, P, 1, D) BY <1>0 DEF D
<1>8. i.op = "FOR_ITER" /\ i.h = h /\ i.x = 0 BY <1>0
<1>9. Calm(c, P, {Len(c) + 1}, D, i) BY <1>7, <1>8, QuietCalm
<1>10. Brings(c, P, i, E)
  <2> SUFFICES ASSUME NEW k \in DOMAIN E
               PROVE  \/ k \in DOMAIN Last(P) /\ E[k] = Last(P)[k]
                      \/ i.op \in Pushing /\ k > i.h /\ E[k] = Len(c) + 1
    BY DEF Brings
  <2>1. "FOR_ITER" \in Pushing BY DEF Pushing
  <2>2. k \in 1..h \/ (k \in (h + 1)..(h + n) /\ k > h) BY <1>1, <1>5
  <2>3. CASE k \in 1..h
    <3>1. k \in 1..(h + n) BY <1>1, <2>3
    <3>2. Last(P) = D BY <1>0 DEF D
    <3>3. k \in DOMAIN Last(P) /\ E[k] = Last(P)[k] BY <1>2, <1>4, <1>5, <2>3, <3>1, <3>2
    <3> QED BY <3>3
  <2>4. CASE k \in (h + 1)..(h + n) /\ k > h
    <3>1. k \in 1..(h + n) BY <1>1, <2>4
    <3>2. E[k] = F[k].d BY <1>5, <3>1
    <3>3. F[k].d = x BY <1>4, <2>4
    <3>4. k > i.h /\ i.op \in Pushing BY <1>8, <2>1, <2>4
    <3>5. E[k] = Len(c) + 1 BY <1>0, <3>2, <3>3
    <3> QED BY <3>4, <3>5
  <2> QED BY <2>2, <2>3, <2>4
<1>11. PICK P2 : /\ Carries(c, P, Append(c, i), P2) /\ Last(P2) = E
                 /\ i.op \in Targeted => Hole(Append(c, i), P2, Len(c) + 1, Last(P))
                 /\ Back(P2, Len(c) + 1, Last(P))
  <2>1. Calm(c, P, {Len(c) + 1}, Last(P), i) BY <1>0, <1>9 DEF D
  <2>2. E \in Seq(Nat) BY <1>5
  <2>3. \E P2 : /\ Carries(c, P, Append(c, i), P2) /\ Last(P2) = E /\ Knit(Append(c, i), P2)
                /\ Len(Append(c, i)) = Len(c) + 1
                /\ i.op \in Targeted => Hole(Append(c, i), P2, Len(c) + 1, Last(P))
                /\ Back(P2, Len(c) + 1, Last(P))
    BY <1>0, <1>10, <2>1, <2>2, SewedNext
  <2> QED BY <2>3
<1>12. i.op \in Targeted BY <1>8 DEF Targeted, Branches
<1>13. Hole(Append(c, i), P2, x, D) /\ Back(P2, x, D) BY <1>0, <1>11, <1>12 DEF D
<1> QED BY <1>4, <1>6, <1>11, <1>13 DEF D, E, F, IterGives

(* A for-each that opens keeps the labels. *)
LEMMA ForEachOpenLaces == ASSUME Now, Then, Laces, ForEachOpen PROVE Laces'
<1>0. PICK P : Laced(chunk, P, open, locals, loopStack) BY DEF Laces
<1>1. PICK n \in 1..2 :
       LET at == Here(chunk)
           ls == locals \o [k \in 1..n |-> [depth |-> scopeDepth + 1,
                                           d |-> at + k - 1, named |-> FALSE]]
           counted == addLocal(ls, scopeDepth + 1, at + n, FALSE)
           iter == at + n + 1
           names == [k \in 1..n |-> [depth |-> scopeDepth + 2, d |-> iter, named |-> TRUE]]
       IN  /\ chunk' = chunk \o [k \in 1..n |-> Ins("NATIVE", 0, 0, Height + k - 1)]
                         \o <<Ins("CONSTANT", 0, 0, Height + n),
                              Ins("FOR_ITER", 0, n, Height + n + 1)>>
           /\ locals' = counted \o names
           /\ loopStack' = Append(loopStack,
                 Loop(iter, Len(counted), TRUE, Len(counted) - 1))
           /\ open' = Append(open, Activation("foreach", "body", iter, n, 0))
  BY DEF ForEachOpen
<1> DEFINE at == Here(chunk)
           ls == locals \o [k \in 1..n |-> [depth |-> scopeDepth + 1,
                                           d |-> at + k - 1, named |-> FALSE]]
           z == [depth |-> scopeDepth + 1, d |-> at + n, named |-> FALSE]
           counted == Append(ls, z)
           iter == at + n + 1
           sd == scopeDepth + 2
           F == counted \o [k \in 1..n |-> [depth |-> sd, d |-> iter, named |-> TRUE]]
           cN == chunk \o [k \in 1..n |-> Ins("NATIVE", 0, 0, Height + k - 1)]
           h1 == Height + n
           h2 == Height + n + 1
           i1 == Ins("CONSTANT", 0, 0, h1)
           i2 == Ins("FOR_ITER", 0, n, h2)
           c1 == Append(cN, i1)
           c == Append(c1, i2)
           l == Loop(iter, Len(counted), TRUE, Len(counted) - 1)
           o == Activation("foreach", "body", iter, n, 0)
<1>2. /\ n \in Nat /\ at \in Nat /\ iter \in Nat /\ h1 \in Nat /\ h2 = h1 + 1 /\ Height \in Nat /\ h2 \in Nat
      /\ scopeDepth + 1 \in Nat /\ sd \in Nat /\ at = Len(chunk) + 1 /\ at + n \in Nat
      /\ Len(chunk) \in Nat /\ at + n = Len(chunk) + n + 1 /\ iter = Len(chunk) + n + 1 + 1
      /\ locals \in Seq(Local)
  <2>1. Height \in Nat /\ scopeDepth \in Nat /\ Len(chunk) \in Nat /\ locals \in Seq(Local) /\ n \in Nat
    BY NowIs
  <2>2. at = Len(chunk) + 1 BY DEF Here
  <2> QED BY ONLY <2>1, <2>2
<1>3. /\ chunk' = cN \o <<i1, i2>> /\ locals' = F /\ loopStack' = Append(loopStack, l)
      /\ open' = Append(open, o)
  <2>1. addLocal(ls, scopeDepth + 1, at + n, FALSE) = counted BY DEF addLocal
  <2>2. chunk' = cN \o <<i1, i2>> BY ONLY <1>1
  <2>3. /\ locals' = addLocal(ls, scopeDepth + 1, at + n, FALSE)
                       \o [k \in 1..n |-> [depth |-> sd, d |-> iter, named |-> TRUE]]
        /\ LET ct == addLocal(ls, scopeDepth + 1, at + n, FALSE) IN
           loopStack' = Append(loopStack, Loop(iter, Len(ct), TRUE, Len(ct) - 1))
        /\ open' = Append(open, o)
    BY ONLY <1>1
  <2> QED BY ONLY <2>1, <2>2, <2>3
<1>4. PICK P1 : /\ Carries(chunk, P, cN, P1) /\ Last(P1) = Full(ls) /\ Knit(cN, P1)
                /\ Len(cN) = Len(chunk) + n
                /\ ls \in Seq(Local) /\ Len(ls) = h1
                /\ \A k \in DOMAIN locals : k \in DOMAIN ls /\ ls[k].d = locals[k].d
  BY <1>0, StreamsWired
<1>5. z \in Local /\ z.d = Len(cN) + 1
  <2>1. z \in Local BY <1>2 DEF Local
  <2>2. z.d = at + n OBVIOUS
  <2> HIDE DEF z, at, cN
  <2> QED BY <1>2, <1>4, <2>1, <2>2
<1> HIDE DEF cN, ls, z, at, iter, h1, h2
<1>6. i1 \in Calming(cN, P1, 1, Full(ls)) /\ i1.op \in Pushing \ {"FOR_ITER"} /\ i1.h = Len(ls)
  <2>1. "CONSTANT" \in Placid BY DEF Placid
  <2>2. Len(Full(ls)) = h1 /\ h1 <= h1 BY <1>2, <1>4, LabelIs DEF Full
  <2>3. i1.op \in Pushing \ {"FOR_ITER"} /\ i1.h = h1 BY DEF Ins, InsIn, Pushing
  <2> HIDE DEF i1
  <2>4. i1 \in Calming(cN, P1, 1, Full(ls)) BY <1>2, <2>1, <2>2, QuietAt DEF i1
  <2> QED BY <1>4, <2>3, <2>4
<1> HIDE DEF i1
<1>7. PICK P2 : /\ Carries(cN, P1, c1, P2) /\ Last(P2) = Full(counted) /\ Knit(c1, P2) /\ Len(c1) = Len(cN) + 1
                /\ counted \in Seq(Local) /\ Len(counted) = Len(ls) + 1
                /\ \A k \in DOMAIN ls : k \in DOMAIN counted /\ counted[k].d = ls[k].d
  <2>1. \E P2 : /\ Carries(cN, P1, Append(cN, i1), P2) /\ Last(P2) = Full(Append(ls, z))
                /\ Knit(Append(cN, i1), P2) /\ Len(Append(cN, i1)) = Len(cN) + 1
                /\ P2[Len(cN) + 1] = Full(ls)
                /\ Append(ls, z) \in Seq(Local) /\ Len(Append(ls, z)) = Len(ls) + 1
                /\ \A k \in DOMAIN ls : k \in DOMAIN Append(ls, z) /\ Append(ls, z)[k].d = ls[k].d
                /\ Knows(Full(Append(ls, z)), Full(ls))
    <3>1. Knit(cN, P1) /\ ls \in Seq(Local) /\ Last(P1) = Full(ls) BY <1>4
    <3> QED BY <1>5, <1>6, <3>1, Declares
  <2> HIDE DEF counted, c1
  <2> QED BY <2>1 DEF counted, c1
<1> HIDE DEF counted, sd
<1>8. /\ \A k \in DOMAIN locals : k \in DOMAIN counted /\ counted[k].d = locals[k].d
      /\ Len(counted) = h2 /\ Len(c1) + 1 = iter
  BY <1>2, <1>4, <1>7
<1>9. Knit(chunk, P) BY <1>0 DEF Laced
<1>10. Carries(chunk, P, c1, P2) BY <1>4, <1>7, <1>9, CarriesOn
<1>11. Handled(c1, P2, Full(counted), Ctx)
  <2>1. Handled(chunk, P, Full(locals), Ctx) BY <1>0, HandledHere
  <2>2. Knows(Full(counted), Full(locals)) BY <1>2, <1>7, <1>8, FullKnows
  <2> QED BY <1>9, <1>10, <2>1, <2>2, HandledOn
<1> HIDE DEF c1
<1>12. /\ \E P3 : /\ Carries(c1, P2, c, P3) /\ Last(P3) = Full(F)
                  /\ Hole(c, P3, iter, Full(counted)) /\ Back(P3, iter, Full(counted))
       /\ F \in Seq(Local) /\ \A k \in DOMAIN counted : k \in DOMAIN F /\ F[k].d = counted[k].d
  <2> DEFINE v == [depth |-> sd, d |-> iter, named |-> TRUE]
             E == [k \in 1..n |-> v]
             H == counted \o E
             j == Ins("FOR_ITER", 0, n, h2)
  <2>1. Knit(c1, P2) /\ Last(P2) = Full(counted) /\ counted \in Seq(Local) BY <1>7
  <2>2. iter = Len(c1) + 1 /\ h2 = Len(counted) BY <1>8
  <2>5. v \in Local /\ v.d = iter BY <1>2 DEF Local
  <2> HIDE DEF v
  <2>3. E \in Seq(Local) /\ Len(E) = n /\ \A k \in 1..n : E[k].d = iter BY <1>2, <2>5
  <2> HIDE DEF E
  <2>6. j \in Calming(c1, P2, 1, Full(counted)) /\ j.op = "FOR_ITER" /\ j.h = h2 /\ j.x = 0
    <3> DEFINE D == Full(counted)
    <3>1. /\ "FOR_ITER" \in Ops /\ Spare("FOR_ITER") = 0
          /\ "FOR_ITER" \notin {"TRY_ENTER", "SET_LOCAL", "GET_LOCAL", "SKIP_ITER"}
      BY DEF Ops, Spare
    <3>2. h2 \in Nat /\ h2 <= Len(counted) /\ h2 = Len(counted) BY <1>2, <1>8
    <3>3. Len(D) = h2
      <4>1. Len(Label(counted, h2)) = h2 BY <1>7, <3>2, LabelIs
      <4> QED BY <3>2, <4>1 DEF Full
    <3>4. Ctx \in Context /\ {} \in SUBSET ErrTypes /\ 0 \in Nat BY NowIs
    <3> HIDE DEF D
    <3>5. Handled(c1, P2, D, Ctx) BY <1>11 DEF D
    <3>6. Len(D) + Spare("FOR_ITER") <= h2 BY <3>1, <3>2, <3>3
    <3>7. j \in Calming(c1, P2, 1, D)
      BY <1>2, <3>1, <3>2, <3>4, <3>5, <3>6, CalmIns DEF Ins
    <3>8. j.op = "FOR_ITER" /\ j.h = h2 /\ j.x = 0 BY DEF Ins, InsIn
    <3> QED BY <3>7, <3>8 DEF D
  <2> HIDE DEF j
  <2>4. /\ \E P3 : /\ Carries(c1, P2, Append(c1, j), P3) /\ Last(P3) = Full(H)
                   /\ Hole(Append(c1, j), P3, iter, Full(counted)) /\ Back(P3, iter, Full(counted))
        /\ H \in Seq(Local) /\ \A k \in DOMAIN counted : k \in DOMAIN H /\ H[k].d = counted[k].d
    <3> HIDE DEF F, c, l, o, i2, H
    <3>1. IterFits(c1, P2, counted, n, iter, h2, E, j) BY <2>1, <2>2, <2>3, <2>6 DEF IterFits
    <3>2. IterGives(c1, P2, counted, iter, counted \o E, Append(c1, j)) BY <3>1, IterDeclared
    <3> QED BY <3>2 DEF IterGives, H
  <2> QED BY <2>4 DEF E, v, j
<1>13. chunk' = c
  <2>1. i1 \in Instruction BY <1>6 DEF Calming
  <2>2. cN \in Seq(Instruction) BY <1>4, KnitIs
  <2>3. i2 \in Instruction BY <1>2, NowIs, OpsAre, InsInIs DEF Ins
  <2> HIDE DEF i2
  <2> QED BY <1>3, <2>1, <2>2, <2>3, Cat2 DEF c1
<1> HIDE DEF c, F, i2
<1>14. PICK P3 : /\ Carries(c1, P2, chunk', P3) /\ Last(P3) = Full(locals')
                 /\ Hole(chunk', P3, iter, Full(counted)) /\ Back(P3, iter, Full(counted))
  BY <1>3, <1>12, <1>13
<1>15. Carries(chunk, P, chunk', P3) BY <1>7, <1>9, <1>10, <1>14, CarriesOn
<1>16. Fresh(o, "foreach", "body", iter, n, 0)
  <2>1. "foreach" \in Kinded /\ "body" \in Armed /\ 0 \in Nat BY DEF Kinded, Armed, LoopKinds
  <2> QED BY <1>2, <2>1, ActivationIs
<1>17. l \in LoopRecord /\ l.count = h2 /\ l.breaks = {} /\ l.continues = {}
  <2>1. Len(counted) - 1 \in Nat BY <1>2, <1>8
  <2>2. Len(counted) = h2 BY <1>8
  <2> QED BY <1>2, <2>1, <2>2 DEF Loop, LoopRecord
<1> HIDE DEF o, l
<1>18. Tied(chunk', P3, o, loopStack'[o.n + 1], locals')
  <2>1. o.kind = "foreach" /\ o.a = iter /\ o.n = Len(loopStack) BY <1>16 DEF Fresh
  <2>2. loopStack'[o.n + 1] = l BY <1>3, <1>17, <2>1, LoopAdded
  <2>3. Label(locals', l.count) = Full(counted) BY <1>3, <1>7, <1>8, <1>12, <1>17, FullKnows
  <2> QED BY <1>14, <1>17, <2>1, <2>2, <2>3 DEF Tied
<1>19. o \in Statement BY <1>16 DEF Fresh
<1>20. \A k \in DOMAIN locals : k \in DOMAIN locals' => locals'[k].d = locals[k].d BY <1>3, <1>8, <1>12
<1> QED BY <1>0, <1>3, <1>14, <1>15, <1>17, <1>18, <1>19, <1>20, LacesOpened

(* What the innermost statement keeps. *)
LEMMA CurTied ==
  ASSUME Now, open # <<>>, NEW P, Laced(chunk, P, open, locals, loopStack)
  PROVE  /\ Tied(chunk, P, Cur, loopStack[Cur.n + 1], locals) /\ Knit(chunk, P) /\ Last(P) = Full(locals)
         /\ Cur.h \in 0..Len(locals) /\ Cur.h \in Nat /\ locals \in Seq(Local) /\ Len(locals) \in Nat
<1>1. Cur = open[Len(open)] /\ Len(open) \in DOMAIN open /\ Cur.h \in Nat /\ Cur.h <= Height BY CurIs
<1>2. locals \in Seq(Local) /\ Height = Len(locals) /\ Height \in Nat BY FullIs
<1> QED BY <1>1, <1>2 DEF Laced

(* What is known below a level of the locals.                              *)
LEMMA LabelBelow ==
  ASSUME Now, NEW m \in 0..Len(locals), NEW k \in 0..m
  PROVE  /\ Label(locals, k) \in Seq(Nat) /\ Len(Label(locals, k)) = k /\ k \in Nat /\ m \in Nat
         /\ Knows(Label(locals, m), Label(locals, k)) /\ Knows(Full(locals), Label(locals, k))
<1>1. locals \in Seq(Local) /\ Len(locals) \in Nat BY FullIs
<1>2. m \in Nat /\ k \in Nat /\ k <= m /\ k <= Len(locals) BY <1>1
<1>3. Label(locals, k) \in Seq(Nat) /\ Len(Label(locals, k)) = k BY <1>1, <1>2, LabelIs
<1>4. Knows(Label(locals, m), Label(locals, k)) BY <1>2, LabelKnows
<1>5. Knows(Full(locals), Label(locals, k)) BY <1>1, <1>2, LabelKnows DEF Full
<1> QED BY <1>2, <1>3, <1>4, <1>5

(* The end of a scope keeps what is known below it.                        *)
LEMMA ScopeSewed ==
  ASSUME Now, NEW c, NEW P, Knit(c, P), NEW ls \in Seq(Local), NEW d \in Int, NEW m \in Nat,
         Split(ls, d, m), NEW D \in Seq(Nat), Len(D) <= m, Knows(Last(P), D)
  PROVE  \E P1 : /\ Carries(c, P, c \o EndScopeCode(ls, d), P1) /\ Last(P1) = D
                 /\ Knit(c \o EndScopeCode(ls, d), P1)
<1>1. Len(D) \in Nat OBVIOUS
<1> DEFINE n == Len(ls) - m
           t == EndScopeCode(ls, d)
<1>2. t \in Seq(Calming(c, P, n, D)) /\ Len(t) = n /\ n \in Nat BY <1>1, CalmEnd
<1> HIDE DEF n, t
<1>3. \E P1 : /\ Carries(c, P, c \o t, P1) /\ Last(P1) = D /\ Len(c \o t) = Len(c) + n
              /\ Knit(c \o t, P1) /\ n \in Nat
              /\ \A k \in 1..n : t[k].op \in Targeted => Hole(c \o t, P1, Len(c) + k, D)
              /\ \A q \in Block(c, n) : Back(P1, q, D)
  BY <1>2, Sewed
<1> QED BY <1>3 DEF t

(* The end of a block forgets what the block declared. *)
LEMMA BlockSewed ==
  ASSUME Now, NEW P, Laced(chunk, P, open, locals, loopStack),
         NEW m \in Nat, Split(locals, scopeDepth - 1, m), NEW k \in 0..m
  PROVE  \E P1 : /\ Carries(chunk, P, BlockEnd, P1) /\ Last(P1) = Label(locals, k) /\ Knit(BlockEnd, P1)
<1>1. locals \in Seq(Local) /\ Len(locals) \in Nat /\ scopeDepth - 1 \in Int BY FullIs, NowIs
<1>2. m \in 0..Len(locals) BY <1>1 DEF Split
<1>3. /\ Label(locals, k) \in Seq(Nat) /\ Len(Label(locals, k)) <= m
      /\ Knows(Full(locals), Label(locals, k))
  BY <1>2, LabelBelow
<1>4. Knit(chunk, P) /\ Knows(Last(P), Label(locals, k)) BY <1>3 DEF Laced
<1> DEFINE D == Label(locals, k)
<1> HIDE DEF D
<1>5. \E P1 : /\ Carries(chunk, P, chunk \o EndScopeCode(locals, scopeDepth - 1), P1) /\ Last(P1) = D
              /\ Knit(chunk \o EndScopeCode(locals, scopeDepth - 1), P1)
  BY <1>1, <1>3, <1>4, ScopeSewed DEF D
<1> QED BY <1>5 DEF D, BlockEnd

(* One quiet instruction more.                                             *)
LEMMA QuietSewed ==
  ASSUME Now, NEW c, NEW P, Knit(c, P), NEW D \in Seq(Nat), Knows(Last(P), D),
         NEW op \in Placid, NEW h \in Nat, Len(D) <= h
  PROVE  \E P2 : /\ Carries(c, P, Append(c, Ins(op, 0, 0, h)), P2) /\ Last(P2) = D
                 /\ Knit(Append(c, Ins(op, 0, 0, h)), P2) /\ Len(Append(c, Ins(op, 0, 0, h))) = Len(c) + 1
                 /\ op \in Targeted => Hole(Append(c, Ins(op, 0, 0, h)), P2, Len(c) + 1, D)
<1> DEFINE i == Ins(op, 0, 0, h)
<1>1. i.op = op BY DEF Ins, InsIn
<1>2. Len(D) \in Nat OBVIOUS
<1>3. i \in Calming(c, P, 1, D) BY <1>2, QuietAt
<1> HIDE DEF i
<1>4. \E P2 : /\ Carries(c, P, Append(c, i), P2) /\ Last(P2) = D
              /\ Knit(Append(c, i), P2) /\ Len(Append(c, i)) = Len(c) + 1
              /\ i.op \in Targeted => Hole(Append(c, i), P2, Len(c) + 1, D)
              /\ Back(P2, Len(c) + 1, D)
  BY <1>3, SewedOne
<1> QED BY <1>1, <1>4 DEF i

(* The end of a branch: its exit and the next branch know what the if      *)
(* knew.                                                                   *)
LEMMA ArmsTied ==
  ASSUME Now, Inside("if", "then"), NEW P, Laced(chunk, P, open, locals, loopStack)
  PROVE  LET D == Label(locals, Cur.h) IN
         \E P1 : /\ Carries(chunk, P, NextArm, P1) /\ Knit(NextArm, P1) /\ Last(P1) = D
                 /\ \A p \in ArmExits : Hole(NextArm, P1, p, D)
                 /\ D \in Seq(Nat) /\ Len(D) = Cur.h
<1> DEFINE h == Cur.h
           D == Label(locals, h)
<1>1. /\ open # <<>> /\ Cur.kind = "if" /\ Cur.arm = "then" /\ h \in Nat
      /\ Split(locals, scopeDepth - 1, h) /\ EndHeight = h
  BY IfIs
<1>2. /\ Tied(chunk, P, Cur, loopStack[Cur.n + 1], locals) /\ Knit(chunk, P) /\ h \in 0..Len(locals)
      /\ h \in 0..h
  BY <1>1, CurTied
<1>3. D \in Seq(Nat) /\ Len(D) = h BY <1>2, LabelBelow
<1>4. Hole(chunk, P, Cur.j, D) /\ \A p \in Cur.jumps : Hole(chunk, P, p, D) BY <1>1, <1>2 DEF Tied
<1>5. PICK P1 : Carries(chunk, P, BlockEnd, P1) /\ Last(P1) = D /\ Knit(BlockEnd, P1)
  BY <1>1, <1>2, BlockSewed
<1> HIDE DEF D
<1>6. "JUMP" \in Placid /\ "JUMP" \in Targeted /\ "POP" \in Placid BY DEF Placid, Targeted, Branches
<1>7. PICK P2 : /\ Carries(BlockEnd, P1, ArmEnd, P2) /\ Last(P2) = D /\ Knit(ArmEnd, P2)
                /\ Len(ArmEnd) = Len(BlockEnd) + 1 /\ Hole(ArmEnd, P2, Len(BlockEnd) + 1, D)
  <2>1. h <= h BY <1>1
  <2>2. \E Q : /\ Carries(BlockEnd, P1, Append(BlockEnd, Ins("JUMP", 0, 0, h)), Q) /\ Last(Q) = D
               /\ Knit(Append(BlockEnd, Ins("JUMP", 0, 0, h)), Q)
               /\ Len(Append(BlockEnd, Ins("JUMP", 0, 0, h))) = Len(BlockEnd) + 1
               /\ "JUMP" \in Targeted => Hole(Append(BlockEnd, Ins("JUMP", 0, 0, h)), Q, Len(BlockEnd) + 1, D)
    BY <1>1, <1>3, <1>5, <1>6, <2>1, KnowsSelf, QuietSewed
  <2> QED BY <1>1, <1>6, <2>2 DEF ArmEnd
<1>8. Carries(chunk, P, ArmEnd, P2) BY <1>2, <1>5, <1>7, CarriesOn
<1>9. \A p \in ArmExits : Hole(ArmEnd, P2, p, D)
  <2>1. \A p \in Cur.jumps : Hole(ArmEnd, P2, p, D) BY <1>2, <1>4, <1>8, HoleOn
  <2>2. Hole(ArmEnd, P2, Len(ArmEnd), D) BY <1>7
  <2> QED BY <2>1, <2>2 DEF ArmExits
<1> DEFINE c == Patch(ArmEnd, {Cur.j})
<1>10. Carries(ArmEnd, P2, c, P2) /\ Knit(c, P2)
  <2>1. Hole(ArmEnd, P2, Cur.j, D) BY <1>2, <1>4, <1>8, HoleOn
  <2>2. \A p \in {Cur.j} : Hole(ArmEnd, P2, p, Last(P2)) BY <1>7, <2>1
  <2> QED BY <1>7, <2>2, PatchWired
<1>11. PICK P3 : Carries(c, P2, NextArm, P3) /\ Last(P3) = D /\ Knit(NextArm, P3)
  <2>1. h + 1 \in Nat /\ h <= h + 1 BY <1>1
  <2>2. NextArm = Append(c, Ins("POP", 0, 0, h + 1)) BY <1>1 DEF NextArm
  <2> HIDE DEF c, h
  <2>3. \E Q : /\ Carries(c, P2, Append(c, Ins("POP", 0, 0, h + 1)), Q) /\ Last(Q) = D
               /\ Knit(Append(c, Ins("POP", 0, 0, h + 1)), Q)
               /\ Len(Append(c, Ins("POP", 0, 0, h + 1))) = Len(c) + 1
               /\ "POP" \in Targeted => Hole(Append(c, Ins("POP", 0, 0, h + 1)), Q, Len(c) + 1, D)
    BY <1>3, <1>6, <1>7, <1>10, <2>1, KnowsSelf, QuietSewed
  <2> QED BY <2>2, <2>3
<1> HIDE DEF c
<1>12. Carries(ArmEnd, P2, NextArm, P3) BY <1>7, <1>10, <1>11, CarriesOn
<1>13. Carries(chunk, P, NextArm, P3) BY <1>2, <1>8, <1>12, CarriesOn
<1>14. \A p \in ArmExits : Hole(NextArm, P3, p, D) BY <1>7, <1>9, <1>12, HoleOn
<1> QED BY <1>3, <1>11, <1>13, <1>14 DEF D

(* An else-if keeps the labels. *)
LEMMA ElifLaces == ASSUME Now, Then, Laces, Elif PROVE Laces'
<1> DEFINE h == Cur.h
           j == Len(NextArm) + 2
           D == Label(locals, h)
           o2 == [Cur EXCEPT !.jumps = ArmExits, !.j = j]
<1>0. Inside("if", "then") BY DEF Elif
<1>1. /\ open # <<>> /\ Cur.kind = "if" /\ Cur.arm = "then" /\ Cur \in Statement
      /\ h \in Nat /\ After = SubSeq(locals, 1, h) /\ EndHeight = h
  BY <1>0, IfIs
<1>2. /\ chunk' = NextArm \o Condition(h) /\ open' = SetLast(open, o2) /\ locals' = SubSeq(locals, 1, h)
      /\ loopStack' = loopStack
  BY <1>1 DEF Elif
<1>3. PICK P : Laced(chunk, P, open, locals, loopStack) BY DEF Laces
<1>4. Knit(chunk, P) /\ h \in 0..Len(locals) BY <1>1, <1>3, CurTied
<1>5. PICK P1 : /\ Carries(chunk, P, NextArm, P1) /\ Knit(NextArm, P1) /\ Last(P1) = D
                /\ \A p \in ArmExits : Hole(NextArm, P1, p, D)
                /\ D \in Seq(Nat) /\ Len(D) = h
  BY <1>0, <1>3, ArmsTied
<1> HIDE DEF D
<1>6. PICK P2 : /\ Carries(NextArm, P1, chunk', P2) /\ Last(P2) = D
                /\ Hole(chunk', P2, j, D)
  <2>1. h <= h /\ Knows(Last(P1), D) BY <1>1, <1>5, KnowsSelf
  <2> HIDE DEF h
  <2> QED BY <1>1, <1>2, <1>5, <2>1, ConditionSewed
<1>7. \A p \in ArmExits : Hole(chunk', P2, p, D) BY <1>5, <1>6, HoleOn
<1>8. Carries(chunk, P, chunk', P2) BY <1>4, <1>5, <1>6, CarriesOn
<1>9. j \in Nat /\ ArmExits \in SUBSET Nat
  <2>1. Len(NextArm) \in Nat BY <1>5, KnitIs
  <2>2. ArmExits \in SUBSET Nat BY <1>0, NextArmIs
  <2> QED BY <2>1, <2>2
<1>10. o2 \in Statement /\ o2.kind = "if" /\ o2.arm = "then" /\ o2.h = h /\ o2.j = j /\ o2.jumps = ArmExits
  <2> HIDE DEF j, h
  <2> QED BY <1>1, <1>9 DEF Statement, h
<1> HIDE DEF o2, j
<1>11. Label(locals', h) = D
  <2>1. locals \in Seq(Local) BY FullIs
  <2>2. h \in 0..h BY <1>1
  <2>3. \A n \in 0..h : Label(SubSeq(locals, 1, h), n) = Label(locals, n) BY <1>4, <2>1, LabelCut
  <2> QED BY <1>2, <2>2, <2>3 DEF D
<1>12. Tied(chunk', P2, o2, loopStack[o2.n + 1], locals')
  BY <1>6, <1>7, <1>10, <1>11 DEF Tied, IsLoop, LoopKinds
<1> QED BY <1>1, <1>2, <1>3, <1>4, <1>6, <1>8, <1>10, <1>12, LacesTurned DEF D

(* An else keeps the labels. *)
LEMMA ElseLaces == ASSUME Now, Then, Laces, Else PROVE Laces'
<1> DEFINE h == Cur.h
           D == Label(locals, h)
           o2 == [Cur EXCEPT !.jumps = ArmExits, !.arm = "else"]
<1>0. Inside("if", "then") BY DEF Else
<1>1. /\ open # <<>> /\ Cur.kind = "if" /\ Cur.arm = "then" /\ Cur \in Statement
      /\ h \in Nat /\ After = SubSeq(locals, 1, h) /\ EndHeight = h
  BY <1>0, IfIs
<1>2. /\ chunk' = NextArm /\ open' = SetLast(open, o2) /\ locals' = SubSeq(locals, 1, h)
      /\ loopStack' = loopStack
  BY <1>1 DEF Else
<1>3. PICK P : Laced(chunk, P, open, locals, loopStack) BY DEF Laces
<1>4. Knit(chunk, P) /\ h \in 0..Len(locals) BY <1>1, <1>3, CurTied
<1>5. PICK P1 : /\ Carries(chunk, P, NextArm, P1) /\ Knit(NextArm, P1) /\ Last(P1) = D
                /\ \A p \in ArmExits : Hole(NextArm, P1, p, D)
                /\ D \in Seq(Nat) /\ Len(D) = h
  BY <1>0, <1>3, ArmsTied
<1> HIDE DEF D
<1>9. ArmExits \in SUBSET Nat BY <1>0, NextArmIs
<1>10. o2 \in Statement /\ o2.kind = "if" /\ o2.arm = "else" /\ o2.h = h /\ o2.jumps = ArmExits
  BY <1>1, <1>9 DEF Statement
<1> HIDE DEF o2
<1>11. Label(locals', h) = D
  <2>1. locals \in Seq(Local) BY FullIs
  <2>2. h \in 0..h BY <1>1
  <2>3. \A n \in 0..h : Label(SubSeq(locals, 1, h), n) = Label(locals, n) BY <1>4, <2>1, LabelCut
  <2> QED BY <1>2, <2>2, <2>3 DEF D
<1>12. Tied(chunk', P1, o2, loopStack[o2.n + 1], locals')
  BY <1>2, <1>5, <1>10, <1>11 DEF Tied, IsLoop, LoopKinds
<1> QED BY <1>1, <1>2, <1>3, <1>4, <1>5, <1>10, <1>12, LacesTurned DEF D

(* The end of an if keeps the labels. *)
LEMMA IfCloseLaces == ASSUME Now, Then, Laces, IfClose PROVE Laces'
<1> DEFINE h == Cur.h
           D == Label(locals, h)
<1>0. \/ Inside("if", "then") /\ chunk' = Patch(NextArm, ArmExits)
      \/ Inside("if", "else") /\ chunk' = Patch(BlockEnd, Cur.jumps)
  BY DEF IfClose
<1>1. PICK arm \in {"then", "else"} : Inside("if", arm) BY <1>0
<1>2. /\ open # <<>> /\ Cur.kind = "if" /\ h \in Nat /\ After = SubSeq(locals, 1, h)
      /\ Split(locals, scopeDepth - 1, h)
  BY <1>1, IfIs
<1>3. open' = ButLast(open, 1) /\ locals' = SubSeq(locals, 1, h) /\ loopStack' = loopStack
  BY <1>2 DEF IfClose, Close
<1>4. PICK P : Laced(chunk, P, open, locals, loopStack) BY DEF Laces
<1>5. /\ Tied(chunk, P, Cur, loopStack[Cur.n + 1], locals) /\ Knit(chunk, P) /\ h \in 0..h
  BY <1>2, <1>4, CurTied
<1>6. \E P2 : Carries(chunk, P, chunk', P2) /\ Last(P2) = D
  <2>1. CASE Inside("if", "then") /\ chunk' = Patch(NextArm, ArmExits)
    <3>1. PICK P1 : /\ Carries(chunk, P, NextArm, P1) /\ Knit(NextArm, P1) /\ Last(P1) = D
                    /\ \A p \in ArmExits : Hole(NextArm, P1, p, D)
      BY <1>4, <2>1, ArmsTied
    <3>2. Carries(NextArm, P1, chunk', P1) BY <2>1, <3>1, PatchWired
    <3>3. Carries(chunk, P, chunk', P1) BY <1>5, <3>1, <3>2, CarriesOn
    <3> QED BY <3>1, <3>3
  <2>2. CASE Inside("if", "else") /\ chunk' = Patch(BlockEnd, Cur.jumps)
    <3>1. PICK P1 : Carries(chunk, P, BlockEnd, P1) /\ Last(P1) = D /\ Knit(BlockEnd, P1)
      BY <1>2, <1>4, <1>5, BlockSewed
    <3>2. \A p \in Cur.jumps : Hole(chunk, P, p, D) BY <1>2, <1>5 DEF Tied
    <3>3. \A p \in Cur.jumps : Hole(BlockEnd, P1, p, Last(P1)) BY <1>5, <3>1, <3>2, HoleOn
    <3>4. Carries(BlockEnd, P1, chunk', P1) BY <2>2, <3>1, <3>3, PatchWired
    <3>5. Carries(chunk, P, chunk', P1) BY <1>5, <3>1, <3>4, CarriesOn
    <3> QED BY <3>1, <3>5
  <2> QED BY <1>0, <2>1, <2>2
<1> QED BY <1>2, <1>3, <1>4, <1>6, LacesClosed

(* A loop that ends: its jumps know what was known where it began.         *)
LEMMA LoopLaced ==
  ASSUME Now, NEW kind \in LoopKinds, NEW arm, Inside(kind, arm),
         NEW P, Laced(chunk, P, open, locals, loopStack)
  PROVE  LET l == Last(loopStack) IN
         /\ Tied(chunk, P, Cur, l, locals) /\ Knit(chunk, P) /\ open # <<>> /\ loopStack # <<>>
         /\ Cur.kind = kind /\ Cur.arm = arm
         /\ Cur.h \in Nat /\ Cur.h \in 0..Len(locals)
         /\ \A p \in l.breaks \cup l.continues : Hole(chunk, P, p, Label(locals, l.count))
<1>1. /\ open # <<>> /\ Cur.kind = kind /\ Cur.arm = arm /\ IsLoop(Cur) /\ Last(loopStack) = loopStack[Cur.n + 1]
  BY LoopEnds
<1>2. /\ Tied(chunk, P, Cur, loopStack[Cur.n + 1], locals) /\ Knit(chunk, P)
      /\ Cur.h \in Nat /\ Cur.h \in 0..Len(locals)
  BY <1>1, CurTied
<1>3. loopStack # <<>>
  <2>1. /\ open \in Seq(Statement) /\ locals \in Seq(Local) /\ loopStack \in Seq(LoopRecord)
        /\ Nesting(open, locals, scopeDepth, loopStack)
    BY NowIs
  <2>2. Cur = open[Len(open)] /\ Len(open) \in DOMAIN open BY <1>1, CurIs
  <2>3. Cur.n + 1 \in DOMAIN loopStack BY <1>1, <2>1, <2>2, LevelIs
  <2> QED BY <2>3
<1> DEFINE l == Last(loopStack)
<1>4. Tied(chunk, P, Cur, l, locals) BY <1>1, <1>2
<1> HIDE DEF l
<1>5. \A p \in l.breaks \cup l.continues : Hole(chunk, P, p, Label(locals, l.count)) BY <1>1, <1>4 DEF Tied
<1> QED BY <1>1, <1>2, <1>3, <1>4, <1>5 DEF l

(* The jump back; what comes next is reached from elsewhere.               *)
LEMMA LoopSewed ==
  ASSUME Now, NEW c, NEW P, Knit(c, P), NEW x, Back(P, x, Last(P)),
         NEW h \in Nat, Len(Last(P)) <= h, NEW E \in Seq(Nat)
  PROVE  \E P2 : /\ Carries(c, P, Append(c, Ins("LOOP", x, 0, h)), P2) /\ Last(P2) = E
                 /\ Knit(Append(c, Ins("LOOP", x, 0, h)), P2)
<1> DEFINE i == Ins("LOOP", x, 0, h)
           D == Last(P)
<1>1. Len(D) \in Nat /\ 0 \in Nat /\ Back(P, x, D) /\ Len(D) <= h BY KnitIs
<1> HIDE DEF D
<1>2. Calm(c, P, {Len(c) + 1}, D, i) BY <1>1, CalmLoop
<1>3. i.op \in {"JUMP", "LOOP"} BY DEF Ins, InsIn
<1> HIDE DEF i
<1>4. Calm(c, P, {Len(c) + 1}, Last(P), i) BY <1>2 DEF D
<1>5. \E P2 : /\ Carries(c, P, Append(c, i), P2) /\ Last(P2) = E
              /\ Knit(Append(c, i), P2) /\ Len(Append(c, i)) = Len(c) + 1
              /\ i.op = "JUMP" => Hole(Append(c, i), P2, Len(c) + 1, Last(P))
  BY <1>3, <1>4, Leaps
<1> QED BY <1>5 DEF i

(* The test of a loop that failed is popped where its jump arrives.        *)
LEMMA ExitSewed ==
  ASSUME Now, NEW c, NEW P, Knit(c, P), NEW j, Hole(c, P, j, Last(P)),
         NEW h \in Nat, Len(Last(P)) <= h
  PROVE  LET c2 == Append(Patch(c, {j}), Ins("POP", 0, 0, h)) IN
         \E P2 : Carries(c, P, c2, P2) /\ Last(P2) = Last(P) /\ Knit(c2, P2)
<1> DEFINE D == Last(P)
           c1 == Patch(c, {j})
<1>1. D \in Seq(Nat) BY KnitIs
<1>2. Carries(c, P, c1, P) /\ Knit(c1, P)
  <2>1. \A p \in {j} : Hole(c, P, p, Last(P)) OBVIOUS
  <2> QED BY <2>1, PatchWired
<1> HIDE DEF c1
<1>3. "POP" \in Placid BY DEF Placid
<1>4. Knows(Last(P), D) /\ Len(D) <= h BY KnowsSelf
<1> HIDE DEF D
<1>5. \E P2 : /\ Carries(c1, P, Append(c1, Ins("POP", 0, 0, h)), P2) /\ Last(P2) = D
              /\ Knit(Append(c1, Ins("POP", 0, 0, h)), P2)
              /\ Len(Append(c1, Ins("POP", 0, 0, h))) = Len(c1) + 1
              /\ "POP" \in Targeted => Hole(Append(c1, Ins("POP", 0, 0, h)), P2, Len(c1) + 1, D)
  BY <1>1, <1>2, <1>3, <1>4, QuietSewed
<1>6. PICK P2 : Carries(c1, P, Append(c1, Ins("POP", 0, 0, h)), P2) /\ Last(P2) = D
                /\ Knit(Append(c1, Ins("POP", 0, 0, h)), P2)
  BY <1>5
<1>7. Carries(c, P, Append(c1, Ins("POP", 0, 0, h)), P2) BY <1>2, <1>6, CarriesOn
<1> QED BY <1>6, <1>7 DEF D, c1

(* The end of a while keeps the labels. *)
LEMMA WhileCloseLaces == ASSUME Now, Then, Laces, WhileClose PROVE Laces'
<1> DEFINE h == Cur.h
           D == Label(locals, h)
           l == Last(loopStack)
           looped == Append(BlockEnd, Ins("LOOP", Cur.a, 0, h))
           exited == Patch(looped, {Cur.j})
           popped == IF Cur.arm = "lt" THEN exited
                     ELSE Append(exited, Ins("POP", 0, 0, h + 1))
<1>0. "while" \in LoopKinds BY DEF LoopKinds
<1>1. PICK arm \in {"cond", "lt"} : Inside("while", arm) BY DEF WhileClose
<1>2. PICK P : Laced(chunk, P, open, locals, loopStack) BY DEF Laces
<1>3. /\ Tied(chunk, P, Cur, l, locals) /\ Knit(chunk, P) /\ open # <<>> /\ loopStack # <<>>
      /\ Cur.kind = "while" /\ Cur.arm = arm /\ h \in Nat /\ h \in 0..Len(locals)
      /\ \A p \in l.breaks \cup l.continues : Hole(chunk, P, p, Label(locals, l.count))
  BY <1>0, <1>1, <1>2, LoopLaced
<1>4. Split(locals, scopeDepth - 1, h) /\ l.count = h
  <2>1. Cur \in Statement /\ Cur.d \in Nat /\ scopeDepth = Cur.d + Extra(Cur) /\ LoopOK(Cur, l, locals)
    BY <1>0, <1>1, LoopEnds
  <2>2. scopeDepth - 1 = Cur.d + 1 BY <1>3, <2>1, ExtraIs
  <2> QED BY <1>3, <2>1, <2>2 DEF LoopOK
<1>5. After = SubSeq(locals, 1, h) /\ EndHeight = h BY <1>3, <1>4, BlockEnded
<1>6. /\ chunk' = Patch(popped, l.breaks) /\ locals' = SubSeq(locals, 1, h)
      /\ loopStack' = ButLast(loopStack, 1) /\ open' = ButLast(open, 1)
  BY <1>5 DEF WhileClose, Close
<1>7. D \in Seq(Nat) /\ Len(D) = h /\ h \in 0..h /\ h <= h /\ h + 1 \in Nat /\ h <= h + 1
  BY <1>3, LabelBelow
<1>8. Back(P, Cur.a, D) /\ Hole(chunk, P, Cur.j, D) BY <1>3 DEF Tied
<1>9. \A p \in l.breaks : Hole(chunk, P, p, D) BY <1>3, <1>4
<1>10. PICK P1 : Carries(chunk, P, BlockEnd, P1) /\ Last(P1) = D /\ Knit(BlockEnd, P1)
  BY <1>2, <1>3, <1>4, <1>7, BlockSewed
<1> HIDE DEF D, h, l
<1>11. PICK P2 : Carries(BlockEnd, P1, looped, P2) /\ Last(P2) = D /\ Knit(looped, P2)
  <2>1. Back(P1, Cur.a, Last(P1)) BY <1>3, <1>8, <1>10, BackOn
  <2>2. Len(Last(P1)) <= h BY <1>7, <1>10
  <2> QED BY <1>3, <1>7, <1>10, <2>1, <2>2, LoopSewed
<1> HIDE DEF looped
<1>12. Carries(chunk, P, looped, P2) BY <1>3, <1>10, <1>11, CarriesOn
<1>13. Hole(looped, P2, Cur.j, Last(P2)) BY <1>3, <1>8, <1>11, <1>12, HoleOn
<1>14. \E Q : Carries(looped, P2, popped, Q) /\ Last(Q) = D /\ Knit(popped, Q)
  <2>1. CASE Cur.arm = "lt"
    <3>1. \A p \in {Cur.j} : Hole(looped, P2, p, Last(P2)) BY <1>13
    <3>2. Carries(looped, P2, exited, P2) /\ Knit(exited, P2) BY <1>11, <3>1, PatchWired
    <3> QED BY <1>11, <2>1, <3>2
  <2>2. CASE Cur.arm # "lt"
    <3>1. Len(Last(P2)) <= h + 1 BY <1>7, <1>11
    <3> QED BY <1>7, <1>11, <1>13, <2>2, <3>1, ExitSewed
  <2> QED BY <2>1, <2>2
<1> HIDE DEF popped
<1>15. PICK P3 : Carries(looped, P2, popped, P3) /\ Last(P3) = D /\ Knit(popped, P3) BY <1>14
<1>16. Carries(chunk, P, popped, P3) BY <1>3, <1>12, <1>15, CarriesOn
<1>17. \A p \in l.breaks : Hole(popped, P3, p, Last(P3)) BY <1>3, <1>9, <1>15, <1>16, HoleOn
<1>18. Carries(popped, P3, chunk', P3) BY <1>6, <1>15, <1>17, PatchWired
<1>19. Carries(chunk, P, chunk', P3) BY <1>3, <1>16, <1>18, CarriesOn
<1> QED BY <1>2, <1>3, <1>6, <1>15, <1>19, LacesClosed DEF D, h

(* The end of a do-while keeps the labels. *)
LEMMA DoCloseLaces == ASSUME Now, Then, Laces, DoClose PROVE Laces'
<1> DEFINE h == Cur.h
           D == Label(locals, h)
           l == Last(loopStack)
           resumed == Patch(chunk, l.continues)
           c1 == resumed \o Condition(h)
           j == Len(resumed) + 2
           looped == Append(c1, Ins("LOOP", Cur.a, 0, h))
           exited == Append(Patch(looped, {j}), Ins("POP", 0, 0, h + 1))
           left == Patch(exited, l.breaks)
<1>0. "do" \in LoopKinds /\ Inside("do", "body") BY DEF LoopKinds, DoClose
<1>1. PICK P : Laced(chunk, P, open, locals, loopStack) BY DEF Laces
<1>2. /\ Tied(chunk, P, Cur, l, locals) /\ Knit(chunk, P) /\ open # <<>> /\ loopStack # <<>>
      /\ Cur.kind = "do" /\ h \in Nat /\ h \in 0..Len(locals) /\ h + 1 \in Nat /\ h <= h /\ h <= h + 1
      /\ \A p \in l.breaks \cup l.continues : Hole(chunk, P, p, Label(locals, l.count))
  BY <1>0, <1>1, LoopLaced
<1>3. /\ Split(locals, scopeDepth - 1, h) /\ l.count = h /\ scopeDepth - 1 \in Int /\ locals \in Seq(Local)
      /\ Cur.a \in Nat /\ Ctx \in Context
  <2>1. /\ Cur \in Statement /\ Cur.d \in Nat /\ scopeDepth = Cur.d + Extra(Cur) /\ LoopOK(Cur, l, locals)
        /\ Split(locals, Cur.d, h) /\ locals \in Seq(Local) /\ Cur.a \in Nat /\ Ctx \in Context
    BY <1>0, LoopEnds
  <2>2. scopeDepth - 1 = Cur.d /\ scopeDepth - 1 \in Int BY <1>2, <2>1, ExtraIs
  <2> QED BY <1>2, <2>1, <2>2 DEF LoopOK
<1>4. Height = h
  <2>1. /\ open \in Seq(Statement) /\ scopeDepth \in Nat /\ locals \in Seq(Local)
        /\ loopStack \in Seq(LoopRecord) /\ Nesting(open, locals, scopeDepth, loopStack)
    BY NowIs
  <2>2. Last(open).kind = "do" BY <1>2 DEF Cur
  <2>3. Len(locals) = Last(open).h BY <1>2, <2>1, <2>2, NestingPop
  <2> QED BY <2>3 DEF Cur, Height
<1>5. D \in Seq(Nat) /\ Len(D) = h /\ h \in 0..h BY <1>2, LabelBelow
<1>6. Last(P) = D
  <2>1. Last(P) = Full(locals) BY <1>1 DEF Laced
  <2> QED BY <1>4, <2>1 DEF Full, Height
<1>7. Back(P, Cur.a, D) BY <1>2 DEF Tied
<1>8. (\A p \in l.breaks : Hole(chunk, P, p, D)) /\ (\A p \in l.continues : Hole(chunk, P, p, Last(P)))
  BY <1>2, <1>3, <1>6
<1> HIDE DEF D
<1>9. Carries(chunk, P, resumed, P) /\ Knit(resumed, P) BY <1>2, <1>8, PatchWired
<1>10. /\ chunk' = left \o EndScopeCode(locals, scopeDepth - 1)
       /\ locals' = SubSeq(locals, 1, h)
       /\ loopStack' = ButLast(loopStack, 1) /\ open' = ButLast(open, 1)
  <2>1. chunk' = Patch(Append(Patch(resumed \o Condition(Height) \o <<Ins("LOOP", Cur.a, 0, Height)>>,
                                    {Len(resumed) + 2}),
                              Ins("POP", 0, 0, Height + 1)), l.breaks)
                   \o EndScopeCode(locals, scopeDepth - 1)
    BY DEF DoClose
  <2>2. resumed \o Condition(Height) \o <<Ins("LOOP", Cur.a, 0, Height)>> = looped
    <3>2. Ins("LOOP", Cur.a, 0, h) \in Instruction BY <1>2, <1>3, OpsAre, InsInIs DEF Ins
    <3>3. resumed \in Seq(Instruction) BY <1>9, KnitIs
    <3> HIDE DEF resumed
    <3>4. c1 \in Seq(Instruction)
      <4>1. \A x \in Nat : InsIn(Ctx, "CONSTANT", 0, 0, {}, x) \in Instruction
        BY <1>3, OpsAre, InsInIs
      <4>2. \A x \in Nat : InsIn(Ctx, "JUMP_IF_FALSE", 0, 0, {}, x) \in Instruction
        BY <1>3, OpsAre, InsInIs
      <4>3. \A x \in Nat : InsIn(Ctx, "POP", 0, 0, {}, x) \in Instruction
        BY <1>3, OpsAre, InsInIs
      <4> HIDE DEF h
      <4>4. Condition(h) \in Seq(Instruction) BY <1>2, <4>1, <4>2, <4>3 DEF Condition, Ins
      <4> QED BY <3>3, <4>4
    <3> HIDE DEF c1
    <3>5. resumed \o Condition(Height) = c1 BY <1>4 DEF c1
    <3> DEFINE i == Ins("LOOP", Cur.a, 0, h)
    <3> HIDE DEF i
    <3>6. c1 \o <<i>> = Append(c1, i) BY <3>2, <3>4 DEF i
    <3> QED BY <1>4, <3>5, <3>6 DEF i
  <2>3. Kept(locals, scopeDepth - 1) = SubSeq(locals, 1, h) BY <1>2, <1>3, BlockEnded DEF After
  <2> HIDE DEF resumed, c1, h
  <2>4. chunk' = left \o EndScopeCode(locals, scopeDepth - 1) BY <1>4, <2>1, <2>2 DEF h
  <2> QED BY <2>3, <2>4 DEF DoClose, Close, After
<1> HIDE DEF h, l, resumed
<1>11. PICK P1 : /\ Carries(resumed, P, c1, P1) /\ Last(P1) = D /\ Knit(c1, P1) /\ Hole(c1, P1, j, D)
  <2>1. Knows(Last(P), D) BY <1>6, KnowsSelf
  <2>2. \E P2 : /\ Carries(resumed, P, resumed \o Condition(h), P2) /\ Last(P2) = D
                /\ Knit(resumed \o Condition(h), P2) /\ Len(resumed \o Condition(h)) = Len(resumed) + 3
                /\ Hole(resumed \o Condition(h), P2, Len(resumed) + 2, D) /\ Back(P2, Len(resumed) + 1, D)
    BY <1>2, <1>5, <1>9, <2>1, ConditionSewed
  <2> QED BY <2>2
<1>12. Carries(chunk, P, c1, P1) BY <1>2, <1>9, <1>11, CarriesOn
<1> HIDE DEF c1, j
<1>13. PICK P2 : Carries(c1, P1, looped, P2) /\ Last(P2) = D /\ Knit(looped, P2)
  <2>1. Back(P1, Cur.a, Last(P1)) BY <1>2, <1>7, <1>11, <1>12, BackOn
  <2>2. Len(Last(P1)) <= h BY <1>5, <1>11
  <2> QED BY <1>2, <1>5, <1>11, <2>1, <2>2, LoopSewed
<1> HIDE DEF looped
<1>14. PICK P3 : Carries(looped, P2, exited, P3) /\ Last(P3) = D /\ Knit(exited, P3)
  <2>1. Hole(looped, P2, j, Last(P2)) BY <1>11, <1>13, HoleOn
  <2>2. Len(Last(P2)) <= h + 1 BY <1>2, <1>5, <1>13
  <2>3. \E Q : Carries(looped, P2, exited, Q) /\ Last(Q) = Last(P2) /\ Knit(exited, Q)
    BY <1>2, <1>13, <2>1, <2>2, ExitSewed
  <2> QED BY <1>13, <2>3
<1> HIDE DEF exited
<1>15. Carries(chunk, P, exited, P3)
  <2>1. Carries(chunk, P, looped, P2) BY <1>2, <1>12, <1>13, CarriesOn
  <2> QED BY <1>2, <1>14, <2>1, CarriesOn
<1>16. Carries(exited, P3, left, P3) /\ Knit(left, P3)
  <2>1. \A p \in l.breaks : Hole(exited, P3, p, Last(P3)) BY <1>2, <1>8, <1>14, <1>15, HoleOn
  <2> QED BY <1>14, <2>1, PatchWired
<1> HIDE DEF left
<1>17. PICK P4 : Carries(left, P3, chunk', P4) /\ Last(P4) = D
  <2>1. Knows(Last(P3), D) /\ Len(D) <= h BY <1>2, <1>5, <1>14, KnowsSelf
  <2>2. \E Q : /\ Carries(left, P3, left \o EndScopeCode(locals, scopeDepth - 1), Q) /\ Last(Q) = D
               /\ Knit(left \o EndScopeCode(locals, scopeDepth - 1), Q)
    BY <1>2, <1>3, <1>5, <1>16, <2>1, ScopeSewed
  <2> QED BY <1>10, <2>2
<1>18. Carries(chunk, P, chunk', P4)
  <2>1. Carries(chunk, P, left, P3) BY <1>2, <1>15, <1>16, CarriesOn
  <2> QED BY <1>2, <1>17, <2>1, CarriesOn
<1> QED BY <1>1, <1>2, <1>10, <1>17, <1>18, LacesClosed DEF D, h

(* The end of the scope around a loop forgets what the loop declared. *)
LEMMA OuterSewed ==
  ASSUME Now, NEW k \in 0..Len(locals), NEW d \in Int, NEW m \in Nat, Split(locals, d, m), m <= k,
         NEW c, NEW P, Knit(c, P), Last(P) = Label(locals, k)
  PROVE  /\ \E P1 : /\ Carries(c, P, c \o EndScopeCode(SubSeq(locals, 1, k), d), P1)
                    /\ Last(P1) = Label(locals, m)
                    /\ Knit(c \o EndScopeCode(SubSeq(locals, 1, k), d), P1)
         /\ Kept(SubSeq(locals, 1, k), d) = SubSeq(locals, 1, m)
<1> DEFINE ls == SubSeq(locals, 1, k)
           D == Label(locals, m)
<1>1. locals \in Seq(Local) /\ Len(locals) \in Nat BY FullIs
<1>2. ls \in Seq(Local) /\ Len(ls) = k BY <1>1
<1>3. Split(ls, d, m) BY <1>1, SplitCut
<1>4. m \in 0..k BY <1>1
<1>5. D \in Seq(Nat) /\ Len(D) <= m /\ Knows(Last(P), D) BY <1>4, LabelBelow
<1>6. Kept(ls, d) = SubSeq(locals, 1, m)
  <2>1. SubSeq(ls, 1, m) = SubSeq(locals, 1, m) BY <1>1
  <2>2. Len(Label(ls, m)) \in Nat /\ Len(Label(ls, m)) <= m
    <3>1. m <= Len(ls) BY <1>2
    <3> HIDE DEF ls
    <3> QED BY <1>2, <3>1, LabelIs
  <2> HIDE DEF ls
  <2>3. Kept(ls, d) = SubSeq(ls, 1, m) BY <1>2, <1>3, <2>2, CalmEnd
  <2> QED BY <2>1, <2>3
<1> HIDE DEF ls, D
<1>7. \E P1 : /\ Carries(c, P, c \o EndScopeCode(ls, d), P1) /\ Last(P1) = D
              /\ Knit(c \o EndScopeCode(ls, d), P1)
  BY <1>2, <1>3, <1>5, ScopeSewed
<1> QED BY <1>6, <1>7 DEF ls, D

(* A value computed and dropped.                                           *)
LEMMA StepSewed ==
  ASSUME Now, NEW c, NEW P, Knit(c, P), NEW h \in Nat, Len(Last(P)) <= h
  PROVE  LET c2 == Append(Append(c, Ins("CONSTANT", 0, 0, h)), Ins("POP", 0, 0, h + 1)) IN
         \E P2 : Carries(c, P, c2, P2) /\ Last(P2) = Last(P) /\ Knit(c2, P2)
<1> DEFINE D == Last(P)
           c1 == Append(c, Ins("CONSTANT", 0, 0, h))
           c2 == Append(c1, Ins("POP", 0, 0, h + 1))
<1>1. D \in Seq(Nat) /\ Len(D) <= h /\ Len(D) <= h + 1 /\ h + 1 \in Nat BY KnitIs
<1>2. "POP" \in Placid /\ "CONSTANT" \in Placid BY DEF Placid
<1>3. Knows(Last(P), D) BY KnowsSelf
<1> HIDE DEF D
<1>4. PICK P1 : Carries(c, P, c1, P1) /\ Last(P1) = D /\ Knit(c1, P1)
  <2>1. \E Q : /\ Carries(c, P, Append(c, Ins("CONSTANT", 0, 0, h)), Q) /\ Last(Q) = D
               /\ Knit(Append(c, Ins("CONSTANT", 0, 0, h)), Q)
               /\ Len(Append(c, Ins("CONSTANT", 0, 0, h))) = Len(c) + 1
               /\ "CONSTANT" \in Targeted => Hole(Append(c, Ins("CONSTANT", 0, 0, h)), Q, Len(c) + 1, D)
    BY <1>1, <1>2, <1>3, QuietSewed
  <2> QED BY <2>1
<1> HIDE DEF c1
<1>5. PICK P2 : Carries(c1, P1, c2, P2) /\ Last(P2) = D /\ Knit(c2, P2)
  <2>1. Knows(Last(P1), D) BY <1>4, KnowsSelf
  <2> DEFINE k == h + 1
  <2> HIDE DEF k
  <2>2. \E Q : /\ Carries(c1, P1, Append(c1, Ins("POP", 0, 0, k)), Q) /\ Last(Q) = D
               /\ Knit(Append(c1, Ins("POP", 0, 0, k)), Q)
               /\ Len(Append(c1, Ins("POP", 0, 0, k))) = Len(c1) + 1
               /\ "POP" \in Targeted => Hole(Append(c1, Ins("POP", 0, 0, k)), Q, Len(c1) + 1, D)
    BY <1>1, <1>2, <1>4, <2>1, QuietSewed DEF k
  <2> QED BY <2>2 DEF k
<1>6. Carries(c, P, c2, P2) BY <1>4, <1>5, CarriesOn
<1> QED BY <1>5, <1>6 DEF D, c1

(* The end of a for keeps the labels. *)
LEMMA ForCloseLaces == ASSUME Now, Then, Laces, ForClose PROVE Laces'
<1> DEFINE h == Cur.h
           l == Last(loopStack)
           n == l.count
           D == Label(locals, n)
           resumed == Patch(BlockEnd, l.continues)
           i1 == Ins("CONSTANT", 0, 0, n)
           i2 == Ins("POP", 0, 0, n + 1)
           i3 == Ins("LOOP", Cur.a, 0, n)
           c2 == Append(Append(resumed, i1), i2)
           looped == Append(c2, i3)
           popped == Append(Patch(looped, {Cur.j}), i2)
           exited == IF Cur.j = 0 THEN looped ELSE popped
           left == Patch(exited, l.breaks)
<1>0. "for" \in LoopKinds /\ Inside("for", "body") BY DEF LoopKinds, ForClose
<1>1. PICK P : Laced(chunk, P, open, locals, loopStack) BY DEF Laces
<1>2. /\ Tied(chunk, P, Cur, l, locals) /\ Knit(chunk, P) /\ open # <<>> /\ loopStack # <<>>
      /\ Cur.kind = "for" /\ h \in Nat /\ h \in 0..Len(locals)
      /\ \A p \in l.breaks \cup l.continues : Hole(chunk, P, p, D)
  BY <1>0, <1>1, LoopLaced
<1>3. /\ Split(locals, Cur.d + 1, n) /\ Split(locals, Cur.d, h) /\ n \in {h, h + 1} /\ n \in Nat
      /\ scopeDepth - 1 = Cur.d + 1 /\ scopeDepth - 2 = Cur.d /\ Cur.d \in Int
      /\ Cur.a \in Nat /\ Cur.j \in Nat /\ Ctx \in Context /\ locals \in Seq(Local)
  <2>1. /\ Cur \in Statement /\ Cur.d \in Nat /\ scopeDepth = Cur.d + Extra(Cur) /\ LoopOK(Cur, l, locals)
        /\ Split(locals, Cur.d, h) /\ Cur.a \in Nat /\ Cur.j \in Nat /\ Ctx \in Context
        /\ locals \in Seq(Local) /\ n \in Nat
    BY <1>0, LoopEnds
  <2>2. scopeDepth - 1 = Cur.d + 1 /\ scopeDepth - 2 = Cur.d
    <3>1. Cur \in Statement /\ Cur.kind = "for" /\ Cur.d \in Nat /\ scopeDepth = Cur.d + Extra(Cur)
      BY <1>2, <2>1
    <3> QED BY ONLY <3>1, ExtraIs
  <2>3. Split(locals, Cur.d + 1, n) /\ n \in {h, h + 1} BY ONLY <1>2, <2>1 DEF LoopOK
  <2> QED BY <2>1, <2>2, <2>3
<1>4. /\ After = SubSeq(locals, 1, n) /\ EndHeight = n /\ n \in 0..Len(locals)
      /\ h <= n /\ n \in 0..n /\ n + 1 \in Nat /\ n <= n + 1 /\ n <= n
  <2> HIDE DEF h, n
  <2>1. Split(locals, scopeDepth - 1, n) BY <1>3
  <2>2. /\ After = SubSeq(locals, 1, n) /\ EndHeight = n /\ n <= Height BY <1>3, <2>1, BlockEnded
  <2>3. Height = Len(locals) /\ Height \in Nat BY FullIs
  <2> QED BY <1>2, <1>3, <2>2, <2>3
<1>5. D \in Seq(Nat) /\ Len(D) = n BY <1>4, LabelBelow
<1>6. Back(P, Cur.a, D) /\ (Cur.j # 0 => Hole(chunk, P, Cur.j, D)) BY <1>2 DEF Tied
<1>7. PICK P1 : Carries(chunk, P, BlockEnd, P1) /\ Last(P1) = D /\ Knit(BlockEnd, P1)
  <2>1. Split(locals, scopeDepth - 1, n) BY <1>3
  <2> QED BY <1>1, <1>3, <1>4, <2>1, BlockSewed
<1> HIDE DEF D
<1>8. Carries(BlockEnd, P1, resumed, P1) /\ Knit(resumed, P1)
  <2>1. \A p \in l.continues : Hole(BlockEnd, P1, p, Last(P1)) BY <1>2, <1>7, HoleOn
  <2> QED BY <1>7, <2>1, PatchWired
<1>9. Carries(chunk, P, resumed, P1) BY <1>2, <1>7, <1>8, CarriesOn
<1>10. i1 \in Instruction /\ i2 \in Instruction /\ i3 \in Instruction BY <1>3, <1>4, OpsAre, InsInIs DEF Ins
<1>11. looped = resumed \o <<i1, i2, i3>>
  <2>1. resumed \in Seq(Instruction) BY <1>8, KnitIs
  <2> HIDE DEF resumed, i1, i2, i3
  <2> QED BY <1>10, <2>1, Cat3
<1>12. /\ chunk' = left \o EndScopeCode(SubSeq(locals, 1, n), Cur.d)
       /\ locals' = Kept(SubSeq(locals, 1, n), Cur.d)
       /\ loopStack' = ButLast(loopStack, 1) /\ open' = ButLast(open, 1)
  <2>1. /\ Ins("CONSTANT", 0, 0, EndHeight) = i1 /\ Ins("POP", 0, 0, EndHeight + 1) = i2
        /\ Ins("LOOP", Cur.a, 0, EndHeight) = i3
    BY <1>4
  <2>2. /\ chunk' = Patch(IF Cur.j = 0 THEN resumed \o <<i1, i2, i3>>
                          ELSE Append(Patch(resumed \o <<i1, i2, i3>>, {Cur.j}), i2), l.breaks)
                      \o EndScopeCode(After, scopeDepth - 2)
        /\ locals' = Kept(After, scopeDepth - 2)
        /\ loopStack' = ButLast(loopStack, 1) /\ open' = ButLast(open, 1)
    <3> HIDE DEF i1, i2, i3
    <3> QED BY <2>1 DEF ForClose, Close
  <2> HIDE DEF resumed, i1, i2, i3, looped
  <2> QED BY <1>3, <1>4, <1>11, <2>2
<1> HIDE DEF h, l, n, resumed
<1>13. PICK P2 : Carries(resumed, P1, c2, P2) /\ Last(P2) = D /\ Knit(c2, P2)
  <2>1. Len(Last(P1)) <= n BY <1>4, <1>5, <1>7
  <2>2. \E Q : Carries(resumed, P1, c2, Q) /\ Last(Q) = Last(P1) /\ Knit(c2, Q)
    BY <1>3, <1>8, <2>1, StepSewed
  <2> QED BY <1>7, <2>2
<1>14. Carries(chunk, P, c2, P2) BY <1>2, <1>9, <1>13, CarriesOn
<1> HIDE DEF c2
<1>15. PICK P3 : Carries(c2, P2, looped, P3) /\ Last(P3) = D /\ Knit(looped, P3)
  <2>1. Back(P2, Cur.a, Last(P2)) BY <1>2, <1>6, <1>13, <1>14, BackOn
  <2>2. Len(Last(P2)) <= n BY <1>4, <1>5, <1>13
  <2> QED BY <1>3, <1>5, <1>13, <2>1, <2>2, LoopSewed
<1> HIDE DEF looped
<1>16. Carries(chunk, P, looped, P3) BY <1>2, <1>14, <1>15, CarriesOn
<1>17. \E Q : Carries(looped, P3, exited, Q) /\ Last(Q) = D /\ Knit(exited, Q)
  <2>1. CASE Cur.j = 0
    <3>1. Carries(looped, P3, looped, P3) BY <1>15, CarriesIs
    <3> QED BY <1>15, <2>1, <3>1
  <2>2. CASE Cur.j # 0
    <3>1. Hole(looped, P3, Cur.j, Last(P3)) BY <1>2, <1>6, <1>15, <1>16, <2>2, HoleOn
    <3>2. Len(Last(P3)) <= n + 1 BY <1>4, <1>5, <1>15
    <3>3. \E Q : Carries(looped, P3, popped, Q) /\ Last(Q) = Last(P3) /\ Knit(popped, Q)
      BY <1>4, <1>15, <3>1, <3>2, ExitSewed
    <3> QED BY <1>15, <2>2, <3>3
  <2> QED BY <2>1, <2>2
<1> HIDE DEF exited, popped
<1>18. PICK P4 : Carries(looped, P3, exited, P4) /\ Last(P4) = D /\ Knit(exited, P4) BY <1>17
<1>19. Carries(chunk, P, exited, P4) BY <1>2, <1>16, <1>18, CarriesOn
<1>20. Carries(exited, P4, left, P4) /\ Knit(left, P4)
  <2>1. \A p \in l.breaks : Hole(exited, P4, p, Last(P4)) BY <1>2, <1>18, <1>19, HoleOn
  <2> QED BY <1>18, <2>1, PatchWired
<1> HIDE DEF left
<1>21. /\ \E P5 : Carries(left, P4, chunk', P5) /\ Last(P5) = Label(locals, h)
       /\ locals' = SubSeq(locals, 1, h)
  <2>1. h \in Nat /\ n \in 0..Len(locals) /\ Last(P4) = Label(locals, n) BY <1>2, <1>4, <1>18 DEF D
  <2>2. /\ \E P1x : /\ Carries(left, P4, left \o EndScopeCode(SubSeq(locals, 1, n), Cur.d), P1x)
                    /\ Last(P1x) = Label(locals, h)
                    /\ Knit(left \o EndScopeCode(SubSeq(locals, 1, n), Cur.d), P1x)
        /\ Kept(SubSeq(locals, 1, n), Cur.d) = SubSeq(locals, 1, h)
    BY <1>3, <1>4, <1>20, <2>1, OuterSewed
  <2> QED BY <1>12, <2>2
<1>22. PICK P5 : Carries(left, P4, chunk', P5) /\ Last(P5) = Label(locals, h) BY <1>21
<1>23. Carries(chunk, P, chunk', P5)
  <2>1. Carries(chunk, P, left, P4) BY <1>2, <1>19, <1>20, CarriesOn
  <2> QED BY <1>2, <1>22, <2>1, CarriesOn
<1> QED BY <1>1, <1>2, <1>12, <1>21, <1>22, <1>23, LacesClosed DEF h

(* Pops above what is known leave it known. *)
LEMMA PopsSewed ==
  ASSUME Now, NEW c, NEW P, Knit(c, P), NEW D \in Seq(Nat), Knows(Last(P), D),
         NEW n \in Nat, NEW h \in Nat, n + Len(D) <= h
  PROVE  \E P2 : Carries(c, P, c \o Pops(n, h), P2) /\ Last(P2) = D /\ Knit(c \o Pops(n, h), P2)
<1> DEFINE t == Pops(n, h)
<1>1. Len(D) \in Nat OBVIOUS
<1>2. t \in Seq(Calming(c, P, n, D)) /\ Len(t) = n BY <1>1, CalmPops
<1> HIDE DEF t
<1>3. \E P1 : /\ Carries(c, P, c \o t, P1) /\ Last(P1) = D /\ Len(c \o t) = Len(c) + n
              /\ Knit(c \o t, P1) /\ n \in Nat
              /\ \A k \in 1..n : t[k].op \in Targeted => Hole(c \o t, P1, Len(c) + k, D)
              /\ \A q \in Block(c, n) : Back(P1, q, D)
  BY <1>2, Sewed
<1> QED BY <1>3 DEF t

(* The end of a for-each keeps the labels. *)
LEMMA ForEachCloseLaces == ASSUME Now, Then, Laces, ForEachClose PROVE Laces'
<1> DEFINE h == Cur.h
           l == Last(loopStack)
           n == Cur.b
           k == l.count
           D == Label(locals, k)
           E == Label(locals, h)
           unbound == BlockEnd \o Pops(n, k + n)
           i == Ins("LOOP", Cur.a, 0, k)
           looped == Append(unbound, i)
           patched == Patch(looped, {Cur.a})
           exited == patched \o Pops(n + 1, k)
<1>0. "foreach" \in LoopKinds /\ Inside("foreach", "body") BY DEF LoopKinds, ForEachClose
<1>1. PICK P : Laced(chunk, P, open, locals, loopStack) BY DEF Laces
<1>2. /\ Tied(chunk, P, Cur, l, locals) /\ Knit(chunk, P) /\ open # <<>> /\ loopStack # <<>>
      /\ Cur.kind = "foreach" /\ h \in Nat /\ h \in 0..Len(locals)
  BY <1>0, <1>1, LoopLaced
<1>3. /\ n >= 1 /\ k = h + n + 1 /\ Split(locals, Cur.d + 1, k) /\ Split(locals, Cur.d + 2, k + n)
      /\ l.breaks = {} /\ n \in Nat /\ k \in Nat /\ Cur.d \in Nat
      /\ scopeDepth - 1 = Cur.d + 2 /\ scopeDepth - 2 = Cur.d + 1 /\ scopeDepth - 3 = Cur.d
      /\ Cur.a \in Nat /\ Ctx \in Context /\ locals \in Seq(Local)
  <2>1. /\ Cur \in Statement /\ Cur.d \in Nat /\ scopeDepth = Cur.d + Extra(Cur) /\ LoopOK(Cur, l, locals)
        /\ Cur.a \in Nat /\ Ctx \in Context /\ locals \in Seq(Local) /\ n \in Nat /\ k \in Nat
    BY <1>0, LoopEnds
  <2>2. scopeDepth - 1 = Cur.d + 2 /\ scopeDepth - 2 = Cur.d + 1 /\ scopeDepth - 3 = Cur.d
    <3>1. Cur \in Statement /\ Cur.kind = "foreach" /\ Cur.d \in Nat /\ scopeDepth = Cur.d + Extra(Cur)
      BY <1>2, <2>1
    <3> QED BY ONLY <3>1, ExtraIs
  <2> QED BY <1>2, <2>1, <2>2 DEF LoopOK
<1>4. /\ After = SubSeq(locals, 1, k + n) /\ EndHeight = k + n /\ k + n \in 0..Len(locals) /\ k + n \in Nat
      /\ k \in 0..(k + n) /\ k \in 0..Len(locals) /\ h \in 0..k /\ k <= k /\ n + 1 \in Nat
      /\ (k + n) - n = k /\ k - (n + 1) = h /\ n + k <= k + n /\ (n + 1) + h <= k /\ Cur.d + 1 \in Int
      /\ h <= k /\ k <= k + n
  <2> HIDE DEF h, l, n, k
  <2>1. Split(locals, scopeDepth - 1, k + n) /\ k + n \in Nat BY <1>3
  <2>2. /\ After = SubSeq(locals, 1, k + n) /\ EndHeight = k + n /\ k + n <= Height BY <2>1, BlockEnded
  <2>3. Height = Len(locals) /\ Height \in Nat BY FullIs
  <2>4. n \in Nat /\ k \in Nat /\ h \in Nat /\ k = h + n + 1 /\ Cur.d \in Nat BY <1>2, <1>3
  <2>5. k + n \in 0..Len(locals) /\ k \in 0..Len(locals) BY <2>1, <2>2, <2>3, <2>4
  <2>6. /\ k \in 0..(k + n) /\ h \in 0..k /\ k <= k /\ n + 1 \in Nat
        /\ (k + n) - n = k /\ k - (n + 1) = h /\ n + k <= k + n /\ (n + 1) + h <= k /\ Cur.d + 1 \in Int
        /\ h <= k /\ k <= k + n
    BY <2>4
  <2> QED BY <2>1, <2>2, <2>5, <2>6
<1>5. D \in Seq(Nat) /\ Len(D) = k /\ E \in Seq(Nat) /\ Len(E) = h /\ Knows(D, E)
  <2>1. k \in 0..k BY <1>3
  <2>2. D \in Seq(Nat) /\ Len(D) = k BY <1>4, <2>1, LabelBelow
  <2>3. E \in Seq(Nat) /\ Len(E) = h /\ Knows(D, E) BY <1>4, LabelBelow
  <2> QED BY <2>2, <2>3
<1>6. Back(P, Cur.a, D) /\ Hole(chunk, P, Cur.a, D) BY <1>2 DEF Tied
<1>7. PICK P1 : Carries(chunk, P, BlockEnd, P1) /\ Last(P1) = D /\ Knit(BlockEnd, P1)
  <2>1. Split(locals, scopeDepth - 1, k + n) BY <1>3
  <2> QED BY <1>1, <1>4, <2>1, BlockSewed
<1>8. i \in Instruction BY <1>3, OpsAre, InsInIs DEF Ins
<1>9. Kept(SubSeq(locals, 1, k + n), Cur.d + 1) = SubSeq(locals, 1, k)
  <2> HIDE DEF h, l, n, k
  <2>1. Split(locals, Cur.d + 1, k) /\ k \in Nat BY <1>3
  <2>3. Split(SubSeq(locals, 1, k + n), Cur.d + 1, k) BY <1>3, <1>4, <2>1, SplitCut
  <2> DEFINE ls == SubSeq(locals, 1, k + n)
  <2>4. ls \in Seq(Local) BY <1>3, <1>4
  <2>5. SubSeq(ls, 1, k) = SubSeq(locals, 1, k) BY <1>3, <1>4
  <2>6. Len(D) \in Nat /\ Len(D) <= k BY <1>3, <1>5
  <2> HIDE DEF ls, D
  <2>7. Split(ls, Cur.d + 1, k) BY <2>3 DEF ls
  <2>8. Kept(ls, Cur.d + 1) = SubSeq(ls, 1, k) BY <1>4, <2>1, <2>4, <2>6, <2>7, CalmEnd
  <2> QED BY <2>5, <2>8 DEF ls
<1> HIDE DEF D, E
<1>10. PICK P2 : Carries(BlockEnd, P1, unbound, P2) /\ Last(P2) = D /\ Knit(unbound, P2)
  <2>1. Knows(Last(P1), D) /\ n + Len(D) <= k + n BY <1>4, <1>5, <1>7, KnowsSelf
  <2> DEFINE m == k + n
  <2> HIDE DEF h, l, n, k, m
  <2>2. \E Q : /\ Carries(BlockEnd, P1, BlockEnd \o Pops(n, m), Q) /\ Last(Q) = D
               /\ Knit(BlockEnd \o Pops(n, m), Q)
    BY <1>3, <1>4, <1>5, <1>7, <2>1, PopsSewed DEF m
  <2> QED BY <2>2 DEF m
<1>11. Carries(chunk, P, unbound, P2) BY <1>2, <1>7, <1>10, CarriesOn
<1>12. /\ chunk' = Patch(exited, l.breaks) /\ locals' = ButLast(SubSeq(locals, 1, k), n + 1)
       /\ loopStack' = ButLast(loopStack, 1) /\ open' = ButLast(open, 1)
  <2>1. Ins("LOOP", Cur.a, 0, EndHeight - n) = i BY <1>4
  <2>2. unbound \o <<i>> = looped
    <3>1. unbound \in Seq(Instruction) BY <1>10, KnitIs
    <3> HIDE DEF unbound, i
    <3> QED BY <1>8, <3>1
  <2>3. Len(SubSeq(locals, 1, k)) = k
    <3>1. locals \in Seq(Local) /\ k \in 0..Len(locals) BY <1>3, <1>4
    <3> HIDE DEF h, l, n, k
    <3> QED BY <3>1, CutIs
  <2>4. /\ chunk' = Patch(Patch(BlockEnd \o Pops(n, EndHeight) \o <<i>>, {Cur.a})
                            \o Pops(n + 1, Len(Kept(After, scopeDepth - 2))), l.breaks)
        /\ locals' = ButLast(Kept(After, scopeDepth - 2), n + 1)
        /\ loopStack' = ButLast(loopStack, 1) /\ open' = ButLast(open, 1)
    <3> HIDE DEF i
    <3> QED BY <2>1 DEF ForEachClose, Close
  <2>5. Kept(After, scopeDepth - 2) = SubSeq(locals, 1, k) BY <1>3, <1>4, <1>9
  <2>6. BlockEnd \o Pops(n, EndHeight) = unbound BY <1>4
  <2> HIDE DEF unbound, i, looped
  <2> QED BY <1>3, <2>2, <2>3, <2>4, <2>5, <2>6
<1>13. ButLast(SubSeq(locals, 1, k), n + 1) = SubSeq(locals, 1, h)
  <2> HIDE DEF h, l, n, k
  <2>1. Len(SubSeq(locals, 1, k)) = k BY <1>3, <1>4
  <2>2. SubSeq(SubSeq(locals, 1, k), 1, h) = SubSeq(locals, 1, h) BY <1>2, <1>3, <1>4
  <2>3. ButLast(SubSeq(locals, 1, k), n + 1) = SubSeq(SubSeq(locals, 1, k), 1, k - (n + 1))
    BY <2>1 DEF ButLast
  <2> QED BY <1>4, <2>2, <2>3
<1> HIDE DEF h, l, n, k, unbound
<1>14. PICK P3 : Carries(unbound, P2, looped, P3) /\ Last(P3) = D /\ Knit(looped, P3)
  <2>1. Back(P2, Cur.a, Last(P2)) BY <1>2, <1>6, <1>10, <1>11, BackOn
  <2>2. Len(Last(P2)) <= k BY <1>4, <1>5, <1>10
  <2> QED BY <1>3, <1>5, <1>10, <2>1, <2>2, LoopSewed
<1> HIDE DEF looped
<1>15. Carries(chunk, P, looped, P3) BY <1>2, <1>11, <1>14, CarriesOn
<1>16. Carries(looped, P3, patched, P3) /\ Knit(patched, P3)
  <2>1. Hole(looped, P3, Cur.a, Last(P3)) BY <1>2, <1>6, <1>14, <1>15, HoleOn
  <2>2. \A p \in {Cur.a} : Hole(looped, P3, p, Last(P3)) BY <2>1
  <2> QED BY <1>14, <2>2, PatchWired
<1> HIDE DEF patched
<1>17. PICK P4 : Carries(patched, P3, exited, P4) /\ Last(P4) = E /\ Knit(exited, P4)
  <2> DEFINE m == n + 1
  <2>1. Knows(Last(P3), E) /\ m + Len(E) <= k /\ m \in Nat BY <1>4, <1>5, <1>14
  <2> HIDE DEF m
  <2>2. \E Q : Carries(patched, P3, patched \o Pops(m, k), Q) /\ Last(Q) = E /\ Knit(patched \o Pops(m, k), Q)
    BY <1>3, <1>5, <1>16, <2>1, PopsSewed
  <2> QED BY <2>2 DEF m
<1> HIDE DEF exited
<1>18. Carries(exited, P4, chunk', P4)
  <2>1. \A p \in l.breaks : Hole(exited, P4, p, Last(P4)) BY <1>3
  <2> QED BY <1>12, <1>17, <2>1, PatchWired
<1>19. Carries(chunk, P, chunk', P4)
  <2>1. Carries(chunk, P, patched, P3) BY <1>2, <1>15, <1>16, CarriesOn
  <2>2. Carries(chunk, P, exited, P4) BY <1>2, <1>17, <2>1, CarriesOn
  <2> QED BY <1>2, <1>18, <2>2, CarriesOn
<1> QED BY <1>1, <1>2, <1>12, <1>13, <1>17, <1>19, LacesClosed DEF h, E

(* The end of a case, and what is known where the next one begins.         *)
LEMMA RestartSewed ==
  ASSUME Now, NEW arm, Inside("switch", arm), NEW P, Laced(chunk, P, open, locals, loopStack)
  PROVE  LET D == Label(locals, Cur.h + 1) IN
         /\ \E P1 : Carries(chunk, P, Restart, P1) /\ Last(P1) = D /\ Knit(Restart, P1)
         /\ D \in Seq(Nat) /\ Len(D) = Cur.h + 1 /\ Cur.h + 1 \in 0..Len(locals)
         /\ Back(P, Cur.a, Label(locals, Cur.h)) /\ Last(loopStack).count = Cur.h + 1
         /\ Last(loopStack) = loopStack[Cur.n + 1]
         /\ \A p \in Last(loopStack).breaks \cup Last(loopStack).continues : Hole(chunk, P, p, D)
         /\ arm = "case" => Hole(chunk, P, Cur.j, D)
         /\ Cur.h \in 0..(Cur.h + 1) /\ Cur.h + 1 \in Nat
<1> DEFINE h == Cur.h
           k == h + 1
           l == Last(loopStack)
           D == Label(locals, k)
           E == Label(locals, h)
           c1 == Append(BlockEnd, Ins("POP", 0, 0, k))
<1>0. "switch" \in LoopKinds BY DEF LoopKinds
<1>1. /\ open # <<>> /\ Cur.kind = "switch" /\ Cur.arm = arm /\ h \in Nat /\ Cur.a \in Nat
      /\ locals \in Seq(Local) /\ k \in 0..Len(locals) /\ Split(locals, scopeDepth - 1, k)
      /\ EndHeight = k /\ l.count = k /\ l = loopStack[Cur.n + 1]
  BY SwitchIs
<1>2. k \in Nat /\ h \in 0..k /\ k \in 0..k /\ h <= k /\ h <= h /\ k - 1 = h BY <1>1
<1>3. /\ Tied(chunk, P, Cur, l, locals) /\ Knit(chunk, P)
      /\ \A p \in l.breaks \cup l.continues : Hole(chunk, P, p, D)
  BY <1>0, <1>1, LoopLaced
<1>4. D \in Seq(Nat) /\ Len(D) = k /\ E \in Seq(Nat) /\ Len(E) = h
  <2>1. D \in Seq(Nat) /\ Len(D) = k BY <1>1, <1>2, LabelBelow
  <2>2. E \in Seq(Nat) /\ Len(E) = h BY <1>1, <1>2, LabelBelow
  <2> QED BY <2>1, <2>2
<1>5. Back(P, Cur.a, E) /\ (arm = "case" => Hole(chunk, P, Cur.j, D)) BY <1>1, <1>3 DEF Tied
<1>6. PICK P1 : Carries(chunk, P, BlockEnd, P1) /\ Last(P1) = E /\ Knit(BlockEnd, P1)
  BY <1>1, <1>2, BlockSewed
<1>7. Restart = Append(c1, Ins("LOOP", Cur.a, 0, h))
  <2> DEFINE b == BlockEnd
             i1 == Ins("POP", 0, 0, k)
             i2 == Ins("LOOP", Cur.a, 0, h)
  <2>1. b \in Seq(Instruction) BY <1>6, KnitIs
  <2>2. Ctx \in Context BY NowIs
  <2>3. i1 \in Instruction /\ i2 \in Instruction BY <1>1, <1>2, <2>2, OpsAre, InsInIs DEF Ins
  <2>4. Restart = b \o <<i1, i2>> BY <1>1, <1>2 DEF Restart
  <2> HIDE DEF b, i1, i2
  <2>5. b \o <<i1, i2>> = Append(Append(b, i1), i2) BY <2>1, <2>3, Cat2
  <2> QED BY <2>4, <2>5 DEF b, i1, i2
<1> HIDE DEF D, E, h, k, l
<1>8. PICK P2 : Carries(BlockEnd, P1, c1, P2) /\ Last(P2) = E /\ Knit(c1, P2)
  <2>1. "POP" \in Placid BY DEF Placid
  <2>2. Knows(Last(P1), E) /\ Len(E) <= k BY <1>2, <1>4, <1>6, KnowsSelf
  <2>3. \E Q : /\ Carries(BlockEnd, P1, Append(BlockEnd, Ins("POP", 0, 0, k)), Q) /\ Last(Q) = E
               /\ Knit(Append(BlockEnd, Ins("POP", 0, 0, k)), Q)
               /\ Len(Append(BlockEnd, Ins("POP", 0, 0, k))) = Len(BlockEnd) + 1
               /\ "POP" \in Targeted => Hole(Append(BlockEnd, Ins("POP", 0, 0, k)), Q, Len(BlockEnd) + 1, E)
    BY <1>2, <1>4, <1>6, <2>1, <2>2, QuietSewed
  <2> QED BY <2>3
<1> HIDE DEF c1
<1>9. Carries(chunk, P, c1, P2) BY <1>3, <1>6, <1>8, CarriesOn
<1>10. PICK P3 : Carries(c1, P2, Restart, P3) /\ Last(P3) = D /\ Knit(Restart, P3)
  <2>1. Back(P2, Cur.a, Last(P2)) BY <1>3, <1>5, <1>8, <1>9, BackOn
  <2>2. Len(Last(P2)) <= h BY <1>2, <1>4, <1>8
  <2>3. h \in Nat BY <1>1 DEF h
  <2>4. \E Q : /\ Carries(c1, P2, Append(c1, Ins("LOOP", Cur.a, 0, h)), Q) /\ Last(Q) = D
               /\ Knit(Append(c1, Ins("LOOP", Cur.a, 0, h)), Q)
    BY <1>4, <1>8, <2>1, <2>2, <2>3, LoopSewed
  <2> QED BY <1>7, <2>4
<1>11. Carries(chunk, P, Restart, P3) BY <1>3, <1>9, <1>10, CarriesOn
<1>12. \E Q : Carries(chunk, P, Restart, Q) /\ Last(Q) = D /\ Knit(Restart, Q) BY <1>10, <1>11
<1> QED BY <1>1, <1>2, <1>3, <1>4, <1>5, <1>12 DEF D, E, h, k, l

(* The end of a case forgets what the case declared, and keeps the value   *)
(* compared.                                                               *)
LEMMA CaseEndSewed ==
  ASSUME Now, Inside("switch", "case"), NEW P, Laced(chunk, P, open, locals, loopStack)
  PROVE  LET D == Label(locals, Cur.h + 1) IN
         \E P1 : Carries(chunk, P, CaseEnd, P1) /\ Last(P1) = D /\ Knit(CaseEnd, P1)
<1> DEFINE D == Label(locals, Cur.h + 1)
<1>1. /\ \E P1 : Carries(chunk, P, Restart, P1) /\ Last(P1) = D /\ Knit(Restart, P1)
      /\ Len(D) = Cur.h + 1 /\ Hole(chunk, P, Cur.j, D)
  BY RestartSewed
<1>2. Cur.h \in Nat /\ EndHeight = Cur.h + 1 BY SwitchIs
<1>3. Knit(chunk, P) BY DEF Laced
<1> HIDE DEF D
<1>4. PICK P1 : Carries(chunk, P, Restart, P1) /\ Last(P1) = D /\ Knit(Restart, P1) BY <1>1
<1> DEFINE k == EndHeight + 1
<1>5. k \in Nat /\ Len(Last(P1)) <= k BY <1>1, <1>2, <1>4
<1> HIDE DEF k
<1>6. Hole(Restart, P1, Cur.j, Last(P1)) BY <1>1, <1>3, <1>4, HoleOn
<1>7. \E Q : /\ Carries(Restart, P1, Append(Patch(Restart, {Cur.j}), Ins("POP", 0, 0, k)), Q)
             /\ Last(Q) = Last(P1)
             /\ Knit(Append(Patch(Restart, {Cur.j}), Ins("POP", 0, 0, k)), Q)
  BY <1>4, <1>5, <1>6, ExitSewed
<1>8. CaseEnd = Append(Patch(Restart, {Cur.j}), Ins("POP", 0, 0, k)) BY DEF CaseEnd, k
<1>9. PICK P2 : Carries(Restart, P1, CaseEnd, P2) /\ Last(P2) = D /\ Knit(CaseEnd, P2) BY <1>4, <1>7, <1>8
<1>10. Carries(chunk, P, CaseEnd, P2) BY <1>3, <1>4, <1>9, CarriesOn
<1> QED BY <1>9, <1>10 DEF D

(* The next case, or the default, begins.                                  *)
LEMMA SwitchLaces ==
  ASSUME Now, Then, Inside("switch", "case"), NEW P, Laced(chunk, P, open, locals, loopStack),
         NEW P2, Carries(chunk, P, chunk', P2), Last(P2) = Label(locals, Cur.h + 1),
         locals' = SubSeq(locals, 1, Cur.h + 1), loopStack' = loopStack,
         NEW o2 \in Statement, open' = SetLast(open, o2), o2.kind = "switch", o2.a = Cur.a, o2.h = Cur.h,
         o2.n = Cur.n, o2.arm = "case" => Hole(chunk', P2, o2.j, Label(locals, Cur.h + 1))
  PROVE  Laces'
<1> DEFINE h == Cur.h
           k == h + 1
           l == Last(loopStack)
<1>1. /\ k \in 0..Len(locals) /\ Back(P, Cur.a, Label(locals, h)) /\ l.count = k
      /\ l = loopStack[Cur.n + 1] /\ h \in 0..k /\ k \in Nat
      /\ \A p \in l.breaks \cup l.continues : Hole(chunk, P, p, Label(locals, k))
  BY RestartSewed
<1>2. Knit(chunk, P) /\ locals \in Seq(Local) /\ open # <<>> BY FullIs, SwitchIs DEF Laced
<1>3. Label(locals', h) = Label(locals, h) /\ Label(locals', k) = Label(locals, k)
  <2>1. k \in 0..k BY <1>1
  <2>2. \A n \in 0..k : Label(SubSeq(locals, 1, k), n) = Label(locals, n) BY <1>1, <1>2, LabelCut
  <2> HIDE DEF h, k
  <2> QED BY <1>1, <2>1, <2>2 DEF k, h
<1>4. Back(P2, Cur.a, Label(locals, h)) BY <1>1, <1>2, BackOn
<1>5. \A p \in l.breaks \cup l.continues : Hole(chunk', P2, p, Label(locals, k)) BY <1>1, <1>2, HoleOn
<1>6. Last(P2) = Label(locals, k) /\ locals' = SubSeq(locals, 1, k)
      /\ (o2.arm = "case" => Hole(chunk', P2, o2.j, Label(locals, k)))
  OBVIOUS
<1>7. o2.h = h OBVIOUS
<1> HIDE DEF h, k, l
<1>8. Tied(chunk', P2, o2, l, locals') BY <1>1, <1>3, <1>4, <1>5, <1>6, <1>7 DEF Tied
<1>9. Tied(chunk', P2, o2, loopStack[o2.n + 1], locals') BY <1>1, <1>8
<1> QED BY <1>1, <1>2, <1>6, <1>9, LacesTurned

(* The next case of a switch keeps the labels. *)
LEMMA SwitchCaseLaces == ASSUME Now, Then, Laces, SwitchCase PROVE Laces'
<1> DEFINE k == Cur.h + 1
           j == Len(CaseEnd) + 4
           D == Label(locals, k)
           o2 == [Cur EXCEPT !.j = j]
<1>0. Inside("switch", "case") BY DEF SwitchCase
<1>1. /\ Cur.kind = "switch" /\ Cur.arm = "case" /\ Cur \in Statement
      /\ Cur.h \in Nat /\ After = SubSeq(locals, 1, k) /\ EndHeight = k
  BY <1>0, SwitchIs
<1>2. /\ chunk' = Case(CaseEnd, k) /\ open' = SetLast(open, o2) /\ locals' = SubSeq(locals, 1, k)
      /\ loopStack' = loopStack
  BY <1>1 DEF SwitchCase
<1>3. PICK P : Laced(chunk, P, open, locals, loopStack) BY DEF Laces
<1>4. D \in Seq(Nat) /\ Len(D) = k /\ k \in Nat \ {0} /\ k <= k
  <2>1. D \in Seq(Nat) /\ Len(D) = k BY <1>0, <1>3, RestartSewed
  <2> QED BY <1>1, <2>1
<1>5. PICK P1 : Carries(chunk, P, CaseEnd, P1) /\ Last(P1) = D /\ Knit(CaseEnd, P1)
  BY <1>0, <1>3, CaseEndSewed
<1> HIDE DEF D, k
<1>6. PICK P2 : Carries(CaseEnd, P1, chunk', P2) /\ Last(P2) = D /\ Hole(chunk', P2, j, D)
  <2>1. Knows(Last(P1), D) /\ Len(D) <= k BY <1>4, <1>5, KnowsSelf
  <2>2. \E Q : /\ Carries(CaseEnd, P1, Case(CaseEnd, k), Q) /\ Last(Q) = D
               /\ Knit(Case(CaseEnd, k), Q) /\ Hole(Case(CaseEnd, k), Q, Len(CaseEnd) + 4, D)
    BY <1>4, <1>5, <2>1, CaseSewed
  <2> QED BY <1>2, <2>2
<1>7. Knit(chunk, P) BY <1>3 DEF Laced
<1>8. Carries(chunk, P, chunk', P2) BY <1>5, <1>6, <1>7, CarriesOn
<1>9. Len(CaseEnd) \in Nat BY <1>5, KnitIs
<1>10. j \in Nat BY <1>9
<1> HIDE DEF j
<1>11. /\ o2 \in Statement /\ o2.kind = "switch" /\ o2.a = Cur.a /\ o2.h = Cur.h /\ o2.n = Cur.n /\ o2.j = j
  BY <1>1, <1>10 DEF Statement
<1> HIDE DEF o2
<1> QED BY <1>0, <1>2, <1>3, <1>6, <1>8, <1>11, SwitchLaces DEF D, k

(* The default of a switch keeps the labels. *)
LEMMA SwitchDefaultLaces == ASSUME Now, Then, Laces, SwitchDefault PROVE Laces'
<1> DEFINE k == Cur.h + 1
           o2 == [Cur EXCEPT !.arm = "default"]
<1>0. Inside("switch", "case") BY DEF SwitchDefault
<1>1. /\ Cur.kind = "switch" /\ Cur.arm = "case" /\ Cur \in Statement
      /\ Cur.h \in Nat /\ After = SubSeq(locals, 1, k)
  BY <1>0, SwitchIs
<1>2. /\ chunk' = CaseEnd /\ open' = SetLast(open, o2) /\ locals' = SubSeq(locals, 1, k)
      /\ loopStack' = loopStack
  BY <1>1 DEF SwitchDefault
<1>3. PICK P : Laced(chunk, P, open, locals, loopStack) BY DEF Laces
<1>4. PICK P1 : Carries(chunk, P, CaseEnd, P1) /\ Last(P1) = Label(locals, Cur.h + 1) /\ Knit(CaseEnd, P1)
  BY <1>0, <1>3, CaseEndSewed
<1>5. /\ o2 \in Statement /\ o2.kind = "switch" /\ o2.arm = "default" /\ o2.a = Cur.a /\ o2.h = Cur.h
      /\ o2.n = Cur.n
  BY <1>1 DEF Statement
<1> HIDE DEF o2
<1> QED BY <1>0, <1>2, <1>3, <1>4, <1>5, SwitchLaces

(* The end of a switch keeps the labels. *)
LEMMA SwitchCloseLaces == ASSUME Now, Then, Laces, SwitchClose PROVE Laces'
<1> DEFINE h == Cur.h
           k == h + 1
           l == Last(loopStack)
           D == Label(locals, k)
           left == Patch(Restart, l.breaks)
<1>0. "switch" \in LoopKinds BY DEF LoopKinds
<1>1. Inside("switch", "default") BY DEF SwitchClose
<1>2. /\ open # <<>> /\ h \in Nat /\ Cur.d \in Nat /\ scopeDepth - 2 = Cur.d
      /\ k \in 0..Len(locals) /\ Split(locals, Cur.d, h) /\ After = SubSeq(locals, 1, k)
  BY <1>1, SwitchIs
<1>3. k \in Nat /\ h <= k /\ Cur.d \in Int BY <1>2
<1>4. /\ chunk' = left \o EndScopeCode(SubSeq(locals, 1, k), Cur.d)
      /\ locals' = Kept(SubSeq(locals, 1, k), Cur.d)
      /\ loopStack' = ButLast(loopStack, 1) /\ open' = ButLast(open, 1)
  BY <1>2 DEF SwitchClose, Close
<1>5. PICK P : Laced(chunk, P, open, locals, loopStack) BY DEF Laces
<1>6. Knit(chunk, P) /\ loopStack # <<>> BY <1>0, <1>1, <1>5, LoopLaced
<1>7. /\ \E P1 : Carries(chunk, P, Restart, P1) /\ Last(P1) = D /\ Knit(Restart, P1)
      /\ \A p \in l.breaks : Hole(chunk, P, p, D)
  BY <1>1, <1>5, RestartSewed
<1>8. PICK P1 : Carries(chunk, P, Restart, P1) /\ Last(P1) = D /\ Knit(Restart, P1) BY <1>7
<1> HIDE DEF l
<1>9. Carries(Restart, P1, left, P1) /\ Knit(left, P1)
  <2>1. \A p \in l.breaks : Hole(Restart, P1, p, Last(P1)) BY <1>6, <1>7, <1>8, HoleOn
  <2> QED BY <1>8, <2>1, PatchWired
<1> HIDE DEF left, k, h
<1>10. Carries(chunk, P, left, P1) BY <1>6, <1>8, <1>9, CarriesOn
<1>11. /\ \E P2 : /\ Carries(left, P1, left \o EndScopeCode(SubSeq(locals, 1, k), Cur.d), P2)
                  /\ Last(P2) = Label(locals, h)
                  /\ Knit(left \o EndScopeCode(SubSeq(locals, 1, k), Cur.d), P2)
       /\ Kept(SubSeq(locals, 1, k), Cur.d) = SubSeq(locals, 1, h)
  BY <1>2, <1>3, <1>8, <1>9, OuterSewed
<1>12. PICK P2 : Carries(left, P1, chunk', P2) /\ Last(P2) = Label(locals, h) BY <1>4, <1>11
<1>13. Carries(chunk, P, chunk', P2) BY <1>6, <1>10, <1>12, CarriesOn
<1> QED BY <1>2, <1>4, <1>5, <1>6, <1>11, <1>12, <1>13, LacesClosed DEF h

(* A quiet instruction of another context.                                 *)
LEMMA QuietSewedIn ==
  ASSUME NEW c, NEW P, Knit(c, P), NEW D \in Seq(Nat), Knows(Last(P), D),
         NEW ctx \in Context, NEW op \in Placid, NEW ty \in SUBSET ErrTypes, NEW h \in Nat, Len(D) <= h
  PROVE  \E P2 : /\ Carries(c, P, Append(c, InsIn(ctx, op, 0, 0, ty, h)), P2) /\ Last(P2) = D
                 /\ Knit(Append(c, InsIn(ctx, op, 0, 0, ty, h)), P2)
                 /\ Len(Append(c, InsIn(ctx, op, 0, 0, ty, h))) = Len(c) + 1
                 /\ op \in Targeted => Hole(Append(c, InsIn(ctx, op, 0, 0, ty, h)), P2, Len(c) + 1, D)
<1> DEFINE i == InsIn(ctx, op, 0, 0, ty, h)
<1>1. i.op = op BY DEF InsIn
<1>2. Len(D) \in Nat /\ 0 \in Nat OBVIOUS
<1>3. op = "TRY_ENTER" => 0 = 0 OBVIOUS
<1>4. i \in Calming(c, P, 1, D) BY <1>2, <1>3, CalmQuiet
<1> HIDE DEF i
<1>5. \E P2 : /\ Carries(c, P, Append(c, i), P2) /\ Last(P2) = D
              /\ Knit(Append(c, i), P2) /\ Len(Append(c, i)) = Len(c) + 1
              /\ i.op \in Targeted => Hole(Append(c, i), P2, Len(c) + 1, D)
              /\ Back(P2, Len(c) + 1, D)
  BY <1>4, SewedOne
<1> QED BY <1>1, <1>5 DEF i

(* The try statement and what it keeps.                                    *)
LEMMA TryTied ==
  ASSUME Now, NEW arm, arm = "body" \/ arm = "catch", Inside("try", arm),
         NEW P, Laced(chunk, P, open, locals, loopStack)
  PROVE  LET D == Label(locals, Cur.h) IN
         /\ Knit(chunk, P) /\ D \in Seq(Nat) /\ Len(D) = Cur.h /\ Cur.h \in Nat
         /\ Cur.h \in 0..Len(locals) /\ Cur.h \in 0..Cur.h
         /\ Knows(Last(P), D)
         /\ Back(P, Cur.a, D) /\ Hole(chunk, P, Cur.a, D)
         /\ arm = "body" => Last(P) = D
         /\ arm = "catch" =>
              /\ Hole(chunk, P, Cur.b, D) /\ Hole(chunk, P, Cur.j, D)
              /\ \A p \in Cur.jumps : Hole(chunk, P, p, D)
<1>1. /\ open # <<>> /\ Cur.kind = "try" /\ Cur.arm = arm /\ Height = Len(locals)
      /\ arm = "body" => Height = Cur.h
  BY TryIs
<1>2. /\ Tied(chunk, P, Cur, loopStack[Cur.n + 1], locals) /\ Knit(chunk, P) /\ Last(P) = Full(locals)
      /\ Cur.h \in 0..Len(locals) /\ Cur.h \in Nat
  BY <1>1, CurTied
<1> DEFINE h == Cur.h
           D == Label(locals, h)
<1>3. h \in 0..h /\ h \in Nat BY <1>2
<1>4. D \in Seq(Nat) /\ Len(D) = h /\ Knows(Full(locals), D)
  <2>1. h \in 0..Len(locals) BY <1>2
  <2> HIDE DEF h
  <2> QED BY <1>3, <2>1, LabelBelow
<1>5. arm = "body" => Full(locals) = D BY <1>1 DEF Full
<1>6. /\ Back(P, Cur.a, D) /\ Hole(chunk, P, Cur.a, D)
      /\ arm = "catch" =>
           /\ Hole(chunk, P, Cur.b, D) /\ Hole(chunk, P, Cur.j, D)
           /\ \A p \in Cur.jumps : Hole(chunk, P, p, D)
  BY <1>1, <1>2 DEF Tied
<1> HIDE DEF D, h
<1> QED BY <1>2, <1>3, <1>4, <1>5, <1>6 DEF D, h

(* The try statement's own jump to its clauses is patched.                 *)
LEMMA HandlerWired ==
  ASSUME NEW c, NEW P, Knit(c, P), NEW a, Hole(c, P, a, Last(P))
  PROVE  LET c2 == [c EXCEPT ![a].x = Here(c)]
             c3 == [c EXCEPT ![a].y = Here(c)] IN
         /\ Carries(c, P, c2, P) /\ Knit(c2, P) /\ Len(c2) = Len(c)
         /\ Carries(c, P, c3, P) /\ Knit(c3, P) /\ Len(c3) = Len(c)
<1> DEFINE c2 == [c EXCEPT ![a].x = Here(c)]
           c3 == [c EXCEPT ![a].y = Here(c)]
<1>1. /\ c \in Seq(Instruction) /\ Len(c) \in Nat /\ Here(c) = Len(c) + 1 /\ Here(c) \in Nat
      /\ DOMAIN c = 1..Len(c)
  BY KnitIs DEF Here
<1>2. a \in DOMAIN c /\ c[a] \in Instruction BY <1>1 DEF Hole
<1>3. /\ DOMAIN c2 = DOMAIN c /\ c2[a] = [c[a] EXCEPT !.x = Here(c)]
      /\ \A p \in DOMAIN c : p # a => c2[p] = c[p]
      /\ DOMAIN c3 = DOMAIN c /\ c3[a] = [c[a] EXCEPT !.y = Here(c)]
      /\ \A p \in DOMAIN c : p # a => c3[p] = c[p]
  BY <1>2
<1>4. /\ [c[a] EXCEPT !.x = Here(c)] \in Instruction /\ [c[a] EXCEPT !.y = Here(c)] \in Instruction
  BY <1>1, <1>2 DEF Instruction
<1>5. c2 \in Seq(Instruction) /\ c3 \in Seq(Instruction)
  <2>1. c2 \in [1..Len(c) -> Instruction] /\ c3 \in [1..Len(c) -> Instruction]
    <3>1. c \in [1..Len(c) -> Instruction] BY <1>1
    <3> QED BY <1>1, <1>2, <1>4, <3>1
  <2> HIDE DEF c2, c3
  <2> DEFINE n == Len(c)
  <2>2. n \in Nat /\ c2 \in [1..n -> Instruction] /\ c3 \in [1..n -> Instruction] BY <1>1, <2>1
  <2> HIDE DEF n
  <2> QED BY ONLY <2>2
<1>6. /\ c2[a].op = c[a].op /\ c2[a].h = c[a].h /\ c2[a].hs = c[a].hs
      /\ c2[a].x = Len(c) + 1 /\ c2[a].y = c[a].y
      /\ c3[a].op = c[a].op /\ c3[a].h = c[a].h /\ c3[a].hs = c[a].hs
      /\ c3[a].x = c[a].x /\ c3[a].y = Len(c) + 1
  <2> HIDE DEF c2, c3
  <2> QED BY <1>1, <1>2, <1>3 DEF Instruction
<1> HIDE DEF c2, c3
<1>7. \A p \in DOMAIN c :
        \/ c2[p] = c[p]
        \/ /\ Hole(c, P, p, Last(P))
           /\ c2[p].op = c[p].op /\ c2[p].h = c[p].h /\ c2[p].hs = c[p].hs
           /\ c2[p].x \in {c[p].x, Len(c) + 1} /\ c2[p].y \in {c[p].y, Len(c) + 1}
  BY <1>3, <1>6
<1>8. \A p \in DOMAIN c :
        \/ c3[p] = c[p]
        \/ /\ Hole(c, P, p, Last(P))
           /\ c3[p].op = c[p].op /\ c3[p].h = c[p].h /\ c3[p].hs = c[p].hs
           /\ c3[p].x \in {c[p].x, Len(c) + 1} /\ c3[p].y \in {c[p].y, Len(c) + 1}
  BY <1>3, <1>6
<1>9. Carries(c, P, c2, P) /\ Len(c2) = Len(c) BY <1>3, <1>5, <1>7, AimedWired
<1>10. Carries(c, P, c3, P) /\ Len(c3) = Len(c) BY <1>3, <1>5, <1>8, AimedWired
<1>11. Knit(c2, P) /\ Knit(c3, P) BY <1>9, <1>10 DEF Carries
<1> QED BY <1>9, <1>10, <1>11 DEF c2, c3

(* The code at the end of a try body.                                      *)
LEMMA BodySewed ==
  ASSUME Now, Inside("try", "body"), NEW P, Laced(chunk, P, open, locals, loopStack)
  PROVE  LET D == Label(locals, Cur.h) IN
         \E P1 : /\ Carries(chunk, P, BodyDone, P1) /\ Last(P1) = D /\ Knit(BodyDone, P1)
                 /\ Hole(BodyDone, P1, Len(BodyDone), D)
<1> DEFINE h == Cur.h
           D == Label(locals, h)
           i1 == InsIn(Ctx, "TRY_EXIT", 0, 0, {}, h)
           i2 == InsIn(CatchCtx, "JUMP", 0, 0, {}, h)
           c1 == Append(chunk, i1)
           c2 == Append(c1, i2)
           c3 == [c2 EXCEPT ![Cur.a].x = Here(c2)]
<1>1. h \in Nat /\ Height = h /\ CatchCtx \in Context /\ Ctx \in Context
  <2>1. "body" = "body" \/ "body" = "catch" OBVIOUS
  <2> QED BY <2>1, TryIs, NowIs
<1>2. /\ Knit(chunk, P) /\ D \in Seq(Nat) /\ Len(D) = h /\ Knows(Last(P), D) /\ Hole(chunk, P, Cur.a, D)
  <2>1. "body" = "body" \/ "body" = "catch" OBVIOUS
  <2> QED BY <2>1, TryTied
<1>3. chunk \in Seq(Instruction) /\ h <= h /\ {} \in SUBSET ErrTypes /\ 0 \in Nat BY <1>1, <1>2, KnitIs
<1>4. i1 \in Instruction /\ i2 \in Instruction BY <1>1, <1>3, OpsAre, InsInIs
<1>5. BodyDone = c3
  <2>1. chunk \o <<i1, i2>> = c2
    <3> HIDE DEF i1, i2
    <3> QED BY <1>3, <1>4, Cat2
  <2>2. Ins("TRY_EXIT", 0, 0, Height) = i1 /\ InsIn(CatchCtx, "JUMP", 0, 0, {}, Height) = i2
    BY <1>1 DEF Ins
  <2> HIDE DEF i1, i2, c2
  <2> QED BY <2>1, <2>2 DEF BodyDone
<1>6. "TRY_EXIT" \in Placid /\ "JUMP" \in Placid /\ "JUMP" \in Targeted BY DEF Placid, Targeted, Branches
<1> HIDE DEF h, D
<1>7. PICK P1 : Carries(chunk, P, c1, P1) /\ Last(P1) = D /\ Knit(c1, P1)
  <2>2. Len(D) <= h /\ Knit(chunk, P) /\ Knows(Last(P), D) BY <1>2, <1>3
  <2>1. \E Q : /\ Carries(chunk, P, Append(chunk, InsIn(Ctx, "TRY_EXIT", 0, 0, {}, h)), Q) /\ Last(Q) = D
               /\ Knit(Append(chunk, InsIn(Ctx, "TRY_EXIT", 0, 0, {}, h)), Q)
               /\ Len(Append(chunk, InsIn(Ctx, "TRY_EXIT", 0, 0, {}, h))) = Len(chunk) + 1
               /\ "TRY_EXIT" \in Targeted =>
                    Hole(Append(chunk, InsIn(Ctx, "TRY_EXIT", 0, 0, {}, h)), Q, Len(chunk) + 1, D)
    BY ONLY <1>1, <1>2, <1>3, <1>6, <2>2, QuietSewedIn
  <2> QED BY <2>1
<1> HIDE DEF c1
<1>8. PICK P2 : /\ Carries(c1, P1, c2, P2) /\ Last(P2) = D /\ Knit(c2, P2) /\ Len(c2) = Len(c1) + 1
                /\ Hole(c2, P2, Len(c1) + 1, D)
  <2>1. Knows(Last(P1), D) BY <1>7, KnowsSelf
  <2>2. \E Q : /\ Carries(c1, P1, Append(c1, InsIn(CatchCtx, "JUMP", 0, 0, {}, h)), Q) /\ Last(Q) = D
               /\ Knit(Append(c1, InsIn(CatchCtx, "JUMP", 0, 0, {}, h)), Q)
               /\ Len(Append(c1, InsIn(CatchCtx, "JUMP", 0, 0, {}, h))) = Len(c1) + 1
               /\ "JUMP" \in Targeted =>
                    Hole(Append(c1, InsIn(CatchCtx, "JUMP", 0, 0, {}, h)), Q, Len(c1) + 1, D)
    BY <1>1, <1>2, <1>3, <1>6, <1>7, <2>1, QuietSewedIn
  <2> QED BY <1>6, <2>2
<1> HIDE DEF c2
<1>9. Carries(chunk, P, c2, P2) BY <1>2, <1>7, <1>8, CarriesOn
<1>10. Hole(c2, P2, Cur.a, Last(P2)) BY <1>2, <1>8, <1>9, HoleOn
<1>11. Carries(c2, P2, c3, P2) /\ Knit(c3, P2) /\ Len(c3) = Len(c2) BY <1>8, <1>10, HandlerWired
<1> HIDE DEF c3
<1>12. Carries(chunk, P, c3, P2) BY <1>2, <1>9, <1>11, CarriesOn
<1>13. Hole(c3, P2, Len(c3), D) BY <1>8, <1>11, HoleOn
<1> QED BY <1>5, <1>8, <1>11, <1>12, <1>13 DEF D, h

(* The code at the end of a catch clause.                                  *)
LEMMA ClauseSewed ==
  ASSUME Now, Inside("try", "catch"), NEW P, Laced(chunk, P, open, locals, loopStack)
  PROVE  LET D == Label(locals, Cur.h) IN
         \E P1 : /\ Carries(chunk, P, ClauseDone, P1) /\ Last(P1) = D /\ Knit(ClauseDone, P1)
                 /\ Hole(ClauseDone, P1, Len(ClauseDone) - 1, D)
<1> DEFINE h == Cur.h
           D == Label(locals, h)
           k == h + 2
           c1 == BlockEnd
           c2 == Append(c1, Ins("JUMP", 0, 0, h))
           c3 == Append(Patch(c2, {Cur.j}), Ins("POP", 0, 0, k))
<1>0. "catch" = "body" \/ "catch" = "catch" OBVIOUS
<1>1. h \in Nat /\ Split(locals, scopeDepth - 1, h) BY <1>0, TryIs
<1>2. EndHeight = h BY <1>1, BlockEnded
<1>3. /\ Knit(chunk, P) /\ D \in Seq(Nat) /\ Len(D) = h /\ h \in 0..h /\ Hole(chunk, P, Cur.j, D)
  BY <1>0, TryTied
<1>4. k \in Nat /\ h <= k /\ h <= h BY <1>1
<1>5. ClauseDone = c3 BY <1>2 DEF ClauseDone
<1>6. "JUMP" \in Placid /\ "JUMP" \in Targeted BY DEF Placid, Targeted, Branches
<1>7. PICK P1 : Carries(chunk, P, c1, P1) /\ Last(P1) = D /\ Knit(c1, P1) BY <1>1, <1>3, BlockSewed
<1> HIDE DEF c1, h, D, k
<1>8. PICK P2 : /\ Carries(c1, P1, c2, P2) /\ Last(P2) = D /\ Knit(c2, P2) /\ Len(c2) = Len(c1) + 1
                /\ Hole(c2, P2, Len(c1) + 1, D)
  <2>1. Knows(Last(P1), D) /\ Len(D) <= h BY <1>3, <1>4, <1>7, KnowsSelf
  <2>2. \E Q : /\ Carries(c1, P1, Append(c1, Ins("JUMP", 0, 0, h)), Q) /\ Last(Q) = D
               /\ Knit(Append(c1, Ins("JUMP", 0, 0, h)), Q) /\ Len(Append(c1, Ins("JUMP", 0, 0, h))) = Len(c1) + 1
               /\ "JUMP" \in Targeted => Hole(Append(c1, Ins("JUMP", 0, 0, h)), Q, Len(c1) + 1, D)
    BY <1>1, <1>3, <1>6, <1>7, <2>1, QuietSewed
  <2> QED BY <1>6, <2>2
<1> HIDE DEF c2
<1>9. Carries(chunk, P, c2, P2) BY <1>3, <1>7, <1>8, CarriesOn
<1>10. Hole(c2, P2, Cur.j, Last(P2)) BY <1>3, <1>8, <1>9, HoleOn
<1>11. Len(Last(P2)) <= k BY <1>3, <1>4, <1>8
<1>12. PICK P3 : Carries(c2, P2, c3, P3) /\ Last(P3) = D /\ Knit(c3, P3)
  <2>1. \E Q : /\ Carries(c2, P2, Append(Patch(c2, {Cur.j}), Ins("POP", 0, 0, k)), Q) /\ Last(Q) = Last(P2)
               /\ Knit(Append(Patch(c2, {Cur.j}), Ins("POP", 0, 0, k)), Q)
    BY <1>4, <1>8, <1>10, <1>11, ExitSewed
  <2> QED BY <1>8, <2>1
<1>13. Len(c3) - 1 = Len(c1) + 1
  <2>1. Len(Patch(c2, {Cur.j})) = Len(c2) /\ Knit(Patch(c2, {Cur.j}), P2) BY <1>8, <1>10, PatchWired
  <2> DEFINE b == Patch(c2, {Cur.j})
             i == Ins("POP", 0, 0, k)
  <2>2. b \in Seq(Instruction) /\ Len(b) = Len(c2) /\ Len(c2) \in Nat /\ Len(c1) \in Nat
    BY <1>7, <1>8, <2>1, KnitIs
  <2> HIDE DEF b, i
  <2>3. Len(Append(b, i)) = Len(b) + 1 BY <2>2
  <2>4. c3 = Append(b, i) BY DEF b, i
  <2> QED BY <1>8, <2>2, <2>3, <2>4
<1> HIDE DEF c3
<1>14. Carries(chunk, P, c3, P3) BY <1>3, <1>9, <1>12, CarriesOn
<1>15. Hole(c3, P3, Len(c3) - 1, D) BY <1>8, <1>12, <1>13, HoleOn
<1> QED BY <1>5, <1>12, <1>14, <1>15 DEF D, h

(* The code up to the place where the next clause begins.                  *)
LEMMA NextClauseSewed ==
  ASSUME Now, NEW arm, arm = "body" \/ arm = "catch", Inside("try", arm),
         NEW P, Laced(chunk, P, open, locals, loopStack)
  PROVE  LET D == Label(locals, Cur.h) IN
         \E P1 : /\ Carries(chunk, P, NextClause, P1) /\ Last(P1) = D /\ Knit(NextClause, P1)
                 /\ \A p \in TryOut : Hole(NextClause, P1, p, D)
<1> DEFINE D == Label(locals, Cur.h)
<1>1. Cur.arm = arm BY TryIs
<1>2. /\ Knit(chunk, P)
      /\ arm = "catch" =>
           Hole(chunk, P, Cur.b, D) /\ \A p \in Cur.jumps : Hole(chunk, P, p, D)
  BY TryTied
<1>3. CASE arm = "body"
  <2>1. NextClause = BodyDone /\ TryOut = {Len(BodyDone)}
    BY <1>1, <1>3 DEF NextClause, TryOut, Exits, SkipJump
  <2>2. \E P1 : /\ Carries(chunk, P, BodyDone, P1) /\ Last(P1) = D /\ Knit(BodyDone, P1)
                /\ Hole(BodyDone, P1, Len(BodyDone), D)
    BY <1>3, BodySewed
  <2> QED BY <2>1, <2>2
<1>4. CASE arm = "catch"
  <2> DEFINE j == Len(ClauseDone) - 1
  <2>1. NextClause = ClauseDone /\ TryOut = Cur.jumps \cup {j, Cur.b}
    BY <1>1, <1>4 DEF NextClause, TryOut, Exits, SkipJump
  <2>2. PICK P1 : /\ Carries(chunk, P, ClauseDone, P1) /\ Last(P1) = D /\ Knit(ClauseDone, P1)
                  /\ Hole(ClauseDone, P1, j, D)
    BY <1>4, ClauseSewed
  <2> HIDE DEF D, j
  <2>3. \A p \in Cur.jumps \cup {Cur.b} : Hole(chunk, P, p, D) BY <1>2, <1>4
  <2>4. \A p \in Cur.jumps \cup {Cur.b} : Hole(ClauseDone, P1, p, D) BY <1>2, <2>2, <2>3, HoleOn
  <2>5. \A p \in TryOut : Hole(ClauseDone, P1, p, D) BY <2>1, <2>2, <2>4
  <2> QED BY <2>1, <2>2, <2>5 DEF D
<1> QED BY <1>3, <1>4

(* The head of a catch clause.                                             *)
LEMMA ClauseHeadSewed ==
  ASSUME NEW c, NEW P, Knit(c, P), NEW D \in Seq(Nat), Last(P) = D, NEW x \in Context,
         NEW types \in SUBSET ErrTypes, NEW h \in Nat, Len(D) = h
  PROVE  LET c4 == c \o <<InsIn(x, "CATCH", 0, 0, types, h + 1),
                          InsIn(x, "JUMP_IF_FALSE", 0, 0, {}, h + 2),
                          InsIn(x, "POP", 0, 0, {}, h + 2),
                          InsIn(x, "POP", 0, 0, {}, h + 1)>> IN
         \E P1 : Carries(c, P, c4, P1) /\ Last(P1) = D /\ Hole(c4, P1, Len(c) + 2, D)
<1> DEFINE k1 == h + 1
           k2 == h + 2
           i1 == InsIn(x, "CATCH", 0, 0, types, k1)
           i2 == InsIn(x, "JUMP_IF_FALSE", 0, 0, {}, k2)
           i3 == InsIn(x, "POP", 0, 0, {}, k2)
           i4 == InsIn(x, "POP", 0, 0, {}, k1)
           t == <<i1, i2, i3, i4>>
           S == Calming(c, P, 4, D)
<1>1. /\ k1 \in Nat /\ k2 \in Nat /\ Len(D) <= k1 /\ Len(D) <= k2 /\ Len(D) \in Nat /\ 0 \in Nat
      /\ {} \in SUBSET ErrTypes
  OBVIOUS
<1>2. /\ "CATCH" \in Placid /\ "JUMP_IF_FALSE" \in Placid /\ "POP" \in Placid
      /\ "JUMP_IF_FALSE" \in Targeted /\ i2.op = "JUMP_IF_FALSE"
  BY DEF Placid, Targeted, Branches, InsIn
<1> HIDE DEF k1, k2
<1>3. i1 \in S /\ i2 \in S /\ i3 \in S /\ i4 \in S
  <2>1. \A op \in Placid \ {"TRY_ENTER"} : \A ty \in SUBSET ErrTypes : \A k \in Nat : Len(D) <= k =>
          InsIn(x, op, 0, 0, ty, k) \in S
    BY <1>1, CalmQuiet
  <2> HIDE DEF S
  <2> QED BY <1>1, <1>2, <2>1
<1>4. t \in Seq(S) /\ Len(t) = 4 /\ t[2] = i2
  <2> HIDE DEF i1, i2, i3, i4, S
  <2> QED BY <1>3
<1>5. Knows(Last(P), D) BY KnowsSelf
<1> HIDE DEF t, i2
<1>6. PICK P2 : /\ Carries(c, P, c \o t, P2) /\ Last(P2) = D /\ Len(c \o t) = Len(c) + 4
                /\ Knit(c \o t, P2) /\ 4 \in Nat
                /\ \A k \in 1..4 : t[k].op \in Targeted => Hole(c \o t, P2, Len(c) + k, D)
                /\ \A q \in Block(c, 4) : Back(P2, q, D)
  BY ONLY Knit(c, P), D \in Seq(Nat), <1>4, <1>5, Sewed DEF S
<1>7. Hole(c \o t, P2, Len(c) + 2, D)
  <2>1. 2 \in 1..4 OBVIOUS
  <2> QED BY <1>2, <1>4, <1>6, <2>1
<1> QED BY <1>6, <1>7 DEF t, i2, k1, k2

(* What the statement is once a clause has begun.                          *)
ClauseOpens(o2, j) ==
  \E all \in BOOLEAN : o2 = [Cur EXCEPT !.arm = "catch", !.b = SkipJump, !.j = j, !.jumps = Exits,
                                        !.ctx = CatchCtx, !.all = all]

(* What the try statement is once a catch clause has begun. *)
LEMMA ClauseOpened ==
  ASSUME Now, NEW arm, arm = "body" \/ arm = "catch", Inside("try", arm),
         NEW j \in Nat, NEW o2, ClauseOpens(o2, j)
  PROVE  /\ o2 \in Statement /\ o2.kind = "try" /\ o2.arm = "catch" /\ o2.a = Cur.a /\ o2.h = Cur.h
         /\ o2.b = SkipJump /\ o2.j = j /\ o2.jumps = Exits
<1>1. Cur \in Statement /\ Cur.kind = "try" /\ CatchCtx \in Context BY TryIs
<1>2. SkipJump \in Nat /\ Exits \in SUBSET Nat BY NextClauseIs
<1>3. PICK all \in BOOLEAN : o2 = [Cur EXCEPT !.arm = "catch", !.b = SkipJump, !.j = j, !.jumps = Exits,
                                              !.ctx = CatchCtx, !.all = all]
  BY DEF ClauseOpens
<1> QED BY <1>1, <1>2, <1>3 DEF Statement

(* A catch clause begins.                                                  *)
LEMMA CatchClauseLaces == ASSUME Now, Then, Accepted, Laces, CatchClause PROVE Laces'
<1> DEFINE h == Cur.h
           x == CatchCtx
           c0 == NextClause
           D == Label(locals, h)
           j == Len(c0) + 2
<1>1. PICK arm \in {"body", "catch"} : Inside("try", arm) BY DEF CatchClause
<1>2. arm = "body" \/ arm = "catch" OBVIOUS
<1>3. PICK P : Laced(chunk, P, open, locals, loopStack) BY DEF Laces
<1>4. /\ open # <<>> /\ Cur \in Statement /\ h \in Nat /\ x \in Context BY <1>1, <1>2, TryIs
<1>5. ClauseLocals = SubSeq(locals, 1, h) /\ Len(ClauseLocals) = h BY <1>1, <1>2, NextClauseIs
<1>6. PICK types \in CatchTypes :
        /\ chunk' = c0 \o
            <<InsIn(x, "CATCH", 0, 0, types, h + 1),
              InsIn(x, "JUMP_IF_FALSE", 0, 0, {}, h + 2),
              InsIn(x, "POP", 0, 0, {}, h + 2),
              InsIn(x, "POP", 0, 0, {}, h + 1)>>
        /\ open' = SetLast(open,
            [Cur EXCEPT !.arm = "catch", !.b = SkipJump, !.j = Len(c0) + 2,
                        !.jumps = Exits, !.ctx = x,
                        !.all = @ \/ "Error" \in types])
  BY <1>5 DEF CatchClause
<1>7. types \in SUBSET ErrTypes BY <1>6 DEF Accepted
<1>8. locals' = SubSeq(locals, 1, h) /\ loopStack' = loopStack BY <1>5 DEF CatchClause
<1>9. /\ Knit(chunk, P) /\ D \in Seq(Nat) /\ Len(D) = h /\ h \in 0..Len(locals) /\ h \in 0..h
      /\ Back(P, Cur.a, D) /\ Hole(chunk, P, Cur.a, D)
  BY <1>1, <1>2, <1>3, TryTied
<1>10. PICK P1 : /\ Carries(chunk, P, c0, P1) /\ Last(P1) = D /\ Knit(c0, P1)
                 /\ \A p \in TryOut : Hole(c0, P1, p, D)
  BY <1>1, <1>2, <1>3, NextClauseSewed
<1>11. j \in Nat BY <1>10, KnitIs
<1> DEFINE all == Cur.all \/ "Error" \in types
           o2 == [Cur EXCEPT !.arm = "catch", !.b = SkipJump, !.j = j, !.jumps = Exits,
                             !.ctx = x, !.all = all]
<1>12. open' = SetLast(open, o2)
  <2>1. o2 = [Cur EXCEPT !.arm = "catch", !.b = SkipJump, !.j = Len(c0) + 2, !.jumps = Exits, !.ctx = x,
                         !.all = @ \/ "Error" \in types]
    BY <1>4 DEF Statement
  <2> QED BY <1>6, <2>1
<1>13. all \in BOOLEAN OBVIOUS
<1> HIDE DEF all, j
<1>14. /\ o2 \in Statement /\ o2.kind = "try" /\ o2.arm = "catch" /\ o2.a = Cur.a /\ o2.h = h
       /\ o2.b = SkipJump /\ o2.j = j /\ o2.jumps = Exits
  <2>1. ClauseOpens(o2, j) BY <1>13 DEF ClauseOpens
  <2> HIDE DEF o2, x, h
  <2>2. /\ o2 \in Statement /\ o2.kind = "try" /\ o2.arm = "catch" /\ o2.a = Cur.a /\ o2.h = Cur.h
        /\ o2.b = SkipJump /\ o2.j = j /\ o2.jumps = Exits
    BY <1>1, <1>2, <1>11, <1>13, <2>1, ClauseOpened
  <2> QED BY <2>2 DEF h
<1> HIDE DEF o2
<1>15. PICK P2 : Carries(c0, P1, chunk', P2) /\ Last(P2) = D /\ Hole(chunk', P2, j, D)
  <2> HIDE DEF h, D, x, c0
  <2>1. LET c4 == c0 \o <<InsIn(x, "CATCH", 0, 0, types, h + 1),
                          InsIn(x, "JUMP_IF_FALSE", 0, 0, {}, h + 2),
                          InsIn(x, "POP", 0, 0, {}, h + 2),
                          InsIn(x, "POP", 0, 0, {}, h + 1)>> IN
        \E Q : Carries(c0, P1, c4, Q) /\ Last(Q) = D /\ Hole(c4, Q, Len(c0) + 2, D)
    BY <1>4, <1>7, <1>9, <1>10, ClauseHeadSewed
  <2> QED BY <1>6, <2>1 DEF j
<1> HIDE DEF D, c0
<1>16. Carries(chunk, P, chunk', P2) BY <1>9, <1>10, <1>15, CarriesOn
<1>17. /\ Back(P2, Cur.a, D) /\ Hole(chunk', P2, Cur.a, D) BY <1>9, <1>16, BackOn, HoleOn
<1>18. \A p \in TryOut : Hole(chunk', P2, p, D) BY <1>10, <1>15, HoleOn
<1>19. Label(locals', h) = D BY <1>4, <1>8, <1>9, NowIs, LabelCut DEF D
<1> HIDE DEF h
<1>20. Tied(chunk', P2, o2, loopStack[o2.n + 1], locals')
  BY <1>14, <1>15, <1>17, <1>18, <1>19 DEF Tied, IsLoop, LoopKinds, TryOut
<1> QED BY <1>3, <1>4, <1>8, <1>9, <1>12, <1>14, <1>15, <1>16, <1>20, LacesTurned DEF D

(* An error no clause took: the handler around the statement knows less.   *)
LEMMA AroundHandled ==
  ASSUME Now, NEW arm, arm = "body" \/ arm = "catch", Inside("try", arm),
         NEW P, Laced(chunk, P, open, locals, loopStack)
  PROVE  Handled(chunk, P, Label(locals, Cur.h), CatchCtx)
<1> DEFINE os == ButLast(open, 1)
           ls == SubSeq(locals, 1, Cur.h)
           lp == SubSeq(loopStack, 1, Cur.n)
           k == Len(open) - 1
           D == Label(locals, Cur.h)
<1>1. /\ open \in Seq(Statement) /\ locals \in Seq(Local) /\ scopeDepth \in Nat
      /\ loopStack \in Seq(LoopRecord) /\ Nesting(open, locals, scopeDepth, loopStack) /\ Contexts(open)
  BY NowIs
<1>2. /\ open # <<>> /\ Cur.h \in 0..Len(locals) /\ Cur.d \in Nat /\ CatchCtx.hs = Around.hs
  BY TryIs
<1>3. /\ os \in Seq(Statement) /\ ls \in Seq(Local) /\ lp \in Seq(LoopRecord)
      /\ Nesting(os, ls, Cur.d, lp)
      /\ \A i \in DOMAIN os : os[i] = open[i] /\ i \in DOMAIN open
  BY <1>1, <1>2, NestingPop DEF Cur
<1>4. Contexts(os) /\ Innermost(os) = Around BY <1>1, <1>2, ContextsPop DEF Around
<1>5. Len(ls) = Cur.h BY <1>1, <1>2
<1>6. /\ Len(os) = k /\ k \in 0..Len(open) /\ DOMAIN os = 1..k
  <2> DEFINE n == Len(open)
  <2>1. n \in Nat \ {0} BY <1>1, <1>2
  <2>2. n - 1 \in 0..n BY <2>1
  <2>3. os = SubSeq(open, 1, n - 1) BY DEF ButLast
  <2> HIDE DEF os, n
  <2>4. Len(os) = n - 1 BY <1>1, <2>2, <2>3, CutIs DEF n
  <2> QED BY <1>3, <2>2, <2>4 DEF n
<1> HIDE DEF os, ls, lp, k
<1>7. \A i \in 1..k : Knows(D, Label(locals, open[i].h))
  <2> SUFFICES ASSUME NEW i \in 1..k PROVE Knows(D, Label(locals, open[i].h)) OBVIOUS
  <2>1. os[i] = open[i] /\ i \in DOMAIN os BY <1>3, <1>6
  <2>2. os[i].h \in Nat /\ os[i].h <= Cur.h BY <1>3, <1>5, <2>1, LevelIs
  <2>3. Cur.h \in Nat BY <1>2
  <2> QED BY <2>1, <2>2, <2>3, LabelKnows
<1>8. CASE os = <<>>
  <2>1. CatchCtx.hs = <<>> BY <1>2, <1>4, <1>8 DEF Innermost, Outermost
  <2> QED BY <2>1 DEF Handled
<1>9. CASE os # <<>>
  <2>1. k \in DOMAIN os /\ k \in 1..k BY <1>3, <1>6, <1>9
  <2>2. Innermost(os) = os[k].ctx BY <1>6, <1>9 DEF Innermost, Last
  <2>3. Handles(os, k, CatchCtx.hs) BY <1>2, <1>4, <2>1, <2>2 DEF Contexts
  <2>4. \A i \in 1..k : os[i] = open[i] BY <1>3, <1>6
  <2>5. Handles(open, k, CatchCtx.hs)
    <3>1. CASE CatchCtx.hs = <<>> /\ \A j \in 1..k : ~InBody(os[j]) BY <2>4, <3>1 DEF Handles
    <3>2. CASE \E i \in 1..k : /\ InBody(os[i]) /\ \A j \in (i + 1)..k : ~InBody(os[j])
                               /\ CatchCtx.hs # <<>> /\ Last(CatchCtx.hs) = os[i].a
      <4>1. PICK i \in 1..k : /\ InBody(os[i]) /\ \A j \in (i + 1)..k : ~InBody(os[j])
                              /\ CatchCtx.hs # <<>> /\ Last(CatchCtx.hs) = os[i].a
        BY <3>2
      <4>2. \A j \in (i + 1)..k : j \in 1..k OBVIOUS
      <4>3. /\ InBody(open[i]) /\ \A j \in (i + 1)..k : ~InBody(open[j])
            /\ CatchCtx.hs # <<>> /\ Last(CatchCtx.hs) = open[i].a
        BY <2>4, <4>1, <4>2
      <4> QED BY <4>3 DEF Handles
    <3> QED BY <2>3, <3>1, <3>2 DEF Handles
  <2> HIDE DEF D
  <2>6. Handled(chunk, P, D, CatchCtx) BY <1>6, <1>7, <2>5, HandlerKnown
  <2> QED BY <2>6 DEF D
<1> QED BY <1>8, <1>9

(* The code after the last clause.                                         *)
LEMMA ClausesSewed ==
  ASSUME Now, NEW arm, arm = "body" \/ arm = "catch", Inside("try", arm),
         NEW P, Laced(chunk, P, open, locals, loopStack)
  PROVE  LET D == Label(locals, Cur.h) IN
         \E P1 : Carries(chunk, P, ClausesDone, P1) /\ Last(P1) = D /\ Knit(ClausesDone, P1)
<1> DEFINE h == Cur.h
           x == CatchCtx
           c0 == NextClause
           D == Label(locals, h)
           k == h + 1
           i == InsIn(x, "RETHROW", 0, 0, {}, k)
           c1 == Append(c0, i)
<1>1. /\ Knit(chunk, P) /\ D \in Seq(Nat) /\ Len(D) = h /\ h \in Nat BY TryTied
<1>2. x \in Context BY TryIs
<1>3. Len(ClauseLocals) = h BY NextClauseIs
<1>4. ClausesDone = Patch(c1, TryOut) BY <1>3 DEF ClausesDone, TryOut
<1>5. Handled(chunk, P, D, x) BY AroundHandled
<1>6. PICK P1 : /\ Carries(chunk, P, c0, P1) /\ Last(P1) = D /\ Knit(c0, P1)
                /\ \A p \in TryOut : Hole(c0, P1, p, D)
  BY NextClauseSewed
<1>7. k \in Nat /\ Len(D) <= k /\ Len(D) \in Nat /\ {} \in SUBSET ErrTypes BY <1>1
<1> HIDE DEF h, x, c0, D, k
<1>8. Handled(c0, P1, D, x) BY <1>1, <1>5, <1>6, KnowsSelf, HandledOn
<1>9. i \in Calming(c0, P1, 1, D)
  <2>1. "RETHROW" \in {"NATIVE", "THROW", "RETHROW", "RETURN"} OBVIOUS
  <2> QED BY <1>2, <1>7, <1>8, <2>1, CalmFailing
<1> HIDE DEF i
<1>10. PICK P2 : Carries(c0, P1, c1, P2) /\ Last(P2) = D /\ Knit(c1, P2)
  <2>1. Knows(Last(P1), D) BY <1>6, KnowsSelf
  <2>2. \E Q : /\ Carries(c0, P1, Append(c0, i), Q) /\ Last(Q) = D
               /\ Knit(Append(c0, i), Q) /\ Len(Append(c0, i)) = Len(c0) + 1
               /\ i.op \in Targeted => Hole(Append(c0, i), Q, Len(c0) + 1, D)
               /\ Back(Q, Len(c0) + 1, D)
    BY <1>1, <1>6, <1>9, <2>1, SewedOne
  <2> QED BY <2>2
<1> HIDE DEF c1
<1>11. \A p \in TryOut : Hole(c1, P2, p, Last(P2)) BY <1>6, <1>10, HoleOn
<1>12. Carries(c1, P2, Patch(c1, TryOut), P2) /\ Knit(Patch(c1, TryOut), P2) BY <1>10, <1>11, PatchWired
<1>13. Carries(chunk, P, c1, P2) BY <1>1, <1>6, <1>10, CarriesOn
<1>14. Carries(chunk, P, Patch(c1, TryOut), P2) BY <1>1, <1>12, <1>13, CarriesOn
<1> QED BY <1>4, <1>10, <1>12, <1>14 DEF D, h

(* A try statement without a finally block ends.                           *)
LEMMA TryCloseLaces == ASSUME Now, Then, Laces, TryClose PROVE Laces'
<1>1. PICK arm \in {"body", "catch"} : Inside("try", arm) BY DEF TryClose
<1>2. arm = "body" \/ arm = "catch" OBVIOUS
<1>3. PICK P : Laced(chunk, P, open, locals, loopStack) BY DEF Laces
<1>4. ClauseLocals = SubSeq(locals, 1, Cur.h) BY <1>1, <1>2, NextClauseIs
<1>5. open # <<>> BY <1>1, <1>2, TryIs
<1>6. chunk' = ClausesDone /\ open' = ButLast(open, 1) /\ locals' = SubSeq(locals, 1, Cur.h)
      /\ loopStack' = loopStack
  BY <1>4 DEF TryClose, Close
<1>7. PICK P1 : Carries(chunk, P, ClausesDone, P1) /\ Last(P1) = Label(locals, Cur.h)
  BY <1>1, <1>2, <1>3, ClausesSewed
<1> QED BY <1>3, <1>5, <1>6, <1>7, LacesClosed

(* A finally block begins.                                                 *)
LEMMA FinallyOpenLaces == ASSUME Now, Then, Laces, FinallyOpen PROVE Laces'
<1> DEFINE h == Cur.h
           D == Label(locals, h)
           c == ClausesDone
           x2 == [AfterCtx EXCEPT !.rf = IF Cur.ret THEN Cur.a ELSE @]
           o2 == [Cur EXCEPT !.arm = "finally", !.ctx = x2]
<1>1. PICK arm \in {"body", "catch"} : Inside("try", arm) BY DEF FinallyOpen
<1>2. arm = "body" \/ arm = "catch" OBVIOUS
<1>3. PICK P : Laced(chunk, P, open, locals, loopStack) BY DEF Laces
<1>4. ClauseLocals = SubSeq(locals, 1, h) BY <1>1, <1>2, NextClauseIs
<1>5. open # <<>> /\ Cur \in Statement /\ Cur.kind = "try" /\ CatchCtx \in Context /\ Cur.a \in Nat /\ h \in Nat
  BY <1>1, <1>2, TryIs
<1>6. chunk' = [c EXCEPT ![Cur.a].y = Here(c)] /\ open' = SetLast(open, o2) /\ locals' = SubSeq(locals, 1, h)
      /\ loopStack' = loopStack
  BY <1>4 DEF FinallyOpen
<1>7. x2 \in Context
  <2>1. AfterCtx \in Context BY <1>5 DEF AfterCtx, Context
  <2> QED BY <1>5, <2>1 DEF Context
<1> HIDE DEF x2
<1>8. o2 \in Statement /\ o2.kind = "try" /\ o2.arm = "finally" /\ o2.a = Cur.a /\ o2.h = h
  BY <1>5, <1>7 DEF Statement
<1> HIDE DEF o2
<1>9. /\ Knit(chunk, P) /\ D \in Seq(Nat) /\ h \in 0..Len(locals) /\ h \in 0..h
      /\ Back(P, Cur.a, D) /\ Hole(chunk, P, Cur.a, D)
  BY <1>1, <1>2, <1>3, TryTied
<1>10. PICK P1 : Carries(chunk, P, c, P1) /\ Last(P1) = D /\ Knit(c, P1) BY <1>1, <1>2, <1>3, ClausesSewed
<1> HIDE DEF c, D
<1>11. Hole(c, P1, Cur.a, Last(P1)) BY <1>9, <1>10, HoleOn
<1>12. Carries(c, P1, chunk', P1) BY <1>6, <1>10, <1>11, HandlerWired
<1>13. Carries(chunk, P, chunk', P1) BY <1>9, <1>10, <1>12, CarriesOn
<1>14. Back(P1, Cur.a, D) /\ Hole(chunk', P1, Cur.a, D) BY <1>9, <1>13, BackOn, HoleOn
<1>15. Label(locals', h) = D BY <1>6, <1>9, NowIs, LabelCut DEF D
<1>16. Tied(chunk', P1, o2, loopStack[o2.n + 1], locals')
  <2> HIDE DEF h
  <2> QED BY <1>8, <1>14, <1>15 DEF Tied, IsLoop, LoopKinds
<1> QED BY <1>3, <1>5, <1>6, <1>8, <1>9, <1>10, <1>13, <1>16, LacesTurned DEF D

(* A finally block ends.                                                   *)
LEMMA FinallyCloseLaces == ASSUME Now, Then, Laces, FinallyClose PROVE Laces'
<1> DEFINE h == Cur.h
           D == Label(locals, h)
           c == BlockEnd
<1>1. open # <<>> /\ Cur.kind = "try" /\ Cur.arm = "finally" BY DEF FinallyClose, Inside, Cur
<1>2. /\ scopeDepth = Cur.d + Extra(Cur) /\ Cur.d \in Nat /\ h \in Nat /\ Split(locals, Cur.d, h)
  BY <1>1, CurIs
<1>3. Extra(Cur) = 1 BY <1>1 DEF Extra, InBody
<1>4. scopeDepth - 1 = Cur.d BY <1>2, <1>3
<1>5. Split(locals, scopeDepth - 1, h) BY <1>2, <1>4
<1>6. After = SubSeq(locals, 1, h) /\ EndHeight = h BY <1>2, <1>5, BlockEnded
<1>7. /\ chunk' = Append(c, Ins("END_FINALLY", 0, 0, h)) /\ open' = ButLast(open, 1)
      /\ locals' = SubSeq(locals, 1, h) /\ loopStack' = loopStack
  BY <1>6 DEF FinallyClose, Close
<1>8. PICK P : Laced(chunk, P, open, locals, loopStack) BY DEF Laces
<1>9. Knit(chunk, P) /\ h \in 0..Len(locals) /\ h \in 0..h BY <1>1, <1>8, CurTied
<1>10. D \in Seq(Nat) /\ Len(D) = h
  <2> HIDE DEF h
  <2> QED BY <1>9, LabelBelow
<1>11. PICK P1 : Carries(chunk, P, c, P1) /\ Last(P1) = D /\ Knit(c, P1) BY <1>2, <1>5, <1>8, <1>9, BlockSewed
<1>12. Len(D) <= h BY <1>2, <1>10
<1> HIDE DEF h, D, c
<1>13. PICK P2 : Carries(c, P1, chunk', P2) /\ Last(P2) = D
  <2>1. "END_FINALLY" \in Placid BY DEF Placid
  <2>2. Knows(Last(P1), D) BY <1>11, KnowsSelf
  <2>3. \E Q : /\ Carries(c, P1, Append(c, Ins("END_FINALLY", 0, 0, h)), Q) /\ Last(Q) = D
               /\ Knit(Append(c, Ins("END_FINALLY", 0, 0, h)), Q)
               /\ Len(Append(c, Ins("END_FINALLY", 0, 0, h))) = Len(c) + 1
               /\ "END_FINALLY" \in Targeted =>
                    Hole(Append(c, Ins("END_FINALLY", 0, 0, h)), Q, Len(c) + 1, D)
    BY <1>2, <1>10, <1>11, <1>12, <2>1, <2>2, QuietSewed
  <2> QED BY <1>7, <2>3
<1>14. Carries(chunk, P, chunk', P2) BY <1>9, <1>11, <1>13, CarriesOn
<1> QED BY <1>1, <1>7, <1>8, <1>13, <1>14, LacesClosed DEF D, h

(* A chunk the verifier accepts has no hole left.                          *)
LEMMA KnitAddressed ==
  ASSUME NEW s \in Seq(Instruction), ChunkOK(s), NEW P, Knit(s, P)
  PROVE  Addressed(s, P)
<1> SUFFICES ASSUME NEW p \in DOMAIN s PROVE AddressedAt(s, P, p) BY DEF Addressed
<1>1. Wired(s, P, p) /\ InstrOK(s, p) BY DEF Knit, ChunkOK
<1> DEFINE i == s[p]
<1>2. 0 \notin DOMAIN s OBVIOUS
<1>3. i.op \in Branches \cup {"TRY_ENTER"} => i.x \in DOMAIN s
  BY <1>1 DEF InstrOK, Flows, Branches
<1>4. i.op \in Branches \cup {"TRY_ENTER"} => i.x # 0 BY <1>2, <1>3
<1> QED BY <1>1, <1>4 DEF Wired, AddressedAt, Targeted

(* The end of a chunk.                                                     *)
LEMMA ChunkAddressed ==
  ASSUME Now, Laces, FinishChunk
  PROVE  LET c == chunk \o <<Ins("NOTYPE", 0, 0, Height), Ins("RETURN", 0, 0, Height + 1)>> IN
         \E P : Addressed(c, P)
<1> DEFINE D == Full(locals)
           k == Height + 1
           i1 == Ins("NOTYPE", 0, 0, Height)
           i2 == Ins("RETURN", 0, 0, k)
           c == chunk \o <<i1, i2>>
<1>1. PICK P : Laced(chunk, P, open, locals, loopStack) BY DEF Laces
<1>2. Knit(chunk, P) /\ Last(P) = D BY <1>1 DEF Laced
<1>3. D \in Seq(Nat) /\ Len(D) = Height /\ Len(D) \in Nat /\ Height \in Nat /\ k \in Nat
      /\ Len(D) <= Height /\ Len(D) <= k /\ {} \in SUBSET ErrTypes
  BY FullIs
<1>4. c \in Seq(Instruction) /\ ChunkOK(c) BY ChunkFinished
<1>5. Handled(chunk, P, D, Ctx) /\ Ctx \in Context BY <1>1, HandledHere, NowIs
<1> DEFINE S == Calming(chunk, P, 2, D)
<1> HIDE DEF D, k
<1>6. i1 \in S
  <2>1. "NOTYPE" \in Placid BY DEF Placid
  <2> QED BY <1>3, <2>1, QuietAt
<1>7. i2 \in S
  <2>1. "RETURN" \in {"NATIVE", "THROW", "RETHROW", "RETURN"} OBVIOUS
  <2>2. InsIn(Ctx, "RETURN", 0, 0, {}, k) \in Calming(chunk, P, 2, D)
    BY <1>3, <1>5, <2>1, CalmFailing
  <2> QED BY <2>2 DEF Ins
<1> DEFINE t == <<i1, i2>>
<1>8. t \in Seq(S) /\ Len(t) = 2
  <2> HIDE DEF i1, i2, S
  <2> QED BY <1>6, <1>7, Tuple2
<1>9. c = chunk \o t /\ Knows(Last(P), D) BY <1>2, KnowsSelf
<1> HIDE DEF t, c
<1>10. \E Q : Knit(chunk \o t, Q)
  <2>1. \E P2 : /\ Carries(chunk, P, chunk \o t, P2) /\ Last(P2) = D /\ Len(chunk \o t) = Len(chunk) + 2
                /\ Knit(chunk \o t, P2) /\ 2 \in Nat
                /\ \A j \in 1..2 : t[j].op \in Targeted => Hole(chunk \o t, P2, Len(chunk) + j, D)
                /\ \A q \in Block(chunk, 2) : Back(P2, q, D)
    <3>1. /\ Knit(chunk, P) /\ D \in Seq(Nat) /\ Knows(Last(P), D)
          /\ t \in Seq(Calming(chunk, P, 2, D)) /\ Len(t) = 2
      BY <1>2, <1>3, <1>8, <1>9 DEF S
    <3> QED BY ONLY <3>1, Sewed
  <2> QED BY <2>1
<1>11. \E Q : Addressed(c, Q) BY <1>4, <1>9, <1>10, KnitAddressed
<1> QED BY <1>11 DEF c, k

(* Nothing is known where a chunk begins.                                  *)
LEMMA FreshLaces == \A lp : Laced(<<>>, <<<<>>>>, <<>>, <<>>, lp)
<1> SUFFICES ASSUME NEW lp PROVE Laced(<<>>, <<<<>>>>, <<>>, <<>>, lp) OBVIOUS
<1> DEFINE e == <<>>
           P == <<e>>
<1>1. e \in Seq(Instruction) /\ e \in Seq(Nat) /\ Len(e) = 0 /\ DOMAIN e = {} OBVIOUS
<1>2. P \in Seq(Seq(Nat)) /\ Len(P) = 1 /\ P[1] = e
  <2> HIDE DEF e
  <2> QED BY <1>1
<1>3. Full(e) = e BY DEF Full, Label
<1> HIDE DEF e, P
<1>4. Knit(e, P) BY <1>1, <1>2 DEF Knit
<1>5. Last(P) = Full(e) BY <1>2, <1>3 DEF Last
<1>6. Laced(e, P, e, e, lp) BY <1>1, <1>4, <1>5 DEF Laced
<1> QED BY <1>6 DEF e, P

(* Every chunk handed over is addressed, and the one that is compiled is   *)
(* on the way to.                                                          *)
Addressing ==
  /\ Laces
  /\ \A f \in 1..NumFuncs : f < fn => \E P : Addressed(compiled[f], P)

(* A finished chunk is addressed. *)
LEMMA AddressingFinish == ASSUME CGInv, Addressing, FinishChunk PROVE Addressing'
<1> DEFINE c == chunk \o <<Ins("NOTYPE", 0, 0, Height), Ins("RETURN", 0, 0, Height + 1)>>
<1>1. Now /\ CGTypes BY DEF CGInv, Now
<1>2. \E P : Addressed(c, P) BY <1>1, ChunkAddressed DEF Addressing
<1>3. /\ fn <= NumFuncs /\ compiled' = [compiled EXCEPT ![fn] = c] /\ fn' = fn + 1
      /\ chunk' = <<>> /\ open' = <<>> /\ locals' = <<>>
  BY DEF FinishChunk
<1> HIDE DEF c
<1>4. fn \in 1..NumFuncs /\ NumFuncs \in Nat BY <1>1, <1>3, CodeGenAssumption DEF CGTypes
<1>5. Laces' BY <1>3, FreshLaces DEF Laces
<1>6. ASSUME NEW f \in 1..NumFuncs, f < fn' PROVE \E P : Addressed(compiled'[f], P)
  <2>1. CASE f = fn
    <3>1. compiled'[f] = c BY <1>1, <1>3, <1>4, <2>1 DEF CGTypes
    <3> QED BY <1>2, <3>1
  <2>2. CASE f # fn
    <3>1. f < fn BY <1>3, <1>4, <1>6, <2>2
    <3>2. compiled'[f] = compiled[f] BY <1>1, <1>3, <2>2 DEF CGTypes
    <3> QED BY <3>1, <3>2 DEF Addressing
  <2> QED BY <2>1, <2>2
<1> QED BY <1>5, <1>6 DEF Addressing

(* Every statement keeps the labels of the chunk.                          *)
LEMMA StatementLaces ==
  ASSUME Now, Then, CGTypes, Accepted, Laces, CGStep, ~FinishChunk
  PROVE  Laces'
<1>0. Funcs = 1..NumFuncs BY DEF Accepted
<1>1. CASE Let \/ Use \/ Assign \/ Eval \/ Skip
  BY <1>1, LetLaces, UseLaces, AssignLaces, EvalLaces, SkipLaces
<1>2. CASE CallStmt \/ ThrowStmt \/ AssertStmt \/ ReturnStmt
  BY <1>0, <1>2, CallLaces, ThrowLaces, AssertLaces, ReturnLaces
<1>3. CASE Break \/ Continue BY <1>3, BreakLaces, ContinueLaces
<1>4. CASE IfOpen \/ Elif \/ Else \/ IfClose BY <1>4, IfOpenLaces, ElifLaces, ElseLaces, IfCloseLaces
<1>5. CASE WhileOpen \/ WhileClose \/ DoOpen \/ DoClose
  BY <1>5, WhileOpenLaces, WhileCloseLaces, DoOpenLaces, DoCloseLaces
<1>6. CASE ForOpen \/ ForClose \/ ForEachOpen \/ ForEachClose
  BY <1>6, ForOpenLaces, ForCloseLaces, ForEachOpenLaces, ForEachCloseLaces
<1>7. CASE SwitchOpen \/ SwitchCase \/ SwitchDefault \/ SwitchClose
  BY <1>7, SwitchOpenLaces, SwitchCaseLaces, SwitchDefaultLaces, SwitchCloseLaces
<1>8. CASE TryOpen \/ CatchClause \/ TryClose \/ FinallyOpen \/ FinallyClose
  BY <1>8, TryOpenLaces, CatchClauseLaces, TryCloseLaces, FinallyOpenLaces, FinallyCloseLaces
<1> QED BY <1>1, <1>2, <1>3, <1>4, <1>5, <1>6, <1>7, <1>8 DEF CGStep

(* Every step of the compiler keeps the labels.                            *)
LEMMA AddressingStep == ASSUME CGInv, CGInv', Addressing, Accepted, CGStep PROVE Addressing'
<1>1. CASE FinishChunk BY <1>1, AddressingFinish
<1>2. CASE ~FinishChunk
  <2>1. Now /\ Then /\ CGTypes BY DEF CGInv, Now, Then
  <2>2. Laces' BY <1>2, <2>1, StatementLaces DEF Addressing
  <2>3. fn' = fn /\ compiled' = compiled
    <3>1. CASE Let \/ Use \/ Assign \/ Eval \/ Skip BY <3>1 DEF Let, Use, Assign, Eval, Skip, Same
    <3>2. CASE CallStmt \/ ThrowStmt \/ AssertStmt \/ ReturnStmt \/ Break \/ Continue
      BY <3>2 DEF CallStmt, ThrowStmt, AssertStmt, ReturnStmt, Break, Continue, Same
    <3>3. CASE IfOpen \/ Elif \/ Else \/ IfClose BY <3>3 DEF IfOpen, Elif, Else, IfClose, Same
    <3>4. CASE WhileOpen \/ WhileClose \/ DoOpen \/ DoClose
      BY <3>4 DEF WhileOpen, WhileClose, DoOpen, DoClose, Same
    <3>5. CASE ForOpen \/ ForClose \/ ForEachOpen \/ ForEachClose
      <4>1. CASE ForOpen BY <4>1 DEF ForOpen, Same
      <4>2. CASE ForClose BY <4>2 DEF ForClose, Same
      <4>3. CASE ForEachOpen BY <4>3 DEF ForEachOpen, Same
      <4>4. CASE ForEachClose BY <4>4 DEF ForEachClose, Same
      <4> QED BY <3>5, <4>1, <4>2, <4>3, <4>4
    <3>6. CASE SwitchOpen \/ SwitchCase \/ SwitchDefault \/ SwitchClose
      <4>1. CASE SwitchOpen BY <4>1 DEF SwitchOpen, Same
      <4>2. CASE SwitchCase BY <4>2 DEF SwitchCase, Same
      <4>3. CASE SwitchDefault BY <4>3 DEF SwitchDefault, Same
      <4>4. CASE SwitchClose BY <4>4 DEF SwitchClose, Same
      <4> QED BY <3>6, <4>1, <4>2, <4>3, <4>4
    <3>7. CASE TryOpen \/ CatchClause \/ TryClose \/ FinallyOpen \/ FinallyClose
      <4>1. CASE TryOpen BY <4>1 DEF TryOpen, Same
      <4>2. CASE CatchClause BY <4>2 DEF CatchClause, Same
      <4>3. CASE TryClose BY <4>3 DEF TryClose, Same
      <4>4. CASE FinallyOpen BY <4>4 DEF FinallyOpen, Same
      <4>5. CASE FinallyClose BY <4>5 DEF FinallyClose, Same
      <4> QED BY <3>7, <4>1, <4>2, <4>3, <4>4, <4>5
    <3> QED BY <1>2, <3>1, <3>2, <3>3, <3>4, <3>5, <3>6, <3>7 DEF CGStep
  <2> QED BY <2>2, <2>3 DEF Addressing
<1> QED BY <1>1, <1>2

(* A finished program lets the machine begin.                              *)
LEMMA AddressingStarts ==
  ASSUME WholeInv, Addressing, Accepted, Start
  PROVE  Labelled'
<1>1. Compiled /\ BeginRunOf(compiled) /\ status = "idle" BY DEF Start, BeginRunOf
<1>2. frames = <<>> /\ stack = <<>> /\ CGInv BY <1>1 DEF WholeInv, RInv
<1>3. Funcs = 1..NumFuncs BY DEF Accepted
<1>4. Verified(compiled) BY <1>1, <1>2, <1>3, OutputVerified
<1>5. \A f \in Funcs : \E P : Addressed(compiled[f], P)
  <2>1. NumFuncs \in Nat /\ fn \in Nat /\ fn > NumFuncs
    BY <1>1, <1>2, CodeGenAssumption DEF CGInv, CGTypes, Compiled
  <2>2. \A f \in Funcs : f \in 1..NumFuncs /\ f < fn BY <1>3, <2>1
  <2> QED BY <2>2 DEF Addressing
<1>6. \E L : \A f \in Funcs : Addressed(compiled[f], L[f])
  <2> DEFINE M == [f \in Funcs |-> CHOOSE P : Addressed(compiled[f], P)]
  <2>1. \A f \in Funcs : Addressed(compiled[f], M[f]) BY <1>5
  <2> QED BY <2>1
<1>7. PICK L : \A f \in Funcs : Addressed(compiled[f], L[f]) BY <1>6
<1>8. LabelsWith(L)' BY <1>1, <1>2, <1>4, <1>7, BeginLabels
<1> QED BY <1>8 DEF Labelled

(* The compiler's side holds until the machine starts, the machine's for   *)
(* good.                                                                   *)
AddressInv ==
  /\ WholeInv
  /\ status = "idle" => Addressing
  /\ status # "idle" => Labelled

(* Nothing is compiled at first. *)
LEMMA AddressInit == ASSUME Accepted, Init PROVE AddressInv
<1>1. WholeInv BY WholeInit DEF Accepted
<1>2. status = "idle" BY DEF Init, VMIdle
<1>3. Addressing
  <2>1. chunk = <<>> /\ open = <<>> /\ locals = <<>> /\ fn = 1 BY DEF Init, CGInit
  <2>2. Laces BY <2>1, FreshLaces DEF Laces
  <2>3. \A f \in 1..NumFuncs : ~(f < fn) BY <2>1, CodeGenAssumption
  <2> QED BY <2>2, <2>3 DEF Addressing
<1> QED BY <1>1, <1>2, <1>3 DEF AddressInv

(* Every step of the compiler and of the machine keeps the labels. *)
LEMMA AddressInvStep == ASSUME AddressInv, Accepted, [Next]_vars PROVE AddressInv'
<1>1. WholeInv /\ WholeInv' BY WholeStep DEF AddressInv
<1>2. CASE Compile
  <2>1. CGStep /\ status' = status /\ [VMNext]_vmVars BY <1>2 DEF Compile, vmVars
  <2>2. ASSUME status = "idle" PROVE Addressing'
    <3>1. CGInv /\ CGInv' BY <1>1, <2>1, <2>2 DEF WholeInv
    <3> QED BY <2>1, <2>2, <3>1, AddressingStep DEF AddressInv
  <2>3. ASSUME status # "idle" PROVE Labelled'
    BY <1>1, <2>1, <2>3, LabelledStep DEF AddressInv, WholeInv, RInv
  <2> QED BY <1>1, <2>1, <2>2, <2>3 DEF AddressInv
<1>3. CASE Start
  <2>1. status = "idle" /\ status' = "running" BY <1>3 DEF Start, BeginRunOf
  <2>2. Labelled' BY <1>1, <1>3, <2>1, AddressingStarts DEF AddressInv
  <2> QED BY <1>1, <2>1, <2>2 DEF AddressInv
<1>4. CASE Run
  <2>1. status # "idle" /\ VMNext BY <1>4 DEF Run, VMNext
  <2>2. VInv /\ Labelled BY <1>1, <2>1 DEF AddressInv, WholeInv, RInv
  <2>3. Labelled' BY <2>1, <2>2, LabelledStep
  <2>4. status' # "idle" BY <1>4, <2>1, <2>2, CodeStays DEF VInv, Run
  <2> QED BY <1>1, <2>3, <2>4 DEF AddressInv
<1>5. CASE UNCHANGED vars
  <2>1. status' = status /\ [VMNext]_vmVars BY <1>5 DEF vars, vmVars
  <2>2. /\ chunk' = chunk /\ open' = open /\ loopStack' = loopStack /\ fn' = fn
        /\ compiled' = compiled /\ locals' = locals
    BY <1>5 DEF vars, cgVars
  <2>3. Addressing => Addressing' BY <2>2 DEF Addressing, Laces
  <2>4. ASSUME status # "idle" PROVE Labelled'
    BY <1>1, <2>1, <2>4, LabelledStep DEF AddressInv, WholeInv, RInv
  <2> QED BY <1>1, <2>1, <2>3, <2>4 DEF AddressInv
<1> QED BY <1>2, <1>3, <1>4, <1>5 DEF Next

(* In every run of a compiled program an instruction that reads or writes  *)
(* a local finds in its slot the value of the declaration that the         *)
(* compiler's own resolution named: whatever the statements, nested        *)
(* however deeply, whatever the calls, and after whatever breaks,          *)
(* continues, errors and returns through finally blocks.                   *)
THEOREM CompiledLexicalAddressing ==
  ASSUME Accepted PROVE Spec => []LexicalAddressing
<1>1. Init => AddressInv BY AddressInit
<1>2. AddressInv /\ [Next]_vars => AddressInv' BY AddressInvStep
<1>3. AddressInv => LexicalAddressing
  <2>1. CASE status = "idle" BY <2>1 DEF LexicalAddressing, Running
  <2>2. CASE status # "idle" BY <2>2, LabelledAddresses DEF AddressInv, WholeInv, RInv
  <2> QED BY <2>1, <2>2
<1> QED BY <1>1, <1>2, <1>3, PTL DEF Spec
=============================================================================
