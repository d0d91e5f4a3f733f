--------------------------- MODULE FinallyProofs ---------------------------
(***************************************************************************)
(* No promised finally block is skipped.  VerifierProofs has the machine's *)
(* half: code that pays its debts is run without a block left out.  Here   *)
(* the code of a chunk that is being compiled keeps paying while           *)
(* instructions are appended and holes are patched, handler by handler,    *)
(* unless the program uses one of the combinations that the runs and the   *)
(* findings show to be harmful.                                            *)
(***************************************************************************)
EXTENDS CompileAndRunProofs

----------------------------------------------------------------------------
(* The compiler emits such code.  While a chunk is not finished, `Even`    *)
(* says that it pays its debts but for the targets of the holes W, when    *)
(* the finally blocks of T are still to come and no settled jump goes      *)
(* beyond b.  Here the annotation `ow` stands for the spans.               *)

(* The debts an instruction may meet, by its annotation alone.             *)
Paid(c, D, p) ==
  /\ c[p].op \in Fallible /\ p \notin D =>
       IF c[p].hs = <<>> THEN c[p].ow = {}
       ELSE Top(c[p].hs) \in 1..(p - 1) /\ c[p].ow \subseteq c[Top(c[p].hs)].ow \cup {Top(c[p].hs)}
  /\ c[p].op = "CALL" => c[p].ow = {}
  /\ c[p].op = "RETURN" => IF c[p].hs = <<>> THEN c[p].ow = {} ELSE c[p].ow \subseteq {Top(c[p].hs)}
  /\ c[p].op = "END_FINALLY" /\ c[p].rf # 0 => c[p].ow = {}

(* Where a jump that needs no patching goes.                               *)
Aims(c, T, D, b, p) ==
  /\ Settles(c, T, D, p)
  /\ c[p].op \in Branches => IF Verdict(c, p) THEN c[p].x \in DOMAIN c ELSE c[p].x <= b
  /\ c[p].op = "TRY_ENTER" => c[p].x <= b /\ c[p].y <= b

EvenAt(c, W, T, D, b, p) ==
  /\ Laid(c, D, p) /\ Paid(c, D, p)
  /\ c[p].ow \subseteq 1..(p - 1)
  /\ \A e : Spans(c, T, e, p) => e \in c[p].ow
  /\ c[p].op # "NOTYPE"
  /\ c[p].op = "TRY_ENTER" => c[p].y <= Len(c) + 1
  /\ p \notin W => Aims(c, T, D, b, p)

Even(c, W, T, D, b) ==
  /\ c \in Seq(Instruction) /\ D \subseteq DOMAIN c /\ b \in Nat
  /\ \A e \in T : e \in DOMAIN c /\ c[e].op = "TRY_ENTER" /\ c[e].y = 0
  /\ Len(c) \in DOMAIN c => c[Len(c)].op # "CATCH"
  /\ \A p \in DOMAIN c : EvenAt(c, W, T, D, b, p)

(* The code c2 is c with more behind it, but for targets.                  *)
Alike(c, c2) ==
  /\ DOMAIN c \subseteq DOMAIN c2
  /\ \A p \in DOMAIN c :
       /\ c2[p].op = c[p].op /\ c2[p].ty = c[p].ty /\ c2[p].hs = c[p].hs /\ c2[p].ow = c[p].ow

(* A place in the code c0 one may jump to without an error stays one.      *)
Lasting(c0, D0, c, D) ==
  \A q \in Nat : q <= Len(c0) + 1 /\ Ordinary(c0, q) /\ q \notin D0 => Ordinary(c, q) /\ q \notin D

(* The code c has grown from c0.                                           *)
Rises(c0, D0, c, W, T, D, b) ==
  /\ c0 \in Seq(Instruction) /\ Even(c, W, T, D, b)
  /\ Alike(c0, c) /\ Lasting(c0, D0, c, D) /\ D0 \subseteq D

(* What may be emitted while the finally blocks T are owed.                *)
Payable(c, T, i) ==
  /\ i.op \in Fallible =>
       IF i.hs = <<>> THEN T = {}
       ELSE Top(i.hs) \in DOMAIN c /\ T \subseteq c[Top(i.hs)].ow \cup {Top(i.hs)}
  /\ i.op = "CALL" => T = {}
  /\ i.op = "RETURN" => IF i.hs = <<>> THEN T = {} ELSE T \subseteq {Top(i.hs)}
  /\ i.op = "END_FINALLY" /\ i.rf # 0 => T = {}

LEMMA AlikeOn ==
  ASSUME NEW c1, NEW c2, NEW c3, Alike(c1, c2), Alike(c2, c3)
  PROVE  Alike(c1, c3)
BY DEF Alike

LEMMA AlikeIs == \A c : Alike(c, c)
BY DEF Alike

LEMMA RisesIs ==
  ASSUME NEW c, NEW W, NEW T, NEW D, NEW b, Even(c, W, T, D, b)
  PROVE  Rises(c, D, c, W, T, D, b)
BY DEF Rises, Even, Lasting, Alike

(* The facts about the code of Even.                                       *)
LEMMA EvenIs ==
  ASSUME NEW c, NEW W, NEW T, NEW D, NEW b, Even(c, W, T, D, b)
  PROVE  /\ c \in Seq(Instruction) /\ Len(c) \in Nat /\ DOMAIN c = 1..Len(c) /\ D \subseteq DOMAIN c
         /\ b \in Nat /\ (Len(c) \in DOMAIN c => c[Len(c)].op # "CATCH")
         /\ \A p \in DOMAIN c : /\ c[p] \in Instruction /\ c[p].x \in Nat /\ c[p].y \in Nat /\ p \in Nat
                                /\ EvenAt(c, W, T, D, b, p)
         /\ \A e \in T : e \in DOMAIN c /\ c[e].op = "TRY_ENTER" /\ c[e].y = 0
<1>1. /\ c \in Seq(Instruction) /\ D \subseteq DOMAIN c /\ b \in Nat
      /\ \A e \in T : e \in DOMAIN c /\ c[e].op = "TRY_ENTER" /\ c[e].y = 0
      /\ Len(c) \in DOMAIN c => c[Len(c)].op # "CATCH"
      /\ \A p \in DOMAIN c : EvenAt(c, W, T, D, b, p)
  BY DEF Even
<1>2. \A p \in DOMAIN c : c[p].x \in Nat /\ c[p].y \in Nat BY <1>1, InstrTypes
<1>3. \A p \in DOMAIN c : c[p] \in Instruction /\ p \in Nat BY <1>1
<1> QED BY <1>1, <1>2, <1>3

(* More holes may be allowed for. *)
LEMMA RisesLess ==
  ASSUME NEW c0, NEW D0, NEW c, NEW W, NEW T, NEW D, NEW b, Rises(c0, D0, c, W, T, D, b),
         NEW V, W \subseteq V
  PROVE  Rises(c0, D0, c, V, T, D, b)
<1>1. \A p \in DOMAIN c : EvenAt(c, W, T, D, b, p) => EvenAt(c, V, T, D, b, p) BY DEF EvenAt
<1> QED BY <1>1 DEF Rises, Even

(* Neither code nor a place in it is changed by code added behind, when    *)
(* every clause that is added is beyond the places one jumps to.           *)
LEMMA OrdinaryBehind ==
  ASSUME NEW c \in Seq(Instruction), NEW c2 \in Seq(Instruction), DOMAIN c \subseteq DOMAIN c2,
         \A p \in DOMAIN c : c2[p].op = c[p].op,
         NEW b, \A q \in DOMAIN c2 : q \notin DOMAIN c /\ c2[q].op = "CATCH" => b + 1 < q,
         Len(c) \in DOMAIN c => c[Len(c)].op # "CATCH",
         NEW q \in Nat, b \in Nat, q <= b
  PROVE  /\ Ordinary(c, q) => Ordinary(c2, q)
         /\ (q \in DOMAIN c => ~Refused(c, q)) => (q \in DOMAIN c2 => ~Refused(c2, q))
         /\ (q - 1 \in DOMAIN c => c[q - 1].op # "CATCH") => (q - 1 \in DOMAIN c2 => c2[q - 1].op # "CATCH")
<1>1. \A r \in DOMAIN c2 : c2[r].op = "CATCH" /\ r <= q + 1 => r \in DOMAIN c
  <2> SUFFICES ASSUME NEW r \in DOMAIN c2, c2[r].op = "CATCH", r <= q + 1, r \notin DOMAIN c PROVE FALSE
    OBVIOUS
  <2>1. b + 1 < r /\ r \in Nat OBVIOUS
  <2> QED BY <2>1
<1>2. (q \in DOMAIN c => ~Refused(c, q)) => (q \in DOMAIN c2 => ~Refused(c2, q))
  <2> SUFFICES ASSUME q \in DOMAIN c2, Refused(c2, q) PROVE q \in DOMAIN c /\ Refused(c, q) OBVIOUS
  <2>1. q + 1 \in DOMAIN c2 /\ c2[q].op = "POP" /\ c2[q + 1].op = "CATCH" BY DEF Refused
  <2>2. q + 1 \in DOMAIN c BY <1>1, <2>1
  <2>3. q \in DOMAIN c BY <2>2
  <2> QED BY <2>1, <2>2, <2>3 DEF Refused
<1>3. (q - 1 \in DOMAIN c => c[q - 1].op # "CATCH") => (q - 1 \in DOMAIN c2 => c2[q - 1].op # "CATCH")
  BY <1>1
<1>4. q \in DOMAIN c2 /\ c2[q].op = "CATCH" => q \in DOMAIN c /\ c[q].op = "CATCH"
  BY <1>1
<1>5. Ordinary(c, q) => Ordinary(c2, q)
  <2> SUFFICES ASSUME Ordinary(c, q) PROVE Ordinary(c2, q) OBVIOUS
  <2>1. q - 1 \in DOMAIN c => c[q - 1].op # "CATCH" BY DEF Ordinary
  <2>2. q - 1 \in DOMAIN c2 => c2[q - 1].op # "CATCH" BY <1>3, <2>1
  <2>3. q \in DOMAIN c2 => c2[q].op # "CATCH" BY <1>4 DEF Ordinary
  <2>4. q \in DOMAIN c2 => ~Refused(c2, q)
    <3> SUFFICES ASSUME Refused(c2, q), q \in DOMAIN c2 PROVE FALSE OBVIOUS
    <3>1. q + 1 \in DOMAIN c2 /\ c2[q + 1].op = "CATCH" BY DEF Refused
    <3>2. q + 1 \in DOMAIN c BY <1>1, <3>1
    <3>3. q \in DOMAIN c BY <3>2
    <3>4. ~Refused(c, q) BY <3>3 DEF Ordinary
    <3> QED BY <1>2, <3>3, <3>4
  <2> QED BY <2>2, <2>3, <2>4 DEF Ordinary
<1> QED BY <1>2, <1>3, <1>5

(* What Even says of an instruction survives more code behind it.          *)
Behind(c, c2) ==
  /\ c2 \in Seq(Instruction) /\ DOMAIN c \subseteq DOMAIN c2
  /\ \A p \in DOMAIN c : c2[p] = c[p]

LEMMA EvenBehind ==
  ASSUME NEW c, NEW W, NEW T, NEW D, NEW b, Even(c, W, T, D, b),
         NEW c2, Behind(c, c2), NEW D2, D \subseteq D2,
         \A q \in D2 : q \in D \/ (q \notin DOMAIN c /\ b < q),
         \A q \in DOMAIN c2 : q \notin DOMAIN c /\ c2[q].op = "CATCH" => b + 1 < q,
         NEW W2, W \subseteq W2, NEW b2 \in Nat, b <= b2, NEW p \in DOMAIN c
  PROVE  EvenAt(c2, W2, T, D2, b2, p)
<1>1. /\ c \in Seq(Instruction) /\ Len(c) \in Nat /\ DOMAIN c = 1..Len(c) /\ D \subseteq DOMAIN c
      /\ b \in Nat /\ (Len(c) \in DOMAIN c => c[Len(c)].op # "CATCH")
      /\ c[p] \in Instruction /\ c[p].x \in Nat /\ c[p].y \in Nat /\ p \in Nat
      /\ EvenAt(c, W, T, D, b, p)
  BY EvenIs
<1>2. /\ c2 \in Seq(Instruction) /\ DOMAIN c \subseteq DOMAIN c2 /\ \A q \in DOMAIN c : c2[q] = c[q]
      /\ Len(c2) \in Nat /\ DOMAIN c2 = 1..Len(c2)
  BY DEF Behind
<1>3. c2[p] = c[p] /\ p \in DOMAIN c2 /\ Len(c) <= Len(c2) BY <1>1, <1>2
<1>4. \A q \in DOMAIN c : q \in D2 <=> q \in D OBVIOUS
<1>5. p - 1 \in DOMAIN c2 <=> p - 1 \in DOMAIN c BY <1>1, <1>2
<1>6. p - 2 \in DOMAIN c2 <=> p - 2 \in DOMAIN c BY <1>1, <1>2
<1>7. Verdict(c2, p) <=> Verdict(c, p) BY <1>2, <1>3, <1>5 DEF Verdict
<1>8. Sure(c2, p) <=> Sure(c, p) BY <1>2, <1>3, <1>5, <1>7 DEF Sure, Verdict
<1>9. Laid(c2, D2, p)
  <2>1. Laid(c, D, p) BY <1>1 DEF EvenAt
  <2>2. ASSUME c[p].op = "CATCH"
        PROVE  /\ p - 1 \in DOMAIN c2
               /\ \/ c2[p - 1].op = "JUMP"
                  \/ c2[p - 1].op = "POP" /\ p - 2 \in DOMAIN c2 /\ c2[p - 2].op = "JUMP"
               /\ p + 1 \in DOMAIN c2 => c2[p + 1].op = "JUMP_IF_FALSE"
    <3>1. /\ p - 1 \in DOMAIN c
          /\ \/ c[p - 1].op = "JUMP"
             \/ c[p - 1].op = "POP" /\ p - 2 \in DOMAIN c /\ c[p - 2].op = "JUMP"
          /\ p + 1 \in DOMAIN c => c[p + 1].op = "JUMP_IF_FALSE"
      BY <2>1, <2>2 DEF Laid
    <3>2. p # Len(c) BY <1>1, <2>2
    <3>3. p + 1 \in DOMAIN c BY <1>1, <3>2
    <3> QED BY <1>2, <3>1, <3>3
  <2>3. p \in D2 => p - 1 \in DOMAIN c2 /\ (c2[p - 1].op = "JUMP" \/ p - 1 \in D2)
    BY <1>2, <1>4, <2>1 DEF Laid
  <2> QED BY <1>3, <2>2, <2>3 DEF Laid
<1>10. Paid(c2, D2, p)
  <2>1. Paid(c, D, p) BY <1>1 DEF EvenAt
  <2>2. p \notin D2 => p \notin D OBVIOUS
  <2>3. \A k \in 1..(p - 1) : c2[k] = c[k] BY <1>1, <1>2
  <2> QED BY <1>3, <2>1, <2>2, <2>3 DEF Paid
<1>11. \A e : Spans(c2, T, e, p) <=> Spans(c, T, e, p)
  <2> SUFFICES ASSUME NEW e PROVE Spans(c2, T, e, p) <=> Spans(c, T, e, p) OBVIOUS
  <2>1. e \in DOMAIN c2 /\ e < p => e \in DOMAIN c BY <1>1, <1>2
  <2> QED BY <1>2, <2>1 DEF Spans
<1>12. ASSUME p \notin W2 PROVE Aims(c2, T, D2, b2, p)
  <2>1. Aims(c, T, D, b, p) /\ Settles(c, T, D, p) BY <1>1, <1>12 DEF EvenAt, Aims
  <2>2. \A q \in Nat : q <= b =>
          /\ Ordinary(c, q) => Ordinary(c2, q)
          /\ (q \in DOMAIN c => ~Refused(c, q)) => (q \in DOMAIN c2 => ~Refused(c2, q))
          /\ (q - 1 \in DOMAIN c => c[q - 1].op # "CATCH") => (q - 1 \in DOMAIN c2 => c2[q - 1].op # "CATCH")
          /\ q \notin D => q \notin D2
    <3> SUFFICES ASSUME NEW q \in Nat, q <= b
                 PROVE  /\ Ordinary(c, q) => Ordinary(c2, q)
                        /\ (q \in DOMAIN c => ~Refused(c, q)) => (q \in DOMAIN c2 => ~Refused(c2, q))
                        /\ (q - 1 \in DOMAIN c => c[q - 1].op # "CATCH")
                             => (q - 1 \in DOMAIN c2 => c2[q - 1].op # "CATCH")
                        /\ q \notin D => q \notin D2
      OBVIOUS
    <3>1. q \notin D => q \notin D2 BY <1>1
    <3>2. \A r \in DOMAIN c : c2[r].op = c[r].op BY <1>2
    <3>3. \A r \in DOMAIN c2 : r \notin DOMAIN c /\ c2[r].op = "CATCH" => b + 1 < r OBVIOUS
    <3> QED BY ONLY <1>1, <1>2, <3>1, <3>2, <3>3, q \in Nat, q <= b, OrdinaryBehind
  <2>3. \A q : Stays(c, T, p, q) => Stays(c2, T, p, q)
    <3> SUFFICES ASSUME NEW q, Stays(c, T, p, q), NEW e, Spans(c2, T, e, p)
                 PROVE  e < q /\ (c2[e].y # 0 => q <= c2[e].y)
      BY DEF Stays
    <3>1. Spans(c, T, e, p) /\ e \in DOMAIN c BY <1>11 DEF Spans
    <3> QED BY <1>2, <3>1 DEF Stays
  <2>4. ASSUME c[p].op \in Branches
        PROVE  /\ Stays(c2, T, p, c[p].x)
               /\ IF Verdict(c2, p)
                  THEN /\ c[p].x \in DOMAIN c2 => c2[c[p].x].op = "POP"
                       /\ c[p].x - 1 \in DOMAIN c2 => c2[c[p].x - 1].op # "CATCH"
                       /\ c[p].x \in D2 => p \in D2 \/ Sure(c2, p)
                       /\ c[p].x \in DOMAIN c2
                  ELSE Ordinary(c2, c[p].x) /\ c[p].x \notin D2 /\ c[p].x <= b2
    <3>1. Stays(c2, T, p, c[p].x) BY <2>1, <2>3, <2>4 DEF Settles
    <3>2. CASE Verdict(c, p)
      <4>1. c[p].x \in DOMAIN c BY <2>1, <2>4, <3>2 DEF Aims
      <4>2. c[c[p].x].op = "POP" BY <2>1, <2>4, <3>2, <4>1 DEF Settles
      <4>3. c[p].x - 1 \in DOMAIN c => c[c[p].x - 1].op # "CATCH" BY <2>1, <2>4, <3>2 DEF Settles
      <4>4. c[p].x \in D => p \in D \/ Sure(c, p) BY <2>1, <2>4, <3>2 DEF Settles
      <4>5. c[p].x - 1 \in DOMAIN c2 => c[p].x - 1 \in DOMAIN c BY <1>1, <1>2, <4>1
      <4>6. c2[c[p].x].op = "POP" /\ c[p].x \in DOMAIN c2 BY <1>2, <4>1, <4>2
      <4>7. c[p].x - 1 \in DOMAIN c2 => c2[c[p].x - 1].op # "CATCH" BY <1>2, <4>3, <4>5
      <4>8. c[p].x \in D2 => p \in D2 \/ Sure(c2, p) BY <1>4, <1>8, <4>1, <4>4
      <4> QED BY <1>7, <3>1, <3>2, <4>6, <4>7, <4>8
    <3>3. CASE ~Verdict(c, p)
      <4>1. Ordinary(c, c[p].x) /\ c[p].x \notin D /\ c[p].x <= b BY <2>1, <2>4, <3>3 DEF Aims, Settles
      <4>2. c[p].x <= b2 BY <1>1, <4>1
      <4> QED BY <1>1, <1>7, <2>2, <3>1, <3>3, <4>1, <4>2
    <3> QED BY <3>2, <3>3
  <2>5. ASSUME c[p].op = "TRY_ENTER"
        PROVE  /\ Stays(c2, T, p, c[p].x)
               /\ p < c[p].x /\ c[p].x \notin D2
               /\ c[p].x - 1 \in DOMAIN c2 => c2[c[p].x - 1].op # "CATCH"
               /\ c[p].x \in DOMAIN c2 => ~Refused(c2, c[p].x)
               /\ c[p].y # 0 => c[p].x <= c[p].y /\ Ordinary(c2, c[p].y) /\ c[p].y \notin D2
               /\ c[p].x <= b2 /\ c[p].y <= b2
    <3>1. /\ Stays(c, T, p, c[p].x)
          /\ p < c[p].x /\ c[p].x \notin D
          /\ c[p].x - 1 \in DOMAIN c => c[c[p].x - 1].op # "CATCH"
          /\ c[p].x \in DOMAIN c => ~Refused(c, c[p].x)
          /\ c[p].y # 0 => c[p].x <= c[p].y /\ Ordinary(c, c[p].y) /\ c[p].y \notin D
          /\ c[p].x <= b /\ c[p].y <= b
      BY <2>1, <2>5 DEF Settles, Aims
    <3>2. c[p].x <= b2 /\ c[p].y <= b2 BY <1>1, <3>1
    <3>3. Stays(c2, T, p, c[p].x) BY <2>3, <3>1
    <3>4. /\ c[p].x \notin D2
          /\ c[p].x - 1 \in DOMAIN c2 => c2[c[p].x - 1].op # "CATCH"
          /\ c[p].x \in DOMAIN c2 => ~Refused(c2, c[p].x)
      BY <1>1, <2>2, <3>1
    <3>5. c[p].y # 0 => c[p].x <= c[p].y /\ Ordinary(c2, c[p].y) /\ c[p].y \notin D2
      BY <1>1, <2>2, <3>1
    <3> QED BY <3>1, <3>2, <3>3, <3>4, <3>5
  <2> QED BY <1>3, <2>4, <2>5 DEF Aims, Settles
<1>13. c2[p].op = "TRY_ENTER" => c2[p].y <= Len(c2) + 1
  <2>1. c[p].op = "TRY_ENTER" => c[p].y <= Len(c) + 1 BY <1>1 DEF EvenAt
  <2> QED BY <1>1, <1>2, <1>3, <2>1
<1>14. c[p].ow \subseteq 1..(p - 1) /\ c[p].op # "NOTYPE" /\ \A e : Spans(c, T, e, p) => e \in c[p].ow
  BY <1>1 DEF EvenAt
<1> QED BY <1>3, <1>9, <1>10, <1>11, <1>12, <1>13, <1>14 DEF EvenAt

(* More code behind: c2 continues c while the finally blocks T are owed.  *)
Outgrown(c0, c, W, T, D, b, c2, W2, D2, b2) ==
  /\ Behind(c, c2) /\ D \subseteq D2 /\ D2 \subseteq DOMAIN c2 /\ W \subseteq W2 /\ b2 \in Nat /\ b <= b2
  /\ \A q \in D2 : q \in D \/ (q \notin DOMAIN c /\ b < q /\ Len(c0) + 1 < q)
  /\ \A q \in DOMAIN c2 : q \notin DOMAIN c /\ c2[q].op = "CATCH" => b + 1 < q /\ Len(c0) + 2 < q
  /\ Len(c2) \in DOMAIN c2 => c2[Len(c2)].op # "CATCH"
  /\ \A p \in DOMAIN c2 : p \notin DOMAIN c =>
       /\ Laid(c2, D2, p)
       /\ Payable(c, T, c2[p]) \/ (p \in D2 /\ c2[p].op = "RETHROW")
       /\ c2[p].ow = T /\ c2[p].op # "NOTYPE" /\ (c2[p].op = "TRY_ENTER" => c2[p].y = 0)
       /\ p \in W2 \/ Aims(c2, T, D2, b2, p)

LEMMA RisesBy ==
  ASSUME NEW c0, NEW D0, NEW c, NEW W, NEW T, NEW D, NEW b, Rises(c0, D0, c, W, T, D, b),
         NEW c2, NEW W2, NEW D2, NEW b2, Outgrown(c0, c, W, T, D, b, c2, W2, D2, b2)
  PROVE  Rises(c0, D0, c2, W2, T, D2, b2) /\ Alike(c, c2)
<1>0. /\ Behind(c, c2) /\ D \subseteq D2 /\ D2 \subseteq DOMAIN c2 /\ W \subseteq W2 /\ b2 \in Nat /\ b <= b2
      /\ \A q \in D2 : q \in D \/ (q \notin DOMAIN c /\ b < q /\ Len(c0) + 1 < q)
      /\ \A q \in DOMAIN c2 : q \notin DOMAIN c /\ c2[q].op = "CATCH" => b + 1 < q /\ Len(c0) + 2 < q
      /\ Len(c2) \in DOMAIN c2 => c2[Len(c2)].op # "CATCH"
      /\ \A p \in DOMAIN c2 : p \notin DOMAIN c =>
           /\ Laid(c2, D2, p)
           /\ Payable(c, T, c2[p]) \/ (p \in D2 /\ c2[p].op = "RETHROW")
           /\ c2[p].ow = T /\ c2[p].op # "NOTYPE" /\ (c2[p].op = "TRY_ENTER" => c2[p].y = 0)
           /\ p \in W2 \/ Aims(c2, T, D2, b2, p)
  BY DEF Outgrown
<1> USE <1>0
<1>1. /\ c0 \in Seq(Instruction) /\ Even(c, W, T, D, b)
      /\ Alike(c0, c) /\ Lasting(c0, D0, c, D) /\ D0 \subseteq D
  BY DEF Rises
<1>2. /\ c \in Seq(Instruction) /\ Len(c) \in Nat /\ DOMAIN c = 1..Len(c) /\ D \subseteq DOMAIN c
      /\ b \in Nat /\ (Len(c) \in DOMAIN c => c[Len(c)].op # "CATCH")
      /\ \A e \in T : e \in DOMAIN c /\ c[e].op = "TRY_ENTER" /\ c[e].y = 0
  BY <1>1, EvenIs
<1>3. /\ c2 \in Seq(Instruction) /\ DOMAIN c \subseteq DOMAIN c2 /\ \A p \in DOMAIN c : c2[p] = c[p]
      /\ Len(c2) \in Nat /\ DOMAIN c2 = 1..Len(c2) /\ Len(c0) \in Nat
  BY <1>1 DEF Behind
<1>4. Alike(c, c2) BY <1>3 DEF Alike
<1>5. Alike(c0, c2) BY <1>1, <1>4, AlikeOn
<1>6. Lasting(c0, D0, c2, D2)
  <2> SUFFICES ASSUME NEW q \in Nat, q <= Len(c0) + 1, Ordinary(c0, q), q \notin D0
               PROVE  Ordinary(c2, q) /\ q \notin D2
    BY DEF Lasting
  <2>1. Ordinary(c, q) /\ q \notin D BY <1>1 DEF Lasting
  <2>2. q \notin D2
    <3>1. ASSUME q \in D2 PROVE FALSE
      <4>1. Len(c0) + 1 < q BY <2>1, <3>1
      <4> QED BY <1>3, <4>1
    <3> QED BY <3>1
  <2> DEFINE k == Len(c0) + 1
  <2>3. k \in Nat /\ k + 1 = Len(c0) + 2 BY <1>3
  <2>4. \A r \in DOMAIN c2 : r \notin DOMAIN c /\ c2[r].op = "CATCH" => k + 1 < r BY <2>3
  <2>5. \A r \in DOMAIN c : c2[r].op = c[r].op BY <1>3
  <2>6. q <= k OBVIOUS
  <2> HIDE DEF k
  <2> QED BY ONLY <1>2, <1>3, <2>1, <2>2, <2>3, <2>4, <2>5, <2>6, q \in Nat, OrdinaryBehind
<1>7. ASSUME NEW p \in DOMAIN c2 PROVE EvenAt(c2, W2, T, D2, b2, p)
  <2>1. CASE p \in DOMAIN c
    <3>1. \A q \in D2 : q \in D \/ (q \notin DOMAIN c /\ b < q) OBVIOUS
    <3>2. \A q \in DOMAIN c2 : q \notin DOMAIN c /\ c2[q].op = "CATCH" => b + 1 < q OBVIOUS
    <3> QED BY <1>1, <2>1, <3>1, <3>2, EvenBehind
  <2>2. CASE p \notin DOMAIN c
    <3>1. /\ Laid(c2, D2, p)
          /\ Payable(c, T, c2[p]) \/ (p \in D2 /\ c2[p].op = "RETHROW")
          /\ c2[p].ow = T /\ c2[p].op # "NOTYPE" /\ (c2[p].op = "TRY_ENTER" => c2[p].y = 0)
          /\ p \in W2 \/ Aims(c2, T, D2, b2, p)
      BY <2>2
    <3>2. p \in Nat /\ p > Len(c) BY <1>2, <1>3, <2>2
    <3>3. DOMAIN c \subseteq 1..(p - 1) BY <1>2, <3>2
    <3>4. T \subseteq 1..(p - 1) BY <1>2, <3>3
    <3>5. Paid(c2, D2, p)
      <4>1. CASE Payable(c, T, c2[p])
        <5>1. \A q \in DOMAIN c : c2[q] = c[q] /\ q \in 1..(p - 1) BY <1>3, <3>3
        <5> QED BY <3>1, <4>1, <5>1 DEF Payable, Paid
      <4>2. CASE p \in D2 /\ c2[p].op = "RETHROW" BY <4>2 DEF Paid
      <4> QED BY <3>1, <4>1, <4>2
    <3>6. ASSUME NEW e, Spans(c2, T, e, p) PROVE e \in c2[p].ow
      <4>1. e \in DOMAIN c2 /\ c2[e].op = "TRY_ENTER" /\ e < p /\ (e \in T \/ (c2[e].y # 0 /\ p < c2[e].y))
        BY <3>6 DEF Spans
      <4>2. CASE e \in T BY <3>1, <4>2
      <4>3. CASE e \notin T
        <5>1. e \in DOMAIN c BY <4>1, <4>3
        <5>2. c[e].y <= Len(c) + 1 /\ c[e].y \in Nat
          <6>1. EvenAt(c, W, T, D, b, e) /\ c[e].y \in Nat BY <1>1, <5>1, EvenIs
          <6> QED BY <1>3, <4>1, <5>1, <6>1 DEF EvenAt
        <5>3. p < c[e].y BY <1>3, <4>1, <4>3, <5>1
        <5> QED BY <1>2, <3>2, <5>2, <5>3
      <4> QED BY <4>2, <4>3
    <3>7. c2[p].op = "TRY_ENTER" => c2[p].y <= Len(c2) + 1 BY <1>3, <3>1
    <3> QED BY <3>1, <3>4, <3>5, <3>6, <3>7 DEF EvenAt
  <2> QED BY <2>1, <2>2
<1>8. \A e \in T : e \in DOMAIN c2 /\ c2[e].op = "TRY_ENTER" /\ c2[e].y = 0 BY <1>2, <1>3
<1>9. Even(c2, W2, T, D2, b2) BY <1>3, <1>7, <1>8 DEF Even
<1>10. D0 \subseteq D2 BY <1>1
<1> QED BY <1>1, <1>4, <1>5, <1>6, <1>9, <1>10 DEF Rises

(* Code without clauses, jumps and try statements.                         *)
Straight == Ops \ ({"CATCH", "NOTYPE", "TRY_ENTER"} \cup Branches)

LEMMA AppendBehind ==
  ASSUME NEW c \in Seq(Instruction), NEW t \in Seq(Instruction)
  PROVE  /\ Behind(c, c \o t) /\ Len(c \o t) = Len(c) + Len(t) /\ Len(c) \in Nat /\ Len(t) \in Nat
         /\ \A p \in DOMAIN (c \o t) : p \notin DOMAIN c =>
              p - Len(c) \in DOMAIN t /\ (c \o t)[p] = t[p - Len(c)] /\ p > Len(c) /\ p \in Nat
         /\ \A k \in DOMAIN t : Len(c) + k \in DOMAIN (c \o t) /\ (c \o t)[Len(c) + k] = t[k]
BY DEF Behind

LEMMA RisesTail ==
  ASSUME NEW c0, NEW D0, NEW c, NEW W, NEW T, NEW D, NEW b, Rises(c0, D0, c, W, T, D, b),
         NEW t \in Seq(Instruction),
         \A k \in DOMAIN t : t[k].op \in Straight /\ t[k].ow = T /\ Payable(c, T, t[k])
  PROVE  Rises(c0, D0, c \o t, W, T, D, b) /\ Alike(c, c \o t)
<1> DEFINE c2 == c \o t
<1>1. Even(c, W, T, D, b) BY DEF Rises
<1>2. /\ c \in Seq(Instruction) /\ Len(c) \in Nat /\ DOMAIN c = 1..Len(c) /\ D \subseteq DOMAIN c
      /\ b \in Nat /\ (Len(c) \in DOMAIN c => c[Len(c)].op # "CATCH")
  BY <1>1, EvenIs
<1>3. /\ Behind(c, c2) /\ Len(c2) = Len(c) + Len(t) /\ Len(c) \in Nat /\ Len(t) \in Nat
      /\ \A p \in DOMAIN c2 : p \notin DOMAIN c =>
           p - Len(c) \in DOMAIN t /\ c2[p] = t[p - Len(c)] /\ p > Len(c) /\ p \in Nat
  BY <1>2, AppendBehind
<1> HIDE DEF c2
<1>4. /\ c2 \in Seq(Instruction) /\ DOMAIN c \subseteq DOMAIN c2 /\ \A p \in DOMAIN c : c2[p] = c[p]
  BY <1>3 DEF Behind
<1>5. ASSUME NEW p \in DOMAIN c2, p \notin DOMAIN c
      PROVE  /\ c2[p].op \in Straight /\ c2[p].ow = T /\ Payable(c, T, c2[p])
             /\ Laid(c2, D, p) /\ Aims(c2, T, D, b, p)
             /\ c2[p].op \notin {"CATCH", "NOTYPE", "TRY_ENTER"}
  <2>1. c2[p].op \in Straight /\ c2[p].ow = T /\ Payable(c, T, c2[p]) BY <1>3, <1>5
  <2>2. c2[p].op \notin {"CATCH", "NOTYPE", "TRY_ENTER"} /\ c2[p].op \notin Branches
    BY <2>1 DEF Straight
  <2>3. p \notin D BY <1>2, <1>5
  <2>4. Laid(c2, D, p) BY <2>2, <2>3 DEF Laid
  <2>5. Aims(c2, T, D, b, p) BY <2>2 DEF Aims, Settles
  <2> QED BY <2>1, <2>2, <2>4, <2>5
<1>6. Len(c2) \in DOMAIN c2 => c2[Len(c2)].op # "CATCH"
  <2>1. CASE Len(c2) \in DOMAIN c
    <3>1. Len(c2) \in 1..Len(c) /\ Len(c2) = Len(c) + Len(t) /\ Len(t) \in Nat /\ Len(c) \in Nat
      BY <1>2, <1>3, <2>1
    <3>2. Len(c2) = Len(c) BY ONLY <3>1
    <3> QED BY <1>2, <1>4, <2>1, <3>2
  <2>2. CASE Len(c2) \notin DOMAIN c BY <1>5, <2>2
  <2> QED BY <2>1, <2>2
<1>7. /\ D \subseteq DOMAIN c2
      /\ \A q \in DOMAIN c2 : q \notin DOMAIN c /\ c2[q].op = "CATCH" => b + 1 < q /\ Len(c0) + 2 < q
  BY <1>2, <1>4, <1>5
<1>8. \A p \in DOMAIN c2 : p \notin DOMAIN c =>
        /\ Laid(c2, D, p)
        /\ Payable(c, T, c2[p]) \/ (p \in D /\ c2[p].op = "RETHROW")
        /\ c2[p].ow = T /\ c2[p].op # "NOTYPE" /\ (c2[p].op = "TRY_ENTER" => c2[p].y = 0)
        /\ p \in W \/ Aims(c2, T, D, b, p)
  BY <1>5
<1>9. Rises(c0, D0, c2, W, T, D, b) /\ Alike(c, c2)
  <2>1. b <= b /\ b \in Nat /\ D \subseteq D /\ W \subseteq W BY <1>2
  <2>2. \A q \in D : q \in D \/ (q \notin DOMAIN c /\ b < q /\ Len(c0) + 1 < q) OBVIOUS
  <2>3. Behind(c, c2) BY <1>3
  <2>4. Outgrown(c0, c, W, T, D, b, c2, W, D, b)
    BY ONLY <1>6, <1>7, <1>8, <2>1, <2>2, <2>3 DEF Outgrown
  <2> QED BY ONLY <2>4, Rises(c0, D0, c, W, T, D, b), RisesBy
<1> QED BY <1>9 DEF c2

(* A jump, or a TRY_ENTER, to be patched.                                  *)
LEMMA RisesHole ==
  ASSUME NEW c0, NEW D0, NEW c, NEW W, NEW T, NEW D, NEW b, Rises(c0, D0, c, W, T, D, b),
         NEW i \in Instruction, i.op \in Branches \/ (i.op = "TRY_ENTER" /\ i.y = 0),
         i.ow = T, Payable(c, T, i)
  PROVE  LET c2 == Append(c, i) IN
         /\ Rises(c0, D0, c2, W \cup {Len(c) + 1}, T, D, b) /\ Alike(c, c2)
         /\ ~Verdict(c2, Len(c) + 1) /\ c2[Len(c) + 1] = i /\ Len(c) + 1 \in DOMAIN c2
<1> DEFINE c2 == Append(c, i)
           n == Len(c)
           W2 == W \cup {n + 1}
<1>1. Even(c, W, T, D, b) BY DEF Rises
<1>2. /\ c \in Seq(Instruction) /\ n \in Nat /\ DOMAIN c = 1..n /\ D \subseteq DOMAIN c
      /\ b \in Nat /\ (n \in DOMAIN c => c[n].op # "CATCH")
  BY <1>1, EvenIs
<1>3. /\ c2 \in Seq(Instruction) /\ DOMAIN c2 = 1..(n + 1) /\ Len(c2) = n + 1 /\ c2[n + 1] = i
      /\ DOMAIN c \subseteq DOMAIN c2 /\ \A p \in DOMAIN c : c2[p] = c[p]
      /\ \A p \in DOMAIN c2 : p \notin DOMAIN c => p = n + 1
      /\ n + 1 \notin DOMAIN c /\ n + 1 \in DOMAIN c2 /\ (n + 1) - 1 = n
  BY <1>2
<1>4. i.op \notin {"CATCH", "NOTYPE"} BY DEF Branches
<1>5. i.op # "TRY_ENTER" \/ i.y = 0 BY DEF Branches
<1> HIDE DEF c2, n
<1>6. Behind(c, c2) BY <1>3 DEF Behind
<1>7. ~Verdict(c2, n + 1)
  <2> SUFFICES ASSUME Verdict(c2, n + 1) PROVE FALSE OBVIOUS
  <2>1. n \in DOMAIN c2 /\ c2[n].op = "CATCH" BY <1>3 DEF Verdict
  <2>2. n \in DOMAIN c BY <1>2, <1>3, <2>1
  <2> QED BY <1>2, <1>3, <2>1, <2>2
<1>8. /\ Laid(c2, D, n + 1) /\ Payable(c, T, c2[n + 1]) /\ c2[n + 1].ow = T /\ n + 1 \in W2
  <2>1. n + 1 \notin D BY <1>2, <1>3
  <2>2. Laid(c2, D, n + 1) BY <1>3, <1>4, <2>1 DEF Laid
  <2> QED BY <1>3, <2>2
<1>9. Len(c2) \in DOMAIN c2 => c2[Len(c2)].op # "CATCH" BY <1>3, <1>4
<1>10. /\ D \subseteq DOMAIN c2 /\ W \subseteq W2
       /\ \A q \in DOMAIN c2 : q \notin DOMAIN c /\ c2[q].op = "CATCH" => b + 1 < q /\ Len(c0) + 2 < q
  BY <1>2, <1>3, <1>4
<1>11. \A p \in DOMAIN c2 : p \notin DOMAIN c =>
        /\ Laid(c2, D, p)
        /\ Payable(c, T, c2[p]) \/ (p \in D /\ c2[p].op = "RETHROW")
        /\ c2[p].ow = T /\ c2[p].op # "NOTYPE" /\ (c2[p].op = "TRY_ENTER" => c2[p].y = 0)
        /\ p \in W2 \/ Aims(c2, T, D, b, p)
  BY <1>3, <1>4, <1>5, <1>8
<1> HIDE DEF W2
<1>12. Rises(c0, D0, c2, W2, T, D, b) /\ Alike(c, c2)
  <2>1. b <= b /\ b \in Nat /\ D \subseteq D BY <1>2
  <2>2. \A q \in D : q \in D \/ (q \notin DOMAIN c /\ b < q /\ Len(c0) + 1 < q) OBVIOUS
  <2>3. Outgrown(c0, c, W, T, D, b, c2, W2, D, b)
    BY ONLY <1>6, <1>9, <1>10, <1>11, <2>1, <2>2 DEF Outgrown
  <2> QED BY ONLY <2>3, Rises(c0, D0, c, W, T, D, b), RisesBy
<1> QED BY <1>3, <1>7, <1>12 DEF c2, n, W2

(* A jump to a place that is known.                                        *)
LEMMA RisesJump ==
  ASSUME NEW c0, NEW D0, NEW c, NEW W, NEW T, NEW D, NEW b, Rises(c0, D0, c, W, T, D, b),
         NEW i \in Instruction, i.op \in Branches, i.ow = T, Payable(c, T, i),
         \A e \in T : e < i.x, i.x \notin D, Ordinary(c, i.x) \/ i.x > Len(c) + 1,
         NEW b2 \in Nat, b <= b2, i.x <= b2
  PROVE  LET c2 == Append(c, i) IN
         Rises(c0, D0, c2, W, T, D, b2) /\ Alike(c, c2)
<1> DEFINE c2 == Append(c, i)
           n == Len(c)
<1>1. Even(c, W, T, D, b) BY DEF Rises
<1>2. /\ c \in Seq(Instruction) /\ n \in Nat /\ DOMAIN c = 1..n /\ D \subseteq DOMAIN c
      /\ b \in Nat /\ (n \in DOMAIN c => c[n].op # "CATCH")
      /\ \A e \in T : e \in DOMAIN c /\ c[e].op = "TRY_ENTER" /\ c[e].y = 0
      /\ \A p \in DOMAIN c : EvenAt(c, W, T, D, b, p) /\ c[p].y \in Nat
  BY <1>1, EvenIs
<1>3. /\ c2 \in Seq(Instruction) /\ DOMAIN c2 = 1..(n + 1) /\ Len(c2) = n + 1 /\ c2[n + 1] = i
      /\ DOMAIN c \subseteq DOMAIN c2 /\ \A p \in DOMAIN c : c2[p] = c[p]
      /\ \A p \in DOMAIN c2 : p \notin DOMAIN c => p = n + 1
      /\ n + 1 \notin DOMAIN c /\ n + 1 \in DOMAIN c2 /\ (n + 1) - 1 = n
  BY <1>2
<1>4. i.op \notin {"CATCH", "NOTYPE", "TRY_ENTER"} BY DEF Branches
<1>5. i.x \in Nat BY DEF Instruction
<1> HIDE DEF c2, n
<1>6. Behind(c, c2) BY <1>3 DEF Behind
<1>7. ~Verdict(c2, n + 1)
  <2> SUFFICES ASSUME Verdict(c2, n + 1) PROVE FALSE OBVIOUS
  <2>1. n \in DOMAIN c2 /\ c2[n].op = "CATCH" BY <1>3 DEF Verdict
  <2>2. n \in DOMAIN c BY <1>2, <1>3, <2>1
  <2> QED BY <1>2, <1>3, <2>1, <2>2
<1>8. Ordinary(c2, i.x)
  <2>1. CASE Ordinary(c, i.x)
    <3> DEFINE q == i.x
    <3>1. \A r \in DOMAIN c : c2[r].op = c[r].op BY <1>3
    <3>2. \A r \in DOMAIN c2 : r \notin DOMAIN c /\ c2[r].op = "CATCH" => q + 1 < r BY <1>3, <1>4
    <3>3. c2 \in Seq(Instruction) /\ DOMAIN c \subseteq DOMAIN c2 BY <1>3
    <3>4. q \in Nat /\ q <= q /\ Ordinary(c, q) BY <1>5, <2>1
    <3>5. c \in Seq(Instruction) /\ (Len(c) \in DOMAIN c => c[Len(c)].op # "CATCH") BY <1>2 DEF n
    <3> HIDE DEF q
    <3>6. Ordinary(c2, q) BY ONLY <3>1, <3>2, <3>3, <3>4, <3>5, OrdinaryBehind
    <3> QED BY <3>6 DEF q
  <2>2. CASE i.x > n + 1
    <3>1. i.x \notin DOMAIN c2 BY <1>2, <1>3, <1>5, <2>2
    <3>2. i.x - 1 \in DOMAIN c2 => i.x - 1 = n + 1 BY <1>2, <1>3, <1>5, <2>2
    <3> QED BY <1>3, <1>4, <3>1, <3>2 DEF Ordinary
  <2> QED BY <2>1, <2>2 DEF n
<1>9. Stays(c2, T, n + 1, i.x)
  <2> SUFFICES ASSUME NEW e, Spans(c2, T, e, n + 1) PROVE e < i.x /\ (c2[e].y # 0 => i.x <= c2[e].y)
    BY DEF Stays
  <2>1. e \in DOMAIN c2 /\ c2[e].op = "TRY_ENTER" /\ e < n + 1 /\ (e \in T \/ (c2[e].y # 0 /\ n + 1 < c2[e].y))
    BY DEF Spans
  <2>2. e \in DOMAIN c BY <1>2, <1>3, <2>1
  <2>3. c[e].y <= n + 1 /\ c[e].y \in Nat
    <3>1. EvenAt(c, W, T, D, b, e) /\ c[e].y \in Nat BY <1>2, <2>2
    <3>2. c[e].op = "TRY_ENTER" BY <1>3, <2>1, <2>2
    <3> QED BY <3>1, <3>2 DEF EvenAt, n
  <2>4. e \in T BY <1>2, <1>3, <2>1, <2>2, <2>3
  <2> QED BY <1>2, <1>3, <2>2, <2>4
<1>10. /\ Laid(c2, D, n + 1) /\ Payable(c, T, c2[n + 1]) /\ c2[n + 1].ow = T
  <2>1. n + 1 \notin D BY <1>2, <1>3
  <2>2. Laid(c2, D, n + 1) BY <1>3, <1>4, <2>1 DEF Laid
  <2> QED BY <1>3, <2>2
<1>11. Aims(c2, T, D, b2, n + 1) BY <1>3, <1>4, <1>7, <1>8, <1>9 DEF Aims, Settles
<1>12. Len(c2) \in DOMAIN c2 => c2[Len(c2)].op # "CATCH" BY <1>3, <1>4
<1>13. /\ D \subseteq DOMAIN c2
       /\ \A q \in DOMAIN c2 : q \notin DOMAIN c /\ c2[q].op = "CATCH" => b + 1 < q /\ Len(c0) + 2 < q
  BY <1>2, <1>3, <1>4
<1>14. \A p \in DOMAIN c2 : p \notin DOMAIN c =>
        /\ Laid(c2, D, p)
        /\ Payable(c, T, c2[p]) \/ (p \in D /\ c2[p].op = "RETHROW")
        /\ c2[p].ow = T /\ c2[p].op # "NOTYPE" /\ (c2[p].op = "TRY_ENTER" => c2[p].y = 0)
        /\ p \in W \/ Aims(c2, T, D, b2, p)
  BY <1>3, <1>4, <1>10, <1>11
<1>15. Rises(c0, D0, c2, W, T, D, b2) /\ Alike(c, c2)
  <2>1. b2 \in Nat /\ b <= b2 /\ D \subseteq D /\ W \subseteq W BY <1>2
  <2>2. \A q \in D : q \in D \/ (q \notin DOMAIN c /\ b < q /\ Len(c0) + 1 < q) OBVIOUS
  <2>3. Outgrown(c0, c, W, T, D, b, c2, W, D, b2)
    BY ONLY <1>6, <1>12, <1>13, <1>14, <2>1, <2>2 DEF Outgrown
  <2> QED BY ONLY <2>3, Rises(c0, D0, c, W, T, D, b), RisesBy
<1> QED BY <1>15 DEF c2

(* Code that is never reached: behind a clause for every error.            *)
LEMMA RisesDead ==
  ASSUME NEW c0, NEW D0, NEW c, NEW W, NEW T, NEW D, NEW b, Rises(c0, D0, c, W, T, D, b),
         NEW i \in Instruction, i.op \in {"POP", "RETHROW"}, i.ow = T,
         Len(c) \in DOMAIN c, c[Len(c)].op = "JUMP" \/ Len(c) \in D, b <= Len(c), Len(c0) < Len(c)
  PROVE  Rises(c0, D0, Append(c, i), W, T, D \cup {Len(c) + 1}, b) /\ Alike(c, Append(c, i))
<1> DEFINE c2 == Append(c, i)
           n == Len(c)
           D2 == D \cup {n + 1}
<1>1. Even(c, W, T, D, b) /\ c0 \in Seq(Instruction) BY DEF Rises
<1>2. /\ c \in Seq(Instruction) /\ n \in Nat /\ DOMAIN c = 1..n /\ D \subseteq DOMAIN c
      /\ b \in Nat /\ (n \in DOMAIN c => c[n].op # "CATCH") /\ Len(c0) \in Nat
  BY <1>1, EvenIs
<1>3. /\ c2 \in Seq(Instruction) /\ DOMAIN c2 = 1..(n + 1) /\ Len(c2) = n + 1 /\ c2[n + 1] = i
      /\ DOMAIN c \subseteq DOMAIN c2 /\ \A p \in DOMAIN c : c2[p] = c[p]
      /\ \A p \in DOMAIN c2 : p \notin DOMAIN c => p = n + 1
      /\ n + 1 \notin DOMAIN c /\ n + 1 \in DOMAIN c2 /\ (n + 1) - 1 = n /\ n \in DOMAIN c
  BY <1>2
<1>4. i.op \notin {"CATCH", "NOTYPE", "TRY_ENTER"} \cup Branches
  BY DEF Branches
<1> DEFINE m == Len(c0)
<1>5. b < n + 1 /\ m + 1 < n + 1 /\ (c[n].op = "JUMP" \/ n \in D) /\ m \in Nat BY <1>2
<1> HIDE DEF c2, n, m
<1>6. Behind(c, c2) BY <1>3 DEF Behind
<1>7. Laid(c2, D2, n + 1) BY <1>3, <1>4, <1>5 DEF Laid
<1>8. /\ D \subseteq D2 /\ D2 \subseteq DOMAIN c2
      /\ \A q \in D2 : q \in D \/ (q \notin DOMAIN c /\ b < q /\ m + 1 < q)
  BY <1>2, <1>3, <1>5
<1>9. Payable(c, T, i) \/ (n + 1 \in D2 /\ i.op = "RETHROW") BY DEF Payable, Fallible
<1>10. Aims(c2, T, D2, b, n + 1) BY <1>3, <1>4 DEF Aims, Settles
<1>11. Len(c2) \in DOMAIN c2 => c2[Len(c2)].op # "CATCH" BY <1>3, <1>4
<1>12. \A q \in DOMAIN c2 : q \notin DOMAIN c /\ c2[q].op = "CATCH" => b + 1 < q /\ m + 2 < q
  BY <1>3, <1>4
<1>13. \A p \in DOMAIN c2 : p \notin DOMAIN c =>
        /\ Laid(c2, D2, p)
        /\ Payable(c, T, c2[p]) \/ (p \in D2 /\ c2[p].op = "RETHROW")
        /\ c2[p].ow = T /\ c2[p].op # "NOTYPE" /\ (c2[p].op = "TRY_ENTER" => c2[p].y = 0)
        /\ p \in W \/ Aims(c2, T, D2, b, p)
  BY <1>3, <1>4, <1>7, <1>9, <1>10
<1> HIDE DEF D2
<1>14. b <= b /\ b \in Nat BY <1>2
<1>15. Rises(c0, D0, c2, W, T, D2, b) /\ Alike(c, c2)
  <2>1. \A q \in D2 : q \in D \/ (q \notin DOMAIN c /\ b < q /\ Len(c0) + 1 < q) BY <1>8 DEF m
  <2>2. \A q \in DOMAIN c2 : q \notin DOMAIN c /\ c2[q].op = "CATCH" => b + 1 < q /\ Len(c0) + 2 < q
    BY <1>12 DEF m
  <2>3. D \subseteq D2 /\ D2 \subseteq DOMAIN c2 /\ W \subseteq W BY <1>8
  <2>4. Outgrown(c0, c, W, T, D, b, c2, W, D2, b)
    BY ONLY <1>6, <1>11, <1>13, <1>14, <2>1, <2>2, <2>3 DEF Outgrown
  <2> QED BY ONLY <2>4, Rises(c0, D0, c, W, T, D, b), RisesBy
<1> QED BY <1>15 DEF c2, n, D2

(* The code c2 is c with the head of a catch clause: CATCH, and the jump on *)
(* its verdict.  Behind a clause for every error it is never reached.      *)
ClauseHead(c0, c, T, D, b, i, k, c2, D2) ==
  /\ i \in Instruction /\ i.op = "CATCH" /\ i.ow = T
  /\ k \in Instruction /\ k.op = "JUMP_IF_FALSE" /\ k.ow = T
  /\ c[Len(c)].op = "JUMP" \/ (c[Len(c)].op = "POP" /\ c[Len(c) - 1].op = "JUMP")
  /\ b < Len(c) /\ Len(c0) + 1 < Len(c)
  /\ D2 = D \/ (D2 = D \cup {Len(c) + 1, Len(c) + 2} /\ Len(c) \in D)
  /\ c2 = Append(Append(c, i), k)

LEMMA RisesHead ==
  ASSUME NEW c0, NEW D0, NEW c, NEW W, NEW T, NEW D, NEW b, Rises(c0, D0, c, W, T, D, b),
         NEW i, NEW k, NEW D2, NEW c2, ClauseHead(c0, c, T, D, b, i, k, c2, D2)
  PROVE  /\ Rises(c0, D0, c2, W \cup {Len(c) + 2}, T, D2, b) /\ Alike(c, c2)
         /\ Verdict(c2, Len(c) + 2) /\ c2[Len(c) + 2] = k /\ c2[Len(c) + 1] = i
         /\ Len(c2) = Len(c) + 2
<1>0. /\ i \in Instruction /\ i.op = "CATCH" /\ i.ow = T
      /\ k \in Instruction /\ k.op = "JUMP_IF_FALSE" /\ k.ow = T
      /\ c[Len(c)].op = "JUMP" \/ (c[Len(c)].op = "POP" /\ c[Len(c) - 1].op = "JUMP")
      /\ b < Len(c) /\ Len(c0) + 1 < Len(c)
      /\ D2 = D \/ (D2 = D \cup {Len(c) + 1, Len(c) + 2} /\ Len(c) \in D)
      /\ c2 = Append(Append(c, i), k)
  BY DEF ClauseHead
<1> DEFINE n == Len(c)
           dead == D2 # D
           W2 == W \cup {n + 2}
           m == Len(c0)
<1>1. Even(c, W, T, D, b) /\ c0 \in Seq(Instruction) BY DEF Rises
<1>2. /\ c \in Seq(Instruction) /\ n \in Nat /\ DOMAIN c = 1..n /\ D \subseteq DOMAIN c
      /\ b \in Nat /\ m \in Nat
  BY <1>1, EvenIs
<1>3. /\ c2 \in Seq(Instruction) /\ DOMAIN c2 = 1..(n + 2) /\ Len(c2) = n + 2
      /\ c2[n + 1] = i /\ c2[n + 2] = k
      /\ DOMAIN c \subseteq DOMAIN c2 /\ \A p \in DOMAIN c : c2[p] = c[p]
      /\ \A p \in DOMAIN c2 : p \notin DOMAIN c => p = n + 1 \/ p = n + 2
      /\ n + 1 \notin DOMAIN c /\ n + 1 \in DOMAIN c2 /\ n + 2 \notin DOMAIN c /\ n + 2 \in DOMAIN c2
  <2>1. /\ Append(c, i) \in Seq(Instruction) /\ Len(Append(c, i)) = n + 1 /\ Append(c, i)[n + 1] = i
        /\ \A p \in DOMAIN c : Append(c, i)[p] = c[p] /\ p \in 1..(n + 1)
    BY <1>0, <1>2
  <2> DEFINE c1 == Append(c, i)
  <2>6. c1 \in Seq(Instruction) /\ c2 = Append(c1, k) /\ k \in Instruction /\ Len(c1) = n + 1 /\ n \in Nat
    BY <1>0, <1>2, <2>1
  <2> HIDE DEF c1, n
  <2>7. /\ c2 \in Seq(Instruction) /\ Len(c2) = n + 2 /\ c2[n + 2] = k
        /\ \A p \in 1..(n + 1) : c2[p] = c1[p]
    BY ONLY <2>6
  <2>2. /\ c2 \in Seq(Instruction) /\ Len(c2) = n + 2 /\ c2[n + 2] = k
        /\ \A p \in 1..(n + 1) : c2[p] = Append(c, i)[p]
    BY <2>7 DEF c1
  <2>3. DOMAIN c2 = 1..(n + 2) BY ONLY <2>2
  <2>4. c2[n + 1] = i /\ \A p \in DOMAIN c : c2[p] = c[p] BY <1>2, <2>1, <2>2
  <2>5. /\ DOMAIN c \subseteq DOMAIN c2 /\ n + 1 \notin DOMAIN c /\ n + 1 \in DOMAIN c2
        /\ n + 2 \notin DOMAIN c /\ n + 2 \in DOMAIN c2
        /\ \A p \in DOMAIN c2 : p \notin DOMAIN c => p = n + 1 \/ p = n + 2
    <3>1. n \in Nat /\ DOMAIN c = 1..n /\ DOMAIN c2 = 1..(n + 2) BY <1>2, <2>3 DEF n
    <3> QED BY ONLY <3>1
  <2> QED BY <2>2, <2>3, <2>4, <2>5
<1>4. /\ n \in DOMAIN c /\ b < n /\ m + 1 < n /\ (dead => n \in D /\ D2 = D \cup {n + 1, n + 2})
      /\ n - 1 \in DOMAIN c
      /\ \/ c[n].op = "JUMP"
         \/ c[n].op = "POP" /\ c[n - 1].op = "JUMP"
  BY <1>0, <1>2
<1>5. /\ (n + 1) - 1 = n /\ (n + 1) - 2 = n - 1 /\ (n + 1) + 1 = n + 2
      /\ (n + 2) - 1 = n + 1 /\ (n + 2) - 2 = n /\ b + 1 < n + 1 /\ m + 2 < n + 1
      /\ b < n + 2 /\ m + 1 < n + 2 /\ b < n + 1 /\ m + 1 < n + 1
  BY <1>2, <1>4
<1> HIDE DEF n, m
<1>6. Behind(c, c2) BY <1>3 DEF Behind
<1>7. /\ D \subseteq D2 /\ D2 \subseteq DOMAIN c2
      /\ \A q \in D2 : q \in D \/ (q \notin DOMAIN c /\ b < q /\ m + 1 < q)
      /\ n + 2 \in D2 => n + 1 \in D2
      /\ n + 1 \in D2 => n \in D2
  <2>1. CASE dead
    <3>1. D2 = D \cup {n + 1, n + 2} BY <1>4, <2>1
    <3> QED BY <1>2, <1>3, <1>4, <1>5, <2>1, <3>1
  <2>2. CASE ~dead
    <3>1. D2 = D BY <2>2
    <3>2. n + 1 \notin D /\ n + 2 \notin D BY <1>2, <1>3
    <3> QED BY <1>2, <1>3, <3>1, <3>2
  <2> QED BY <2>1, <2>2
<1>8. Laid(c2, D2, n + 1) BY <1>0, <1>3, <1>4, <1>5, <1>7 DEF Laid
<1>9. Laid(c2, D2, n + 2) BY <1>0, <1>3, <1>5, <1>7 DEF Laid
<1>10. Payable(c, T, i) /\ Payable(c, T, k) BY <1>0 DEF Payable, Fallible
<1>11. Len(c2) \in DOMAIN c2 => c2[Len(c2)].op # "CATCH" BY <1>0, <1>3
<1>12. \A q \in DOMAIN c2 : q \notin DOMAIN c /\ c2[q].op = "CATCH" => b + 1 < q /\ m + 2 < q
  BY <1>0, <1>3, <1>5
<1>13. Aims(c2, T, D2, b, n + 1) BY <1>0, <1>3 DEF Aims, Settles, Branches
<1>14. \A p \in DOMAIN c2 : p \notin DOMAIN c =>
        /\ Laid(c2, D2, p)
        /\ Payable(c, T, c2[p]) \/ (p \in D2 /\ c2[p].op = "RETHROW")
        /\ c2[p].ow = T /\ c2[p].op # "NOTYPE" /\ (c2[p].op = "TRY_ENTER" => c2[p].y = 0)
        /\ p \in W2 \/ Aims(c2, T, D2, b, p)
  <2> SUFFICES ASSUME NEW p \in DOMAIN c2, p \notin DOMAIN c
               PROVE  /\ Laid(c2, D2, p)
                      /\ Payable(c, T, c2[p])
                      /\ c2[p].ow = T /\ c2[p].op # "NOTYPE" /\ (c2[p].op = "TRY_ENTER" => c2[p].y = 0)
                      /\ p \in W2 \/ Aims(c2, T, D2, b, p)
    OBVIOUS
  <2>1. CASE p = n + 1 BY <1>0, <1>3, <1>8, <1>10, <1>13, <2>1
  <2>2. CASE p = n + 2 BY <1>0, <1>3, <1>9, <1>10, <2>2
  <2> QED BY <1>3, <2>1, <2>2
<1>15. b <= b /\ b \in Nat /\ W \subseteq W2 BY <1>2
<1> HIDE DEF W2
<1>16. Rises(c0, D0, c2, W2, T, D2, b) /\ Alike(c, c2)
  <2>1. \A q \in D2 : q \in D \/ (q \notin DOMAIN c /\ b < q /\ Len(c0) + 1 < q) BY <1>7 DEF m
  <2>2. \A q \in DOMAIN c2 : q \notin DOMAIN c /\ c2[q].op = "CATCH" => b + 1 < q /\ Len(c0) + 2 < q
    BY <1>12 DEF m
  <2>3. D \subseteq D2 /\ D2 \subseteq DOMAIN c2 BY <1>7
  <2>4. Outgrown(c0, c, W, T, D, b, c2, W2, D2, b)
    BY ONLY <1>6, <1>11, <1>14, <1>15, <2>1, <2>2, <2>3 DEF Outgrown
  <2> QED BY ONLY <2>4, Rises(c0, D0, c, W, T, D, b), RisesBy
<1>17. Verdict(c2, n + 2) BY <1>0, <1>3, <1>5 DEF Verdict
<1> QED BY <1>3, <1>16, <1>17 DEF n, W2

(* The jumps of A are given their target q.                                *)
AimAt(c, A, q) == [p \in DOMAIN c |-> IF p \in A THEN [c[p] EXCEPT !.x = q] ELSE c[p]]

(* Such a jump may go to q.                                                *)
MayAim(c, T, D, p, q) ==
  /\ c[p].ow \subseteq T
  /\ \/ /\ c[p].op \in Branches /\ ~Verdict(c, p)
        /\ Ordinary(c, q) /\ q \notin D /\ Len(c) < q
     \/ /\ Verdict(c, p) /\ q \in DOMAIN c /\ c[q].op = "POP" /\ p < q
        /\ \A e \in T : e < q
        /\ q - 1 \in DOMAIN c => c[q - 1].op # "CATCH"
        /\ q \in D => p \in D \/ Sure(c, p)
     \/ /\ c[p].op = "TRY_ENTER" /\ c[p].y = 0 /\ p < q /\ q \notin D
        /\ \A e \in T : e < q
        /\ q - 1 \in DOMAIN c => c[q - 1].op # "CATCH"
        /\ q \in DOMAIN c => ~Refused(c, q)

LEMMA AimIs ==
  ASSUME NEW c \in Seq(Instruction), NEW A, NEW q \in Nat
  PROVE  LET c2 == AimAt(c, A, q) IN
         /\ c2 \in Seq(Instruction) /\ DOMAIN c2 = DOMAIN c /\ Len(c2) = Len(c)
         /\ \A p \in DOMAIN c :
              /\ c2[p].op = c[p].op /\ c2[p].y = c[p].y /\ c2[p].ty = c[p].ty
              /\ c2[p].h = c[p].h /\ c2[p].hs = c[p].hs /\ c2[p].ow = c[p].ow /\ c2[p].rf = c[p].rf
              /\ c2[p].x = IF p \in A THEN q ELSE c[p].x
<1> DEFINE c2 == AimAt(c, A, q)
<1>1. DOMAIN c2 = DOMAIN c /\ DOMAIN c = 1..Len(c) /\ Len(c) \in Nat BY DEF AimAt
<1>2. ASSUME NEW p \in DOMAIN c
      PROVE  /\ c2[p] \in Instruction
             /\ c2[p].op = c[p].op /\ c2[p].y = c[p].y /\ c2[p].ty = c[p].ty
             /\ c2[p].h = c[p].h /\ c2[p].hs = c[p].hs /\ c2[p].ow = c[p].ow /\ c2[p].rf = c[p].rf
             /\ c2[p].x = IF p \in A THEN q ELSE c[p].x
  <2>1. c[p] \in Instruction OBVIOUS
  <2>2. c2[p] = IF p \in A THEN [c[p] EXCEPT !.x = q] ELSE c[p] BY DEF AimAt
  <2> HIDE DEF c2
  <2> QED BY <2>1, <2>2 DEF Instruction
<1>3. c2 = [p \in 1..Len(c) |-> c2[p]] BY <1>1 DEF AimAt
<1> HIDE DEF c2
<1>4. c2 \in [1..Len(c) -> Instruction] BY <1>1, <1>2, <1>3
<1>5. c2 \in Seq(Instruction) /\ Len(c2) = Len(c) BY <1>1, <1>4
<1> QED BY <1>1, <1>2, <1>5 DEF c2

(* Targets do not change what is laid out, paid or spanned.                *)
LEMMA AimSame ==
  ASSUME NEW c \in Seq(Instruction), NEW c2 \in Seq(Instruction), DOMAIN c2 = DOMAIN c,
         \A p \in DOMAIN c :
           /\ c2[p].op = c[p].op /\ c2[p].y = c[p].y /\ c2[p].ty = c[p].ty
           /\ c2[p].hs = c[p].hs /\ c2[p].ow = c[p].ow /\ c2[p].rf = c[p].rf,
         NEW T, NEW D, NEW p \in DOMAIN c
  PROVE  /\ Laid(c2, D, p) <=> Laid(c, D, p)
         /\ Paid(c2, D, p) <=> Paid(c, D, p)
         /\ \A e : Spans(c2, T, e, p) <=> Spans(c, T, e, p)
         /\ \A q : Stays(c2, T, p, q) <=> Stays(c, T, p, q)
         /\ \A q : Ordinary(c2, q) <=> Ordinary(c, q)
         /\ \A q \in DOMAIN c : Refused(c2, q) <=> Refused(c, q)
         /\ Verdict(c2, p) <=> Verdict(c, p)
         /\ Sure(c2, p) <=> Sure(c, p)
<1>1. \A e : Spans(c2, T, e, p) <=> Spans(c, T, e, p) BY DEF Spans
<1>2. \A q : Stays(c2, T, p, q) <=> Stays(c, T, p, q)
  <2>1. ASSUME NEW q PROVE Stays(c2, T, p, q) <=> Stays(c, T, p, q)
    <3>1. \A e : Spans(c, T, e, p) => e \in DOMAIN c BY DEF Spans
    <3> QED BY <1>1, <3>1 DEF Stays
  <2> QED BY <2>1
<1>3. \A q \in DOMAIN c : Refused(c2, q) <=> Refused(c, q) BY DEF Refused
<1>4. \A q : Ordinary(c2, q) <=> Ordinary(c, q) BY <1>3 DEF Ordinary
<1>5. Verdict(c2, p) <=> Verdict(c, p) BY DEF Verdict
<1>6. Sure(c2, p) <=> Sure(c, p) BY <1>5 DEF Sure, Verdict
<1>7. Laid(c2, D, p) <=> Laid(c, D, p) BY DEF Laid
<1>8. Paid(c2, D, p) <=> Paid(c, D, p)
  <2> DEFINE k == Top(c[p].hs)
             S == k \in 1..(p - 1)
             U == c[p].ow \subseteq c[k].ow \cup {k}
             U2 == c[p].ow \subseteq c2[k].ow \cup {k}
  <2>1. \A j \in 1..(p - 1) : j \in DOMAIN c OBVIOUS
  <2>2. S => (U <=> U2) BY <2>1
  <2>3. c2[p].op = c[p].op /\ c2[p].hs = c[p].hs /\ c2[p].ow = c[p].ow /\ c2[p].rf = c[p].rf OBVIOUS
  <2>4. Paid(c2, D, p) <=>
          /\ c[p].op \in Fallible /\ p \notin D => IF c[p].hs = <<>> THEN c[p].ow = {} ELSE S /\ U2
          /\ c[p].op = "CALL" => c[p].ow = {}
          /\ c[p].op = "RETURN" => IF c[p].hs = <<>> THEN c[p].ow = {} ELSE c[p].ow \subseteq {k}
          /\ c[p].op = "END_FINALLY" /\ c[p].rf # 0 => c[p].ow = {}
    BY ONLY <2>3 DEF Paid
  <2>5. Paid(c, D, p) <=>
          /\ c[p].op \in Fallible /\ p \notin D => IF c[p].hs = <<>> THEN c[p].ow = {} ELSE S /\ U
          /\ c[p].op = "CALL" => c[p].ow = {}
          /\ c[p].op = "RETURN" => IF c[p].hs = <<>> THEN c[p].ow = {} ELSE c[p].ow \subseteq {k}
          /\ c[p].op = "END_FINALLY" /\ c[p].rf # 0 => c[p].ow = {}
    BY ONLY DEF Paid
  <2> HIDE DEF S, U, U2, k
  <2> QED BY <2>2, <2>4, <2>5
<1> QED BY <1>1, <1>2, <1>3, <1>4, <1>5, <1>6, <1>7, <1>8

(* patchJump, and the targets of a try statement.                          *)
LEMMA RisesAim ==
  ASSUME NEW c0, NEW D0, NEW c, NEW W, NEW T, NEW D, NEW b, Rises(c0, D0, c, W, T, D, b),
         NEW A, NEW q \in Nat, \A p \in A \cap DOMAIN c : MayAim(c, T, D, p, q),
         NEW b2 \in Nat, b <= b2, q <= b2
  PROVE  Rises(c0, D0, AimAt(c, A, q), W \ A, T, D, b2) /\ Alike(c, AimAt(c, A, q))
<1> DEFINE c2 == AimAt(c, A, q)
<1>1. /\ c0 \in Seq(Instruction) /\ Even(c, W, T, D, b)
      /\ Alike(c0, c) /\ Lasting(c0, D0, c, D) /\ D0 \subseteq D
  BY DEF Rises
<1>2. /\ c \in Seq(Instruction) /\ Len(c) \in Nat /\ DOMAIN c = 1..Len(c) /\ D \subseteq DOMAIN c
      /\ b \in Nat /\ (Len(c) \in DOMAIN c => c[Len(c)].op # "CATCH")
      /\ \A e \in T : e \in DOMAIN c /\ c[e].op = "TRY_ENTER" /\ c[e].y = 0
      /\ \A p \in DOMAIN c : c[p].x \in Nat /\ c[p].y \in Nat /\ p \in Nat /\ EvenAt(c, W, T, D, b, p)
  BY <1>1, EvenIs
<1>3. /\ c2 \in Seq(Instruction) /\ DOMAIN c2 = DOMAIN c /\ Len(c2) = Len(c)
      /\ \A p \in DOMAIN c :
           /\ c2[p].op = c[p].op /\ c2[p].y = c[p].y /\ c2[p].ty = c[p].ty
           /\ c2[p].h = c[p].h /\ c2[p].hs = c[p].hs /\ c2[p].ow = c[p].ow /\ c2[p].rf = c[p].rf
           /\ c2[p].x = IF p \in A THEN q ELSE c[p].x
  BY <1>2, AimIs
<1> HIDE DEF c2
<1>4. ASSUME NEW p \in DOMAIN c
      PROVE /\ Laid(c2, D, p) <=> Laid(c, D, p)
            /\ Paid(c2, D, p) <=> Paid(c, D, p)
            /\ \A e : Spans(c2, T, e, p) <=> Spans(c, T, e, p)
            /\ \A r : Stays(c2, T, p, r) <=> Stays(c, T, p, r)
            /\ \A r : Ordinary(c2, r) <=> Ordinary(c, r)
            /\ \A r \in DOMAIN c : Refused(c2, r) <=> Refused(c, r)
            /\ Verdict(c2, p) <=> Verdict(c, p)
            /\ Sure(c2, p) <=> Sure(c, p)
  BY <1>2, <1>3, AimSame
<1>5. ASSUME NEW p \in DOMAIN c, p \notin W \ A PROVE Aims(c2, T, D, b2, p)
  <2>1. CASE p \notin A
    <3>1. Aims(c, T, D, b, p) BY <1>2, <1>5, <2>1 DEF EvenAt
    <3>2. c2[p].x = c[p].x BY <1>3, <2>1
    <3>3. c[p].x <= b => c[p].x <= b2 BY <1>2
    <3>4. c[p].y <= b => c[p].y <= b2 BY <1>2
    <3> QED BY <1>3, <1>4, <3>1, <3>2, <3>3, <3>4 DEF Aims, Settles
  <2>2. CASE p \in A
    <3>1. MayAim(c, T, D, p, q) /\ c2[p].x = q BY <1>3, <2>2
    <3>2. \A e : Spans(c, T, e, p) => e \in T /\ c[e].y = 0
      <4>1. \A e : Spans(c, T, e, p) => e \in c[p].ow BY <1>2 DEF EvenAt
      <4> QED BY <1>2, <3>1, <4>1 DEF MayAim
    <3>3. CASE /\ c[p].op \in Branches /\ ~Verdict(c, p)
               /\ Ordinary(c, q) /\ q \notin D /\ Len(c) < q
      <4>1. \A e \in T : e < q BY <1>2, <3>3
      <4>2. Stays(c, T, p, q) BY <3>2, <4>1 DEF Stays
      <4>3. c2[p].op # "TRY_ENTER" BY <1>3, <3>3 DEF Branches
      <4> QED BY <1>3, <1>4, <3>1, <3>3, <4>2, <4>3 DEF Aims, Settles
    <3>4. CASE /\ Verdict(c, p) /\ q \in DOMAIN c /\ c[q].op = "POP" /\ p < q
               /\ \A e \in T : e < q
               /\ q - 1 \in DOMAIN c => c[q - 1].op # "CATCH"
               /\ q \in D => p \in D \/ Sure(c, p)
      <4>1. Stays(c, T, p, q) BY <3>2, <3>4 DEF Stays
      <4>2. c2[p].op = "JUMP_IF_FALSE" BY <1>3, <3>4 DEF Verdict
      <4>3. Verdict(c2, p) /\ Stays(c2, T, p, q) /\ (Sure(c, p) => Sure(c2, p)) BY <1>4, <3>4, <4>1
      <4> QED BY <1>3, <3>1, <3>4, <4>2, <4>3 DEF Aims, Settles
    <3>5. CASE /\ c[p].op = "TRY_ENTER" /\ c[p].y = 0 /\ p < q /\ q \notin D
               /\ \A e \in T : e < q
               /\ q - 1 \in DOMAIN c => c[q - 1].op # "CATCH"
               /\ q \in DOMAIN c => ~Refused(c, q)
      <4>1. Stays(c, T, p, q) BY <3>2, <3>5 DEF Stays
      <4>2. c2[p].op = "TRY_ENTER" /\ c2[p].y = 0 /\ c2[p].op \notin Branches BY <1>3, <3>5 DEF Branches
      <4>3. Stays(c2, T, p, q) BY <1>4, <4>1
      <4>4. q \in DOMAIN c2 => ~Refused(c2, q) BY <1>3, <1>4, <3>5
      <4> QED BY <1>3, <3>1, <3>5, <4>2, <4>3, <4>4 DEF Aims, Settles
    <3> QED BY <3>1, <3>3, <3>4, <3>5 DEF MayAim
  <2> QED BY <2>1, <2>2
<1>6. ASSUME NEW p \in DOMAIN c2 PROVE EvenAt(c2, W \ A, T, D, b2, p)
  <2>1. p \in DOMAIN c BY <1>3
  <2>2. EvenAt(c, W, T, D, b, p) BY <1>2, <2>1
  <2>3. /\ Laid(c2, D, p) /\ Paid(c2, D, p)
        /\ \A e : Spans(c2, T, e, p) => e \in c[p].ow
    BY <1>4, <2>1, <2>2 DEF EvenAt
  <2>4. p \notin W \ A => Aims(c2, T, D, b2, p) BY <1>5, <2>1
  <2> QED BY <1>3, <2>1, <2>2, <2>3, <2>4 DEF EvenAt
<1>7. Even(c2, W \ A, T, D, b2)
  <2>1. Len(c2) \in DOMAIN c2 => c2[Len(c2)].op # "CATCH" BY <1>2, <1>3
  <2>2. \A e \in T : e \in DOMAIN c2 /\ c2[e].op = "TRY_ENTER" /\ c2[e].y = 0 BY <1>2, <1>3
  <2> QED BY <1>2, <1>3, <1>6, <2>1, <2>2 DEF Even
<1>8. Alike(c, c2) BY <1>3 DEF Alike
<1>9. Alike(c0, c2) BY <1>1, <1>8, AlikeOn
<1>10. Lasting(c0, D0, c2, D)
  <2>1. \A r : Ordinary(c, r) => Ordinary(c2, r)
    <3>1. CASE DOMAIN c = {} BY <1>3, <3>1 DEF Ordinary
    <3>2. CASE DOMAIN c # {} BY <1>4, <3>2
    <3> QED BY <3>1, <3>2
  <2> QED BY <1>1, <2>1 DEF Lasting
<1>11. Rises(c0, D0, c2, W \ A, T, D, b2) BY <1>1, <1>7, <1>9, <1>10 DEF Rises
<1> QED BY <1>8, <1>11 DEF c2

(* A try statement with a finally block begins: the block is owed.         *)
LEMMA RisesOwing ==
  ASSUME NEW c0, NEW D0, NEW c, NEW W, NEW T, NEW D, NEW b, Rises(c0, D0, c, W, T, D, b),
         Len(c) \in DOMAIN c, c[Len(c)].op = "TRY_ENTER", c[Len(c)].y = 0
  PROVE  Rises(c0, D0, c, W, T \cup {Len(c)}, D, b)
<1> DEFINE n == Len(c)
           T2 == T \cup {n}
<1>1. Even(c, W, T, D, b) BY DEF Rises
<1>2. /\ c \in Seq(Instruction) /\ n \in Nat /\ DOMAIN c = 1..n /\ D \subseteq DOMAIN c
      /\ b \in Nat /\ (n \in DOMAIN c => c[n].op # "CATCH")
      /\ \A e \in T : e \in DOMAIN c /\ c[e].op = "TRY_ENTER" /\ c[e].y = 0
      /\ \A p \in DOMAIN c : EvenAt(c, W, T, D, b, p) /\ p \in Nat
  BY <1>1, EvenIs
<1>3. n \in DOMAIN c /\ c[n].op = "TRY_ENTER" /\ c[n].y = 0 OBVIOUS
<1> HIDE DEF n
<1>4. ASSUME NEW p \in DOMAIN c PROVE EvenAt(c, W, T2, D, b, p)
  <2>1. EvenAt(c, W, T, D, b, p) BY <1>2
  <2>2. \A e : Spans(c, T2, e, p) <=> Spans(c, T, e, p)
    <3>1. ~(n < p) BY <1>2
    <3> QED BY <3>1 DEF Spans
  <2> HIDE DEF T2
  <2>3. \A q : Stays(c, T, p, q) => Stays(c, T2, p, q) BY <2>2 DEF Stays
  <2>4. Aims(c, T, D, b, p) => Aims(c, T2, D, b, p) BY <2>3 DEF Aims, Settles
  <2> QED BY <2>1, <2>2, <2>4 DEF EvenAt
<1>5. Even(c, W, T2, D, b) BY <1>2, <1>3, <1>4 DEF Even, n
<1> QED BY <1>5 DEF Rises, n

(* The finally block of the OP_TRY_ENTER at e begins at the end of c. *)
FinallyHere(c, e, c2) == c2 = [c EXCEPT ![e].y = Len(c) + 1]

(* The finally block begins: it is no longer owed by what follows.         *)
LEMMA RisesFinal ==
  ASSUME NEW c0, NEW D0, NEW c, NEW W, NEW T, NEW D, NEW b, Rises(c0, D0, c, W, T, D, b),
         NEW e, e \in T, b <= Len(c) + 1, NEW c2, FinallyHere(c, e, c2)
  PROVE  Rises(c0, D0, c2, W, T \ {e}, D, Len(c) + 1) /\ Alike(c, c2) /\ Len(c2) = Len(c)
<1> DEFINE n == Len(c)
           T2 == T \ {e}
<1>0. c2 = [c EXCEPT ![e].y = n + 1] BY DEF FinallyHere
<1>1. /\ c0 \in Seq(Instruction) /\ Even(c, W, T, D, b)
      /\ Alike(c0, c) /\ Lasting(c0, D0, c, D) /\ D0 \subseteq D
  BY DEF Rises
<1>2. /\ c \in Seq(Instruction) /\ n \in Nat /\ DOMAIN c = 1..n /\ D \subseteq DOMAIN c
      /\ b \in Nat /\ (n \in DOMAIN c => c[n].op # "CATCH")
      /\ \A f \in T : f \in DOMAIN c /\ c[f].op = "TRY_ENTER" /\ c[f].y = 0
      /\ \A p \in DOMAIN c : c[p].x \in Nat /\ c[p].y \in Nat /\ p \in Nat /\ EvenAt(c, W, T, D, b, p)
      /\ b <= n + 1
  BY <1>1, EvenIs
<1>3. /\ c2 \in Seq(Instruction) /\ DOMAIN c2 = DOMAIN c /\ Len(c2) = n
      /\ \A p \in DOMAIN c :
           /\ c2[p].op = c[p].op /\ c2[p].x = c[p].x /\ c2[p].ty = c[p].ty
           /\ c2[p].hs = c[p].hs /\ c2[p].ow = c[p].ow /\ c2[p].rf = c[p].rf
           /\ c2[p].y = IF p = e THEN n + 1 ELSE c[p].y
  <2>1. e \in DOMAIN c /\ n + 1 \in Nat BY <1>2
  <2>2. DOMAIN c2 = DOMAIN c /\ \A p \in DOMAIN c : c2[p] = IF p = e THEN [c[e] EXCEPT !.y = n + 1] ELSE c[p]
    BY <1>0, <1>2, <2>1
  <2>3. [c[e] EXCEPT !.y = n + 1] \in Instruction
    <3>1. c[e] \in Instruction BY <1>2, <2>1
    <3> QED BY <2>1, <3>1 DEF Instruction
  <2>4. \A p \in DOMAIN c : c[p] \in Instruction BY <1>2
  <2>5. c2 \in Seq(Instruction) /\ Len(c2) = n BY <1>0, <1>2, <2>1, <2>3
  <2>6. ASSUME NEW p \in DOMAIN c
        PROVE /\ c2[p].op = c[p].op /\ c2[p].x = c[p].x /\ c2[p].ty = c[p].ty
              /\ c2[p].hs = c[p].hs /\ c2[p].ow = c[p].ow /\ c2[p].rf = c[p].rf
              /\ c2[p].y = IF p = e THEN n + 1 ELSE c[p].y
    BY <2>2, <2>4 DEF Instruction
  <2> QED BY <2>2, <2>5, <2>6
<1> HIDE DEF n
<1>4. \A q : Ordinary(c2, q) <=> Ordinary(c, q)
  <2>1. \A q \in DOMAIN c : Refused(c2, q) <=> Refused(c, q) BY <1>3 DEF Refused
  <2> QED BY <1>3, <2>1 DEF Ordinary
<1>5. ASSUME NEW p \in DOMAIN c
      PROVE  /\ EvenAt(c2, W, T2, D, n + 1, p)
  <2>1. EvenAt(c, W, T, D, b, p) BY <1>2
  <2>2. Verdict(c2, p) <=> Verdict(c, p) BY <1>3 DEF Verdict
  <2>3. Sure(c2, p) <=> Sure(c, p) BY <1>3, <2>2 DEF Sure, Verdict
  <2>4. Laid(c2, D, p)
    <3>1. Laid(c, D, p) BY <2>1 DEF EvenAt
    <3> QED BY <1>3, <3>1 DEF Laid
  <2>5. Paid(c2, D, p)
    <3>1. Paid(c, D, p) BY <2>1 DEF EvenAt
    <3>2. \A k \in 1..(p - 1) : k \in DOMAIN c BY <1>2
    <3> QED BY <1>3, <3>1, <3>2 DEF Paid
  <2>6. \A f : Spans(c2, T2, f, p) => Spans(c, T, f, p) BY <1>3 DEF Spans
  <2>7. ASSUME NEW q \in Nat, q <= n + 1, Stays(c, T, p, q) PROVE Stays(c2, T2, p, q)
    <3> SUFFICES ASSUME NEW f, Spans(c2, T2, f, p) PROVE f < q /\ (c2[f].y # 0 => q <= c2[f].y)
      BY DEF Stays
    <3>1. f \in DOMAIN c /\ f < q /\ (c[f].y # 0 => q <= c[f].y) BY <2>6, <2>7 DEF Stays, Spans
    <3>2. CASE f = e BY <1>3, <2>7, <3>1, <3>2
    <3>3. CASE f # e BY <1>3, <3>1, <3>3
    <3> QED BY <3>2, <3>3
  <2>8. ASSUME p \notin W PROVE Aims(c2, T2, D, n + 1, p)
    <3>1. Aims(c, T, D, b, p) /\ c[p].x \in Nat /\ c[p].y \in Nat BY <1>2, <2>1, <2>8 DEF EvenAt
    <3>2. ASSUME c[p].op \in Branches
          PROVE  /\ Stays(c2, T2, p, c[p].x)
                 /\ IF Verdict(c2, p)
                    THEN /\ c[p].x \in DOMAIN c2 => c2[c[p].x].op = "POP"
                         /\ c[p].x - 1 \in DOMAIN c2 => c2[c[p].x - 1].op # "CATCH"
                         /\ c[p].x \in D => p \in D \/ Sure(c2, p)
                         /\ c[p].x \in DOMAIN c2
                    ELSE Ordinary(c2, c[p].x) /\ c[p].x \notin D /\ c[p].x <= n + 1
      <4>1. Stays(c, T, p, c[p].x) BY <3>1, <3>2 DEF Aims, Settles
      <4>2. IF Verdict(c, p) THEN c[p].x \in DOMAIN c ELSE c[p].x <= b BY <3>1, <3>2 DEF Aims
      <4>3. c[p].x <= n + 1 BY <1>2, <3>1, <4>2
      <4>4. IF Verdict(c, p)
            THEN /\ c[p].x \in DOMAIN c => c[c[p].x].op = "POP"
                 /\ c[p].x - 1 \in DOMAIN c => c[c[p].x - 1].op # "CATCH"
                 /\ c[p].x \in D => p \in D \/ Sure(c, p)
            ELSE Ordinary(c, c[p].x) /\ c[p].x \notin D
        BY <3>1, <3>2 DEF Aims, Settles
      <4>5. Stays(c2, T2, p, c[p].x) BY <2>7, <3>1, <4>1, <4>3
      <4> QED BY <1>3, <1>4, <2>2, <2>3, <4>2, <4>3, <4>4, <4>5
    <3>3. ASSUME c[p].op = "TRY_ENTER"
          PROVE  /\ Stays(c2, T2, p, c[p].x)
                 /\ p < c[p].x /\ c[p].x \notin D
                 /\ c[p].x - 1 \in DOMAIN c2 => c2[c[p].x - 1].op # "CATCH"
                 /\ c[p].x \in DOMAIN c2 => ~Refused(c2, c[p].x)
                 /\ c2[p].y # 0 => c[p].x <= c2[p].y /\ Ordinary(c2, c2[p].y) /\ c2[p].y \notin D
                 /\ c[p].x <= n + 1 /\ c2[p].y <= n + 1
      <4>1. /\ Stays(c, T, p, c[p].x)
            /\ p < c[p].x /\ c[p].x \notin D
            /\ c[p].x - 1 \in DOMAIN c => c[c[p].x - 1].op # "CATCH"
            /\ c[p].x \in DOMAIN c => ~Refused(c, c[p].x)
            /\ c[p].y # 0 => c[p].x <= c[p].y /\ Ordinary(c, c[p].y) /\ c[p].y \notin D
            /\ c[p].x <= b /\ c[p].y <= b
        BY <3>1, <3>3 DEF Aims, Settles
      <4>2. c[p].x <= n + 1 /\ c[p].y <= n + 1 BY <1>2, <3>1, <4>1
      <4>3. Stays(c2, T2, p, c[p].x) BY <2>7, <3>1, <4>1, <4>2
      <4>4. c[p].x \in DOMAIN c2 => ~Refused(c2, c[p].x)
        <5>1. \A q \in DOMAIN c : Refused(c2, q) <=> Refused(c, q) BY <1>3 DEF Refused
        <5> QED BY <1>3, <4>1, <5>1
      <4>5. c2[p].y # 0 => c[p].x <= c2[p].y /\ Ordinary(c2, c2[p].y) /\ c2[p].y \notin D
        <5>1. CASE p # e BY <1>3, <1>4, <4>1, <5>1
        <5>2. CASE p = e
          <6>1. c2[p].y = n + 1 BY <1>3, <5>2
          <6>2. n + 1 \notin D /\ n + 1 \notin DOMAIN c BY <1>2
          <6>3. (n + 1) - 1 = n BY <1>2
          <6>4. Ordinary(c, n + 1) BY <1>2, <6>2, <6>3 DEF Ordinary
          <6> QED BY <1>4, <4>2, <6>1, <6>2, <6>4
        <5> QED BY <5>1, <5>2
      <4>6. c2[p].y <= n + 1 BY <1>2, <1>3, <4>2
      <4> QED BY <1>3, <4>1, <4>2, <4>3, <4>4, <4>5, <4>6
    <3> QED BY <1>3, <3>2, <3>3 DEF Aims, Settles
  <2>9. c2[p].op = "TRY_ENTER" => c2[p].y <= Len(c2) + 1
    <3>1. c[p].op = "TRY_ENTER" => c[p].y <= n + 1 BY <2>1 DEF EvenAt, n
    <3> QED BY <1>2, <1>3, <3>1
  <2>10. c[p].ow \subseteq 1..(p - 1) /\ c[p].op # "NOTYPE" /\ \A f : Spans(c, T, f, p) => f \in c[p].ow
    BY <2>1 DEF EvenAt
  <2> QED BY <1>3, <2>4, <2>5, <2>6, <2>8, <2>9, <2>10 DEF EvenAt
<1>6. Even(c2, W, T2, D, n + 1)
  <2>1. Len(c2) \in DOMAIN c2 => c2[Len(c2)].op # "CATCH" BY <1>2, <1>3
  <2>2. \A f \in T2 : f \in DOMAIN c2 /\ c2[f].op = "TRY_ENTER" /\ c2[f].y = 0 BY <1>2, <1>3
  <2>3. n + 1 \in Nat /\ D \subseteq DOMAIN c2 /\ c2 \in Seq(Instruction) BY <1>2, <1>3
  <2>4. \A p \in DOMAIN c2 : EvenAt(c2, W, T2, D, n + 1, p) BY <1>3, <1>5
  <2> HIDE DEF T2
  <2> QED BY ONLY <2>1, <2>2, <2>3, <2>4 DEF Even
<1>7. Alike(c, c2) BY <1>3 DEF Alike
<1>8. Alike(c0, c2) BY <1>1, <1>7, AlikeOn
<1>9. Lasting(c0, D0, c2, D) BY <1>1, <1>4 DEF Lasting
<1>10. Rises(c0, D0, c2, W, T2, D, n + 1) BY <1>1, <1>6, <1>8, <1>9 DEF Rises
<1> QED BY <1>3, <1>7, <1>10 DEF n

(* Code one may go further in is code one may go that far in.              *)
LEMMA RisesMore ==
  ASSUME NEW c0, NEW D0, NEW c, NEW W, NEW T, NEW D, NEW b, Rises(c0, D0, c, W, T, D, b),
         NEW b2 \in Nat, b <= b2
  PROVE  Rises(c0, D0, c, W, T, D, b2)
<1>1. Even(c, W, T, D, b) BY DEF Rises
<1>2. /\ c \in Seq(Instruction) /\ D \subseteq DOMAIN c /\ b \in Nat
      /\ \A e \in T : e \in DOMAIN c /\ c[e].op = "TRY_ENTER" /\ c[e].y = 0
      /\ Len(c) \in DOMAIN c => c[Len(c)].op # "CATCH"
      /\ \A p \in DOMAIN c : EvenAt(c, W, T, D, b, p) /\ c[p].x \in Nat /\ c[p].y \in Nat
  BY <1>1, EvenIs
<1>3. ASSUME NEW p \in DOMAIN c PROVE EvenAt(c, W, T, D, b2, p)
  <2>1. EvenAt(c, W, T, D, b, p) /\ c[p].x \in Nat /\ c[p].y \in Nat BY <1>2
  <2>2. Aims(c, T, D, b, p) => Aims(c, T, D, b2, p)
    <3>1. c[p].x <= b => c[p].x <= b2 BY <1>2, <2>1
    <3>2. c[p].y <= b => c[p].y <= b2 BY <1>2, <2>1
    <3> QED BY <3>1, <3>2 DEF Aims
  <2> QED BY <2>1, <2>2 DEF EvenAt
<1>4. Even(c, W, T, D, b2) BY <1>2, <1>3 DEF Even
<1> QED BY <1>4 DEF Rises

(* What comes next may be jumped to.                                       *)
LEMMA HereOrdinary ==
  ASSUME NEW c, NEW W, NEW T, NEW D, NEW b, Even(c, W, T, D, b)
  PROVE  Ordinary(c, Len(c) + 1) /\ Len(c) + 1 \notin D /\ \A e \in T : e < Len(c) + 1
<1>1. /\ Len(c) \in Nat /\ DOMAIN c = 1..Len(c) /\ D \subseteq DOMAIN c
      /\ (Len(c) \in DOMAIN c => c[Len(c)].op # "CATCH")
      /\ \A e \in T : e \in DOMAIN c
  BY EvenIs
<1>2. Len(c) + 1 \notin DOMAIN c /\ (Len(c) + 1) - 1 = Len(c) BY <1>1
<1>3. Ordinary(c, Len(c) + 1) BY <1>1, <1>2 DEF Ordinary
<1> QED BY <1>1, <1>2, <1>3

----------------------------------------------------------------------------
(* The code a statement makes, in the context it is in.                    *)

Fair(c, W, D) == Rises(chunk, D, c, W, Ctx.ow, D, Len(c) + 1)

(* A branch that waits to be patched.                                      *)
Hang(c, T, p) == p \in DOMAIN c /\ c[p].op \in Branches /\ ~Verdict(c, p) /\ c[p].ow \subseteq T

(* A place to jump back to.                                                *)
Anchor(c, D, q, T) ==
  q \in Nat /\ q <= Len(c) + 1 /\ Ordinary(c, q) /\ q \notin D /\ \A e \in T : e < q

(* In the context ctx an error may be raised.                              *)
Solvent(c, ctx) ==
  IF ctx.hs = <<>> THEN ctx.ow = {}
  ELSE Top(ctx.hs) \in DOMAIN c /\ ctx.ow \subseteq c[Top(ctx.hs)].ow \cup {Top(ctx.hs)}

(* Instructions that owe nothing.                                          *)
Quiet == Straight \ (Fallible \cup {"RETURN", "END_FINALLY"})

(* Facts of Fair.                                                          *)
LEMMA FairIs ==
  ASSUME NEW c, NEW W, NEW D, Fair(c, W, D)
  PROVE  /\ c \in Seq(Instruction) /\ Len(c) \in Nat /\ DOMAIN c = 1..Len(c) /\ D \subseteq DOMAIN c
         /\ chunk \in Seq(Instruction) /\ Len(chunk) \in Nat /\ DOMAIN chunk = 1..Len(chunk)
         /\ Len(chunk) <= Len(c) /\ Alike(chunk, c) /\ Lasting(chunk, D, c, D)
         /\ Even(c, W, Ctx.ow, D, Len(c) + 1)
<1>1. /\ chunk \in Seq(Instruction) /\ Even(c, W, Ctx.ow, D, Len(c) + 1)
      /\ Alike(chunk, c) /\ Lasting(chunk, D, c, D)
  BY DEF Fair, Rises
<1>2. c \in Seq(Instruction) /\ Len(c) \in Nat /\ DOMAIN c = 1..Len(c) /\ D \subseteq DOMAIN c
  BY <1>1, EvenIs
<1>3. Len(chunk) \in Nat /\ DOMAIN chunk = 1..Len(chunk) BY <1>1
<1>4. 1..Len(chunk) \subseteq 1..Len(c) BY <1>1, <1>2, <1>3 DEF Alike
<1>5. Len(chunk) <= Len(c)
  <2>1. CASE Len(chunk) = 0 BY <1>2, <2>1
  <2>2. CASE Len(chunk) # 0
    <3>1. Len(chunk) \in 1..Len(chunk) BY <1>3, <2>2
    <3>2. Len(chunk) \in 1..Len(c) BY <1>4, <3>1
    <3> QED BY <1>2, <3>2
  <2> QED BY <2>1, <2>2
<1> QED BY <1>1, <1>2, <1>3, <1>5

(* What waits, begins or may raise an error in some code does in more.     *)
LEMMA HangOn ==
  ASSUME NEW c \in Seq(Instruction), NEW c2 \in Seq(Instruction), Alike(c, c2), NEW T, NEW p, Hang(c, T, p)
  PROVE  Hang(c2, T, p)
<1>1. p \in DOMAIN c /\ c[p].op \in Branches /\ ~Verdict(c, p) /\ c[p].ow \subseteq T BY DEF Hang
<1>2. p \in DOMAIN c2 /\ c2[p].op = c[p].op /\ c2[p].ow = c[p].ow BY <1>1 DEF Alike
<1>3. ~Verdict(c2, p)
  <2> SUFFICES ASSUME Verdict(c2, p) PROVE FALSE OBVIOUS
  <2>1. p - 1 \in DOMAIN c2 /\ c2[p].op = "JUMP_IF_FALSE" /\ c2[p - 1].op = "CATCH" BY DEF Verdict
  <2>2. p - 1 \in DOMAIN c BY <1>1, <2>1
  <2> QED BY <1>1, <1>2, <2>1, <2>2 DEF Alike, Verdict
<1> QED BY <1>1, <1>2, <1>3 DEF Hang

LEMMA AnchorOn ==
  ASSUME NEW c \in Seq(Instruction), NEW c2 \in Seq(Instruction), Alike(c, c2), Len(c) <= Len(c2),
         NEW D, NEW D2, Lasting(c, D, c2, D2), NEW q, NEW T, Anchor(c, D, q, T)
  PROVE  Anchor(c2, D2, q, T)
<1>1. q \in Nat /\ q <= Len(c) + 1 /\ Ordinary(c, q) /\ q \notin D /\ \A e \in T : e < q BY DEF Anchor
<1>2. Ordinary(c2, q) /\ q \notin D2 BY <1>1 DEF Lasting
<1>3. q <= Len(c2) + 1 BY <1>1
<1> QED BY <1>1, <1>2, <1>3 DEF Anchor

LEMMA SolventOn ==
  ASSUME NEW c, NEW c2, Alike(c, c2), NEW ctx, Solvent(c, ctx)
  PROVE  Solvent(c2, ctx)
<1>1. ctx.hs # <<>> => Top(ctx.hs) \in DOMAIN c2 /\ c2[Top(ctx.hs)].ow = c[Top(ctx.hs)].ow
  BY DEF Solvent, Alike
<1> QED BY <1>1 DEF Solvent

(* What an instruction of a context says.                                  *)
LEMMA MadeIns ==
  ASSUME NEW ctx \in Context, NEW op \in Ops, NEW x \in Nat, NEW y \in Nat,
         NEW ty \in SUBSET ErrTypes, NEW h \in Nat
  PROVE  LET i == InsIn(ctx, op, x, y, ty, h) IN
         /\ i \in Instruction /\ i.op = op /\ i.x = x /\ i.y = y /\ i.ty = ty
         /\ i.hs = ctx.hs /\ i.ow = ctx.ow /\ i.rf = ctx.rf
<1>1. InsIn(ctx, op, x, y, ty, h) \in Instruction BY InsInIs
<1> QED BY <1>1 DEF InsIn

LEMMA QuietPays ==
  ASSUME NEW c, NEW T, NEW i, i.op \notin Fallible \cup {"RETURN", "END_FINALLY"}
  PROVE  Payable(c, T, i)
<1>1. i.op \notin Fallible /\ i.op # "CALL" /\ i.op # "RETURN" /\ i.op # "END_FINALLY" BY DEF Fallible
<1> QED BY <1>1 DEF Payable

LEMMA SolventPays ==
  ASSUME NEW c, NEW ctx, NEW i, i.hs = ctx.hs, i.op \in Fallible \ {"CALL"}, Solvent(c, ctx)
  PROVE  Payable(c, ctx.ow, i)
<1>1. i.op # "CALL" /\ i.op # "RETURN" /\ i.op # "END_FINALLY" BY DEF Fallible
<1> QED BY <1>1 DEF Payable, Solvent

(* One instruction more that owes nothing.                                 *)
LEMMA FairQuiet ==
  ASSUME Now, NEW c, NEW W, NEW D, Fair(c, W, D),
         NEW op \in Quiet, NEW x \in Nat, NEW y \in Nat, NEW ty \in SUBSET ErrTypes, NEW h \in Nat
  PROVE  LET c2 == Append(c, InsIn(Ctx, op, x, y, ty, h)) IN
         Fair(c2, W, D) /\ Alike(c, c2) /\ Len(c2) = Len(c) + 1
<1> DEFINE i == InsIn(Ctx, op, x, y, ty, h)
           c2 == c \o <<i>>
<1>1. Ctx \in Context BY NowIs
<1>2. op \in Ops /\ op \in Straight /\ op \notin Fallible \cup {"RETURN", "END_FINALLY"}
  BY DEF Quiet, Straight
<1>3. i \in Instruction /\ i.op = op /\ i.ow = Ctx.ow /\ Payable(c, Ctx.ow, i)
  <2>1. i \in Instruction /\ i.op = op /\ i.ow = Ctx.ow BY <1>1, <1>2, MadeIns
  <2> HIDE DEF i
  <2> QED BY <1>2, <2>1, QuietPays
<1>4. c \in Seq(Instruction) /\ Len(c) \in Nat BY FairIs
<1> HIDE DEF i
<1>5. /\ <<i>> \in Seq(Instruction)
      /\ \A k \in DOMAIN <<i>> :
           <<i>>[k].op \in Straight /\ <<i>>[k].ow = Ctx.ow /\ Payable(c, Ctx.ow, <<i>>[k])
  BY <1>2, <1>3
<1>6. Rises(chunk, D, c2, W, Ctx.ow, D, Len(c) + 1) /\ Alike(c, c2)
  BY <1>5, RisesTail DEF Fair
<1>7. c2 = Append(c, i) /\ Len(c2) = Len(c) + 1 BY <1>3, <1>4
<1>8. Len(c) + 1 <= Len(c2) + 1 /\ Len(c2) + 1 \in Nat BY <1>4, <1>7
<1> HIDE DEF c2
<1>9. Rises(chunk, D, c2, W, Ctx.ow, D, Len(c2) + 1) BY <1>6, <1>8, RisesMore
<1> QED BY <1>6, <1>7, <1>9 DEF Fair, i

(* A branch, still to be patched.                                          *)
LEMMA FairHole ==
  ASSUME Now, NEW c, NEW W, NEW D, Fair(c, W, D),
         NEW op \in Branches, op \in {"JUMP_IF_NOT_LT", "FOR_ITER"} => Solvent(chunk, Ctx),
         NEW x \in Nat, NEW y \in Nat, NEW h \in Nat
  PROVE  LET c2 == Append(c, InsIn(Ctx, op, x, y, {}, h)) IN
         /\ Fair(c2, W \cup {Len(c) + 1}, D) /\ Alike(c, c2) /\ Len(c2) = Len(c) + 1
         /\ Hang(c2, Ctx.ow, Len(c) + 1)
<1> DEFINE i == InsIn(Ctx, op, x, y, {}, h)
           c2 == Append(c, i)
<1>1. Ctx \in Context /\ {} \in SUBSET ErrTypes BY NowIs
<1>2. op \in Ops /\ op # "CALL" /\ op \notin {"RETURN", "END_FINALLY"}
  BY OpsAre DEF Branches
<1>3. c \in Seq(Instruction) /\ Len(c) \in Nat /\ Alike(chunk, c) BY FairIs
<1>4. op \in Fallible => op \in {"JUMP_IF_NOT_LT", "FOR_ITER"} BY DEF Fallible, Branches
<1>5. i \in Instruction /\ i.op = op /\ i.ow = Ctx.ow /\ Payable(c, Ctx.ow, i)
  <2>1. op \in Fallible => Solvent(c, Ctx) BY <1>3, <1>4, SolventOn
  <2>2. i \in Instruction /\ i.op = op /\ i.ow = Ctx.ow /\ i.hs = Ctx.hs BY <1>1, <1>2, MadeIns
  <2> HIDE DEF i
  <2>3. CASE op \in Fallible
    <3>1. i.op \in Fallible \ {"CALL"} BY <1>2, <2>2, <2>3
    <3> QED BY <2>1, <2>2, <2>3, <3>1, SolventPays
  <2>4. CASE op \notin Fallible
    <3>1. i.op \notin Fallible \cup {"RETURN", "END_FINALLY"} BY <1>2, <2>2, <2>4
    <3> QED BY <2>2, <3>1, QuietPays
  <2> QED BY <2>3, <2>4
<1> HIDE DEF i
<1>6. /\ Rises(chunk, D, c2, W \cup {Len(c) + 1}, Ctx.ow, D, Len(c) + 1) /\ Alike(c, c2)
      /\ ~Verdict(c2, Len(c) + 1) /\ c2[Len(c) + 1] = i /\ Len(c) + 1 \in DOMAIN c2
  BY <1>5, RisesHole DEF Fair
<1>7. Len(c2) = Len(c) + 1 BY <1>3, <1>5
<1>8. Len(c) + 1 <= Len(c2) + 1 /\ Len(c2) + 1 \in Nat BY <1>3, <1>7
<1> HIDE DEF c2
<1>9. Rises(chunk, D, c2, W \cup {Len(c) + 1}, Ctx.ow, D, Len(c2) + 1) BY <1>6, <1>8, RisesMore
<1>10. Hang(c2, Ctx.ow, Len(c) + 1) BY <1>5, <1>6 DEF Hang
<1> QED BY <1>6, <1>7, <1>9, <1>10 DEF Fair, i, c2

(* A jump back.                                                            *)
LEMMA FairBack ==
  ASSUME Now, NEW c, NEW W, NEW D, Fair(c, W, D), NEW q, Anchor(c, D, q, Ctx.ow), NEW h \in Nat
  PROVE  LET c2 == Append(c, InsIn(Ctx, "LOOP", q, 0, {}, h)) IN
         Fair(c2, W, D) /\ Alike(c, c2) /\ Len(c2) = Len(c) + 1
<1> DEFINE i == InsIn(Ctx, "LOOP", q, 0, {}, h)
           c2 == Append(c, i)
<1>1. Ctx \in Context /\ {} \in SUBSET ErrTypes BY NowIs
<1>2. /\ q \in Nat /\ q <= Len(c) + 1 /\ Ordinary(c, q) /\ q \notin D /\ \A e \in Ctx.ow : e < q
  BY DEF Anchor
<1>3. c \in Seq(Instruction) /\ Len(c) \in Nat BY FairIs
<1>4. "LOOP" \in Ops /\ "LOOP" \in Branches /\ "LOOP" \notin Fallible \cup {"RETURN", "END_FINALLY"}
  BY OpsAre DEF Branches, Fallible
<1>5. i \in Instruction /\ i.op = "LOOP" /\ i.x = q /\ i.ow = Ctx.ow /\ Payable(c, Ctx.ow, i)
  <2>1. q \in Nat /\ 0 \in Nat /\ Ctx \in Context /\ {} \in SUBSET ErrTypes /\ "LOOP" \in Ops
    BY <1>1, <1>2, <1>4
  <2>2. i \in Instruction /\ i.op = "LOOP" /\ i.x = q /\ i.ow = Ctx.ow BY <2>1, MadeIns
  <2> HIDE DEF i
  <2>3. i.op \notin Fallible \cup {"RETURN", "END_FINALLY"} BY <1>4, <2>2
  <2> QED BY <2>2, <2>3, QuietPays
<1> HIDE DEF i
<1>6. Len(c2) = Len(c) + 1 BY <1>3, <1>5
<1>7. Len(c) + 1 <= Len(c2) + 1 /\ Len(c2) + 1 \in Nat /\ q <= Len(c2) + 1 BY <1>2, <1>3, <1>6
<1> DEFINE b2 == Len(c2) + 1
<1>8. /\ b2 \in Nat /\ Len(c) + 1 <= b2 /\ i.x <= b2 /\ i.op \in Branches
      /\ \A e \in Ctx.ow : e < i.x
      /\ i.x \notin D /\ Ordinary(c, i.x)
      /\ Rises(chunk, D, c, W, Ctx.ow, D, Len(c) + 1)
  BY <1>2, <1>4, <1>5, <1>7 DEF Fair
<1> HIDE DEF b2
<1>9. Rises(chunk, D, c2, W, Ctx.ow, D, b2) /\ Alike(c, c2)
  BY <1>5, <1>8, RisesJump
<1> QED BY <1>6, <1>9 DEF Fair, i, c2, b2

(* patchJump.                                                              *)
LEMMA FairPatch ==
  ASSUME NEW c, NEW W, NEW D, Fair(c, W, D), NEW A, \A p \in A : Hang(c, Ctx.ow, p)
  PROVE  Fair(Patch(c, A), W \ A, D) /\ Alike(c, Patch(c, A)) /\ Len(Patch(c, A)) = Len(c)
<1> DEFINE q == Len(c) + 1
<1>1. c \in Seq(Instruction) /\ Len(c) \in Nat /\ Even(c, W, Ctx.ow, D, Len(c) + 1) BY FairIs
<1>2. Ordinary(c, q) /\ q \notin D BY <1>1, HereOrdinary
<1>3. q \in Nat /\ Len(c) < q /\ q <= q BY <1>1
<1>4. Patch(c, A) = AimAt(c, A, q) BY DEF Patch, AimAt, Here
<1>5. Rises(chunk, D, c, W, Ctx.ow, D, q) BY DEF Fair
<1> HIDE DEF q
<1>6. \A p \in A \cap DOMAIN c : MayAim(c, Ctx.ow, D, p, q) BY <1>2, <1>3 DEF Hang, MayAim
<1>7. Rises(chunk, D, AimAt(c, A, q), W \ A, Ctx.ow, D, q) /\ Alike(c, AimAt(c, A, q))
  BY <1>3, <1>5, <1>6, RisesAim
<1>8. Len(AimAt(c, A, q)) = Len(c) BY <1>1, <1>3, AimIs
<1> QED BY <1>4, <1>7, <1>8 DEF Fair, q

(* Fewer things may hang, and a set of holes may be given another name.    *)
LEMMA FairLess ==
  ASSUME NEW c, NEW W, NEW D, Fair(c, W, D), NEW V, W \subseteq V
  PROVE  Fair(c, V, D)
BY RisesLess DEF Fair

LEMMA KindsOfOp ==
  /\ \A op \in {"CONSTANT", "GET_LOCAL", "SET_LOCAL", "POP", "POP2_PUSH", "DEFINE_VAR", "TRY_EXIT"} :
       /\ op \in Quiet /\ op \in Straight \ {"RETURN", "END_FINALLY"} /\ op \in Ops
       /\ op \notin Fallible /\ op # "CALL"
  /\ \A op \in {"NATIVE", "THROW", "SKIP_ITER", "CALL"} :
       op \in Straight \ {"RETURN", "END_FINALLY"} /\ op \in Ops
  /\ \A op \in {"JUMP", "LOOP", "JUMP_IF_FALSE"} :
       op \in Branches /\ op \in Ops /\ op \notin {"JUMP_IF_NOT_LT", "FOR_ITER"}
  /\ "JUMP_IF_NOT_LT" \in Branches /\ "FOR_ITER" \in Branches
BY OpsAre DEF Quiet, Straight, Fallible, Branches

(* A run of instructions that go straight on.                              *)
Neat(i) ==
  /\ i \in Instruction /\ i.op \in Straight \ {"RETURN", "END_FINALLY"}
  /\ i.ow = Ctx.ow /\ i.hs = Ctx.hs
  /\ i.op \in Fallible => Solvent(chunk, Ctx)
  /\ i.op = "CALL" => Ctx.ow = {}

LEMMA NeatIns ==
  ASSUME Now, NEW op \in Straight \ {"RETURN", "END_FINALLY"}, op \in Ops, NEW x \in Nat, NEW y \in Nat,
         NEW ty \in SUBSET ErrTypes, NEW h \in Nat,
         op \in Fallible => Solvent(chunk, Ctx), op = "CALL" => Ctx.ow = {}
  PROVE  Neat(InsIn(Ctx, op, x, y, ty, h))
<1> DEFINE i == InsIn(Ctx, op, x, y, ty, h)
<1>1. Ctx \in Context BY NowIs
<1>2. i \in Instruction /\ i.op = op /\ i.ow = Ctx.ow /\ i.hs = Ctx.hs BY <1>1, MadeIns
<1> HIDE DEF i
<1>3. Neat(i) BY <1>2 DEF Neat
<1> QED BY <1>3 DEF i

LEMMA FairTail ==
  ASSUME NEW c, NEW W, NEW D, Fair(c, W, D), NEW t \in Seq(Instruction),
         \A k \in DOMAIN t : Neat(t[k])
  PROVE  Fair(c \o t, W, D) /\ Alike(c, c \o t) /\ Len(c \o t) = Len(c) + Len(t)
<1> DEFINE c2 == c \o t
<1>1. c \in Seq(Instruction) /\ Len(c) \in Nat /\ Alike(chunk, c) BY FairIs
<1>2. ASSUME NEW k \in DOMAIN t PROVE t[k].op \in Straight /\ t[k].ow = Ctx.ow /\ Payable(c, Ctx.ow, t[k])
  <2> DEFINE i == t[k]
  <2>1. Neat(i) OBVIOUS
  <2> HIDE DEF i
  <2>2. i.op \in Straight /\ i.ow = Ctx.ow /\ i.hs = Ctx.hs /\ i.op # "RETURN" /\ i.op # "END_FINALLY"
        /\ (i.op \in Fallible => Solvent(c, Ctx)) /\ (i.op = "CALL" => Ctx.ow = {})
    BY <1>1, <2>1, SolventOn DEF Neat
  <2>3. Payable(c, Ctx.ow, i) BY <2>2 DEF Payable, Solvent
  <2> QED BY <2>2, <2>3 DEF i
<1>3. Rises(chunk, D, c2, W, Ctx.ow, D, Len(c) + 1) /\ Alike(c, c2)
  BY <1>2, RisesTail DEF Fair
<1>4. Len(c2) = Len(c) + Len(t) /\ Len(t) \in Nat BY <1>1
<1>5. Len(c) + 1 <= Len(c2) + 1 /\ Len(c2) + 1 \in Nat BY <1>1, <1>4
<1> HIDE DEF c2
<1>6. Rises(chunk, D, c2, W, Ctx.ow, D, Len(c2) + 1) BY <1>3, <1>5, RisesMore
<1> QED BY <1>3, <1>4, <1>6 DEF Fair, c2

(* A few of them.                                                          *)
LEMMA FairTwo ==
  ASSUME NEW c, NEW W, NEW D, Fair(c, W, D), NEW i, NEW j, Neat(i), Neat(j)
  PROVE  Fair(c \o <<i, j>>, W, D) /\ Alike(c, c \o <<i, j>>) /\ Len(c \o <<i, j>>) = Len(c) + 2
<1>1. i \in Instruction /\ j \in Instruction BY DEF Neat
<1> DEFINE t == <<i, j>>
<1>2. t \in Seq(Instruction) /\ Len(t) = 2 BY <1>1
<1>3. \A k \in DOMAIN t : Neat(t[k]) OBVIOUS
<1> HIDE DEF t
<1>4. Fair(c \o t, W, D) /\ Alike(c, c \o t) /\ Len(c \o t) = Len(c) + Len(t) BY <1>2, <1>3, FairTail
<1> QED BY <1>2, <1>4 DEF t

LEMMA FairThree ==
  ASSUME NEW c, NEW W, NEW D, Fair(c, W, D), NEW i, NEW j, NEW l, Neat(i), Neat(j), Neat(l)
  PROVE  Fair(c \o <<i, j, l>>, W, D) /\ Alike(c, c \o <<i, j, l>>) /\ Len(c \o <<i, j, l>>) = Len(c) + 3
<1>1. i \in Instruction /\ j \in Instruction /\ l \in Instruction BY DEF Neat
<1> DEFINE t == <<i, j, l>>
<1>2. t \in Seq(Instruction) /\ Len(t) = 3 BY <1>1
<1>3. \A k \in DOMAIN t : Neat(t[k]) OBVIOUS
<1> HIDE DEF t
<1>4. Fair(c \o t, W, D) /\ Alike(c, c \o t) /\ Len(c \o t) = Len(c) + Len(t) BY <1>2, <1>3, FairTail
<1> QED BY <1>2, <1>4 DEF t

(* The locals of a scope popped.                                           *)
LEMMA FairPops ==
  ASSUME Now, NEW c, NEW W, NEW D, Fair(c, W, D), NEW n \in Nat, NEW h \in Nat, n <= h
  PROVE  Fair(c \o Pops(n, h), W, D) /\ Alike(c, c \o Pops(n, h)) /\ Len(c \o Pops(n, h)) = Len(c) + n
<1> DEFINE t == Pops(n, h)
<1>1. ASSUME NEW k \in 1..n PROVE Neat(InsIn(Ctx, "POP", 0, 0, {}, h - k + 1))
  <2>1. h - k + 1 \in Nat /\ "POP" \in Ops /\ {} \in SUBSET ErrTypes /\ 0 \in Nat BY OpsAre
  <2>2. "POP" \in Straight \ {"RETURN", "END_FINALLY"} /\ "POP" \notin Fallible BY KindsOfOp
  <2> DEFINE g == h - k + 1
  <2>3. g \in Nat BY <2>1
  <2> HIDE DEF g
  <2>4. Neat(InsIn(Ctx, "POP", 0, 0, {}, g)) BY <2>1, <2>2, <2>3, NeatIns
  <2> QED BY <2>4 DEF g
<1>2. t = [k \in 1..n |-> InsIn(Ctx, "POP", 0, 0, {}, h - k + 1)] BY DEF Pops, Ins
<1>3. \A k \in 1..n : InsIn(Ctx, "POP", 0, 0, {}, h - k + 1) \in Instruction BY <1>1 DEF Neat
<1>4. t \in Seq(Instruction) /\ Len(t) = n /\ DOMAIN t = 1..n BY <1>2, <1>3
<1>5. \A k \in DOMAIN t : Neat(t[k]) BY <1>1, <1>2
<1> HIDE DEF t
<1>6. Fair(c \o t, W, D) /\ Alike(c, c \o t) /\ Len(c \o t) = Len(c) + n BY <1>4, <1>5, FairTail
<1> QED BY <1>6 DEF t

(* A condition, whose jump waits.                                          *)
LEMMA FairCondition ==
  ASSUME Now, NEW c, NEW W, NEW D, Fair(c, W, D), NEW h \in Nat
  PROVE  LET c2 == c \o Condition(h) IN
         /\ Fair(c2, W \cup {Len(c) + 2}, D) /\ Alike(c, c2) /\ Len(c2) = Len(c) + 3
         /\ Hang(c2, Ctx.ow, Len(c) + 2)
<1> DEFINE i1 == InsIn(Ctx, "CONSTANT", 0, 0, {}, h)
           i2 == InsIn(Ctx, "JUMP_IF_FALSE", 0, 0, {}, h + 1)
           i3 == InsIn(Ctx, "POP", 0, 0, {}, h + 1)
           c1 == Append(c, i1)
           c2 == Append(c1, i2)
           c3 == Append(c2, i3)
<1>1. /\ Ctx \in Context /\ h + 1 \in Nat /\ c \in Seq(Instruction) /\ Len(c) \in Nat
      /\ "CONSTANT" \in Quiet /\ "POP" \in Quiet /\ "JUMP_IF_FALSE" \in Branches
  BY NowIs, FairIs, KindsOfOp
<1>2. Fair(c1, W, D) /\ Alike(c, c1) /\ Len(c1) = Len(c) + 1 BY <1>1, OpsAre, FairQuiet
<1>3. i1 \in Instruction /\ i2 \in Instruction /\ i3 \in Instruction BY <1>1, OpsAre, InsInIs
<1>4. c \o Condition(h) = c3
  <2>1. Condition(h) = <<i1, i2, i3>> BY DEF Condition, Ins
  <2> HIDE DEF i1, i2, i3
  <2> QED BY <1>1, <1>3, <2>1, Cat3
<1> HIDE DEF c1
<1>5. /\ Fair(c2, W \cup {Len(c1) + 1}, D) /\ Alike(c1, c2) /\ Len(c2) = Len(c1) + 1
      /\ Hang(c2, Ctx.ow, Len(c1) + 1)
  BY <1>1, <1>2, OpsAre, FairHole
<1>6. c2 \in Seq(Instruction) BY <1>5, FairIs
<1> HIDE DEF c2
<1>7. Fair(c3, W \cup {Len(c1) + 1}, D) /\ Alike(c2, c3) /\ Len(c3) = Len(c2) + 1
  BY <1>1, <1>5, OpsAre, FairQuiet
<1>8. c3 \in Seq(Instruction) BY <1>7, FairIs
<1>9. Len(c1) + 1 = Len(c) + 2 /\ Len(c3) = Len(c) + 3 BY <1>1, <1>2, <1>5, <1>7
<1> HIDE DEF c3
<1>10. Hang(c3, Ctx.ow, Len(c1) + 1) BY <1>5, <1>6, <1>7, <1>8, HangOn
<1>11. Alike(c, c3) BY <1>2, <1>5, <1>7, AlikeOn
<1> QED BY <1>4, <1>7, <1>9, <1>10, <1>11

----------------------------------------------------------------------------
(* What hangs from the statements that are open.                           *)

(* The program uses none of the combinations that skip a finally block.    *)
Careful ==
  Risks \cap {"call_owing_finally", "error_in_catch", "finally_without_catch_all",
              "return_skipping_finally", "let_without_value"} = {}

(* The finally block of the try statement o is still to come.              *)
Owes(o) == o.kind = "try" /\ o.fin /\ o.arm # "finally"

(* What the open statement o keeps of the code, in the context out and     *)
(* with its loop l if it is one.                                           *)
Keeping(c, D, o, out, l) ==
  /\ o.ctx.ow = IF Owes(o) THEN out.ow \cup {o.a} ELSE out.ow
  /\ o.kind = "try" =>
       /\ o.a \in DOMAIN c /\ c[o.a].ow = out.ow
       /\ o.arm = "body" => ~o.all
       /\ o.ret => out.ow = {}
       /\ o.arm = "catch" =>
            /\ o.j \in DOMAIN c /\ Verdict(c, o.j) /\ c[o.j].ow \subseteq o.ctx.ow
            /\ o.all => Sure(c, o.j) \/ o.j \in D
            /\ \A p \in o.jumps \cup {o.b} : Hang(c, o.ctx.ow, p)
  /\ o.kind # "try" => \A p \in HolesOf(o) : Hang(c, o.ctx.ow, p)
  /\ IsLoop(o) =>
       /\ Anchor(c, D, o.a, o.ctx.ow)
       /\ \A p \in l.breaks \cup l.continues : Hang(c, o.ctx.ow, p)

(* An inner statement owes what the outer one owes, and no more unless it  *)
(* is a try statement that a jump may not leave.                           *)
Chained(os) ==
  \A i, k \in DOMAIN os : i <= k =>
    /\ os[i].ctx.ow \subseteq os[k].ctx.ow
    /\ (\A j \in (i + 1)..k : ~Crosses(os[j])) => os[k].ctx.ow = os[i].ctx.ow

(* The invariant of the compiler for this property, with the code D that   *)
(* is never reached.                                                       *)
Tidy(c, os, lp, D) ==
  /\ Even(c, HolesIn(os, lp), Innermost(os).ow, D, Len(c) + 1)
  /\ Chained(os)
  /\ \A i \in DOMAIN os : Keeping(c, D, os[i], Outer(os, i), lp[os[i].n + 1])

Longer(c, l, l2, T) ==
  \A p \in l2.breaks \cup l2.continues : p \in l.breaks \cup l.continues \/ Hang(c, T, p)

LEMMA LongerIs == \A c, l, T : Longer(c, l, l, T)
BY DEF Longer

LEMMA VerdictOn ==
  ASSUME NEW c, NEW c2, Alike(c, c2), NEW p \in DOMAIN c
  PROVE  /\ Verdict(c, p) => Verdict(c2, p)
         /\ Sure(c, p) => Sure(c2, p)
BY DEF Alike, Verdict, Sure

(* What an open statement keeps it keeps when code is added.               *)
LEMMA KeepingKept ==
  ASSUME NEW c \in Seq(Instruction), NEW c2 \in Seq(Instruction), Alike(c, c2), Len(c) <= Len(c2),
         NEW D, NEW D2, Lasting(c, D, c2, D2), D \subseteq D2,
         NEW o, NEW out, NEW l, NEW l2, Keeping(c, D, o, out, l),
         IsLoop(o) => Longer(c2, l, l2, o.ctx.ow)
  PROVE  Keeping(c2, D2, o, out, l2)
<1> DEFINE T == o.ctx.ow
<1>1. \A p : Hang(c, T, p) => Hang(c2, T, p) BY HangOn
<1>2. T = IF Owes(o) THEN out.ow \cup {o.a} ELSE out.ow BY DEF Keeping
<1>3. ASSUME o.kind = "try"
      PROVE  /\ o.a \in DOMAIN c2 /\ c2[o.a].ow = out.ow
             /\ o.arm = "body" => ~o.all
             /\ o.ret => out.ow = {}
  BY <1>3 DEF Keeping, Alike
<1>4. ASSUME o.kind = "try", o.arm = "catch"
      PROVE  /\ o.j \in DOMAIN c2 /\ Verdict(c2, o.j) /\ c2[o.j].ow \subseteq T
             /\ o.all => Sure(c2, o.j) \/ o.j \in D2
             /\ \A p \in o.jumps \cup {o.b} : Hang(c2, T, p)
  <2>1. /\ o.j \in DOMAIN c /\ Verdict(c, o.j) /\ c[o.j].ow \subseteq T
        /\ o.all => Sure(c, o.j) \/ o.j \in D
        /\ \A p \in o.jumps \cup {o.b} : Hang(c, T, p)
    BY <1>4 DEF Keeping
  <2>2. o.j \in DOMAIN c2 /\ c2[o.j].ow = c[o.j].ow BY <2>1 DEF Alike
  <2>3. Verdict(c2, o.j) /\ (Sure(c, o.j) => Sure(c2, o.j)) BY <2>1, VerdictOn
  <2>4. \A p \in o.jumps \cup {o.b} : Hang(c2, T, p) BY <1>1, <2>1
  <2> HIDE DEF T
  <2> QED BY <2>1, <2>2, <2>3, <2>4
<1>5. ASSUME o.kind # "try" PROVE \A p \in HolesOf(o) : Hang(c2, T, p)
  BY <1>1, <1>5 DEF Keeping
<1>6. ASSUME IsLoop(o)
      PROVE  Anchor(c2, D2, o.a, T) /\ \A p \in l2.breaks \cup l2.continues : Hang(c2, T, p)
  <2>1. Anchor(c, D, o.a, T) /\ \A p \in l.breaks \cup l.continues : Hang(c, T, p)
    BY <1>6 DEF Keeping
  <2>2. Longer(c2, l, l2, T) BY <1>6
  <2> HIDE DEF T
  <2>3. Anchor(c2, D2, o.a, T) BY <2>1, AnchorOn
  <2>4. \A p \in l2.breaks \cup l2.continues : Hang(c2, T, p) BY <1>1, <2>1, <2>2 DEF Longer
  <2> QED BY <2>3, <2>4
<1> QED BY <1>2, <1>3, <1>4, <1>5, <1>6 DEF Keeping

(* Facts of Rises.                                                         *)
LEMMA RisesAre ==
  ASSUME NEW c0, NEW D0, NEW c, NEW W, NEW T, NEW D, NEW b, Rises(c0, D0, c, W, T, D, b)
  PROVE  /\ c0 \in Seq(Instruction) /\ c \in Seq(Instruction) /\ Len(c0) \in Nat /\ Len(c) \in Nat
         /\ DOMAIN c = 1..Len(c) /\ DOMAIN c0 = 1..Len(c0) /\ Len(c0) <= Len(c) /\ Alike(c0, c)
         /\ Lasting(c0, D0, c, D) /\ D0 \subseteq D /\ Even(c, W, T, D, b)
<1>1. /\ c0 \in Seq(Instruction) /\ Even(c, W, T, D, b) /\ Alike(c0, c) /\ Lasting(c0, D0, c, D)
      /\ D0 \subseteq D
  BY DEF Rises
<1>2. c \in Seq(Instruction) BY <1>1, EvenIs
<1>3. /\ Len(c0) \in Nat /\ DOMAIN c0 = 1..Len(c0) /\ Len(c) \in Nat /\ DOMAIN c = 1..Len(c)
  BY <1>1, <1>2
<1>4. Len(c0) <= Len(c)
  <2>1. 1..Len(c0) \subseteq 1..Len(c) BY <1>1, <1>3 DEF Alike
  <2>2. CASE Len(c0) = 0 BY <1>3, <2>2
  <2>3. CASE Len(c0) # 0
    <3>1. Len(c0) \in 1..Len(c0) BY <1>3, <2>3
    <3>2. Len(c0) \in 1..Len(c) BY <2>1, <3>1
    <3> QED BY <1>3, <3>2
  <2> QED BY <2>2, <2>3
<1> QED BY <1>1, <1>2, <1>3, <1>4

(* The invariant after a step, from the code that was added and what the   *)
(* statements keep that have changed.                                      *)
LEMMA TidyMade ==
  ASSUME NEW c, NEW os, NEW lp, NEW D, Tidy(c, os, lp, D),
         NEW os2, NEW lp2, NEW c2, NEW W, NEW D2,
         Rises(c, D, c2, W, Innermost(os2).ow, D2, Len(c2) + 1),
         W \subseteq HolesIn(os2, lp2), Chained(os2),
         \A i \in DOMAIN os2 :
           \/ Keeping(c2, D2, os2[i], Outer(os2, i), lp2[os2[i].n + 1])
           \/ /\ i \in DOMAIN os /\ os2[i] = os[i] /\ Outer(os2, i) = Outer(os, i)
              /\ IsLoop(os[i]) => Longer(c2, lp[os[i].n + 1], lp2[os[i].n + 1], os[i].ctx.ow)
  PROVE  Tidy(c2, os2, lp2, D2)
<1>1. /\ c \in Seq(Instruction) /\ c2 \in Seq(Instruction) /\ Len(c) <= Len(c2) /\ Alike(c, c2)
      /\ Lasting(c, D, c2, D2) /\ D \subseteq D2
  BY RisesAre
<1>2. Rises(c, D, c2, HolesIn(os2, lp2), Innermost(os2).ow, D2, Len(c2) + 1)
  <2> DEFINE T == Innermost(os2).ow
             b == Len(c2) + 1
             V == HolesIn(os2, lp2)
  <2>1. Rises(c, D, c2, W, T, D2, b) /\ W \subseteq V OBVIOUS
  <2> HIDE DEF T, b, V
  <2>2. Rises(c, D, c2, V, T, D2, b) BY ONLY <2>1, RisesLess
  <2> QED BY <2>2 DEF T, b, V
<1>3. ASSUME NEW i \in DOMAIN os2 PROVE Keeping(c2, D2, os2[i], Outer(os2, i), lp2[os2[i].n + 1])
  <2>1. CASE /\ i \in DOMAIN os /\ os2[i] = os[i] /\ Outer(os2, i) = Outer(os, i)
             /\ IsLoop(os[i]) => Longer(c2, lp[os[i].n + 1], lp2[os[i].n + 1], os[i].ctx.ow)
    <3> DEFINE o == os[i]
               out == Outer(os, i)
               l == lp[os[i].n + 1]
               l2 == lp2[os[i].n + 1]
    <3>1. Keeping(c, D, o, out, l) BY <2>1 DEF Tidy
    <3>2. IsLoop(o) => Longer(c2, l, l2, o.ctx.ow) BY <2>1
    <3>3. o = os2[i] /\ out = Outer(os2, i) /\ l2 = lp2[os2[i].n + 1] BY <2>1
    <3> HIDE DEF o, out, l, l2
    <3>4. Keeping(c2, D2, o, out, l2) BY ONLY <1>1, <3>1, <3>2, KeepingKept
    <3> QED BY <3>3, <3>4
  <2> QED BY <2>1
<1> QED BY <1>2, <1>3 DEF Tidy, Rises

----------------------------------------------------------------------------
(* Statements that begin, end and go on.                                   *)

(* What Keeping says of the block's context.                               *)
LEMMA KeepingOwes ==
  ASSUME NEW c, NEW D, NEW o, NEW out, NEW l, Keeping(c, D, o, out, l), Within(o, out)
  PROVE  out.ow \subseteq o.ctx.ow /\ (~Crosses(o) => o.ctx.ow = out.ow)
<1>1. o.ctx.ow = IF Owes(o) THEN out.ow \cup {o.a} ELSE out.ow BY DEF Keeping
<1>2. Owes(o) => Crosses(o) BY DEF Owes, Crosses, Within
<1> QED BY <1>1, <1>2

LEMMA ChainedPush ==
  ASSUME NEW os \in Seq(Statement), Chained(os), NEW o \in Statement,
         Innermost(os).ow \subseteq o.ctx.ow, ~Crosses(o) => o.ctx.ow = Innermost(os).ow
  PROVE  Chained(Append(os, o))
<1> DEFINE os2 == Append(os, o)
           N == Len(os)
<1>1. /\ DOMAIN os2 = 1..(N + 1) /\ DOMAIN os = 1..N /\ N \in Nat /\ os2[N + 1] = o
      /\ \A i \in 1..N : os2[i] = os[i] /\ i \in 1..(N + 1) /\ i # N + 1
  BY AppendIs
<1>2. N # 0 => Innermost(os) = os[N].ctx BY DEF Innermost, Last
<1> HIDE DEF os2
<1>3. ASSUME NEW i \in DOMAIN os2, NEW k \in DOMAIN os2, i <= k
      PROVE  /\ os2[i].ctx.ow \subseteq os2[k].ctx.ow
             /\ (\A j \in (i + 1)..k : ~Crosses(os2[j])) => os2[k].ctx.ow = os2[i].ctx.ow
  <2>1. CASE k \in 1..N
    <3>1. i \in 1..N /\ k \in 1..N /\ \A j \in (i + 1)..k : j \in 1..N BY <1>1, <1>3, <2>1
    <3>2. os2[i] = os[i] /\ os2[k] = os[k] /\ \A j \in (i + 1)..k : os2[j] = os[j] BY <1>1, <3>1
    <3> QED BY <1>1, <1>3, <3>1, <3>2 DEF Chained
  <2>2. CASE i = N + 1
    <3>1. k = i BY <1>1, <1>3, <2>2
    <3> QED BY <3>1
  <2>3. CASE i \in 1..N /\ k = N + 1
    <3>1. N \in 1..N /\ i <= N BY <1>1, <2>3
    <3>2. os2[i] = os[i] /\ os2[k] = o /\ Innermost(os) = os[N].ctx BY <1>1, <1>2, <2>3, <3>1
    <3>3. os[i].ctx.ow \subseteq os[N].ctx.ow BY <1>1, <2>3, <3>1 DEF Chained
    <3>4. ASSUME \A j \in (i + 1)..k : ~Crosses(os2[j]) PROVE o.ctx.ow = os[i].ctx.ow
      <4>1. \A j \in (i + 1)..N : j \in (i + 1)..k /\ j \in 1..N BY <1>1, <2>3
      <4>2. \A j \in (i + 1)..N : ~Crosses(os[j]) BY <1>1, <3>4, <4>1
      <4>3. os[N].ctx.ow = os[i].ctx.ow BY <1>1, <2>3, <3>1, <4>2 DEF Chained
      <4>4. k \in (i + 1)..k BY <1>1, <2>3
      <4>5. ~Crosses(o) BY <3>2, <3>4, <4>4
      <4> QED BY <3>2, <4>3, <4>5
    <3> QED BY <3>2, <3>3, <3>4
  <2> QED BY <1>1, <2>1, <2>2, <2>3
<1> QED BY <1>3 DEF Chained, os2

LEMMA ChainedPop ==
  ASSUME NEW os \in Seq(Statement), Chained(os), os # <<>>
  PROVE  Chained(ButLast(os, 1))
<1> DEFINE os2 == ButLast(os, 1)
           N == Len(os)
<1>1. N \in Nat \ {0} /\ os2 = SubSeq(os, 1, N - 1) /\ N - 1 \in 0..N BY DEF ButLast
<1>2. DOMAIN os2 = 1..(N - 1) /\ DOMAIN os = 1..N /\ \A i \in 1..(N - 1) : os2[i] = os[i]
  BY <1>1, CutIs
<1> HIDE DEF os2, N
<1>3. \A i, k \in 1..(N - 1) : i <= k =>
        i \in 1..N /\ k \in 1..N /\ \A j \in (i + 1)..k : j \in 1..(N - 1)
  BY <1>1
<1>4. ASSUME NEW i \in DOMAIN os2, NEW k \in DOMAIN os2, i <= k
      PROVE  /\ os2[i].ctx.ow \subseteq os2[k].ctx.ow
             /\ (\A j \in (i + 1)..k : ~Crosses(os2[j])) => os2[k].ctx.ow = os2[i].ctx.ow
  <2>1. i \in 1..N /\ k \in 1..N /\ \A j \in (i + 1)..k : os2[j] = os[j] BY <1>2, <1>3, <1>4
  <2>2. os2[i] = os[i] /\ os2[k] = os[k] BY <1>2, <1>4
  <2>3. /\ os[i].ctx.ow \subseteq os[k].ctx.ow
        /\ (\A j \in (i + 1)..k : ~Crosses(os[j])) => os[k].ctx.ow = os[i].ctx.ow
    BY <1>2, <1>4, <2>1 DEF Chained
  <2> QED BY <2>1, <2>2, <2>3
<1> QED BY <1>4 DEF Chained, os2

(* Fair code in the middle of a statement.                                 *)
LEMMA TidyIs ==
  ASSUME Now, NEW D, Tidy(chunk, open, loopStack, D)
  PROVE  /\ Fair(chunk, Holes, D) /\ Chained(open) /\ D \subseteq DOMAIN chunk
         /\ \A i \in DOMAIN open : Keeping(chunk, D, open[i], Outer(open, i), loopStack[open[i].n + 1])
<1>1. Even(chunk, Holes, Ctx.ow, D, Len(chunk) + 1) BY NowIs DEF Tidy, Holes
<1>2. Fair(chunk, Holes, D) BY <1>1, RisesIs DEF Fair
<1> QED BY <1>1, <1>2 DEF Tidy, Even

LEMMA TidyStays ==
  ASSUME Now, NEW D, Tidy(chunk, open, loopStack, D), NEW c, NEW V, Fair(c, V, D), V \subseteq Holes
  PROVE  Tidy(c, open, loopStack, D)
<1>1. Rises(chunk, D, c, V, Innermost(open).ow, D, Len(c) + 1) BY NowIs DEF Fair
<1>2. V \subseteq HolesIn(open, loopStack) /\ Chained(open) BY TidyIs DEF Holes
<1>3. \A i \in DOMAIN open :
        /\ i \in DOMAIN open /\ open[i] = open[i] /\ Outer(open, i) = Outer(open, i)
        /\ IsLoop(open[i]) =>
             Longer(c, loopStack[open[i].n + 1], loopStack[open[i].n + 1], open[i].ctx.ow)
  BY LongerIs
<1> QED BY <1>1, <1>2, <1>3, TidyMade

(* A statement that begins. *)
LEMMA TidyOpens ==
  ASSUME Now, NEW D, Tidy(chunk, open, loopStack, D),
         NEW o \in Statement, o.n = Len(loopStack), Within(o, Ctx), NEW l \in LoopRecord,
         NEW c, NEW V, Rises(chunk, D, c, V, o.ctx.ow, D, Len(c) + 1),
         V \subseteq Holes \cup HolesOf(o), Keeping(c, D, o, Ctx, l)
  PROVE  Tidy(c, Append(open, o), IF IsLoop(o) THEN Append(loopStack, l) ELSE loopStack, D)
<1> DEFINE os2 == Append(open, o)
           lp2 == IF IsLoop(o) THEN Append(loopStack, l) ELSE loopStack
           N == Len(open)
<1>1. /\ open \in Seq(Statement) /\ locals \in Seq(Local) /\ scopeDepth \in Nat
      /\ loopStack \in Seq(LoopRecord) /\ Nesting(open, locals, scopeDepth, loopStack)
      /\ Ctx = Innermost(open)
  BY NowIs
<1>2. /\ IsLoop(o) => lp2[o.n + 1] = l
      /\ \A i \in DOMAIN open : IsLoop(open[i]) => lp2[open[i].n + 1] = loopStack[open[i].n + 1]
  <2>1. ASSUME NEW i \in DOMAIN open, IsLoop(open[i])
        PROVE  lp2[open[i].n + 1] = loopStack[open[i].n + 1]
    <3>1. open[i].n + 1 \in DOMAIN loopStack BY <1>1, <2>1, NestingIs
    <3>2. \A q \in DOMAIN loopStack : Append(loopStack, l)[q] = loopStack[q] BY <1>1
    <3> QED BY <3>1, <3>2
  <2>2. IsLoop(o) => Append(loopStack, l)[o.n + 1] = l BY <1>1, AppendIs
  <2> QED BY <2>1, <2>2
<1>3. /\ DOMAIN os2 = 1..(N + 1) /\ DOMAIN open = 1..N
      /\ N \in Nat /\ os2[N + 1] = o /\ os2 # <<>> /\ Len(os2) = N + 1
      /\ \A i \in 1..N : os2[i] = open[i] /\ i \in 1..(N + 1) /\ i # N + 1
  BY <1>1, AppendIs
<1>4. /\ HolesIn(open, loopStack) \subseteq HolesIn(os2, lp2) /\ HolesOf(o) \subseteq HolesIn(os2, lp2)
  BY <1>1, HolesPushed
<1>5. Keeping(c, D, o, Innermost(open), l) /\ Within(o, Innermost(open)) BY <1>1
<1>6. Chained(os2)
  <2>1. Chained(open) BY TidyIs
  <2>2. Innermost(open).ow \subseteq o.ctx.ow /\ (~Crosses(o) => o.ctx.ow = Innermost(open).ow)
    BY <1>5, KeepingOwes
  <2> QED BY <1>1, <2>1, <2>2, ChainedPush
<1>7. N = 0 <=> open = <<>> BY <1>1
<1> HIDE DEF os2, lp2, N
<1>8. /\ Innermost(os2) = o.ctx /\ Outer(os2, N + 1) = Innermost(open)
      /\ \A i \in 1..N : Outer(os2, i) = Outer(open, i)
  <2>1. Innermost(os2) = o.ctx BY <1>3 DEF Innermost, Last
  <2>2. Outer(os2, N + 1) = Innermost(open)
    <3>1. CASE N = 0
      <4>1. open = <<>> BY <1>7, <3>1
      <4> QED BY <3>1, <4>1 DEF Outer, Innermost
    <3>2. CASE N # 0
      <4>1. open # <<>> /\ N + 1 # 1 /\ N + 1 - 1 = N /\ N \in 1..N BY <1>3, <1>7, <3>2
      <4> QED BY <1>3, <4>1 DEF Outer, Innermost, Last, N
    <3> QED BY <3>1, <3>2
  <2>3. ASSUME NEW i \in 1..N PROVE Outer(os2, i) = Outer(open, i)
    <3>1. i # 1 => i - 1 \in 1..N BY <1>3
    <3> QED BY <1>3, <3>1 DEF Outer
  <2> QED BY <2>1, <2>2, <2>3
<1>9. /\ c \in Seq(Instruction) /\ Alike(c, c) /\ Len(c) <= Len(c) /\ Lasting(c, D, c, D) /\ D \subseteq D
  BY RisesAre, AlikeIs DEF Lasting
<1>10. ASSUME NEW i \in DOMAIN os2
       PROVE  \/ Keeping(c, D, os2[i], Outer(os2, i), lp2[os2[i].n + 1])
              \/ /\ i \in DOMAIN open /\ os2[i] = open[i] /\ Outer(os2, i) = Outer(open, i)
                 /\ IsLoop(open[i]) => Longer(c, loopStack[open[i].n + 1], lp2[open[i].n + 1], open[i].ctx.ow)
  <2>1. CASE i = N + 1
    <3> DEFINE l2 == lp2[o.n + 1]
               out == Innermost(open)
    <3>1. IsLoop(o) => Longer(c, l, l2, o.ctx.ow) BY <1>2, LongerIs
    <3>2. Keeping(c, D, o, out, l) BY <1>5
    <3> HIDE DEF l2, out
    <3>3. Keeping(c, D, o, out, l2) BY ONLY <1>9, <3>1, <3>2, KeepingKept
    <3> QED BY <1>3, <1>8, <2>1, <3>3 DEF l2, out
  <2>2. CASE i \in 1..N
    <3>1. i \in DOMAIN open /\ os2[i] = open[i] /\ Outer(os2, i) = Outer(open, i) BY <1>3, <1>8, <2>2
    <3>2. IsLoop(open[i]) => Longer(c, loopStack[open[i].n + 1], lp2[open[i].n + 1], open[i].ctx.ow)
      BY <1>2, <3>1, LongerIs
    <3> QED BY <3>1, <3>2
  <2> QED BY <1>3, <2>1, <2>2
<1>11. Tidy(c, os2, lp2, D)
  <2>1. Rises(chunk, D, c, V, Innermost(os2).ow, D, Len(c) + 1) BY <1>8
  <2>2. V \subseteq HolesIn(os2, lp2) BY <1>4 DEF Holes
  <2>3. Tidy(chunk, open, loopStack, D) OBVIOUS
  <2> QED BY ONLY <1>6, <1>10, <2>1, <2>2, <2>3, TidyMade
<1> QED BY <1>11 DEF os2, lp2

(* A statement that ends.                                                  *)
LEMMA TidyCloses ==
  ASSUME Now, open # <<>>, NEW D, Tidy(chunk, open, loopStack, D),
         NEW c, NEW V, NEW D2, Rises(chunk, D, c, V, Around.ow, D2, Len(c) + 1),
         V \subseteq Holes, V \cap HolesOf(Cur) = {},
         IsLoop(Cur) => V \cap (Last(loopStack).breaks \cup Last(loopStack).continues) = {}
  PROVE  Tidy(c, ButLast(open, 1), IF IsLoop(Cur) THEN ButLast(loopStack, 1) ELSE loopStack, D2)
<1> DEFINE o == Last(open)
           os2 == ButLast(open, 1)
           lp2 == SubSeq(loopStack, 1, o.n)
           N == Len(open)
<1>1. /\ open \in Seq(Statement) /\ locals \in Seq(Local) /\ scopeDepth \in Nat
      /\ loopStack \in Seq(LoopRecord) /\ Nesting(open, locals, scopeDepth, loopStack)
      /\ Contexts(open)
  BY NowIs
<1>2. o = Cur BY DEF Cur
<1>3. /\ \A i \in DOMAIN os2 : /\ os2[i] = open[i] /\ i \in DOMAIN open
                               /\ IsLoop(open[i]) => lp2[open[i].n + 1] = loopStack[open[i].n + 1]
      /\ lp2 = IF IsLoop(o) THEN ButLast(loopStack, 1) ELSE loopStack
      /\ os2 \in Seq(Statement)
  <2>1. open # <<>> OBVIOUS
  <2>2. o = Last(open) /\ os2 = ButLast(open, 1) /\ lp2 = SubSeq(loopStack, 1, o.n) OBVIOUS
  <2> HIDE DEF o, os2, lp2
  <2>3. \A i \in DOMAIN os2 : os2[i] = open[i] /\ i \in DOMAIN open
    BY ONLY <1>1, <2>1, <2>2, NestingPop
  <2>4. ASSUME NEW i \in DOMAIN os2, IsLoop(open[i])
        PROVE  lp2[open[i].n + 1] = loopStack[open[i].n + 1]
    <3>1. /\ N \in Nat \ {0} /\ DOMAIN open = 1..N /\ DOMAIN os2 = 1..(N - 1) /\ o = open[N]
          /\ o.n \in 0..Len(loopStack)
      BY <1>1, <2>1, <2>2, NestingPop DEF Last
    <3>2. i \in DOMAIN open /\ i < N /\ N \in DOMAIN open BY <3>1
    <3>3. open[i].n + 1 \in DOMAIN loopStack /\ o.n >= open[i].n + Beyond(open[i]) /\ open[i] \in Statement
      BY <1>1, <2>4, <3>1, <3>2, NestingIs
    <3>4. Beyond(open[i]) = 1 /\ open[i].n \in Nat /\ o.n \in Nat BY <2>4, <3>1, <3>3, ExtraIs DEF Beyond
    <3>5. open[i].n + 1 \in 1..o.n BY <3>3, <3>4
    <3> QED BY <1>1, <2>2, <3>1, <3>5, CutIs, SMTT(30)
  <2>5. lp2 = IF IsLoop(o) THEN ButLast(loopStack, 1) ELSE loopStack
    <3>1. IsLoop(o) => lp2 = ButLast(loopStack, 1) BY ONLY <1>1, <2>1, <2>2, NestingPop
    <3>2. ~IsLoop(o) => lp2 = loopStack BY ONLY <1>1, <2>1, <2>2, NestingPop
    <3> QED BY <3>1, <3>2
  <2>6. os2 \in Seq(Statement) BY ONLY <1>1, <2>1, <2>2, NestingPop
  <2> QED BY ONLY <2>3, <2>4, <2>5, <2>6
<1>4. /\ Innermost(os2) = Around /\ \A i \in DOMAIN os2 : Outer(os2, i) = Outer(open, i)
  BY <1>1, ContextsPop DEF Around
<1>5. HolesIn(open, loopStack) \subseteq HolesIn(os2, lp2) \cup HolesOf(o)
        \cup (IF IsLoop(o) THEN Last(loopStack).breaks \cup Last(loopStack).continues ELSE {})
  BY <1>1, HolesPopped
<1>6. Chained(os2) BY <1>1, TidyIs, ChainedPop
<1>7. /\ V \cap HolesOf(o) = {} /\ V \subseteq HolesIn(open, loopStack)
      /\ IsLoop(o) => V \cap (Last(loopStack).breaks \cup Last(loopStack).continues) = {}
  BY <1>2 DEF Holes
<1>8. Tidy(chunk, open, loopStack, D) /\ Rises(chunk, D, c, V, Around.ow, D2, Len(c) + 1) OBVIOUS
<1> HIDE DEF o, os2, lp2, N
<1>9. V \subseteq HolesIn(os2, lp2) BY <1>5, <1>7
<1>10. \A i \in DOMAIN os2 :
         /\ i \in DOMAIN open /\ os2[i] = open[i] /\ Outer(os2, i) = Outer(open, i)
         /\ IsLoop(open[i]) => Longer(c, loopStack[open[i].n + 1], lp2[open[i].n + 1], open[i].ctx.ow)
  BY <1>3, <1>4, LongerIs
<1>11. Rises(chunk, D, c, V, Innermost(os2).ow, D2, Len(c) + 1) BY <1>4, <1>8
<1>12. Tidy(c, os2, lp2, D2) BY ONLY <1>6, <1>8, <1>9, <1>10, <1>11, TidyMade
<1> QED BY <1>2, <1>3, <1>12 DEF os2

(* A statement that goes on.                                               *)
LEMMA TidyTurns ==
  ASSUME Now, open # <<>>, NEW D, Tidy(chunk, open, loopStack, D),
         NEW o2 \in Statement, o2.kind = Cur.kind, o2.n = Cur.n, Within(o2, Around),
         NEW c, NEW V, NEW D2, Rises(chunk, D, c, V, o2.ctx.ow, D2, Len(c) + 1),
         V \subseteq Holes \cup HolesOf(o2), \A p \in V : p \in HolesOf(Cur) => p \in HolesOf(o2),
         Keeping(c, D2, o2, Around, loopStack[o2.n + 1])
  PROVE  Tidy(c, SetLast(open, o2), loopStack, D2)
<1> DEFINE o == Last(open)
           os2 == SetLast(open, o2)
           N == Len(open)
           os1 == ButLast(open, 1)
           lp1 == SubSeq(loopStack, 1, o.n)
           lp == loopStack
<1>1. /\ open \in Seq(Statement) /\ locals \in Seq(Local) /\ scopeDepth \in Nat
      /\ lp \in Seq(LoopRecord) /\ Nesting(open, locals, scopeDepth, lp) /\ Contexts(open)
  BY NowIs
<1>2. o = Cur BY DEF Cur
<1>3. /\ DOMAIN os2 = DOMAIN open /\ DOMAIN open = 1..N
      /\ N \in Nat \ {0} /\ os2[N] = o2 /\ \A i \in 1..N : i # N => os2[i] = open[i]
      /\ os2 = Append(os1, o2) /\ os2 # <<>> /\ Len(os2) = N
  <2>1. open \in Seq(Statement) /\ open # <<>> /\ o2 \in Statement BY <1>1
  <2>2. os2 = SetLast(open, o2) /\ os1 = ButLast(open, 1) /\ N = Len(open) OBVIOUS
  <2> HIDE DEF o, os2, N, os1, lp1, lp
  <2>3. SetLast(open, o2) \in Seq(Statement) BY ONLY <2>1, SetLastIs
  <2>4. Len(SetLast(open, o2)) = Len(open) BY ONLY <2>1, SetLastIs
  <2>5. DOMAIN SetLast(open, o2) = DOMAIN open /\ DOMAIN open = 1..Len(open) /\ Len(open) \in Nat \ {0}
    BY ONLY <2>1, SetLastIs
  <2>6. SetLast(open, o2)[Len(open)] = o2 BY ONLY <2>1, SetLastIs
  <2>7. \A i \in DOMAIN open : i # Len(open) => SetLast(open, o2)[i] = open[i] BY ONLY <2>1, SetLastIs
  <2>8. SetLast(open, o2) = Append(ButLast(open, 1), o2) BY ONLY <2>1, SetLastIs
  <2> QED BY <2>2, <2>3, <2>4, <2>5, <2>6, <2>7, <2>8
<1>4. Innermost(os1) = Around BY <1>1, ContextsPop DEF Around
<1>5. /\ os1 \in Seq(Statement) /\ o \in Statement /\ lp1 \in Seq(LoopRecord)
      /\ IsLoop(o) => Last(lp) = lp[o.n + 1] /\ lp1 = ButLast(lp, 1) /\ lp # <<>> /\ Last(lp) \in LoopRecord
      /\ ~IsLoop(o) => lp1 = lp
  BY <1>1, NestingPop
<1>6. IsLoop(o) <=> IsLoop(o2) BY <1>2 DEF IsLoop
<1>7. Chained(os2)
  <2>1. Chained(os1) BY <1>1, TidyIs, ChainedPop
  <2>2. Innermost(os1).ow \subseteq o2.ctx.ow /\ (~Crosses(o2) => o2.ctx.ow = Innermost(os1).ow)
    BY <1>4, KeepingOwes
  <2>3. Chained(Append(os1, o2)) BY <1>5, <2>1, <2>2, ChainedPush
  <2> QED BY <1>3, <2>3
<1>8. HolesIn(open, lp) \subseteq HolesIn(os1, lp1) \cup HolesOf(o)
        \cup (IF IsLoop(o) THEN Last(lp).breaks \cup Last(lp).continues ELSE {})
  BY <1>1, HolesPopped
<1>9. /\ V \subseteq HolesIn(open, lp) \cup HolesOf(o2) /\ \A p \in V : p \in HolesOf(o) => p \in HolesOf(o2)
      /\ Rises(chunk, D, c, V, o2.ctx.ow, D2, Len(c) + 1)
      /\ Keeping(c, D2, o2, Around, lp[o2.n + 1])
      /\ Tidy(chunk, open, lp, D) /\ Around = Outer(open, N)
  BY <1>2 DEF Holes, Around
<1>10. \A p : o2.n = o.n BY <1>2
<1> HIDE DEF o, os2, N, os1, lp1, lp
<1>11. V \subseteq HolesIn(os2, lp)
  <2> DEFINE l == IF IsLoop(o2) THEN Last(lp) ELSE Loop(0, 0, FALSE, 0)
  <2>1. l \in LoopRecord BY <1>5, <1>6 DEF Loop, LoopRecord
  <2>2. lp = IF IsLoop(o2) THEN Append(lp1, l) ELSE lp1
    <3>1. CASE ~IsLoop(o2) BY <1>5, <1>6, <3>1
    <3>2. CASE IsLoop(o2)
      <4>1. lp # <<>> /\ lp1 = ButLast(lp, 1) /\ l = Last(lp) BY <1>5, <1>6, <3>2
      <4>2. lp = Append(ButLast(lp, 1), Last(lp)) BY <1>1, <4>1, LastKept
      <4> HIDE DEF l
      <4> QED BY <3>2, <4>1, <4>2
    <3> QED BY <3>1, <3>2
  <2>3. IsLoop(o2) => l = Last(lp) OBVIOUS
  <2> HIDE DEF l
  <2>4. /\ HolesIn(os1, lp1) \subseteq HolesIn(Append(os1, o2), IF IsLoop(o2) THEN Append(lp1, l) ELSE lp1)
        /\ HolesOf(o2) \subseteq HolesIn(Append(os1, o2), IF IsLoop(o2) THEN Append(lp1, l) ELSE lp1)
        /\ IsLoop(o2) => l.breaks \cup l.continues
             \subseteq HolesIn(Append(os1, o2), IF IsLoop(o2) THEN Append(lp1, l) ELSE lp1)
    BY <1>5, <2>1, HolesPushed
  <2>5. /\ HolesIn(os1, lp1) \subseteq HolesIn(os2, lp) /\ HolesOf(o2) \subseteq HolesIn(os2, lp)
        /\ IsLoop(o2) => Last(lp).breaks \cup Last(lp).continues \subseteq HolesIn(os2, lp)
    BY <1>3, <2>2, <2>3, <2>4
  <2> QED BY <1>6, <1>8, <1>9, <2>5
<1>12. Innermost(os2) = o2.ctx BY <1>3 DEF Innermost, Last
<1>13. ASSUME NEW i \in 1..N PROVE Outer(os2, i) = Outer(open, i)
  <2>1. i # 1 => i - 1 \in 1..N /\ i - 1 # N BY <1>3
  <2> QED BY <1>3, <2>1 DEF Outer
<1>14. ASSUME NEW i \in DOMAIN os2
       PROVE  \/ Keeping(c, D2, os2[i], Outer(os2, i), lp[os2[i].n + 1])
              \/ /\ i \in DOMAIN open /\ os2[i] = open[i] /\ Outer(os2, i) = Outer(open, i)
                 /\ IsLoop(open[i]) =>
                      Longer(c, lp[open[i].n + 1], lp[open[i].n + 1], open[i].ctx.ow)
  <2>1. CASE i = N
    <3>1. i \in 1..N BY <1>3
    <3>2. Outer(os2, N) = Around BY <1>9, <1>13, <2>1, <3>1
    <3> QED BY <1>3, <1>9, <2>1, <3>2
  <2>2. CASE i # N
    <3>1. i \in DOMAIN open /\ os2[i] = open[i] /\ Outer(os2, i) = Outer(open, i) BY <1>3, <1>13, <2>2
    <3> QED BY <3>1, LongerIs
  <2> QED BY <2>1, <2>2
<1>15. Rises(chunk, D, c, V, Innermost(os2).ow, D2, Len(c) + 1) BY <1>9, <1>12
<1>16. Tidy(chunk, open, lp, D) BY <1>9
<1>17. Tidy(c, os2, lp, D2) BY ONLY <1>7, <1>11, <1>14, <1>15, <1>16, TidyMade
<1> QED BY <1>17 DEF os2, lp

----------------------------------------------------------------------------
(* Simple statements.                                                      *)

(* In a context where an error may be raised the finally blocks are paid   *)
(* for.                                                                    *)
LEMMA PaysIs ==
  ASSUME Now, NEW ctx \in Context, ctx.hs = Ctx.hs \/ ctx.hs = ButLast(Ctx.hs, 1), PaysFinally(ctx),
         ctx.hs # <<>> => Top(ctx.hs) \in DOMAIN chunk
  PROVE  Solvent(chunk, ctx)
BY DEF PaysFinally, Solvent, Top, Last

LEMMA MayPay ==
  ASSUME Now, Careful, MayRaise
  PROVE  Solvent(chunk, Ctx)
<1>1. PaysFinally(Ctx) BY DEF MayRaise, Risky, Careful
<1>2. Ctx \in Context /\ Sound(chunk, MarkIn(Height, Ctx), Holes) BY NowIs DEF Made, Grown
<1>3. Named(chunk, Ctx.hs) BY <1>2 DEF Sound, MarkIn
<1>4. Ctx.hs # <<>> => Top(Ctx.hs) \in DOMAIN chunk BY <1>3 DEF Named
<1> QED BY <1>1, <1>2, <1>4, PaysIs

(* Instructions of the context.                                            *)
LEMMA NeatPlain ==
  ASSUME Now,
         NEW op \in {"CONSTANT", "GET_LOCAL", "SET_LOCAL", "POP", "POP2_PUSH", "DEFINE_VAR", "TRY_EXIT"},
         NEW x \in Nat, NEW y \in Nat, NEW h \in Nat
  PROVE  Neat(Ins(op, x, y, h))
<1>1. op \in Straight \ {"RETURN", "END_FINALLY"} /\ op \in Ops /\ op \notin Fallible /\ op # "CALL"
  BY KindsOfOp
<1>2. {} \in SUBSET ErrTypes OBVIOUS
<1>3. Neat(InsIn(Ctx, op, x, y, {}, h)) BY <1>1, <1>2, NeatIns
<1> QED BY <1>3 DEF Ins

LEMMA NeatRaise ==
  ASSUME Now, Solvent(chunk, Ctx), NEW op \in {"NATIVE", "SKIP_ITER", "THROW"},
         NEW x \in Nat, NEW y \in Nat, NEW ty \in SUBSET ErrTypes, NEW h \in Nat
  PROVE  Neat(InsIn(Ctx, op, x, y, ty, h))
<1>1. op \in Straight \ {"RETURN", "END_FINALLY"} /\ op \in Ops /\ op # "CALL" BY KindsOfOp
<1> QED BY <1>1, NeatIns

LEMMA FairOne ==
  ASSUME NEW c, NEW W, NEW D, Fair(c, W, D), NEW i, Neat(i)
  PROVE  Fair(Append(c, i), W, D) /\ Alike(c, Append(c, i)) /\ Len(Append(c, i)) = Len(c) + 1
<1>1. i \in Instruction BY DEF Neat
<1> DEFINE t == <<i>>
<1>2. t \in Seq(Instruction) /\ Len(t) = 1 BY <1>1
<1>3. \A k \in DOMAIN t : Neat(t[k]) OBVIOUS
<1>4. c \in Seq(Instruction) BY FairIs
<1>5. c \o t = Append(c, i) BY <1>1, <1>4
<1> HIDE DEF t
<1>6. Fair(c \o t, W, D) /\ Alike(c, c \o t) /\ Len(c \o t) = Len(c) + Len(t) BY <1>2, <1>3, FairTail
<1> QED BY <1>2, <1>5, <1>6

(* A statement that only adds code. *)
LEMMA TidyAdded ==
  ASSUME Now, NEW D, Tidy(chunk, open, loopStack, D), NEW c, Fair(c, Holes, D),
         chunk' = c, open' = open, loopStack' = loopStack
  PROVE  Tidy(chunk', open', loopStack', D)
<1>1. Tidy(c, open, loopStack, D) BY TidyStays
<1> QED BY <1>1

LEMMA LetTidy ==
  ASSUME Now, Careful, NEW D, Tidy(chunk, open, loopStack, D), Let
  PROVE  Tidy(chunk', open', loopStack', D)
<1>1. Fair(chunk, Holes, D) /\ Height \in Nat /\ Height + 1 \in Nat BY TidyIs, NowIs
<1>2. "let_without_value" \notin Risks BY DEF Careful
<1>3. /\ open' = open /\ loopStack' = loopStack
      /\ \/ chunk' = Append(chunk, Ins("CONSTANT", 0, 0, Height))
         \/ chunk' = chunk \o <<Ins("CONSTANT", 0, 0, Height), Ins("DEFINE_VAR", 0, 0, Height + 1)>>
  BY <1>2 DEF Let, Risky
<1>4. Neat(Ins("CONSTANT", 0, 0, Height)) /\ Neat(Ins("DEFINE_VAR", 0, 0, Height + 1))
  BY <1>1, NeatPlain
<1>5. Fair(chunk', Holes, D)
  <2>1. Fair(Append(chunk, Ins("CONSTANT", 0, 0, Height)), Holes, D) BY <1>1, <1>4, FairOne
  <2>2. Fair(chunk \o <<Ins("CONSTANT", 0, 0, Height), Ins("DEFINE_VAR", 0, 0, Height + 1)>>, Holes, D)
    BY <1>1, <1>4, FairTwo
  <2> QED BY <1>3, <2>1, <2>2
<1> QED BY <1>3, <1>5, TidyAdded

LEMMA UseTidy ==
  ASSUME Now, NEW D, Tidy(chunk, open, loopStack, D), Use
  PROVE  Tidy(chunk', open', loopStack', D)
<1>1. Fair(chunk, Holes, D) /\ Height \in Nat /\ Height + 1 \in Nat /\ locals \in Seq(Local)
  BY TidyIs, NowIs
<1>2. open' = open /\ loopStack' = loopStack BY DEF Use
<1>3. PICK i \in DOMAIN locals :
        chunk' = chunk \o <<Ins("GET_LOCAL", locals[i].d, i - 1, Height), Ins("POP", 0, 0, Height + 1)>>
  BY DEF Use
<1>4. locals[i].d \in Nat /\ i - 1 \in Nat
  <2>1. locals[i] \in Local /\ i \in 1..Len(locals) BY <1>1
  <2> QED BY <2>1 DEF Local
<1>5. Neat(Ins("GET_LOCAL", locals[i].d, i - 1, Height)) /\ Neat(Ins("POP", 0, 0, Height + 1))
  BY <1>1, <1>4, NeatPlain
<1>6. Fair(chunk', Holes, D) BY <1>1, <1>3, <1>5, FairTwo
<1> QED BY <1>2, <1>6, TidyAdded

LEMMA AssignTidy ==
  ASSUME Now, NEW D, Tidy(chunk, open, loopStack, D), Assign
  PROVE  Tidy(chunk', open', loopStack', D)
<1>1. Fair(chunk, Holes, D) /\ Height \in Nat /\ Height + 1 \in Nat /\ locals \in Seq(Local)
  BY TidyIs, NowIs
<1>2. open' = open /\ loopStack' = loopStack BY DEF Assign
<1>3. PICK i \in DOMAIN locals :
        chunk' = chunk \o <<Ins("CONSTANT", 0, 0, Height),
                            Ins("SET_LOCAL", locals[i].d, i - 1, Height + 1),
                            Ins("POP", 0, 0, Height + 1)>>
  BY DEF Assign
<1>4. locals[i].d \in Nat /\ i - 1 \in Nat
  <2>1. locals[i] \in Local /\ i \in 1..Len(locals) BY <1>1
  <2> QED BY <2>1 DEF Local
<1>5. /\ Neat(Ins("CONSTANT", 0, 0, Height)) /\ Neat(Ins("SET_LOCAL", locals[i].d, i - 1, Height + 1))
      /\ Neat(Ins("POP", 0, 0, Height + 1))
  BY <1>1, <1>4, NeatPlain
<1>6. Fair(chunk', Holes, D) BY <1>1, <1>3, <1>5, FairThree
<1> QED BY <1>2, <1>6, TidyAdded

LEMMA EvalTidy ==
  ASSUME Now, Careful, NEW D, Tidy(chunk, open, loopStack, D), Eval
  PROVE  Tidy(chunk', open', loopStack', D)
<1>1. Fair(chunk, Holes, D) /\ Height \in Nat /\ Height + 1 \in Nat BY TidyIs, NowIs
<1>2. /\ open' = open /\ loopStack' = loopStack /\ MayRaise
      /\ chunk' = chunk \o <<Ins("NATIVE", 0, 0, Height), Ins("POP", 0, 0, Height + 1)>>
  BY DEF Eval
<1>3. Solvent(chunk, Ctx) BY <1>2, MayPay
<1>4. Neat(Ins("NATIVE", 0, 0, Height)) BY <1>1, <1>3, NeatRaise DEF Ins
<1>5. Neat(Ins("POP", 0, 0, Height + 1)) BY <1>1, NeatPlain
<1>6. Fair(chunk', Holes, D) BY <1>1, <1>2, <1>4, <1>5, FairTwo
<1> QED BY <1>2, <1>6, TidyAdded

LEMMA CallTidy ==
  ASSUME Now, Careful, fn \in Nat, NEW D, Tidy(chunk, open, loopStack, D), CallStmt
  PROVE  Tidy(chunk', open', loopStack', D)
<1>1. Fair(chunk, Holes, D) /\ Height \in Nat /\ Height + 1 \in Nat BY TidyIs, NowIs
<1>2. /\ open' = open /\ loopStack' = loopStack /\ MayRaise /\ Ctx.ow = {}
  BY DEF CallStmt, Risky, Careful
<1>3. PICK f \in 1..fn \ {NumFuncs} :
        chunk' = chunk \o <<Ins("CONSTANT", 0, 0, Height), Ins("CALL", f, 0, Height + 1),
                            Ins("POP", 0, 0, Height + 1)>>
  BY DEF CallStmt
<1>4. Solvent(chunk, Ctx) /\ f \in Nat BY <1>2, MayPay
<1>5. Neat(Ins("CONSTANT", 0, 0, Height)) /\ Neat(Ins("POP", 0, 0, Height + 1)) BY <1>1, NeatPlain
<1>6. Neat(Ins("CALL", f, 0, Height + 1))
  <2>1. "CALL" \in Straight \ {"RETURN", "END_FINALLY"} /\ "CALL" \in Ops BY KindsOfOp
  <2>2. {} \in SUBSET ErrTypes OBVIOUS
  <2>3. Neat(InsIn(Ctx, "CALL", f, 0, {}, Height + 1)) BY <1>1, <1>2, <1>4, <2>1, <2>2, NeatIns
  <2> QED BY <2>3 DEF Ins
<1>7. Fair(chunk', Holes, D) BY <1>1, <1>3, <1>5, <1>6, FairThree
<1> QED BY <1>2, <1>7, TidyAdded

LEMMA ThrowTidy ==
  ASSUME Now, Accepted, Careful, NEW D, Tidy(chunk, open, loopStack, D), ThrowStmt
  PROVE  Tidy(chunk', open', loopStack', D)
<1>1. Fair(chunk, Holes, D) /\ Height \in Nat /\ Height + 1 \in Nat /\ Height + 2 \in Nat
  BY TidyIs, NowIs
<1>2. open' = open /\ loopStack' = loopStack /\ MayRaise BY DEF ThrowStmt
<1>3. PICK t \in ThrowTypes :
        chunk' = chunk \o <<Ins("CONSTANT", 0, 0, Height), Ins("CONSTANT", 0, 0, Height + 1),
                            InsIn(Ctx, "THROW", 0, 0, {t}, Height + 2)>>
  BY DEF ThrowStmt
<1>4. Solvent(chunk, Ctx) /\ {t} \in SUBSET ErrTypes BY <1>2, MayPay DEF Accepted
<1>5. Neat(Ins("CONSTANT", 0, 0, Height)) /\ Neat(Ins("CONSTANT", 0, 0, Height + 1)) BY <1>1, NeatPlain
<1>6. Neat(InsIn(Ctx, "THROW", 0, 0, {t}, Height + 2)) BY <1>1, <1>4, NeatRaise
<1>7. Fair(chunk', Holes, D) BY <1>1, <1>3, <1>5, <1>6, FairThree
<1> QED BY <1>2, <1>7, TidyAdded

LEMMA SkipTidy ==
  ASSUME Now, Careful, NEW D, Tidy(chunk, open, loopStack, D), Skip
  PROVE  Tidy(chunk', open', loopStack', D)
<1>1. Fair(chunk, Holes, D) /\ Height \in Nat /\ Height + 1 \in Nat BY TidyIs, NowIs
<1> DEFINE l == Last(loopStack)
           d == locals[l.iter + 1].d
<1>2. /\ open' = open /\ loopStack' = loopStack /\ MayRaise /\ loopStack # <<>> /\ l.each
      /\ chunk' = chunk \o <<Ins("CONSTANT", 0, 0, Height), Ins("SKIP_ITER", d, l.iter, Height + 1)>>
  BY DEF Skip
<1>3. Solvent(chunk, Ctx) BY <1>2, MayPay
<1>4. l.iter \in Nat /\ d \in Nat
  <2> DEFINE o == open[InnerLoop]
  <2>1. /\ o \in Statement /\ l \in LoopRecord /\ LoopOK(o, l, locals) /\ IsLoop(o)
        /\ l.count \in Nat /\ l.count <= Height /\ Height \in Nat
    BY <1>2, LoopHere
  <2>2. locals \in Seq(Local) /\ Height = Len(locals) BY NowIs
  <2>3. l.each BY <1>2
  <2>4. l.iter \in Nat BY <2>1 DEF LoopRecord
  <2> HIDE DEF l, o
  <2>5. o.kind = "foreach" /\ l.iter + 1 = l.count BY <2>1, <2>3 DEF LoopOK
  <2>6. l.iter + 1 \in DOMAIN locals BY <2>1, <2>2, <2>4, <2>5
  <2>7. locals[l.iter + 1] \in Local BY <2>2, <2>6
  <2> QED BY <2>4, <2>7 DEF Local
<1> HIDE DEF l, d
<1>5. Neat(Ins("CONSTANT", 0, 0, Height)) BY <1>1, NeatPlain
<1>6. Neat(Ins("SKIP_ITER", d, l.iter, Height + 1)) BY <1>1, <1>3, <1>4, NeatRaise DEF Ins
<1>7. Fair(chunk', Holes, D) BY <1>1, <1>2, <1>5, <1>6, FairTwo
<1> QED BY <1>2, <1>7, TidyAdded

----------------------------------------------------------------------------
(* Blocks outside try statements.                                          *)

(* What the open statements keep holds of the code that is added.          *)
LEMMA FairKeeps ==
  ASSUME NEW c, NEW W, NEW D, Fair(c, W, D), NEW T
  PROVE  /\ \A p : Hang(chunk, T, p) => Hang(c, T, p)
         /\ \A q : Anchor(chunk, D, q, T) => Anchor(c, D, q, T)
<1>1. /\ c \in Seq(Instruction) /\ chunk \in Seq(Instruction) /\ Len(chunk) <= Len(c)
      /\ Alike(chunk, c) /\ Lasting(chunk, D, c, D)
  BY FairIs
<1>2. ASSUME NEW p, Hang(chunk, T, p) PROVE Hang(c, T, p) BY <1>1, <1>2, HangOn
<1>3. ASSUME NEW q, Anchor(chunk, D, q, T) PROVE Anchor(c, D, q, T) BY <1>1, <1>3, AnchorOn
<1> QED BY <1>2, <1>3

(* The pops of a scope that ends.                                          *)
LEMMA FairEnd ==
  ASSUME Now, NEW c, NEW W, NEW D, Fair(c, W, D),
         NEW ls \in Seq(Local), NEW d \in Int, NEW m \in Nat, Split(ls, d, m)
  PROVE  /\ Fair(c \o EndScopeCode(ls, d), W, D) /\ Alike(c, c \o EndScopeCode(ls, d))
         /\ Len(c \o EndScopeCode(ls, d)) = Len(c) + Len(ls) - m
<1>1. Kept(ls, d) = SubSeq(ls, 1, m) BY KeptIs
<1>2. m <= Len(ls) /\ Len(ls) \in Nat BY DEF Split
<1>3. Len(SubSeq(ls, 1, m)) = m BY <1>2, CutIs
<1> DEFINE n == Len(ls) - m
<1>4. EndScopeCode(ls, d) = Pops(n, Len(ls)) BY <1>1, <1>3 DEF EndScopeCode
<1>5. n \in Nat /\ n <= Len(ls) BY <1>2
<1> HIDE DEF n
<1>6. /\ Fair(c \o Pops(n, Len(ls)), W, D) /\ Alike(c, c \o Pops(n, Len(ls)))
      /\ Len(c \o Pops(n, Len(ls))) = Len(c) + n
  BY <1>2, <1>5, FairPops
<1>7. Len(c) \in Nat BY FairIs
<1> QED BY <1>2, <1>4, <1>6, <1>7 DEF n

LEMMA FairBlockEnd ==
  ASSUME Now, NEW D, Tidy(chunk, open, loopStack, D),
         NEW m \in Nat, Split(locals, scopeDepth - 1, m)
  PROVE  /\ Fair(BlockEnd, Holes, D) /\ Alike(chunk, BlockEnd) /\ Len(BlockEnd) >= Len(chunk)
         /\ Len(BlockEnd) \in Nat
<1>1. Fair(chunk, Holes, D) /\ locals \in Seq(Local) /\ scopeDepth - 1 \in Int BY TidyIs, NowIs
<1>2. /\ Fair(BlockEnd, Holes, D) /\ Alike(chunk, BlockEnd)
  BY <1>1, FairEnd DEF BlockEnd
<1>3. Len(chunk) <= Len(BlockEnd) /\ Len(BlockEnd) \in Nat /\ Len(chunk) \in Nat BY <1>2, FairIs
<1> QED BY <1>2, <1>3

(* What the current statement keeps, outside try statements.               *)
LEMMA KeptHere ==
  ASSUME Now, open # <<>>, Cur.kind # "try", NEW D, Tidy(chunk, open, loopStack, D)
  PROVE  /\ \A p \in HolesOf(Cur) : Hang(chunk, Ctx.ow, p)
         /\ IsLoop(Cur) =>
              /\ Anchor(chunk, D, Cur.a, Ctx.ow)
              /\ \A p \in Last(loopStack).breaks \cup Last(loopStack).continues : Hang(chunk, Ctx.ow, p)
<1>1. Cur = open[Len(open)] /\ Len(open) \in DOMAIN open /\ Cur.ctx = Ctx BY CurIs
<1>2. Keeping(chunk, D, Cur, Outer(open, Len(open)), loopStack[Cur.n + 1]) BY <1>1, TidyIs
<1>3. IsLoop(Cur) => Last(loopStack) = loopStack[Cur.n + 1] BY CurLoopIs
<1> QED BY <1>1, <1>2, <1>3 DEF Keeping

LEMMA FairCloses ==
  ASSUME Now, open # <<>>, Cur.kind # "try", NEW D, Tidy(chunk, open, loopStack, D),
         NEW c, NEW V, Fair(c, V, D), V \subseteq Holes, V \cap HolesOf(Cur) = {},
         IsLoop(Cur) => V \cap (Last(loopStack).breaks \cup Last(loopStack).continues) = {},
         chunk' = c, open' = ButLast(open, 1),
         loopStack' = IF IsLoop(Cur) THEN ButLast(loopStack, 1) ELSE loopStack
  PROVE  Tidy(chunk', open', loopStack', D)
<1>1. Ctx = Around BY CurIs
<1>2. Rises(chunk, D, c, V, Around.ow, D, Len(c) + 1) BY <1>1 DEF Fair
<1>3. Tidy(c, ButLast(open, 1), IF IsLoop(Cur) THEN ButLast(loopStack, 1) ELSE loopStack, D)
  BY <1>2, TidyCloses
<1> QED BY <1>3

LEMMA FairTurns ==
  ASSUME Now, open # <<>>, Cur.kind # "try", NEW D, Tidy(chunk, open, loopStack, D),
         NEW o2 \in Statement, o2.kind = Cur.kind, o2.n = Cur.n, o2.a = Cur.a, o2.ctx = Ctx,
         NEW c, NEW V, Fair(c, V, D),
         V \subseteq Holes \cup HolesOf(o2), \A p \in V : p \in HolesOf(Cur) => p \in HolesOf(o2),
         \A p \in HolesOf(o2) : Hang(c, Ctx.ow, p),
         chunk' = c, open' = SetLast(open, o2), loopStack' = loopStack
  PROVE  Tidy(chunk', open', loopStack', D)
<1>1. Ctx = Around /\ o2.kind # "try" BY CurIs
<1>2. Rises(chunk, D, c, V, o2.ctx.ow, D, Len(c) + 1) BY DEF Fair
<1>3. Within(o2, Around) BY <1>1 DEF Within
<1>4. IsLoop(o2) <=> IsLoop(Cur) BY DEF IsLoop
<1>5. ASSUME IsLoop(o2)
      PROVE  /\ Anchor(c, D, o2.a, o2.ctx.ow)
             /\ LET l == loopStack[o2.n + 1] IN \A p \in l.breaks \cup l.continues : Hang(c, o2.ctx.ow, p)
  <2>1. /\ Anchor(chunk, D, Cur.a, Ctx.ow)
        /\ \A p \in Last(loopStack).breaks \cup Last(loopStack).continues : Hang(chunk, Ctx.ow, p)
    BY <1>4, <1>5, KeptHere
  <2>2. Last(loopStack) = loopStack[Cur.n + 1] BY <1>4, <1>5, CurLoopIs
  <2> QED BY <2>1, <2>2, FairKeeps
<1>6. ~Owes(o2) BY <1>1 DEF Owes
<1>7. o2.ctx.ow = Around.ow BY <1>1
<1>8. Keeping(c, D, o2, Around, loopStack[o2.n + 1])
  BY <1>1, <1>5, <1>6, <1>7 DEF Keeping
<1>9. Tidy(c, SetLast(open, o2), loopStack, D) BY <1>2, <1>3, <1>8, TidyTurns
<1> QED BY <1>9

LEMMA FairOpens ==
  ASSUME Now, NEW D, Tidy(chunk, open, loopStack, D),
         NEW kind, NEW arm, NEW a, NEW b, NEW j, NEW o, Fresh(o, kind, arm, a, b, j), kind # "try",
         NEW l \in LoopRecord, l.breaks = {}, l.continues = {},
         NEW c, NEW V, Fair(c, V, D), V \subseteq Holes \cup HolesOf(o),
         \A p \in HolesOf(o) : Hang(c, Ctx.ow, p), IsLoop(o) => Anchor(c, D, a, Ctx.ow),
         chunk' = c, open' = Append(open, o),
         loopStack' = IF IsLoop(o) THEN Append(loopStack, l) ELSE loopStack
  PROVE  Tidy(chunk', open', loopStack', D)
<1>1. /\ o \in Statement /\ o.kind # "try" /\ o.ctx = Ctx /\ o.a = a /\ o.n = Len(loopStack)
  BY DEF Fresh
<1>2. Rises(chunk, D, c, V, o.ctx.ow, D, Len(c) + 1) BY <1>1 DEF Fair
<1>3. Within(o, Ctx) BY <1>1 DEF Within
<1>4. ~Owes(o) BY <1>1 DEF Owes
<1>5. Keeping(c, D, o, Ctx, l) BY <1>1, <1>4 DEF Keeping
<1>6. Tidy(c, Append(open, o), IF IsLoop(o) THEN Append(loopStack, l) ELSE loopStack, D)
  BY <1>1, <1>2, <1>3, <1>5, TidyOpens
<1> QED BY <1>6

(* One instruction of the context more.                                    *)
LEMMA FairPlain ==
  ASSUME Now, NEW c, NEW W, NEW D, Fair(c, W, D),
         NEW op \in {"CONSTANT", "GET_LOCAL", "SET_LOCAL", "POP", "POP2_PUSH", "DEFINE_VAR", "TRY_EXIT"},
         NEW x \in Nat, NEW y \in Nat, NEW h \in Nat
  PROVE  LET c2 == Append(c, Ins(op, x, y, h)) IN
         Fair(c2, W, D) /\ Alike(c, c2) /\ Len(c2) = Len(c) + 1
<1>1. Neat(Ins(op, x, y, h)) BY NeatPlain
<1> QED BY <1>1, FairOne

(* A jump that is left to patch.                                           *)
LEMMA FairJump ==
  ASSUME Now, NEW c, NEW W, NEW D, Fair(c, W, D), NEW x \in Nat, NEW h \in Nat
  PROVE  LET c2 == Append(c, Ins("JUMP", x, 0, h)) IN
         /\ Fair(c2, W \cup {Len(c) + 1}, D) /\ Alike(c, c2) /\ Len(c2) = Len(c) + 1
         /\ Hang(c2, Ctx.ow, Len(c) + 1)
<1>1. "JUMP" \in Branches /\ "JUMP" \notin {"JUMP_IF_NOT_LT", "FOR_ITER"} BY KindsOfOp
<1> QED BY <1>1, FairHole DEF Ins

----------------------------------------------------------------------------
(* if, elif and else.                                                      *)

LEMMA IfOpenTidy ==
  ASSUME Now, NEW D, Tidy(chunk, open, loopStack, D), IfOpen
  PROVE  Tidy(chunk', open', loopStack', D)
<1> DEFINE c == chunk \o Condition(Height)
           j == Len(chunk) + 2
           o == Activation("if", "then", 0, 0, j)
           l == Loop(0, 0, FALSE, 0)
<1>1. Fair(chunk, Holes, D) /\ Height \in Nat /\ Len(chunk) \in Nat BY TidyIs, NowIs
<1>2. chunk' = c /\ open' = Append(open, o) /\ loopStack' = loopStack BY DEF IfOpen
<1>3. Fair(c, Holes \cup {j}, D) /\ Hang(c, Ctx.ow, j) BY <1>1, FairCondition
<1>4. Fresh(o, "if", "then", 0, 0, j)
  <2>1. "if" \in Kinded /\ "then" \in Armed /\ j \in Nat BY <1>1 DEF Kinded, Armed
  <2> QED BY <2>1, ActivationIs
<1>5. l \in LoopRecord /\ l.breaks = {} /\ l.continues = {} BY DEF Loop, LoopRecord
<1> HIDE DEF c, j, o, l
<1>6. o.kind = "if" /\ o.arm = "then" /\ o.jumps = {} /\ o.j = j BY <1>4 DEF Fresh
<1>7. HolesOf(o) = {j} /\ ~IsLoop(o) BY <1>6, HolesOfIs DEF IsLoop, LoopKinds
<1>8. loopStack' = IF IsLoop(o) THEN Append(loopStack, l) ELSE loopStack BY <1>2, <1>7
<1> QED BY <1>2, <1>3, <1>4, <1>5, <1>7, <1>8, FairOpens

(* The code up to the next arm.                                            *)
LEMMA FairNextArm ==
  ASSUME Now, NEW D, Tidy(chunk, open, loopStack, D), Inside("if", "then")
  PROVE  /\ Fair(NextArm, (Holes \cup {Len(ArmEnd)}) \ {Cur.j}, D)
         /\ \A p \in ArmExits : Hang(NextArm, Ctx.ow, p)
         /\ Len(NextArm) \in Nat /\ ArmExits \in SUBSET Nat
<1>1. /\ open # <<>> /\ Cur.kind = "if" /\ Cur.arm = "then" /\ Cur.h \in Nat
      /\ Split(locals, scopeDepth - 1, Cur.h) /\ EndHeight = Cur.h
  BY IfIs
<1>2. HolesOf(Cur) = Cur.jumps \cup {Cur.j} /\ Cur.kind # "try" BY <1>1, HolesOfIs
<1>3. Fair(BlockEnd, Holes, D) /\ Len(BlockEnd) \in Nat /\ EndHeight \in Nat /\ EndHeight + 1 \in Nat
  BY <1>1, FairBlockEnd
<1>4. \A p \in Cur.jumps \cup {Cur.j} : Hang(BlockEnd, Ctx.ow, p) BY <1>1, <1>2, <1>3, KeptHere, FairKeeps
<1> DEFINE e == Len(ArmEnd)
           T == Ctx.ow
           patched == Patch(ArmEnd, {Cur.j})
<1>5. Fair(ArmEnd, Holes \cup {e}, D) /\ Alike(BlockEnd, ArmEnd) /\ Hang(ArmEnd, T, e)
  <2>1. 0 \in Nat /\ ArmEnd = Append(BlockEnd, Ins("JUMP", 0, 0, EndHeight)) BY DEF ArmEnd
  <2>2. /\ Fair(ArmEnd, Holes \cup {Len(BlockEnd) + 1}, D) /\ Alike(BlockEnd, ArmEnd)
        /\ e = Len(BlockEnd) + 1 /\ Hang(ArmEnd, T, Len(BlockEnd) + 1)
    BY <1>3, <2>1, FairJump
  <2> QED BY <2>2
<1>6. /\ BlockEnd \in Seq(Instruction) /\ ArmEnd \in Seq(Instruction) /\ e \in Nat BY <1>3, <1>5, FairIs
<1>7. \A p \in ArmExits \cup {Cur.j} : Hang(ArmEnd, T, p)
  <2>1. \A p \in Cur.jumps \cup {Cur.j} : Hang(ArmEnd, T, p) BY <1>4, <1>5, <1>6, HangOn
  <2> QED BY <1>5, <2>1 DEF ArmExits
<1> HIDE DEF e
<1>8. /\ Fair(patched, (Holes \cup {e}) \ {Cur.j}, D) /\ Alike(ArmEnd, patched)
  <2>1. \A p \in {Cur.j} : Hang(ArmEnd, Ctx.ow, p) BY <1>7
  <2> QED BY <1>5, <2>1, FairPatch
<1>9. /\ Fair(NextArm, (Holes \cup {e}) \ {Cur.j}, D) /\ Alike(patched, NextArm)
  <2>1. NextArm = Append(patched, Ins("POP", 0, 0, EndHeight + 1)) BY DEF NextArm
  <2> HIDE DEF patched
  <2> QED BY <1>3, <1>8, <2>1, FairPlain
<1>10. patched \in Seq(Instruction) /\ NextArm \in Seq(Instruction) /\ Len(NextArm) \in Nat
  BY <1>8, <1>9, FairIs
<1>11. Alike(ArmEnd, NextArm) BY <1>8, <1>9, AlikeOn
<1>12. \A p \in ArmExits : Hang(NextArm, T, p) BY <1>6, <1>7, <1>10, <1>11, HangOn
<1>13. ArmExits \in SUBSET Nat
  <2>1. Cur.jumps \in SUBSET Nat BY <1>1, CurIs, ExtraIs
  <2> QED BY <1>6, <2>1 DEF ArmExits, e
<1> QED BY <1>9, <1>10, <1>12, <1>13 DEF e

LEMMA ElifTidy ==
  ASSUME Now, NEW D, Tidy(chunk, open, loopStack, D), Elif
  PROVE  Tidy(chunk', open', loopStack', D)
<1> DEFINE j == Len(NextArm) + 2
           c == NextArm \o Condition(EndHeight)
           o2 == [Cur EXCEPT !.jumps = ArmExits, !.j = j]
           W == (Holes \cup {Len(ArmEnd)}) \ {Cur.j}
<1>1. Inside("if", "then") /\ chunk' = c /\ open' = SetLast(open, o2) /\ loopStack' = loopStack
  BY DEF Elif
<1>2. /\ open # <<>> /\ Cur.kind = "if" /\ Cur.arm = "then" /\ Cur \in Statement /\ Cur.h \in Nat
      /\ EndHeight = Cur.h
  BY <1>1, IfIs
<1>3. Cur.ctx = Ctx BY <1>2, CurIs
<1>4. /\ Fair(NextArm, W, D) /\ \A p \in ArmExits : Hang(NextArm, Ctx.ow, p)
      /\ Len(NextArm) \in Nat /\ ArmExits \in SUBSET Nat
  BY <1>1, FairNextArm
<1>5. /\ Fair(c, W \cup {j}, D) /\ Alike(NextArm, c) /\ Hang(c, Ctx.ow, j) BY <1>2, <1>4, FairCondition
<1>6. NextArm \in Seq(Instruction) /\ c \in Seq(Instruction) BY <1>4, <1>5, FairIs
<1>7. j \in Nat BY <1>4
<1>8. /\ o2 \in Statement /\ o2.kind = Cur.kind /\ o2.n = Cur.n /\ o2.a = Cur.a /\ o2.ctx = Ctx
      /\ o2.arm = "then" /\ o2.jumps = ArmExits /\ o2.j = j
  BY <1>2, <1>3, <1>4, <1>7 DEF Statement
<1> HIDE DEF c, j, o2
<1>9. HolesOf(o2) = ArmExits \cup {j} /\ HolesOf(Cur) = Cur.jumps \cup {Cur.j} /\ Cur.kind # "try"
  BY <1>2, <1>8, HolesOfIs
<1>10. \A p \in HolesOf(o2) : Hang(c, Ctx.ow, p) BY <1>4, <1>5, <1>6, <1>9, HangOn
<1>11. /\ W \cup {j} \subseteq Holes \cup HolesOf(o2)
       /\ \A p \in W \cup {j} : p \in HolesOf(Cur) => p \in HolesOf(o2)
  BY <1>9 DEF ArmExits
<1> HIDE DEF W
<1> QED BY <1>1, <1>2, <1>5, <1>8, <1>9, <1>10, <1>11, FairTurns

LEMMA ElseTidy ==
  ASSUME Now, NEW D, Tidy(chunk, open, loopStack, D), Else
  PROVE  Tidy(chunk', open', loopStack', D)
<1> DEFINE o2 == [Cur EXCEPT !.jumps = ArmExits, !.arm = "else"]
           W == (Holes \cup {Len(ArmEnd)}) \ {Cur.j}
<1>1. Inside("if", "then") /\ chunk' = NextArm /\ open' = SetLast(open, o2) /\ loopStack' = loopStack
  BY DEF Else
<1>2. /\ open # <<>> /\ Cur.kind = "if" /\ Cur.arm = "then" /\ Cur \in Statement BY <1>1, IfIs
<1>3. Cur.ctx = Ctx BY <1>2, CurIs
<1>4. /\ Fair(NextArm, W, D) /\ \A p \in ArmExits : Hang(NextArm, Ctx.ow, p) /\ ArmExits \in SUBSET Nat
  BY <1>1, FairNextArm
<1>8. /\ o2 \in Statement /\ o2.kind = Cur.kind /\ o2.n = Cur.n /\ o2.a = Cur.a /\ o2.ctx = Ctx
      /\ o2.arm = "else" /\ o2.jumps = ArmExits
  BY <1>2, <1>3, <1>4 DEF Statement
<1> HIDE DEF o2
<1>9. HolesOf(o2) = ArmExits /\ HolesOf(Cur) = Cur.jumps \cup {Cur.j} /\ Cur.kind # "try"
  BY <1>2, <1>8, HolesOfIs
<1>11. /\ W \subseteq Holes \cup HolesOf(o2) /\ \A p \in W : p \in HolesOf(Cur) => p \in HolesOf(o2)
  BY <1>9 DEF ArmExits
<1> HIDE DEF W
<1> QED BY <1>1, <1>2, <1>4, <1>8, <1>9, <1>11, FairTurns

LEMMA IfCloseTidy ==
  ASSUME Now, NEW D, Tidy(chunk, open, loopStack, D), IfClose
  PROVE  Tidy(chunk', open', loopStack', D)
<1>0. \/ Inside("if", "then") /\ chunk' = Patch(NextArm, ArmExits)
      \/ Inside("if", "else") /\ chunk' = Patch(BlockEnd, Cur.jumps)
  BY DEF IfClose
<1>1. PICK arm \in {"then", "else"} : Inside("if", arm) BY <1>0
<1>2. /\ open # <<>> /\ Cur.kind = "if" /\ Cur.arm = arm /\ ~IsLoop(Cur) /\ Cur.kind # "try"
      /\ Cur.h \in Nat /\ Split(locals, scopeDepth - 1, Cur.h)
  BY <1>1, IfIs
<1>3. open' = ButLast(open, 1) /\ loopStack' = IF IsLoop(Cur) THEN ButLast(loopStack, 1) ELSE loopStack
  BY <1>2 DEF IfClose, Close
<1>4. ASSUME NEW c, c = chunk', NEW V, Fair(c, V, D), V \subseteq Holes, V \cap HolesOf(Cur) = {}
      PROVE  Tidy(chunk', open', loopStack', D)
  BY <1>2, <1>3, <1>4, FairCloses
<1>5. CASE Inside("if", "then") /\ chunk' = Patch(NextArm, ArmExits)
  <2> DEFINE W == (Holes \cup {Len(ArmEnd)}) \ {Cur.j}
             c == Patch(NextArm, ArmExits)
  <2>1. Fair(NextArm, W, D) /\ \A p \in ArmExits : Hang(NextArm, Ctx.ow, p) BY <1>5, FairNextArm
  <2>2. Cur.arm = "then" BY <1>5, IfIs
  <2>3. HolesOf(Cur) = Cur.jumps \cup {Cur.j} BY <1>2, <2>2, HolesOfIs
  <2>4. W \ ArmExits \subseteq Holes /\ (W \ ArmExits) \cap HolesOf(Cur) = {} BY <2>3 DEF ArmExits
  <2> HIDE DEF W
  <2>5. Fair(c, W \ ArmExits, D) BY <2>1, FairPatch
  <2> HIDE DEF c
  <2> QED BY <1>4, <1>5, <2>4, <2>5 DEF c
<1>6. CASE Inside("if", "else") /\ chunk' = Patch(BlockEnd, Cur.jumps)
  <2> DEFINE c == Patch(BlockEnd, Cur.jumps)
  <2>1. Cur.arm # "then" BY <1>6, IfIs
  <2>2. HolesOf(Cur) = Cur.jumps BY <1>2, <2>1, HolesOfIs
  <2>3. Fair(BlockEnd, Holes, D) BY <1>2, FairBlockEnd
  <2>4. \A p \in Cur.jumps : Hang(BlockEnd, Ctx.ow, p) BY <1>2, <2>2, <2>3, KeptHere, FairKeeps
  <2>5. Fair(c, Holes \ Cur.jumps, D) BY <2>3, <2>4, FairPatch
  <2>6. Holes \ Cur.jumps \subseteq Holes /\ (Holes \ Cur.jumps) \cap HolesOf(Cur) = {} BY <2>2
  <2> HIDE DEF c
  <2> QED BY <1>4, <1>6, <2>5, <2>6 DEF c
<1> QED BY <1>0, <1>5, <1>6

----------------------------------------------------------------------------
(* while and do-while.                                                     *)

(* The next instruction is a place to come back to.                        *)
LEMMA HereAnchor ==
  ASSUME NEW c, NEW W, NEW D, Fair(c, W, D)
  PROVE  Anchor(c, D, Len(c) + 1, Ctx.ow)
<1>1. Even(c, W, Ctx.ow, D, Len(c) + 1) /\ Len(c) \in Nat BY FairIs
<1>2. Ordinary(c, Len(c) + 1) /\ Len(c) + 1 \notin D /\ \A e \in Ctx.ow : e < Len(c) + 1
  BY <1>1, HereOrdinary
<1> QED BY <1>1, <1>2 DEF Anchor

LEMMA WhileOpenTidy ==
  ASSUME Now, Careful, NEW D, Tidy(chunk, open, loopStack, D), WhileOpen
  PROVE  Tidy(chunk', open', loopStack', D)
<1> DEFINE start == Len(chunk) + 1
           l == Loop(start, Height, FALSE, 0)
<1>1. /\ Fair(chunk, Holes, D) /\ Height \in Nat /\ Len(chunk) \in Nat /\ locals \in Seq(Local)
  BY TidyIs, NowIs
<1>2. start \in Nat /\ start + 1 \in Nat /\ Anchor(chunk, D, start, Ctx.ow) BY <1>1, HereAnchor
<1>3. l \in LoopRecord /\ l.breaks = {} /\ l.continues = {} BY <1>1, <1>2 DEF Loop, LoopRecord
<1>4. loopStack' = Append(loopStack, l) BY DEF WhileOpen, Here
<1>5. \/ /\ chunk' = chunk \o Condition(Height)
         /\ open' = Append(open, Activation("while", "cond", start, 0, start + 1))
      \/ /\ MayRaise
         /\ \E i \in DOMAIN locals : chunk' = Append(chunk, Ins("JUMP_IF_NOT_LT", 0, i - 1, Height))
         /\ open' = Append(open, Activation("while", "lt", start, 0, start))
  BY DEF WhileOpen, Here
<1> HIDE DEF l, start
<1>6. ASSUME NEW c, c = chunk', NEW arm \in {"cond", "lt"}, NEW j \in Nat,
             open' = Append(open, Activation("while", arm, start, 0, j)),
             Fair(c, Holes \cup {j}, D), Hang(c, Ctx.ow, j)
      PROVE  Tidy(chunk', open', loopStack', D)
  <2> DEFINE o == Activation("while", arm, start, 0, j)
  <2>1. "while" \in Kinded /\ arm \in Armed BY DEF Kinded, Armed, LoopKinds
  <2>2. Fresh(o, "while", arm, start, 0, j) BY <1>2, <2>1, ActivationIs
  <2> HIDE DEF o
  <2>3. o.kind = "while" /\ o.j = j BY <2>2 DEF Fresh
  <2>4. HolesOf(o) = {j} /\ IsLoop(o) BY <2>3, HolesOfIs DEF IsLoop, LoopKinds
  <2>5. Anchor(c, D, start, Ctx.ow) BY <1>2, <1>6, FairKeeps
  <2>6. loopStack' = IF IsLoop(o) THEN Append(loopStack, l) ELSE loopStack BY <1>4, <2>4
  <2>7. open' = Append(open, o) BY <1>6 DEF o
  <2> QED BY <1>3, <1>6, <2>2, <2>4, <2>5, <2>6, <2>7, FairOpens
<1>7. CASE /\ chunk' = chunk \o Condition(Height)
           /\ open' = Append(open, Activation("while", "cond", start, 0, start + 1))
  <2> DEFINE c == chunk \o Condition(Height)
  <2>1. Fair(c, Holes \cup {Len(chunk) + 2}, D) /\ Hang(c, Ctx.ow, Len(chunk) + 2)
    BY <1>1, FairCondition
  <2>2. start + 1 = Len(chunk) + 2 BY <1>1 DEF start
  <2> HIDE DEF c
  <2> QED BY <1>2, <1>6, <1>7, <2>1, <2>2 DEF c
<1>8. CASE /\ MayRaise
           /\ \E i \in DOMAIN locals : chunk' = Append(chunk, Ins("JUMP_IF_NOT_LT", 0, i - 1, Height))
           /\ open' = Append(open, Activation("while", "lt", start, 0, start))
  <2>1. PICK i \in DOMAIN locals : chunk' = Append(chunk, Ins("JUMP_IF_NOT_LT", 0, i - 1, Height))
    BY <1>8
  <2>2. i - 1 \in Nat BY <1>1
  <2>3. Solvent(chunk, Ctx) BY <1>8, MayPay
  <2> DEFINE c == Append(chunk, Ins("JUMP_IF_NOT_LT", 0, i - 1, Height))
  <2>4. Fair(c, Holes \cup {Len(chunk) + 1}, D) /\ Hang(c, Ctx.ow, Len(chunk) + 1)
    BY <1>1, <2>2, <2>3, FairHole, KindsOfOp DEF Ins
  <2> HIDE DEF c
  <2> QED BY <1>2, <1>6, <1>8, <2>1, <2>4 DEF c, start
<1> QED BY <1>5, <1>7, <1>8

(* The jumps that wait do so in the code that is added.                    *)
LEMMA HangAll ==
  ASSUME NEW c, NEW W, NEW D, Fair(c, W, D), NEW c2, NEW W2, Fair(c2, W2, D), Alike(c, c2),
         NEW A, \A p \in A : Hang(c, Ctx.ow, p)
  PROVE  \A p \in A : Hang(c2, Ctx.ow, p)
<1>1. c \in Seq(Instruction) /\ c2 \in Seq(Instruction) BY FairIs
<1> QED BY <1>1, HangOn

LEMMA AnchorAll ==
  ASSUME NEW c, NEW W, NEW D, Fair(c, W, D), NEW q, Anchor(chunk, D, q, Ctx.ow)
  PROVE  Anchor(c, D, q, Ctx.ow)
BY FairKeeps

(* A loop of which the block has ended.                                    *)
LEMMA FairLoop ==
  ASSUME Now, NEW D, Tidy(chunk, open, loopStack, D), NEW kind \in LoopKinds, NEW arm, Inside(kind, arm)
  PROVE  LET l == Last(loopStack) IN
         /\ Cur.kind # "try" /\ open # <<>> /\ Anchor(chunk, D, Cur.a, Ctx.ow)
         /\ \A p \in l.breaks \cup l.continues \cup HolesOf(Cur) : Hang(chunk, Ctx.ow, p)
<1>1. open # <<>> /\ Cur.kind = kind /\ IsLoop(Cur) BY LoopEnds
<1>2. Cur.kind # "try" BY <1>1 DEF LoopKinds
<1> QED BY <1>1, <1>2, KeptHere

LEMMA WhileCloseTidy ==
  ASSUME Now, NEW D, Tidy(chunk, open, loopStack, D), WhileClose
  PROVE  Tidy(chunk', open', loopStack', D)
<1> DEFINE l == Last(loopStack)
           looped == Append(BlockEnd, Ins("LOOP", Cur.a, 0, EndHeight))
           exited == Patch(looped, {Cur.j})
           popped == IF Cur.arm = "lt" THEN exited ELSE Append(exited, Ins("POP", 0, 0, EndHeight + 1))
           c == Patch(popped, l.breaks)
           A == l.breaks \cup {Cur.j}
<1>1. PICK arm \in {"cond", "lt"} : Inside("while", arm) BY DEF WhileClose
<1>2. /\ chunk' = c /\ open' = ButLast(open, 1) /\ loopStack' = ButLast(loopStack, 1)
  BY DEF WhileClose, Close
<1>3. "while" \in LoopKinds BY DEF LoopKinds
<1>4. /\ open # <<>> /\ Cur.kind = "while" /\ IsLoop(Cur) /\ Cur \in Statement
      /\ scopeDepth = Cur.d + Extra(Cur) /\ Cur.d \in Nat /\ LoopOK(Cur, l, locals) /\ l.count \in Nat
  BY <1>1, <1>3, LoopEnds
<1>5. /\ Cur.kind # "try" /\ Anchor(chunk, D, Cur.a, Ctx.ow)
      /\ \A p \in l.breaks \cup l.continues \cup HolesOf(Cur) : Hang(chunk, Ctx.ow, p)
  BY <1>1, <1>3, FairLoop
<1>6. HolesOf(Cur) = {Cur.j} /\ l.continues = {} BY <1>4, HolesOfIs DEF LoopOK
<1>7. Split(locals, scopeDepth - 1, l.count) /\ EndHeight = l.count
  <2>1. scopeDepth - 1 = Cur.d + 1 BY <1>4, ExtraIs
  <2>2. Split(locals, Cur.d + 1, l.count) BY <1>4 DEF LoopOK
  <2>3. Split(locals, scopeDepth - 1, l.count) BY <2>1, <2>2
  <2> QED BY <1>4, <2>3, BlockEnded
<1>8. EndHeight \in Nat /\ EndHeight + 1 \in Nat BY <1>4, <1>7
<1> HIDE DEF l
<1>9. Fair(BlockEnd, Holes, D) BY <1>4, <1>7, FairBlockEnd
<1>10. \A p \in A : Hang(BlockEnd, Ctx.ow, p) BY <1>5, <1>6, <1>9, FairKeeps
<1>11. Fair(looped, Holes, D) /\ Alike(BlockEnd, looped)
  <2>1. Anchor(BlockEnd, D, Cur.a, Ctx.ow) BY <1>5, <1>9, AnchorAll
  <2> QED BY <1>8, <1>9, <2>1, FairBack DEF Ins
<1> HIDE DEF looped
<1>12. \A p \in A : Hang(looped, Ctx.ow, p) BY <1>9, <1>10, <1>11, HangAll
<1>13. Fair(exited, Holes \ {Cur.j}, D) /\ Alike(looped, exited)
  <2>1. \A p \in {Cur.j} : Hang(looped, Ctx.ow, p) BY <1>12
  <2> QED BY <1>11, <2>1, FairPatch
<1> HIDE DEF exited
<1>14. \A p \in A : Hang(exited, Ctx.ow, p) BY <1>11, <1>12, <1>13, HangAll
<1>15. Fair(popped, Holes \ {Cur.j}, D) /\ \A p \in A : Hang(popped, Ctx.ow, p)
  <2> DEFINE c2 == Append(exited, Ins("POP", 0, 0, EndHeight + 1))
  <2>1. Fair(c2, Holes \ {Cur.j}, D) /\ Alike(exited, c2) BY <1>8, <1>13, FairPlain
  <2> HIDE DEF c2
  <2>2. \A p \in A : Hang(c2, Ctx.ow, p) BY <1>13, <1>14, <2>1, HangAll
  <2> QED BY <1>13, <1>14, <2>1, <2>2 DEF c2
<1> HIDE DEF popped
<1>16. Fair(c, (Holes \ {Cur.j}) \ l.breaks, D)
  <2>1. \A p \in l.breaks : Hang(popped, Ctx.ow, p) BY <1>15
  <2> QED BY <1>15, <2>1, FairPatch
<1> HIDE DEF c
<1>17. /\ (Holes \ {Cur.j}) \ l.breaks \subseteq Holes /\ ((Holes \ {Cur.j}) \ l.breaks) \cap HolesOf(Cur) = {}
       /\ ((Holes \ {Cur.j}) \ l.breaks) \cap (l.breaks \cup l.continues) = {}
  BY <1>6
<1>18. loopStack' = IF IsLoop(Cur) THEN ButLast(loopStack, 1) ELSE loopStack BY <1>2, <1>4
<1> QED BY <1>2, <1>4, <1>5, <1>16, <1>17, <1>18, FairCloses DEF l

LEMMA DoOpenTidy ==
  ASSUME Now, NEW D, Tidy(chunk, open, loopStack, D), DoOpen
  PROVE  Tidy(chunk', open', loopStack', D)
<1> DEFINE a == Len(chunk) + 1
           o == Activation("do", "body", a, 0, 0)
           l == Loop(0, Height, FALSE, 0)
<1>1. Fair(chunk, Holes, D) /\ Height \in Nat /\ Len(chunk) \in Nat BY TidyIs, NowIs
<1>2. chunk' = chunk /\ open' = Append(open, o) /\ loopStack' = Append(loopStack, l) BY DEF DoOpen, Here
<1>3. a \in Nat /\ Anchor(chunk, D, a, Ctx.ow) BY <1>1, HereAnchor
<1>4. Fresh(o, "do", "body", a, 0, 0)
  <2>1. "do" \in Kinded /\ "body" \in Armed BY DEF Kinded, Armed, LoopKinds
  <2> QED BY <1>3, <2>1, ActivationIs
<1>5. l \in LoopRecord /\ l.breaks = {} /\ l.continues = {} BY <1>1 DEF Loop, LoopRecord
<1> HIDE DEF a, o, l
<1>6. o.kind = "do" BY <1>4 DEF Fresh
<1>7. HolesOf(o) = {} /\ IsLoop(o) BY <1>6, HolesOfIs DEF IsLoop, LoopKinds
<1>8. loopStack' = IF IsLoop(o) THEN Append(loopStack, l) ELSE loopStack BY <1>2, <1>7
<1> QED BY <1>1, <1>2, <1>3, <1>4, <1>5, <1>7, <1>8, FairOpens

LEMMA DoCloseTidy ==
  ASSUME Now, NEW D, Tidy(chunk, open, loopStack, D), DoClose
  PROVE  Tidy(chunk', open', loopStack', D)
<1> DEFINE l == Last(loopStack)
           resumed == Patch(chunk, l.continues)
           asked == resumed \o Condition(Height)
           p == Len(resumed) + 2
           looped == resumed \o Condition(Height) \o <<Ins("LOOP", Cur.a, 0, Height)>>
           patched == Patch(looped, {p})
           exited == Append(patched, Ins("POP", 0, 0, Height + 1))
           left == Patch(exited, l.breaks)
           c == left \o EndScopeCode(locals, scopeDepth - 1)
<1>1. Inside("do", "body") /\ "do" \in LoopKinds BY DEF DoClose, LoopKinds
<1>2. /\ chunk' = c /\ open' = ButLast(open, 1) /\ loopStack' = ButLast(loopStack, 1)
  BY DEF DoClose, Close
<1>3. /\ open # <<>> /\ Cur.kind = "do" /\ IsLoop(Cur) /\ Cur \in Statement
      /\ scopeDepth = Cur.d + Extra(Cur) /\ Cur.d \in Nat /\ Cur.h \in Nat /\ Cur.a \in Nat
      /\ Split(locals, Cur.d, Cur.h) /\ locals \in Seq(Local) /\ Height \in Nat
  BY <1>1, LoopEnds, NowIs
<1>4. /\ Cur.kind # "try" /\ Anchor(chunk, D, Cur.a, Ctx.ow)
      /\ \A q \in l.breaks \cup l.continues : Hang(chunk, Ctx.ow, q)
  BY <1>1, FairLoop
<1>5. HolesOf(Cur) = {} BY <1>3, HolesOfIs
<1>6. Split(locals, scopeDepth - 1, Cur.h) /\ scopeDepth - 1 \in Int
  <2>1. scopeDepth - 1 = Cur.d BY <1>3, ExtraIs
  <2> QED BY <1>3, <2>1
<1> HIDE DEF l
<1>7. Fair(chunk, Holes, D) BY TidyIs
<1>8. Fair(resumed, Holes \ l.continues, D) /\ Alike(chunk, resumed) BY <1>4, <1>7, FairPatch
<1> HIDE DEF resumed
<1>9. resumed \in Seq(Instruction) /\ Len(resumed) \in Nat /\ Height + 1 \in Nat BY <1>3, <1>8, FairIs
<1>10. /\ Fair(asked, (Holes \ l.continues) \cup {p}, D) /\ Alike(resumed, asked) /\ Hang(asked, Ctx.ow, p)
  BY <1>3, <1>8, FairCondition
<1>11. asked \in Seq(Instruction) BY <1>10, FairIs
<1> HIDE DEF asked, p
<1>12. Fair(looped, (Holes \ l.continues) \cup {p}, D) /\ Alike(asked, looped)
  <2>1. Anchor(asked, D, Cur.a, Ctx.ow) BY <1>4, <1>10, AnchorAll
  <2>2. looped = Append(asked, InsIn(Ctx, "LOOP", Cur.a, 0, {}, Height)) BY <1>11 DEF Ins, asked
  <2> HIDE DEF looped
  <2> QED BY <1>3, <1>10, <2>1, <2>2, FairBack
<1> HIDE DEF looped
<1>13. Fair(patched, ((Holes \ l.continues) \cup {p}) \ {p}, D) /\ Alike(looped, patched)
  <2>0. \A q \in {p} : Hang(asked, Ctx.ow, q) BY <1>10
  <2>1. \A q \in {p} : Hang(looped, Ctx.ow, q)
    <3> DEFINE V == (Holes \ l.continues) \cup {p}
    <3>1. Fair(asked, V, D) /\ Fair(looped, V, D) /\ Alike(asked, looped) BY <1>10, <1>12
    <3> HIDE DEF V
    <3> QED BY ONLY <2>0, <3>1, HangAll
  <2> QED BY <1>12, <2>1, FairPatch
<1> HIDE DEF patched
<1>14. Fair(exited, ((Holes \ l.continues) \cup {p}) \ {p}, D) BY <1>9, <1>13, FairPlain
<1> HIDE DEF exited
<1>15. Fair(left, (((Holes \ l.continues) \cup {p}) \ {p}) \ l.breaks, D)
  <2>1. \A q \in l.breaks : Hang(exited, Ctx.ow, q) BY <1>4, <1>14, FairKeeps
  <2> QED BY <1>14, <2>1, FairPatch
<1> HIDE DEF left
<1>16. Fair(left, Holes \ (l.continues \cup l.breaks), D)
  <2>1. (((Holes \ l.continues) \cup {p}) \ {p}) \ l.breaks \subseteq Holes \ (l.continues \cup l.breaks)
    OBVIOUS
  <2> QED BY <1>15, <2>1, FairLess
<1>17. Fair(c, Holes \ (l.continues \cup l.breaks), D) BY <1>3, <1>6, <1>16, FairEnd
<1> HIDE DEF c
<1>18. loopStack' = IF IsLoop(Cur) THEN ButLast(loopStack, 1) ELSE loopStack BY <1>2, <1>3
<1>19. /\ Holes \ (l.continues \cup l.breaks) \subseteq Holes
       /\ (Holes \ (l.continues \cup l.breaks)) \cap HolesOf(Cur) = {}
       /\ (Holes \ (l.continues \cup l.breaks)) \cap (l.breaks \cup l.continues) = {}
  BY <1>5
<1> QED BY <1>2, <1>3, <1>4, <1>17, <1>18, <1>19, FairCloses DEF l

----------------------------------------------------------------------------
(* for and for-each.                                                       *)

(* A place to come back to stays one when no catch clause is added.        *)
LEMMA AnchorTail ==
  ASSUME NEW c, NEW W, NEW D, Fair(c, W, D), NEW t \in Seq(Instruction),
         \A k \in DOMAIN t : t[k].op # "CATCH", NEW q, NEW T, Anchor(c, D, q, T)
  PROVE  Anchor(c \o t, D, q, T)
<1>1. /\ c \in Seq(Instruction) /\ Len(c) \in Nat /\ Even(c, W, Ctx.ow, D, Len(c) + 1) BY FairIs
<1>2. Len(c) \in DOMAIN c => c[Len(c)].op # "CATCH" BY <1>1, EvenIs
<1> DEFINE c2 == c \o t
           b == Len(c) + 1
<1>3. /\ Behind(c, c2) /\ Len(c2) = Len(c) + Len(t) /\ Len(t) \in Nat
      /\ \A p \in DOMAIN c2 : p \notin DOMAIN c => p - Len(c) \in DOMAIN t /\ c2[p] = t[p - Len(c)]
  BY <1>1, AppendBehind
<1>4. q \in Nat /\ q <= b /\ Ordinary(c, q) /\ q \notin D /\ \A e \in T : e < q BY DEF Anchor
<1> HIDE DEF c2
<1>5. /\ c2 \in Seq(Instruction) /\ DOMAIN c \subseteq DOMAIN c2
      /\ \A p \in DOMAIN c : c2[p].op = c[p].op
  BY <1>3 DEF Behind
<1>6. \A p \in DOMAIN c2 : p \notin DOMAIN c /\ c2[p].op = "CATCH" => b + 1 < p BY <1>3
<1>7. b \in Nat /\ Len(c) + 1 <= Len(c2) + 1 /\ q <= Len(c2) + 1 BY <1>1, <1>3, <1>4
<1> HIDE DEF b
<1>8. Ordinary(c2, q) BY <1>1, <1>2, <1>4, <1>5, <1>6, <1>7, OrdinaryBehind
<1> QED BY <1>4, <1>7, <1>8 DEF Anchor, c2

LEMMA ConditionIs ==
  ASSUME Now, NEW h \in Nat
  PROVE  Condition(h) \in Seq(Instruction) /\ \A k \in DOMAIN Condition(h) : Condition(h)[k].op # "CATCH"
<1>1. /\ Ins("CONSTANT", 0, 0, h) \in Instruction /\ Ins("JUMP_IF_FALSE", 0, 0, h + 1) \in Instruction
      /\ Ins("POP", 0, 0, h + 1) \in Instruction
  BY NowIs, OpsAre
<1>2. DOMAIN Condition(h) = 1..3 BY DEF Condition
<1>3. /\ Condition(h)[1].op = "CONSTANT" /\ Condition(h)[2].op = "JUMP_IF_FALSE"
      /\ Condition(h)[3].op = "POP"
  BY DEF Condition, Ins, InsIn
<1>4. \A k \in 1..3 : k = 1 \/ k = 2 \/ k = 3 OBVIOUS
<1> QED BY <1>1, <1>2, <1>3, <1>4 DEF Condition

LEMMA ForOpenTidy ==
  ASSUME Now, NEW D, Tidy(chunk, open, loopStack, D), ForOpen
  PROVE  Tidy(chunk', open', loopStack', D)
<1>0. /\ Fair(chunk, Holes, D) /\ Height \in Nat /\ Len(chunk) \in Nat /\ locals \in Seq(Local)
  BY TidyIs, NowIs
<1>1. PICK init \in BOOLEAN, cond \in BOOLEAN :
       LET ls   == IF init THEN addLocal(locals, scopeDepth + 1, Here(chunk), TRUE)
                   ELSE locals
           c    == IF init THEN Append(chunk, Ins("CONSTANT", 0, 0, Height)) ELSE chunk
           h    == Len(ls)
           exit == IF cond THEN Here(c) + 1 ELSE 0
       IN  /\ chunk' = IF cond THEN c \o Condition(h) ELSE c
           /\ locals' = ls
           /\ loopStack' = Append(loopStack, Loop(0, h, FALSE, 0))
           /\ open' = Append(open, Activation("for", "body", Here(c), 0, exit))
  BY DEF ForOpen
<1> DEFINE ls   == IF init THEN addLocal(locals, scopeDepth + 1, Here(chunk), TRUE)
                   ELSE locals
           c    == IF init THEN Append(chunk, Ins("CONSTANT", 0, 0, Height)) ELSE chunk
           h    == Len(ls)
           exit == IF cond THEN Here(c) + 1 ELSE 0
           c2   == IF cond THEN c \o Condition(h) ELSE c
           l    == Loop(0, h, FALSE, 0)
           o    == Activation("for", "body", Here(c), 0, exit)
<1>2. chunk' = c2 /\ loopStack' = Append(loopStack, l) /\ open' = Append(open, o) BY <1>1
<1>3. h \in Nat
  <2>1. scopeDepth + 1 \in Nat /\ Len(chunk) + 1 \in Nat BY <1>0, NowIs
  <2>2. Len(addLocal(locals, scopeDepth + 1, Here(chunk), TRUE)) = Height + 1
    BY <2>1, OneLocal DEF Here
  <2>3. Len(locals) \in Nat /\ Height + 1 \in Nat BY <1>0
  <2> QED BY <2>2, <2>3
<1>4. Fair(c, Holes, D)
  <2>1. Fair(Append(chunk, Ins("CONSTANT", 0, 0, Height)), Holes, D) BY <1>0, FairPlain
  <2> QED BY <1>0, <2>1
<1> HIDE DEF ls, h, c
<1>5. Len(c) \in Nat /\ Here(c) = Len(c) + 1 /\ Anchor(c, D, Len(c) + 1, Ctx.ow)
  BY <1>4, FairIs, HereAnchor DEF Here
<1> DEFINE a == Len(c) + 1
<1>6. exit \in Nat BY <1>5
<1>7. /\ Fair(c2, Holes \cup ({exit} \ {0}), D) /\ Anchor(c2, D, a, Ctx.ow)
      /\ \A p \in {exit} \ {0} : Hang(c2, Ctx.ow, p)
  <2>1. CASE cond
    <3>1. /\ Fair(c \o Condition(h), Holes \cup {Len(c) + 2}, D)
          /\ Hang(c \o Condition(h), Ctx.ow, Len(c) + 2)
      BY <1>3, <1>4, FairCondition
    <3>2. Anchor(c \o Condition(h), D, a, Ctx.ow)
      <4>1. /\ Condition(h) \in Seq(Instruction)
            /\ \A k \in DOMAIN Condition(h) : Condition(h)[k].op # "CATCH"
        BY <1>3, ConditionIs
      <4> QED BY <1>4, <1>5, <4>1, AnchorTail
    <3>3. exit = Len(c) + 2 /\ c2 = c \o Condition(h) /\ exit # 0 BY <1>5, <2>1
    <3> HIDE DEF c2, exit
    <3>4. {exit} \ {0} = {Len(c) + 2} BY <3>3
    <3> QED BY <3>1, <3>2, <3>3, <3>4
  <2>2. CASE ~cond
    <3>1. exit = 0 /\ c2 = c BY <2>2
    <3> HIDE DEF c2, exit
    <3>2. {exit} \ {0} = {} BY <3>1
    <3>3. Holes \cup ({exit} \ {0}) = Holes BY <3>2
    <3> QED BY <1>4, <1>5, <3>1, <3>2, <3>3
  <2> QED BY <2>1, <2>2
<1>8. a \in Nat BY <1>5
<1> HIDE DEF c2, exit
<1>9. Fresh(o, "for", "body", a, 0, exit)
  <2>1. "for" \in Kinded /\ "body" \in Armed BY DEF Kinded, Armed, LoopKinds
  <2> QED BY <1>5, <1>6, <1>8, <2>1, ActivationIs
<1>10. l \in LoopRecord /\ l.breaks = {} /\ l.continues = {} BY <1>3 DEF Loop, LoopRecord
<1> HIDE DEF o, l, a
<1>11. o.kind = "for" /\ o.j = exit BY <1>9 DEF Fresh
<1>12. HolesOf(o) = {exit} \ {0} /\ IsLoop(o) BY <1>11, HolesOfIs DEF IsLoop, LoopKinds
<1>13. loopStack' = IF IsLoop(o) THEN Append(loopStack, l) ELSE loopStack BY <1>2, <1>12
<1> QED BY <1>2, <1>7, <1>9, <1>10, <1>12, <1>13, FairOpens

LEMMA ForCloseTidy ==
  ASSUME Now, NEW D, Tidy(chunk, open, loopStack, D), ForClose
  PROVE  Tidy(chunk', open', loopStack', D)
<1> DEFINE l == Last(loopStack)
           n == l.count
           i1 == Ins("CONSTANT", 0, 0, EndHeight)
           i2 == Ins("POP", 0, 0, EndHeight + 1)
           i3 == Ins("LOOP", Cur.a, 0, EndHeight)
           resumed == Patch(BlockEnd, l.continues)
           c1 == resumed \o <<i1, i2>>
           looped == resumed \o <<i1, i2, i3>>
           exited == IF Cur.j = 0 THEN looped ELSE Append(Patch(looped, {Cur.j}), i2)
           left == Patch(exited, l.breaks)
           c == left \o EndScopeCode(After, scopeDepth - 2)
           J == {Cur.j} \ {0}
           V == Holes \ l.continues
<1>1. Inside("for", "body") /\ "for" \in LoopKinds BY DEF ForClose, LoopKinds
<1>2. /\ chunk' = c /\ open' = ButLast(open, 1) /\ loopStack' = ButLast(loopStack, 1)
  BY DEF ForClose, Close
<1>3. /\ open # <<>> /\ Cur.kind = "for" /\ IsLoop(Cur) /\ Cur \in Statement
      /\ scopeDepth = Cur.d + Extra(Cur) /\ Cur.d \in Nat /\ Cur.h \in Nat /\ Cur.a \in Nat
      /\ Split(locals, Cur.d, Cur.h) /\ locals \in Seq(Local) /\ LoopOK(Cur, l, locals) /\ n \in Nat
  BY <1>1, LoopEnds
<1>4. /\ Cur.kind # "try" /\ Anchor(chunk, D, Cur.a, Ctx.ow)
      /\ \A q \in l.breaks \cup l.continues \cup HolesOf(Cur) : Hang(chunk, Ctx.ow, q)
  BY <1>1, FairLoop
<1>5. HolesOf(Cur) = J BY <1>3, HolesOfIs
<1>6. scopeDepth - 1 = Cur.d + 1 /\ scopeDepth - 2 = Cur.d BY <1>3, ExtraIs, SMTT(30)
<1>7. n \in {Cur.h, Cur.h + 1} /\ Split(locals, Cur.d + 1, n) BY <1>3 DEF LoopOK
<1>8. /\ After = SubSeq(locals, 1, n) /\ EndHeight = n /\ n <= Height /\ After \in Seq(Local)
      /\ EndHeight \in Nat /\ EndHeight + 1 \in Nat
  BY <1>3, <1>6, <1>7, BlockEnded
<1>9. Fair(BlockEnd, Holes, D) BY <1>3, <1>6, <1>7, FairBlockEnd
<1> HIDE DEF l
<1>10. Fair(resumed, V, D)
  <2>1. \A q \in l.continues : Hang(BlockEnd, Ctx.ow, q) BY <1>4, <1>9, FairKeeps
  <2> QED BY <1>9, <2>1, FairPatch
<1>11. Neat(i1) /\ Neat(i2) BY <1>8, NeatPlain
<1>12. i1 \in Instruction /\ i2 \in Instruction /\ i3 \in Instruction
  <2>1. "LOOP" \in Ops BY OpsAre
  <2> QED BY <1>3, <1>8, <1>11, <2>1, NowIs DEF Neat
<1>13. i3 = InsIn(Ctx, "LOOP", Cur.a, 0, {}, EndHeight) BY DEF Ins
<1> HIDE DEF resumed, i1, i2, i3, V
<1>14. resumed \in Seq(Instruction) BY <1>10, FairIs
<1>15. Fair(c1, V, D) BY <1>10, <1>11, FairTwo
<1>16. looped = Append(c1, i3) BY <1>12, <1>14
<1> HIDE DEF c1, looped
<1>17. Fair(looped, V, D)
  <2>1. Anchor(c1, D, Cur.a, Ctx.ow) BY <1>4, <1>15, AnchorAll
  <2> QED BY <1>8, <1>13, <1>15, <1>16, <2>1, FairBack
<1>18. Fair(exited, V \ J, D)
  <2>1. CASE Cur.j = 0
    <3>1. V \ J = V /\ exited = looped BY <2>1
    <3> HIDE DEF J, exited
    <3> QED BY <1>17, <3>1
  <2>2. CASE Cur.j # 0
    <3>1. J = {Cur.j} /\ exited = Append(Patch(looped, {Cur.j}), i2) BY <2>2
    <3> HIDE DEF J, exited
    <3>2. \A q \in {Cur.j} : Hang(looped, Ctx.ow, q) BY <1>4, <1>5, <1>17, <3>1, FairKeeps
    <3>3. Fair(Patch(looped, {Cur.j}), V \ {Cur.j}, D) BY <1>17, <3>2, FairPatch
    <3>4. Fair(Append(Patch(looped, {Cur.j}), i2), V \ {Cur.j}, D) BY <1>11, <3>3, FairOne
    <3> QED BY <3>1, <3>4
  <2> QED BY <2>1, <2>2
<1> HIDE DEF exited, J
<1>19. Fair(left, (V \ J) \ l.breaks, D)
  <2>1. \A q \in l.breaks : Hang(exited, Ctx.ow, q) BY <1>4, <1>18, FairKeeps
  <2> QED BY <1>18, <2>1, FairPatch
<1> HIDE DEF left
<1>20. Fair(c, (V \ J) \ l.breaks, D)
  <2>1. n \in 0..Len(locals) /\ Cur.h <= n /\ Cur.h \in Nat /\ Cur.d \in Int
    BY <1>3, <1>7, <1>8, NowIs, SMTT(30)
  <2>2. Split(SubSeq(locals, 1, n), Cur.d, Cur.h) BY <1>3, <2>1, SplitCut
  <2>3. Split(After, scopeDepth - 2, Cur.h) /\ scopeDepth - 2 \in Int BY <1>6, <1>8, <2>1, <2>2
  <2> QED BY <1>3, <1>8, <1>19, <2>3, FairEnd
<1> HIDE DEF c
<1>21. loopStack' = IF IsLoop(Cur) THEN ButLast(loopStack, 1) ELSE loopStack BY <1>2, <1>3
<1>22. /\ (V \ J) \ l.breaks \subseteq Holes /\ ((V \ J) \ l.breaks) \cap HolesOf(Cur) = {}
       /\ ((V \ J) \ l.breaks) \cap (l.breaks \cup l.continues) = {}
  BY <1>5 DEF V
<1> QED BY <1>2, <1>3, <1>4, <1>20, <1>21, <1>22, FairCloses DEF l

LEMMA ForEachOpenTidy ==
  ASSUME Now, Careful, NEW D, Tidy(chunk, open, loopStack, D), ForEachOpen
  PROVE  Tidy(chunk', open', loopStack', D)
<1>0. /\ Fair(chunk, Holes, D) /\ Height \in Nat /\ Len(chunk) \in Nat /\ locals \in Seq(Local)
      /\ chunk \in Seq(Instruction)
  BY TidyIs, NowIs
<1>1. PICK n \in 1..2 :
        /\ chunk' = chunk \o [k \in 1..n |-> Ins("NATIVE", 0, 0, Height + k - 1)]
                         \o <<Ins("CONSTANT", 0, 0, Height + n),
                              Ins("FOR_ITER", 0, n, Height + n + 1)>>
        /\ \E m \in Nat : m >= 1 /\ loopStack' = Append(loopStack, Loop(Here(chunk) + n + 1, m, TRUE, m - 1))
        /\ open' = Append(open, Activation("foreach", "body", Here(chunk) + n + 1, n, 0))
  <2>1. PICK n \in 1..2 :
       LET at == Here(chunk)
           ls == locals \o [k \in 1..n |-> [depth |-> scopeDepth + 1,
                                           d |-> at + k - 1, named |-> FALSE]]
           counted == addLocal(ls, scopeDepth + 1, at + n, FALSE)
           iter == at + n + 1
       IN  /\ chunk' = chunk \o [k \in 1..n |-> Ins("NATIVE", 0, 0, Height + k - 1)]
                         \o <<Ins("CONSTANT", 0, 0, Height + n),
                              Ins("FOR_ITER", 0, n, Height + n + 1)>>
           /\ loopStack' = Append(loopStack,
                 Loop(iter, Len(counted), TRUE, Len(counted) - 1))
           /\ open' = Append(open, Activation("foreach", "body", iter, n, 0))
    BY DEF ForEachOpen
  <2> DEFINE at == Here(chunk)
             ls == locals \o [k \in 1..n |-> [depth |-> scopeDepth + 1,
                                             d |-> at + k - 1, named |-> FALSE]]
             counted == addLocal(ls, scopeDepth + 1, at + n, FALSE)
             iter == at + n + 1
             F == counted \o [k \in 1..n |-> [depth |-> scopeDepth + 2, d |-> iter, named |-> TRUE]]
  <2>2. at \in Nat /\ iter \in Nat BY <1>0 DEF Here
  <2>3. Streams(locals, Height, scopeDepth, n, counted, F) BY <2>2, StreamLocals
  <2>4. Len(counted) = Height + n + 1 BY <2>3 DEF Streams
  <2>5. loopStack' = Append(loopStack, Loop(iter, Len(counted), TRUE, Len(counted) - 1)) BY <2>1
  <2> HIDE DEF counted
  <2>6. Len(counted) \in Nat /\ Len(counted) >= 1 BY <1>0, <2>4
  <2> QED BY <2>1, <2>5, <2>6
<1> DEFINE xs == [k \in 1..n |-> Ins("NATIVE", 0, 0, Height + k - 1)]
           cN == chunk \o xs
           i1 == Ins("CONSTANT", 0, 0, Height + n)
           i2 == Ins("FOR_ITER", 0, n, Height + n + 1)
           c1 == Append(cN, i1)
           c == Append(c1, i2)
           a == Len(c1) + 1
           o == Activation("foreach", "body", a, n, 0)
<1>2. MayRaise BY DEF ForEachOpen
<1>3. Solvent(chunk, Ctx) BY <1>2, MayPay
<1>4. /\ n \in Nat /\ Height + n \in Nat /\ Height + n + 1 \in Nat
      /\ \A k \in 1..n : Height + k - 1 \in Nat
  BY <1>0
<1>5. \A k \in 1..n : Neat(Ins("NATIVE", 0, 0, Height + k - 1)) BY <1>3, <1>4, NeatRaise DEF Ins
<1>6. xs \in Seq(Instruction) /\ Len(xs) = n /\ \A k \in DOMAIN xs : Neat(xs[k])
  <2>1. \A k \in 1..n : xs[k] \in Instruction BY <1>5 DEF Neat
  <2>2. xs \in [1..n -> Instruction] BY <2>1
  <2> QED BY <1>4, <1>5, <2>2
<1>7. Fair(cN, Holes, D) /\ Len(cN) = Len(chunk) + n BY <1>0, <1>6, FairTail
<1>8. Neat(i1) BY <1>4, NeatPlain
<1>9. i1 \in Instruction /\ i2 \in Instruction
  <2>1. "FOR_ITER" \in Ops BY OpsAre
  <2> QED BY <1>4, <1>8, <2>1, NowIs DEF Neat
<1>10. i2.op = "FOR_ITER" /\ i2 = InsIn(Ctx, "FOR_ITER", 0, n, {}, Height + n + 1) BY DEF Ins, InsIn
<1>11. chunk' = cN \o <<i1, i2>> /\ open' = Append(open, Activation("foreach", "body", Here(chunk) + n + 1, n, 0))
  BY <1>1
<1> HIDE DEF xs, cN, i1, i2
<1>12. cN \in Seq(Instruction) BY <1>7, FairIs
<1>13. chunk' = c BY <1>9, <1>11, <1>12, Cat2
<1>14. Fair(c1, Holes, D) /\ Len(c1) = Len(cN) + 1 BY <1>7, <1>8, FairOne
<1> HIDE DEF c1
<1>15. c1 \in Seq(Instruction) /\ Len(c1) \in Nat /\ a \in Nat BY <1>14, FairIs
<1>16. Here(chunk) + n + 1 = a BY <1>0, <1>4, <1>7, <1>14 DEF Here
<1>17. Fair(c, Holes \cup {a}, D) /\ Hang(c, Ctx.ow, a)
  <2>1. "FOR_ITER" \in Branches BY KindsOfOp
  <2> QED BY <1>3, <1>4, <1>10, <1>14, <2>1, FairHole
<1>18. Anchor(c, D, a, Ctx.ow)
  <2>1. Anchor(c1, D, a, Ctx.ow) BY <1>14, HereAnchor
  <2>2. c = c1 \o <<i2>> BY <1>9, <1>15
  <2>3. <<i2>> \in Seq(Instruction) /\ \A k \in DOMAIN <<i2>> : <<i2>>[k].op # "CATCH" BY <1>9, <1>10
  <2>4. Anchor(c1 \o <<i2>>, D, a, Ctx.ow) BY <1>14, <2>1, <2>3, AnchorTail
  <2> QED BY <2>2, <2>4
<1> HIDE DEF c, a
<1>19. Fresh(o, "foreach", "body", a, n, 0)
  <2>1. "foreach" \in Kinded /\ "body" \in Armed BY DEF Kinded, Armed, LoopKinds
  <2> QED BY <1>4, <1>15, <2>1, ActivationIs
<1>20. open' = Append(open, o) BY <1>11, <1>16
<1>21. PICK l \in LoopRecord : l.breaks = {} /\ l.continues = {} /\ loopStack' = Append(loopStack, l)
  <2>1. PICK m \in Nat : m >= 1 /\ loopStack' = Append(loopStack, Loop(a, m, TRUE, m - 1))
    BY <1>1, <1>16
  <2>2. Loop(a, m, TRUE, m - 1) \in LoopRecord BY <1>15, <2>1 DEF Loop, LoopRecord
  <2>3. Loop(a, m, TRUE, m - 1).breaks = {} /\ Loop(a, m, TRUE, m - 1).continues = {} BY DEF Loop
  <2> QED BY <2>1, <2>2, <2>3
<1> HIDE DEF o
<1>22. o.kind = "foreach" /\ o.a = a BY <1>19 DEF Fresh
<1>23. HolesOf(o) = {a} /\ IsLoop(o) BY <1>22, HolesOfIs DEF IsLoop, LoopKinds
<1>24. loopStack' = IF IsLoop(o) THEN Append(loopStack, l) ELSE loopStack BY <1>21, <1>23
<1>25. Holes \cup {a} \subseteq Holes \cup HolesOf(o) /\ \A p \in HolesOf(o) : Hang(c, Ctx.ow, p)
  BY <1>17, <1>23
<1> QED BY <1>13, <1>17, <1>18, <1>19, <1>20, <1>21, <1>24, <1>25, FairOpens

LEMMA ForEachCloseTidy ==
  ASSUME Now, NEW D, Tidy(chunk, open, loopStack, D), ForEachClose
  PROVE  Tidy(chunk', open', loopStack', D)
<1> DEFINE h == Cur.h
           l == Last(loopStack)
           n == Cur.b
           k == l.count
           i == Ins("LOOP", Cur.a, 0, EndHeight - n)
           unbound == BlockEnd \o Pops(n, EndHeight)
           looped == unbound \o <<i>>
           outer == Kept(After, scopeDepth - 2)
           exited == Patch(looped, {Cur.a}) \o Pops(n + 1, Len(outer))
           c == Patch(exited, l.breaks)
           V == Holes \ {Cur.a}
<1>1. Inside("foreach", "body") /\ "foreach" \in LoopKinds BY DEF ForEachClose, LoopKinds
<1>2. chunk' = c /\ open' = ButLast(open, 1) /\ loopStack' = ButLast(loopStack, 1)
  BY DEF ForEachClose, Close
<1>3. /\ open # <<>> /\ Cur.kind = "foreach" /\ IsLoop(Cur) /\ Cur \in Statement
      /\ h \in Nat /\ Cur.d \in Nat /\ Cur.a \in Nat /\ n \in Nat
      /\ scopeDepth = Cur.d + Extra(Cur) /\ LoopOK(Cur, l, locals)
      /\ locals \in Seq(Local) /\ k \in Nat
  BY <1>1, LoopEnds
<1>4. /\ Cur.kind # "try" /\ Anchor(chunk, D, Cur.a, Ctx.ow)
      /\ \A q \in l.breaks \cup l.continues \cup HolesOf(Cur) : Hang(chunk, Ctx.ow, q)
  BY <1>1, FairLoop
<1>5. HolesOf(Cur) = {Cur.a} BY <1>3, HolesOfIs
<1>6. scopeDepth - 1 = Cur.d + 2 /\ scopeDepth - 2 = Cur.d + 1 BY <1>3, ExtraIs
<1>7. /\ n >= 1 /\ k = h + n + 1 /\ Split(locals, Cur.d + 1, k) /\ Split(locals, Cur.d + 2, k + n)
      /\ l.breaks = {} /\ l.continues = {}
  BY <1>3 DEF LoopOK
<1>8. k + n \in Nat /\ n <= k + n /\ (k + n) - n = k /\ n + 1 \in Nat /\ n + 1 <= k /\ Cur.d + 1 \in Int
  <2> HIDE DEF h, l, n, k
  <2>1. h \in Nat /\ n \in Nat /\ k \in Nat /\ n >= 1 /\ k = h + n + 1 /\ Cur.d \in Nat BY <1>3, <1>7
  <2> QED BY <2>1
<1>9. After = SubSeq(locals, 1, k + n) /\ EndHeight = k + n /\ k + n <= Height
  BY <1>6, <1>7, <1>8, BlockEnded
<1>10. Fair(BlockEnd, Holes, D) BY <1>6, <1>7, <1>8, FairBlockEnd
<1>11. Len(outer) = k
  <2>1. k + n \in 0..Len(locals) /\ k <= k + n BY SMTT(60), <1>3, <1>8, <1>9, NowIs
  <2> HIDE DEF h, l, n, k
  <2>2. Split(locals, Cur.d + 1, k) /\ k \in Nat /\ k + n \in 0..Len(locals) /\ k <= k + n
    BY <1>3, <1>7, <2>1
  <2>3. Split(SubSeq(locals, 1, k + n), Cur.d + 1, k) BY <1>3, <1>8, <2>2, SplitCut
  <2>4. SubSeq(locals, 1, k + n) \in Seq(Local) BY <1>3, <2>2, CutIs
  <2>5. Kept(SubSeq(locals, 1, k + n), Cur.d + 1) = SubSeq(SubSeq(locals, 1, k + n), 1, k)
    BY <1>8, <2>2, <2>3, <2>4, KeptIs
  <2>6. Len(SubSeq(locals, 1, k + n)) = k + n BY <1>3, <2>2, CutIs
  <2>7. k \in 0..(k + n) BY <2>2
  <2>8. Len(SubSeq(SubSeq(locals, 1, k + n), 1, k)) = k BY <2>4, <2>6, <2>7, CutIs
  <2> QED BY <1>6, <1>9, <2>5, <2>8
<1> HIDE DEF outer, h, l, n, k
<1>12. unbound = BlockEnd \o Pops(n, k + n) BY <1>9
<1>13. Fair(unbound, Holes, D) BY <1>3, <1>8, <1>10, <1>12, FairPops
<1>14. i \in Instruction /\ i = InsIn(Ctx, "LOOP", Cur.a, 0, {}, k)
  <2>1. "LOOP" \in Ops BY OpsAre
  <2>2. EndHeight - n = k BY <1>8, <1>9
  <2> QED BY <1>3, <2>1, <2>2, NowIs, InsIs
<1> HIDE DEF unbound, i
<1>15. looped = Append(unbound, i) BY <1>13, <1>14, FairIs
<1>16. Anchor(unbound, D, Cur.a, Ctx.ow) BY <1>4, <1>13, AnchorAll
<1>17. Fair(looped, Holes, D) BY <1>3, <1>13, <1>14, <1>15, <1>16, FairBack
<1> HIDE DEF looped
<1>18. Fair(Patch(looped, {Cur.a}), V, D)
  <2>1. \A q \in {Cur.a} : Hang(looped, Ctx.ow, q) BY <1>4, <1>5, <1>17, FairKeeps
  <2> QED BY <1>17, <2>1, FairPatch
<1>19. Fair(exited, V, D) BY <1>3, <1>8, <1>11, <1>18, FairPops
<1> HIDE DEF exited, V
<1>20. Fair(c, V \ l.breaks, D)
  <2>1. \A q \in l.breaks : Hang(exited, Ctx.ow, q) BY <1>7
  <2> QED BY <1>19, <2>1, FairPatch
<1> HIDE DEF c
<1>21. loopStack' = IF IsLoop(Cur) THEN ButLast(loopStack, 1) ELSE loopStack BY <1>2, <1>3
<1>22. V \ l.breaks \subseteq Holes /\ (V \ l.breaks) \cap HolesOf(Cur) = {}
       /\ (V \ l.breaks) \cap (l.breaks \cup l.continues) = {}
  BY <1>5, <1>7 DEF V
<1> QED BY <1>2, <1>3, <1>4, <1>20, <1>21, <1>22, FairCloses DEF l

(* A switch tests the value against the constant of the next case.         *)
LEMMA FairCase ==
  ASSUME Now, NEW c, NEW W, NEW D, Fair(c, W, D), NEW h \in Nat, h >= 1
  PROVE  /\ Fair(Case(c, h), W \cup {Len(c) + 4}, D) /\ Alike(c, Case(c, h))
         /\ Len(Case(c, h)) = Len(c) + 5
         /\ Hang(Case(c, h), Ctx.ow, Len(c) + 4)
<1> DEFINE i1 == Ins("GET_LOCAL", 0, h - 1, h)
           i2 == Ins("CONSTANT", 0, 0, h + 1)
           i3 == Ins("POP2_PUSH", 0, 0, h + 2)
           i4 == Ins("JUMP_IF_FALSE", 0, 0, h + 1)
           i5 == Ins("POP", 0, 0, h + 1)
           c1 == Append(Append(Append(c, i1), i2), i3)
           c4 == Append(c1, i4)
           c5 == Append(c4, i5)
<1>1. /\ c \in Seq(Instruction) /\ Len(c) \in Nat /\ h - 1 \in Nat /\ h + 1 \in Nat /\ h + 2 \in Nat
  BY FairIs
<1>2. Neat(i1) /\ Neat(i2) /\ Neat(i3) /\ Neat(i5) BY <1>1, NeatPlain
<1>3. i4 \in Instruction /\ i4 = InsIn(Ctx, "JUMP_IF_FALSE", 0, 0, {}, h + 1)
  <2>1. "JUMP_IF_FALSE" \in Ops BY OpsAre
  <2> QED BY <1>1, <2>1, NowIs, InsIs
<1> HIDE DEF i1, i2, i3, i4, i5
<1>4. Case(c, h) = c5
  <2>1. /\ i1 \in Instruction /\ i2 \in Instruction /\ i3 \in Instruction
        /\ i4 \in Instruction /\ i5 \in Instruction
    BY <1>2, <1>3 DEF Neat
  <2>2. c \o <<i1, i2, i3, i4, i5>> = c5 BY ONLY <1>1, <2>1, Cat5
  <2>3. Case(c, h) = c \o <<i1, i2, i3, i4, i5>> BY ONLY DEF Case, i1, i2, i3, i4, i5
  <2> QED BY ONLY <2>2, <2>3
<1>5. c1 = c \o <<i1, i2, i3>> BY <1>1, <1>2, Cat3 DEF Neat
<1>6. Fair(c1, W, D) /\ Alike(c, c1) /\ Len(c1) = Len(c) + 3 BY <1>2, <1>5, FairThree
<1> HIDE DEF c1
<1>7. /\ Fair(c4, W \cup {Len(c1) + 1}, D) /\ Alike(c1, c4) /\ Len(c4) = Len(c1) + 1
      /\ Hang(c4, Ctx.ow, Len(c1) + 1)
  <2>1. "JUMP_IF_FALSE" \in Branches /\ "JUMP_IF_FALSE" \notin {"JUMP_IF_NOT_LT", "FOR_ITER"} BY KindsOfOp
  <2>2. 0 \in Nat /\ ("JUMP_IF_FALSE" \in {"JUMP_IF_NOT_LT", "FOR_ITER"} => Solvent(chunk, Ctx)) BY <2>1
  <2>3. LET c2 == Append(c1, InsIn(Ctx, "JUMP_IF_FALSE", 0, 0, {}, h + 1)) IN
         /\ Fair(c2, W \cup {Len(c1) + 1}, D) /\ Alike(c1, c2) /\ Len(c2) = Len(c1) + 1
         /\ Hang(c2, Ctx.ow, Len(c1) + 1)
    BY <1>1, <1>6, <2>1, <2>2, FairHole
  <2> QED BY <1>3, <2>3
<1> HIDE DEF c4
<1>8. Fair(c5, W \cup {Len(c1) + 1}, D) /\ Alike(c4, c5) /\ Len(c5) = Len(c4) + 1 BY <1>2, <1>7, FairOne
<1>9. Hang(c5, Ctx.ow, Len(c1) + 1)
  <2>1. c4 \in Seq(Instruction) /\ c5 \in Seq(Instruction) BY <1>7, <1>8, FairIs
  <2> QED BY <1>7, <1>8, <2>1, HangOn
<1>10. Alike(c, c5) BY <1>6, <1>7, <1>8, AlikeOn
<1>11. Len(c1) + 1 = Len(c) + 4 /\ Len(c5) = Len(c) + 5 BY <1>1, <1>6, <1>7, <1>8
<1> QED BY <1>4, <1>8, <1>9, <1>10, <1>11

LEMMA SwitchOpenTidy ==
  ASSUME Now, NEW D, Tidy(chunk, open, loopStack, D), SwitchOpen
  PROVE  Tidy(chunk', open', loopStack', D)
<1> DEFINE h == Height + 1
           c == Append(chunk, Ins("CONSTANT", 0, 0, Height))
           c2 == Case(c, h)
           l == Loop(0, h, FALSE, 0)
           j == Len(c) + 4
           a == Here(chunk)
           o == Activation("switch", "case", a, 0, j)
<1>0. /\ Fair(chunk, Holes, D) /\ Height \in Nat /\ Len(chunk) \in Nat /\ a \in Nat /\ a = Len(chunk) + 1
      /\ h \in Nat /\ h >= 1
  BY TidyIs, NowIs DEF Here
<1>1. chunk' = c2 /\ loopStack' = Append(loopStack, l) /\ open' = Append(open, o)
  BY DEF SwitchOpen
<1>2. "switch" \in Kinded /\ "case" \in Armed /\ 0 \in Nat BY DEF Kinded, Armed, LoopKinds
<1>3. Fair(c, Holes, D) BY <1>0, FairPlain
<1> HIDE DEF c
<1>4. j \in Nat BY <1>3, FairIs
<1>5. Fair(c2, Holes \cup {j}, D) /\ Hang(c2, Ctx.ow, j) BY <1>0, <1>3, FairCase
<1> HIDE DEF c2
<1>6. Anchor(c2, D, a, Ctx.ow)
  <2>1. Anchor(chunk, D, a, Ctx.ow) BY <1>0, HereAnchor
  <2> QED BY <1>5, <2>1, AnchorAll
<1> HIDE DEF j, a
<1>7. Fresh(o, "switch", "case", a, 0, j) BY <1>0, <1>2, <1>4, ActivationIs
<1>8. l \in LoopRecord /\ l.breaks = {} /\ l.continues = {} BY <1>0 DEF Loop, LoopRecord
<1> HIDE DEF o, l, h
<1>9. o.kind = "switch" /\ o.arm = "case" /\ o.j = j BY <1>7 DEF Fresh
<1>10. HolesOf(o) = {j} /\ IsLoop(o) BY <1>9, HolesOfIs DEF IsLoop, LoopKinds
<1>11. loopStack' = IF IsLoop(o) THEN Append(loopStack, l) ELSE loopStack BY <1>1, <1>10
<1>12. Holes \cup {j} \subseteq Holes \cup HolesOf(o) /\ \A p \in HolesOf(o) : Hang(c2, Ctx.ow, p)
  BY <1>5, <1>10
<1> QED BY <1>1, <1>5, <1>6, <1>7, <1>8, <1>11, <1>12, FairOpens

(* A case ends by starting the switch again.                               *)
LEMMA FairRestart ==
  ASSUME Now, NEW arm, Inside("switch", arm), NEW D, Tidy(chunk, open, loopStack, D)
  PROVE  Fair(Restart, Holes, D) /\ Alike(chunk, Restart)
<1> DEFINE i1 == Ins("POP", 0, 0, EndHeight)
           i2 == Ins("LOOP", Cur.a, 0, EndHeight - 1)
           c1 == Append(BlockEnd, i1)
<1>0. "switch" \in LoopKinds BY DEF LoopKinds
<1>1. /\ Cur.h \in Nat /\ Cur.a \in Nat /\ Split(locals, scopeDepth - 1, Cur.h + 1) /\ EndHeight = Cur.h + 1
  BY SwitchIs
<1>2. Cur.h + 1 \in Nat /\ EndHeight - 1 = Cur.h /\ EndHeight \in Nat BY <1>1
<1>3. Fair(BlockEnd, Holes, D) /\ Alike(chunk, BlockEnd) BY <1>1, <1>2, FairBlockEnd
<1>4. Neat(i1) BY <1>2, NeatPlain
<1>5. i2 \in Instruction /\ i2 = InsIn(Ctx, "LOOP", Cur.a, 0, {}, Cur.h)
  <2>1. "LOOP" \in Ops BY OpsAre
  <2> QED BY <1>1, <1>2, <2>1, NowIs, InsIs
<1> HIDE DEF i1, i2
<1>6. Restart = Append(c1, i2) BY <1>3, <1>4, <1>5, FairIs, Cat2 DEF Restart, Neat, i1, i2
<1>7. Fair(c1, Holes, D) /\ Alike(BlockEnd, c1) BY <1>3, <1>4, FairOne
<1> HIDE DEF c1
<1>8. Anchor(c1, D, Cur.a, Ctx.ow)
  <2>1. Anchor(chunk, D, Cur.a, Ctx.ow) BY <1>0, FairLoop
  <2> QED BY <1>7, <2>1, AnchorAll
<1>9. Fair(Append(c1, i2), Holes, D) /\ Alike(c1, Append(c1, i2)) BY <1>1, <1>5, <1>7, <1>8, FairBack
<1> QED BY <1>3, <1>6, <1>7, <1>9, AlikeOn

(* The next case begins where the test of the last one lands.              *)
LEMMA FairCaseEnd ==
  ASSUME Now, Inside("switch", "case"), NEW D, Tidy(chunk, open, loopStack, D)
  PROVE  Fair(CaseEnd, Holes \ {Cur.j}, D)
<1>0. "switch" \in LoopKinds BY DEF LoopKinds
<1>1. Fair(Restart, Holes, D) BY FairRestart
<1>2. Cur.kind = "switch" /\ Cur.arm = "case" /\ Cur.h \in Nat /\ EndHeight = Cur.h + 1 BY SwitchIs
<1>3. HolesOf(Cur) = {Cur.j} BY <1>2, HolesOfIs
<1>4. \A q \in {Cur.j} : Hang(chunk, Ctx.ow, q) BY <1>0, <1>3, FairLoop
<1>5. \A q \in {Cur.j} : Hang(Restart, Ctx.ow, q) BY <1>1, <1>4, FairKeeps
<1>6. Fair(Patch(Restart, {Cur.j}), Holes \ {Cur.j}, D) BY <1>1, <1>5, FairPatch
<1>7. EndHeight + 1 \in Nat BY <1>2
<1> QED BY <1>6, <1>7, FairPlain DEF CaseEnd

LEMMA SwitchCaseTidy ==
  ASSUME Now, NEW D, Tidy(chunk, open, loopStack, D), SwitchCase
  PROVE  Tidy(chunk', open', loopStack', D)
<1> DEFINE k == Cur.h + 1
           j == Len(CaseEnd) + 4
           c == Case(CaseEnd, k)
           V == (Holes \ {Cur.j}) \cup {j}
           o2 == [Cur EXCEPT !.j = j]
<1>0. Inside("switch", "case") BY DEF SwitchCase
<1>1. /\ open # <<>> /\ Cur.kind = "switch" /\ Cur.arm = "case" /\ Cur \in Statement
      /\ Cur.h \in Nat /\ EndHeight = k /\ Cur.ctx = Ctx
  BY <1>0, SwitchIs
<1>2. chunk' = c /\ open' = SetLast(open, o2) /\ loopStack' = loopStack
  BY <1>1 DEF SwitchCase
<1>3. k \in Nat /\ k >= 1 BY <1>1
<1>4. Fair(CaseEnd, Holes \ {Cur.j}, D) BY <1>0, FairCaseEnd
<1>5. j \in Nat BY <1>4, FairIs
<1> HIDE DEF k
<1>6. Fair(c, V, D) /\ Hang(c, Ctx.ow, j) BY <1>3, <1>4, FairCase
<1> HIDE DEF c, j
<1>8. /\ o2 \in Statement /\ o2.kind = "switch" /\ o2.arm = "case" /\ o2.a = Cur.a
      /\ o2.n = Cur.n /\ o2.ctx = Cur.ctx /\ o2.j = j
  BY <1>1, <1>5 DEF Statement
<1> HIDE DEF o2
<1>9. HolesOf(o2) = {j} /\ HolesOf(Cur) = {Cur.j} BY <1>1, <1>8, HolesOfIs
<1>10. V \subseteq Holes \cup HolesOf(o2) /\ \A p \in V : p \in HolesOf(Cur) => p \in HolesOf(o2) BY <1>9
<1> HIDE DEF V
<1>11. \A p \in HolesOf(o2) : Hang(c, Ctx.ow, p) BY <1>6, <1>9
<1>12. Cur.kind # "try" /\ o2.kind = Cur.kind /\ o2.ctx = Ctx BY <1>1, <1>8
<1> QED BY <1>1, <1>2, <1>6, <1>8, <1>10, <1>11, <1>12, FairTurns

LEMMA SwitchDefaultTidy ==
  ASSUME Now, NEW D, Tidy(chunk, open, loopStack, D), SwitchDefault
  PROVE  Tidy(chunk', open', loopStack', D)
<1> DEFINE V == Holes \ {Cur.j}
           o2 == [Cur EXCEPT !.arm = "default"]
<1>0. Inside("switch", "case") BY DEF SwitchDefault
<1>1. /\ open # <<>> /\ Cur.kind = "switch" /\ Cur.arm = "case" /\ Cur \in Statement /\ Cur.ctx = Ctx
  BY <1>0, SwitchIs
<1>2. chunk' = CaseEnd /\ open' = SetLast(open, o2) /\ loopStack' = loopStack BY DEF SwitchDefault
<1>3. Fair(CaseEnd, V, D) BY <1>0, FairCaseEnd
<1>4. /\ o2 \in Statement /\ o2.kind = "switch" /\ o2.arm = "default" /\ o2.a = Cur.a
      /\ o2.n = Cur.n /\ o2.ctx = Cur.ctx
  BY <1>1 DEF Statement
<1> HIDE DEF o2
<1>5. HolesOf(Cur) = {Cur.j} /\ HolesOf(o2) = {} BY <1>1, <1>4, HolesOfIs
<1>6. /\ V \subseteq Holes \cup HolesOf(o2) /\ \A p \in V : p \in HolesOf(Cur) => p \in HolesOf(o2)
      /\ \A p \in HolesOf(o2) : Hang(CaseEnd, Ctx.ow, p)
  BY <1>5
<1> HIDE DEF V
<1>7. Cur.kind # "try" /\ o2.kind = Cur.kind /\ o2.ctx = Ctx BY <1>1, <1>4
<1> QED BY <1>1, <1>2, <1>3, <1>4, <1>6, <1>7, FairTurns

LEMMA SwitchCloseTidy ==
  ASSUME Now, NEW D, Tidy(chunk, open, loopStack, D), SwitchClose
  PROVE  Tidy(chunk', open', loopStack', D)
<1> DEFINE h == Cur.h
           k == Cur.h + 1
           l == Last(loopStack)
           left == Patch(Restart, l.breaks)
           c == left \o EndScopeCode(After, scopeDepth - 2)
           V == Holes \ l.breaks
<1>0. "switch" \in LoopKinds BY DEF LoopKinds
<1>1. Inside("switch", "default") BY DEF SwitchClose
<1>2. /\ open # <<>> /\ Cur.kind = "switch" /\ Cur.arm = "default" /\ Cur \in Statement
      /\ h \in Nat /\ Cur.d \in Nat /\ scopeDepth - 2 = Cur.d /\ locals \in Seq(Local)
      /\ k \in 0..Len(locals) /\ Split(locals, Cur.d, h) /\ After = SubSeq(locals, 1, k)
      /\ l.continues = {} /\ IsLoop(Cur)
  BY <1>1, SwitchIs
<1>3. k \in Nat /\ h <= k BY <1>2
<1>4. chunk' = c /\ loopStack' = ButLast(loopStack, 1) /\ open' = ButLast(open, 1)
  BY DEF SwitchClose, Close
<1>5. Fair(Restart, Holes, D) BY <1>1, FairRestart
<1>6. \A q \in l.breaks : Hang(chunk, Ctx.ow, q) BY <1>0, <1>1, FairLoop
<1> HIDE DEF k, l, h
<1>7. \A q \in l.breaks : Hang(Restart, Ctx.ow, q) BY <1>5, <1>6, FairKeeps
<1>8. Fair(left, V, D) BY <1>5, <1>7, FairPatch
<1> HIDE DEF left, V
<1>9. Fair(c, V, D)
  <2>1. Split(SubSeq(locals, 1, k), Cur.d, h) /\ SubSeq(locals, 1, k) \in Seq(Local) /\ Cur.d \in Int
    BY <1>2, <1>3, SplitCut, CutIs
  <2> QED BY <1>2, <1>8, <2>1, FairEnd
<1> HIDE DEF c
<1>10. HolesOf(Cur) = {}
  <2>1. Cur.arm # "case" BY <1>2
  <2> QED BY <1>2, <2>1, HolesOfIs
<1>11. V \subseteq Holes /\ V \cap HolesOf(Cur) = {} /\ V \cap (l.breaks \cup l.continues) = {}
  BY <1>2, <1>10 DEF V
<1>12. loopStack' = IF IsLoop(Cur) THEN ButLast(loopStack, 1) ELSE loopStack BY <1>2, <1>4
<1>13. Cur.kind # "try" BY <1>2
<1> QED BY <1>2, <1>4, <1>9, <1>11, <1>12, <1>13, FairCloses DEF l

----------------------------------------------------------------------------
(* assert: two jumps forward over code that follows at once.               *)

(* One more instruction that raises at most.                               *)
LEMMA ToldOne ==
  ASSUME NEW c, NEW W, NEW D, NEW b, Rises(chunk, D, c, W, Ctx.ow, D, b), NEW i, Neat(i)
  PROVE  Rises(chunk, D, Append(c, i), W, Ctx.ow, D, b) /\ Len(Append(c, i)) = Len(c) + 1
<1> DEFINE t == <<i>>
<1>1. /\ c \in Seq(Instruction) /\ Len(c) \in Nat /\ Alike(chunk, c) /\ i \in Instruction
      /\ t \in Seq(Instruction) /\ DOMAIN t = {1} /\ t[1] = i
  BY RisesAre DEF Neat
<1>2. i.op \in Straight /\ i.ow = Ctx.ow /\ i.hs = Ctx.hs /\ i.op # "RETURN" /\ i.op # "END_FINALLY"
      /\ (i.op \in Fallible => Solvent(c, Ctx)) /\ (i.op = "CALL" => Ctx.ow = {})
  BY <1>1, SolventOn DEF Neat
<1>3. Payable(c, Ctx.ow, i) BY <1>2 DEF Payable, Solvent
<1> HIDE DEF t
<1>4. \A k \in DOMAIN t : t[k].op \in Straight /\ t[k].ow = Ctx.ow /\ Payable(c, Ctx.ow, t[k])
  BY <1>1, <1>2, <1>3
<1>5. Rises(chunk, D, c \o t, W, Ctx.ow, D, b) BY <1>1, <1>4, RisesTail
<1>6. c \o t = Append(c, i) BY <1>1 DEF t
<1> QED BY <1>1, <1>5, <1>6

(* A jump over what follows.                                               *)
LEMMA ToldJump ==
  ASSUME Now, NEW c, NEW W, NEW D, NEW b, Rises(chunk, D, c, W, Ctx.ow, D, b),
         NEW op \in {"JUMP", "JUMP_IF_FALSE"}, NEW q \in Nat, Len(c) + 1 < q, b <= q, NEW h \in Nat
  PROVE  LET c2 == Append(c, Ins(op, q, 0, h)) IN
         Rises(chunk, D, c2, W, Ctx.ow, D, q) /\ Len(c2) = Len(c) + 1
<1> DEFINE i == Ins(op, q, 0, h)
<1>1. Ctx \in Context /\ {} \in SUBSET ErrTypes /\ 0 \in Nat BY NowIs
<1>2. c \in Seq(Instruction) /\ Len(c) \in Nat /\ DOMAIN c = 1..Len(c) /\ Even(c, W, Ctx.ow, D, b)
  BY RisesAre
<1>3. D \subseteq DOMAIN c /\ \A e \in Ctx.ow : e \in DOMAIN c BY <1>2, EvenIs
<1>4. op \in Ops /\ op \in Branches /\ op \notin Fallible \cup {"RETURN", "END_FINALLY"}
  BY OpsAre DEF Branches, Fallible
<1>5. i \in Instruction /\ i.op = op /\ i.x = q /\ i.ow = Ctx.ow BY <1>1, <1>4, MadeIns DEF Ins
<1> HIDE DEF i
<1>6. Payable(c, Ctx.ow, i) BY <1>4, <1>5, QuietPays
<1>7. i.x \notin D /\ i.x > Len(c) + 1 /\ i.op \in Branches /\ i.x <= q BY <1>2, <1>3, <1>4, <1>5
<1>8. \A e \in Ctx.ow : e < i.x BY <1>2, <1>3, <1>5
<1>9. Rises(chunk, D, Append(c, i), W, Ctx.ow, D, q) BY <1>5, <1>6, <1>7, <1>8, RisesJump
<1>10. Len(Append(c, i)) = Len(c) + 1 BY <1>2, <1>5
<1> QED BY <1>9, <1>10 DEF i

LEMMA AssertTidy ==
  ASSUME Now, Accepted, Careful, NEW D, Tidy(chunk, open, loopStack, D), AssertStmt
  PROVE  Tidy(chunk', open', loopStack', D)
<1> DEFINE n == Len(chunk)
           h == Height
           i1 == Ins("CONSTANT", 0, 0, h)
           i2 == Ins("JUMP_IF_FALSE", n + 5, 0, h + 1)
           i3 == Ins("POP", 0, 0, h + 1)
           i4 == Ins("JUMP", n + 9, 0, h)
           i7 == Ins("CONSTANT", 0, 0, h + 1)
           i8 == InsIn(Ctx, "THROW", 0, 0, {"AssertionError"}, h + 2)
           c1 == Append(chunk, i1)
           c2 == Append(c1, i2)
           c3 == Append(c2, i3)
           c4 == Append(c3, i4)
           c5 == Append(c4, i3)
           c6 == Append(c5, i1)
           c7 == Append(c6, i7)
           c8 == Append(c7, i8)
           Raised(c, b) == Rises(chunk, D, c, Holes, Ctx.ow, D, b)
<1>0. /\ Fair(chunk, Holes, D) /\ h \in Nat /\ h + 1 \in Nat /\ h + 2 \in Nat /\ Ctx \in Context
      /\ chunk \in Seq(Instruction) /\ n \in Nat /\ n + 5 \in Nat /\ n + 9 \in Nat
  BY TidyIs, NowIs
<1>1. /\ open' = open /\ loopStack' = loopStack /\ MayRaise
      /\ chunk' = chunk \o <<i1, i2, i3, i4, i3, i1, i7, i8>>
  BY DEF AssertStmt
<1>2. Solvent(chunk, Ctx) BY <1>1, MayPay
<1>3. Neat(i1) /\ Neat(i3) /\ Neat(i7) BY <1>0, NeatPlain
<1>4. Neat(i8)
  <2>1. {"AssertionError"} \in SUBSET ErrTypes BY DEF Accepted
  <2> QED BY <1>0, <1>2, <2>1, NeatRaise
<1>5. i2 \in Instruction /\ i4 \in Instruction
  <2>1. "JUMP" \in Ops /\ "JUMP_IF_FALSE" \in Ops BY OpsAre
  <2> QED BY <1>0, <2>1, InsIs
<1>6. chunk' = c8
  <2> HIDE DEF i1, i2, i3, i4, i7, i8
  <2>1. /\ i1 \in Instruction /\ i2 \in Instruction /\ i3 \in Instruction /\ i4 \in Instruction
        /\ i7 \in Instruction /\ i8 \in Instruction /\ chunk \in Seq(Instruction)
    BY <1>0, <1>3, <1>4, <1>5 DEF Neat
  <2> DEFINE f == <<i1, i2, i3, i4, i3>>
             l == <<i1, i7, i8>>
  <2>2. f \in Seq(Instruction) /\ l \in Seq(Instruction) BY <2>1
  <2>3. <<i1, i2, i3, i4, i3, i1, i7, i8>> = f \o l BY <2>1
  <2>4. chunk \o f = c5 /\ chunk \o f \in Seq(Instruction) BY SMTT(60), <2>1, <2>2, Cat5
  <2> HIDE DEF c5
  <2>5. (chunk \o f) \o l = c8
    <3>1. c5 \in Seq(Instruction) BY <2>4
    <3>2. c5 \o l = c8 BY <2>1, <3>1, Cat3
    <3> QED BY <2>4, <3>2
  <2>6. (chunk \o f) \o l = chunk \o (f \o l)
    <3> HIDE DEF f, l
    <3> QED BY <2>1, <2>2
  <2> QED BY <1>1, <2>3, <2>5, <2>6
<1>7. Raised(chunk, n + 1) BY <1>0 DEF Fair
<1> HIDE DEF i1, i3, i7, i8
<1>8. Raised(c1, n + 1) /\ Len(c1) = n + 1 BY <1>3, <1>7, ToldOne
<1> HIDE DEF c1
<1>9. Raised(c2, n + 5) /\ Len(c2) = n + 2
  <2>1. Len(c1) + 1 < n + 5 /\ n + 1 <= n + 5 /\ Len(c1) + 1 = n + 2 BY <1>0, <1>8
  <2> HIDE DEF n, h
  <2>2. LET d2 == Append(c1, Ins("JUMP_IF_FALSE", n + 5, 0, h + 1)) IN
        Rises(chunk, D, d2, Holes, Ctx.ow, D, n + 5) /\ Len(d2) = Len(c1) + 1
    BY <1>0, <1>8, <2>1, ToldJump
  <2> QED BY <2>1, <2>2
<1> HIDE DEF c2, i2
<1>10. Raised(c3, n + 5) /\ Len(c3) = n + 3
  <2>1. Raised(c3, n + 5) /\ Len(c3) = Len(c2) + 1 BY <1>3, <1>9, ToldOne
  <2> QED BY <1>0, <1>9, <2>1
<1> HIDE DEF c3
<1>11. Raised(c4, n + 9) /\ Len(c4) = n + 4
  <2>1. Len(c3) + 1 < n + 9 /\ n + 5 <= n + 9 /\ Len(c3) + 1 = n + 4 BY <1>0, <1>10
  <2> HIDE DEF n, h
  <2>2. LET d2 == Append(c3, Ins("JUMP", n + 9, 0, h)) IN
        Rises(chunk, D, d2, Holes, Ctx.ow, D, n + 9) /\ Len(d2) = Len(c3) + 1
    BY <1>0, <1>10, <2>1, ToldJump
  <2> QED BY <2>1, <2>2
<1> HIDE DEF c4, i4
<1>12. Raised(c5, n + 9) /\ Len(c5) = Len(c4) + 1 BY <1>3, <1>11, ToldOne
<1> HIDE DEF c5
<1>13. Raised(c6, n + 9) /\ Len(c6) = Len(c5) + 1 BY <1>3, <1>12, ToldOne
<1> HIDE DEF c6
<1>14. Raised(c7, n + 9) /\ Len(c7) = Len(c6) + 1 BY <1>3, <1>13, ToldOne
<1> HIDE DEF c7
<1>15. Raised(c8, n + 9) /\ Len(c8) = Len(c7) + 1 BY <1>4, <1>14, ToldOne
<1> HIDE DEF c8
<1>16. Len(c8) + 1 = n + 9 BY <1>0, <1>11, <1>12, <1>13, <1>14, <1>15
<1>17. Fair(c8, Holes, D) BY <1>15, <1>16 DEF Fair
<1> QED BY <1>1, <1>6, <1>17, TidyAdded

----------------------------------------------------------------------------
(* break and continue.  They do not leave a block that owes more.          *)

LEMMA LoopOwes ==
  ASSUME Now, loopStack # <<>>, ~CrossesTry, NEW D, Tidy(chunk, open, loopStack, D)
  PROVE  /\ open[InnerLoop].ctx.ow = Ctx.ow
         /\ \A i \in DOMAIN open :
              IsLoop(open[i]) /\ open[i].n + 1 = Len(loopStack) => open[i].ctx.ow = Ctx.ow
<1> DEFINE I == InnerLoop
           N == Len(open)
<1>1. /\ open \in Seq(Statement) /\ locals \in Seq(Local) /\ scopeDepth \in Nat
      /\ loopStack \in Seq(LoopRecord)
      /\ Nesting(open, locals, scopeDepth, loopStack) /\ Ctx = Innermost(open)
  BY NowIs
<1>2. I \in DOMAIN open /\ IsLoop(open[I]) /\ open[I].n + 1 = Len(loopStack) BY LoopHere
<1>3. DOMAIN open = 1..N /\ N \in Nat /\ I \in Nat /\ I <= N /\ N \in DOMAIN open /\ open # <<>>
  BY <1>1, <1>2
<1>4. Ctx = open[N].ctx BY <1>1, <1>3 DEF Innermost, Last
<1>5. \A j \in (I + 1)..N : ~Crosses(open[j]) BY DEF CrossesTry, Crosses
<1> HIDE DEF I, N
<1>6. open[N].ctx.ow = open[I].ctx.ow
  <2>1. Chained(open) BY TidyIs
  <2> QED BY <1>2, <1>3, <1>5, <2>1 DEF Chained
<1>7. ASSUME NEW i \in DOMAIN open, IsLoop(open[i]), open[i].n + 1 = Len(loopStack) PROVE i = I
  <2>1. i \in Nat /\ open[i] \in Statement /\ open[I] \in Statement BY <1>1, <1>2, <1>3, <1>7
  <2>2. open[i].n = open[I].n /\ open[i].n \in Nat /\ open[I].n \in Nat BY <1>1, <1>2, <1>7, <2>1, ExtraIs
  <2>3. Beyond(open[i]) = 1 /\ Beyond(open[I]) = 1 BY <1>2, <1>7 DEF Beyond
  <2>4. i < I => open[I].n >= open[i].n + Beyond(open[i]) BY <1>1, <1>2, <1>7, NestingIs
  <2>5. I < i => open[i].n >= open[I].n + Beyond(open[I]) BY <1>1, <1>2, <1>7, NestingIs
  <2>6. ~(i < I) /\ ~(I < i) BY <2>2, <2>3, <2>4, <2>5
  <2> QED BY <1>3, <2>1, <2>6
<1> QED BY <1>4, <1>6, <1>7 DEF I

LEMMA FairToLoop ==
  ASSUME Now, loopStack # <<>>, NEW D, Tidy(chunk, open, loopStack, D)
  PROVE  Fair(chunk \o Pops(LoopPops, Height), Holes, D) /\ Last(loopStack).count \in Nat
<1> DEFINE k == Last(loopStack).count
<1>1. k \in Nat /\ k <= Height /\ Height \in Nat BY LoopHere
<1>2. LoopPops \in Nat /\ LoopPops <= Height BY <1>1 DEF LoopPops
<1>3. Fair(chunk, Holes, D) BY TidyIs
<1> QED BY <1>1, <1>2, <1>3, FairPops

(* A jump left to the innermost loop to patch.                             *)
LEMMA FairLeft ==
  ASSUME Now, loopStack # <<>>, ~CrossesTry, NEW D, Tidy(chunk, open, loopStack, D),
         NEW p, NEW c2, Fair(c2, Holes \cup {p}, D), Hang(c2, Ctx.ow, p), NEW l2,
         Last(loopStack).breaks \subseteq l2.breaks, Last(loopStack).continues \subseteq l2.continues,
         l2.breaks \cup l2.continues = Last(loopStack).breaks \cup Last(loopStack).continues \cup {p}
  PROVE  Tidy(c2, open, SetLast(loopStack, l2), D)
<1> DEFINE lp == loopStack
           lp2 == SetLast(loopStack, l2)
           N == Len(loopStack)
           W == Holes \cup {p}
<1>1. /\ open \in Seq(Statement) /\ locals \in Seq(Local) /\ scopeDepth \in Nat
      /\ lp \in Seq(LoopRecord)
      /\ Nesting(open, locals, scopeDepth, lp) /\ Ctx = Innermost(open)
  BY NowIs
<1>2. /\ N \in Nat /\ N >= 1 /\ DOMAIN lp = 1..N /\ N \in DOMAIN lp /\ DOMAIN lp2 = DOMAIN lp /\ lp2[N] = l2
      /\ Last(lp) = lp[N] /\ \A q \in DOMAIN lp : q # N => lp2[q] = lp[q]
  BY <1>1 DEF SetLast, Last
<1> HIDE DEF lp2, N
<1>3. W \subseteq HolesIn(open, lp2)
  <2>1. l2.breaks \cup l2.continues \subseteq HolesIn(open, lp2) BY <1>2 DEF HolesIn
  <2>2. \A q \in DOMAIN lp : lp[q].breaks \cup lp[q].continues \subseteq lp2[q].breaks \cup lp2[q].continues
    BY <1>2
  <2>3. Holes \subseteq HolesIn(open, lp2) BY <1>2, <2>2 DEF Holes, HolesIn
  <2> QED BY <2>1, <2>3
<1>4. Rises(chunk, D, c2, W, Innermost(open).ow, D, Len(c2) + 1) BY <1>1 DEF Fair
<1>5. ASSUME NEW i \in DOMAIN open, IsLoop(open[i])
      PROVE  Longer(c2, lp[open[i].n + 1], lp2[open[i].n + 1], open[i].ctx.ow)
  <2>1. open[i].n + 1 \in DOMAIN lp BY <1>1, <1>5, NestingIs
  <2>2. CASE open[i].n + 1 = N
    <3>1. open[i].ctx.ow = Ctx.ow BY <1>5, <2>2, LoopOwes DEF N
    <3>2. lp[open[i].n + 1] = Last(lp) /\ lp2[open[i].n + 1] = l2 BY <1>2, <2>2
    <3>3. Longer(c2, Last(lp), l2, Ctx.ow) BY DEF Longer
    <3> QED BY <3>1, <3>2, <3>3
  <2>3. CASE open[i].n + 1 # N
    <3>1. lp2[open[i].n + 1] = lp[open[i].n + 1] BY <1>2, <2>1, <2>3
    <3> QED BY <3>1, LongerIs
  <2> QED BY <2>2, <2>3
<1>6. \A i \in DOMAIN open :
        \/ Keeping(c2, D, open[i], Outer(open, i), lp2[open[i].n + 1])
        \/ /\ i \in DOMAIN open /\ open[i] = open[i] /\ Outer(open, i) = Outer(open, i)
           /\ IsLoop(open[i]) => Longer(c2, lp[open[i].n + 1], lp2[open[i].n + 1], open[i].ctx.ow)
  BY <1>5
<1>7. Chained(open) /\ Tidy(chunk, open, lp, D) BY TidyIs
<1> HIDE DEF lp, W
<1>8. Tidy(c2, open, lp2, D) BY ONLY <1>3, <1>4, <1>6, <1>7, TidyMade
<1> QED BY <1>8 DEF lp2

LEMMA BreakTidy ==
  ASSUME Now, Tame, NEW D, Tidy(chunk, open, loopStack, D), Break
  PROVE  Tidy(chunk', open', loopStack', D)
<1> DEFINE c == chunk \o Pops(LoopPops, Height)
           l == Last(loopStack)
           l2 == [l EXCEPT !.breaks = @ \cup {Here(c)}]
           c2 == Append(c, Ins("JUMP", 0, 0, l.count))
<1>1. /\ open' = open /\ loopStack # <<>> /\ ~CrossesTry
      /\ chunk' = c2 /\ loopStack' = SetLast(loopStack, l2)
  BY DEF Break, Risky, Tame, Harmful
<1>2. Fair(c, Holes, D) /\ l.count \in Nat BY <1>1, FairToLoop
<1>3. l \in LoopRecord BY <1>1, LoopHere
<1> HIDE DEF c, l
<1>4. Fair(c2, Holes \cup {Here(c)}, D) /\ Hang(c2, Ctx.ow, Here(c)) BY <1>2, FairJump DEF Here
<1>5. /\ l.breaks \subseteq l2.breaks /\ l.continues \subseteq l2.continues
      /\ l2.breaks \cup l2.continues = l.breaks \cup l.continues \cup {Here(c)}
  BY <1>3 DEF LoopRecord
<1> HIDE DEF c2, l2
<1>6. Tidy(c2, open, SetLast(loopStack, l2), D) BY <1>1, <1>4, <1>5, FairLeft DEF l
<1> QED BY <1>1, <1>6

LEMMA ContinueTidy ==
  ASSUME Now, Tame, NEW D, Tidy(chunk, open, loopStack, D), Continue
  PROVE  Tidy(chunk', open', loopStack', D)
<1> DEFINE c == chunk \o Pops(LoopPops, Height)
           l == Last(loopStack)
           l2 == [l EXCEPT !.continues = @ \cup {Here(c)}]
           c2 == Append(c, Ins("JUMP", 0, 0, l.count))
           c3 == Append(c, Ins("LOOP", l.step, 0, l.count))
           o == open[InnerLoop]
<1>1. /\ open' = open /\ loopStack # <<>> /\ ~CrossesTry
      /\ IF l.step = 0 THEN chunk' = c2 /\ loopStack' = SetLast(loopStack, l2)
         ELSE chunk' = c3 /\ loopStack' = loopStack
  BY DEF Continue, Risky, Tame, Harmful
<1>2. Fair(c, Holes, D) /\ l.count \in Nat BY <1>1, FairToLoop
<1>3. /\ l \in LoopRecord /\ o \in Statement /\ IsLoop(o) /\ LoopOK(o, l, locals) /\ InnerLoop \in DOMAIN open
      /\ l.step \in Nat /\ o.ctx.ow = Ctx.ow
  <2>1. l \in LoopRecord /\ o \in Statement /\ IsLoop(o) /\ LoopOK(o, l, locals) /\ InnerLoop \in DOMAIN open
    BY <1>1, LoopHere
  <2>2. o.ctx.ow = Ctx.ow BY <1>1, LoopOwes
  <2> HIDE DEF l, o
  <2> QED BY <2>1, <2>2, LoopIs
<1>4. CASE l.step = 0
  <2> HIDE DEF c, l, o
  <2>1. Fair(c2, Holes \cup {Here(c)}, D) /\ Hang(c2, Ctx.ow, Here(c)) BY <1>2, FairJump DEF Here
  <2>2. /\ l.breaks \subseteq l2.breaks /\ l.continues \subseteq l2.continues
        /\ l2.breaks \cup l2.continues = l.breaks \cup l.continues \cup {Here(c)}
    BY <1>3 DEF LoopRecord
  <2> HIDE DEF c2, l2
  <2>3. Tidy(c2, open, SetLast(loopStack, l2), D) BY <1>1, <2>1, <2>2, FairLeft DEF l
  <2> QED BY <1>1, <1>4, <2>3
<1>5. CASE l.step # 0
  <2>1. Keeping(chunk, D, o, Outer(open, InnerLoop), loopStack[o.n + 1]) BY <1>3, TidyIs
  <2>2. Anchor(chunk, D, o.a, Ctx.ow) BY <1>3, <2>1 DEF Keeping
  <2>3. l.step = o.a
    <3> HIDE DEF l, o
    <3> QED BY <1>3, <1>5 DEF LoopOK
  <2>4. Anchor(c, D, l.step, Ctx.ow) BY <1>2, <2>2, <2>3, AnchorAll
  <2> HIDE DEF c, l, o
  <2>5. c3 = Append(c, InsIn(Ctx, "LOOP", l.step, 0, {}, l.count)) BY DEF Ins
  <2> HIDE DEF c3
  <2>6. Fair(c3, Holes, D) BY <1>2, <2>4, <2>5, FairBack
  <2> QED BY <1>1, <1>5, <2>6, TidyAdded
<1> QED BY <1>4, <1>5

----------------------------------------------------------------------------
(* return.  The finally block it enters is the only one it owes.           *)

LEMMA KeepingReturns ==
  ASSUME NEW c, NEW D, NEW o \in Statement, NEW out, NEW l, Keeping(c, D, o, out, l), out.ow = {}
  PROVE  Keeping(c, D, [o EXCEPT !.ret = TRUE], out, l)
<1> DEFINE o2 == [o EXCEPT !.ret = TRUE]
<1>1. /\ o2.kind = o.kind /\ o2.arm = o.arm /\ o2.a = o.a /\ o2.b = o.b /\ o2.j = o.j
      /\ o2.jumps = o.jumps /\ o2.ctx = o.ctx /\ o2.fin = o.fin /\ o2.all = o.all
  BY DEF Statement
<1> HIDE DEF o2
<1>2. (Owes(o2) <=> Owes(o)) /\ (IsLoop(o2) <=> IsLoop(o)) BY <1>1 DEF Owes, IsLoop
<1>3. HolesOf(o2) = HolesOf(o) BY <1>1 DEF HolesOf, InBody
<1>4. o2.ctx.ow = IF Owes(o2) THEN out.ow \cup {o2.a} ELSE out.ow BY <1>1, <1>2 DEF Keeping
<1>5. o2.kind = "try" =>
       /\ o2.a \in DOMAIN c /\ c[o2.a].ow = out.ow
       /\ o2.arm = "body" => ~o2.all
       /\ o2.ret => out.ow = {}
       /\ o2.arm = "catch" =>
            /\ o2.j \in DOMAIN c /\ Verdict(c, o2.j) /\ c[o2.j].ow \subseteq o2.ctx.ow
            /\ o2.all => Sure(c, o2.j) \/ o2.j \in D
            /\ \A p \in o2.jumps \cup {o2.b} : Hang(c, o2.ctx.ow, p)
  BY <1>1 DEF Keeping
<1>6. o2.kind # "try" => \A p \in HolesOf(o2) : Hang(c, o2.ctx.ow, p) BY <1>1, <1>3 DEF Keeping
<1>7. IsLoop(o2) =>
       /\ Anchor(c, D, o2.a, o2.ctx.ow)
       /\ \A p \in l.breaks \cup l.continues : Hang(c, o2.ctx.ow, p)
  BY <1>1, <1>2 DEF Keeping
<1> QED BY <1>4, <1>5, <1>6, <1>7 DEF Keeping, o2

(* A return pays: it owes nothing, or the one block that it enters.        *)
LEMMA ReturnPays ==
  ASSUME Now, Careful, ReturnStmt
  PROVE  /\ IF Ctx.hs = <<>> THEN Ctx.ow = {} ELSE Ctx.ow \subseteq {Top(Ctx.hs)}
         /\ Interceptor # 0 =>
              /\ Interceptor \in DOMAIN open /\ InBody(open[Interceptor]) /\ open[Interceptor].fin
              /\ Ctx.ow \subseteq {open[Interceptor].a}
<1>1. Ctx.ow = {} \/ (Interceptor # 0 /\ Ctx.ow = {open[Interceptor].a})
  BY DEF ReturnStmt, Risky, Careful
<1>2. \/ Interceptor = 0 /\ Ctx.hs = <<>>
      \/ \E i \in DOMAIN open :
           /\ InBody(open[i]) /\ Ctx.hs # <<>> /\ Top(Ctx.hs) = open[i].a
           /\ Interceptor = IF open[i].fin THEN i ELSE 0
  <2>1. Ctx = Innermost(open) BY NowIs
  <2> QED BY <2>1, InterceptorIs DEF Now
<1>3. CASE Interceptor = 0 /\ Ctx.hs = <<>> BY <1>1, <1>3
<1>4. CASE \E i \in DOMAIN open :
           /\ InBody(open[i]) /\ Ctx.hs # <<>> /\ Top(Ctx.hs) = open[i].a
           /\ Interceptor = IF open[i].fin THEN i ELSE 0
  <2>1. PICK i \in DOMAIN open :
           /\ InBody(open[i]) /\ Ctx.hs # <<>> /\ Top(Ctx.hs) = open[i].a
           /\ Interceptor = IF open[i].fin THEN i ELSE 0
    BY <1>4
  <2>2. CASE open[i].fin
    <3>1. Interceptor = i BY <2>1, <2>2
    <3> QED BY <1>1, <2>1, <2>2, <3>1
  <2>3. CASE ~open[i].fin
    <3>1. Interceptor = 0 BY <2>1, <2>3
    <3> QED BY <1>1, <2>1, <3>1
  <2> QED BY <2>2, <2>3
<1> QED BY <1>2, <1>3, <1>4

LEMMA ReturnTidy ==
  ASSUME Now, Careful, NEW D, Tidy(chunk, open, loopStack, D), ReturnStmt
  PROVE  Tidy(chunk', open', loopStack', D)
<1> DEFINE i1 == Ins("CONSTANT", 0, 0, Height)
           i2 == Ins("RETURN", 0, 0, Height + 1)
           c1 == Append(chunk, i1)
           c2 == Append(c1, i2)
           I == Interceptor
           o == open[I]
           os2 == [open EXCEPT ![I].ret = TRUE]
<1>0. /\ Ctx \in Context /\ Ctx = Innermost(open) /\ Height \in Nat /\ Height + 1 \in Nat
      /\ open \in Seq(Statement) /\ Contexts(open) /\ chunk \in Seq(Instruction)
      /\ Fair(chunk, Holes, D) /\ Chained(open)
  BY TidyIs, NowIs
<1>1. /\ loopStack' = loopStack /\ open' = IF I = 0 THEN open ELSE os2
      /\ chunk' = chunk \o <<i1, i2>>
  BY DEF ReturnStmt
<1>2. Neat(i1) BY <1>0, NeatPlain
<1>3. i2 \in Instruction /\ i2.op = "RETURN" /\ i2.ow = Ctx.ow /\ i2.hs = Ctx.hs
  <2>1. "RETURN" \in Ops /\ {} \in SUBSET ErrTypes /\ 0 \in Nat BY OpsAre DEF Ops
  <2> QED BY <1>0, <2>1, MadeIns DEF Ins
<1> HIDE DEF i1, i2
<1>4. chunk' = c2 BY <1>0, <1>1, <1>2, <1>3, Cat2 DEF Neat
<1>5. Fair(c1, Holes, D) BY <1>0, <1>2, FairOne
<1> HIDE DEF c1
<1>6. Fair(c2, Holes, D)
  <2> DEFINE t == <<i2>>
  <2>1. c1 \in Seq(Instruction) /\ Len(c1) \in Nat BY <1>5, FairIs
  <2>2. t \in Seq(Instruction) /\ DOMAIN t = {1} /\ t[1] = i2 BY <1>3
  <2>3. Payable(c1, Ctx.ow, i2)
    <3>1. i2.op \notin Fallible /\ i2.op # "CALL" /\ i2.op # "END_FINALLY" BY <1>3 DEF Fallible
    <3>2. IF i2.hs = <<>> THEN Ctx.ow = {} ELSE Ctx.ow \subseteq {Top(i2.hs)} BY <1>3, ReturnPays
    <3> QED BY <3>1, <3>2 DEF Payable
  <2>4. i2.op \in Straight BY <1>3, OpsAre DEF Straight, Branches, Ops
  <2> HIDE DEF t
  <2>5. \A k \in DOMAIN t : t[k].op \in Straight /\ t[k].ow = Ctx.ow /\ Payable(c1, Ctx.ow, t[k])
    BY <1>3, <2>2, <2>3, <2>4
  <2>6. Rises(chunk, D, c1 \o t, Holes, Ctx.ow, D, Len(c1) + 1) BY <1>5, <2>2, <2>5, RisesTail DEF Fair
  <2>7. c1 \o t = c2 BY <1>3, <2>1 DEF t
  <2>8. Len(c2) + 1 \in Nat /\ Len(c1) + 1 <= Len(c2) + 1 BY <1>3, <2>1
  <2> HIDE DEF c2
  <2>9. Rises(chunk, D, c2, Holes, Ctx.ow, D, Len(c2) + 1) BY <2>6, <2>7, <2>8, RisesMore
  <2> QED BY <2>9 DEF Fair
<1> HIDE DEF c2
<1>7. CASE I = 0 BY <1>1, <1>4, <1>6, <1>7, TidyAdded
<1>8. CASE I # 0
  <2>1. I \in DOMAIN open /\ InBody(o) /\ o.fin /\ Ctx.ow \subseteq {o.a} BY <1>8, ReturnPays
  <2>2. SameButReturns(open, os2) BY <1>0, <2>1, ReturnNoted
  <2>3. /\ Innermost(os2) = Innermost(open)
        /\ \A i \in DOMAIN open : Outer(os2, i) = Outer(open, i)
    BY <1>0, <2>2, ContextsReturns
  <2>4. DOMAIN os2 = DOMAIN open /\ DOMAIN open = 1..Len(open) /\ Len(open) \in Nat
    BY <1>0, <2>2 DEF SameButReturns
  <2>5. ASSUME NEW i \in DOMAIN open PROVE HolesOf(os2[i]) = HolesOf(open[i])
    <3>1. /\ os2[i].kind = open[i].kind /\ os2[i].arm = open[i].arm /\ os2[i].a = open[i].a
          /\ os2[i].b = open[i].b /\ os2[i].j = open[i].j /\ os2[i].jumps = open[i].jumps
      BY <2>2 DEF SameButReturns
    <3> HIDE DEF os2
    <3> QED BY <3>1 DEF HolesOf, InBody
  <2>6. HolesIn(os2, loopStack) = Holes
    <3>1. {HolesOf(os2[i]) : i \in DOMAIN os2} = {HolesOf(open[i]) : i \in DOMAIN open} BY <2>4, <2>5
    <3> QED BY <3>1 DEF HolesIn, Holes
  <2>7. \A i \in DOMAIN open :
          os2[i].ctx = open[i].ctx /\ (~Crosses(os2[i]) => ~Crosses(open[i]))
    BY <2>2 DEF SameButReturns, Crosses
  <2>8. \A i \in DOMAIN open : i # I => os2[i] = open[i]
    BY <1>0, <2>1
  <2>9. os2[I] = [o EXCEPT !.ret = TRUE] BY <1>0, <2>1
  <2> HIDE DEF os2, o, I
  <2>10. Chained(os2)
    <3> SUFFICES ASSUME NEW i \in DOMAIN os2, NEW k \in DOMAIN os2, i <= k
                 PROVE  /\ os2[i].ctx.ow \subseteq os2[k].ctx.ow
                        /\ (\A j \in (i + 1)..k : ~Crosses(os2[j])) => os2[k].ctx.ow = os2[i].ctx.ow
      BY DEF Chained
    <3>1. \A j \in (i + 1)..k : j \in DOMAIN open BY <2>4
    <3>2. (\A j \in (i + 1)..k : ~Crosses(os2[j])) => \A j \in (i + 1)..k : ~Crosses(open[j])
      BY <2>7, <3>1
    <3>3. i \in DOMAIN open /\ k \in DOMAIN open BY <2>4
    <3>4. /\ open[i].ctx.ow \subseteq open[k].ctx.ow
          /\ (\A j \in (i + 1)..k : ~Crosses(open[j])) => open[k].ctx.ow = open[i].ctx.ow
      BY <1>0, <3>3 DEF Chained
    <3>5. os2[i].ctx = open[i].ctx /\ os2[k].ctx = open[k].ctx BY <2>7, <3>3
    <3> QED BY <3>2, <3>4, <3>5
  <2> DEFINE out == Outer(open, I)
             l == loopStack[o.n + 1]
  <2>11. o \in Statement /\ o = open[I] BY <1>0, <2>1 DEF o
  <2>12. Keeping(chunk, D, o, out, l) BY <2>1, <2>11, TidyIs
  <2>13. out.ow = {}
    <3>1. Owes(o) BY <2>1 DEF Owes, InBody
    <3>2. o.kind = "try" BY <2>1 DEF InBody
    <3> HIDE DEF out, l
    <3>3. o.ctx.ow = out.ow \cup {o.a} /\ o.a \in DOMAIN chunk /\ chunk[o.a].ow = out.ow
      BY <2>12, <3>1, <3>2 DEF Keeping
    <3>4. o.ctx.ow \subseteq Ctx.ow
      <4>1. open # <<>> /\ Len(open) \in DOMAIN open /\ I \in Nat /\ I <= Len(open) BY <2>1, <2>4
      <4>2. Ctx = open[Len(open)].ctx BY <1>0, <4>1 DEF Innermost, Last
      <4> QED BY <1>0, <2>1, <2>11, <4>1, <4>2 DEF Chained
    <3>5. chunk[o.a].ow \subseteq 1..(o.a - 1) /\ o.a \in Nat
      <4>1. Even(chunk, Holes, Ctx.ow, D, Len(chunk) + 1) BY <1>0, FairIs
      <4>2. EvenAt(chunk, Holes, Ctx.ow, D, Len(chunk) + 1, o.a) /\ o.a \in Nat BY <3>3, <4>1, EvenIs
      <4> QED BY <4>2 DEF EvenAt
    <3>6. o.a \notin out.ow BY <3>3, <3>5
    <3> QED BY <2>1, <3>3, <3>4, <3>6
  <2>14. Keeping(c2, D, os2[I], Outer(os2, I), loopStack[os2[I].n + 1])
    <3>1. /\ chunk \in Seq(Instruction) /\ c2 \in Seq(Instruction) /\ Alike(chunk, c2)
          /\ Len(chunk) <= Len(c2) /\ Lasting(chunk, D, c2, D) /\ D \subseteq D
      BY <1>6, FairIs
    <3>2. IsLoop(o) => Longer(c2, l, l, o.ctx.ow) BY LongerIs
    <3> HIDE DEF out, l
    <3>3. Keeping(c2, D, o, out, l) BY ONLY <2>12, <3>1, <3>2, KeepingKept
    <3>4. Keeping(c2, D, [o EXCEPT !.ret = TRUE], out, l) BY <2>11, <2>13, <3>3, KeepingReturns
    <3>5. os2[I].n = o.n BY <2>9, <2>11 DEF Statement
    <3> QED BY <2>1, <2>3, <2>9, <3>4, <3>5 DEF out, l
  <2>15. \A i \in DOMAIN os2 :
        \/ Keeping(c2, D, os2[i], Outer(os2, i), loopStack[os2[i].n + 1])
        \/ /\ i \in DOMAIN open /\ os2[i] = open[i] /\ Outer(os2, i) = Outer(open, i)
           /\ IsLoop(open[i]) => Longer(c2, loopStack[open[i].n + 1], loopStack[os2[i].n + 1], open[i].ctx.ow)
    <3> SUFFICES ASSUME NEW i \in DOMAIN os2, i # I
          PROVE  /\ i \in DOMAIN open /\ os2[i] = open[i] /\ Outer(os2, i) = Outer(open, i)
                 /\ IsLoop(open[i]) =>
                      Longer(c2, loopStack[open[i].n + 1], loopStack[os2[i].n + 1], open[i].ctx.ow)
      BY <2>14
    <3>1. i \in DOMAIN open /\ os2[i] = open[i] BY <2>4, <2>8
    <3> QED BY <2>3, <3>1, LongerIs
  <2>16. Tidy(c2, os2, loopStack, D)
    <3>1. Tidy(chunk, open, loopStack, D) OBVIOUS
    <3>2. Holes \subseteq HolesIn(os2, loopStack) BY <2>6
    <3>3. Rises(chunk, D, c2, Holes, Innermost(os2).ow, D, Len(c2) + 1) BY <1>0, <1>6, <2>3 DEF Fair
    <3> DEFINE lp2 == loopStack
    <3>4. \A i \in DOMAIN os2 :
        \/ Keeping(c2, D, os2[i], Outer(os2, i), lp2[os2[i].n + 1])
        \/ /\ i \in DOMAIN open /\ os2[i] = open[i] /\ Outer(os2, i) = Outer(open, i)
           /\ IsLoop(open[i]) => Longer(c2, loopStack[open[i].n + 1], lp2[open[i].n + 1], open[i].ctx.ow)
      BY <2>15
    <3>5. Holes \subseteq HolesIn(os2, lp2) /\ lp2 = loopStack BY <3>2
    <3> HIDE DEF lp2
    <3>6. Tidy(c2, os2, lp2, D) BY ONLY <2>10, <3>1, <3>3, <3>4, <3>5, TidyMade
    <3> QED BY <3>5, <3>6
  <2> QED BY <1>1, <1>4, <1>8, <2>16 DEF os2, I
<1> QED BY <1>7, <1>8

----------------------------------------------------------------------------
(* try.  The statement that has a finally block owes it from the next      *)
(* instruction on.                                                         *)

LEMMA TryOpenTidy ==
  ASSUME Now, Tame, NEW D, Tidy(chunk, open, loopStack, D), TryOpen
  PROVE  Tidy(chunk', open', loopStack', D)
<1> DEFINE at == Here(chunk)
           i == InsIn(Ctx, "TRY_ENTER", 0, 0, {}, Height)
           c == Append(chunk, i)
           V == Holes \cup {at}
           l == Loop(0, Height, FALSE, 0)
           a == Activation("try", "body", at, 0, 0)
<1>0. /\ Ctx \in Context /\ Height \in Nat /\ Len(chunk) \in Nat /\ at \in Nat /\ at = Len(chunk) + 1
      /\ chunk \in Seq(Instruction) /\ Fair(chunk, Holes, D)
  BY NowIs, TidyIs DEF Here
<1>1. PICK fin \in BOOLEAN :
        open' = Append(open, [a EXCEPT !.fin = fin,
                  !.ctx = [hs |-> Append(Ctx.hs, at),
                           ow |-> IF fin THEN Ctx.ow \cup {at} ELSE Ctx.ow, rf |-> Ctx.rf]])
  BY DEF TryOpen
<1> DEFINE ctx == [hs |-> Append(Ctx.hs, at), ow |-> IF fin THEN Ctx.ow \cup {at} ELSE Ctx.ow, rf |-> Ctx.rf]
           o == [a EXCEPT !.fin = fin, !.ctx = ctx]
<1>2. open' = Append(open, o) /\ loopStack' = loopStack /\ chunk' = c
  BY <1>1 DEF TryOpen, Ins
<1>3. Ctx.rf = 0 BY DEF TryOpen, Risky, Tame, Harmful
<1>4. Ctx.hs \in Seq(Nat) /\ Ctx.ow \in SUBSET Nat BY <1>0 DEF Context
<1>5. /\ ctx \in Context /\ ctx.hs = Append(Ctx.hs, at) /\ ctx.rf = 0
      /\ ctx.ow = IF fin THEN Ctx.ow \cup {at} ELSE Ctx.ow
  BY <1>0, <1>3, <1>4 DEF Context
<1> HIDE DEF ctx
<1>6. "try" \in Kinded /\ "body" \in Armed /\ 0 \in Nat BY DEF Kinded, Armed
<1>7. Fresh(a, "try", "body", at, 0, 0) /\ a.all = FALSE BY <1>0, <1>6, ActivationIs DEF Activation
<1> HIDE DEF a
<1>8. /\ o \in Statement /\ o.kind = "try" /\ o.arm = "body" /\ o.a = at /\ o.ctx = ctx /\ o.ret = FALSE
      /\ o.all = FALSE /\ o.fin = fin /\ o.n = Len(loopStack)
  BY <1>5, <1>7 DEF Fresh, Statement
<1> HIDE DEF o
<1>9. i \in Instruction /\ i.op = "TRY_ENTER" /\ i.y = 0 /\ i.ow = Ctx.ow /\ i.hs = Ctx.hs
  <2>1. "TRY_ENTER" \in Ops /\ {} \in SUBSET ErrTypes /\ 0 \in Nat BY OpsAre
  <2>2. Ctx \in Context /\ Height \in Nat BY <1>0
  <2> QED BY ONLY <2>1, <2>2, MadeIns
<1> HIDE DEF i
<1>10. Payable(chunk, Ctx.ow, i)
  <2>1. i.op \notin Fallible \cup {"RETURN", "END_FINALLY"} BY <1>9 DEF Fallible
  <2> QED BY <2>1, QuietPays
<1>11. /\ Rises(chunk, D, c, Holes \cup {Len(chunk) + 1}, Ctx.ow, D, Len(chunk) + 1)
       /\ c[Len(chunk) + 1] = i /\ Len(chunk) + 1 \in DOMAIN c
  BY <1>0, <1>9, <1>10, RisesHole DEF Fair
<1>12. Len(c) = Len(chunk) + 1 /\ Len(c) \in Nat /\ Len(c) = at BY <1>0, <1>9
<1> HIDE DEF c
<1>13. Rises(chunk, D, c, V, Ctx.ow, D, Len(c) + 1)
  <2>1. Len(chunk) + 1 <= Len(c) + 1 /\ Len(c) + 1 \in Nat BY <1>0, <1>12
  <2>2. Rises(chunk, D, c, V, Ctx.ow, D, Len(chunk) + 1) BY <1>0, <1>11
  <2> QED BY <2>1, <2>2, RisesMore
<1>14. Rises(chunk, D, c, V, ctx.ow, D, Len(c) + 1)
  <2>1. CASE fin
    <3>1. Len(c) \in DOMAIN c /\ c[Len(c)].op = "TRY_ENTER" /\ c[Len(c)].y = 0 BY <1>9, <1>11, <1>12
    <3>2. Rises(chunk, D, c, V, Ctx.ow \cup {Len(c)}, D, Len(c) + 1) BY <1>13, <3>1, RisesOwing
    <3> QED BY <1>5, <1>12, <2>1, <3>2
  <2>2. CASE ~fin BY <1>5, <1>13, <2>2
  <2> QED BY <2>1, <2>2
<1>15. ~IsLoop(o) /\ InBody(o) BY <1>8 DEF IsLoop, LoopKinds, InBody
<1>16. HolesOf(o) = {at} BY <1>8, HolesOfIs
<1>17. Within(o, Ctx)
  <2>1. o.arm \in {"body", "catch", "finally"} /\ o.ctx.hs = Append(Ctx.hs, o.a) /\ o.ctx.rf = 0
    BY <1>5, <1>8
  <2> QED BY <1>3, <1>8, <2>1 DEF Within
<1>18. Keeping(c, D, o, Ctx, l)
  <2>1. Owes(o) <=> fin BY <1>8 DEF Owes
  <2>2. o.ctx.ow = IF Owes(o) THEN Ctx.ow \cup {o.a} ELSE Ctx.ow BY <1>5, <1>8, <2>1
  <2>3. o.a \in DOMAIN c /\ c[o.a].ow = Ctx.ow BY <1>8, <1>9, <1>11, <1>12
  <2> HIDE DEF l
  <2> QED BY <1>8, <1>15, <2>2, <2>3 DEF Keeping
<1>19. l \in LoopRecord BY <1>0 DEF Loop, LoopRecord
<1> HIDE DEF l, V
<1>20. V \subseteq Holes \cup HolesOf(o) BY <1>16 DEF V
<1>21. Rises(chunk, D, c, V, o.ctx.ow, D, Len(c) + 1) BY <1>8, <1>14
<1>22. Tidy(c, Append(open, o), IF IsLoop(o) THEN Append(loopStack, l) ELSE loopStack, D)
  BY <1>8, <1>17, <1>18, <1>19, <1>20, <1>21, TidyOpens
<1> QED BY <1>2, <1>15, <1>22

----------------------------------------------------------------------------
(* The clauses of a try statement.                                         *)

(* Jumps that are aimed before more code comes.                            *)
LEMMA AimCat ==
  ASSUME NEW c \in Seq(Instruction), NEW t \in Seq(Instruction), NEW A, A \subseteq DOMAIN c, NEW q \in Nat
  PROVE  AimAt(c, A, q) \o t = AimAt(c \o t, A, q)
<1> DEFINE a == AimAt(c, A, q)
           d == c \o t
           s1 == a \o t
           s2 == AimAt(d, A, q)
<1>1. d \in Seq(Instruction) OBVIOUS
<1>2. a \in Seq(Instruction) /\ Len(a) = Len(c) /\ DOMAIN a = DOMAIN c BY AimIs
<1>3. s2 \in Seq(Instruction) /\ Len(s2) = Len(d) /\ DOMAIN s2 = DOMAIN d BY <1>1, AimIs
<1>4. \A p \in DOMAIN c : a[p] = IF p \in A THEN [c[p] EXCEPT !.x = q] ELSE c[p] BY DEF AimAt
<1>5. \A p \in DOMAIN d : s2[p] = IF p \in A THEN [d[p] EXCEPT !.x = q] ELSE d[p] BY DEF AimAt
<1>6. /\ Len(d) = Len(c) + Len(t) /\ Len(c) \in Nat /\ Len(t) \in Nat
      /\ DOMAIN d = 1..(Len(c) + Len(t)) /\ DOMAIN c = 1..Len(c)
      /\ \A p \in 1..Len(c) : d[p] = c[p]
      /\ \A p \in 1..(Len(c) + Len(t)) : p \notin 1..Len(c) => d[p] = t[p - Len(c)]
  OBVIOUS
<1> HIDE DEF a, d
<1>7. /\ s1 \in Seq(Instruction) /\ Len(s1) = Len(c) + Len(t) /\ DOMAIN s1 = 1..(Len(c) + Len(t))
      /\ \A p \in 1..Len(c) : s1[p] = a[p]
      /\ \A p \in 1..(Len(c) + Len(t)) : p \notin 1..Len(c) => s1[p] = t[p - Len(c)]
  BY <1>2, <1>6
<1> HIDE DEF s1, s2
<1>8. ASSUME NEW p \in 1..(Len(c) + Len(t)) PROVE s1[p] = s2[p]
  <2>1. CASE p \in 1..Len(c) BY <1>4, <1>5, <1>6, <1>7, <2>1
  <2>2. CASE p \notin 1..Len(c)
    <3>1. p \notin A BY <1>6, <2>2
    <3> QED BY <1>5, <1>6, <1>7, <2>2, <3>1
  <2> QED BY <2>1, <2>2
<1>9. s1 = [p \in 1..(Len(c) + Len(t)) |-> s1[p]] BY <1>7
<1>10. s2 = [p \in 1..(Len(c) + Len(t)) |-> s2[p]] BY <1>3, <1>6
<1>11. s1 = s2 BY <1>8, <1>9, <1>10
<1> QED BY <1>11 DEF s1, s2, a, d

(* The code P up to the next clause or the rethrow, before its jumps A are *)
(* aimed at q: what precedes q is reached by an error only.                *)
Bare(P, A, q, W, D, E) ==
  /\ P \in Seq(Instruction) /\ A \subseteq DOMAIN P /\ q \in Nat /\ NextClause = AimAt(P, A, q)
  /\ Rises(chunk, D, P, W, Ctx.ow, E, Len(P) - 1) /\ Len(chunk) + 1 < Len(P)
  /\ P[Len(P)].op = "JUMP" \/ (P[Len(P)].op = "POP" /\ P[Len(P) - 1].op = "JUMP")
  /\ IF Cur.all THEN Len(P) \in E ELSE E = D
  /\ W \ A \subseteq (Holes \ HolesOf(Cur)) \cup TryOut
  /\ \A p \in TryOut : Hang(P, Ctx.ow, p)
  /\ q <= Len(P) + 1 /\ \A e \in Ctx.ow : e < q
  /\ \A p \in A :
       /\ P[p].ow \subseteq Ctx.ow /\ p < q
       /\ \/ /\ Verdict(P, p) /\ q \in DOMAIN P /\ P[q].op = "POP" /\ P[q - 1].op = "JUMP"
             /\ q \in E => p \in E \/ Sure(P, p)
          \/ /\ P[p].op = "TRY_ENTER" /\ P[p].y = 0 /\ q = Len(P) + 1 /\ ~Cur.all
             /\ P[q - 1].op = "JUMP"

(* What the statement keeps of its code.                                   *)
LEMMA TryKept ==
  ASSUME Now, NEW arm, arm = "body" \/ arm = "catch", Inside("try", arm),
         NEW D, Tidy(chunk, open, loopStack, D)
  PROVE  /\ Ctx.ow = (IF Cur.fin THEN Around.ow \cup {Cur.a} ELSE Around.ow) /\ CatchCtx.ow = Ctx.ow
         /\ Cur.a \in DOMAIN chunk /\ chunk[Cur.a].ow = Around.ow /\ Cur.a \in Nat
         /\ chunk[Cur.a].op = "TRY_ENTER" /\ chunk[Cur.a].y = 0
         /\ arm = "body" => ~Cur.all
         /\ Cur.ret => Around.ow = {}
         /\ arm = "catch" =>
              /\ Cur.j \in DOMAIN chunk /\ Verdict(chunk, Cur.j) /\ chunk[Cur.j].ow \subseteq Ctx.ow
              /\ Cur.all => Sure(chunk, Cur.j) \/ Cur.j \in D
              /\ \A p \in Cur.jumps \cup {Cur.b} : Hang(chunk, Ctx.ow, p)
<1>1. /\ open # <<>> /\ Cur.kind = "try" /\ Cur.arm = arm /\ Cur.ctx = Ctx /\ Cur.a \in Nat
      /\ Ctx \in Context /\ Made(chunk, Height, Ctx, Holes)
  <2>1. Ctx \in Context BY NowIs
  <2> QED BY <2>1, TryIs
<1>2. Keeping(chunk, D, Cur, Around, loopStack[Cur.n + 1])
  <2>1. Len(open) \in DOMAIN open BY <1>1, NowIs, LastIs
  <2> QED BY <2>1, TidyIs DEF Cur, Last, Around
<1>3. Owes(Cur) <=> Cur.fin BY <1>1 DEF Owes
<1>4. CatchCtx.ow = Ctx.ow BY <1>1 DEF CatchCtx, Context
<1>5. Waits(chunk, Cur.a, "TRY_ENTER", Cur.h, Around) /\ chunk[Cur.a].y = 0 BY <1>1, TryStill
<1>6. chunk[Cur.a].op = "TRY_ENTER" BY <1>5 DEF Waits
<1> QED BY <1>1, <1>2, <1>3, <1>4, <1>5, <1>6 DEF Keeping

(* The end of the body.                                                    *)
LEMMA BodyBare ==
  ASSUME Now, Inside("try", "body"), NEW D, Tidy(chunk, open, loopStack, D)
  PROVE  \E P, A, q, W : Bare(P, A, q, W, D, D) /\ (Cur.all => FALSE)
<1> DEFINE m == Len(chunk)
           b == m + 1
           T == Ctx.ow
           i1 == InsIn(Ctx, "TRY_EXIT", 0, 0, {}, Height)
           i2 == InsIn(CatchCtx, "JUMP", 0, 0, {}, Height)
           c1 == Append(chunk, i1)
           P == Append(c1, i2)
           a == Cur.a
           W == Holes \cup {m + 2}
<1>1. /\ CatchCtx.ow = T /\ a \in DOMAIN chunk /\ chunk[a].ow = Around.ow /\ a \in Nat
      /\ chunk[a].op = "TRY_ENTER" /\ chunk[a].y = 0 /\ ~Cur.all
      /\ T = (IF Cur.fin THEN Around.ow \cup {a} ELSE Around.ow)
  BY TryKept
<1>2. Cur.arm = "body" /\ Cur.kind = "try" /\ CatchCtx \in Context BY TryIs
<1>3. /\ chunk \in Seq(Instruction) /\ m \in Nat /\ DOMAIN chunk = 1..m /\ Height \in Nat /\ Ctx \in Context
      /\ Fair(chunk, Holes, D)
  BY NowIs, TidyIs
<1>4. Rises(chunk, D, chunk, Holes, T, D, b) BY <1>3 DEF Fair
<1>5. "TRY_EXIT" \in Ops /\ "JUMP" \in Ops /\ {} \in SUBSET ErrTypes /\ 0 \in Nat BY OpsAre
<1>6. /\ i1 \in Instruction /\ i1.op = "TRY_EXIT" /\ i1.ow = T
      /\ i2 \in Instruction /\ i2.op = "JUMP" /\ i2.ow = T
  BY <1>1, <1>2, <1>3, <1>5, MadeIns
<1>7. BodyDone = [P EXCEPT ![a].x = Len(P) + 1]
  <2>1. chunk \o <<i1, i2>> = P
    <3> HIDE DEF i1, i2
    <3> QED BY <1>3, <1>6, Cat2
  <2>2. Ins("TRY_EXIT", 0, 0, Height) = i1 /\ InsIn(CatchCtx, "JUMP", 0, 0, {}, Height) = i2 BY DEF Ins
  <2> HIDE DEF i1, i2, P
  <2> QED BY <2>1, <2>2 DEF BodyDone, Here
<1> HIDE DEF i1, i2
<1>8. /\ Rises(chunk, D, c1, Holes, T, D, b) /\ Len(c1) = m + 1 /\ c1 \in Seq(Instruction)
      /\ \A p \in DOMAIN chunk : c1[p] = chunk[p]
  <2> DEFINE t == <<i1>>
  <2>1. t \in Seq(Instruction) /\ c1 = chunk \o t /\ DOMAIN t = {1} /\ t[1] = i1 BY <1>3, <1>6
  <2>2. i1.op \in Straight BY <1>6, KindsOfOp DEF Straight
  <2>3. Payable(chunk, T, i1)
    <3>1. i1.op \notin Fallible \cup {"RETURN", "END_FINALLY"} BY <1>6 DEF Fallible
    <3> QED BY <3>1, QuietPays
  <2> HIDE DEF t, c1, T, b
  <2>4. \A k \in DOMAIN t : t[k].op \in Straight /\ t[k].ow = T /\ Payable(chunk, T, t[k])
    BY <1>6, <2>1, <2>2, <2>3
  <2>5. Rises(chunk, D, chunk \o t, Holes, T, D, b) BY <1>4, <2>1, <2>4, RisesTail
  <2> QED BY <1>3, <1>6, <2>1, <2>5 DEF c1
<1> HIDE DEF c1
<1>9. /\ Rises(chunk, D, P, W, T, D, b) /\ ~Verdict(P, m + 2) /\ P[m + 2] = i2 /\ m + 2 \in DOMAIN P
      /\ Len(P) = m + 2 /\ P \in Seq(Instruction)
      /\ \A p \in DOMAIN chunk : P[p] = chunk[p] /\ p \in DOMAIN P
  <2>1. i2.op \in Branches BY <1>6 DEF Branches
  <2>2. Payable(c1, T, i2)
    <3>1. i2.op \notin Fallible \cup {"RETURN", "END_FINALLY"} BY <1>6 DEF Fallible
    <3> QED BY <3>1, QuietPays
  <2>3. Len(c1) + 1 = m + 2 BY <1>3, <1>8
  <2> HIDE DEF T, b, P
  <2>4. /\ Rises(chunk, D, Append(c1, i2), Holes \cup {Len(c1) + 1}, T, D, b)
        /\ ~Verdict(Append(c1, i2), Len(c1) + 1) /\ Append(c1, i2)[Len(c1) + 1] = i2
        /\ Len(c1) + 1 \in DOMAIN Append(c1, i2)
    BY ONLY <1>6, <1>8, <2>1, <2>2, RisesHole
  <2> QED BY <1>3, <1>6, <1>8, <2>3, <2>4 DEF P
<1> HIDE DEF P
<1>10. BodyDone = AimAt(P, {a}, Len(P) + 1)
  <2>1. a \in DOMAIN P BY <1>1, <1>9
  <2>2. [P EXCEPT ![a].x = Len(P) + 1] = [p \in DOMAIN P |-> IF p = a THEN [P[p] EXCEPT !.x = Len(P) + 1] ELSE P[p]]
    BY <1>9, <2>1
  <2> QED BY <1>7, <2>2 DEF AimAt
<1>11. NextClause = BodyDone /\ Len(BodyDone) = m + 2
  <2>1. NextClause = BodyDone BY <1>2 DEF NextClause
  <2>2. Len(P) + 1 \in Nat BY <1>3, <1>9
  <2>3. Len(AimAt(P, {a}, Len(P) + 1)) = Len(P) BY <1>9, <2>2, AimIs
  <2> QED BY <1>9, <1>10, <2>1, <2>3
<1>12. TryOut = {m + 2}
  <2>1. SkipJump = Len(BodyDone) /\ Exits = {} BY <1>2 DEF SkipJump, Exits
  <2> QED BY <1>11, <2>1 DEF TryOut
<1>13. HolesOf(Cur) = {a} BY <1>2, HolesOfIs
<1>14. Hang(P, T, m + 2) BY <1>6, <1>9 DEF Hang, Branches
<1>15. \A e \in T : e < m + 1 /\ e \in Nat
  <2>1. Even(chunk, Holes, T, D, b) BY <1>4 DEF Rises
  <2>2. \A e \in T : e \in DOMAIN chunk BY <2>1, EvenIs
  <2> QED BY <1>3, <2>2
<1>16. P[a].op = "TRY_ENTER" /\ P[a].y = 0 /\ P[a].ow \subseteq T /\ a \in DOMAIN P BY <1>1, <1>9
<1>17. /\ Len(P) - 1 = b /\ Len(P) + 1 \in Nat /\ m + 1 < Len(P) /\ a < Len(P) + 1 /\ (Len(P) + 1) - 1 = Len(P)
       /\ Len(P) + 1 <= Len(P) + 1 /\ \A e \in T : e < Len(P) + 1
  BY <1>1, <1>3, <1>9, <1>15
<1>18. P[Len(P)].op = "JUMP" BY <1>6, <1>9
<1>19. W \ {a} \subseteq (Holes \ HolesOf(Cur)) \cup TryOut BY <1>12, <1>13
<1> HIDE DEF W, b
<1>20. Bare(P, {a}, Len(P) + 1, W, D, D)
  BY <1>1, <1>9, <1>10, <1>11, <1>12, <1>14, <1>16, <1>17, <1>18, <1>19 DEF Bare
<1> QED BY <1>1, <1>20

(* The end of a clause.                                                    *)
LEMMA ClauseBare ==
  ASSUME Now, Inside("try", "catch"), NEW D, Tidy(chunk, open, loopStack, D)
  PROVE  \E P, A, q, W, E : Bare(P, A, q, W, D, E)
<1> DEFINE k == Len(BlockEnd) + 1
           T == Ctx.ow
           i1 == InsIn(Ctx, "JUMP", 0, 0, {}, EndHeight)
           i2 == InsIn(Ctx, "POP", 0, 0, {}, EndHeight + 2)
           c1 == Append(BlockEnd, i1)
           P == Append(c1, i2)
           j == Cur.j
           W == Holes \cup {k}
           E == IF Cur.all THEN D \cup {k + 1} ELSE D
<1>1. /\ CatchCtx.ow = T /\ j \in DOMAIN chunk /\ Verdict(chunk, j) /\ chunk[j].ow \subseteq T
      /\ Cur.all => Sure(chunk, j) \/ j \in D
      /\ \A p \in Cur.jumps \cup {Cur.b} : Hang(chunk, T, p)
  BY TryKept
<1>2. /\ Cur.arm = "catch" /\ Cur.kind = "try" /\ Cur.h \in Nat /\ Split(locals, scopeDepth - 1, Cur.h)
      /\ Cur \in Statement
  BY TryIs
<1>3. /\ chunk \in Seq(Instruction) /\ Len(chunk) \in Nat /\ DOMAIN chunk = 1..Len(chunk)
      /\ Ctx \in Context /\ Fair(chunk, Holes, D) /\ D \subseteq DOMAIN chunk
  BY NowIs, TidyIs
<1>4. /\ Fair(BlockEnd, Holes, D) /\ Alike(chunk, BlockEnd) /\ Len(BlockEnd) >= Len(chunk)
      /\ Len(BlockEnd) \in Nat /\ BlockEnd \in Seq(Instruction) /\ EndHeight = Cur.h
  <2>1. EndHeight = Cur.h BY <1>2, BlockEnded
  <2>2. Fair(BlockEnd, Holes, D) /\ Alike(chunk, BlockEnd) /\ Len(BlockEnd) >= Len(chunk) /\ Len(BlockEnd) \in Nat
    BY <1>2, FairBlockEnd
  <2> QED BY <2>1, <2>2, FairIs
<1>5. "POP" \in Ops /\ "JUMP" \in Ops /\ {} \in SUBSET ErrTypes /\ 0 \in Nat BY OpsAre
<1>6. EndHeight \in Nat /\ EndHeight + 2 \in Nat BY <1>2, <1>4
<1>7. /\ i1 \in Instruction /\ i1.op = "JUMP" /\ i1.ow = T
      /\ i2 \in Instruction /\ i2.op = "POP" /\ i2.ow = T
  BY <1>3, <1>5, <1>6, MadeIns
<1>8. ClauseDone = Append(Patch(c1, {j}), i2)
  <2>1. Ins("JUMP", 0, 0, EndHeight) = i1 /\ Ins("POP", 0, 0, EndHeight + 2) = i2 BY DEF Ins
  <2> HIDE DEF i1, i2
  <2> QED BY <2>1 DEF ClauseDone
<1> HIDE DEF i1, i2
<1>9. /\ Rises(chunk, D, c1, W, T, D, k) /\ ~Verdict(c1, k) /\ c1[k] = i1 /\ k \in DOMAIN c1
      /\ Len(c1) = k /\ k \in Nat /\ c1 \in Seq(Instruction) /\ Alike(BlockEnd, c1)
  <2>1. i1.op \in Branches BY <1>7 DEF Branches
  <2>2. Payable(BlockEnd, T, i1)
    <3>1. i1.op \notin Fallible \cup {"RETURN", "END_FINALLY"} BY <1>7 DEF Fallible
    <3> QED BY <3>1, QuietPays
  <2>3. Rises(chunk, D, BlockEnd, Holes, T, D, k) BY <1>4 DEF Fair
  <2> HIDE DEF c1, T
  <2>4. /\ Rises(chunk, D, Append(BlockEnd, i1), Holes \cup {Len(BlockEnd) + 1}, T, D, k)
        /\ ~Verdict(Append(BlockEnd, i1), Len(BlockEnd) + 1) /\ Append(BlockEnd, i1)[Len(BlockEnd) + 1] = i1
        /\ Len(BlockEnd) + 1 \in DOMAIN Append(BlockEnd, i1) /\ Alike(BlockEnd, Append(BlockEnd, i1))
    BY ONLY <1>7, <2>1, <2>2, <2>3, RisesHole
  <2> QED BY <1>4, <1>7, <2>4 DEF c1
<1> HIDE DEF c1
<1>10. Len(P) = k + 1 /\ P \in Seq(Instruction) /\ P[k + 1] = i2 /\ P[k] = i1 /\ DOMAIN P = 1..(k + 1)
  BY <1>7, <1>9
<1>11. Rises(chunk, D, P, W, T, E, k) /\ Alike(c1, P)
  <2> HIDE DEF T, W, k
  <2>1. CASE Cur.all
    <3>1. /\ i2.op \in {"POP", "RETHROW"} /\ Len(c1) \in DOMAIN c1
          /\ c1[Len(c1)].op = "JUMP" \/ Len(c1) \in D
      BY <1>7, <1>9
    <3>2. k <= Len(c1) /\ Len(chunk) < Len(c1) BY <1>3, <1>4, <1>9 DEF k
    <3>3. Rises(chunk, D, Append(c1, i2), W, T, D \cup {Len(c1) + 1}, k) /\ Alike(c1, Append(c1, i2))
      BY ONLY <1>7, <1>9, <3>1, <3>2, RisesDead
    <3>4. E = D \cup {Len(c1) + 1} BY <1>9, <2>1
    <3> QED BY <3>3, <3>4
  <2>2. CASE ~Cur.all
    <3> DEFINE t == <<i2>>
    <3>1. t \in Seq(Instruction) /\ c1 \o t = P /\ DOMAIN t = {1} /\ t[1] = i2 BY <1>7, <1>9
    <3>2. i2.op \in Straight BY <1>7, KindsOfOp DEF Straight
    <3>3. Payable(c1, T, i2)
      <4>1. i2.op \notin Fallible \cup {"RETURN", "END_FINALLY"} BY <1>7 DEF Fallible
      <4> QED BY <4>1, QuietPays
    <3> HIDE DEF t, P
    <3>4. \A n \in DOMAIN t : t[n].op \in Straight /\ t[n].ow = T /\ Payable(c1, T, t[n])
      BY <1>7, <3>1, <3>2, <3>3
    <3>5. Rises(chunk, D, c1 \o t, W, T, D, k) /\ Alike(c1, c1 \o t) BY <1>9, <3>1, <3>4, RisesTail
    <3> QED BY <2>2, <3>1, <3>5
  <2> QED BY <2>1, <2>2
<1>12. NextClause = AimAt(P, {j}, k + 1)
  <2>1. NextClause = ClauseDone BY <1>2 DEF NextClause
  <2>2. Patch(c1, {j}) = AimAt(c1, {j}, k + 1) BY <1>9 DEF Patch, AimAt, Here
  <2>3. k + 1 \in Nat BY <1>9
  <2>4. AimAt(c1, {j}, k + 1) \in Seq(Instruction) BY <1>9, <2>3, AimIs
  <2> DEFINE d == AimAt(c1, {j}, k + 1)
  <2>5. ClauseDone = d \o <<i2>>
    <3>1. ClauseDone = Append(d, i2) BY <1>8, <2>2
    <3> HIDE DEF d
    <3> QED BY <1>7, <2>4, <3>1 DEF d
  <2>6. P = c1 \o <<i2>> BY <1>7, <1>9
  <2>7. {j} \subseteq DOMAIN c1 /\ <<i2>> \in Seq(Instruction)
    BY <1>1, <1>4, <1>7, <1>9 DEF Alike
  <2>8. d \o <<i2>> = AimAt(c1 \o <<i2>>, {j}, k + 1)
    <3> HIDE DEF k, j
    <3> QED BY <1>9, <2>3, <2>7, AimCat, ZenonT(30)
  <2> QED BY <2>1, <2>5, <2>6, <2>8
<1> HIDE DEF P
<1>13. Alike(chunk, P)
  <2>1. Alike(chunk, c1) BY <1>4, <1>9, AlikeOn
  <2> QED BY <1>11, <2>1, AlikeOn
<1>14. /\ j \in DOMAIN P /\ Verdict(P, j) /\ P[j].ow \subseteq T
       /\ Cur.all => Sure(P, j) \/ j \in E
  <2>1. j \in DOMAIN P /\ P[j].ow = chunk[j].ow BY <1>1, <1>13 DEF Alike
  <2>2. Verdict(P, j) /\ (Sure(chunk, j) => Sure(P, j)) BY <1>1, <1>13, VerdictOn
  <2> QED BY <1>1, <2>1, <2>2
<1>15. \A p \in Cur.jumps \cup {Cur.b} : Hang(P, T, p) BY <1>1, <1>3, <1>10, <1>13, HangOn
<1>16. Hang(P, T, k)
  <2>1. Hang(c1, T, k) BY <1>7, <1>9 DEF Hang, Branches
  <2> HIDE DEF T, k
  <2> QED BY <1>9, <1>10, <1>11, <2>1, HangOn
<1>17. /\ \A p \in TryOut : Hang(P, T, p)
       /\ W \ {j} \subseteq (Holes \ HolesOf(Cur)) \cup TryOut
  <2>1. Len(ClauseDone) - 1 = k
    <3>1. k + 1 \in Nat BY <1>9
    <3>2. Len(AimAt(P, {j}, k + 1)) = Len(P) BY <1>10, <3>1, AimIs
    <3>3. NextClause = ClauseDone BY <1>2 DEF NextClause
    <3> QED BY <1>9, <1>10, <1>12, <3>2, <3>3
  <2>2. TryOut = Cur.jumps \cup {k, Cur.b} BY <1>2, <2>1 DEF TryOut, SkipJump, Exits
  <2>3. HolesOf(Cur) = Cur.jumps \cup {Cur.b, Cur.j} BY <1>2, HolesOfIs
  <2> QED BY <1>15, <1>16, <2>2, <2>3
<1>18. \A e \in T : e < k + 1
  <2>1. Even(BlockEnd, Holes, T, D, k) BY <1>4 DEF Fair, Rises
  <2>2. \A e \in T : e \in DOMAIN BlockEnd BY <2>1, EvenIs
  <2> QED BY <1>4, <2>2
<1>19. /\ Len(P) - 1 = k /\ k + 1 \in Nat /\ Len(chunk) + 1 < Len(P) /\ j < k + 1 /\ (k + 1) - 1 = k
       /\ k + 1 <= Len(P) + 1 /\ k + 1 \in DOMAIN P /\ Len(P) = k + 1
  BY <1>1, <1>3, <1>4, <1>9, <1>10
<1>20. /\ P[Len(P)].op = "POP" /\ P[Len(P) - 1].op = "JUMP" BY <1>7, <1>10, <1>19
<1>21. IF Cur.all THEN Len(P) \in E ELSE E = D BY <1>10
<1>22. k + 1 \in E => j \in E \/ Sure(P, j)
  <2>1. CASE Cur.all BY <1>14, <2>1
  <2>2. CASE ~Cur.all
    <3>1. k + 1 \notin D BY <1>3, <1>4, <1>9
    <3> QED BY <2>2, <3>1
  <2> QED BY <2>1, <2>2
<1> HIDE DEF W, E, k, j
<1>23. Bare(P, {j}, k + 1, W, D, E)
  BY <1>10, <1>11, <1>12, <1>14, <1>17, <1>18, <1>19, <1>20, <1>21, <1>22 DEF Bare
<1> QED BY <1>23

LEMMA NextBare ==
  ASSUME Now, NEW arm, arm = "body" \/ arm = "catch", Inside("try", arm),
         NEW D, Tidy(chunk, open, loopStack, D)
  PROVE  \E P, A, q, W, E : Bare(P, A, q, W, D, E)
<1>1. CASE arm = "body" BY <1>1, BodyBare
<1>2. CASE arm = "catch" BY <1>2, ClauseBare
<1> QED BY <1>1, <1>2

(* The code t that follows, and the jumps A aimed then.                    *)
LEMMA BareTail ==
  ASSUME Now, NEW P, NEW A, NEW q, NEW W, NEW D, NEW E, Bare(P, A, q, W, D, E),
         NEW t \in Seq(Instruction), NEW V, NEW F, Rises(chunk, D, P \o t, V, Ctx.ow, F, Len(P) - 1),
         E \subseteq F, F \cap DOMAIN P \subseteq E, ~Cur.all => F = E,
         Len(t) \in Nat \ {0}, t[1].op # "POP"
  PROVE  /\ Rises(chunk, D, NextClause \o t, V \ A, Ctx.ow, F, Len(NextClause \o t) + 1)
         /\ Alike(P \o t, NextClause \o t) /\ Len(NextClause \o t) = Len(P) + Len(t)
         /\ NextClause \o t \in Seq(Instruction)
<1> DEFINE T == Ctx.ow
           c == P \o t
           b == Len(P) - 1
           b2 == Len(c) + 1
<1>1. /\ P \in Seq(Instruction) /\ A \subseteq DOMAIN P /\ q \in Nat /\ NextClause = AimAt(P, A, q)
      /\ Rises(chunk, D, P, W, T, E, b) /\ Len(chunk) + 1 < Len(P)
      /\ q <= Len(P) + 1 /\ \A e \in T : e < q
      /\ IF Cur.all THEN Len(P) \in E ELSE E = D
      /\ \A p \in A :
           /\ P[p].ow \subseteq T /\ p < q
           /\ \/ /\ Verdict(P, p) /\ q \in DOMAIN P /\ P[q].op = "POP" /\ P[q - 1].op = "JUMP"
                 /\ q \in E => p \in E \/ Sure(P, p)
              \/ /\ P[p].op = "TRY_ENTER" /\ P[p].y = 0 /\ q = Len(P) + 1 /\ ~Cur.all
                 /\ P[q - 1].op = "JUMP"
  BY DEF Bare
<1>2. /\ Len(P) \in Nat /\ DOMAIN P = 1..Len(P) /\ Len(t) \in Nat \ {0} /\ c \in Seq(Instruction)
      /\ Len(c) = Len(P) + Len(t) /\ DOMAIN c = 1..(Len(P) + Len(t)) /\ Len(c) \in Nat
      /\ \A p \in DOMAIN P : c[p] = P[p] /\ p \in DOMAIN c /\ p \in Nat
      /\ c[Len(P) + 1] = t[1] /\ Len(chunk) \in Nat
  BY <1>1, NowIs, SMTT(30)
<1>3. E \subseteq DOMAIN P
  <2>1. Even(P, W, T, E, b) BY <1>1 DEF Rises
  <2> QED BY <2>1 DEF Even
<1>4. ASSUME NEW p \in A \cap DOMAIN c PROVE MayAim(c, T, F, p, q)
  <2>1. p \in A /\ p \in DOMAIN P /\ c[p] = P[p] /\ p < q BY <1>1, <1>2, <1>4
  <2>2. c[p].ow \subseteq T BY <1>1, <2>1
  <2>3. CASE /\ Verdict(P, p) /\ q \in DOMAIN P /\ P[q].op = "POP" /\ P[q - 1].op = "JUMP"
             /\ q \in E => p \in E \/ Sure(P, p)
    <3>1. Verdict(c, p) /\ (Sure(P, p) => Sure(c, p)) BY <1>2, <2>1, <2>3 DEF Verdict, Sure
    <3>2. q - 1 \in DOMAIN P BY <1>2, <2>1, <2>3
    <3>3. c[q].op = "POP" /\ c[q - 1].op # "CATCH" /\ q \in DOMAIN c BY <1>2, <2>3, <3>2
    <3>4. q \in F => p \in F \/ Sure(c, p) BY <2>3, <3>1
    <3> QED BY <1>1, <2>1, <2>2, <3>1, <3>3, <3>4 DEF MayAim
  <2>4. CASE /\ P[p].op = "TRY_ENTER" /\ P[p].y = 0 /\ q = Len(P) + 1 /\ ~Cur.all /\ P[q - 1].op = "JUMP"
    <3>1. q - 1 = Len(P) /\ Len(P) \in DOMAIN P BY <1>1, <1>2, <2>4
    <3>2. c[q - 1].op # "CATCH" BY <1>2, <2>4, <3>1
    <3>3. c[q] = t[1] BY <1>2, <2>4
    <3>4. ~Refused(c, q) BY <3>3 DEF Refused
    <3>5. q \notin F
      <4>1. F = E BY <2>4
      <4> QED BY <1>2, <1>3, <2>4, <4>1
    <3> QED BY <1>1, <2>1, <2>2, <2>4, <3>2, <3>4, <3>5 DEF MayAim
  <2> QED BY <1>1, <2>1, <2>3, <2>4
<1>5. b2 \in Nat /\ b <= b2 /\ q <= b2 BY <1>1, <1>2
<1>6. NextClause \o t = AimAt(c, A, q)
  <2>1. P \in Seq(Instruction) /\ A \subseteq DOMAIN P /\ q \in Nat /\ t \in Seq(Instruction) BY <1>1
  <2>2. AimAt(P, A, q) \o t = AimAt(c, A, q) BY ONLY <2>1, AimCat, ZenonT(30)
  <2> QED BY <1>1, <2>2
<1>7. Rises(chunk, D, c, V, T, F, b) OBVIOUS
<1>8. Len(AimAt(c, A, q)) = Len(c) /\ AimAt(c, A, q) \in Seq(Instruction)
  <2>1. c \in Seq(Instruction) /\ q \in Nat BY <1>1, <1>2
  <2> HIDE DEF c
  <2> QED BY ONLY <2>1, AimIs
<1> HIDE DEF c, b, b2, T
<1>9. Rises(chunk, D, AimAt(c, A, q), V \ A, T, F, b2) /\ Alike(c, AimAt(c, A, q))
  BY <1>1, <1>4, <1>5, <1>7, RisesAim
<1>10. /\ Rises(chunk, D, NextClause \o t, V \ A, T, F, Len(NextClause \o t) + 1)
       /\ Alike(c, NextClause \o t) /\ Len(NextClause \o t) = Len(P) + Len(t)
       /\ NextClause \o t \in Seq(Instruction)
  BY <1>2, <1>6, <1>8, <1>9 DEF b2
<1> QED BY <1>10 DEF c, T

(* catch.                                                                  *)
LEMMA CatchClauseTidy ==
  ASSUME Now, Accepted, NEW D, Tidy(chunk, open, loopStack, D), CatchClause
  PROVE  \E E : Tidy(chunk', open', loopStack', E)
<1> DEFINE h == Cur.h
           x == CatchCtx
           T == Ctx.ow
           c0 == NextClause
<1>1. PICK arm \in {"body", "catch"} : Inside("try", arm) BY DEF CatchClause
<1>2. arm = "body" \/ arm = "catch" OBVIOUS
<1>3. /\ open # <<>> /\ Cur.kind = "try" /\ Cur.arm = arm /\ Cur \in Statement
      /\ h \in Nat /\ Cur.a \in Nat /\ Around \in Context /\ Around.rf = 0
      /\ x \in Context /\ x.hs = Around.hs /\ x.rf = 0
  BY <1>1, <1>2, TryIs
<1>4. /\ SkipJump \in Nat /\ Exits \in SUBSET Nat /\ Len(ClauseLocals) = h BY <1>1, <1>2, NextClauseIs
<1>5. /\ T = (IF Cur.fin THEN Around.ow \cup {Cur.a} ELSE Around.ow) /\ x.ow = T
      /\ Cur.a \in DOMAIN chunk /\ chunk[Cur.a].ow = Around.ow /\ (Cur.ret => Around.ow = {})
  BY <1>1, <1>2, TryKept
<1>6. PICK P, A, q, W, E : Bare(P, A, q, W, D, E) BY <1>1, <1>2, NextBare
<1>7. /\ P \in Seq(Instruction) /\ c0 = AimAt(P, A, q) /\ q \in Nat
      /\ Rises(chunk, D, P, W, T, E, Len(P) - 1) /\ Len(chunk) + 1 < Len(P)
      /\ P[Len(P)].op = "JUMP" \/ (P[Len(P)].op = "POP" /\ P[Len(P) - 1].op = "JUMP")
      /\ Cur.all => Len(P) \in E
      /\ W \ A \subseteq (Holes \ HolesOf(Cur)) \cup TryOut
      /\ \A p \in TryOut : Hang(P, T, p)
  BY <1>6 DEF Bare
<1> DEFINE n == Len(P)
<1>8. n \in Nat /\ DOMAIN P = 1..n /\ Len(c0) = n BY <1>7, AimIs
<1>9. PICK types \in CatchTypes :
        /\ chunk' = c0 \o
            <<InsIn(x, "CATCH", 0, 0, types, h + 1),
              InsIn(x, "JUMP_IF_FALSE", 0, 0, {}, h + 2),
              InsIn(x, "POP", 0, 0, {}, h + 2),
              InsIn(x, "POP", 0, 0, {}, h + 1)>>
        /\ open' = SetLast(open,
            [Cur EXCEPT !.arm = "catch", !.b = SkipJump, !.j = Len(c0) + 2,
                        !.jumps = Exits, !.ctx = x,
                        !.all = @ \/ "Error" \in types])
  BY <1>4 DEF CatchClause
<1> DEFINE i1 == InsIn(x, "CATCH", 0, 0, types, h + 1)
           i2 == InsIn(x, "JUMP_IF_FALSE", 0, 0, {}, h + 2)
           i3 == InsIn(x, "POP", 0, 0, {}, h + 2)
           i4 == InsIn(x, "POP", 0, 0, {}, h + 1)
           t == <<i1, i2, i3, i4>>
           t2 == <<i3, i4>>
           c2 == Append(Append(P, i1), i2)
           j == n + 2
           F == IF Cur.all THEN E \cup {n + 1, n + 2} ELSE E
           V == W \cup {j}
           o2 == [Cur EXCEPT !.arm = "catch", !.b = SkipJump, !.j = Len(c0) + 2,
                             !.jumps = Exits, !.ctx = x, !.all = @ \/ "Error" \in types]
           c == c0 \o t
<1>10. chunk' = c /\ open' = SetLast(open, o2) /\ loopStack' = loopStack BY <1>9 DEF CatchClause
<1>11. types \in SUBSET ErrTypes BY <1>9 DEF Accepted
<1>12. h + 1 \in Nat /\ h + 2 \in Nat /\ j \in Nat /\ {} \in SUBSET ErrTypes /\ 0 \in Nat BY <1>3, <1>8, OpsAre
<1>13. "CATCH" \in Ops /\ "JUMP_IF_FALSE" \in Ops /\ "POP" \in Ops BY OpsAre
<1>14. /\ i1 \in Instruction /\ i1.op = "CATCH" /\ i1.ow = T /\ i1.ty = types
       /\ i2 \in Instruction /\ i2.op = "JUMP_IF_FALSE" /\ i2.ow = T
       /\ i3 \in Instruction /\ i3.op = "POP" /\ i3.ow = T
       /\ i4 \in Instruction /\ i4.op = "POP" /\ i4.ow = T
  BY <1>3, <1>5, <1>11, <1>12, <1>13, MadeIns
<1> HIDE DEF i1, i2, i3, i4
<1>15. /\ o2 \in Statement /\ o2.kind = "try" /\ o2.arm = "catch" /\ o2.a = Cur.a
       /\ o2.n = Cur.n /\ o2.ctx = x /\ o2.b = SkipJump /\ o2.j = j /\ o2.jumps = Exits
       /\ o2.fin = Cur.fin /\ o2.ret = Cur.ret /\ o2.all = (Cur.all \/ "Error" \in types)
  <2>1. Len(c0) + 2 = j BY <1>8
  <2> HIDE DEF x, j, c0
  <2> QED BY <1>3, <1>4, <1>12, <2>1 DEF Statement
<1> HIDE DEF o2, h, x, c0, T
<1>16. /\ Rises(chunk, D, c2, V, T, F, n - 1) /\ Verdict(c2, j) /\ c2[j] = i2 /\ c2[n + 1] = i1
       /\ Len(c2) = j /\ c2 \in Seq(Instruction)
  <2> DEFINE b == Len(P) - 1
  <2>1. b < Len(P) /\ Len(chunk) + 1 < Len(P) BY <1>7, <1>8
  <2>2. Rises(chunk, D, P, W, T, E, b) BY <1>7
  <2>3. \/ P[Len(P)].op = "JUMP"
        \/ P[Len(P)].op = "POP" /\ P[Len(P) - 1].op = "JUMP"
    BY <1>7
  <2>4. F = E \/ (F = E \cup {Len(P) + 1, Len(P) + 2} /\ Len(P) \in E) BY <1>7
  <2>5. c2 = Append(Append(P, i1), i2) OBVIOUS
  <2>6. /\ i1 \in Instruction /\ i1.op = "CATCH" /\ i1.ow = T
        /\ i2 \in Instruction /\ i2.op = "JUMP_IF_FALSE" /\ i2.ow = T
    BY <1>14
  <2> HIDE DEF c2, F, b
  <2>9. ClauseHead(chunk, P, T, E, b, i1, i2, c2, F) BY <2>1, <2>3, <2>4, <2>5, <2>6 DEF ClauseHead
  <2>7. /\ Rises(chunk, D, c2, W \cup {Len(P) + 2}, T, F, b)
        /\ Verdict(c2, Len(P) + 2) /\ c2[Len(P) + 2] = i2 /\ c2[Len(P) + 1] = i1
        /\ Len(c2) = Len(P) + 2
    BY ONLY <2>2, <2>9, RisesHead
  <2>8. c2 \in Seq(Instruction) BY <1>7, <1>14, <2>5
  <2> QED BY <2>7, <2>8 DEF b
<1>17. P \o t = c2 \o t2 /\ t \in Seq(Instruction) /\ t2 \in Seq(Instruction) /\ t[1] = i1 /\ Len(t) = 4
  <2>1. t \in Seq(Instruction) /\ t2 \in Seq(Instruction) /\ t[1] = i1 /\ Len(t) = 4 BY <1>14
  <2>2. P \o t = Append(Append(c2, i3), i4)
    <3>1. /\ P \in Seq(Instruction) /\ i1 \in Instruction /\ i2 \in Instruction
          /\ i3 \in Instruction /\ i4 \in Instruction
      BY <1>7, <1>14
    <3> QED BY ONLY <3>1, Cat4
  <2>3. c2 \o t2 = Append(Append(c2, i3), i4) BY <1>14, <1>16, Cat2
  <2> QED BY <2>1, <2>2, <2>3
<1> HIDE DEF c2, t, V, F, j, n
<1>18. Rises(chunk, D, P \o t, V, T, F, Len(P) - 1) /\ Alike(c2, P \o t)
  <2>1. DOMAIN t2 = {1, 2} /\ t2[1] = i3 /\ t2[2] = i4 OBVIOUS
  <2>2. i3.op \in Straight /\ i4.op \in Straight BY <1>14, KindsOfOp DEF Straight
  <2>3. Payable(c2, T, i3) /\ Payable(c2, T, i4)
    <3>1. i3.op \notin Fallible \cup {"RETURN", "END_FINALLY"} BY <1>14 DEF Fallible
    <3>2. i4.op \notin Fallible \cup {"RETURN", "END_FINALLY"} BY <1>14 DEF Fallible
    <3> QED BY <3>1, <3>2, QuietPays
  <2> HIDE DEF t2
  <2>4. \A k \in DOMAIN t2 : t2[k].op \in Straight /\ t2[k].ow = T /\ Payable(c2, T, t2[k])
    BY <1>14, <2>1, <2>2, <2>3
  <2>5. Rises(chunk, D, c2 \o t2, V, T, F, n - 1) /\ Alike(c2, c2 \o t2) BY <1>16, <1>17, <2>4, RisesTail
  <2> QED BY <1>17, <2>5 DEF n
<1>19. E \subseteq F /\ F \cap DOMAIN P \subseteq E /\ (~Cur.all => F = E) BY <1>8 DEF F
<1>20. /\ Rises(chunk, D, c, V \ A, T, F, Len(c) + 1) /\ Alike(P \o t, c) /\ c \in Seq(Instruction)
  <2>1. Len(t) \in Nat \ {0} /\ t[1].op # "POP" BY <1>14, <1>17
  <2>2. Rises(chunk, D, P \o t, V, Ctx.ow, F, Len(P) - 1) BY <1>18 DEF T
  <2>3. /\ Rises(chunk, D, NextClause \o t, V \ A, Ctx.ow, F, Len(NextClause \o t) + 1)
        /\ Alike(P \o t, NextClause \o t) /\ NextClause \o t \in Seq(Instruction)
    BY <1>6, <1>17, <1>19, <2>1, <2>2, BareTail
  <2> QED BY <2>3 DEF T, c0
<1>21. /\ Alike(c2, c) /\ Alike(P, c) /\ Alike(chunk, c)
  <2>1. Alike(c2, c) BY <1>18, <1>20, AlikeOn
  <2>2. Alike(P, P \o t)
    <3>1. P \in Seq(Instruction) /\ t \in Seq(Instruction) BY <1>7, <1>17
    <3>2. \A p \in DOMAIN P : p \in DOMAIN (P \o t) /\ (P \o t)[p] = P[p] BY <3>1
    <3> QED BY <3>2 DEF Alike
  <2>3. Alike(P, c) BY <1>20, <2>2, AlikeOn
  <2> QED BY <1>20, <2>1, <2>3, RisesAre
<1> HIDE DEF c
<1>22. j \in DOMAIN c2 /\ n + 1 \in DOMAIN c2 /\ j - 1 = n + 1 /\ c2[j - 1] = i1
  <2>1. j = n + 2 /\ n \in Nat BY <1>8 DEF n, j
  <2> QED BY <1>16, <2>1
<1>23. /\ j \in DOMAIN c /\ Verdict(c, j) /\ c[j].ow \subseteq T
       /\ o2.all => Sure(c, j) \/ j \in F
  <2>1. j \in DOMAIN c /\ c[j].ow = T BY <1>14, <1>16, <1>21, <1>22 DEF Alike
  <2>2. Verdict(c, j) /\ (Sure(c2, j) => Sure(c, j)) BY <1>16, <1>21, <1>22, VerdictOn
  <2>3. "Error" \in types => Sure(c2, j) BY <1>14, <1>16, <1>22 DEF Sure
  <2>4. Cur.all => j \in F BY DEF F, j
  <2> QED BY <1>15, <2>1, <2>2, <2>3, <2>4
<1>24. \A p \in Exits \cup {SkipJump} : Hang(c, T, p) BY <1>7, <1>20, <1>21, HangOn DEF TryOut
<1>25. ~IsLoop(o2) BY <1>15 DEF IsLoop, LoopKinds
<1>26. Keeping(c, F, o2, Around, loopStack[o2.n + 1])
  <2>1. Owes(o2) <=> Cur.fin BY <1>15 DEF Owes
  <2>2. o2.ctx.ow = IF Owes(o2) THEN Around.ow \cup {o2.a} ELSE Around.ow BY <1>5, <1>15, <2>1
  <2>3. o2.a \in DOMAIN c /\ c[o2.a].ow = Around.ow BY <1>5, <1>15, <1>21 DEF Alike
  <2>4. o2.ctx.ow = T BY <1>5, <1>15
  <2>5. o2.ret => Around.ow = {} BY <1>5, <1>15
  <2>6. \A p \in o2.jumps \cup {o2.b} : Hang(c, o2.ctx.ow, p) BY <1>15, <1>24, <2>4
  <2>7. /\ o2.j \in DOMAIN c /\ Verdict(c, o2.j) /\ c[o2.j].ow \subseteq o2.ctx.ow
        /\ o2.all => Sure(c, o2.j) \/ o2.j \in F
    BY <1>15, <1>23, <2>4
  <2>8. o2.kind = "try" /\ o2.arm # "body" BY <1>15
  <2> QED BY <1>25, <2>2, <2>3, <2>5, <2>6, <2>7, <2>8 DEF Keeping
<1>27. HolesOf(o2) = TryOut \cup {j} BY <1>15, HolesOfIs DEF TryOut
<1>28. /\ V \ A \subseteq Holes \cup HolesOf(o2)
       /\ \A p \in V \ A : p \in HolesOf(Cur) => p \in HolesOf(o2)
  BY <1>7, <1>27 DEF V
<1>29. Within(o2, Around) BY <1>3, <1>15 DEF Within
<1>30. o2.kind = Cur.kind /\ o2.n = Cur.n /\ o2 \in Statement /\ Rises(chunk, D, c, V \ A, o2.ctx.ow, F, Len(c) + 1)
  BY <1>3, <1>5, <1>15, <1>20
<1> DEFINE U == V \ A
<1>31. /\ U \subseteq Holes \cup HolesOf(o2) /\ \A p \in U : p \in HolesOf(Cur) => p \in HolesOf(o2)
       /\ Rises(chunk, D, c, U, o2.ctx.ow, F, Len(c) + 1)
  BY <1>28, <1>30
<1> HIDE DEF U
<1>32. Tidy(c, SetLast(open, o2), loopStack, F)
  BY <1>3, <1>26, <1>29, <1>30, <1>31, TidyTurns
<1> QED BY <1>10, <1>32

(* An error no clause takes is rethrown in a context that may pay for it.  *)
LEMMA RethrowPays ==
  ASSUME Now, Careful, NEW arm, arm = "body" \/ arm = "catch", Inside("try", arm), MayRethrow
  PROVE  ~Cur.fin /\ Solvent(chunk, CatchCtx)
<1>1. ~Cur.fin /\ PaysFinally(CatchCtx) BY DEF MayRethrow, Risky, Careful
<1>2. /\ CatchCtx \in Context /\ Cur.arm = arm /\ Made(chunk, Height, Ctx, Holes) BY TryIs
<1>3. Guarded(chunk, CatchCtx, Cur.h) BY <1>2, AroundGuarded
<1>4. CatchCtx.hs # <<>> => Top(CatchCtx.hs) \in DOMAIN chunk BY <1>3 DEF Guarded
<1>5. CatchCtx.hs = Ctx.hs \/ CatchCtx.hs = ButLast(Ctx.hs, 1)
  <2>1. Ctx \in Context BY NowIs
  <2> QED BY <2>1 DEF CatchCtx, Context
<1> QED BY <1>1, <1>2, <1>4, <1>5, PaysIs

(* The rethrow, and the landing of every jump over the clauses.            *)
LEMMA ClausesRise ==
  ASSUME Now, NEW arm, arm = "body" \/ arm = "catch", Inside("try", arm),
         NEW D, Tidy(chunk, open, loopStack, D), ~Cur.all => Solvent(chunk, CatchCtx)
  PROVE  \E F, V : /\ Rises(chunk, D, ClausesDone, V, Ctx.ow, F, Len(ClausesDone) + 1)
                   /\ V \subseteq Holes \ HolesOf(Cur)
<1> DEFINE h == Cur.h
           x == CatchCtx
           T == Ctx.ow
           i == InsIn(x, "RETHROW", 0, 0, {}, h + 1)
           t == <<i>>
<1>1. x \in Context /\ h \in Nat BY TryIs
<1>2. x.ow = T /\ Len(ClauseLocals) = h BY TryKept, NextClauseIs
<1>3. PICK P, A, q, W, E : Bare(P, A, q, W, D, E) BY NextBare
<1>4. /\ P \in Seq(Instruction) /\ NextClause = AimAt(P, A, q) /\ q \in Nat
      /\ Rises(chunk, D, P, W, T, E, Len(P) - 1) /\ Len(chunk) + 1 < Len(P)
      /\ Cur.all => Len(P) \in E
      /\ W \ A \subseteq (Holes \ HolesOf(Cur)) \cup TryOut
      /\ \A p \in TryOut : Hang(P, T, p)
  BY <1>3 DEF Bare
<1> DEFINE n == Len(P)
           F == IF Cur.all THEN E \cup {n + 1} ELSE E
           c == NextClause \o t
           U == W \ A
<1>5. n \in Nat /\ DOMAIN P = 1..n /\ Len(chunk) \in Nat BY <1>4, NowIs
<1>6. i \in Instruction /\ i.op = "RETHROW" /\ i.ow = T /\ i.hs = x.hs
  <2>1. "RETHROW" \in Ops /\ {} \in SUBSET ErrTypes /\ 0 \in Nat /\ h + 1 \in Nat BY <1>1, OpsAre
  <2> QED BY <1>1, <1>2, <2>1, MadeIns
<1>7. c = Append(NextClause, i) /\ ClausesDone = Patch(c, TryOut)
  <2>1. NextClause \in Seq(Instruction) BY <1>4, AimIs
  <2>2. c = Append(NextClause, i)
    <3> HIDE DEF i
    <3> QED BY <1>6, <2>1
  <2>3. ClausesDone = Patch(Append(NextClause, i), TryOut) BY <1>2 DEF ClausesDone, TryOut
  <2> QED BY <2>2, <2>3
<1> HIDE DEF i, x, T, h
<1>8. t \in Seq(Instruction) /\ P \o t = Append(P, i) /\ t[1] = i /\ Len(t) = 1 /\ DOMAIN t = {1} BY <1>4, <1>6
<1>9. Rises(chunk, D, P \o t, W, T, F, Len(P) - 1)
  <2>1. CASE Cur.all
    <3> DEFINE b == Len(P) - 1
    <3>1. /\ i.op \in {"POP", "RETHROW"} /\ i.ow = T /\ Len(P) \in DOMAIN P
          /\ P[Len(P)].op = "JUMP" \/ Len(P) \in E
          /\ b <= Len(P) /\ Len(chunk) < Len(P) /\ Rises(chunk, D, P, W, T, E, b)
      BY <1>4, <1>5, <1>6, <2>1
    <3> HIDE DEF b
    <3>2. Rises(chunk, D, Append(P, i), W, T, E \cup {Len(P) + 1}, b) BY ONLY <1>6, <3>1, RisesDead
    <3>3. F = E \cup {Len(P) + 1} BY <2>1
    <3> QED BY <1>8, <3>2, <3>3 DEF b
  <2>2. CASE ~Cur.all
    <3>1. Payable(P, T, i)
      <4>1. Alike(chunk, P) BY <1>4 DEF Rises
      <4>2. Solvent(P, CatchCtx) BY <2>2, <4>1, SolventOn
      <4>3. i.op \in Fallible \ {"CALL"} /\ i.hs = CatchCtx.hs BY <1>6 DEF Fallible, x
      <4>4. Payable(P, CatchCtx.ow, i) BY <4>2, <4>3, SolventPays
      <4> QED BY <1>2, <4>4 DEF x
    <3>2. i.op \in Straight BY <1>6, OpsAre DEF Straight, Branches
    <3> DEFINE b == Len(P) - 1
    <3>3. \A k \in DOMAIN t : t[k].op \in Straight /\ t[k].ow = T /\ Payable(P, T, t[k])
      BY <1>6, <1>8, <3>1, <3>2
    <3>4. Rises(chunk, D, P, W, T, E, b) BY <1>4
    <3> HIDE DEF b, t
    <3>5. Rises(chunk, D, P \o t, W, T, E, b) BY ONLY <1>8, <3>3, <3>4, RisesTail
    <3> QED BY <2>2, <3>5 DEF b
  <2> QED BY <2>1, <2>2
<1> HIDE DEF t
<1>10. E \subseteq F /\ F \cap DOMAIN P \subseteq E /\ (~Cur.all => F = E) BY <1>5
<1> HIDE DEF F, n, c, U
<1>11. Rises(chunk, D, c, U, T, F, Len(c) + 1) /\ Alike(P \o t, c) /\ c \in Seq(Instruction)
  <2>1. Len(t) \in Nat \ {0} /\ t[1].op # "POP" BY <1>6, <1>8
  <2>2. Rises(chunk, D, P \o t, W, Ctx.ow, F, Len(P) - 1) BY <1>9 DEF T
  <2>3. /\ Rises(chunk, D, NextClause \o t, W \ A, Ctx.ow, F, Len(NextClause \o t) + 1)
        /\ Alike(P \o t, NextClause \o t) /\ NextClause \o t \in Seq(Instruction)
    BY <1>3, <1>8, <1>10, <2>1, <2>2, BareTail
  <2> QED BY <2>3 DEF T, c, U
<1>12. Alike(P, c)
  <2>1. \A p \in DOMAIN P : p \in DOMAIN (P \o t) /\ (P \o t)[p] = P[p] BY <1>4, <1>8
  <2>2. Alike(P, P \o t) BY <2>1 DEF Alike
  <2> QED BY <1>11, <2>2, AlikeOn
<1>13. \A p \in TryOut : Hang(c, T, p) BY <1>4, <1>11, <1>12, HangOn
<1> DEFINE r == Len(c) + 1
           d == AimAt(c, TryOut, r)
<1>14. Len(c) \in Nat /\ r \in Nat /\ Len(c) < r /\ r <= r BY <1>11
<1>15. Ordinary(c, r) /\ r \notin F
  <2>1. Even(c, U, T, F, Len(c) + 1) BY <1>11 DEF Rises
  <2> QED BY <2>1, HereOrdinary
<1>16. Len(d) = Len(c) BY <1>11, <1>14, AimIs
<1>17. ClausesDone = d BY <1>7 DEF Patch, AimAt, Here
<1>18. Rises(chunk, D, c, U, T, F, r) BY <1>11
<1> HIDE DEF r
<1>19. \A p \in TryOut \cap DOMAIN c : MayAim(c, T, F, p, r) BY <1>13, <1>14, <1>15 DEF Hang, MayAim
<1>20. Rises(chunk, D, d, U \ TryOut, T, F, r) BY <1>14, <1>18, <1>19, RisesAim
<1>21. U \ TryOut \subseteq Holes \ HolesOf(Cur) BY <1>4 DEF U
<1>22. Len(ClausesDone) + 1 = r BY <1>16, <1>17 DEF r
<1> HIDE DEF d
<1> QED BY <1>17, <1>20, <1>21, <1>22 DEF T

(* The end of a try statement without finally.                             *)
LEMMA TryCloseTidy ==
  ASSUME Now, Careful, NEW D, Tidy(chunk, open, loopStack, D), TryClose
  PROVE  \E E : Tidy(chunk', open', loopStack', E)
<1>1. PICK arm \in {"body", "catch"} : Inside("try", arm) BY DEF TryClose
<1>2. arm = "body" \/ arm = "catch" OBVIOUS
<1>3. open # <<>> /\ ~IsLoop(Cur) BY <1>1, <1>2, TryIs
<1>4. ~Cur.fin /\ (~Cur.all => MayRethrow) BY DEF TryClose
<1>5. ~Cur.all => Solvent(chunk, CatchCtx) BY <1>1, <1>2, <1>4, RethrowPays
<1>6. PICK F, V : /\ Rises(chunk, D, ClausesDone, V, Ctx.ow, F, Len(ClausesDone) + 1)
                  /\ V \subseteq Holes \ HolesOf(Cur)
  BY <1>1, <1>2, <1>5, ClausesRise
<1>7. Ctx.ow = Around.ow BY <1>1, <1>2, <1>4, TryKept
<1> DEFINE c == ClausesDone
           os2 == ButLast(open, 1)
           lp2 == IF IsLoop(Cur) THEN ButLast(loopStack, 1) ELSE loopStack
<1>8. Rises(chunk, D, c, V, Around.ow, F, Len(c) + 1) BY <1>6, <1>7
<1>9. V \subseteq Holes /\ V \cap HolesOf(Cur) = {} BY <1>6
<1>10. IsLoop(Cur) => V \cap (Last(loopStack).breaks \cup Last(loopStack).continues) = {} BY <1>3
<1>11. chunk' = c /\ open' = os2 /\ loopStack' = lp2 BY <1>3 DEF TryClose, Close
<1> HIDE DEF c
<1>12. Tidy(c, os2, lp2, F) BY <1>3, <1>8, <1>9, <1>10, TidyCloses
<1> QED BY <1>11, <1>12

(* The beginning of a finally block.                                       *)
LEMMA FinallyOpenTidy ==
  ASSUME Now, Careful, NEW D, Tidy(chunk, open, loopStack, D), FinallyOpen
  PROVE  \E E : Tidy(chunk', open', loopStack', E)
<1> DEFINE e == Cur.a
           T == Ctx.ow
           c0 == ClausesDone
           c == [c0 EXCEPT ![e].y = Len(c0) + 1]
           x2 == [AfterCtx EXCEPT !.rf = IF Cur.ret THEN Cur.a ELSE @]
           o2 == [Cur EXCEPT !.arm = "finally", !.ctx = x2]
<1>1. PICK arm \in {"body", "catch"} : Inside("try", arm) BY DEF FinallyOpen
<1>2. arm = "body" \/ arm = "catch" OBVIOUS
<1>3. /\ open # <<>> /\ Cur.kind = "try" /\ Cur \in Statement /\ e \in Nat
      /\ Around \in Context /\ Around.rf = 0
      /\ CatchCtx \in Context /\ CatchCtx.hs = Around.hs /\ CatchCtx.rf = 0
  BY <1>1, <1>2, TryIs
<1>4. Cur.fin /\ Cur.all BY <1>1, <1>2, RethrowPays DEF FinallyOpen
<1>5. PICK F, V : /\ Rises(chunk, D, c0, V, T, F, Len(c0) + 1)
                  /\ V \subseteq Holes \ HolesOf(Cur)
  BY <1>1, <1>2, <1>4, ClausesRise
<1>6. /\ T = Around.ow \cup {e} /\ CatchCtx.ow = T /\ e \in DOMAIN chunk /\ chunk[e].ow = Around.ow
      /\ (Cur.ret => Around.ow = {})
  BY <1>1, <1>2, <1>4, TryKept
<1>7. e \notin Around.ow
  <2>1. Even(chunk, Holes, Ctx.ow, D, Len(chunk) + 1) BY TidyIs, FairIs
  <2>2. EvenAt(chunk, Holes, Ctx.ow, D, Len(chunk) + 1, e) BY <1>6, <2>1 DEF Even
  <2>3. chunk[e].ow \subseteq 1..(e - 1) BY <2>2 DEF EvenAt
  <2> QED BY <1>3, <1>6, <2>3
<1>8. /\ x2 \in Context /\ x2.hs = Around.hs /\ x2.rf = (IF Cur.ret THEN e ELSE 0) /\ x2.ow = T \ {e}
  <2>1. /\ AfterCtx \in Context /\ AfterCtx.hs = Around.hs /\ AfterCtx.rf = 0
        /\ AfterCtx.ow = CatchCtx.ow \ {e}
    BY <1>3 DEF AfterCtx, Context
  <2> QED BY <1>3, <1>6, <2>1 DEF Context
<1>9. T \ {e} = Around.ow BY <1>6, <1>7
<1>10. chunk' = c /\ open' = SetLast(open, o2) /\ loopStack' = loopStack BY DEF FinallyOpen, Here
<1> HIDE DEF x2
<1>11. /\ o2 \in Statement /\ o2.kind = "try" /\ o2.arm = "finally" /\ o2.a = Cur.a
       /\ o2.n = Cur.n /\ o2.ctx = x2 /\ o2.ret = Cur.ret
  BY <1>3, <1>8 DEF Statement
<1> HIDE DEF o2
<1>12. Rises(chunk, D, c, V, Around.ow, F, Len(c) + 1) /\ Alike(chunk, c)
  <2> DEFINE b == Len(c0) + 1
  <2>1. Rises(chunk, D, c0, V, T, F, b) BY <1>5
  <2>2. Len(c0) \in Nat BY <1>5, RisesAre
  <2>3. b <= Len(c0) + 1 /\ e \in T BY <1>6, <2>2
  <2>7. FinallyHere(c0, e, c) BY DEF FinallyHere
  <2> HIDE DEF b, c0, T, e, c
  <2>4. Rises(chunk, D, c, V, T \ {e}, F, Len(c0) + 1) /\ Alike(c0, c) /\ Len(c) = Len(c0)
    BY ONLY <2>1, <2>3, <2>7, RisesFinal
  <2>5. Rises(chunk, D, c, V, T \ {e}, F, Len(c) + 1) BY <2>4
  <2>6. Rises(chunk, D, c, V, Around.ow, F, Len(c) + 1) BY <1>9, <2>5
  <2> QED BY <2>6, RisesAre
<1> HIDE DEF c, c0
<1>13. HolesOf(o2) = {} BY <1>11, HolesOfIs
<1>14. ~IsLoop(o2) /\ ~Owes(o2) BY <1>11 DEF IsLoop, LoopKinds, Owes
<1>15. o2.ctx.ow = Around.ow BY <1>8, <1>9, <1>11
<1>16. Keeping(c, F, o2, Around, loopStack[o2.n + 1])
  <2>1. o2.a \in DOMAIN c /\ c[o2.a].ow = Around.ow BY <1>6, <1>11, <1>12 DEF Alike
  <2>2. o2.ret => Around.ow = {} BY <1>6, <1>11
  <2>3. o2.kind = "try" /\ o2.arm # "body" /\ o2.arm # "catch" BY <1>11
  <2> QED BY <1>14, <1>15, <2>1, <2>2, <2>3 DEF Keeping
<1>17. Within(o2, Around) BY <1>3, <1>8, <1>11 DEF Within
<1>18. /\ V \subseteq Holes \cup HolesOf(o2) /\ \A p \in V : p \in HolesOf(Cur) => p \in HolesOf(o2)
       /\ Rises(chunk, D, c, V, o2.ctx.ow, F, Len(c) + 1)
  BY <1>5, <1>12, <1>15
<1>19. o2.kind = Cur.kind /\ o2.n = Cur.n BY <1>3, <1>11
<1>20. Tidy(c, SetLast(open, o2), loopStack, F)
  BY <1>3, <1>11, <1>16, <1>17, <1>18, <1>19, TidyTurns
<1> QED BY <1>10, <1>20

(* The end of a finally block.                                             *)
LEMMA FinallyCloseTidy ==
  ASSUME Now, NEW D, Tidy(chunk, open, loopStack, D), FinallyClose
  PROVE  \E E : Tidy(chunk', open', loopStack', E)
<1> DEFINE h == Cur.h
           i == InsIn(Ctx, "END_FINALLY", 0, 0, {}, h)
           T == Ctx.ow
           c == Append(BlockEnd, i)
           b == Len(BlockEnd) + 1
           os2 == ButLast(open, 1)
           lp2 == IF IsLoop(Cur) THEN ButLast(loopStack, 1) ELSE loopStack
<1>1. open # <<>> /\ Cur.kind = "try" /\ Cur.arm = "finally" BY DEF FinallyClose, Inside, Cur
<1>2. /\ Cur \in Statement /\ Cur.ctx = Ctx /\ Around \in Context
      /\ scopeDepth = Cur.d + Extra(Cur) /\ Cur.d \in Nat /\ h \in Nat
      /\ Split(locals, Cur.d, h) /\ Within(Cur, Around)
  BY <1>1, CurIs
<1>3. Extra(Cur) = 1 /\ ~IsLoop(Cur) BY <1>1 DEF Extra, InBody, IsLoop, LoopKinds
<1>4. scopeDepth - 1 = Cur.d BY <1>2, <1>3
<1>5. Split(locals, scopeDepth - 1, h) BY <1>2, <1>4
<1>6. EndHeight = h BY <1>2, <1>5, BlockEnded
<1>7. Fair(BlockEnd, Holes, D) /\ Len(BlockEnd) \in Nat BY <1>2, <1>5, FairBlockEnd
<1>8. Keeping(chunk, D, Cur, Around, loopStack[Cur.n + 1])
  <2>1. Len(open) \in DOMAIN open BY <1>1, NowIs, LastIs
  <2> QED BY <2>1, TidyIs DEF Cur, Last, Around
<1>9. T = Around.ow /\ (Cur.ret => T = {}) BY <1>1, <1>2, <1>8 DEF Keeping, Owes
<1>10. "END_FINALLY" \in Ops /\ {} \in SUBSET ErrTypes /\ 0 \in Nat /\ Ctx \in Context
  BY NowIs, OpsAre DEF Ops
<1>11. i \in Instruction /\ i.op = "END_FINALLY" /\ i.ow = T /\ i.rf = Ctx.rf BY <1>2, <1>10, MadeIns
<1>12. chunk' = c /\ open' = os2 /\ loopStack' = lp2 BY <1>3, <1>6 DEF FinallyClose, Close, Ins
<1> HIDE DEF i
<1>13. Payable(BlockEnd, T, i)
  <2>1. i.rf # 0 => T = {} BY <1>1, <1>2, <1>9, <1>11 DEF Within
  <2> QED BY <1>11, <2>1 DEF Payable, Fallible
<1>14. i.op \in Straight BY <1>10, <1>11 DEF Straight, Branches
<1>15. Rises(chunk, D, c, Holes, Around.ow, D, Len(c) + 1)
  <2> DEFINE t == <<i>>
             c1 == BlockEnd
  <2>1. Rises(chunk, D, c1, Holes, T, D, b) BY <1>7 DEF Fair
  <2>2. c1 \in Seq(Instruction) BY <1>7, FairIs
  <2> HIDE DEF c1
  <2>3. t \in Seq(Instruction) /\ c1 \o t = Append(c1, i) /\ t[1] = i /\ DOMAIN t = {1} BY <1>11, <2>2
  <2>4. \A k \in DOMAIN t : t[k].op \in Straight /\ t[k].ow = T /\ Payable(c1, T, t[k])
    BY <1>11, <1>13, <1>14, <2>3 DEF c1
  <2> HIDE DEF t, b, T
  <2>5. Rises(chunk, D, c1 \o t, Holes, T, D, b) BY ONLY <2>1, <2>3, <2>4, RisesTail
  <2>6. Rises(chunk, D, c, Holes, T, D, b) BY <2>3, <2>5 DEF c1
  <2>7. Len(c) \in Nat /\ Len(c) + 1 \in Nat /\ b <= Len(c) + 1
    <3>1. Len(c) = Len(BlockEnd) + 1 BY <1>11, <2>2 DEF c1
    <3> QED BY <1>7, <3>1 DEF b
  <2> HIDE DEF c
  <2> DEFINE b2 == Len(c) + 1
  <2>8. b2 \in Nat /\ b <= b2 BY <2>7
  <2> HIDE DEF b2
  <2>9. Rises(chunk, D, c, Holes, T, D, b2) BY <2>6, <2>8, RisesMore
  <2> QED BY <1>9, <2>9 DEF T, b2
<1>16. HolesOf(Cur) = {} BY <1>1, HolesOfIs
<1> HIDE DEF c
<1>17. /\ Holes \subseteq Holes /\ Holes \cap HolesOf(Cur) = {}
       /\ IsLoop(Cur) => Holes \cap (Last(loopStack).breaks \cup Last(loopStack).continues) = {}
  BY <1>3, <1>16
<1> DEFINE V == Holes
<1>18. /\ Rises(chunk, D, c, V, Around.ow, D, Len(c) + 1) /\ V \subseteq Holes /\ V \cap HolesOf(Cur) = {}
       /\ IsLoop(Cur) => V \cap (Last(loopStack).breaks \cup Last(loopStack).continues) = {}
  BY <1>15, <1>17
<1> HIDE DEF V
<1>19. Tidy(c, os2, lp2, D) BY <1>1, <1>18, TidyCloses
<1> QED BY <1>12, <1>19

----------------------------------------------------------------------------
(* Chunks.                                                                 *)

(* What the compiler checked of the code it hands over is what the machine *)
(* relies on.                                                              *)
LEMMA PaidPays ==
  ASSUME NEW c \in Seq(Instruction), NEW T, NEW D, NEW b, NEW p \in DOMAIN c,
         \A q \in DOMAIN c : q <= p => EvenAt(c, {}, T, D, b, q)
  PROVE  Laid(c, D, p) /\ Pays(c, T, D, p) /\ Settles(c, T, D, p)
<1>1. /\ Laid(c, D, p) /\ Paid(c, D, p) /\ Settles(c, T, D, p)
      /\ \A e : Spans(c, T, e, p) => e \in c[p].ow
  <2>1. EvenAt(c, {}, T, D, b, p) OBVIOUS
  <2> QED BY <2>1 DEF EvenAt, Aims
<1>2. p \in Nat OBVIOUS
<1>3. ASSUME c[p].op \in Fallible, p \notin D
      PROVE  /\ c[p].hs # <<>> => Top(c[p].hs) < p
             /\ \A e : Spans(c, T, e, p) => c[p].hs # <<>> /\ e <= Top(c[p].hs)
  <2>1. CASE c[p].hs = <<>> BY <1>1, <1>3, <2>1 DEF Paid
  <2>2. CASE c[p].hs # <<>>
    <3> DEFINE h == Top(c[p].hs)
    <3>1. h \in 1..(p - 1) /\ c[p].ow \subseteq c[h].ow \cup {h} BY <1>1, <1>3, <2>2 DEF Paid
    <3>2. h \in DOMAIN c /\ h <= p /\ h < p /\ h \in Nat BY <1>2, <3>1
    <3> HIDE DEF h
    <3>3. c[h].ow \subseteq 1..(h - 1) BY <3>2 DEF EvenAt
    <3>4. \A e \in c[p].ow : e <= h BY <3>1, <3>2, <3>3
    <3> QED BY <1>1, <2>2, <3>2, <3>4 DEF h
  <2> QED BY <2>1, <2>2
<1>4. /\ c[p].op = "CALL" => \A e : ~Spans(c, T, e, p)
      /\ c[p].op = "RETURN" => \A e : Spans(c, T, e, p) => c[p].hs # <<>> /\ e = Top(c[p].hs)
      /\ c[p].op = "END_FINALLY" /\ c[p].rf # 0 => \A e : ~Spans(c, T, e, p)
  BY <1>1 DEF Paid
<1>5. Pays(c, T, D, p) BY <1>3, <1>4 DEF Pays
<1> QED BY <1>1, <1>5

(* A finished chunk pays its debts.                                        *)
LEMMA ChunkPays ==
  ASSUME Now, FinishChunk, NEW D, Tidy(chunk, open, loopStack, D)
  PROVE  PaysDebts(chunk \o <<Ins("NOTYPE", 0, 0, Height), Ins("RETURN", 0, 0, Height + 1)>>, D)
<1> DEFINE n == Len(chunk)
           i1 == InsIn(Ctx, "NOTYPE", 0, 0, {}, Height)
           i2 == InsIn(Ctx, "RETURN", 0, 0, {}, Height + 1)
           t == <<i1, i2>>
           s == chunk \o t
           b == n + 1
           V == {}
           T == {}
<1>1. /\ Ctx \in Context /\ Height \in Nat /\ Height + 1 \in Nat /\ chunk \in Seq(Instruction)
      /\ Nesting(open, locals, scopeDepth, loopStack) /\ loopStack \in Seq(LoopRecord)
      /\ n \in Nat /\ DOMAIN chunk = 1..n
  BY NowIs
<1>2. open = <<>> /\ Ctx = Outermost BY DEF FinishChunk, Ctx
<1>3. Holes = {}
  <2>1. DOMAIN open = {} BY <1>2
  <2>2. DOMAIN loopStack = {} BY <1>1, <2>1 DEF Nesting
  <2>3. \A p : p \notin Holes BY <1>2, <2>2, HolesAre DEF Holes
  <2> QED BY <2>3
<1>4. Even(chunk, V, T, D, b)
  <2>1. Even(chunk, Holes, Ctx.ow, D, b) BY TidyIs, FairIs
  <2>2. Ctx.ow = {} BY <1>2 DEF Outermost
  <2> QED BY <1>3, <2>1, <2>2
<1>5. "NOTYPE" \in Ops /\ "RETURN" \in Ops /\ 0 \in Nat /\ {} \in SUBSET ErrTypes BY OpsAre DEF Ops
<1>6. /\ i1 \in Instruction /\ i1.op = "NOTYPE" /\ Ins("NOTYPE", 0, 0, Height) = i1
      /\ i2 \in Instruction /\ i2.op = "RETURN" /\ Ins("RETURN", 0, 0, Height + 1) = i2
      /\ i2.hs = <<>>
  <2>1. i1 \in Instruction /\ Ins("NOTYPE", 0, 0, Height) = i1 BY <1>1, <1>5, InsIs
  <2>3. i1.op = "NOTYPE" BY DEF InsIn
  <2>2. i2 \in Instruction /\ i2.op = "RETURN" /\ i2.hs = Ctx.hs BY <1>1, <1>5, MadeIns
  <2> QED BY <1>2, <2>1, <2>2, <2>3 DEF Ins, Outermost
<1> HIDE DEF i1, i2
<1>7. t \in Seq(Instruction) /\ Len(t) = 2 /\ t[1] = i1 /\ t[2] = i2 BY <1>6
<1> HIDE DEF t
<1>8. /\ s \in Seq(Instruction) /\ DOMAIN s = 1..(n + 2) /\ s[n + 1] = i1 /\ s[n + 2] = i2
      /\ \A p \in 1..n : s[p] = chunk[p]
  <2>0. chunk \in Seq(Instruction) /\ t \in Seq(Instruction) BY <1>1, <1>7
  <2>5. Len(s) = Len(chunk) + Len(t) /\ Behind(chunk, s) BY ONLY <2>0, AppendBehind
  <2>6. s \in Seq(Instruction) BY <2>5 DEF Behind
  <2>1. Len(s) = n + 2 /\ s \in Seq(Instruction) BY <1>7, <2>5, <2>6
  <2>2. 1 \in DOMAIN t /\ 2 \in DOMAIN t BY <1>7
  <2>3. s[n + 1] = t[1] /\ s[n + 2] = t[2] BY <1>1, <1>7, <2>2, AppendBehind
  <2>4. \A p \in 1..n : s[p] = chunk[p] BY <1>1, <1>7
  <2> QED BY <1>7, <2>1, <2>3, <2>4
<1> HIDE DEF s, b, n, V, T
<1>9. Behind(chunk, s) BY <1>1, <1>8 DEF Behind
<1>10. \A q \in DOMAIN s : q \notin DOMAIN chunk => q = n + 1 \/ q = n + 2 BY <1>1, <1>8
<1>11. \A q \in DOMAIN s : q \notin DOMAIN chunk /\ s[q].op = "CATCH" => b + 1 < q
  BY <1>6, <1>8, <1>10
<1>12. b \in Nat /\ b <= b /\ D \subseteq D /\ V \subseteq V /\ \A q \in D : q \in D BY <1>1 DEF b
<1>13. \A p \in DOMAIN chunk : EvenAt(s, V, T, D, b, p)
  <2>1. \A q \in D : q \in D \/ (q \notin DOMAIN chunk /\ b < q) OBVIOUS
  <2> QED BY <1>4, <1>9, <1>11, <1>12, <2>1, EvenBehind
<1>14. D \subseteq DOMAIN chunk BY <1>4, EvenIs
<1>15. \A e : ~Spans(s, {}, e, n + 2)
  <2> SUFFICES ASSUME NEW e, Spans(s, {}, e, n + 2) PROVE FALSE OBVIOUS
  <2>1. /\ e \in DOMAIN s /\ s[e].op = "TRY_ENTER" /\ n + 2 < s[e].y BY DEF Spans
  <2>2. e \in DOMAIN chunk BY <1>6, <1>8, <1>10, <2>1
  <2>3. EvenAt(s, {}, T, D, b, e) BY <1>13, <2>2 DEF V
  <2>4. s[e].y <= n + 1 BY <2>1, <2>3 DEF EvenAt, Aims, b
  <2>5. s[e].y \in Nat BY <1>8, <2>1, InstrTypes
  <2> QED BY <1>1, <2>1, <2>4, <2>5
<1>16. ASSUME NEW p \in DOMAIN s
       PROVE  /\ Laid(s, D, p) /\ Pays(s, {}, D, p) /\ Settles(s, {}, D, p)
              /\ s[p].op = "NOTYPE" => p + 1 \in DOMAIN s /\ s[p + 1].op = "RETURN" /\ s[p + 1].hs = <<>>
  <2>1. CASE p \in DOMAIN chunk
    <3>1. \A q \in DOMAIN s : q <= p => EvenAt(s, {}, {}, D, b, q) BY <1>1, <1>8, <1>13, <2>1 DEF V, T
    <3>2. Laid(s, D, p) /\ Pays(s, {}, D, p) /\ Settles(s, {}, D, p) BY <1>8, <3>1, PaidPays
    <3>3. s[p].op # "NOTYPE" BY <1>13, <2>1 DEF EvenAt
    <3> QED BY <3>2, <3>3
  <2>2. CASE p = n + 1
    <3>1. s[p].op = "NOTYPE" /\ p \notin D BY <1>1, <1>6, <1>8, <1>14, <2>2
    <3>2. p + 1 = n + 2 /\ n + 2 \in DOMAIN s BY <1>1, <1>8, <2>2
    <3>3. Laid(s, D, p) /\ Pays(s, {}, D, p) /\ Settles(s, {}, D, p)
      BY <3>1 DEF Laid, Pays, Settles, Fallible, Branches
    <3> QED BY <1>6, <1>8, <3>2, <3>3
  <2>3. CASE p = n + 2
    <3>1. s[p].op = "RETURN" /\ p \notin D BY <1>1, <1>6, <1>8, <1>14, <2>3
    <3>2. Laid(s, D, p) /\ Settles(s, {}, D, p) BY <3>1 DEF Laid, Settles, Branches
    <3>3. Pays(s, {}, D, p) BY <1>15, <2>3, <3>1 DEF Pays, Fallible
    <3> QED BY <3>1, <3>2, <3>3
  <2> QED BY <1>10, <2>1, <2>2, <2>3
<1>17. PaysDebts(s, D) BY <1>16 DEF PaysDebts
<1> QED BY <1>6, <1>17 DEF s, t

(* Nothing is owed where a chunk begins.                                   *)
LEMMA FreshTidy == \A lp : Tidy(<<>>, <<>>, lp, {})
<1> SUFFICES ASSUME NEW lp PROVE Tidy(<<>>, <<>>, lp, {}) OBVIOUS
<1>1. Innermost(<<>>).ow = {} BY DEF Innermost, Outermost
<1>2. <<>> \in Seq(Instruction) /\ Len(<<>>) = 0 /\ DOMAIN <<>> = {} OBVIOUS
<1>3. Even(<<>>, HolesIn(<<>>, lp), {}, {}, 1) BY <1>2 DEF Even
<1>4. Chained(<<>>) BY <1>2 DEF Chained
<1>5. Len(<<>>) + 1 = 1 OBVIOUS
<1> DEFINE e == <<>>
           V == HolesIn(e, lp)
           T == Innermost(e).ow
<1>6. T = {} /\ Even(e, V, T, {}, Len(e) + 1) /\ Chained(e) /\ DOMAIN e = {}
  BY <1>1, <1>2, <1>3, <1>4, <1>5
<1> HIDE DEF e
<1>7. Tidy(e, e, lp, {}) BY <1>6 DEF Tidy
<1> QED BY <1>7 DEF e

(* Every chunk handed over pays its debts, and the one that is compiled is *)
(* on the way to.                                                          *)
Sworn ==
  /\ \E D : Tidy(chunk, open, loopStack, D)
  /\ \A f \in 1..NumFuncs : f < fn => \E D : PaysDebts(compiled[f], D)

LEMMA SwornFinish == ASSUME CGInv, Sworn, FinishChunk PROVE Sworn'
<1> DEFINE c == chunk \o <<Ins("NOTYPE", 0, 0, Height), Ins("RETURN", 0, 0, Height + 1)>>
<1>1. Now /\ CGTypes BY DEF CGInv, Now
<1>2. PICK D : Tidy(chunk, open, loopStack, D) BY DEF Sworn
<1>3. PaysDebts(c, D) BY <1>1, <1>2, ChunkPays
<1>4. /\ fn <= NumFuncs /\ compiled' = [compiled EXCEPT ![fn] = c] /\ fn' = fn + 1
      /\ chunk' = <<>> /\ open' = <<>>
  BY DEF FinishChunk
<1> HIDE DEF c
<1>5. fn \in 1..NumFuncs /\ NumFuncs \in Nat BY <1>1, <1>4, CodeGenAssumption DEF CGTypes
<1>6. Tidy(chunk', open', loopStack', {}) BY <1>4, FreshTidy
<1>7. ASSUME NEW f \in 1..NumFuncs, f < fn' PROVE \E E : PaysDebts(compiled'[f], E)
  <2>1. CASE f = fn
    <3>1. compiled'[f] = c BY <1>1, <1>4, <1>5, <2>1 DEF CGTypes
    <3> QED BY <1>3, <3>1
  <2>2. CASE f # fn
    <3>1. f < fn BY <1>4, <1>5, <1>7, <2>2
    <3>2. compiled'[f] = compiled[f] BY <1>1, <1>4, <2>2 DEF CGTypes
    <3> QED BY <3>1, <3>2 DEF Sworn
  <2> QED BY <2>1, <2>2
<1> QED BY <1>6, <1>7 DEF Sworn

(* Every statement keeps the invariant of the chunk.                       *)
LEMMA StatementTidy ==
  ASSUME Now, fn \in Nat, Accepted, Careful, NEW D, Tidy(chunk, open, loopStack, D), CGStep, ~FinishChunk
  PROVE  \E E : Tidy(chunk', open', loopStack', E)
<1>0. Tame BY DEF Accepted
<1>1. CASE Let \/ Use \/ Assign \/ Eval \/ Skip
  <2>1. Tidy(chunk', open', loopStack', D) BY <1>1, LetTidy, UseTidy, AssignTidy, EvalTidy, SkipTidy
  <2> QED BY <2>1
<1>2. CASE CallStmt \/ ThrowStmt \/ AssertStmt \/ ReturnStmt
  <2>1. Tidy(chunk', open', loopStack', D) BY <1>2, CallTidy, ThrowTidy, AssertTidy, ReturnTidy
  <2> QED BY <2>1
<1>3. CASE Break \/ Continue
  <2>1. Tidy(chunk', open', loopStack', D) BY <1>0, <1>3, BreakTidy, ContinueTidy
  <2> QED BY <2>1
<1>4. CASE IfOpen \/ Elif \/ Else \/ IfClose
  <2>1. Tidy(chunk', open', loopStack', D) BY <1>4, IfOpenTidy, ElifTidy, ElseTidy, IfCloseTidy
  <2> QED BY <2>1
<1>5. CASE WhileOpen \/ WhileClose \/ DoOpen \/ DoClose
  <2>1. Tidy(chunk', open', loopStack', D)
    BY <1>5, WhileOpenTidy, WhileCloseTidy, DoOpenTidy, DoCloseTidy
  <2> QED BY <2>1
<1>6. CASE ForOpen \/ ForClose \/ ForEachOpen \/ ForEachClose
  <2>1. Tidy(chunk', open', loopStack', D)
    BY <1>6, ForOpenTidy, ForCloseTidy, ForEachOpenTidy, ForEachCloseTidy
  <2> QED BY <2>1
<1>7. CASE SwitchOpen \/ SwitchCase \/ SwitchDefault \/ SwitchClose
  <2>1. Tidy(chunk', open', loopStack', D)
    BY <1>7, SwitchOpenTidy, SwitchCaseTidy, SwitchDefaultTidy, SwitchCloseTidy
  <2> QED BY <2>1
<1>8. CASE TryOpen
  <2>1. Tidy(chunk', open', loopStack', D) BY <1>0, <1>8, TryOpenTidy
  <2> QED BY <2>1
<1>9. CASE CatchClause BY <1>9, CatchClauseTidy
<1>10. CASE TryClose BY <1>10, TryCloseTidy
<1>11. CASE FinallyOpen BY <1>11, FinallyOpenTidy
<1>12. CASE FinallyClose BY <1>12, FinallyCloseTidy
<1> QED
  BY <1>1, <1>2, <1>3, <1>4, <1>5, <1>6, <1>7, <1>8, <1>9, <1>10, <1>11, <1>12 DEF CGStep

(* Every step of the compiler keeps what is sworn.                         *)
LEMMA SwornStep == ASSUME CGInv, Sworn, Accepted, Careful, CGStep PROVE Sworn'
<1>1. CASE FinishChunk BY <1>1, SwornFinish
<1>2. CASE ~FinishChunk
  <2>1. Now /\ fn \in Nat BY CodeGenAssumption DEF CGInv, CGTypes, Now
  <2>2. PICK D : Tidy(chunk, open, loopStack, D) BY DEF Sworn
  <2>3. \E E : Tidy(chunk', open', loopStack', E) BY <1>2, <2>1, <2>2, StatementTidy
  <2>4. fn' = fn /\ compiled' = compiled
    BY <1>2 DEF CGStep, Let, Use, Assign, Eval, Skip, CallStmt, ThrowStmt, AssertStmt, ReturnStmt,
                Break, Continue, IfOpen, Elif, Else, IfClose, WhileOpen, WhileClose, DoOpen, DoClose,
                ForOpen, ForClose, ForEachOpen, ForEachClose, SwitchOpen, SwitchCase, SwitchDefault,
                SwitchClose, TryOpen, CatchClause, TryClose, FinallyOpen, FinallyClose, Same
  <2> QED BY <2>3, <2>4 DEF Sworn
<1> QED BY <1>1, <1>2

(* What is sworn of a finished program lets the machine begin.             *)
LEMMA SwornStarts ==
  ASSUME WholeInv, Sworn, Accepted, ~skipped, Start
  PROVE  Covered'
<1>1. Compiled /\ BeginRunOf(compiled) /\ status = "idle" BY DEF Start, BeginRunOf
<1>2. frames = <<>> /\ stack = <<>> /\ CGInv BY <1>1 DEF WholeInv, RInv
<1>3. Funcs = 1..NumFuncs BY DEF Accepted
<1>4. IsProgram(compiled) /\ Verified(compiled) BY <1>1, <1>2, <1>3, OutputVerified
<1>5. \A f \in Funcs : \E d : PaysDebts(compiled[f], d)
  <2>1. NumFuncs \in Nat /\ fn \in Nat /\ fn > NumFuncs
    BY <1>1, <1>2, CodeGenAssumption DEF CGInv, CGTypes, Compiled
  <2>2. \A f \in Funcs : f \in 1..NumFuncs /\ f < fn BY <1>3, <2>1
  <2> QED BY <2>2 DEF Sworn
<1>6. \E D : \A f \in Funcs : PaysDebts(compiled[f], D[f])
  <2> DEFINE E == [f \in Funcs |-> CHOOSE d : PaysDebts(compiled[f], d)]
  <2>1. \A f \in Funcs : PaysDebts(compiled[f], E[f]) BY <1>5
  <2> QED BY <2>1
<1>7. PICK D : \A f \in Funcs : PaysDebts(compiled[f], D[f]) BY <1>6
<1>8. DebtsWith(D)' BY <1>1, <1>2, <1>4, <1>7, BeginDebts
<1> QED BY <1>8 DEF Covered

(* The compiler's side holds until the machine starts, the machine's for   *)
(* good.                                                                   *)
DebtInv ==
  /\ WholeInv
  /\ status = "idle" => Sworn /\ ~skipped
  /\ status # "idle" => Covered

LEMMA DebtInit == ASSUME Accepted, Init PROVE DebtInv
<1>1. WholeInv BY WholeInit DEF Accepted
<1>2. status = "idle" /\ ~skipped BY DEF Init, VMIdle
<1>3. Sworn
  <2>1. chunk = <<>> /\ open = <<>> /\ fn = 1 BY DEF Init, CGInit
  <2>2. Tidy(chunk, open, loopStack, {}) BY <2>1, FreshTidy
  <2>3. \A f \in 1..NumFuncs : ~(f < fn) BY <2>1, CodeGenAssumption
  <2> QED BY <2>2, <2>3 DEF Sworn
<1> QED BY <1>1, <1>2, <1>3 DEF DebtInv

LEMMA DebtInvStep == ASSUME DebtInv, Accepted, Careful, [Next]_vars PROVE DebtInv'
<1>1. WholeInv /\ WholeInv' BY WholeStep DEF DebtInv
<1>2. CASE Compile
  <2>1. CGStep /\ status' = status /\ skipped' = skipped /\ [VMNext]_vmVars
    BY <1>2 DEF Compile, vmVars
  <2>2. ASSUME status = "idle" PROVE Sworn' /\ ~skipped'
    BY <1>1, <2>1, <2>2, SwornStep DEF DebtInv, WholeInv
  <2>3. ASSUME status # "idle" PROVE Covered'
    BY <1>1, <2>1, <2>3, CoveredStep DEF DebtInv, WholeInv, RInv
  <2> QED BY <1>1, <2>1, <2>2, <2>3 DEF DebtInv
<1>3. CASE Start
  <2>1. status = "idle" /\ status' = "running" BY <1>3 DEF Start, BeginRunOf
  <2>2. Covered' BY <1>1, <1>3, <2>1, SwornStarts DEF DebtInv
  <2> QED BY <1>1, <2>1, <2>2 DEF DebtInv
<1>4. CASE Run
  <2>1. status # "idle" /\ VMNext BY <1>4 DEF Run, VMNext
  <2>2. VInv /\ Covered BY <1>1, <2>1 DEF DebtInv, WholeInv, RInv
  <2>3. Covered' BY <2>1, <2>2, CoveredStep
  <2>4. status' # "idle" BY <1>4, <2>1, <2>2, CodeStays DEF VInv, Run
  <2> QED BY <1>1, <2>3, <2>4 DEF DebtInv
<1>5. CASE UNCHANGED vars
  <2>1. UNCHANGED vmVars /\ status' = status /\ skipped' = skipped /\ [VMNext]_vmVars
    BY <1>5 DEF vars, vmVars
  <2>2. /\ chunk' = chunk /\ open' = open /\ loopStack' = loopStack /\ fn' = fn
        /\ compiled' = compiled
    BY <1>5 DEF vars, cgVars
  <2>3. Sworn => Sworn' BY <2>2 DEF Sworn
  <2>4. ASSUME status # "idle" PROVE Covered'
    BY <1>1, <2>1, <2>4, CoveredStep DEF DebtInv, WholeInv, RInv
  <2> QED BY <1>1, <2>1, <2>3, <2>4 DEF DebtInv
<1> QED BY <1>2, <1>3, <1>4, <1>5 DEF Next

(* In every run of a compiled program a finally block that was promised    *)
(* runs: whatever the statements, nested however deeply, no error, return, *)
(* break or continue leaves a try statement behind its finally block, as   *)
(* long as the program uses none of the combinations that Careful and      *)
(* Accepted exclude.                                                       *)
THEOREM CompiledFinallyRuns ==
  ASSUME Accepted, Careful PROVE Spec => []FinallyAlwaysRuns
<1>1. Init => DebtInv BY DebtInit
<1>2. DebtInv /\ [Next]_vars => DebtInv' BY DebtInvStep
<1>3. DebtInv => FinallyAlwaysRuns BY CoveredRuns DEF DebtInv, FinallyAlwaysRuns
<1> QED BY <1>1, <1>2, <1>3, PTL DEF Spec
=============================================================================
