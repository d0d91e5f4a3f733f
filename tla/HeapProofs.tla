----------------------------- MODULE HeapProofs -----------------------------
(***************************************************************************)
(* Proofs about the heap, for any number of objects, variables, values and *)
(* nested VMs: a program that keeps within the collector's sight has a     *)
(* memory.  Then about the sweep, which walks a list while what it deletes *)
(* is taken out of that list: it never stands on a deleted object, it      *)
(* comes to an end, and it leaves nothing the program cannot reach.        *)
(***************************************************************************)
EXTENDS Heap, SequenceTheorems, FiniteSetTheorems, TLAPS

(***************************************************************************)
(* Reaching.                                                               *)
(***************************************************************************)
LEMMA ReachableHas ==
  ASSUME NEW c, NEW S, S \subseteq Objects
  PROVE  S \subseteq Reachable(c, S)
BY DEF Reachable

LEMMA ReachableClosed ==
  ASSUME NEW c, NEW S, \A o \in DOMAIN c : c[o] \subseteq Objects
  PROVE  Closed(c, Reachable(c, S))
<1> SUFFICES ASSUME NEW o \in Reachable(c, S) \cap DOMAIN c, NEW x \in c[o] PROVE x \in Reachable(c, S)
  BY DEF Closed
<1>1. x \in Objects OBVIOUS
<1>2. ASSUME NEW T \in SUBSET (Objects \ {x}), S \subseteq T, Closed(c, T) PROVE FALSE
  <2>1. o \notin T BY <1>2 DEF Closed
  <2> QED BY <1>2, <2>1 DEF Reachable
<1> QED BY <1>1, <1>2 DEF Reachable

LEMMA ReachableLeast ==
  ASSUME NEW c, NEW S, NEW T, S \subseteq T, Closed(c, T),
         \A o \in DOMAIN c : c[o] \subseteq Objects, S \subseteq Objects
  PROVE  Reachable(c, S) \subseteq T
<1> SUFFICES ASSUME NEW o \in Reachable(c, S), o \notin T PROVE FALSE OBVIOUS
<1> DEFINE U == T \cap Objects
<1>1. U \in SUBSET (Objects \ {o}) /\ S \subseteq U OBVIOUS
<1>2. Closed(c, U) BY DEF Closed
<1> HIDE DEF U
<1> QED BY <1>1, <1>2 DEF Reachable

(* What cannot be reached makes no difference to what is seen.             *)
LEMMA Agree ==
  ASSUME NEW c, NEW d, NEW S, S \subseteq Objects,
         \A o \in DOMAIN c : c[o] \subseteq Objects,
         \A o \in DOMAIN d : d[o] \subseteq Objects,
         Reachable(c, S) \subseteq DOMAIN c, Reachable(c, S) \subseteq DOMAIN d,
         \A o \in Reachable(c, S) : c[o] = d[o]
  PROVE  Reachable(d, S) = Reachable(c, S) /\ Visible(d, S) = Visible(c, S)
<1>1. Reachable(d, S) \subseteq Reachable(c, S)
  <2>1. S \subseteq Reachable(c, S) BY ReachableHas
  <2>2. Closed(c, Reachable(c, S)) BY ReachableClosed
  <2>3. Closed(d, Reachable(c, S)) BY <2>2 DEF Closed
  <2> QED BY <2>1, <2>3, ReachableLeast
<1>2. Reachable(c, S) \subseteq Reachable(d, S)
  <2>1. S \subseteq Reachable(d, S) BY ReachableHas
  <2>2. Closed(d, Reachable(d, S)) BY ReachableClosed
  <2>3. Closed(c, Reachable(d, S)) BY <1>1, <2>2 DEF Closed
  <2> QED BY <2>1, <2>3, ReachableLeast
<1> QED BY <1>1, <1>2 DEF Visible

(***************************************************************************)
(* The heap that counts leave.                                             *)
(***************************************************************************)
Cell(D) == [kind : {"container", "opaque"}, items : SUBSET D]
IsHeap(h) == h \in [DOMAIN h -> Cell(DOMAIN h)] /\ DOMAIN h \subseteq Objects
ItemsOf(h) == [o \in DOMAIN h |-> h[o].items]

LEMMA HeapItems ==
  ASSUME NEW h, IsHeap(h)
  PROVE  /\ DOMAIN ItemsOf(h) = DOMAIN h
         /\ \A o \in DOMAIN h : ItemsOf(h)[o] = h[o].items /\ h[o].items \subseteq DOMAIN h
         /\ \A o \in DOMAIN ItemsOf(h) : ItemsOf(h)[o] \subseteq Objects
BY DEF IsHeap, Cell, ItemsOf

LEMMA ReachesLiving ==
  ASSUME NEW h, IsHeap(h), NEW S, S \subseteq DOMAIN h
  PROVE  Reachable(ItemsOf(h), S) \subseteq DOMAIN h
<1>1. S \subseteq Objects BY DEF IsHeap
<1>2. Closed(ItemsOf(h), DOMAIN h) BY HeapItems DEF Closed
<1> QED BY <1>1, <1>2, HeapItems, ReachableLeast

LEMMA Survive ==
  ASSUME NEW h, IsHeap(h), NEW S, S \subseteq DOMAIN h
  PROVE  /\ IsHeap(Survivors(h, S)) /\ S \subseteq DOMAIN Survivors(h, S)
         /\ DOMAIN Survivors(h, S) \subseteq DOMAIN h
         /\ \A o \in DOMAIN Survivors(h, S) : Survivors(h, S)[o] = h[o]
         /\ Visible(ItemsOf(Survivors(h, S)), S) = Visible(ItemsOf(h), S)
<1> DEFINE k == Survivors(h, S)
           R == Reachable(ItemsOf(h), S)
<1>1. DOMAIN k = Kept(h, S) /\ DOMAIN k \subseteq DOMAIN h /\ \A o \in DOMAIN k : k[o] = h[o]
  BY DEF Survivors, Kept
<1>2. S \subseteq Kept(h, S)
  <2>1. S \in SUBSET DOMAIN h /\ Supported(h, S, S) BY DEF Supported
  <2> QED BY <2>1 DEF Kept
<1>3. ASSUME NEW o \in Kept(h, S), NEW x \in h[o].items PROVE x \in Kept(h, S)
  <2>1. PICK T \in SUBSET DOMAIN h : o \in T /\ Supported(h, S, T) BY <1>3 DEF Kept
  <2>2. x \in DOMAIN h BY <1>3, <2>1, HeapItems
  <2>3. T \cup {x} \in SUBSET DOMAIN h BY <2>2
  <2>4. Supported(h, S, T \cup {x}) BY <1>3, <2>1 DEF Supported
  <2> QED BY <2>2, <2>3, <2>4 DEF Kept
<1>4. IsHeap(k)
  <2>1. \A o \in DOMAIN k : k[o] \in Cell(DOMAIN k)
    <3> SUFFICES ASSUME NEW o \in DOMAIN k PROVE k[o] \in Cell(DOMAIN k) OBVIOUS
    <3>1. k[o] = h[o] /\ h[o] \in Cell(DOMAIN h) BY <1>1 DEF IsHeap
    <3>2. h[o].items \subseteq DOMAIN k BY <1>1, <1>3
    <3> QED BY <3>1, <3>2 DEF Cell
  <2>2. k = [o \in DOMAIN k |-> k[o]] BY DEF Survivors
  <2>3. k \in [DOMAIN k -> Cell(DOMAIN k)] BY <2>1, <2>2
  <2>4. DOMAIN k \subseteq Objects BY <1>1 DEF IsHeap
  <2> QED BY <2>3, <2>4 DEF IsHeap
<1>5. S \subseteq Objects BY DEF IsHeap
<1>6. R \subseteq DOMAIN h BY ReachesLiving
<1>7. R \subseteq Kept(h, S)
  <2>1. Supported(h, S, R)
    <3> SUFFICES ASSUME NEW x \in R, x \notin S, \A p \in R : x \notin h[p].items PROVE FALSE
      BY DEF Supported
    <3>1. S \subseteq R \ {x} BY <1>5, ReachableHas
    <3>2. Closed(ItemsOf(h), R) BY HeapItems, ReachableClosed
    <3>3. Closed(ItemsOf(h), R \ {x}) BY <3>2, <1>6, HeapItems DEF Closed
    <3>4. R \subseteq R \ {x} BY <3>1, <3>3, <1>5, HeapItems, ReachableLeast
    <3> QED BY <3>4
  <2>2. R \in SUBSET DOMAIN h BY <1>6
  <2> HIDE DEF R
  <2> QED BY <2>1, <2>2 DEF Kept
<1>8. Visible(ItemsOf(k), S) = Visible(ItemsOf(h), S)
  <2>1. \A o \in R : ItemsOf(h)[o] = ItemsOf(k)[o] BY <1>1, <1>6, <1>7 DEF ItemsOf
  <2>2. R \subseteq DOMAIN ItemsOf(h) /\ R \subseteq DOMAIN ItemsOf(k) BY <1>1, <1>6, <1>7 DEF ItemsOf
  <2>3. \A o \in DOMAIN ItemsOf(k) : ItemsOf(k)[o] \subseteq Objects BY <1>4, HeapItems
  <2>4. \A o \in DOMAIN ItemsOf(h) : ItemsOf(h)[o] \subseteq Objects BY HeapItems
  <2> HIDE DEF k
  <2> QED BY <2>1, <2>2, <2>3, <2>4, <1>5, Agree
<1> QED BY <1>1, <1>2, <1>4, <1>8

(***************************************************************************)
(* The invariant.                                                          *)
(***************************************************************************)
VM == [stack : Seq(Objects), pending : Objects \cup {Nil}, receiver : Objects \cup {Nil},
       copied : SUBSET Objects]
Chain(vs) == vs \in Seq(VM) /\ vs # <<>> /\ \A i \in 1..Len(vs) - 1 : vs[i].receiver # Nil
HeldBy(vm) == Range(vm.stack) \cup Real({vm.pending, vm.receiver}) \cup vm.copied

TypeInv ==
  /\ IsHeap(heap) /\ Chain(vms) /\ globals \in [Names -> Objects \cup {Nil}]
  /\ phase \in {"run", "mark", "sweep"}
  /\ Held \subseteq DOMAIN heap

(* When the sweep begins, and until it ends, the marked objects are closed *)
(* under what the collector looks at.                                      *)
MarksClosed ==
  phase = "sweep" =>
    /\ Direct \subseteq marked
    /\ \A o \in marked \cap DOMAIN heap : heap[o].kind = "container" => heap[o].items \subseteq marked

IInv == TypeInv /\ Careful /\ MarksClosed

LEMMA HeldIs ==
  Held = Real({globals[n] : n \in Names}) \cup UNION {HeldBy(vms[i]) : i \in DOMAIN vms}
BY DEF Held, Direct, Hidden, HeldBy, Real

LEMMA HeldWithin ==
  ASSUME NEW D, \A n \in Names : globals[n] \in D \cup {Nil},
         \A i \in DOMAIN vms : HeldBy(vms[i]) \subseteq D
  PROVE  Held \subseteq D
BY HeldIs DEF Real

LEMMA Holders ==
  ASSUME TypeInv
  PROVE  /\ \A n \in Names : globals[n] \in Held \cup {Nil}
         /\ \A i \in DOMAIN vms : HeldBy(vms[i]) \subseteq Held
         /\ Held \subseteq Objects
<1>1. Held \subseteq Objects BY DEF TypeInv, IsHeap
<1> QED BY <1>1, HeldIs DEF TypeInv, Real

(* What is held is seen, and so is what is in what is seen.                *)
LEMMA SeesHeld ==
  ASSUME TypeInv
  PROVE  /\ Items = ItemsOf(heap)
         /\ DOMAIN Contents \subseteq DOMAIN heap /\ Held \subseteq DOMAIN Contents
         /\ DOMAIN Contents = Reachable(Items, Held)
         /\ \A o \in DOMAIN Contents : Contents[o] = heap[o].items /\ heap[o].items \subseteq DOMAIN Contents
<1>1. Items = ItemsOf(heap) /\ IsHeap(heap) BY DEF Items, ItemsOf, TypeInv
<1>2. Held \subseteq DOMAIN heap BY DEF TypeInv
<1>3. Reachable(Items, Held) \subseteq DOMAIN heap BY <1>1, <1>2, ReachesLiving
<1>4. DOMAIN Contents = Reachable(Items, Held) /\ \A o \in DOMAIN Contents : Contents[o] = heap[o].items
  BY <1>1, <1>3 DEF Contents, Visible, ItemsOf
<1>5. Held \subseteq Objects BY Holders
<1>6. Held \subseteq Reachable(Items, Held) BY <1>5, ReachableHas
<1>7. Closed(Items, Reachable(Items, Held)) BY <1>1, HeapItems, ReachableClosed
<1>8. \A o \in DOMAIN Contents : heap[o].items \subseteq DOMAIN Contents
  BY <1>1, <1>3, <1>4, <1>7, HeapItems DEF Closed
<1> QED BY <1>1, <1>3, <1>4, <1>6, <1>8

(***************************************************************************)
(* A step of the program that ends in a heap h.                            *)
(***************************************************************************)
LEMMA Settled ==
  ASSUME NEW h, NEW s, Settle(h, s), IsHeap(h), Held' \subseteq DOMAIN h,
         Chain(vms'), globals' \in [Names -> Objects \cup {Nil}], phase' = "run"
  PROVE  IInv' /\ Contents' = Visible(ItemsOf(h), Held')
<1>1. heap' = Survivors(h, Held') /\ Careful' BY DEF Settle
<1>2. IsHeap(heap') /\ Held' \subseteq DOMAIN heap' BY <1>1, Survive
<1>3. Items' = ItemsOf(heap') BY DEF Items, ItemsOf
<1>4. Contents' = Visible(ItemsOf(h), Held') BY <1>1, <1>3, Survive DEF Contents
<1>5. TypeInv' BY <1>2 DEF TypeInv
<1>6. MarksClosed' BY DEF MarksClosed
<1> QED BY <1>1, <1>4, <1>5, <1>6 DEF IInv

Typed == Chain(vms') /\ globals' \in [Names -> Objects \cup {Nil}]

LEMMA HoldStep ==
  ASSUME IInv, Running, Typed, NEW s, Settle(heap, s), Held' \subseteq DOMAIN Contents
  PROVE  IInv' /\ Promise!Program
<1>1. phase = "run" /\ phase' = "run" BY DEF Running, gcVars
<1>2. IsHeap(heap) /\ Held' \subseteq DOMAIN heap BY SeesHeld DEF IInv, TypeInv
<1>3. IInv' /\ Contents' = Visible(ItemsOf(heap), Held') BY <1>1, <1>2, Settled DEF Typed
<1>4. Visible(ItemsOf(heap), Held') = Visible(Contents, Held')
  <2> DEFINE R == Reachable(ItemsOf(heap), Held')
  <2>1. TypeInv BY DEF IInv
  <2>2. Closed(ItemsOf(heap), DOMAIN Contents) BY <2>1, <1>2, SeesHeld, HeapItems DEF Closed
  <2>3. Held' \subseteq Objects BY <1>2 DEF IsHeap
  <2>4. R \subseteq DOMAIN Contents BY <2>2, <2>3, <1>2, HeapItems, ReachableLeast
  <2>5. R \subseteq DOMAIN ItemsOf(heap) BY <2>1, <2>4, <1>2, SeesHeld, HeapItems
  <2>6. \A o \in R : ItemsOf(heap)[o] = Contents[o] BY <2>1, <2>4, <2>5, <1>2, SeesHeld, HeapItems
  <2>7. \A o \in DOMAIN Contents : Contents[o] \subseteq Objects BY <2>1, <1>2, SeesHeld DEF IsHeap
  <2>8. \A o \in DOMAIN ItemsOf(heap) : ItemsOf(heap)[o] \subseteq Objects BY <1>2, HeapItems
  <2> HIDE DEF R
  <2> QED BY <2>3, <2>4, <2>5, <2>6, <2>7, <2>8, Agree DEF R
<1>5. Promise!Hold(Contents, Contents') BY <1>3, <1>4 DEF Promise!Hold, Promise!Visible, Visible,
        Promise!Reachable, Reachable, Promise!Closed, Closed
<1> QED BY <1>1, <1>3, <1>5 DEF Promise!Program

LEMMA WriteStep ==
  ASSUME IInv, Running, Typed, NEW o \in DOMAIN Contents, NEW new \in SUBSET DOMAIN Contents,
         NEW s, Settle([heap EXCEPT ![o].items = new], s), Held' \subseteq DOMAIN Contents
  PROVE  IInv' /\ Promise!Program
<1> DEFINE h == [heap EXCEPT ![o].items = new]
           R == Reachable(ItemsOf(h), Held')
           d == [Contents EXCEPT ![o] = new]
<1>1. phase = "run" /\ phase' = "run" BY DEF Running, gcVars
<1>2. TypeInv BY DEF IInv
<1>3. IsHeap(heap) /\ Held' \subseteq DOMAIN heap BY <1>2, SeesHeld DEF TypeInv
<1>4. o \in DOMAIN heap /\ new \subseteq DOMAIN heap BY <1>2, SeesHeld
<1>5. IsHeap(h) /\ DOMAIN h = DOMAIN heap BY <1>3, <1>4 DEF IsHeap, Cell
<1>6. \A x \in DOMAIN h : ItemsOf(h)[x] = (IF x = o THEN new ELSE heap[x].items)
  BY <1>3, <1>4, <1>5 DEF ItemsOf, IsHeap, Cell
<1>7. DOMAIN ItemsOf(h) = DOMAIN heap BY <1>5 DEF ItemsOf
<1>8. IInv' /\ Contents' = Visible(ItemsOf(h), Held') BY <1>1, <1>3, <1>5, Settled DEF Typed
<1> HIDE DEF h
<1>9. Held' \subseteq Objects BY <1>3 DEF IsHeap
<1>10. \A x \in DOMAIN ItemsOf(h) : ItemsOf(h)[x] \subseteq Objects BY <1>5, HeapItems
<1>11. Closed(ItemsOf(h), DOMAIN Contents) BY <1>2, <1>5, <1>6, <1>7, SeesHeld DEF Closed
<1>12. R \subseteq DOMAIN Contents BY <1>9, <1>10, <1>11, ReachableLeast
<1>13. R \subseteq DOMAIN ItemsOf(h) BY <1>2, <1>7, <1>12, SeesHeld
<1>14. \A x \in DOMAIN Contents : Contents[x] = heap[x].items /\ Contents[x] \subseteq Objects
  BY <1>2, <1>3, SeesHeld DEF IsHeap
<1>15. DOMAIN Contents' = R
  <2>1. DOMAIN Visible(ItemsOf(h), Held') = R BY <1>13 DEF Visible
  <2> QED BY <2>1, <1>8
<1>16. CASE o \in R
  <2>1. DOMAIN d = DOMAIN Contents /\ \A x \in DOMAIN d : d[x] = (IF x = o THEN new ELSE Contents[x])
    BY DEF Contents, Visible
  <2>2. \A x \in DOMAIN d : d[x] \subseteq Objects BY <2>1, <1>14, <1>2, <1>3, SeesHeld DEF IsHeap
  <2>3. \A x \in R : ItemsOf(h)[x] = d[x] BY <2>1, <1>12, <1>13, <1>6, <1>7, <1>5, <1>14
  <2> HIDE DEF R, d
  <2>4. Visible(d, Held') = Visible(ItemsOf(h), Held')
    BY <2>1, <2>2, <2>3, <1>9, <1>10, <1>12, <1>13, Agree DEF R
  <2>5. Contents'[o] = new
    <3>1. Contents'[o] = ItemsOf(h)[o] BY <1>8, <1>13, <1>16 DEF Visible, R
    <3> QED BY <3>1, <1>6, <1>4, <1>5
  <2>6. Contents' = Visible([Contents EXCEPT ![o] = Contents'[o]], Held') BY <2>4, <2>5, <1>8 DEF d
  <2>7. Promise!Write(Contents, Contents')
    <3>1. o \in DOMAIN Contents \cap DOMAIN Contents' BY <1>15, <1>16
    <3>2. Contents'[o] \subseteq DOMAIN Contents BY <2>5
    <3> QED BY <2>6, <3>1, <3>2 DEF Promise!Write, Promise!Visible, Visible,
          Promise!Reachable, Reachable, Promise!Closed, Closed
  <2> QED BY <1>1, <1>8, <2>7 DEF Promise!Program
<1>17. CASE o \notin R
  <2>1. \A x \in R : ItemsOf(h)[x] = Contents[x] BY <1>17, <1>12, <1>13, <1>6, <1>7, <1>5, <1>14
  <2> HIDE DEF R
  <2>2. Visible(Contents, Held') = Visible(ItemsOf(h), Held')
    BY <2>1, <1>9, <1>10, <1>12, <1>13, <1>14, Agree DEF R
  <2>3. Promise!Hold(Contents, Contents') BY <1>8, <2>2 DEF Promise!Hold, Promise!Visible, Visible,
        Promise!Reachable, Reachable, Promise!Closed, Closed
  <2> QED BY <1>1, <1>8, <2>3 DEF Promise!Program
<1> QED BY <1>16, <1>17

LEMMA AllocateStep ==
  ASSUME IInv, Running, Typed, NEW o \in Objects \ DOMAIN heap, NEW new \in SUBSET DOMAIN Contents,
         NEW kind \in {"container", "opaque"}, NEW s,
         Settle([x \in DOMAIN heap \cup {o} |-> IF x = o THEN [kind |-> kind, items |-> new] ELSE heap[x]], s),
         o \in Held', Held' \ {o} \subseteq DOMAIN Contents
  PROVE  IInv' /\ Promise!Program
<1> DEFINE h == [x \in DOMAIN heap \cup {o} |-> IF x = o THEN [kind |-> kind, items |-> new] ELSE heap[x]]
           R == Reachable(ItemsOf(h), Held')
           d == [x \in DOMAIN Contents \cup {o} |-> IF x = o THEN new ELSE Contents[x]]
<1>1. phase = "run" /\ phase' = "run" BY DEF Running, gcVars
<1>2. TypeInv BY DEF IInv
<1>3. IsHeap(heap) /\ DOMAIN Contents \subseteq DOMAIN heap BY <1>2, SeesHeld DEF TypeInv
<1>4. new \subseteq DOMAIN heap BY <1>3
<1>5. IsHeap(h) /\ DOMAIN h = DOMAIN heap \cup {o} BY <1>3, <1>4 DEF IsHeap, Cell
<1>6. \A x \in DOMAIN h : ItemsOf(h)[x] = (IF x = o THEN new ELSE heap[x].items) BY DEF ItemsOf
<1>7. DOMAIN ItemsOf(h) = DOMAIN heap \cup {o} BY <1>5 DEF ItemsOf
<1>8. Held' \subseteq DOMAIN h BY <1>3, <1>5
<1>9. IInv' /\ Contents' = Visible(ItemsOf(h), Held') BY <1>1, <1>5, <1>8, Settled DEF Typed
<1> HIDE DEF h
<1>10. Held' \subseteq Objects BY <1>5, <1>8 DEF IsHeap
<1>11. \A x \in DOMAIN ItemsOf(h) : ItemsOf(h)[x] \subseteq Objects BY <1>5, HeapItems
<1>12. Closed(ItemsOf(h), DOMAIN Contents \cup {o}) BY <1>2, <1>5, <1>6, <1>7, SeesHeld DEF Closed
<1>13. R \subseteq DOMAIN Contents \cup {o} BY <1>10, <1>11, <1>12, ReachableLeast
<1>14. R \subseteq DOMAIN ItemsOf(h) BY <1>3, <1>7, <1>13
<1>15. \A x \in DOMAIN Contents : Contents[x] = heap[x].items /\ Contents[x] \subseteq Objects
  BY <1>2, <1>3, SeesHeld DEF IsHeap
<1>16. o \in R BY <1>10, ReachableHas
<1>17. \A x \in R : ItemsOf(h)[x] = d[x] BY <1>13, <1>14, <1>6, <1>7, <1>5, <1>15
<1>18. \A x \in DOMAIN d : d[x] \subseteq Objects BY <1>15, <1>4, <1>3 DEF IsHeap
<1>19. R \subseteq DOMAIN d BY <1>13
<1> HIDE DEF R, d
<1>20. Visible(d, Held') = Visible(ItemsOf(h), Held')
  BY <1>10, <1>11, <1>14, <1>17, <1>18, <1>19, Agree DEF R
<1>21. Contents'[o] = new
  <2>1. Contents'[o] = ItemsOf(h)[o] BY <1>9, <1>14, <1>16 DEF Visible, R
  <2> QED BY <2>1, <1>6, <1>5
<1>22. Contents' = Visible([x \in DOMAIN Contents \cup {o} |-> IF x = o THEN Contents'[o] ELSE Contents[x]], Held')
  BY <1>20, <1>21, <1>9 DEF d
<1>23. o \notin DOMAIN Contents BY <1>3
<1>24. Promise!Allocate(Contents, Contents')
  <2>1. o \in Held' \ DOMAIN Contents /\ Contents'[o] \subseteq DOMAIN Contents BY <1>21, <1>23
  <2> QED BY <2>1, <1>22 DEF Promise!Allocate, Promise!Visible, Visible,
        Promise!Reachable, Reachable, Promise!Closed, Closed
<1> QED BY <1>1, <1>9, <1>24 DEF Promise!Program

(***************************************************************************)
(* A step of the collector.                                                *)
(***************************************************************************)

(* What the program reaches is marked: the collector does not look into    *)
(* every place, but what is there is also in sight.                        *)
LEMMA MarksReach ==
  ASSUME IInv, Risks = {}, phase = "sweep"
  PROVE  DOMAIN Contents \subseteq marked
<1>1. TypeInv /\ Careful BY DEF IInv
<1>2. IsHeap(heap) /\ Held \subseteq DOMAIN heap BY <1>1 DEF TypeInv
<1>3. /\ Direct \subseteq marked
      /\ \A o \in marked \cap DOMAIN heap : heap[o].kind = "container" => heap[o].items \subseteq marked
  BY DEF IInv, MarksClosed
<1>4. Seen \subseteq marked
  <2>1. Direct \subseteq DOMAIN heap BY <1>2 DEF Held
  <2> QED BY <1>3, <2>1 DEF Seen
<1>5. Hidden \subseteq Seen
  <2>1. \A i \in DOMAIN vms : Real({vms[i].receiver}) \cup vms[i].copied \subseteq Seen
    BY <1>1 DEF Careful
  <2>2. \A i \in DOMAIN vms : Real({vms[i].pending}) \subseteq Seen BY <1>1 DEF Careful
  <2>3. \A i \in DOMAIN vms : Real({vms[i].pending, vms[i].receiver}) \cup vms[i].copied \subseteq Seen
    BY <2>1, <2>2 DEF Real
  <2> QED BY <2>3 DEF Hidden
<1>6. Held \subseteq marked BY <1>3, <1>4, <1>5 DEF Held
<1>7. \A o \in marked \cap DOMAIN heap : heap[o].items \subseteq marked
  <2> SUFFICES ASSUME NEW o \in marked \cap DOMAIN heap PROVE heap[o].items \subseteq marked OBVIOUS
  <2>1. heap[o].kind = "container" \/ heap[o].kind = "opaque" BY <1>2 DEF IsHeap, Cell
  <2>2. CASE heap[o].kind = "container" BY <2>2, <1>3
  <2>3. CASE heap[o].kind = "opaque" BY <2>3, <1>1, <1>4 DEF Careful
  <2> QED BY <2>1, <2>2, <2>3
<1>8. Closed(Items, marked) BY <1>7 DEF Closed, Items
<1>9. Held \subseteq Objects BY <1>1, Holders
<1>10. \A o \in DOMAIN Items : Items[o] \subseteq Objects BY <1>1, <1>2, SeesHeld, HeapItems
<1> QED BY <1>1, <1>6, <1>8, <1>9, <1>10, SeesHeld, ReachableLeast

LEMMA SameHeap ==
  ASSUME UNCHANGED <<heap, globals, vms>>
  PROVE  /\ Held' = Held /\ Direct' = Direct /\ Contents' = Contents /\ (Careful <=> Careful')
         /\ TypeInv /\ phase' \in {"run", "mark", "sweep"} => TypeInv'
<1>1. Direct' = Direct /\ Hidden' = Hidden BY DEF Direct, Hidden
<1>2. Held' = Held BY <1>1 DEF Held
<1>3. Items' = Items BY DEF Items
<1>4. Contents' = Contents BY <1>2, <1>3 DEF Contents
<1>5. Seen' = Seen BY <1>1 DEF Seen
<1>6. Careful <=> Careful' BY <1>5 DEF Careful
<1>7. TypeInv /\ phase' \in {"run", "mark", "sweep"} => TypeInv' BY <1>2 DEF TypeInv
<1> QED BY <1>1, <1>2, <1>4, <1>6, <1>7

LEMMA SweepKeeps ==
  ASSUME IInv, Risks = {}, Sweep
  PROVE  IInv' /\ Contents' = Contents /\ Held' = Held
<1>1. TypeInv /\ Careful /\ MarksClosed /\ phase = "sweep" BY DEF IInv, Sweep
<1>2. UNCHANGED <<globals, vms, allocs, phase, marked>> BY DEF Sweep
<1>3. Held' = Held /\ Direct' = Direct BY <1>2 DEF Held, Direct, Hidden
<1>4. CASE curr \in marked
  <2>1. UNCHANGED heap BY <1>4 DEF Sweep
  <2>2. TypeInv' /\ Careful' /\ Contents' = Contents BY <1>1, <1>2, <2>1, SameHeap
  <2>3. MarksClosed' BY <1>1, <1>2, <1>3, <2>1 DEF MarksClosed
  <2> QED BY <1>3, <2>2, <2>3 DEF IInv
<1>5. CASE curr \notin marked
  <2> DEFINE h == BreakCycles(curr)
             R == Reachable(Items, Held)
  <2>1. heap' = Survivors(h, Held) BY <1>5 DEF Sweep
  <2>2. IsHeap(heap) /\ Held \subseteq DOMAIN heap BY <1>1 DEF TypeInv
  <2>3. /\ DOMAIN h = DOMAIN heap
        /\ \A o \in DOMAIN heap : o # curr => h[o] = heap[o]
        /\ curr \in DOMAIN heap => /\ h[curr].kind = heap[curr].kind /\ h[curr] \in Cell(DOMAIN heap)
                                   /\ h[curr].items \subseteq heap[curr].items
    <3>1. DOMAIN h = DOMAIN heap /\ \A o \in DOMAIN heap : o # curr => h[o] = heap[o]
      BY <2>2 DEF BreakCycles, IsHeap
    <3>2. ASSUME curr \in DOMAIN heap
          PROVE  /\ h[curr].kind = heap[curr].kind /\ h[curr] \in Cell(DOMAIN heap)
                 /\ h[curr].items \subseteq heap[curr].items
      <4>1. heap[curr] \in Cell(DOMAIN heap) BY <3>2, <2>2 DEF IsHeap
      <4>2. h[curr] = [heap[curr] EXCEPT !.items = IF heap[curr].kind = "container" THEN {} ELSE @]
        BY <3>2, <2>2 DEF BreakCycles, IsHeap
      <4> QED BY <4>1, <4>2 DEF Cell
    <3> QED BY <3>1, <3>2
  <2>4. IsHeap(h)
    <3>1. \A o \in DOMAIN h : h[o] \in Cell(DOMAIN h) BY <2>2, <2>3 DEF IsHeap
    <3>2. h = [o \in DOMAIN h |-> h[o]] BY <2>2 DEF BreakCycles, IsHeap
    <3> QED BY <3>1, <3>2, <2>2, <2>3 DEF IsHeap
  <2> HIDE DEF h
  <2>5. /\ IsHeap(heap') /\ Held \subseteq DOMAIN heap' /\ DOMAIN heap' \subseteq DOMAIN heap
        /\ \A o \in DOMAIN heap' : heap'[o] = h[o]
        /\ Visible(ItemsOf(heap'), Held) = Visible(ItemsOf(h), Held)
    BY <2>1, <2>2, <2>3, <2>4, Survive
  <2>6. R \subseteq marked /\ R \subseteq DOMAIN heap /\ curr \notin R BY <1>1, <1>5, MarksReach, SeesHeld
  <2>7. \A o \in R : Items[o] = ItemsOf(h)[o] BY <2>3, <2>6 DEF Items, ItemsOf
  <2>8. Held \subseteq Objects /\ \A o \in DOMAIN Items : Items[o] \subseteq Objects
    BY <1>1, <2>2, Holders, SeesHeld, HeapItems
  <2>9. \A o \in DOMAIN ItemsOf(h) : ItemsOf(h)[o] \subseteq Objects BY <2>4, HeapItems
  <2>10. R \subseteq DOMAIN Items /\ R \subseteq DOMAIN ItemsOf(h) BY <2>3, <2>6 DEF Items, ItemsOf
  <2>11. Visible(ItemsOf(h), Held) = Visible(Items, Held) BY <2>7, <2>8, <2>9, <2>10, Agree
  <2>12. Contents' = Contents
    <3>1. Items' = ItemsOf(heap') BY DEF Items, ItemsOf
    <3> QED BY <3>1, <2>5, <2>11, <1>3 DEF Contents
  <2>13. TypeInv' BY <1>1, <1>2, <1>3, <2>5 DEF TypeInv
  <2>14. MarksClosed'
    <3> SUFFICES ASSUME NEW o \in marked \cap DOMAIN heap', heap'[o].kind = "container"
                 PROVE  heap'[o].items \subseteq marked
      BY <1>1, <1>2, <1>3 DEF MarksClosed
    <3>1. o # curr /\ heap'[o] = heap[o] BY <1>5, <2>3, <2>5
    <3> QED BY <3>1, <1>1, <2>5 DEF MarksClosed
  <2>15. Seen' = Seen
    <3>1. Direct \subseteq marked /\ Direct \subseteq DOMAIN heap' BY <1>1, <2>5 DEF MarksClosed, Held
    <3>2. \A o \in Direct : heap'[o] = heap[o] BY <3>1, <1>5, <2>3, <2>5
    <3> QED BY <3>2, <1>3 DEF Seen
  <2>16. Careful'
    <3>1. \A o \in DOMAIN heap' : heap'[o].kind = "opaque" => heap'[o].items \subseteq Seen
      <4> SUFFICES ASSUME NEW o \in DOMAIN heap', heap'[o].kind = "opaque"
                   PROVE  heap'[o].items \subseteq Seen
        OBVIOUS
      <4>1. heap[o].kind = "opaque" /\ heap'[o].items \subseteq heap[o].items BY <2>3, <2>5
      <4> QED BY <4>1, <1>1, <2>5 DEF Careful
    <3>2. \A i \in DOMAIN vms' : /\ Real({vms[i].receiver}) \cup vms[i].copied \subseteq Seen
                                 /\ Real({vms[i].pending}) \subseteq Seen
      BY <1>1, <1>2 DEF Careful
    <3> QED BY <3>1, <3>2, <2>15, <1>2 DEF Careful
  <2> QED BY <1>3, <2>12, <2>13, <2>14, <2>16 DEF IInv
<1> QED BY <1>4, <1>5

(***************************************************************************)
(* The steps of the program, one after the other: what they hold in the    *)
(* end they could reach before.                                            *)
(***************************************************************************)
LEMMA StackFacts ==
  ASSUME TypeInv
  PROVE  /\ Top \in VM /\ Stack \in Seq(Objects) /\ HeldBy(Top) \subseteq Held
         /\ Range(Stack) \subseteq Held
         /\ \A n \in Nat : n < Len(Stack) => Peek(n) \in Range(Stack)
         /\ \A n \in Nat : n <= Len(Stack) => Popped(n) \in Seq(Objects) /\ Range(Popped(n)) \subseteq Range(Stack)
<1>1. vms \in Seq(VM) /\ Len(vms) \in DOMAIN vms BY DEF TypeInv, Chain
<1>2. Top \in VM BY <1>1 DEF Top
<1>3. Stack \in Seq(Objects) BY <1>2 DEF Stack, VM
<1>4. HeldBy(Top) \subseteq Held BY <1>1, Holders DEF Top
<1>5. Range(Stack) \subseteq Held BY <1>4 DEF HeldBy, Stack
<1>6. \A n \in Nat : n < Len(Stack) => Peek(n) \in Range(Stack) BY <1>3 DEF Peek, Range
<1>7. ASSUME NEW n \in Nat, n <= Len(Stack)
      PROVE  Popped(n) \in Seq(Objects) /\ Range(Popped(n)) \subseteq Range(Stack)
  BY <1>3, <1>7 DEF Popped, Range
<1> QED BY <1>2, <1>3, <1>4, <1>5, <1>6, <1>7

LEMMA Change ==
  ASSUME TypeInv, NEW D \in SUBSET Objects, Held \subseteq D,
         NEW vm \in VM, HeldBy(vm) \subseteq D, vms' = [vms EXCEPT ![Len(vms)] = vm],
         globals' \in [Names -> D \cup {Nil}]
  PROVE  Typed /\ Held' \subseteq D
<1>1. vms \in Seq(VM) /\ vms # <<>> BY DEF TypeInv, Chain
<1>a. vm \in VM /\ vms' = [vms EXCEPT ![Len(vms)] = vm] OBVIOUS
<1>2. vms' \in Seq(VM) /\ Len(vms') = Len(vms) /\ DOMAIN vms' = DOMAIN vms BY ONLY <1>1, <1>a
<1>3. \A i \in DOMAIN vms' : vms'[i] = IF i = Len(vms) THEN vm ELSE vms[i] BY ONLY <1>1, <1>2, <1>a
<1>4. \A i \in 1..Len(vms') - 1 : vms'[i].receiver # Nil
  <2> SUFFICES ASSUME NEW i \in 1..Len(vms') - 1 PROVE vms'[i].receiver # Nil OBVIOUS
  <2>a. Len(vms) \in Nat /\ DOMAIN vms = 1..Len(vms) BY <1>1
  <2>b. i \in 1..Len(vms) - 1 BY <1>2
  <2>0. \A n \in Nat : \A j \in 1..n - 1 : j \in 1..n /\ j # n OBVIOUS
  <2>c. i \in 1..Len(vms) /\ i # Len(vms) BY <2>0, <2>a, <2>b
  <2>1. i \in 1..Len(vms) - 1 /\ i \in DOMAIN vms' /\ i # Len(vms) BY <2>a, <2>b, <2>c, <1>2
  <2>2. vms[i].receiver # Nil BY <2>1 DEF TypeInv, Chain
  <2> QED BY <2>1, <2>2, <1>3
<1>5. Typed
  <2>1. vms' # <<>> BY <1>1, <1>2
  <2>2. \A n \in Names : globals'[n] \in Objects \cup {Nil} OBVIOUS
  <2>3. globals' \in [Names -> Objects \cup {Nil}] BY <2>2
  <2> QED BY <2>1, <2>3, <1>2, <1>4 DEF Typed, Chain
<1>6. \A i \in DOMAIN vms' : HeldBy(vms'[i]) \subseteq D BY <1>2, <1>3, Holders
<1>7. Held' = Real({globals'[n] : n \in Names}) \cup UNION {HeldBy(vms'[i]) : i \in DOMAIN vms'}
  BY DEF Held, Direct, Hidden, HeldBy, Real
<1> QED BY <1>5, <1>6, <1>7 DEF Real

LEMMA ChangeStack ==
  ASSUME TypeInv, NEW D \in SUBSET Objects, Held \subseteq D,
         NEW s \in Seq(Objects), Range(s) \subseteq D, vms' = WithStack(s),
         globals' \in [Names -> D \cup {Nil}]
  PROVE  Typed /\ Held' \subseteq D
<1> DEFINE vm == [Top EXCEPT !.stack = s]
<1>1. vm \in VM BY StackFacts DEF VM
<1>2. /\ vm.stack = s /\ vm.pending = Top.pending /\ vm.receiver = Top.receiver
      /\ vm.copied = Top.copied
  BY StackFacts DEF VM
<1>3. HeldBy(vm) \subseteq D BY <1>2, StackFacts DEF HeldBy
<1>4. vms' = [vms EXCEPT ![Len(vms)] = vm] BY DEF WithStack, Top
<1> HIDE DEF vm
<1> QED BY <1>1, <1>3, <1>4, Change

LEMMA Seeing ==
  ASSUME IInv
  PROVE  /\ TypeInv /\ DOMAIN Contents \in SUBSET Objects /\ Held \subseteq DOMAIN Contents
         /\ globals \in [Names -> DOMAIN Contents \cup {Nil}]
         /\ \A o \in DOMAIN Contents : o \in DOMAIN heap /\ heap[o].items \subseteq DOMAIN Contents
<1>1. TypeInv BY DEF IInv
<1>2. DOMAIN Contents \in SUBSET Objects BY <1>1, SeesHeld DEF TypeInv, IsHeap
<1>3. globals \in [Names -> DOMAIN Contents \cup {Nil}] BY <1>1, Holders, SeesHeld DEF TypeInv
<1> QED BY <1>1, <1>2, <1>3, SeesHeld

LEMMA NewStep ==
  ASSUME IInv, NEW kind \in {"container", "opaque"}, NEW n \in Nat, New(kind, n)
  PROVE  IInv' /\ Promise!Program
<1> DEFINE D == DOMAIN Contents
<1>1. PICK o \in Objects \ DOMAIN heap :
        /\ vms' = WithStack(Append(Popped(n), o)) /\ UNCHANGED globals
        /\ Settle([x \in DOMAIN heap \cup {o} |->
                    IF x = o THEN [kind |-> kind, items |-> {Peek(i) : i \in 0..n - 1}] ELSE heap[x]],
                  <<o>> \o order)
  BY DEF New
<1>2. Running /\ n <= Len(Stack) BY DEF New
<1>3. TypeInv /\ D \in SUBSET Objects /\ Held \subseteq D BY Seeing
<1>4. {Peek(i) : i \in 0..n - 1} \in SUBSET D
  <2> SUFFICES ASSUME NEW i \in 0..n - 1 PROVE Peek(i) \in D OBVIOUS
  <2>1. i \in Nat /\ i < Len(Stack) BY <1>2, <1>3, StackFacts
  <2> QED BY <2>1, <1>3, StackFacts
<1>5. Popped(n) \in Seq(Objects) /\ Range(Popped(n)) \subseteq D BY <1>2, <1>3, StackFacts
<1>6. /\ Append(Popped(n), o) \in Seq(Objects) /\ Range(Append(Popped(n), o)) \subseteq D \cup {o}
      /\ o \in Range(Append(Popped(n), o))
  <2> DEFINE p == Popped(n)
  <2>1. p \in Seq(Objects) /\ Range(p) \subseteq D BY <1>5
  <2> HIDE DEF p
  <2>2. Append(p, o) \in Seq(Objects) /\ DOMAIN Append(p, o) = 1..Len(p) + 1 BY <2>1
  <2>3. /\ Append(p, o)[Len(p) + 1] = o /\ Len(p) + 1 \in DOMAIN Append(p, o)
        /\ \A i \in 1..Len(p) : Append(p, o)[i] \in Range(p)
    BY <2>1 DEF Range
  <2>4. Range(Append(p, o)) \subseteq D \cup {o} BY <2>1, <2>2, <2>3 DEF Range
  <2>5. o \in Range(Append(p, o)) BY <2>3 DEF Range
  <2> QED BY <2>2, <2>4, <2>5 DEF p
<1>7. D \cup {o} \in SUBSET Objects /\ Held \subseteq D \cup {o} BY <1>3
<1>8. globals' \in [Names -> (D \cup {o}) \cup {Nil}] BY <1>1, Seeing
<1> HIDE DEF D
<1>9. Typed /\ Held' \subseteq D \cup {o} BY <1>1, <1>3, <1>6, <1>7, <1>8, ChangeStack
<1>10. o \in Held'
  <2>1. vms \in Seq(VM) /\ Len(vms) \in DOMAIN vms BY <1>3 DEF TypeInv, Chain
  <2>2. vms[Len(vms)] = Top /\ Top \in VM BY <1>3, StackFacts DEF Top
  <2>3. vms'[Len(vms)].stack = Append(Popped(n), o) /\ Len(vms) \in DOMAIN vms'
    BY <2>1, <2>2, <1>1 DEF WithStack, VM
  <2>4. o \in UNION {Range(vms'[i].stack) : i \in DOMAIN vms'} BY <2>3, <1>6
  <2> QED BY <2>4 DEF Held, Direct
<1>11. Held' \ {o} \subseteq D BY <1>9
<1> QED BY <1>1, <1>2, <1>4, <1>9, <1>10, <1>11, AllocateStep DEF D

LEMMA AppendHas ==
  ASSUME NEW s \in Seq(Objects), NEW o \in Objects
  PROVE  Append(s, o) \in Seq(Objects) /\ Range(Append(s, o)) \subseteq Range(s) \cup {o}
<1>1. DOMAIN Append(s, o) = 1..Len(s) + 1 /\ DOMAIN s = 1..Len(s) OBVIOUS
<1>2. \A i \in 1..Len(s) : Append(s, o)[i] = s[i] OBVIOUS
<1>3. Append(s, o)[Len(s) + 1] = o OBVIOUS
<1> QED BY <1>1, <1>2, <1>3 DEF Range

(* Instructions that move values between the stack and the variables.      *)
LEMMA MoveSteps ==
  ASSUME IInv, GetVar \/ SetVar \/ PopTop \/ GetIndex
  PROVE  IInv' /\ Promise!Program
<1> DEFINE D == DOMAIN Contents
<1>1. /\ TypeInv /\ D \in SUBSET Objects /\ Held \subseteq D /\ globals \in [Names -> D \cup {Nil}]
      /\ \A o \in D : o \in DOMAIN heap /\ heap[o].items \subseteq D
  BY Seeing
<1>2. Running /\ Settle(heap, order) BY DEF GetVar, SetVar, PopTop, GetIndex
<1>3. Stack \in Seq(Objects) /\ Range(Stack) \subseteq D BY <1>1, StackFacts
<1>4. Stack # <<>> => /\ Popped(1) \in Seq(Objects) /\ Range(Popped(1)) \subseteq D
                      /\ Peek(0) \in D
  <2>1. Stack # <<>> => 1 <= Len(Stack) BY <1>3
  <2> QED BY <2>1, <1>1, <1>3, StackFacts
<1> HIDE DEF D
<1>5. CASE GetVar
  <2>1. PICK n \in Names : globals[n] # Nil /\ vms' = WithStack(Append(Stack, globals[n]))
    BY <1>5 DEF GetVar
  <2>2. globals[n] \in D /\ globals' = globals BY <1>1, <2>1, <1>5 DEF GetVar
  <2>3. /\ Append(Stack, globals[n]) \in Seq(Objects) /\ Range(Append(Stack, globals[n])) \subseteq D
    BY <1>1, <1>3, <2>2, AppendHas
  <2>4. Typed /\ Held' \subseteq D BY <1>1, <2>1, <2>2, <2>3, ChangeStack
  <2> QED BY <1>2, <2>4, HoldStep DEF D
<1>6. CASE SetVar
  <2>1. PICK n \in Names : globals' = [globals EXCEPT ![n] = Peek(0)] BY <1>6 DEF SetVar
  <2>2. vms' = WithStack(Popped(1)) /\ Stack # <<>> BY <1>6 DEF SetVar
  <2>3. globals' \in [Names -> D \cup {Nil}] BY <1>1, <1>4, <2>1, <2>2
  <2>4. Typed /\ Held' \subseteq D BY <1>1, <1>4, <2>2, <2>3, ChangeStack
  <2> QED BY <1>2, <2>4, HoldStep DEF D
<1>7. CASE PopTop
  <2>1. vms' = WithStack(Popped(1)) /\ Stack # <<>> /\ globals' = globals BY <1>7 DEF PopTop
  <2>2. Typed /\ Held' \subseteq D BY <1>1, <1>4, <2>1, ChangeStack
  <2> QED BY <1>2, <2>2, HoldStep DEF D
<1>8. CASE GetIndex
  <2>1. PICK v \in heap[Peek(0)].items : vms' = WithStack(Append(Popped(1), v)) BY <1>8 DEF GetIndex
  <2>2. Stack # <<>> /\ globals' = globals BY <1>8 DEF GetIndex
  <2>3. v \in D /\ v \in Objects BY <1>1, <1>4, <2>1, <2>2
  <2>4. /\ Append(Popped(1), v) \in Seq(Objects) /\ Range(Append(Popped(1), v)) \subseteq D
    BY <1>4, <2>2, <2>3, AppendHas
  <2>5. Typed /\ Held' \subseteq D BY <1>1, <2>1, <2>2, <2>4, ChangeStack
  <2> QED BY <1>2, <2>5, HoldStep DEF D
<1> QED BY <1>5, <1>6, <1>7, <1>8

LEMMA WriteSteps ==
  ASSUME IInv, ListAppend \/ ListClear
  PROVE  IInv' /\ Promise!Program
<1> DEFINE D == DOMAIN Contents
<1>1. /\ TypeInv /\ D \in SUBSET Objects /\ Held \subseteq D /\ globals \in [Names -> D \cup {Nil}]
      /\ \A o \in D : o \in DOMAIN heap /\ heap[o].items \subseteq D
  BY Seeing
<1>2. Running /\ vms' = WithStack(Popped(1)) /\ globals' = globals /\ Stack # <<>>
  BY DEF ListAppend, ListClear
<1>3. Stack \in Seq(Objects) /\ Range(Stack) \subseteq D /\ 1 <= Len(Stack) BY <1>1, <1>2, StackFacts
<1>4. Popped(1) \in Seq(Objects) /\ Range(Popped(1)) \subseteq D /\ Peek(0) \in D
  BY <1>1, <1>3, StackFacts
<1> HIDE DEF D
<1>5. Typed /\ Held' \subseteq D BY <1>1, <1>2, <1>4, ChangeStack
<1>6. CASE ListAppend
  <2>1. Len(Stack) >= 2 BY <1>6 DEF ListAppend
  <2>2. Peek(1) \in D BY <2>1, <1>1, <1>3, StackFacts
  <2> DEFINE new == heap[Peek(1)].items \cup {Peek(0)}
  <2>3. new \in SUBSET D BY <1>1, <1>4, <2>2
  <2>4. Settle([heap EXCEPT ![Peek(1)].items = new], order) BY <1>6 DEF ListAppend
  <2> HIDE DEF new
  <2> QED BY <1>2, <1>5, <2>2, <2>3, <2>4, WriteStep DEF D
<1>7. CASE ListClear
  <2>1. Settle([heap EXCEPT ![Peek(0)].items = {}], order) BY <1>7 DEF ListClear
  <2>2. {} \in SUBSET D OBVIOUS
  <2> QED BY <1>2, <1>4, <1>5, <2>1, <2>2, WriteStep DEF D
<1> QED BY <1>6, <1>7

(* A return that waits for a finally block, and goes on after it.          *)
LEMMA FinallySteps ==
  ASSUME IInv, ReturnThroughFinally \/ EndFinally
  PROVE  IInv' /\ Promise!Program
<1> DEFINE D == DOMAIN Contents
<1>1. TypeInv /\ D \in SUBSET Objects /\ Held \subseteq D /\ globals \in [Names -> D \cup {Nil}]
  BY Seeing
<1>2. Running /\ Settle(heap, order) /\ globals' = globals BY DEF ReturnThroughFinally, EndFinally
<1>3. /\ Top \in VM /\ Stack \in Seq(Objects) /\ Range(Stack) \subseteq D /\ HeldBy(Top) \subseteq D
      /\ vms[Len(vms)] = Top
  BY <1>1, StackFacts DEF Top
<1> HIDE DEF D
<1>4. CASE ReturnThroughFinally
  <2> DEFINE vm == [Top EXCEPT !.stack = Popped(1), !.pending = Peek(0)]
  <2>1. vms' = [vms EXCEPT ![Len(vms)] = vm] /\ Stack # <<>>
    BY <1>3, <1>4 DEF ReturnThroughFinally
  <2>2. 1 <= Len(Stack) BY <1>3, <2>1
  <2>3. /\ Popped(1) \in Seq(Objects) /\ Range(Popped(1)) \subseteq D /\ Peek(0) \in D
    BY <1>1, <1>3, <2>2, StackFacts
  <2>4. vm \in VM BY <1>1, <1>3, <2>3 DEF VM
  <2>5. /\ vm.stack = Popped(1) /\ vm.pending = Peek(0) /\ vm.receiver = Top.receiver
        /\ vm.copied = Top.copied
    BY <1>3 DEF VM
  <2>6. HeldBy(vm) \subseteq D BY <1>3, <2>3, <2>5 DEF HeldBy, Real
  <2> HIDE DEF vm
  <2>7. Typed /\ Held' \subseteq D BY <1>1, <1>2, <2>1, <2>4, <2>6, Change
  <2> QED BY <1>2, <2>7, HoldStep DEF D
<1>5. CASE EndFinally
  <2> DEFINE vm == [Top EXCEPT !.stack = Append(Stack, Top.pending), !.pending = Nil]
  <2>1. vms' = [vms EXCEPT ![Len(vms)] = vm] /\ Top.pending # Nil BY <1>3, <1>5 DEF EndFinally
  <2>2. Top.pending \in Objects /\ Top.pending \in D BY <1>3, <2>1 DEF VM, HeldBy, Real
  <2>3. Append(Stack, Top.pending) \in Seq(Objects) /\ Range(Append(Stack, Top.pending)) \subseteq D
    BY <1>3, <2>2, AppendHas
  <2>4. vm \in VM BY <1>3, <2>3 DEF VM
  <2>5. /\ vm.stack = Append(Stack, Top.pending) /\ vm.pending = Nil /\ vm.receiver = Top.receiver
        /\ vm.copied = Top.copied
    BY <1>3 DEF VM
  <2>6. HeldBy(vm) \subseteq D BY <1>3, <2>3, <2>5 DEF HeldBy, Real
  <2> HIDE DEF vm
  <2>7. Typed /\ Held' \subseteq D BY <1>1, <1>2, <2>1, <2>4, <2>6, Change
  <2> QED BY <1>2, <2>7, HoldStep DEF D
<1> QED BY <1>4, <1>5

(* A chain of VMs and what it holds.                                       *)
LEMMA ChainHolds ==
  ASSUME NEW D \in SUBSET Objects, Chain(vms'), globals' \in [Names -> D \cup {Nil}],
         \A i \in DOMAIN vms' : HeldBy(vms'[i]) \subseteq D
  PROVE  Typed /\ Held' \subseteq D
<1>1. \A n \in Names : globals'[n] \in Objects \cup {Nil} OBVIOUS
<1>2. globals' \in [Names -> Objects \cup {Nil}] BY <1>1
<1>3. Held' = Real({globals'[n] : n \in Names}) \cup UNION {HeldBy(vms'[i]) : i \in DOMAIN vms'}
  BY DEF Held, Direct, Hidden, HeldBy, Real
<1> QED BY <1>2, <1>3 DEF Real, Typed

LEMMA PushVM ==
  ASSUME TypeInv, NEW D \in SUBSET Objects, Held \subseteq D, globals' \in [Names -> D \cup {Nil}],
         NEW vm \in VM, NEW new \in VM, vm.receiver # Nil,
         HeldBy(vm) \subseteq D, HeldBy(new) \subseteq D,
         vms' = Append([vms EXCEPT ![Len(vms)] = vm], new)
  PROVE  Typed /\ Held' \subseteq D
<1>1. /\ vms \in Seq(VM) /\ vms # <<>> /\ Len(vms) \in Nat \ {0} /\ DOMAIN vms = 1..Len(vms)
      /\ \A i \in 1..Len(vms) - 1 : vms[i].receiver # Nil
  BY DEF TypeInv, Chain
<1>a. vms' = Append([vms EXCEPT ![Len(vms)] = vm], new) /\ vm \in VM /\ new \in VM OBVIOUS
<1>2. /\ vms' \in Seq(VM) /\ Len(vms') = Len(vms) + 1 /\ DOMAIN vms' = 1..Len(vms) + 1
      /\ \A i \in 1..Len(vms) : vms'[i] = IF i = Len(vms) THEN vm ELSE vms[i]
      /\ vms'[Len(vms) + 1] = new
  <2> DEFINE s == [vms EXCEPT ![Len(vms)] = vm]
  <2>1. /\ s \in Seq(VM) /\ Len(s) = Len(vms)
        /\ \A i \in 1..Len(vms) : s[i] = IF i = Len(vms) THEN vm ELSE vms[i]
    BY ONLY <1>1, <1>a
  <2>2. vms' = Append(s, new) BY <1>a
  <2> HIDE DEF s
  <2>a. s \in Seq(VM) /\ new \in VM BY <2>1
  <2>3. vms' \in Seq(VM) BY ONLY <2>a, <2>2
  <2>4. Len(vms') = Len(vms) + 1 /\ vms'[Len(vms) + 1] = new BY ONLY <2>1, <2>2, <1>a
  <2>5. DOMAIN vms' = 1..Len(vms) + 1 BY ONLY <2>3, <2>4
  <2>6. \A i \in 1..Len(vms) : vms'[i] = s[i] BY ONLY <2>1, <2>2, <1>1
  <2> QED BY <2>1, <2>3, <2>4, <2>5, <2>6
<1>3. \A i \in 1..Len(vms) : vms'[i].receiver # Nil
  <2> SUFFICES ASSUME NEW i \in 1..Len(vms), i # Len(vms) PROVE vms[i].receiver # Nil BY <1>2
  <2>1. \A n \in Nat \ {0} : \A j \in 1..n : j # n => j \in 1..n - 1 OBVIOUS
  <2>2. i \in 1..Len(vms) - 1 BY <1>1, <2>1
  <2> QED BY <1>1, <2>2
<1>4. Chain(vms')
  <2>a. Len(vms) \in Nat /\ Len(vms') = Len(vms) + 1 BY <1>1, <1>2
  <2>0. Len(vms') # 0 BY ONLY <2>a
  <2>1. vms' # <<>> BY <2>0
  <2>2. \A n \in Nat : (n + 1) - 1 = n OBVIOUS
  <2>3. Len(vms') - 1 = Len(vms) BY <1>1, <1>2, <2>2
  <2> QED BY <1>2, <1>3, <2>1, <2>3 DEF Chain
<1>5. \A i \in DOMAIN vms' : HeldBy(vms'[i]) \subseteq D
  <2> SUFFICES ASSUME NEW i \in 1..Len(vms) + 1 PROVE HeldBy(vms'[i]) \subseteq D BY <1>2
  <2>1. \A n \in Nat : \A j \in 1..n + 1 : j = n + 1 \/ j \in 1..n OBVIOUS
  <2>2. i = Len(vms) + 1 \/ i \in 1..Len(vms) BY <1>1, <2>1
  <2> QED BY <1>1, <1>2, <2>2, Holders
<1> QED BY <1>4, <1>5, ChainHolds

LEMMA PopVM ==
  ASSUME TypeInv, NEW D \in SUBSET Objects, Held \subseteq D, globals' \in [Names -> D \cup {Nil}],
         Len(vms) > 1, NEW vm \in VM, HeldBy(vm) \subseteq D,
         vms' = [SubSeq(vms, 1, Len(vms) - 1) EXCEPT ![Len(vms) - 1] = vm]
  PROVE  Typed /\ Held' \subseteq D
<1>1. /\ vms \in Seq(VM) /\ Len(vms) \in Nat /\ Len(vms) > 1 /\ DOMAIN vms = 1..Len(vms)
      /\ \A i \in 1..Len(vms) - 1 : vms[i].receiver # Nil
  BY DEF TypeInv, Chain
<1>a. vms' = [SubSeq(vms, 1, Len(vms) - 1) EXCEPT ![Len(vms) - 1] = vm] /\ vm \in VM OBVIOUS
<1> DEFINE s == SubSeq(vms, 1, Len(vms) - 1)
<1>b. /\ s \in Seq(VM) /\ Len(s) = Len(vms) - 1 /\ DOMAIN s = 1..Len(vms) - 1
      /\ \A i \in 1..Len(vms) - 1 : s[i] = vms[i]
  BY ONLY <1>1
<1> HIDE DEF s
<1>c. vms' = [s EXCEPT ![Len(vms) - 1] = vm] BY <1>a DEF s
<1>2. /\ vms' \in Seq(VM) /\ Len(vms') = Len(vms) - 1 /\ DOMAIN vms' = 1..Len(vms) - 1
      /\ \A i \in 1..Len(vms) - 1 : vms'[i] = IF i = Len(vms) - 1 THEN vm ELSE vms[i]
  <2>a. s \in Seq(VM) /\ vm \in VM BY <1>b
  <2>b. Len(vms) - 1 \in DOMAIN s BY <1>1, <1>b
  <2>1. vms' \in Seq(VM) BY ONLY <2>a, <2>b, <1>c
  <2>2. Len(vms') = Len(vms) - 1 BY ONLY <1>b, <1>c
  <2>3. DOMAIN vms' = 1..Len(vms) - 1 BY ONLY <1>b, <1>c
  <2>4. \A i \in 1..Len(vms) - 1 : vms'[i] = IF i = Len(vms) - 1 THEN vm ELSE vms[i]
    BY ONLY <1>b, <1>c
  <2> QED BY <2>1, <2>2, <2>3, <2>4
<1>3. \A i \in 1..Len(vms') - 1 : vms'[i].receiver # Nil
  <2> SUFFICES ASSUME NEW i \in 1..Len(vms') - 1 PROVE vms'[i].receiver # Nil OBVIOUS
  <2>1. \A n \in Nat : \A j \in 1..(n - 1) - 1 : j \in 1..n - 1 /\ j # n - 1 OBVIOUS
  <2>2. i \in 1..Len(vms) - 1 /\ i # Len(vms) - 1 BY <1>1, <1>2, <2>1
  <2> QED BY <1>1, <1>2, <2>2
<1>4. Chain(vms')
  <2>a. Len(vms) \in Nat /\ Len(vms) > 1 /\ Len(vms') = Len(vms) - 1 BY <1>1, <1>2
  <2>0. Len(vms') # 0 BY ONLY <2>a
  <2>1. vms' # <<>> BY <2>0
  <2> QED BY <1>2, <1>3, <2>1 DEF Chain
<1>5. \A i \in DOMAIN vms' : HeldBy(vms'[i]) \subseteq D
  <2> SUFFICES ASSUME NEW i \in 1..Len(vms) - 1 PROVE HeldBy(vms'[i]) \subseteq D BY <1>2
  <2>1. \A n \in Nat : \A j \in 1..n - 1 : j \in 1..n OBVIOUS
  <2>2. i \in DOMAIN vms BY <1>1, <2>1
  <2> QED BY <1>2, <2>2, Holders
<1> QED BY <1>4, <1>5, ChainHolds

(* A native that calls back, and goes on when the callback has returned or *)
(* failed.                                                                 *)
LEMMA CallBackStep ==
  ASSUME IInv, CallBack
  PROVE  IInv' /\ Promise!Program
<1> DEFINE D == DOMAIN Contents
<1>1. /\ TypeInv /\ D \in SUBSET Objects /\ Held \subseteq D /\ globals \in [Names -> D \cup {Nil}]
      /\ \A o \in D : o \in DOMAIN heap /\ heap[o].items \subseteq D
  BY Seeing
<1>2. Running /\ Settle(heap, order) /\ globals' = globals /\ Stack # <<>> BY DEF CallBack
<1>3. /\ Top \in VM /\ Stack \in Seq(Objects) /\ Range(Stack) \subseteq D /\ HeldBy(Top) \subseteq D
      /\ vms[Len(vms)] = Top /\ 1 <= Len(Stack)
  BY <1>1, <1>2, StackFacts DEF Top
<1>4. Popped(1) \in Seq(Objects) /\ Range(Popped(1)) \subseteq D /\ Peek(0) \in D
  BY <1>1, <1>3, StackFacts
<1> HIDE DEF D
<1> DEFINE vm == [Top EXCEPT !.stack = Popped(1), !.receiver = Peek(0), !.copied = heap[Peek(0)].items]
<1>5. PICK v \in heap[Peek(0)].items :
        vms' = Append([vms EXCEPT ![Len(vms)] = vm], [NoVM EXCEPT !.stack = <<v>>])
  BY <1>3 DEF CallBack
<1> DEFINE new == [NoVM EXCEPT !.stack = <<v>>]
<1>6. v \in D /\ v \in Objects /\ heap[Peek(0)].items \subseteq D /\ Peek(0) \in Objects
  BY <1>1, <1>4
<1>7. vm \in VM BY <1>1, <1>3, <1>4, <1>6 DEF VM
<1>8. /\ vm.stack = Popped(1) /\ vm.pending = Top.pending /\ vm.receiver = Peek(0)
      /\ vm.copied = heap[Peek(0)].items
  BY <1>3 DEF VM
<1>9. HeldBy(vm) \subseteq D BY <1>3, <1>4, <1>6, <1>8 DEF HeldBy, Real
<1>10. new \in VM
  <2>1. <<v>> \in Seq(Objects) BY <1>6
  <2>2. /\ new = [NoVM EXCEPT !.stack = <<v>>]
        /\ NoVM = [stack |-> <<>>, pending |-> Nil, receiver |-> Nil, copied |-> {}]
    BY DEF NoVM
  <2> HIDE DEF new
  <2> QED BY <2>1, <2>2 DEF VM
<1>11. new.stack = <<v>> /\ new.pending = Nil /\ new.receiver = Nil /\ new.copied = {} BY DEF NoVM
<1>12. Range(<<v>>) = {v} BY DEF Range
<1>13. HeldBy(new) \subseteq D BY <1>6, <1>11, <1>12 DEF HeldBy, Real
<1>14. vm.receiver # Nil BY <1>6, <1>8, HeapAssumption
<1> HIDE DEF vm, new
<1>15. Typed /\ Held' \subseteq D BY <1>1, <1>2, <1>5, <1>7, <1>9, <1>10, <1>13, <1>14, PushVM DEF new
<1> QED BY <1>2, <1>15, HoldStep DEF D

LEMMA ReturnSteps ==
  ASSUME IInv, ReturnValue \/ ReturnReceiver \/ Throw
  PROVE  IInv' /\ Promise!Program
<1> DEFINE D == DOMAIN Contents
<1>1. /\ TypeInv /\ D \in SUBSET Objects /\ Held \subseteq D /\ globals \in [Names -> D \cup {Nil}]
  BY Seeing
<1>2. Running /\ globals' = globals /\ Len(vms) > 1 BY DEF ReturnValue, ReturnReceiver, Throw
<1>3. Len(vms) - 1 \in DOMAIN vms /\ Caller.receiver # Nil /\ Caller \in VM
  BY <1>1, <1>2 DEF TypeInv, Chain, Caller
<1>4. HeldBy(Caller) \subseteq D BY <1>1, <1>3, Holders DEF Caller
<1>5. /\ Caller.stack \in Seq(Objects) /\ Range(Caller.stack) \subseteq D
      /\ Caller.receiver \in Objects /\ Caller.receiver \in D /\ Caller.copied \subseteq D
  BY <1>3, <1>4 DEF VM, HeldBy, Real
<1>6. ASSUME NEW s \in Seq(Objects), Range(s) \subseteq D, vms' = BackTo(s)
      PROVE  Typed /\ Held' \subseteq D
  <2> DEFINE vm == [Caller EXCEPT !.stack = s, !.receiver = Nil, !.copied = {}]
  <2>1. /\ vms \in Seq(VM) /\ Len(vms) \in Nat BY <1>1 DEF TypeInv, Chain
  <2>2. SubSeq(vms, 1, Len(vms) - 1)[Len(vms) - 1] = Caller BY <1>2, <2>1 DEF Caller
  <2>3. vms' = [SubSeq(vms, 1, Len(vms) - 1) EXCEPT ![Len(vms) - 1] = vm]
    BY <1>6, <2>2 DEF BackTo
  <2>4. vm \in VM BY <1>3, <1>6 DEF VM
  <2>5. vm.stack = s /\ vm.pending = Caller.pending /\ vm.receiver = Nil /\ vm.copied = {}
    BY <1>3 DEF VM
  <2>6. HeldBy(vm) \subseteq D BY <1>4, <1>6, <2>5 DEF HeldBy, Real
  <2> HIDE DEF vm, D
  <2> QED BY <1>1, <1>2, <2>3, <2>4, <2>6, PopVM
<1> HIDE DEF D
<1>7. CASE ReturnValue
  <2>1. vms' = BackTo(Append(Caller.stack, Peek(0))) /\ Settle(heap, order) /\ Stack # <<>>
    BY <1>7 DEF ReturnValue
  <2>2. Stack \in Seq(Objects) /\ Range(Stack) \subseteq D BY <1>1, StackFacts
  <2>3. 0 < Len(Stack) BY <2>1, <2>2
  <2>4. Peek(0) \in D /\ Peek(0) \in Objects BY <1>1, <2>2, <2>3, StackFacts
  <2>5. /\ Append(Caller.stack, Peek(0)) \in Seq(Objects) /\ Range(Append(Caller.stack, Peek(0))) \subseteq D
    BY <1>5, <2>4, AppendHas
  <2>6. Typed /\ Held' \subseteq D BY <1>6, <2>1, <2>5
  <2> QED BY <1>2, <2>1, <2>6, HoldStep DEF D
<1>8. CASE ReturnReceiver
  <2>1. /\ vms' = BackTo(Append(Caller.stack, Caller.receiver))
        /\ Settle([heap EXCEPT ![Caller.receiver].items = Caller.copied], order)
    BY <1>8 DEF ReturnReceiver
  <2>2. /\ Append(Caller.stack, Caller.receiver) \in Seq(Objects)
        /\ Range(Append(Caller.stack, Caller.receiver)) \subseteq D
    BY <1>5, AppendHas
  <2>3. Typed /\ Held' \subseteq D BY <1>6, <2>1, <2>2
  <2>4. Caller.copied \in SUBSET D BY <1>5
  <2> QED BY <1>2, <1>5, <2>1, <2>3, <2>4, WriteStep DEF D
<1>9. CASE Throw
  <2>1. PICK n \in 0..Len(Caller.stack) : vms' = BackTo(SubSeq(Caller.stack, 1, n)) BY <1>9 DEF Throw
  <2>2. /\ SubSeq(Caller.stack, 1, n) \in Seq(Objects) /\ Range(SubSeq(Caller.stack, 1, n)) \subseteq D
    BY <1>5 DEF Range
  <2>3. Typed /\ Held' \subseteq D BY <1>6, <2>1, <2>2
  <2>4. Settle(heap, order) BY <1>9 DEF Throw
  <2> QED BY <1>2, <2>3, <2>4, HoldStep DEF D
<1> QED BY <1>7, <1>8, <1>9

(***************************************************************************)
(* The theorems.                                                           *)
(***************************************************************************)
MemoryVars == <<Held, Contents, phase # "run">>

LEMMA HeapInit ==
  ASSUME Init
  PROVE  IInv /\ Promise!Init
<1>1. vms = <<NoVM>> /\ NoVM \in VM BY DEF Init, NoVM, VM
<1>2. vms \in Seq(VM) /\ vms # <<>> /\ Len(vms) = 1 /\ DOMAIN vms = {1} /\ vms[1] = NoVM BY <1>1
<1>3. Chain(vms) BY <1>2 DEF Chain
<1>4. DOMAIN heap = {} /\ IsHeap(heap) BY DEF Init, IsHeap
<1>5. globals \in [Names -> Objects \cup {Nil}] /\ Real({globals[n] : n \in Names}) = {}
  BY DEF Init, Real
<1>6. HeldBy(NoVM) = {} BY DEF HeldBy, NoVM, Real, Range
<1>7. Held = {} BY <1>2, <1>5, <1>6, HeldIs
<1>8. TypeInv BY <1>3, <1>4, <1>5, <1>7 DEF TypeInv, Init
<1>9. Careful BY <1>2, <1>4 DEF Careful, NoVM, Real
<1>10. MarksClosed BY DEF MarksClosed, Init
<1>11. Contents = [o \in {} |-> {}]
  <2>1. DOMAIN Contents = {} BY <1>4, <1>8, SeesHeld
  <2>2. Contents = [o \in DOMAIN Contents |-> Contents[o]] BY DEF Contents, Visible
  <2> QED BY <2>1, <2>2
<1> QED BY <1>7, <1>8, <1>9, <1>10, <1>11 DEF IInv, Promise!Init, Init

LEMMA HeapStep ==
  ASSUME IInv, Risks = {}, [Next]_vars
  PROVE  IInv' /\ [Promise!Next]_MemoryVars
<1>1. TypeInv /\ Careful /\ MarksClosed BY DEF IInv
<1>2. CASE UNCHANGED vars
  <2>1. UNCHANGED <<heap, globals, vms>> /\ UNCHANGED <<phase, marked>> BY <1>2 DEF vars
  <2>2. phase' \in {"run", "mark", "sweep"} BY <1>1, <2>1 DEF TypeInv
  <2>3. TypeInv' /\ Careful' /\ Contents' = Contents /\ Held' = Held /\ Direct' = Direct
    BY <1>1, <2>1, <2>2, SameHeap
  <2>4. MarksClosed' BY <1>1, <2>1, <2>3 DEF MarksClosed
  <2> QED BY <2>1, <2>3, <2>4 DEF IInv, MemoryVars
<1>3. CASE Temporary
  <2>1. UNCHANGED <<heap, globals, vms>> /\ UNCHANGED <<phase, marked>>
    BY <1>3 DEF Temporary, Running, gcVars
  <2>2. phase' \in {"run", "mark", "sweep"} BY <1>1, <2>1 DEF TypeInv
  <2>3. TypeInv' /\ Careful' /\ Contents' = Contents /\ Held' = Held /\ Direct' = Direct
    BY <1>1, <2>1, <2>2, SameHeap
  <2>4. MarksClosed' BY <1>1, <2>1, <2>3 DEF MarksClosed
  <2> QED BY <2>1, <2>3, <2>4 DEF IInv, MemoryVars
<1>4. CASE BuildList \/ BuildOpaque
  <2>1. BuildList => \E n \in 0..1 : New("container", n) BY DEF BuildList
  <2>2. BuildOpaque => New("opaque", 1) BY DEF BuildOpaque
  <2> QED BY <1>4, <2>1, <2>2, NewStep DEF Promise!Next
<1>5. CASE GetVar \/ SetVar \/ PopTop \/ GetIndex BY <1>5, MoveSteps DEF Promise!Next
<1>6. CASE ListAppend \/ ListClear BY <1>6, WriteSteps DEF Promise!Next
<1>7. CASE CallBack BY <1>7, CallBackStep DEF Promise!Next
<1>8. CASE ReturnValue \/ ReturnReceiver \/ Throw BY <1>8, ReturnSteps DEF Promise!Next
<1>9. CASE ReturnThroughFinally \/ EndFinally BY <1>9, FinallySteps DEF Promise!Next
<1>10. CASE Sweep
  <2>1. UNCHANGED phase BY <1>10 DEF Sweep
  <2> QED BY <1>10, <2>1, SweepKeeps DEF MemoryVars
<1>11. CASE StartCollection \/ Mark \/ StartSweep \/ EndCollection
  <2>1. UNCHANGED <<heap, globals, vms>> /\ phase' \in {"run", "mark", "sweep"}
    BY <1>1, <1>11 DEF StartCollection, Mark, StartSweep, EndCollection, TypeInv
  <2>2. TypeInv' /\ Careful' /\ Contents' = Contents /\ Held' = Held /\ Direct' = Direct
    BY <1>1, <2>1, SameHeap
  <2>3. MarksClosed'
    <3>1. CASE StartSweep
      <4>1. ToMark = {} /\ UNCHANGED marked BY <3>1 DEF StartSweep
      <4>2. Direct \subseteq marked BY <4>1 DEF ToMark, Roots, Direct
      <4>3. \A o \in marked : Children(o) \subseteq marked BY <4>1 DEF ToMark
      <4> QED BY <2>1, <2>2, <4>1, <4>2, <4>3 DEF MarksClosed, Children
    <3>2. CASE StartCollection \/ Mark \/ EndCollection
      BY <3>2 DEF MarksClosed, StartCollection, Mark, EndCollection
    <3> QED BY <1>11, <3>1, <3>2
  <2>4. IInv' BY <2>2, <2>3 DEF IInv
  <2>5. CASE StartCollection \/ EndCollection
    <3>1. (phase' # "run") = ~(phase # "run") BY <2>5 DEF StartCollection, EndCollection
    <3> QED BY <2>2, <2>4, <3>1 DEF Promise!Next, Promise!Collector
  <2>6. CASE Mark \/ StartSweep
    <3>1. (phase' # "run") = (phase # "run") BY <2>6 DEF Mark, StartSweep
    <3> QED BY <2>2, <2>4, <3>1 DEF MemoryVars
  <2> QED BY <1>11, <2>5, <2>6
<1> QED BY <1>2, <1>3, <1>4, <1>5, <1>6, <1>7, <1>8, <1>9, <1>10, <1>11 DEF Next, Program, Collector

(* Whatever the number of objects, variables, values and nested VMs: the   *)
(* heap with its counts and its collector is a memory for every program    *)
(* that keeps what it hides from the collector in sight as well.           *)
THEOREM HeapIsMemory ==
  ASSUME Risks = {}
  PROVE  Spec => KeepsMemory
<1>1. Init => IInv /\ Promise!Init BY HeapInit
<1>2. IInv /\ [Next]_vars => IInv' /\ [Promise!Next]_MemoryVars BY HeapStep
<1> QED BY <1>1, <1>2, PTL DEF Spec, KeepsMemory, Promise!Spec, MemoryVars

----------------------------------------------------------------------------
(***************************************************************************)
(* What is left of a list: its elements in S, each once, in their order.   *)
(***************************************************************************)
Distinct(s) == \A i, j \in DOMAIN s : s[i] = s[j] => i = j
UpTo(s, S, j) == {k \in Places(s, S) : k <= j}

LEMMA PlacesCount ==
  ASSUME NEW s, NEW n \in Nat, DOMAIN s = 1..n, NEW S
  PROVE  /\ IsFiniteSet(Places(s, S)) /\ Cardinality(Places(s, S)) \in Nat
         /\ Cardinality(Places(s, S)) <= n
         /\ Cardinality(Places(s, S)) = n => Places(s, S) = 1..n
<1>1. IsFiniteSet(1..n) /\ Cardinality(1..n) = n BY FS_Interval
<1>2. Places(s, S) \in SUBSET (1..n) BY DEF Places
<1> QED BY <1>1, <1>2, FS_Subset, FS_CardinalityType

LEMMA RankCounts ==
  ASSUME NEW s, NEW n \in Nat, DOMAIN s = 1..n, NEW S
  PROVE  /\ \A j \in Places(s, S) : Rank(s, S, j) \in 1..Cardinality(Places(s, S))
         /\ \A j, k \in Places(s, S) : Rank(s, S, j) = Rank(s, S, k) => j = k
<1> DEFINE P == Places(s, S)
<1>1. P \subseteq 1..n /\ IsFiniteSet(P) BY PlacesCount DEF Places
<1>2. ASSUME NEW j \in P
      PROVE  /\ UpTo(s, S, j) \in SUBSET P /\ IsFiniteSet(UpTo(s, S, j))
             /\ Rank(s, S, j) = Cardinality(UpTo(s, S, j))
             /\ j \in UpTo(s, S, j)
  <2>1. UpTo(s, S, j) \in SUBSET P /\ j \in UpTo(s, S, j) BY <1>1 DEF UpTo
  <2>2. Rank(s, S, j) = Cardinality(UpTo(s, S, j)) BY DEF Rank, UpTo
  <2> QED BY <1>1, <2>1, <2>2, FS_Subset
<1>3. ASSUME NEW j \in P PROVE Rank(s, S, j) \in 1..Cardinality(P)
  <2>1. Cardinality(UpTo(s, S, j)) <= Cardinality(P) BY <1>1, <1>2, FS_Subset
  <2>2. Cardinality(UpTo(s, S, j)) \in Nat /\ Cardinality(UpTo(s, S, j)) # 0
    BY <1>2, FS_CardinalityType, FS_EmptySet
  <2>3. Cardinality(P) \in Nat BY <1>1, FS_CardinalityType
  <2> HIDE DEF P
  <2> QED BY <1>2, <2>1, <2>2, <2>3
<1>4. ASSUME NEW j \in P, NEW k \in P, j < k PROVE Rank(s, S, j) # Rank(s, S, k)
  <2>1. UpTo(s, S, j) \in SUBSET UpTo(s, S, k) BY <1>1, <1>4 DEF UpTo
  <2>2. k \notin UpTo(s, S, j) BY <1>1, <1>4 DEF UpTo
  <2> QED BY <1>2, <2>1, <2>2, FS_Subset
<1>5. \A j, k \in P : Rank(s, S, j) = Rank(s, S, k) => j = k
  <2> SUFFICES ASSUME NEW j \in P, NEW k \in P, j # k PROVE Rank(s, S, j) # Rank(s, S, k) OBVIOUS
  <2>1. j < k \/ k < j BY <1>1
  <2> QED BY <1>4, <2>1
<1> QED BY <1>3, <1>5

LEMMA RanksAll ==
  ASSUME NEW s, NEW n \in Nat, DOMAIN s = 1..n, NEW S, NEW i \in 1..Cardinality(Places(s, S))
  PROVE  \E j \in Places(s, S) : Rank(s, S, j) = i
<1> DEFINE P == Places(s, S)
           c == Cardinality(P)
           r == [j \in P |-> Rank(s, S, j)]
<1>1. IsFiniteSet(P) /\ c \in Nat BY PlacesCount
<1>2. IsFiniteSet(1..c) /\ Cardinality(1..c) = c BY <1>1, FS_Interval
<1>3. r \in Injection(P, 1..c) BY RankCounts DEF Injection, IsInjective
<1>4. r \in Surjection(P, 1..c) BY <1>2, <1>3, FS_Injection
<1> QED BY <1>4 DEF Surjection

LEMMA UnlinkedIs ==
  ASSUME NEW s \in Seq(Objects), NEW S
  PROVE  /\ Unlinked(s, S) \in Seq(Objects)
         /\ Range(Unlinked(s, S)) = Range(s) \cap S
         /\ Len(Unlinked(s, S)) <= Len(s)
         /\ Len(Unlinked(s, S)) = Len(s) => Unlinked(s, S) = s
         /\ Distinct(s) => Distinct(Unlinked(s, S))
<1> DEFINE P == Places(s, S)
           c == Cardinality(P)
           at(i) == CHOOSE j \in P : Rank(s, S, j) = i
           u == Unlinked(s, S)
<1>1. Len(s) \in Nat /\ DOMAIN s = 1..Len(s) /\ \A j \in DOMAIN s : s[j] \in Objects OBVIOUS
<1>2. c \in Nat /\ c <= Len(s) /\ (c = Len(s) => P = 1..Len(s)) BY <1>1, PlacesCount
<1>3. u = [i \in 1..c |-> s[at(i)]] BY DEF Unlinked
<1>4. ASSUME NEW i \in 1..c PROVE at(i) \in P /\ Rank(s, S, at(i)) = i
  <2>1. \E j \in P : Rank(s, S, j) = i BY <1>1, RanksAll
  <2> QED BY <2>1
<1>5. ASSUME NEW j \in P PROVE Rank(s, S, j) \in 1..c /\ at(Rank(s, S, j)) = j
  <2>1. Rank(s, S, j) \in 1..c BY <1>1, RankCounts
  <2>2. at(Rank(s, S, j)) \in P /\ Rank(s, S, at(Rank(s, S, j))) = Rank(s, S, j) BY <1>4, <2>1
  <2> QED BY <1>1, <2>1, <2>2, RankCounts
<1>6. P = {j \in DOMAIN s : s[j] \in S} BY DEF Places
<1> HIDE DEF P, c, at, u
<1>7. u \in Seq(Objects) /\ Len(u) = c /\ DOMAIN u = 1..c
  <2>1. \A i \in 1..c : s[at(i)] \in Objects BY <1>1, <1>4, <1>6
  <2>2. u \in [1..c -> Objects] BY <1>3, <2>1
  <2> QED BY <1>2, <2>2
<1>8. Range(u) = Range(s) \cap S
  <2>1. ASSUME NEW i \in DOMAIN u PROVE u[i] \in Range(s) \cap S
    <3>1. u[i] = s[at(i)] /\ at(i) \in P BY <1>3, <1>4, <1>7
    <3> QED BY <3>1, <1>6 DEF Range
  <2>2. ASSUME NEW j \in DOMAIN s, s[j] \in S PROVE s[j] \in Range(u)
    <3>1. j \in P BY <1>6, <2>2
    <3>2. Rank(s, S, j) \in 1..c /\ u[Rank(s, S, j)] = s[j] BY <1>3, <1>5, <3>1
    <3> QED BY <1>7, <3>2 DEF Range
  <2> QED BY <2>1, <2>2 DEF Range
<1>9. ASSUME Distinct(s) PROVE Distinct(u)
  <2> SUFFICES ASSUME NEW i \in 1..c, NEW k \in 1..c, u[i] = u[k] PROVE i = k BY <1>7 DEF Distinct
  <2>1. at(i) \in DOMAIN s /\ at(k) \in DOMAIN s /\ s[at(i)] = s[at(k)] BY <1>3, <1>4, <1>6
  <2>2. at(i) = at(k) BY <1>9, <2>1 DEF Distinct
  <2> QED BY <1>4, <2>2
<1>10. ASSUME c = Len(s) PROVE u = s
  <2>1. P = 1..Len(s) BY <1>2, <1>10
  <2>2. ASSUME NEW j \in 1..Len(s) PROVE Rank(s, S, j) = j
    <3>1. {k \in P : k <= j} = 1..j BY <1>1, <2>1
    <3>2. Rank(s, S, j) = Cardinality(1..j) BY <3>1 DEF Rank, P
    <3> QED BY <1>1, <3>2, FS_Interval
  <2>3. \A i \in 1..Len(s) : at(i) = i BY <1>5, <2>1, <2>2
  <2>4. u = [i \in 1..Len(s) |-> s[i]] BY <1>3, <1>10, <2>3
  <2> QED BY <1>1, <2>4
<1> QED BY <1>2, <1>7, <1>8, <1>9, <1>10 DEF u

(***************************************************************************)
(* The list has the objects of the heap, each once; the sweep stands on    *)
(* one of them.                                                            *)
(***************************************************************************)
OrderInv ==
  /\ order \in Seq(Objects) /\ Distinct(order) /\ Range(order) = DOMAIN heap
  /\ phase # "sweep" => curr = Nil
  /\ CursorAlive

Loop == Len(order') < Len(order) \/ phase' = "run" \/ (order' = order /\ Ahead' < Ahead)

(* In a sequence without repetition every element has its one place.       *)
PlaceIn(s, o) == CHOOSE j \in DOMAIN s : s[j] = o

LEMMA PlaceInIs ==
  ASSUME NEW s \in Seq(Objects), Distinct(s)
  PROVE  /\ \A o \in Range(s) : PlaceIn(s, o) \in 1..Len(s) /\ s[PlaceIn(s, o)] = o
         /\ \A i \in 1..Len(s) : PlaceIn(s, s[i]) = i
<1>1. Len(s) \in Nat /\ DOMAIN s = 1..Len(s) OBVIOUS
<1>2. ASSUME NEW o \in Range(s) PROVE PlaceIn(s, o) \in 1..Len(s) /\ s[PlaceIn(s, o)] = o
  <2>1. \E j \in DOMAIN s : s[j] = o BY DEF Range
  <2> QED BY <1>1, <2>1 DEF PlaceIn
<1>3. ASSUME NEW i \in 1..Len(s) PROVE PlaceIn(s, s[i]) = i
  <2>1. s[PlaceIn(s, s[i])] = s[i] /\ PlaceIn(s, s[i]) \in DOMAIN s BY <1>1, <1>2 DEF Range
  <2> QED BY <1>1, <2>1 DEF Distinct
<1> QED BY <1>2, <1>3

LEMMA PlaceIs ==
  ASSUME OrderInv
  PROVE  /\ Len(order) \in Nat /\ Nil \notin DOMAIN heap
         /\ \A o \in DOMAIN heap : Place(o) \in 1..Len(order) /\ order[Place(o)] = o
         /\ \A i \in 1..Len(order) : order[i] \in DOMAIN heap /\ Place(order[i]) = i
<1>1. Len(order) \in Nat /\ DOMAIN order = 1..Len(order) BY DEF OrderInv
<1>2. DOMAIN heap \subseteq Objects BY DEF OrderInv, Range
<1>3. Nil \notin DOMAIN heap BY <1>2, HeapAssumption
<1>4. \A i \in 1..Len(order) : order[i] \in DOMAIN heap BY <1>1 DEF OrderInv, Range
<1>5. \A o : Place(o) = PlaceIn(order, o) BY DEF Place, PlaceIn
<1> QED BY <1>1, <1>3, <1>4, <1>5, PlaceInIs DEF OrderInv

LEMMA AfterIs ==
  ASSUME OrderInv, curr \in DOMAIN heap
  PROVE  /\ After(curr) = Nil => Place(curr) = Len(order)
         /\ After(curr) # Nil => After(curr) \in DOMAIN heap /\ Place(After(curr)) = Place(curr) + 1
<1>1. Place(curr) \in 1..Len(order) /\ Len(order) \in Nat BY PlaceIs
<1>2. CASE Place(curr) = Len(order) BY <1>2 DEF After
<1>3. CASE Place(curr) # Len(order)
  <2>1. After(curr) = order[Place(curr) + 1] BY <1>3 DEF After
  <2>2. Place(curr) + 1 \in 1..Len(order) BY <1>1, <1>3
  <2> QED BY <2>1, <2>2, PlaceIs
<1> QED BY <1>2, <1>3

LEMMA FirstIs ==
  ASSUME NEW s \in Seq(Objects)
  PROVE  /\ First(s) = Nil => s = <<>>
         /\ First(s) # Nil => First(s) \in Range(s) /\ 1 \in DOMAIN s /\ First(s) = s[1]
<1>1. CASE s = <<>> BY <1>1 DEF First
<1>2. CASE s # <<>>
  <2>1. 1 \in DOMAIN s /\ First(s) = s[1] /\ s[1] \in Objects BY <1>2 DEF First
  <2> QED BY <2>1, HeapAssumption DEF Range
<1> QED BY <1>1, <1>2

(* Every step of the program but one ends with a heap that has the same    *)
(* objects and perhaps a new one, less those that are not counted.         *)
LEMMA ProgramSettles ==
  ASSUME Program
  PROVE  /\ phase = "run" /\ UNCHANGED <<phase, marked, curr>>
         /\ \/ UNCHANGED <<heap, order, globals, vms>>
            \/ \E h : DOMAIN h = DOMAIN heap /\ Settle(h, order)
            \/ \E o \in Objects \ DOMAIN heap : \E h :
                 DOMAIN h = DOMAIN heap \cup {o} /\ Settle(h, <<o>> \o order)
<1>1. CASE Temporary BY <1>1 DEF Temporary, Running, gcVars
<1>2. CASE BuildList \/ BuildOpaque
  <2>1. PICK k, n : New(k, n) BY <1>2 DEF BuildList, BuildOpaque
  <2>2. Running BY <2>1 DEF New
  <2>3. PICK o \in Objects \ DOMAIN heap :
          Settle([x \in DOMAIN heap \cup {o} |->
                   IF x = o THEN [kind |-> k, items |-> {Peek(i) : i \in 0..n - 1}] ELSE heap[x]],
                 <<o>> \o order)
    BY <2>1 DEF New
  <2> DEFINE h == [x \in DOMAIN heap \cup {o} |->
                    IF x = o THEN [kind |-> k, items |-> {Peek(i) : i \in 0..n - 1}] ELSE heap[x]]
  <2>4. DOMAIN h = DOMAIN heap \cup {o} /\ Settle(h, <<o>> \o order) BY <2>3
  <2> HIDE DEF h
  <2> QED BY <2>2, <2>4 DEF Running, gcVars
<1>3. CASE ListAppend
  <2> DEFINE h == [heap EXCEPT ![Peek(1)].items = @ \cup {Peek(0)}]
  <2>1. Running /\ Settle(h, order) BY <1>3 DEF ListAppend
  <2>2. DOMAIN h = DOMAIN heap OBVIOUS
  <2> HIDE DEF h
  <2> QED BY <2>1, <2>2 DEF Running, gcVars
<1>4. CASE ListClear
  <2> DEFINE h == [heap EXCEPT ![Peek(0)].items = {}]
  <2>1. Running /\ Settle(h, order) BY <1>4 DEF ListClear
  <2>2. DOMAIN h = DOMAIN heap OBVIOUS
  <2> HIDE DEF h
  <2> QED BY <2>1, <2>2 DEF Running, gcVars
<1>5. CASE ReturnReceiver
  <2> DEFINE h == [heap EXCEPT ![Caller.receiver].items = Caller.copied]
  <2>1. Running /\ Settle(h, order) BY <1>5 DEF ReturnReceiver
  <2>2. DOMAIN h = DOMAIN heap OBVIOUS
  <2> HIDE DEF h
  <2> QED BY <2>1, <2>2 DEF Running, gcVars
<1>6. CASE GetVar \/ SetVar \/ PopTop \/ GetIndex \/ CallBack \/ ReturnValue \/ Throw
             \/ ReturnThroughFinally \/ EndFinally
  <2>1. Running /\ Settle(heap, order)
    BY <1>6 DEF GetVar, SetVar, PopTop, GetIndex, CallBack, ReturnValue, Throw, ReturnThroughFinally, EndFinally
  <2> QED BY <2>1 DEF Running, gcVars
<1> QED BY <1>1, <1>2, <1>3, <1>4, <1>5, <1>6 DEF Program

LEMMA SettleOrder ==
  ASSUME OrderInv, phase = "run", UNCHANGED <<phase, curr>>, NEW h, NEW s \in Seq(Objects),
         Distinct(s), Range(s) = DOMAIN h, Settle(h, s)
  PROVE  OrderInv'
<1>1. DOMAIN heap' \subseteq DOMAIN h BY DEF Settle, Survivors, Kept
<1>2. order' = Unlinked(s, DOMAIN heap') BY DEF Settle
<1>3. /\ order' \in Seq(Objects) /\ Distinct(order')
      /\ Range(order') = DOMAIN h \cap DOMAIN heap'
  BY <1>2, UnlinkedIs
<1>4. curr = Nil /\ curr' = Nil BY DEF OrderInv
<1> QED BY <1>1, <1>3, <1>4 DEF OrderInv, CursorAlive

LEMMA ProgramOrder ==
  ASSUME OrderInv, Program
  PROVE  OrderInv'
<1>1. phase = "run" /\ UNCHANGED <<phase, marked, curr>> BY ProgramSettles
<1>2. CASE UNCHANGED <<heap, order, globals, vms>> BY <1>1, <1>2 DEF OrderInv, CursorAlive
<1>3. CASE \E h : DOMAIN h = DOMAIN heap /\ Settle(h, order)
  <2>1. PICK h : DOMAIN h = DOMAIN heap /\ Settle(h, order) BY <1>3
  <2>2. order \in Seq(Objects) /\ Distinct(order) /\ Range(order) = DOMAIN h BY <2>1 DEF OrderInv
  <2> QED BY <1>1, <2>1, <2>2, SettleOrder
<1>4. CASE \E o \in Objects \ DOMAIN heap : \E h :
             DOMAIN h = DOMAIN heap \cup {o} /\ Settle(h, <<o>> \o order)
  <2>0. PICK o \in Objects \ DOMAIN heap : \E h : DOMAIN h = DOMAIN heap \cup {o} /\ Settle(h, <<o>> \o order)
    BY <1>4
  <2>1. PICK h : DOMAIN h = DOMAIN heap \cup {o} /\ Settle(h, <<o>> \o order) BY <2>0
  <2> DEFINE s == <<o>> \o order
  <2>2. order \in Seq(Objects) /\ Range(order) = DOMAIN heap /\ Distinct(order) BY DEF OrderInv
  <2>3. /\ s \in Seq(Objects) /\ Len(order) \in Nat /\ DOMAIN order = 1..Len(order)
        /\ DOMAIN s = 1..Len(order) + 1 /\ s[1] = o
        /\ \A i \in 2..Len(order) + 1 : s[i] = order[i - 1] /\ i - 1 \in DOMAIN order
        /\ \A i \in 1..Len(order) : s[i + 1] = order[i]
    BY <2>2
  <2> HIDE DEF s
  <2>4. Range(s) = DOMAIN h
    <3>1. ASSUME NEW i \in DOMAIN s PROVE s[i] \in DOMAIN h
      <4>1. i = 1 \/ i \in 2..Len(order) + 1 BY <2>3
      <4> QED BY <4>1, <2>1, <2>2, <2>3 DEF Range
    <3>2. ASSUME NEW x \in DOMAIN heap PROVE x \in Range(s)
      <4>1. PICK i \in 1..Len(order) : order[i] = x BY <2>2, <2>3 DEF Range
      <4>2. i + 1 \in DOMAIN s /\ s[i + 1] = x BY <2>3, <4>1
      <4> QED BY <4>2 DEF Range
    <3>3. o \in Range(s) BY <2>3 DEF Range
    <3> QED BY <2>1, <3>1, <3>2, <3>3 DEF Range
  <2>5. Distinct(s)
    <3> SUFFICES ASSUME NEW i \in DOMAIN s, NEW j \in DOMAIN s, s[i] = s[j] PROVE i = j BY DEF Distinct
    <3>1. \A k \in DOMAIN order : order[k] # o BY <2>1, <2>2 DEF Range
    <3>2. (i = 1 \/ i \in 2..Len(order) + 1) /\ (j = 1 \/ j \in 2..Len(order) + 1) BY <2>3
    <3>3. CASE i = 1 \/ j = 1 BY <2>3, <3>1, <3>2, <3>3
    <3>4. CASE i # 1 /\ j # 1
      <4>1. order[i - 1] = order[j - 1] /\ i - 1 \in DOMAIN order /\ j - 1 \in DOMAIN order
        BY <2>3, <3>2, <3>4
      <4>2. i - 1 = j - 1 BY <2>2, <4>1 DEF Distinct
      <4> QED BY <2>3, <3>2, <4>2
    <3> QED BY <3>3, <3>4
  <2>6. Settle(h, s) BY <2>1 DEF s
  <2> QED BY <1>1, <2>3, <2>4, <2>5, <2>6, SettleOrder
<1> QED BY <1>2, <1>3, <1>4, ProgramSettles

(* A step of the sweep: the list is as it was and the cursor moves on, or  *)
(* the list is shorter and the sweep starts over.                          *)
LEMMA SweepOrder ==
  ASSUME OrderInv, Sweep
  PROVE  /\ OrderInv'
         /\ \/ order' = order /\ DOMAIN heap' = DOMAIN heap /\ curr' = After(curr)
            \/ Len(order') < Len(order) /\ curr' = First(order')
<1>1. phase = "sweep" /\ curr \in DOMAIN heap /\ UNCHANGED <<phase, marked>>
  BY DEF Sweep, OrderInv, CursorAlive
<1>2. order \in Seq(Objects) /\ Distinct(order) /\ Range(order) = DOMAIN heap BY DEF OrderInv
<1>3. CASE curr \in marked
  <2>1. UNCHANGED <<heap, order>> /\ curr' = After(curr) BY <1>3 DEF Sweep
  <2>2. curr' # Nil => curr' \in DOMAIN heap' BY <1>1, <2>1, AfterIs
  <2> QED BY <1>1, <1>2, <2>1, <2>2 DEF OrderInv, CursorAlive
<1>4. CASE curr \notin marked
  <2>1. /\ heap' = Survivors(BreakCycles(curr), Held) /\ order' = Unlinked(order, DOMAIN heap')
        /\ curr' = Resume(order')
    BY <1>4 DEF Sweep
  <2>2. DOMAIN heap' \subseteq DOMAIN heap BY <2>1 DEF Survivors, Kept, BreakCycles
  <2>3. /\ order' \in Seq(Objects) /\ Distinct(order') /\ Len(order') <= Len(order)
        /\ Range(order') = DOMAIN heap \cap DOMAIN heap' /\ (Len(order') = Len(order) => order' = order)
    BY <1>2, <2>1, UnlinkedIs
  <2>4. Range(order') = DOMAIN heap' BY <2>2, <2>3
  <2>5. CASE Len(order') = Len(order)
    <3>1. order' = order /\ curr' = After(curr) BY <2>1, <2>3, <2>5 DEF Resume
    <3>2. DOMAIN heap' = DOMAIN heap BY <1>2, <2>4, <3>1
    <3>3. curr' # Nil => curr' \in DOMAIN heap' BY <1>1, <3>1, <3>2, AfterIs
    <3> QED BY <1>1, <2>3, <2>4, <3>1, <3>2, <3>3 DEF OrderInv, CursorAlive
  <2>6. CASE Len(order') # Len(order)
    <3>1. curr' = First(order') BY <2>1, <2>6 DEF Resume
    <3>2. Len(order') < Len(order) BY <1>2, <2>3, <2>6
    <3>3. curr' # Nil => curr' \in DOMAIN heap' BY <2>3, <2>4, <3>1, FirstIs
    <3> QED BY <1>1, <2>3, <2>4, <3>1, <3>2, <3>3 DEF OrderInv, CursorAlive
  <2> QED BY <2>5, <2>6
<1> QED BY <1>3, <1>4

LEMMA OrderStep ==
  ASSUME OrderInv, [Next]_vars
  PROVE  OrderInv' /\ (phase = "sweep" => Loop \/ UNCHANGED vars)
<1>1. CASE UNCHANGED vars BY <1>1 DEF vars, OrderInv, CursorAlive
<1>2. CASE Program BY <1>2, ProgramOrder, ProgramSettles
<1>3. CASE Sweep
  <2>1. /\ OrderInv'
        /\ \/ order' = order /\ DOMAIN heap' = DOMAIN heap /\ curr' = After(curr)
           \/ Len(order') < Len(order) /\ curr' = First(order')
    BY <1>3, SweepOrder
  <2>2. curr # Nil /\ curr \in DOMAIN heap BY <1>3 DEF Sweep, OrderInv, CursorAlive
  <2>3. ASSUME order' = order, curr' = After(curr) PROVE Ahead' < Ahead
    <3>1. Place(curr) \in 1..Len(order) /\ Len(order) \in Nat BY <2>2, PlaceIs
    <3>2. Ahead = Len(order) + 1 - Place(curr) BY <2>2 DEF Ahead
    <3>3. CASE curr' = Nil
      <4>1. Ahead' = 0 BY <3>3 DEF Ahead
      <4> QED BY <3>1, <3>2, <4>1
    <3>4. CASE curr' # Nil
      <4>1. Place(curr') = Place(curr) + 1 BY <2>2, <2>3, <3>4, AfterIs
      <4>2. Place(curr)' = Place(curr') BY <2>3 DEF Place
      <4>3. Ahead' = Len(order) + 1 - Place(curr') BY <2>3, <3>4, <4>2 DEF Ahead
      <4> QED BY <3>1, <3>2, <4>1, <4>3
    <3> QED BY <3>3, <3>4
  <2> QED BY <2>1, <2>3 DEF Loop
<1>4. CASE StartCollection \/ Mark
  BY <1>4 DEF StartCollection, Mark, OrderInv, CursorAlive
<1>5. CASE StartSweep
  <2>1. curr' = First(order) /\ UNCHANGED <<heap, order>> /\ phase = "mark" /\ phase' = "sweep"
    BY <1>5 DEF StartSweep
  <2>2. curr' # Nil => curr' \in DOMAIN heap' BY <2>1, FirstIs DEF OrderInv
  <2> QED BY <2>1, <2>2 DEF OrderInv, CursorAlive
<1>6. CASE EndCollection BY <1>6 DEF EndCollection, OrderInv, CursorAlive, Loop
<1> QED BY <1>1, <1>2, <1>3, <1>4, <1>5, <1>6 DEF Next, Collector

(***************************************************************************)
(* What is left when a collection ends.                                    *)
(***************************************************************************)

(* Every object counts: no step leaves one that nothing holds.             *)
Counted == DOMAIN heap \subseteq Kept(heap, Held)

(* What is marked can be reached; what is not, and lies behind the cursor, *)
(* has been emptied.                                                       *)
Behind(o) == curr = Nil \/ Place(o) < Place(curr)
MarkedInv ==
  /\ phase = "run" => marked = {}
  /\ marked \subseteq DOMAIN Contents
EmptiedInv ==
  phase = "sweep" =>
    \A o \in DOMAIN heap \ marked : heap[o].kind = "container" /\ Behind(o) => heap[o].items = {}

GInv == IInv /\ OrderInv /\ Counted /\ MarkedInv /\ EmptiedInv

LEMMA SurvivorsCount ==
  ASSUME NEW h, NEW S
  PROVE  DOMAIN Survivors(h, S) \subseteq Kept(Survivors(h, S), S)
<1> DEFINE k == Survivors(h, S)
<1> SUFFICES ASSUME NEW o \in DOMAIN k PROVE o \in Kept(k, S) OBVIOUS
<1>1. DOMAIN k = Kept(h, S) /\ \A x \in DOMAIN k : k[x] = h[x] BY DEF Survivors
<1>2. PICK T \in SUBSET DOMAIN h : o \in T /\ Supported(h, S, T) BY <1>1 DEF Kept
<1>3. T \subseteq DOMAIN k BY <1>1, <1>2 DEF Kept
<1>4. Supported(k, S, T) BY <1>1, <1>2, <1>3 DEF Supported
<1> HIDE DEF k
<1> QED BY <1>2, <1>3, <1>4 DEF Kept

LEMMA SettledCounts ==
  ASSUME NEW h, NEW s, Settle(h, s)
  PROVE  Counted'
<1>1. heap' = Survivors(h, Held') BY DEF Settle
<1> QED BY <1>1, SurvivorsCount DEF Counted

LEMMA SeenIsReached ==
  ASSUME IInv
  PROVE  Direct \subseteq DOMAIN Contents /\ Seen \subseteq DOMAIN Contents
<1>1. TypeInv BY DEF IInv
<1>2. Direct \subseteq DOMAIN Contents BY <1>1, SeesHeld DEF Held
<1>3. ASSUME NEW o \in Direct PROVE heap[o].items \subseteq DOMAIN Contents BY <1>1, <1>2, SeesHeld
<1> QED BY <1>2, <1>3 DEF Seen

(* When the sweep has come to its end, an object that is not marked has no *)
(* holder.                                                                 *)
LEMMA NothingLeft ==
  ASSUME GInv, Risks = {}, phase = "sweep", curr = Nil
  PROVE  DOMAIN heap \subseteq Reachable(Items, Held)
<1>1. TypeInv /\ Careful /\ IInv BY DEF GInv, IInv
<1>2. marked = DOMAIN Contents BY <1>1, MarksReach DEF GInv, MarkedInv
<1>3. /\ Held \subseteq marked /\ DOMAIN Contents = Reachable(Items, Held)
      /\ \A o \in marked : heap[o].items \subseteq marked
  BY <1>1, <1>2, SeesHeld
<1>4. ASSUME NEW p \in DOMAIN heap PROVE heap[p].items \subseteq marked
  <2>1. CASE p \in marked BY <1>3, <2>1
  <2>2. CASE p \notin marked /\ heap[p].kind = "container" BY <2>2, <1>4 DEF GInv, EmptiedInv, Behind
  <2>3. CASE p \notin marked /\ heap[p].kind = "opaque"
    <3>1. heap[p].items \subseteq Seen BY <1>1, <1>4, <2>3 DEF Careful
    <3> QED BY <1>1, <1>2, <3>1, SeenIsReached
  <2>4. heap[p].kind \in {"container", "opaque"} BY <1>1, <1>4 DEF TypeInv, IsHeap, Cell
  <2> QED BY <2>1, <2>2, <2>3, <2>4
<1>5. ASSUME NEW o \in DOMAIN heap PROVE o \in marked
  <2>1. PICK T \in SUBSET DOMAIN heap : o \in T /\ Supported(heap, Held, T) BY <1>5 DEF GInv, Counted, Kept
  <2>2. o \in Held \/ \E p \in T : o \in heap[p].items BY <2>1 DEF Supported
  <2> QED BY <1>3, <1>4, <2>1, <2>2
<1> QED BY <1>2, <1>3, <1>5

LEMMA SweepGarbage ==
  ASSUME GInv, Risks = {}, Sweep
  PROVE  GInv'
<1>1. IInv' /\ Contents' = Contents /\ Held' = Held BY SweepKeeps DEF GInv
<1>2. /\ OrderInv' /\ OrderInv
      /\ \/ order' = order /\ DOMAIN heap' = DOMAIN heap /\ curr' = After(curr)
         \/ Len(order') < Len(order) /\ curr' = First(order')
  BY SweepOrder DEF GInv
<1>3. phase = "sweep" /\ UNCHANGED <<phase, marked>> /\ curr \in DOMAIN heap
  BY <1>2 DEF Sweep, OrderInv, CursorAlive
<1>4. MarkedInv' BY <1>1, <1>3 DEF MarkedInv, GInv
<1>5. Counted'
  <2>1. CASE curr \in marked
    <3>1. UNCHANGED heap BY <2>1 DEF Sweep
    <3> QED BY <1>1, <3>1 DEF Counted, GInv
  <2>2. CASE curr \notin marked
    <3>1. heap' = Survivors(BreakCycles(curr), Held) BY <2>2 DEF Sweep
    <3> QED BY <1>1, <3>1, SurvivorsCount DEF Counted
  <2> QED BY <2>1, <2>2
<1>6. EmptiedInv'
  <2>1. CASE Len(order') < Len(order) /\ curr' = First(order')
    <3> SUFFICES ASSUME NEW o \in DOMAIN heap' PROVE ~Behind(o)' BY DEF EmptiedInv
    <3>1. order' \in Seq(Objects) /\ Range(order') = DOMAIN heap' BY <1>2 DEF OrderInv
    <3>2. order' \in Seq(Objects) /\ Distinct(order') BY <1>2 DEF OrderInv
    <3>3. curr' # Nil BY <2>1, <3>1, FirstIs DEF Range
    <3>4. curr' = order'[1] /\ 1 \in 1..Len(order') BY <2>1, <3>1, <3>3, FirstIs
    <3>5. PlaceIn(order', o) \in 1..Len(order') /\ PlaceIn(order', order'[1]) = 1
      BY <3>1, <3>2, <3>4, PlaceInIs
    <3>6. Place(curr)' = 1 /\ Place(o)' \in 1..Len(order') BY <3>4, <3>5 DEF Place, PlaceIn
    <3> QED BY <3>1, <3>3, <3>6 DEF Behind
  <2>2. CASE order' = order /\ DOMAIN heap' = DOMAIN heap /\ curr' = After(curr)
    <3> SUFFICES ASSUME NEW o \in DOMAIN heap \ marked, heap'[o].kind = "container", Behind(o)'
                 PROVE  heap'[o].items = {}
      BY <1>3, <2>2 DEF EmptiedInv
    <3>1. Place(o) \in 1..Len(order) /\ Place(curr) \in 1..Len(order) /\ Len(order) \in Nat
          /\ order[Place(o)] = o /\ order[Place(curr)] = curr
      BY <1>2, <1>3, PlaceIs
    <3>2. Place(o) <= Place(curr)
      <4>1. CASE curr' = Nil BY <1>2, <1>3, <2>2, <3>1, <4>1, AfterIs
      <4>2. CASE curr' # Nil
        <5>1. Place(curr') = Place(curr) + 1 BY <1>2, <1>3, <2>2, <4>2, AfterIs
        <5>2. Place(o)' = Place(o) /\ Place(curr)' = Place(curr') BY <2>2 DEF Place
        <5> QED BY <3>1, <4>2, <5>1, <5>2 DEF Behind
      <4> QED BY <4>1, <4>2
    <3>3. CASE curr \in marked
      <4>1. UNCHANGED heap /\ o # curr BY <3>3 DEF Sweep
      <4>2. Place(o) < Place(curr) BY <3>1, <3>2, <4>1
      <4> QED BY <1>3, <4>1, <4>2 DEF GInv, EmptiedInv, Behind
    <3>4. CASE curr \notin marked
      <4>1. heap' = Survivors(BreakCycles(curr), Held) BY <3>4 DEF Sweep
      <4>2. heap'[o] = BreakCycles(curr)[o] BY <2>2, <4>1 DEF Survivors
      <4>3. heap[o] \in Cell(DOMAIN heap) BY DEF GInv, IInv, TypeInv, IsHeap
      <4>4. CASE o = curr
        <5>1. heap'[o] = [heap[o] EXCEPT !.items = IF heap[o].kind = "container" THEN {} ELSE @]
          BY <4>2, <4>4 DEF BreakCycles
        <5> QED BY <4>3, <5>1 DEF Cell
      <4>5. CASE o # curr
        <5>1. heap'[o] = heap[o] BY <4>2, <4>5 DEF BreakCycles
        <5>2. Place(o) < Place(curr) BY <3>1, <3>2, <4>5
        <5> QED BY <1>3, <5>1, <5>2 DEF GInv, EmptiedInv, Behind
      <4> QED BY <4>4, <4>5
    <3> QED BY <3>3, <3>4
  <2> QED BY <1>2, <2>1, <2>2
<1> QED BY <1>1, <1>2, <1>4, <1>5, <1>6 DEF GInv

LEMMA GarbageStep ==
  ASSUME GInv, Risks = {}, [Next]_vars
  PROVE  GInv'
<1>1. IInv' /\ OrderInv' BY HeapStep, OrderStep DEF GInv
<1>2. ASSUME UNCHANGED <<heap, globals, vms>> PROVE Counted' /\ Contents' = Contents
  <2>1. Held' = Held /\ Contents' = Contents BY <1>2, SameHeap DEF GInv, IInv
  <2> QED BY <1>2, <2>1 DEF Counted, GInv
<1>3. CASE UNCHANGED vars
  <2>1. UNCHANGED <<heap, globals, vms>> /\ UNCHANGED <<phase, marked, order, curr>> BY <1>3 DEF vars
  <2>2. \A o : Behind(o)' <=> Behind(o) BY <2>1 DEF Behind, Place
  <2>3. MarkedInv' BY <1>2, <2>1 DEF MarkedInv, GInv
  <2>4. EmptiedInv' BY <2>1, <2>2 DEF EmptiedInv, GInv
  <2> QED BY <1>1, <1>2, <2>1, <2>3, <2>4 DEF GInv
<1>4. CASE Program
  <2>1. phase = "run" /\ UNCHANGED <<phase, marked, curr>> BY <1>4, ProgramSettles
  <2>2. MarkedInv' BY <2>1 DEF MarkedInv, GInv
  <2>3. EmptiedInv' BY <2>1 DEF EmptiedInv
  <2>4. Counted' BY <1>2, <1>4, ProgramSettles, SettledCounts
  <2> QED BY <1>1, <2>2, <2>3, <2>4 DEF GInv
<1>5. CASE Sweep BY <1>5, SweepGarbage
<1>6. CASE Mark
  <2>1. UNCHANGED <<heap, globals, vms>> /\ phase' = "mark" /\ marked' = marked \cup ToMark
    BY <1>6 DEF Mark
  <2>2. marked \subseteq DOMAIN Contents /\ TypeInv BY DEF GInv, MarkedInv, IInv
  <2>3. Roots \subseteq DOMAIN Contents BY SeenIsReached DEF GInv, Roots, Direct
  <2>4. \A o \in marked : Children(o) \subseteq DOMAIN Contents BY <2>2, SeesHeld DEF Children
  <2>5. MarkedInv' BY <1>2, <2>1, <2>2, <2>3, <2>4 DEF MarkedInv, ToMark
  <2>6. EmptiedInv' BY <2>1 DEF EmptiedInv
  <2> QED BY <1>1, <1>2, <2>1, <2>5, <2>6 DEF GInv
<1>7. CASE StartCollection \/ EndCollection
  <2>1. /\ UNCHANGED <<heap, globals, vms>> /\ phase' \in {"run", "mark"}
        /\ marked' = {} \/ (marked' = marked /\ phase' = "mark")
    BY <1>7 DEF StartCollection, EndCollection
  <2>2. MarkedInv'
    <3>1. CASE StartCollection
      <4>1. marked' = marked /\ phase' = "mark" BY <3>1 DEF StartCollection
      <4> QED BY <1>2, <2>1, <4>1 DEF MarkedInv, GInv
    <3>2. CASE EndCollection
      <4>1. marked' = {} BY <3>2 DEF EndCollection
      <4> QED BY <4>1 DEF MarkedInv
    <3> QED BY <1>7, <3>1, <3>2
  <2>3. EmptiedInv' BY <2>1 DEF EmptiedInv
  <2> QED BY <1>1, <1>2, <2>1, <2>2, <2>3 DEF GInv
<1>8. CASE StartSweep
  <2>1. /\ UNCHANGED <<heap, globals, vms>> /\ UNCHANGED <<order, marked>>
        /\ phase' = "sweep" /\ curr' = First(order)
    BY <1>8 DEF StartSweep
  <2>2. MarkedInv' BY <1>2, <2>1 DEF MarkedInv, GInv
  <2>3. EmptiedInv'
    <3> SUFFICES ASSUME NEW o \in DOMAIN heap PROVE ~Behind(o)' BY <2>1 DEF EmptiedInv
    <3>1. order \in Seq(Objects) /\ Range(order) = DOMAIN heap /\ OrderInv BY DEF GInv, OrderInv
    <3>2. Place(o) \in 1..Len(order) BY <3>1, PlaceIs
    <3>3. curr' # Nil BY <2>1, <3>1, FirstIs DEF Range
    <3>4. curr' = order[1] /\ 1 \in 1..Len(order) BY <2>1, <3>1, <3>3, FirstIs
    <3>5. Place(curr') = 1 BY <3>1, <3>4, PlaceIs
    <3>6. Place(o)' = Place(o) /\ Place(curr)' = Place(curr') BY <2>1 DEF Place
    <3> QED BY <3>1, <3>2, <3>3, <3>5, <3>6 DEF Behind
  <2> QED BY <1>1, <1>2, <2>1, <2>2, <2>3 DEF GInv
<1> QED BY <1>3, <1>4, <1>5, <1>6, <1>7, <1>8 DEF Next, Collector

(***************************************************************************)
(* The theorems.                                                           *)
(***************************************************************************)
LEMMA OrderInit ==
  ASSUME Init
  PROVE  OrderInv
<1>1. order = <<>> /\ DOMAIN heap = {} /\ curr = Nil BY DEF Init
<1>2. order \in Seq(Objects) /\ DOMAIN order = {} BY <1>1
<1> QED BY <1>1, <1>2 DEF OrderInv, Distinct, Range, CursorAlive

LEMMA GarbageInit ==
  ASSUME Init
  PROVE  GInv
<1>1. IInv /\ OrderInv BY HeapInit, OrderInit
<1>2. DOMAIN heap = {} /\ marked = {} /\ phase = "run" BY DEF Init
<1> QED BY <1>1, <1>2 DEF GInv, Counted, MarkedInv, EmptiedInv

(* Whatever the program and whatever it hides from the collector, the      *)
(* cursor of the sweep is never on an object that is deleted               *)
(* (vm.hpp:151-161).                                                       *)
THEOREM CursorStaysAlive == Spec => []CursorAlive
<1>1. Init => OrderInv BY OrderInit
<1>2. OrderInv /\ [Next]_vars => OrderInv' BY OrderStep
<1>3. OrderInv => CursorAlive BY DEF OrderInv
<1> QED BY <1>1, <1>2, <1>3, PTL DEF Spec

(* Every sweep comes to its end, however often it starts over: a step      *)
(* makes the heap smaller or goes on in the list (vm.hpp:153-161).         *)
THEOREM SweepAdvances == Spec => CollectionAdvances
<1>1. Init => OrderInv BY OrderInit
<1>2. OrderInv /\ [Next]_vars => OrderInv' BY OrderStep
<1>3. OrderInv /\ [Next]_vars =>
        [phase = "sweep" => Len(order') < Len(order) \/ phase' = "run" \/ (order' = order /\ Ahead' < Ahead)]_vars
  BY OrderStep DEF Loop
<1> QED BY <1>1, <1>2, <1>3, PTL DEF Spec, CollectionAdvances

(* A collection that ends has left nothing but what the program can reach, *)
(* whatever cycles there were (vm.hpp:136-163).                            *)
THEOREM CollectionIsComplete ==
  ASSUME Risks = {}
  PROVE  Spec => LeavesNoGarbage
<1>1. Init => GInv BY GarbageInit
<1>2. GInv /\ [Next]_vars => GInv' BY GarbageStep
<1>3. GInv /\ [Next]_vars =>
        [phase = "sweep" /\ phase' = "run" => DOMAIN heap \subseteq Reachable(Items, Held)]_vars
  <2> SUFFICES ASSUME GInv, [Next]_vars, phase = "sweep", phase' = "run"
               PROVE  DOMAIN heap \subseteq Reachable(Items, Held)
    OBVIOUS
  <2>1. EndCollection
    <3>1. ~Program BY ProgramSettles
    <3>2. ~(UNCHANGED vars) BY DEF vars
    <3> QED BY <3>1, <3>2 DEF Next, Collector, StartCollection, Mark, StartSweep, Sweep
  <2>2. curr = Nil BY <2>1 DEF EndCollection
  <2> QED BY <2>2, NothingLeft
<1> QED BY <1>1, <1>2, <1>3, PTL DEF Spec, LeavesNoGarbage
=============================================================================
