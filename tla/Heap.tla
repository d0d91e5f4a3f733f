------------------------------- MODULE Heap -------------------------------
(***************************************************************************)
(* The heap of the VM: HeapObjects counted by shared_ptr, the list of all  *)
(* of them from gc_head, and gc_collect, which marks from the active VMs   *)
(* and empties what it did not mark.  The program runs in a chain of VMs:  *)
(* a native function that calls back (sort, All_Of, a default, an operator *)
(* method) runs a VM of its own and keeps its receiver and a copy of the   *)
(* elements in C++ variables meanwhile.                                    *)
(***************************************************************************)
EXTENDS Integers, Sequences, FiniteSets, Functions, Reachability

CONSTANTS
  Names,              \* global variables
  Nil,                \* no object
  Threshold,          \* gc_alloc_count above which a collection starts
  MaxStack, MaxItems, MaxVMs, \* bounds of a program: values on stacks, elements, VMs
  MaxHidden,          \* and places out of the collector's sight in use
  Risks               \* the places out of the collector's sight it may use

ASSUME HeapAssumption ==
  /\ IsFiniteSet(Objects) /\ Nil \notin Objects
  /\ Threshold \in Nat /\ MaxStack \in Nat /\ MaxVMs \in Nat /\ MaxHidden \in Nat /\ MaxItems \in Nat

VARIABLES
  heap,      \* live object -> its kind and what it holds
  order,     \* the live objects from gc_head on
  globals,   \* name -> object
  vms,       \* activeVMs: stack, pendingReturn, and what the native it runs keeps
  allocs,    \* gc_alloc_count
  phase,     \* "run", "mark" or "sweep"
  marked,    \* the objects with gc_marked
  curr       \* the cursor of the sweep

vars == <<heap, order, globals, vms, allocs, phase, marked, curr>>
gcVars == <<phase, marked, curr>>

Real(S) == S \ {Nil}

----------------------------------------------------------------------------
(* Who holds an object: the variables, the stacks, and the C++ variables   *)
(* the collector does not look at.                                         *)

Direct == Real({globals[n] : n \in Names}) \cup UNION {Range(vms[i].stack) : i \in DOMAIN vms}
Hidden == UNION {Real({vms[i].pending, vms[i].receiver}) \cup vms[i].copied : i \in DOMAIN vms}
Held == Direct \cup Hidden

(* What shared_ptr leaves of a heap: an object lives while a place or a    *)
(* living object holds it.                                                 *)
Supported(h, S, T) == T \subseteq S \cup UNION {h[p].items : p \in T}
Kept(h, S) == {o \in DOMAIN h : \E T \in SUBSET DOMAIN h : o \in T /\ Supported(h, S, T)}
Survivors(h, S) == [o \in Kept(h, S) |-> h[o]]

(* The destructors unlink what is not in S: the others move up.            *)
Places(s, S) == {j \in DOMAIN s : s[j] \in S}
Rank(s, S, j) == Cardinality({k \in Places(s, S) : k <= j})
Unlinked(s, S) ==
  [i \in 1..Cardinality(Places(s, S)) |-> s[CHOOSE j \in Places(s, S) : Rank(s, S, j) = i]]

(* The program may use a place the collector does not see, but (without    *)
(* the risk) what is in it is also in sight, at most one container away.   *)
Seen == Direct \cup UNION {heap[o].items : o \in {p \in Direct : heap[p].kind = "container"}}
Careful ==
  /\ \A i \in DOMAIN vms :
       /\ "native_local" \in Risks \/ Real({vms[i].receiver}) \cup vms[i].copied \subseteq Seen
       /\ "pending_return" \in Risks \/ Real({vms[i].pending}) \subseteq Seen
  /\ "opaque" \in Risks \/ \A o \in DOMAIN heap : heap[o].kind = "opaque" => heap[o].items \subseteq Seen

----------------------------------------------------------------------------
(* The program.  Its steps end with what the counts leave.                 *)

Top == vms[Len(vms)]
Stack == Top.stack
Peek(n) == Stack[Len(Stack) - n]
Popped(n) == SubSeq(Stack, 1, Len(Stack) - n)
WithStack(s) == [vms EXCEPT ![Len(vms)].stack = s]
NoVM == [stack |-> <<>>, pending |-> Nil, receiver |-> Nil, copied |-> {}]

OnStacks == FoldFunction(LAMBDA vm, n : Len(vm.stack) + n, 0, vms)
OutOfSight ==
  Cardinality({i \in DOMAIN vms : vms[i].pending # Nil}) + Len(vms) - 1
    + Cardinality({o \in DOMAIN heap : heap[o].kind = "opaque"})
Running == phase = "run" /\ allocs <= Threshold /\ UNCHANGED gcVars

Settle(h, s) ==
  /\ heap' = Survivors(h, Held')
  /\ order' = Unlinked(s, DOMAIN heap')
  /\ Careful'

(* The new object becomes gc_head.                                         *)
New(kind, n) ==
  /\ Running /\ Len(Stack) >= n /\ OnStacks - n < MaxStack
  /\ \E o \in Objects \ DOMAIN heap :
       /\ vms' = WithStack(Append(Popped(n), o))
       /\ allocs' = allocs + 1 /\ UNCHANGED globals
       /\ Settle([x \in DOMAIN heap \cup {o} |->
                   IF x = o THEN [kind |-> kind, items |-> {Peek(i) : i \in 0..n - 1}] ELSE heap[x]],
                 <<o>> \o order)
BuildList == \E n \in 0..1 : New("container", n)
BuildOpaque == OutOfSight < MaxHidden /\ New("opaque", 1)

(* An object an instruction makes and drops: a text, a reference.          *)
Temporary ==
  /\ Running
  /\ allocs' = allocs + 1 /\ UNCHANGED <<heap, order, globals, vms>>

GetVar ==
  /\ Running /\ OnStacks < MaxStack
  /\ \E n \in Names : globals[n] # Nil /\ vms' = WithStack(Append(Stack, globals[n]))
  /\ UNCHANGED <<globals, allocs>> /\ Settle(heap, order)

SetVar ==
  /\ Running /\ Stack # <<>>
  /\ \E n \in Names : globals' = [globals EXCEPT ![n] = Peek(0)]
  /\ vms' = WithStack(Popped(1))
  /\ UNCHANGED allocs /\ Settle(heap, order)

PopTop ==
  /\ Running /\ Stack # <<>>
  /\ vms' = WithStack(Popped(1))
  /\ UNCHANGED <<globals, allocs>> /\ Settle(heap, order)

(* An element of a container takes the container's place on the stack.     *)
GetIndex ==
  /\ Running /\ Stack # <<>>
  /\ \E v \in heap[Peek(0)].items : vms' = WithStack(Append(Popped(1), v))
  /\ UNCHANGED <<globals, allocs>> /\ Settle(heap, order)

(* xs.append(v) and xs.clear(), with the list beneath or on top.           *)
ListAppend ==
  /\ Running /\ Len(Stack) >= 2 /\ heap[Peek(1)].kind = "container"
  /\ Cardinality(heap[Peek(1)].items \cup {Peek(0)}) <= MaxItems
  /\ vms' = WithStack(Popped(1)) /\ UNCHANGED <<globals, allocs>>
  /\ Settle([heap EXCEPT ![Peek(1)].items = @ \cup {Peek(0)}], order)
ListClear ==
  /\ Running /\ Stack # <<>> /\ heap[Peek(0)].kind = "container"
  /\ vms' = WithStack(Popped(1)) /\ UNCHANGED <<globals, allocs>>
  /\ Settle([heap EXCEPT ![Peek(0)].items = {}], order)

(* A native function takes its receiver off the stack, copies the elements *)
(* and runs a VM on one of them.                                           *)
CallBack ==
  /\ Running /\ Stack # <<>> /\ Len(vms) < MaxVMs /\ OutOfSight < MaxHidden /\ heap[Peek(0)].kind = "container"
  /\ \E v \in heap[Peek(0)].items :
       vms' = Append([vms EXCEPT ![Len(vms)].stack = Popped(1),
                                 ![Len(vms)].receiver = Peek(0),
                                 ![Len(vms)].copied = heap[Peek(0)].items],
                     [NoVM EXCEPT !.stack = <<v>>])
  /\ UNCHANGED <<globals, allocs>> /\ Settle(heap, order)

Caller == vms[Len(vms) - 1]
BackTo(s) ==
  [SubSeq(vms, 1, Len(vms) - 1) EXCEPT ![Len(vms) - 1] =
    [@ EXCEPT !.stack = s, !.receiver = Nil, !.copied = {}]]

(* The native goes back with the callback's value, or writes the copy back *)
(* into the receiver and returns that.                                     *)
ReturnValue ==
  /\ Running /\ Len(vms) > 1 /\ Stack # <<>>
  /\ vms' = BackTo(Append(Caller.stack, Peek(0)))
  /\ UNCHANGED <<globals, allocs>> /\ Settle(heap, order)
ReturnReceiver ==
  /\ Running /\ Len(vms) > 1
  /\ vms' = BackTo(Append(Caller.stack, Caller.receiver))
  /\ UNCHANGED <<globals, allocs>>
  /\ Settle([heap EXCEPT ![Caller.receiver].items = Caller.copied], order)

(* An error of the callback leaves the native's variables and the VM; the  *)
(* caller's handler cuts its stack.                                        *)
Throw ==
  /\ Running /\ Len(vms) > 1
  /\ \E n \in 0..Len(Caller.stack) : vms' = BackTo(SubSeq(Caller.stack, 1, n))
  /\ UNCHANGED <<globals, allocs>> /\ Settle(heap, order)

(* A return intercepted by a finally block, and the end of that block.     *)
ReturnThroughFinally ==
  /\ Running /\ Stack # <<>> /\ Top.pending = Nil /\ OutOfSight < MaxHidden
  /\ vms' = [vms EXCEPT ![Len(vms)] = [@ EXCEPT !.stack = Popped(1), !.pending = Peek(0)]]
  /\ UNCHANGED <<globals, allocs>> /\ Settle(heap, order)
EndFinally ==
  /\ Running /\ Top.pending # Nil /\ OnStacks < MaxStack
  /\ vms' = [vms EXCEPT ![Len(vms)] = [@ EXCEPT !.stack = Append(Stack, Top.pending), !.pending = Nil]]
  /\ UNCHANGED <<globals, allocs>> /\ Settle(heap, order)

Program ==
  \/ BuildList \/ BuildOpaque \/ Temporary \/ GetVar \/ SetVar \/ PopTop \/ GetIndex
  \/ ListAppend \/ ListClear
  \/ CallBack \/ ReturnValue \/ ReturnReceiver \/ Throw \/ ReturnThroughFinally \/ EndFinally

----------------------------------------------------------------------------
(* gc_collect, called before an instruction.                               *)

(* With the flaw a collector would have that looked at its own VM only.    *)
RootsOfRunning == Real({globals[n] : n \in Names}) \cup Range(Stack)
Roots == Real({globals[n] : n \in Names}) \cup UNION {Range(vms[i].stack) : i \in DOMAIN vms}
Children(o) == IF heap[o].kind = "container" THEN heap[o].items ELSE {}
ToMark == (Roots \cup UNION {Children(o) : o \in marked}) \ marked

Place(o) == CHOOSE j \in DOMAIN order : order[j] = o
After(o) == IF Place(o) = Len(order) THEN Nil ELSE order[Place(o) + 1]
First(s) == IF s = <<>> THEN Nil ELSE Head(s)

(* With the flaw of an object type that does not override it.              *)
BreakNothing(o) == heap
BreakCycles(o) == [heap EXCEPT ![o].items = IF heap[o].kind = "container" THEN {} ELSE @]

StartCollection ==
  /\ phase = "run" /\ allocs > Threshold
  /\ phase' = "mark"
  /\ UNCHANGED <<heap, order, globals, vms, allocs, marked, curr>>

(* markObject goes depth first; here a layer at a time.                    *)
Mark ==
  /\ phase = "mark" /\ ToMark # {}
  /\ marked' = marked \cup ToMark
  /\ UNCHANGED <<heap, order, globals, vms, allocs, phase, curr>>

StartSweep ==
  /\ phase = "mark" /\ ToMark = {}
  /\ phase' = "sweep" /\ curr' = First(order)
  /\ UNCHANGED <<heap, order, globals, vms, allocs, marked>>

(* When emptying an object deleted any, the sweep starts over.  With the   *)
(* flaws it would never look at the count, or start over every time.       *)
ResumeNext(s) == After(curr)
ResumeFirst(s) == First(s)
Resume(s) == IF Len(s) = Len(order) THEN After(curr) ELSE First(s)
Sweep ==
  /\ phase = "sweep" /\ curr # Nil
  /\ IF curr \in marked
       THEN curr' = After(curr) /\ UNCHANGED <<heap, order>>
       ELSE /\ heap' = Survivors(BreakCycles(curr), Held)
            /\ order' = Unlinked(order, DOMAIN heap')
            /\ curr' = Resume(order')
  /\ UNCHANGED <<globals, vms, allocs, phase, marked>>

(* The marks are cleared here rather than before the next collection:      *)
(* nothing looks at them in between.                                       *)
EndCollection ==
  /\ phase = "sweep" /\ curr = Nil
  /\ phase' = "run" /\ allocs' = 0 /\ marked' = {}
  /\ UNCHANGED <<heap, order, globals, vms, curr>>

Collector == StartCollection \/ Mark \/ StartSweep \/ Sweep \/ EndCollection

Init ==
  /\ heap = [o \in {} |-> {}] /\ order = <<>>
  /\ globals = [n \in Names |-> Nil] /\ vms = <<NoVM>>
  /\ allocs = 0 /\ phase = "run" /\ marked = {} /\ curr = Nil

Next == Program \/ Collector
Spec == Init /\ [][Next]_vars

----------------------------------------------------------------------------
(* Properties                                                              *)

(* What the program can reach, through whatever holds it, and what is in   *)
(* it: an object that is gone is not among them.                           *)
Items == [o \in DOMAIN heap |-> heap[o].items]
Contents == Visible(Items, Held)

Promise == INSTANCE Memory WITH held <- Held, contents <- Contents, collecting <- phase # "run"

(* The program's memory is a memory: reference counts, collections and the *)
(* C++ variables of natives that call back never free an object the        *)
(* program can reach nor change what is in it (vm.hpp:136-163).            *)
KeepsMemory == Promise!Spec

(* The cursor of the sweep is on a living object, whatever emptying the    *)
(* one before has deleted (vm.hpp:153-161).                                *)
CursorAlive == curr # Nil => curr \in DOMAIN heap

(* A collection leaves nothing but what the program can reach: cycles are  *)
(* broken, and the counts free what was in them.                           *)
LeavesNoGarbage == [][phase = "sweep" /\ phase' = "run" => DOMAIN heap \subseteq Reachable(Items, Held)]_vars

(* A collection comes to its end: a step of the sweep that starts it over  *)
(* has made the heap smaller, any other comes nearer to the end of the     *)
(* list (vm.hpp:153-161).                                                  *)
Ahead == IF curr = Nil THEN 0 ELSE Len(order) + 1 - Place(curr)
CollectionAdvances ==
  [][phase = "sweep" => Len(order') < Len(order) \/ phase' = "run" \/ (order' = order /\ Ahead' < Ahead)]_vars
=============================================================================
