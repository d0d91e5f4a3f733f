------------------------------ MODULE Objects ------------------------------
(***************************************************************************)
(* What classes mean (README.md:318-348): a class has an order of its      *)
(* ancestors that respects every class's order of its parents; members are *)
(* looked up along it; a private member is for the methods of the class    *)
(* that declares it, a protected one for those of its subclasses too; what *)
(* a declaration says never changes.                                       *)
(***************************************************************************)
EXTENDS ClassText

VARIABLES
  kinds,   \* the classes: text, parents, order and the statics they have
  bound,   \* class name -> class
  things,  \* the objects: their class and the fields they have
  calls,   \* the methods that run: class, function and object
  line,    \* the last operation
  answer   \* what it gave

obVars == <<kinds, bound, things, calls, line, answer>>

Refuse == Failed(answer') /\ UNCHANGED <<kinds, bound, things, calls>>
Answers(r) == answer' = r /\ UNCHANGED <<kinds, bound, things, calls>>

----------------------------------------------------------------------------
(* Orders of ancestors.                                                    *)

Before(order, c, d) == \E i, j \in DOMAIN order : i < j /\ order[i] = c /\ order[j] = d
Respects(order, seq) ==
  \A i, j \in DOMAIN seq : i < j => Before(order, seq[i], seq[j])

Ancestors(ps) == UNION {Range(kinds[p].order) : p \in Range(ps)}
Orders(ps) ==
  {order \in SetToSeqs(Ancestors(ps)) :
     /\ Respects(order, ps)
     /\ \A p \in Range(ps) : Respects(order, kinds[p].order)}

----------------------------------------------------------------------------
(* Access.                                                                 *)

Caller == Last(calls).kind
MayUse(access, c) ==
  \/ access = "public"
  \/ Caller # 0 /\ Caller = c
  \/ Caller # 0 /\ access = "protected" /\ c \in Range(kinds[Caller].order)

Has(c, k, x) == Members(kinds[c].text, k, x) # {}
Along(order, k, x) == SelectSeq(order, LAMBDA c : Has(c, k, x))

(* The declaration of a field is the first along the order.                *)
FieldUsable(o, x) ==
  LET cs == Along(kinds[things[o].kind].order, "field", x) IN
  cs = <<>> \/ \E d \in Members(kinds[Head(cs)].text, "field", x) : MayUse(d.access, Head(cs))
StaticUsable(c, x) ==
  LET cs == Along(kinds[c].order, "static", x) IN
  cs = <<>> \/ \E d \in Members(kinds[Head(cs)].text, "static", x) : MayUse(d.access, Head(cs))

----------------------------------------------------------------------------
(* Operations.                                                             *)

Define(t) ==
  LET ps == [i \in DOMAIN t.parents |-> bound[t.parents[i]]] IN
  \/ Orders(ps) = {} /\ Refuse
  \/ /\ \E order \in Orders(ps) :
          kinds' = Append(kinds, [text |-> t, parents |-> ps, statics |-> Names(t, "static"),
                                  order |-> <<Len(kinds) + 1>> \o order])
     /\ bound' = [n \in DOMAIN bound \cup {t.name} |->
                    IF n = t.name THEN Len(kinds) + 1 ELSE bound[n]]
     /\ answer' = Done
     /\ UNCHANGED <<things, calls>>

End(n) ==
  /\ bound' = [m \in DOMAIN bound \ {n} |-> bound[m]]
  /\ answer' = Done
  /\ UNCHANGED <<kinds, things, calls>>

(* A constructor gives the object the fields of its class.                 *)
With(ts, o, c, m) ==
  IF m = Constructor THEN [ts EXCEPT ![o].fields = @ \cup Names(kinds[c].text, "field")] ELSE ts

(* The first method along the order, if it is for the caller.              *)
Enter(order, m, n, o, ts) ==
  LET c == Head(Along(order, "method", m)) IN
  \E d \in Members(kinds[c].text, "method", m) :
    /\ Arity[d.f] = n /\ MayUse(d.access, c)
    /\ calls' = Append(calls, [kind |-> c, f |-> d.f, self |-> o])
    /\ things' = With(ts, o, c, m)
    /\ answer' = Found("entered", c)
    /\ UNCHANGED <<kinds, bound>>
Enters(order, m, n) ==
  LET cs == Along(order, "method", m) IN
  cs # <<>> /\ \E d \in Members(kinds[Head(cs)].text, "method", m) :
                 Arity[d.f] = n /\ MayUse(d.access, Head(cs))
Call(order, m, n, o) ==
  IF Enters(order, m, n) THEN Enter(order, m, n, o, things) ELSE Refuse

(* A new object has the fields its class declares.                         *)
New(c, n) ==
  LET o == Len(things) + 1
      ts == Append(things, [kind |-> c, fields |-> Names(kinds[c].text, "field")])
      order == kinds[c].order
  IN  CASE Along(order, "method", Constructor) = <<>> ->
             /\ things' = ts
             /\ answer' = Done
             /\ UNCHANGED <<kinds, bound, calls>>
        [] Enters(order, Constructor, n) -> Enter(order, Constructor, n, o, ts)
        [] OTHER -> Refuse

(* The classes after the one whose method runs.                            *)
After(order, c) == SubSeq(order, (CHOOSE i \in DOMAIN order : order[i] = c) + 1, Len(order))
Super(m, n) ==
  LET self == Last(calls).self IN
  IF self = 0 \/ Caller = 0 THEN Refuse
  ELSE Call(After(kinds[things[self].kind].order, Caller), m, n, self)

(* A member that is neither a field nor a static is a method.              *)
MethodGet(order, x) ==
  LET cs == Along(order, "method", x) IN
  IF cs # <<>> /\ \E d \in Members(kinds[Head(cs)].text, "method", x) : MayUse(d.access, Head(cs))
  THEN Answers(Found("method", Head(cs))) ELSE Refuse
ClassGet(c, x) ==
  LET order == kinds[c].order
      holders == SelectSeq(order, LAMBDA d : x \in kinds[d].statics)
  IN  IF holders # <<>> /\ StaticUsable(c, x) THEN Answers(Found("static", Head(holders)))
      ELSE IF holders # <<>> THEN Refuse ELSE MethodGet(order, x)
Get(o, x) ==
  CASE x \in things[o].fields /\ FieldUsable(o, x) -> Answers(Found("field", o))
    [] x \notin things[o].fields /\ FieldUsable(o, x) -> ClassGet(things[o].kind, x)
    [] OTHER -> Refuse

Set(o, x) ==
  IF ~FieldUsable(o, x) THEN Refuse
  ELSE /\ things' = [things EXCEPT ![o].fields = @ \cup {x}]
       /\ answer' = Done
       /\ UNCHANGED <<kinds, bound, calls>>
Increment(o, x) == IF x \in things[o].fields /\ FieldUsable(o, x) THEN Answers(Done) ELSE Refuse
ClassSet(c, x) ==
  IF ~StaticUsable(c, x) THEN Refuse
  ELSE /\ kinds' = [kinds EXCEPT ![c].statics = @ \cup {x}]
       /\ answer' = Done
       /\ UNCHANGED <<bound, things, calls>>

Return ==
  /\ calls' = Front(calls)
  /\ answer' = Done
  /\ UNCHANGED <<kinds, bound, things>>

----------------------------------------------------------------------------

Init ==
  /\ kinds = <<>>
  /\ bound = <<>>
  /\ things = <<>>
  /\ calls = <<[kind |-> 0, f |-> "main", self |-> 0]>>
  /\ line = <<>>
  /\ answer = Done

OnObject(o) ==
  \/ /\ line'.k \in {"call", "operator"}
     /\ \E m \in MethodNames, n \in Counts :
          /\ line' = CallLine(line'.k, o, m, n)
          /\ Call(kinds[things[o].kind].order, m, n, o)
  \/ /\ line'.k = "get"
     /\ \E x \in FieldNames \cup StaticNames \cup MethodNames :
          line' = GetLine("get", o, x) /\ Get(o, x)
  \/ /\ line'.k \in {"set", "increment"}
     /\ \E x \in FieldNames :
          \/ \E a \in Levels : line' = SetLine("set", o, x, a) /\ Set(o, x)
          \/ line' = GetLine("increment", o, x) /\ Increment(o, x)
OnClass(c) ==
  \/ line'.k = "new" /\ \E n \in Counts : line' = NewLine(c, n) /\ New(c, n)
  \/ /\ line'.k = "class call"
     /\ \E m \in MethodNames, n \in Counts :
          line' = CallLine("class call", c, m, n) /\ Call(kinds[c].order, m, n, 0)
  \/ /\ line'.k = "class get"
     /\ \E x \in StaticNames \cup MethodNames : line' = GetLine("class get", c, x) /\ ClassGet(c, x)
  \/ /\ line'.k = "class set"
     /\ \E x \in StaticNames, a \in Levels : line' = SetLine("class set", c, x, a) /\ ClassSet(c, x)

Next ==
  \/ line'.k = "class" /\ \E t \in Texts : line' = DefineLine(t) /\ Define(t)
  \/ \E n \in DOMAIN bound : line' = EndLine(n) /\ End(n)
  \/ line'.k \in {"call", "operator", "get", "set", "increment"} /\ \E o \in DOMAIN things : OnObject(o)
  \/ line'.k \in {"new", "class call", "class get", "class set"}
       /\ \E c \in DOMAIN kinds : OnClass(c)
  \/ line'.k = "super" /\ \E m \in MethodNames, n \in Counts :
                            line' = CallLine("super", 0, m, n) /\ Super(m, n)
  \/ Len(calls) > 1 /\ line' = ReturnLine /\ Return

Spec == Init /\ [][Next]_obVars
=============================================================================
