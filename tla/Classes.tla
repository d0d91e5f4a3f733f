------------------------------ MODULE Classes ------------------------------
(***************************************************************************)
(* Classes and objects as the VM runs them: ClassObject with its mro and   *)
(* its tables, InstanceObject, SuperObject, and for each method that runs  *)
(* its function's owner and the class in the slot of obj.  A program is    *)
(* any sequence of operations of the function that runs, written in any    *)
(* block; an operation that fails is caught where it stands.               *)
(***************************************************************************)
EXTENDS ClassText

CONSTANTS
  MaxClasses, MaxObjects, MaxDepth,  \* bounds of a program
  Blocks,                            \* names whose class is of a block
  Risks                              \* the harmful combinations it may contain

VARIABLES
  classes,  \* the ClassObjects
  named,    \* class name -> class
  owner,    \* FunctionObject::owner
  objects,  \* the InstanceObjects
  frames,   \* the call frames: function, self and obj
  line,     \* the last operation
  answer    \* what it gave

clVars == <<classes, named, owner, objects, frames, line, answer>>

Put(f, x, v) == [y \in DOMAIN f \cup {x} |-> IF y = x THEN v ELSE f[y]]

Fails(e) == answer' = Error(e) /\ UNCHANGED <<classes, named, owner, objects, frames>>
Gives(r) == answer' = r /\ UNCHANGED <<classes, named, owner, objects, frames>>

----------------------------------------------------------------------------
(* ClassObject::computeMRO merges the orders of the parents and the list   *)
(* of the parents: the first head that is in no tail comes next.  If there *)
(* is none the order stays as it is.                                       *)

Free(lists, c) == \A j \in DOMAIN lists : c \notin Range(Tail(lists[j]))
MergeStep(s) ==
  LET lists == SelectSeq(s.lists, LAMBDA l : l # <<>>)
      good == {i \in DOMAIN lists : Free(lists, Head(lists[i]))}
  IN  IF good = {} THEN s
      ELSE LET c == Head(lists[CHOOSE i \in good : \A j \in good : i <= j]) IN
           [order |-> Append(s.order, c),
            lists |-> [j \in DOMAIN lists |-> IF Head(lists[j]) = c THEN Tail(lists[j]) ELSE lists[j]]]
computeMRO(c, ps) ==
  LET merged[i \in 0..Len(classes)] ==
        IF i = 0 THEN [order |-> <<c>>, lists |-> [j \in DOMAIN ps |-> classes[ps[j]].mro] \o <<ps>>]
                 ELSE MergeStep(merged[i - 1])
  IN  merged[Len(classes)].order

(* A class keeps its parents alive, a name its class; nothing else does.   *)
Ancestry ==
  LET up[c \in 1..Len(classes)] == {c} \cup UNION {up[p] : p \in Range(classes[c].parents)} IN up
Alive == UNION {Ancestry[c] : c \in Range(named)}

----------------------------------------------------------------------------
(* A class statement: the sections one after the other.                    *)

Body(t) ==
  LET section(a) == SelectSeq(t.body, LAMBDA d : d.access = a)
  IN  section("public") \o section("private") \o section("protected")

(* OP_METHOD.  The third function of a name gets lost.                     *)
AddMethod(ms, d) ==
  CASE d.name \notin DOMAIN ms -> Put(ms, d.name, [funcs |-> <<d.f>>, access |-> d.access])
    [] d.name \in DOMAIN ms /\ Len(ms[d.name].funcs) = 1 ->
         Put(ms, d.name, [funcs |-> Append(ms[d.name].funcs, d.f), access |-> d.access])
    [] OTHER -> ms
Table(t) ==
  LET ds == SelectSeq(Body(t), LAMBDA d : d.k = "method")
      table[i \in 0..Len(ds)] == IF i = 0 THEN <<>> ELSE AddMethod(table[i - 1], ds[i])
  IN  table[Len(ds)]

(* OP_CLASS_FIELD; the let of an instance field is for the constructor.    *)
FieldAccess(t) ==
  [x \in Names(t, "field") \cup Names(t, "static") |->
     (CHOOSE d \in Members(t, "field", x) \cup Members(t, "static", x) : TRUE).access]

ClassObject(t, ps) ==
  [text |-> t, parents |-> ps, mro |-> computeMRO(Len(classes) + 1, ps),
   methods |-> Table(t), fieldAccess |-> FieldAccess(t), statics |-> Names(t, "static")]
Functions(t) == {d.f : d \in {d \in Range(t.body) : d.k = "method"}}

DefineClass(t) ==
  LET c == Len(classes) + 1 IN
  /\ classes' = Append(classes, ClassObject(t, [i \in DOMAIN t.parents |-> named[t.parents[i]]]))
  /\ owner' = [f \in DOMAIN owner |-> IF f \in Functions(t) THEN c ELSE owner[f]]
  /\ named' = Put(named, t.name, c)
  /\ answer' = Done
  /\ UNCHANGED <<objects, frames>>

EndScope(n) ==
  /\ named' = [m \in DOMAIN named \ {n} |-> named[m]]
  /\ answer' = Done
  /\ UNCHANGED <<classes, owner, objects, frames>>

----------------------------------------------------------------------------
(* Methods.                                                                *)

Frame == Last(frames)
First(order, P(_)) ==
  LET good == {i \in DOMAIN order : P(order[i])} IN
  IF good = {} THEN 0 ELSE order[CHOOSE i \in good : \A j \in good : i <= j]
MethodOwner(c, m) == First(classes[c].mro, LAMBDA a : m \in DOMAIN classes[a].methods)

(* OP_INVOKE looks for the caller in the second slot of the frame: in a    *)
(* method that is obj, in the main program a local of the block, or with   *)
(* less than two of them the receiver or the first argument.               *)
Seconds == IF Frame.f = "main" THEN {0} \cup Range(named) ELSE {Frame.obj}
Allowed(a, c, second) ==
  \/ a = "public"
  \/ a = "private" /\ second = c
  \/ a = "protected" /\ second # 0 /\ c \in Range(classes[second].mro)
MethodAllowed(c, m, second) == Allowed(classes[c].methods[m].access, c, second)

(* checkFieldAccess asks the owner of the function that runs, and the      *)
(* table of the object's own class.                                        *)
FieldAllowed(c, x) ==
  LET a == classes[c].fieldAccess[x]
      caller == owner[Frame.f]
  IN  \/ x \notin DOMAIN classes[c].fieldAccess
      \/ a = "public"
      \/ a = "private" /\ caller = c
      \/ a = "protected" /\ caller # 0 /\ c \in Range(classes[caller].mro)

Matching(c, m, n) == {f \in Range(classes[c].methods[m].funcs) : Arity[f] = n}

(* A constructor begins with the fields of the class it was compiled for,  *)
(* each stored with the level its let states.  The error of a store that   *)
(* is refused is one of the constructor's frame: it ends the program line. *)
Inits(f) == {d \in Range(classes[owner[f]].text.body) : d.k = "field"}
Let(f, x) == (CHOOSE d \in Inits(f) : d.name = x).let
Closed(k, x) == x \in DOMAIN classes[k].fieldAccess /\ classes[k].fieldAccess[x] # "public"
Unwind(f, o) ==
  /\ frames' = <<Head(frames)>>
  /\ \E xs \in SUBSET Names(classes[owner[f]].text, "field") :
       objects' = [i \in DOMAIN objects |->
                     [objects[i] EXCEPT !.fields = IF i = o THEN @ \cup xs ELSE @]]
  /\ answer' = Error("RuntimeError")
  /\ UNCHANGED <<classes, named, owner>>
Initialise(f, c, o, os) ==
  LET k == os[o].klass
      xs == {d.name : d \in Inits(f)}
  IN  IF k # owner[f] /\ \E x \in xs : Closed(k, x) THEN Unwind(f, o)
      ELSE /\ frames' = Append(frames, [f |-> f, self |-> o, obj |-> c])
           /\ objects' = [os EXCEPT ![o].fields = @ \cup xs]
           /\ classes' = [classes EXCEPT ![k].fieldAccess =
                [x \in DOMAIN @ \cup xs |-> IF x \in xs THEN Let(f, x) ELSE @[x]]]
           /\ answer' = Found("entered", owner[f])
           /\ UNCHANGED <<named, owner>>

(* VM::callValue with self, obj and n arguments.                           *)
callMethod(c, m, n, o, obj, os) ==
  IF Matching(c, m, n) = {} THEN Fails("ArgumentError")
  ELSE LET f == CHOOSE f \in Matching(c, m, n) : TRUE IN
       IF m = Constructor THEN Initialise(f, obj, o, os)
       ELSE /\ frames' = Append(frames, [f |-> f, self |-> o, obj |-> obj])
            /\ objects' = os
            /\ answer' = Found("entered", owner[f])
            /\ UNCHANGED <<classes, named, owner>>

(* OP_INVOKE.                                                              *)
Invoke(start, m, n, o, second) ==
  LET c == MethodOwner(start, m) IN
  CASE c = 0 -> Fails("AttributeError")
    [] c # 0 /\ ~MethodAllowed(c, m, second) -> Fails("RuntimeError")
    [] OTHER -> callMethod(c, m, n, o, c, objects)

(* OP_CALL of a class.  Only the class's own constructor is called.        *)
Construct(c, n) ==
  LET os == Append(objects, [klass |-> c, fields |-> {}]) IN
  IF Constructor \in DOMAIN classes[c].methods
  THEN callMethod(c, Constructor, n, Len(os), c, os)
  ELSE objects' = os /\ answer' = Done /\ UNCHANGED <<classes, named, owner, frames>>

(* OP_SUPER and OP_INVOKE of its result.                                   *)
SuperTargetOfOwner(k, c) ==
  LET mro == classes[c].mro IN IF Len(mro) > 1 THEN mro[2] ELSE 0
SuperTarget(k, c) ==
  LET mro == classes[k].mro
      at == {i \in DOMAIN mro : mro[i] = c /\ i < Len(mro)}
  IN  IF at = {} THEN 0 ELSE mro[(CHOOSE i \in at : TRUE) + 1]
SuperCall(m, n) ==
  LET o == Frame.self
      c == owner[Frame.f]
  IN  CASE o = 0 \/ c = 0 -> Fails("RuntimeError")
        [] o # 0 /\ c # 0 /\ SuperTarget(objects[o].klass, c) = 0 -> Fails("RuntimeError")
        [] OTHER -> Invoke(SuperTarget(objects[o].klass, c), m, n, o, Frame.obj)

(* invokeBinaryDunder: any level, and the object's class for obj.          *)
Operate(o, m, n) ==
  LET k == objects[o].klass
      c == MethodOwner(k, m)
  IN  IF c = 0 THEN Fails("TypeError") ELSE callMethod(c, m, n, o, k, objects)

(* OP_RETURN.                                                              *)
Return ==
  /\ frames' = Front(frames)
  /\ answer' = Done
  /\ UNCHANGED <<classes, named, owner, objects>>

----------------------------------------------------------------------------
(* Properties.                                                             *)

Lookup(c, x) ==
  LET a == First(classes[c].mro, LAMBDA b : x \in classes[b].statics \cup DOMAIN classes[b].methods)
  IN  CASE a = 0 -> Fails("AttributeError")
        [] a # 0 /\ x \in classes[a].statics -> Gives(Found("static", a))
        [] OTHER -> Gives(Found("method", a))

GetProperty(o, x) ==
  CASE ~FieldAllowed(objects[o].klass, x) -> Fails("RuntimeError")
    [] FieldAllowed(objects[o].klass, x) /\ x \in objects[o].fields -> Gives(Found("field", o))
    [] OTHER -> Lookup(objects[o].klass, x)

(* OP_SET_PROPERTY stores the level of the statement.                      *)
SetProperty(o, x, a) ==
  IF ~FieldAllowed(objects[o].klass, x) THEN Fails("RuntimeError")
  ELSE /\ objects' = [objects EXCEPT ![o].fields = @ \cup {x}]
       /\ classes' = [classes EXCEPT ![objects[o].klass].fieldAccess = Put(@, x, a)]
       /\ answer' = Done
       /\ UNCHANGED <<named, owner, frames>>
SetStatic(c, x, a) ==
  /\ classes' = [classes EXCEPT ![c].statics = @ \cup {x}, ![c].fieldAccess = Put(@, x, a)]
  /\ answer' = Done
  /\ UNCHANGED <<named, owner, objects, frames>>

(* OP_INC_PROPERTY does not check.                                         *)
IncProperty(o, x) ==
  IF x \in objects[o].fields THEN Gives(Done) ELSE Fails("AttributeError")

----------------------------------------------------------------------------
(* Combinations that break what Objects promises.  Programs contain those  *)
(* in Risks only.                                                          *)

Safe(risk, harmful) == harmful => risk \in Risks

Order(c) == Range(classes[c].mro)
Declares(c, k, x, levels) == \E d \in Members(classes[c].text, k, x) : d.access \in levels
Closing == {"private", "protected"}

(* An object, a frame or a function outlives its class: only names and     *)
(* subclasses own one.                                                     *)
Used == {objects[o].klass : o \in DOMAIN objects}
          \cup {owner[frames[i].f] : i \in DOMAIN frames} \cup {frames[i].obj : i \in DOMAIN frames}
SafeKept(cs) == Safe("class_dropped", ~(Used \ {0} \subseteq UNION {Ancestry[c] : c \in cs}))

(* Orders that contradict each other; a statement executed twice, which    *)
(* has one function object for two classes.                                *)
SafeOrder(t) ==
  LET ps == [i \in DOMAIN t.parents |-> named[t.parents[i]]] IN
  Safe("inconsistent_order",
       UNION {Ancestry[p] : p \in Range(ps)} \ Range(computeMRO(Len(classes) + 1, ps)) # {})
SafeAgain(t) == Safe("class_again", \E f \in Functions(t) : owner[f] # 0)

(* Overloads beyond the second; overloads of two levels; fields whose let  *)
(* has not the level of the section; no constructor of its own.            *)
SafeText(t) ==
  /\ Safe("third_overload", \E m \in Names(t, "method") : Cardinality(Members(t, "method", m)) > 2)
  /\ Safe("mixed_access",
          \E m \in Names(t, "method") : \E d, e \in Members(t, "method", m) : d.access # e.access)
  /\ Safe("let_level", \E d \in Range(t.body) : d.k = "field" /\ d.access # d.let)
  /\ Safe("no_constructor",
          /\ Constructor \notin Names(t, "method")
          /\ \/ Names(t, "field") # {}
             \/ \E p \in Range(t.parents) : MethodOwner(named[p], Constructor) # 0)

(* The second slot holds another class than the one the function is of:    *)
(* one the program has put there, or in an operator's method the object's  *)
(* class.                                                                  *)
SafeSlot(start, m, second) ==
  LET c == MethodOwner(start, m) IN
  c # 0 /\ classes[c].methods[m].access \in Closing =>
    /\ Safe("main_slot", Frame.f = "main" /\ MethodAllowed(c, m, second))
    /\ Safe("operator_slot", Frame.f # "main" /\ Frame.obj # owner[Frame.f])

(* The class after this one lacks the method, and a later one that it does *)
(* not inherit from has it.                                                *)
SafeSuper(m) ==
  LET mro == classes[objects[Frame.self].klass].mro
      at == {i \in DOMAIN mro : mro[i] = owner[Frame.f]}
      rest == SubSeq(mro, (CHOOSE i \in at : TRUE) + 1, Len(mro))
  IN  Frame.self # 0 /\ at # {} /\ rest # <<>> =>
        /\ Safe("super_skips", MethodOwner(Head(rest), m)
                                 # First(rest, LAMBDA a : m \in DOMAIN classes[a].methods))
        /\ SafeSlot(Head(rest), m, Frame.obj)

(* An operator runs a method of any level.                                 *)
SafeOperator(k) ==
  LET c == MethodOwner(k, Operator) IN
  Safe("operator_access", c # 0 /\ classes[c].methods[Operator].access \in Closing)

(* The table of the object's class knows nothing of inherited fields.      *)
SafeField(k, x) ==
  Safe("inherited_field",
       /\ \E a \in Order(k) : Declares(a, "field", x, Closing)
       /\ \E a \in Order(k) \ {k} : Declares(a, "field", x, Levels))
SafeConstructor(k, c) == \A x \in Names(classes[c].text, "field") : SafeField(k, x)

(* A store sets the level of what it stores to: public, if it says none.   *)
Level(c, x) == IF x \in DOMAIN classes[c].fieldAccess THEN classes[c].fieldAccess[x] ELSE "public"
SafeStore(c, x, a) == Safe("store_level", a # Level(c, x))
SafeIncrement(o, x) == Safe("increment", x \in objects[o].fields /\ ~FieldAllowed(objects[o].klass, x))

(* Statics of a class, and methods that are not called, go unchecked.      *)
SafeStatic(c, x, cs) == Safe("static_access", \E a \in cs : Declares(a, "static", x, Closing))
SafeMethodValue(c, x) ==
  LET a == MethodOwner(c, x) IN Safe("method_value", a # 0 /\ classes[a].methods[x].access \in Closing)

----------------------------------------------------------------------------

Init ==
  /\ classes = <<>>
  /\ named = <<>>
  /\ owner = [f \in DOMAIN Arity \cup {"main"} |-> 0]
  /\ objects = <<>>
  /\ frames = <<[f |-> "main", self |-> 0, obj |-> 0]>>
  /\ line = <<>>
  /\ answer = Done

(* Nothing good comes from a class that is gone.                           *)
Living(c, A) == IF c \in Alive THEN A ELSE Gives(Undefined)
Room == Len(frames) < MaxDepth

DefineStep(t) ==
  /\ Len(frames) = 1 /\ Len(classes) < MaxClasses
  /\ Range(t.parents) \subseteq DOMAIN named
  /\ line' = DefineLine(t)
  /\ SafeOrder(t) /\ SafeAgain(t) /\ SafeText(t)
  /\ SafeKept({named[n] : n \in (DOMAIN named \ {t.name}) \cup Range(t.parents)})
  /\ DefineClass(t)

EndStep(n) ==
  /\ Len(frames) = 1 /\ n \in Blocks
  /\ line' = EndLine(n)
  /\ SafeKept({named[m] : m \in DOMAIN named \ {n}})
  /\ EndScope(n)

NewStep(n, i) ==
  /\ Room /\ Len(objects) < MaxObjects
  /\ line' = NewLine(named[n], i)
  /\ SafeConstructor(named[n], named[n])
  /\ Construct(named[n], i)

CallStep(o, m, i) ==
  /\ Room
  /\ line' = CallLine("call", o, m, i)
  /\ m = Constructor /\ MethodOwner(objects[o].klass, m) # 0 =>
       SafeConstructor(objects[o].klass, MethodOwner(objects[o].klass, m))
  /\ \E second \in Seconds :
       /\ SafeSlot(objects[o].klass, m, second)
       /\ Living(objects[o].klass, Invoke(objects[o].klass, m, i, o, second))

ClassCallStep(n, m, i) ==
  /\ Room /\ m # Constructor
  /\ line' = CallLine("class call", named[n], m, i)
  /\ \E second \in Seconds : SafeSlot(named[n], m, second) /\ Invoke(named[n], m, i, 0, second)

SuperStep(m, i) ==
  /\ Room
  /\ line' = CallLine("super", 0, m, i)
  /\ SafeSuper(m)
  /\ Frame.self # 0 /\ m = Constructor =>
       \A c \in Order(objects[Frame.self].klass) : SafeConstructor(objects[Frame.self].klass, c)
  /\ SuperCall(m, i)

OperatorStep(o) ==
  /\ Room
  /\ line' = CallLine("operator", o, Operator, 1)
  /\ SafeOperator(objects[o].klass)
  /\ Living(objects[o].klass, Operate(o, Operator, 1))

ReturnStep == Len(frames) > 1 /\ line' = ReturnLine /\ Return

GetStep(o, x) ==
  LET k == objects[o].klass IN
  /\ line' = GetLine("get", o, x)
  /\ SafeField(k, x) /\ SafeStatic(k, x, Order(k) \ {k}) /\ SafeMethodValue(k, x)
  /\ Living(k, GetProperty(o, x))
SetStep(o, x, a) ==
  LET k == objects[o].klass IN
  /\ line' = SetLine("set", o, x, a)
  /\ SafeField(k, x) /\ SafeStore(k, x, a)
  /\ Living(k, SetProperty(o, x, a))
IncStep(o, x) ==
  LET k == objects[o].klass IN
  /\ line' = GetLine("increment", o, x)
  /\ SafeField(k, x) /\ SafeIncrement(o, x)
  /\ Living(k, IncProperty(o, x))

ClassGetStep(n, x) ==
  LET c == named[n] IN
  /\ line' = GetLine("class get", c, x)
  /\ SafeStatic(c, x, Order(c)) /\ SafeMethodValue(c, x)
  /\ Lookup(c, x)
ClassSetStep(n, x, a) ==
  LET c == named[n] IN
  /\ line' = SetLine("class set", c, x, a)
  /\ SafeStatic(c, x, Order(c)) /\ SafeStore(c, x, a)
  /\ SetStatic(c, x, a)

Next ==
  \/ \E t \in Texts : DefineStep(t)
  \/ \E n \in DOMAIN named :
       \/ EndStep(n)
       \/ \E i \in Counts : NewStep(n, i)
       \/ \E m \in MethodNames, i \in Counts : ClassCallStep(n, m, i)
       \/ \E x \in MethodNames \cup StaticNames : ClassGetStep(n, x)
       \/ \E x \in StaticNames, a \in Levels : ClassSetStep(n, x, a)
  \/ \E o \in DOMAIN objects :
       \/ \E m \in MethodNames, i \in Counts : CallStep(o, m, i)
       \/ OperatorStep(o)
       \/ \E x \in FieldNames \cup MethodNames \cup StaticNames : GetStep(o, x)
       \/ \E x \in FieldNames : IncStep(o, x) \/ \E a \in Levels : SetStep(o, x, a)
  \/ \E m \in MethodNames, i \in Counts : SuperStep(m, i)
  \/ ReturnStep

Spec == Init /\ [][Next]_clVars

----------------------------------------------------------------------------
(* Properties.                                                             *)

(* Linearized orders, tables of methods and fields, the owners of          *)
(* functions and the class in the slot of obj do not show: every operation *)
(* finds, runs and refuses what classes mean (README.md:318-348).          *)
Promise == INSTANCE Objects WITH
  kinds <- [c \in DOMAIN classes |->
              [text |-> classes[c].text, parents |-> classes[c].parents,
               order |-> classes[c].mro, statics |-> classes[c].statics]],
  bound <- named,
  things <- [o \in DOMAIN objects |-> [kind |-> objects[o].klass, fields |-> objects[o].fields]],
  calls <- [i \in DOMAIN frames |->
              [kind |-> owner[frames[i].f], f |-> frames[i].f, self |-> frames[i].self]]
KeepsClasses == Promise!Spec
=============================================================================
