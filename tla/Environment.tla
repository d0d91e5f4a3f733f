---------------------------- MODULE Environment ----------------------------
(***************************************************************************)
(* The globals of a VM (Env) and the calls of global functions, line by    *)
(* line as in the REPL: each line is compiled and run on the same VM, and  *)
(* an error ends the line only.                                            *)
(*                                                                         *)
(* A variable keeps its flags twice: in Var, which assignments by name     *)
(* look at, and in its Value, which assignments through an alias look at.  *)
(* An alias is a pointer to the Value of another variable; names stand for *)
(* those pointers.                                                         *)
(***************************************************************************)
EXTENDS Calls

CONSTANTS
  Names, Builtins, Literals, ArgLists, Observed,  \* as in Scopes
  Nobody,    \* the name of Env::lookup's static variable
  MaxLines,  \* the length of a session
  Risks      \* the harmful combinations sessions may contain

ASSUME NamesAssumption ==
  /\ {Nobody, "none"} \cap Names = {} /\ Nobody # "none"
  /\ DOMAIN Builtins \subseteq Names /\ Natives \subseteq Funcs
  /\ \A n \in DOMAIN Builtins : Builtins[n] \in Natives
  /\ Literals \subseteq [t : {"int", "float"}, n : Int, f : {"none"}]
  /\ ArgLists \subseteq Seq(Literals)

VARIABLES
  vars,       \* name -> the variable
  overloads,  \* the OverloadObjects: overloads and signatureCache
  memo,       \* function -> arguments -> the result kept
  declared,   \* the functions created
  line,       \* the last line
  outcome,    \* what it gave
  lines       \* how many there were

evVars == <<vars, overloads, memo, declared, line, outcome, lines>>

----------------------------------------------------------------------------
(* Env. *)

None == "none"
Var(v, vconst, vlock, alias, const, lock) ==
  [val |-> v, vconst |-> vconst, vlock |-> vlock, alias |-> alias, const |-> const, lock |-> lock]
Plain(v) == Var(v, FALSE, FALSE, None, FALSE, FALSE)
Alias(n) == Var(NoType, FALSE, FALSE, n, FALSE, FALSE)

Put(f, x, v) == [y \in DOMAIN f \cup {x} |-> IF y = x THEN v ELSE f[y]]

exists(n) == n \in DOMAIN vars \ {Nobody}
lookup(n) == IF exists(n) THEN n ELSE Nobody
Pointee(n) == IF vars[n].alias = None THEN n ELSE vars[n].alias
get(n) == vars[Pointee(n)].val

Boxed(v) == v.t \in {"function", "overload"}

(* A constant may be set to a value of its type if neither is boxed.       *)
SetError(n, v) ==
  IF /\ exists(n)
     /\ \/ vars[n].lock /\ vars[n].val.t # v.t
        \/ vars[n].const /\ (vars[n].val.t # v.t \/ (Boxed(v) /\ vars[n].val # v))
  THEN "RuntimeError" ELSE None

(* That has no effect.  A value stored loses the flags of its predecessor. *)
Store(n, v) == [vars EXCEPT ![n] = Var(v, FALSE, FALSE, @.alias, @.const, @.lock)]
SetTo(n, v, const, lock) ==
  CASE ~exists(n) -> Put(vars, n, Var(v, const, lock, None, const, lock))
    [] exists(n) /\ vars[n].const -> vars
    [] OTHER -> Store(n, v)

----------------------------------------------------------------------------
(* Lines. *)

Fails(e) == outcome' = Error(e) /\ UNCHANGED <<vars, overloads, memo>>

Set(n, v, const, lock) ==
  IF SetError(n, v) # None THEN Fails(SetError(n, v))
  ELSE /\ vars' = SetTo(n, v, const, lock)
       /\ outcome' = Done
       /\ UNCHANGED <<overloads, memo>>

Identical(n, v) == exists(n) /\ get(n) = v /\ v # NoType

(* OP_DEFINE_VAR of a value that exists already, or of a new function.     *)
DefineVar(n, v, const, lock) ==
  IF Identical(n, v) THEN outcome' = Done /\ UNCHANGED <<vars, overloads, memo>>
  ELSE Set(n, v, const, lock)

NewOverload(n, f) ==
  LET v == OverloadRef(Len(overloads) + 1) IN
  IF SetError(n, v) # None THEN Fails(SetError(n, v))
  ELSE /\ vars' = SetTo(n, v, FALSE, FALSE)
       /\ overloads' = Append(overloads, [cands |-> <<get(n).f, f>>, cache |-> <<>>])
       /\ outcome' = Done
       /\ UNCHANGED memo

(* signatureCache is not cleared.                                          *)
AddOverload(i, f) ==
  /\ overloads' = [overloads EXCEPT ![i].cands = Append(@, f)]
  /\ outcome' = Done
  /\ UNCHANGED <<vars, memo>>

DefineFunction(n, f) ==
  CASE exists(n) /\ get(n).t = "function" -> NewOverload(n, f)
    [] exists(n) /\ get(n).t = "overload" -> AddOverload(get(n).n, f)
    [] OTHER -> Set(n, Func(f), FALSE, FALSE)

(* OP_SET_VAR.                                                             *)
AssignTarget(c, v) ==
  CASE vars[c].vconst -> Fails("ConstError")
    [] ~vars[c].vconst /\ vars[c].vlock /\ vars[c].val.t # v.t -> Fails("TypeError")
    [] OTHER -> /\ vars' = [vars EXCEPT ![c].val = v]
                /\ outcome' = Done
                /\ UNCHANGED <<overloads, memo>>

AssignNameUnchecked(n, v) ==
  /\ vars' = Store(n, v)
  /\ outcome' = Done
  /\ UNCHANGED <<overloads, memo>>
AssignName(n, v) ==
  CASE vars[n].const -> Fails("ConstError")
    [] ~vars[n].const /\ vars[n].lock /\ vars[n].val.t # v.t -> Fails("TypeError")
    [] OTHER -> /\ vars' = Store(n, v)
                /\ outcome' = Done
                /\ UNCHANGED <<overloads, memo>>

SetVar(n, v) ==
  CASE ~exists(n) -> Fails("NameError")
    [] exists(n) /\ vars[n].alias # None -> AssignTarget(vars[n].alias, v)
    [] OTHER -> AssignName(n, v)

(* OP_DEFINE_REF replaces the variable, OP_SET_REF its alias.              *)
DefineRefChained(n, m) ==
  /\ vars' = Put(vars, n, Alias(lookup(m)))
  /\ outcome' = Done
  /\ UNCHANGED <<overloads, memo>>
DefineRef(n, m) ==
  /\ vars' = Put(vars, n, Alias(Pointee(lookup(m))))
  /\ outcome' = Done
  /\ UNCHANGED <<overloads, memo>>

SetRef(n, m) ==
  IF ~exists(n) THEN Fails("NameError")
  ELSE /\ vars' = [vars EXCEPT ![n].alias = Pointee(lookup(m))]
       /\ outcome' = Done
       /\ UNCHANGED <<overloads, memo>>

----------------------------------------------------------------------------
(* Calls. *)

CacheByFirst(i, ts, f) == [overloads EXCEPT ![i].cache = Put(@, IF ts = <<>> THEN ts ELSE <<Head(ts)>>, f)]
Cache(i, ts, f) == [overloads EXCEPT ![i].cache = Put(@, ts, f)]
Target(i, ts) ==
  IF ts \in DOMAIN overloads[i].cache THEN overloads[i].cache[ts]
                                      ELSE Resolve(overloads[i].cands, ts)

Seen(f) == IF f \in Reading /\ exists(Observed) THEN get(Observed) ELSE NoType
Ran(f, args) == Result(f, Bound(f, args), Seen(f))
Remembered(f, args) == f \in Cached /\ Bound(f, args) \in DOMAIN memo[f]

(* The cache of results is asked before the arguments left over are seen.  *)
Run(f, args) ==
  CASE ~Binds(f, args) -> outcome' \in {Error("ArgumentError"), Error("TypeError")} /\ UNCHANGED memo
    [] Binds(f, args) /\ Remembered(f, args) -> outcome' = memo[f][Bound(f, args)] /\ UNCHANGED memo
    [] Binds(f, args) /\ ~Remembered(f, args) /\ TooMany(f, args) ->
         outcome' = Error("ArgumentError") /\ UNCHANGED memo
    [] OTHER -> /\ outcome' = Ran(f, args)
                /\ memo' = IF f \in Cached
                           THEN [memo EXCEPT ![f] = Put(@, Bound(f, args), Ran(f, args))] ELSE memo

CallOverload(i, args) ==
  LET f == Target(i, Types(args)) IN
  IF f = NoMatch THEN Fails("TypeError")
  ELSE overloads' = Cache(i, Types(args), f) /\ Run(f, args) /\ UNCHANGED vars

callValue(n, args) ==
  CASE ~exists(n) -> Fails("NameError")
    [] exists(n) /\ get(n).t = "function" -> Run(get(n).f, args) /\ UNCHANGED <<vars, overloads>>
    [] exists(n) /\ get(n).t = "overload" -> CallOverload(get(n).n, args)
    [] OTHER -> Fails("TypeError")

----------------------------------------------------------------------------
(* Combinations that break what Scopes promises.  Sessions contain those   *)
(* in Risks only.                                                          *)

Safe(risk, harmful) == harmful => risk \in Risks

Refers(n) == exists(n) /\ vars[n].alias # None
IsTarget(n) == \E m \in DOMAIN vars : vars[m].alias = n

(* A declaration of a name that is a reference changes a hidden value.     *)
SafeRedefinition(n) == Safe("redefine_reference", Refers(n))

(* Declaring a variable again does not make it constant or lock it.        *)
SafeFlags(n, const, lock) ==
  Safe("redeclare_flags", exists(n) /\ ((const /\ ~vars[n].const) \/ (lock /\ ~vars[n].lock)))

(* After an assignment the lock is not seen through references.            *)
SafeTarget(n) ==
  Safe("lost_lock", Refers(n) /\ vars[vars[n].alias].lock /\ ~vars[vars[n].alias].vlock)

(* A reference replaces a constant; one to an undeclared name shares the   *)
(* static variable; replacing a variable empties it for its references.    *)
SafeReference(n, m) ==
  /\ Safe("refer_constant", exists(n) /\ vars[n].const)
  /\ Safe("refer_undeclared", ~exists(m))
SafeReplacement(n, m) == Safe("replace_target", exists(n) /\ (IsTarget(n) \/ n = m))

(* A new overload is not seen by the signatures called before.             *)
SafeOverload(n, f) ==
  /\ Safe("late_overload",
          exists(n) /\ get(n).t = "overload"
            /\ LET o == overloads[get(n).n] IN
               \E ts \in DOMAIN o.cache : Resolve(Append(o.cands, f), ts) # o.cache[ts])
  /\ (exists(n) /\ get(n).t = "overload") \/ SafeRedefinition(n)

(* Missing arguments rule a function with *rest out only when it is bound; *)
(* three castable arguments outvote an exact one.                          *)
Callees(n) ==
  CASE ~exists(n) -> {}
    [] exists(n) /\ get(n).t = "function" -> {get(n).f}
    [] exists(n) /\ get(n).t = "overload" ->
         {overloads[get(n).n].cands[i] : i \in DOMAIN overloads[get(n).n].cands}
    [] OTHER -> {}
SafeCall(n, args) ==
  /\ Safe("short_rest", exists(n) /\ get(n).t = "overload"
                          /\ \E f \in Callees(n) : Fits(f, Types(args)) /\ ~Binds(f, args))
  /\ Safe("outvoted", exists(n) /\ get(n).t = "overload"
                        /\ \E f, g \in Callees(n) :
                             /\ Fits(f, Types(args)) /\ Fits(g, Types(args))
                             /\ (Score(f, Types(args)) > Score(g, Types(args))) # Better(f, g, Types(args)))
  /\ Safe("surplus_remembered", \E f \in Callees(n) : TooMany(f, args) /\ Binds(f, args) /\ Remembered(f, args))
  /\ Safe("cached_reading", Callees(n) \cap Cached \cap Reading # {})

----------------------------------------------------------------------------

Init ==
  /\ vars = [n \in DOMAIN Builtins \cup {Nobody} |->
               IF n = Nobody THEN Plain(NoType) ELSE Plain(Func(Builtins[n]))]
  /\ overloads = <<>>
  /\ memo = [f \in Funcs |-> <<>>]
  /\ declared = {}
  /\ line = <<>>
  /\ outcome = Done
  /\ lines = 0

Enter(l) ==
  /\ lines < MaxLines
  /\ lines' = lines + 1
  /\ line' = l
Values == Literals \cup {get(m) : m \in DOMAIN vars \ {Nobody}}

LetLine(n) ==
  /\ \E v \in Values, const, lock \in BOOLEAN :
       /\ Enter(LetStmt(n, v, const, lock))
       /\ SafeRedefinition(n) /\ SafeFlags(n, const, lock)
       /\ DefineVar(n, v, const, lock)
  /\ UNCHANGED declared

SetLine(n) ==
  /\ SafeTarget(n)
  /\ \E v \in Values : Enter(SetStmt(n, v)) /\ SetVar(n, v)
  /\ UNCHANGED declared

LetRefLine(n, m) ==
  /\ Enter(RefStmt("let ref", n, m))
  /\ SafeReference(n, m) /\ SafeReplacement(n, m)
  /\ DefineRef(n, m)
  /\ UNCHANGED declared

SetRefLine(n, m) ==
  /\ Enter(RefStmt("set ref", n, m))
  /\ SafeReference(n, m)
  /\ SetRef(n, m)
  /\ UNCHANGED declared

FunctionLine(n) ==
  \E f \in Funcs \ (declared \cup Natives) :
    /\ Enter(FunStmt(n, f))
    /\ SafeOverload(n, f)
    /\ DefineFunction(n, f)
    /\ declared' = declared \cup {f}

CallLine(n) ==
  /\ \E args \in ArgLists :
       Enter(CallStmt(n, args)) /\ SafeCall(n, args) /\ callValue(n, args)
  /\ UNCHANGED declared

Next ==
  \/ \E n \in Names : LetLine(n) \/ SetLine(n) \/ FunctionLine(n) \/ CallLine(n)
  \/ \E n, m \in Names : LetRefLine(n, m) \/ SetRefLine(n, m)

Spec == Init /\ [][Next]_evVars

----------------------------------------------------------------------------
(* Properties. *)

(* What the pointers make of the variables: a name's cell, the cells in    *)
(* use, the functions of each overloaded name.                             *)
CellOf == [n \in DOMAIN vars \ {Nobody} |-> Pointee(n)]
Reached(c) == \E n \in DOMAIN vars \ {Nobody} : Pointee(n) = c
Cells ==
  [c \in Names |->
     IF exists(c) /\ Reached(c) THEN [val |-> vars[c].val, const |-> vars[c].const, lock |-> vars[c].lock]
                               ELSE [val |-> NoType, const |-> FALSE, lock |-> FALSE]]
Sets == [i \in DOMAIN overloads |-> overloads[i].cands]

Promise == INSTANCE Scopes WITH cellOf <- CellOf, cells <- Cells, sets <- Sets, answer <- outcome

(* The two copies of the flags, the aliases, the cache of signatures and   *)
(* the cache of results do not show: every line does to the variables what *)
(* Scopes promises and gives what it promises (README.md:120-131, 269,     *)
(* 290-300).                                                               *)
KeepsPromise == Promise!Spec

(* A cached choice is the choice a fresh resolution would make now         *)
(* (OverloadObject::signatureCache).                                       *)
CacheCurrent ==
  \A i \in DOMAIN overloads : \A ts \in DOMAIN overloads[i].cache :
    overloads[i].cache[ts] = Resolve(overloads[i].cands, ts)

(* Whatever name, redeclaration, reference or overload a line uses, a      *)
(* variable declared constant reads the same for ever, and the value of a  *)
(* locked one keeps its type (README.md:130-131).                          *)
FlagsHold ==
  [][\A n \in DOMAIN vars \ {Nobody} :
       /\ vars[n].const => vars'[n].const /\ get(n)' = get(n)
       /\ vars[n].lock /\ vars[n].alias = None /\ vars'[n].alias = None =>
            get(n)'.t = get(n).t]_evVars
=============================================================================
