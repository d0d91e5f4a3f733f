------------------------------- MODULE Calls -------------------------------
(***************************************************************************)
(* Functions, their parameters, and what a call of one or of several of a  *)
(* name gives.  An argument is a value [t |-> type, n |-> payload]; what a *)
(* function returns is told by the function and the values its parameters  *)
(* get.                                                                    *)
(***************************************************************************)
EXTENDS Integers, Sequences, FiniteSets

CONSTANTS
  Funcs,     \* function objects
  Params,    \* f -> the declared types of its parameters, "any" for none
  Defaults,  \* f -> how many of the last parameters have a default
  Rest,      \* the functions that end with a *rest parameter
  Natives,   \* the functions of the host
  Cached,    \* the functions defined cached
  Reading    \* the functions that read a global variable

ASSUME FuncsAssumption ==
  /\ \A f \in Funcs : Params[f] \in Seq({"int", "float", "any"})
  /\ \A f \in Funcs : Defaults[f] \in 0..Len(Params[f])

NoMatch == "no match"
ASSUME FuncsNamed == NoMatch \notin Funcs

Value(t, n) == [t |-> t, n |-> n, f |-> "none"]
NoType == Value("notype", 0)
Func(f) == [t |-> "function", n |-> 0, f |-> f]
OverloadRef(i) == Value("overload", i)
Failed(r) == r.k = "error"
Done == [k |-> "done"]
Error(e) == [k |-> "error", e |-> e]
Result(f, args, seen) == [k |-> "result", f |-> f, args |-> args, seen |-> seen]

(* The lines of a session.                                                 *)
LetStmt(n, v, const, lock) == [k |-> "let", n |-> n, v |-> v, const |-> const, lock |-> lock]
SetStmt(n, v) == [k |-> "set", n |-> n, v |-> v]
RefStmt(k, n, m) == [k |-> k, n |-> n, m |-> m]
FunStmt(n, f) == [k |-> "function", n |-> n, f |-> f]
CallStmt(n, args) == [k |-> "call", n |-> n, args |-> args]

Types(args) == [i \in DOMAIN args |-> args[i].t]

----------------------------------------------------------------------------
(* VM::callValue ranks the overloads by adding up the parameters: 10 for   *)
(* an exact match, 5 for a castable one, 2 for an untyped one.             *)

MinArgs(f) == Len(Params[f]) - Defaults[f]

(* The arguments that meet a declared parameter.                           *)
Compared(f, ts) == {i \in DOMAIN ts : i <= Len(Params[f])}

Suits(p, t) == p \in {"any", t} \/ (p = "float" /\ t = "int")

Fits(f, ts) ==
  \/ f \in Natives
  \/ /\ Len(ts) >= MinArgs(f) \/ f \in Rest
     /\ Len(ts) <= Len(Params[f]) \/ f \in Rest
     /\ \A i \in Compared(f, ts) : Suits(Params[f][i], ts[i])

Exact(f, ts) == IF f \in Natives THEN 0
                ELSE Cardinality({i \in Compared(f, ts) : Params[f][i] = ts[i]})
Castable(f, ts) == IF f \in Natives THEN 0
                   ELSE Cardinality({i \in Compared(f, ts) : Params[f][i] = "float" /\ ts[i] = "int"})
Untyped(f, ts) == IF f \in Natives THEN 0
                  ELSE Cardinality({i \in Compared(f, ts) : Params[f][i] = "any"})

Score(f, ts) == 10 * Exact(f, ts) + 5 * Castable(f, ts) + 2 * Untyped(f, ts)

(* The priority README.md:295-298 promises.                                *)
Better(f, g, ts) ==
  \/ Exact(f, ts) > Exact(g, ts)
  \/ Exact(f, ts) = Exact(g, ts) /\ Castable(f, ts) > Castable(g, ts)
  \/ Exact(f, ts) = Exact(g, ts) /\ Castable(f, ts) = Castable(g, ts) /\ Untyped(f, ts) > Untyped(g, ts)

(* Candidates are tried from the last to the first; only a greater score   *)
(* replaces the best so far.                                               *)
Choices(cands, ts) ==
  {i \in DOMAIN cands :
     /\ Fits(cands[i], ts)
     /\ \A j \in DOMAIN cands :
          Fits(cands[j], ts) =>
            \/ Score(cands[i], ts) > Score(cands[j], ts)
            \/ Score(cands[i], ts) = Score(cands[j], ts) /\ j <= i}

Resolve(cands, ts) ==
  IF Choices(cands, ts) = {} THEN NoMatch ELSE cands[CHOOSE i \in Choices(cands, ts) : TRUE]

----------------------------------------------------------------------------
(* Binding the arguments of a call to the parameters.                      *)

Converts(p, t) == p \in {"any", t} \/ {p, t} \subseteq {"int", "float"}
Converted(p, v) == IF p = "any" THEN v ELSE Value(p, v.n)

Binds(f, args) ==
  \/ f \in Natives
  \/ /\ Len(args) >= MinArgs(f)
     /\ \A i \in Compared(f, args) : Converts(Params[f][i], args[i].t)

TooMany(f, args) == f \notin Natives \cup Rest /\ Len(args) > Len(Params[f])

(* What the parameters get; a default counts as 0 of the declared type.    *)
Bound(f, args) ==
  IF f \in Natives THEN args
  ELSE [i \in 1..(IF f \in Rest /\ Len(args) > Len(Params[f]) THEN Len(args)
                                                              ELSE Len(Params[f])) |->
          CASE i > Len(Params[f]) -> args[i]
            [] i > Len(args) -> Value(Params[f][i], 0)
            [] OTHER -> Converted(Params[f][i], args[i])]
=============================================================================
