------------------------------- MODULE Scopes -------------------------------
(***************************************************************************)
(* What the global variables of a session promise (README.md:120-131,      *)
(* 269-300): a name stands for a cell, a reference shares the cell of its  *)
(* target, a constant cell never changes, a locked cell keeps its type, a  *)
(* call runs the best of the functions its name has now, and `cached` does *)
(* not show.  Environment refines this module.                             *)
(***************************************************************************)
EXTENDS Calls

CONSTANTS
  Names,     \* of global variables
  Builtins,  \* name -> native function, for the names the host defines
  Literals,  \* the values written in programs
  ArgLists,  \* the argument lists of calls
  Observed   \* the variable the functions in Reading read

VARIABLES
  cellOf,  \* name -> cell, for the names declared; a cell has a name's name
  cells,   \* cell -> value and flags
  sets,    \* the functions of each overloaded name
  line,    \* the last line
  answer   \* what it gave

scVars == <<cellOf, cells, sets, line, answer>>

----------------------------------------------------------------------------

Declared(n) == n \in DOMAIN cellOf
Content(n) == IF Declared(n) THEN cells[cellOf[n]].val ELSE NoType

Put(f, x, v) == [y \in DOMAIN f \cup {x} |-> IF y = x THEN v ELSE f[y]]

Cell(v, const, lock) == [val |-> v, const |-> const, lock |-> lock]
Blank == Cell(NoType, FALSE, FALSE)

(* Changing a cell is refused when it is constant or of another type.      *)
Refuses(c, v) == cells[c].const \/ (cells[c].lock /\ cells[c].val.t # v.t)

Refuse ==
  /\ \E e \in {"ConstError", "TypeError", "NameError", "RuntimeError", "ArgumentError"} :
       answer' = Error(e)
  /\ UNCHANGED <<cellOf, cells, sets>>

Create(n, v, const, lock) ==
  /\ cellOf' = Put(cellOf, n, n)
  /\ cells' = [cells EXCEPT ![n] = Cell(v, const, lock)]
  /\ answer' = Done
  /\ UNCHANGED sets

(* Declaring again may add flags.  A constant may be declared again        *)
(* without an error, and without effect.                                   *)
Change(n, v, const, lock) ==
  LET c == cellOf[n] IN
  \/ Refuses(c, v) /\ Refuse
  \/ cells[c].const /\ answer' = Done /\ UNCHANGED <<cellOf, cells, sets>>
  \/ /\ ~Refuses(c, v)
     /\ cells' = [cells EXCEPT ![c] = Cell(v, const, @.lock \/ lock)]
     /\ answer' = Done
     /\ UNCHANGED <<cellOf, sets>>

Let(n, v, const, lock) ==
  IF Declared(n) THEN Change(n, v, const, lock) ELSE Create(n, v, const, lock)

Assign(n, v) == IF Declared(n) THEN Change(n, v, FALSE, FALSE) ELSE Refuse

(* A name declared constant keeps its cell.  A cell of no name is lost.    *)
Refer(n, m) ==
  IF ~Declared(m) \/ (Declared(n) /\ cellOf[n] = n /\ cells[n].const) THEN Refuse
  ELSE /\ cellOf' = Put(cellOf, n, cellOf[m])
       /\ cells' = [c \in Names |-> IF \E k \in DOMAIN cellOf' : cellOf'[k] = c
                                    THEN cells[c] ELSE Blank]
       /\ answer' = Done
       /\ UNCHANGED sets

(* A second function of a name makes an overloaded name of it.             *)
Declare(n, f) ==
  \/ /\ Content(n).t = "overload"
     /\ sets' = [sets EXCEPT ![Content(n).n] = Append(@, f)]
     /\ answer' = Done
     /\ UNCHANGED <<cellOf, cells>>
  \/ /\ Content(n).t = "function"
     /\ LET v == OverloadRef(Len(sets) + 1) IN
        \/ Refuses(cellOf[n], v) /\ Refuse
        \/ /\ ~Refuses(cellOf[n], v)
           /\ cells' = [cells EXCEPT ![cellOf[n]].val = v]
           /\ sets' = Append(sets, <<Content(n).f, f>>)
           /\ answer' = Done
           /\ UNCHANGED cellOf
  \/ /\ Content(n).t \notin {"function", "overload"}
     /\ Let(n, Func(f), FALSE, FALSE)

(* The best overload: most exact matches first, then most castable ones;   *)
(* the last declared among equals.                                         *)
Takes(f, args) == Fits(f, Types(args)) /\ Binds(f, args)

Candidates(v) ==
  CASE v.t = "overload" -> sets[v.n]
    [] v.t = "function" -> <<v.f>>
    [] OTHER -> <<>>

Picked(v, args) ==
  LET cs == Candidates(v) ts == Types(args)
      ok == {i \in DOMAIN cs : Takes(cs[i], args)}
  IN  IF v.t = "function"
      THEN {f \in {v.f} : Binds(f, args) /\ ~TooMany(f, args)}
      ELSE {cs[i] : i \in {i \in ok : \A j \in ok : ~Better(cs[j], cs[i], ts)
                                                   /\ (Better(cs[i], cs[j], ts) \/ j <= i)}}

Call(n, args) ==
  \/ Picked(Content(n), args) = {} /\ Refuse
  \/ \E f \in Picked(Content(n), args) :
       /\ answer' = Result(f, Bound(f, args),
                           IF f \in Reading THEN Content(Observed) ELSE NoType)
       /\ UNCHANGED <<cellOf, cells, sets>>

----------------------------------------------------------------------------

Init ==
  /\ cellOf = [n \in DOMAIN Builtins |-> n]
  /\ cells = [c \in Names |-> IF c \in DOMAIN Builtins THEN Cell(Func(Builtins[c]), FALSE, FALSE)
                                                     ELSE Blank]
  /\ sets = <<>>
  /\ line = <<>>
  /\ answer = Done

Values == Literals \cup {Content(m) : m \in DOMAIN cellOf}

LetLine(n) ==
  \E v \in Values, const, lock \in BOOLEAN :
    line' = LetStmt(n, v, const, lock) /\ Let(n, v, const, lock)
SetLine(n) == \E v \in Values : line' = SetStmt(n, v) /\ Assign(n, v)
RefLine(n, m) == \E k \in {"let ref", "set ref"} :
                   line' = RefStmt(k, n, m) /\ (k = "set ref" => Declared(n)) /\ Refer(n, m)
FunctionLine(n) == \E f \in Funcs : line' = FunStmt(n, f) /\ Declare(n, f)
CallLine(n) == \E args \in ArgLists : line' = CallStmt(n, args) /\ Call(n, args)
UnknownLine(n, m) == line' = RefStmt("set ref", n, m) /\ ~Declared(n) /\ Refuse

(* Every line is about one name.                                           *)
Next ==
  \E n \in Names :
    /\ line'.n = n
    /\ \/ LetLine(n) \/ SetLine(n) \/ FunctionLine(n) \/ CallLine(n)
       \/ \E m \in Names : RefLine(n, m) \/ UnknownLine(n, m)

Spec == Init /\ [][Next]_scVars
=============================================================================
