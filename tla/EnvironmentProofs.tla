------------------------- MODULE EnvironmentProofs -------------------------
(***************************************************************************)
(* Proofs about the variables and calls of a session, for any names,       *)
(* functions, literals and number of lines: a session without the harmful  *)
(* combinations keeps what Scopes promises.                                *)
(***************************************************************************)
EXTENDS Environment, SequenceTheorems, FiniteSetTheorems, TLAPS

(***************************************************************************)
(* Choosing an overload.                                                   *)
(***************************************************************************)
ArgTypes == {"int", "float"}

LEMMA TypesOf ==
  ASSUME NEW args \in Seq(Literals)
  PROVE  /\ Types(args) \in Seq(ArgTypes) /\ Len(Types(args)) = Len(args)
         /\ DOMAIN Types(args) = DOMAIN args /\ \A i \in DOMAIN args : Types(args)[i] = args[i].t
<1>1. \A v \in Literals : v.t \in ArgTypes BY NamesAssumption DEF ArgTypes
<1>2. DOMAIN args = 1..Len(args) /\ Len(args) \in Nat /\ \A i \in 1..Len(args) : args[i] \in Literals OBVIOUS
<1>3. Types(args) = [i \in 1..Len(args) |-> args[i].t] BY <1>2 DEF Types
<1>4. \A i \in 1..Len(args) : args[i].t \in ArgTypes BY <1>1, <1>2
<1> QED BY <1>2, <1>3, <1>4

LEMMA ScoreInt ==
  ASSUME NEW f, NEW ts \in Seq(ArgTypes)
  PROVE  Score(f, ts) \in Int
<1>1. IsFiniteSet(DOMAIN ts)
  <2>1. DOMAIN ts = 1..Len(ts) /\ Len(ts) \in Nat OBVIOUS
  <2>2. IsFiniteSet(1..Len(ts)) BY <2>1, FS_Interval
  <2> QED BY <2>1, <2>2
<1>2. ASSUME NEW S, S \subseteq DOMAIN ts PROVE Cardinality(S) \in Nat
  BY <1>1, <1>2, FS_Subset, FS_CardinalityType
<1>3. Exact(f, ts) \in Nat
  <2>1. {i \in Compared(f, ts) : Params[f][i] = ts[i]} \subseteq DOMAIN ts BY DEF Compared
  <2> QED BY <1>2, <2>1 DEF Exact
<1>4. Castable(f, ts) \in Nat
  <2>1. {i \in Compared(f, ts) : Params[f][i] = "float" /\ ts[i] = "int"} \subseteq DOMAIN ts BY DEF Compared
  <2> QED BY <1>2, <2>1 DEF Castable
<1>5. Untyped(f, ts) \in Nat
  <2>1. {i \in Compared(f, ts) : Params[f][i] = "any"} \subseteq DOMAIN ts BY DEF Compared
  <2> QED BY <1>2, <2>1 DEF Untyped
<1> QED BY <1>3, <1>4, <1>5 DEF Score

(* The sum has at most one winner.                                         *)
LEMMA OneChoice ==
  ASSUME NEW cands \in Seq(Funcs), NEW ts \in Seq(ArgTypes),
         NEW i \in Choices(cands, ts), NEW j \in Choices(cands, ts)
  PROVE  i = j
<1>1. i \in DOMAIN cands /\ j \in DOMAIN cands /\ i \in Int /\ j \in Int BY DEF Choices
<1>2. Score(cands[i], ts) \in Int /\ Score(cands[j], ts) \in Int BY ScoreInt
<1>3. Fits(cands[i], ts) /\ Fits(cands[j], ts) BY DEF Choices
<1>4. \/ Score(cands[i], ts) > Score(cands[j], ts)
      \/ Score(cands[i], ts) = Score(cands[j], ts) /\ j <= i
  BY <1>1, <1>3 DEF Choices
<1>5. \/ Score(cands[j], ts) > Score(cands[i], ts)
      \/ Score(cands[j], ts) = Score(cands[i], ts) /\ i <= j
  BY <1>1, <1>3 DEF Choices
<1> DEFINE a == Score(cands[i], ts) b == Score(cands[j], ts)
<1>6. a \in Int /\ b \in Int BY <1>2
<1>7. (a > b \/ (a = b /\ j <= i)) /\ (b > a \/ (b = a /\ i <= j)) BY <1>4, <1>5
<1> HIDE DEF a, b
<1> QED BY <1>1, <1>6, <1>7

LEMMA Resolved ==
  ASSUME NEW cands \in Seq(Funcs), NEW ts \in Seq(ArgTypes)
  PROVE  /\ Resolve(cands, ts) \in Funcs \cup {NoMatch}
         /\ Resolve(cands, ts) = NoMatch <=> Choices(cands, ts) = {}
         /\ {cands[i] : i \in Choices(cands, ts)} = {Resolve(cands, ts)} \ {NoMatch}
<1>1. \A i \in Choices(cands, ts) : i \in DOMAIN cands /\ cands[i] \in Funcs BY DEF Choices
<1>2. CASE Choices(cands, ts) = {}
  BY <1>2 DEF Resolve
<1>3. CASE Choices(cands, ts) # {}
  <2>1. PICK i : i = CHOOSE k \in Choices(cands, ts) : TRUE OBVIOUS
  <2>2. i \in Choices(cands, ts) BY <1>3, <2>1
  <2>3. Resolve(cands, ts) = cands[i] BY <1>3, <2>1 DEF Resolve
  <2>4. cands[i] \in Funcs /\ cands[i] # NoMatch BY <1>1, <2>2, FuncsNamed
  <2>5. Choices(cands, ts) = {i} BY <2>2, OneChoice
  <2> QED BY <2>3, <2>4, <2>5
<1> QED BY <1>2, <1>3

(***************************************************************************)
(* The invariant.                                                          *)
(***************************************************************************)
Declared == DOMAIN vars \ {Nobody}

Vals == [t : {"notype", "int", "float", "function", "overload"}, n : Int, f : Funcs \cup {"none"}]
VarSet == [val : Vals, vconst : BOOLEAN, vlock : BOOLEAN, alias : Names \cup {None},
           const : BOOLEAN, lock : BOOLEAN]
IsVal(v) ==
  /\ v \in Vals
  /\ v.t = "function" => v.f \in Funcs
  /\ v.t = "overload" => v.n \in DOMAIN overloads

VarsInv ==
  /\ Declared \subseteq Names /\ Nobody \in DOMAIN vars
  /\ vars \in [DOMAIN vars -> VarSet]
  /\ \A n \in DOMAIN vars : IsVal(vars[n].val) /\ vars[n].alias \in Declared \cup {None}

(* The two copies of a variable's flags: a lost lock is the one way they   *)
(* differ.                                                                 *)
FlagsInv ==
  \A n \in DOMAIN vars :
    /\ vars[n].vconst = vars[n].const
    /\ vars[n].vlock => vars[n].lock
    /\ vars[n].const => vars[n].alias = None

Caches == UNION {[S -> Funcs] : S \in SUBSET Seq(ArgTypes)}
OverloadSet == [cands : Seq(Funcs), cache : Caches]
OverloadsInv == overloads \in Seq(OverloadSet) /\ CacheCurrent

MemoInv ==
  /\ DOMAIN memo = Funcs
  /\ \A f \in Funcs : \A b \in DOMAIN memo[f] : memo[f][b] = Result(f, b, NoType)

IInv == VarsInv /\ FlagsInv /\ OverloadsInv /\ MemoInv

(***************************************************************************)
(* Names, cells and values.                                                *)
(***************************************************************************)
LEMMA NameFacts ==
  ASSUME VarsInv
  PROVE  /\ None \notin DOMAIN vars /\ Nobody \notin Names /\ None \notin Names
         /\ \A n : exists(n) <=> n \in Declared
         /\ \A n \in Declared : Pointee(n) \in Declared /\ IsVal(get(n))
         /\ \A n \in Declared : lookup(n) = n
         /\ \A n : vars[n].alias = None => Pointee(n) = n
BY NamesAssumption DEF VarsInv, Declared, exists, Pointee, get, lookup, None

(* A cell is reached when a name stands for it.                            *)
LEMMA ReachedIs ==
  /\ \A c : Reached(c) <=> \E n \in DOMAIN CellOf : CellOf[n] = c
  /\ \A c : Reached(c)' <=> \E n \in DOMAIN CellOf' : CellOf'[n] = c
BY DEF Reached, CellOf

LEMMA CellFacts ==
  ASSUME VarsInv
  PROVE  /\ DOMAIN CellOf = Declared /\ DOMAIN Cells = Names /\ DOMAIN Sets = DOMAIN overloads
         /\ \A n \in Declared : /\ CellOf[n] = Pointee(n) /\ CellOf[n] \in Names
                                /\ Cells[CellOf[n]].val = get(n)
                                /\ Cells[CellOf[n]].const = vars[CellOf[n]].const
                                /\ Cells[CellOf[n]].lock = vars[CellOf[n]].lock
<1>1. DOMAIN CellOf = Declared BY DEF CellOf, Declared
<1>2. DOMAIN Cells = Names BY DEF Cells
<1>3. ASSUME NEW n \in Declared
      PROVE  /\ CellOf[n] = Pointee(n) /\ CellOf[n] \in Names
             /\ Cells[CellOf[n]].val = get(n)
             /\ Cells[CellOf[n]].const = vars[CellOf[n]].const
             /\ Cells[CellOf[n]].lock = vars[CellOf[n]].lock
  <2>1. CellOf[n] = Pointee(n) BY DEF CellOf, Declared
  <2>2. Pointee(n) \in Declared /\ Pointee(n) \in Names BY NameFacts DEF VarsInv
  <2>3. exists(Pointee(n)) /\ Reached(Pointee(n)) BY <1>1, <2>1, <2>2, NameFacts, ReachedIs
  <2>4. Cells[Pointee(n)] = [val |-> vars[Pointee(n)].val, const |-> vars[Pointee(n)].const,
                             lock |-> vars[Pointee(n)].lock]
    BY <2>2, <2>3 DEF Cells
  <2> QED BY <2>1, <2>2, <2>4 DEF get
<1> QED BY <1>1, <1>2, <1>3 DEF Sets

LEMMA ValuesVals ==
  ASSUME VarsInv, NEW v \in Values
  PROVE  IsVal(v) /\ v \in Promise!Values
<1>1. CASE v \in Literals
  <2>1. v \in [t : {"int", "float"}, n : Int, f : {"none"}] BY <1>1, NamesAssumption
  <2> QED BY <1>1, <2>1 DEF IsVal, Vals, Promise!Values
<1>2. CASE v \notin Literals
  <2>1. PICK m \in Declared : v = get(m) BY <1>2 DEF Values, Declared
  <2>2. v = Promise!Content(m) /\ m \in DOMAIN CellOf BY <2>1, CellFacts DEF Promise!Content, Promise!Declared
  <2> QED BY <2>1, <2>2, NameFacts DEF Promise!Values
<1> QED BY <1>1, <1>2

(* The abstract module's words, with this module's.                        *)
LEMMA Words ==
  /\ Promise!NoType = NoType /\ Promise!Done = Done
  /\ \A e : Promise!Error(e) = Error(e)
  /\ \A f : Promise!Func(f) = Func(f)
  /\ \A i : Promise!OverloadRef(i) = OverloadRef(i)
  /\ \A f, args, seen : Promise!Result(f, args, seen) = Result(f, args, seen)
  /\ \A n, v, const, lock : Promise!LetStmt(n, v, const, lock) = LetStmt(n, v, const, lock)
  /\ \A n, v : Promise!SetStmt(n, v) = SetStmt(n, v)
  /\ \A k, n, m : Promise!RefStmt(k, n, m) = RefStmt(k, n, m)
  /\ \A n, f : Promise!FunStmt(n, f) = FunStmt(n, f)
  /\ \A n, args : Promise!CallStmt(n, args) = CallStmt(n, args)
BY DEF Promise!NoType, NoType, Promise!Value, Value, Promise!Done, Done, Promise!Error, Error,
       Promise!Func, Func, Promise!OverloadRef, OverloadRef, Promise!Result, Result,
       Promise!LetStmt, LetStmt, Promise!SetStmt, SetStmt, Promise!RefStmt, RefStmt,
       Promise!FunStmt, FunStmt, Promise!CallStmt, CallStmt

(***************************************************************************)
(* What the lines do to the variables: nothing, a value stored in a cell,  *)
(* a new variable, another alias.                                          *)
(***************************************************************************)
FlagStep ==
  \A n \in Declared :
    /\ vars[n].const => vars'[n].const /\ get(n)' = get(n)
    /\ vars[n].lock /\ vars[n].alias = None /\ vars'[n].alias = None => get(n)'.t = get(n).t

MoreVals == \A v : IsVal(v) => IsVal(v)'

LEMMA SameVars ==
  ASSUME VarsInv, FlagsInv, UNCHANGED vars, MoreVals
  PROVE  VarsInv' /\ FlagsInv' /\ CellOf' = CellOf /\ Cells' = Cells /\ FlagStep
<1>1. VarsInv' BY DEF VarsInv, MoreVals, Declared
<1>2. FlagsInv' BY DEF FlagsInv
<1>3. \A n : Pointee(n)' = Pointee(n) /\ get(n)' = get(n) /\ exists(n)' = exists(n) BY DEF Pointee, get, exists
<1>4. CellOf' = CellOf BY <1>3 DEF CellOf
<1>5. Cells' = Cells BY <1>3, <1>4, ReachedIs, ZenonT(30) DEF Cells
<1>6. FlagStep BY <1>3 DEF FlagStep
<1> QED BY <1>1, <1>2, <1>4, <1>5, <1>6

LEMMA VarIn ==
  ASSUME NEW v \in Vals, NEW vconst \in BOOLEAN, NEW vlock \in BOOLEAN,
         NEW alias \in Names \cup {None}, NEW const \in BOOLEAN, NEW lock \in BOOLEAN
  PROVE  Var(v, vconst, vlock, alias, const, lock) \in VarSet
BY DEF Var, VarSet

LEMMA Stored ==
  ASSUME VarsInv, FlagsInv, MoreVals,
         NEW n \in Declared, NEW c, c = Pointee(n), ~vars[c].const,
         NEW v, IsVal(v)', vars[c].lock => v.t = vars[c].val.t,
         NEW lock \in BOOLEAN, lock => vars[c].lock,
         vars' = [vars EXCEPT ![c] = Var(v, FALSE, lock, vars[c].alias, FALSE, vars[c].lock)]
  PROVE  /\ VarsInv' /\ FlagsInv' /\ CellOf' = CellOf /\ FlagStep
         /\ Cells' = [Cells EXCEPT ![c] = [val |-> v, const |-> FALSE, lock |-> vars[c].lock]]
<1>1. c \in Declared /\ c \in DOMAIN vars /\ c # None /\ c # Nobody BY NameFacts DEF Declared
<1>2. DOMAIN vars' = DOMAIN vars /\ Declared' = Declared BY DEF Declared
<1>3. vars'[c] = Var(v, FALSE, lock, vars[c].alias, FALSE, vars[c].lock) BY <1>1
<1>4. vars'[c].val = v /\ vars'[c].alias = vars[c].alias /\ vars'[c].const = FALSE /\ vars'[c].vconst = FALSE
      /\ vars'[c].lock = vars[c].lock /\ vars'[c].vlock = lock
  BY <1>3 DEF Var
<1>5. \A x \in DOMAIN vars : x # c => vars'[x] = vars[x] OBVIOUS
<1>6. \A x \in DOMAIN vars : vars[x] \in VarSet BY DEF VarsInv
<1>7. vars'[c] \in VarSet
  <2>1. vars[c] \in VarSet BY <1>1, <1>6
  <2>2. vars[c].alias \in Names \cup {None} /\ vars[c].lock \in BOOLEAN BY <2>1 DEF VarSet
  <2>3. v \in Vals BY DEF IsVal
  <2> QED BY <1>3, <2>2, <2>3, VarIn
<1>8. VarsInv'
  <2>1. vars' \in [DOMAIN vars -> VarSet] BY <1>5, <1>6, <1>7
  <2>2. ASSUME NEW x \in DOMAIN vars
        PROVE  IsVal(vars[x].val)' /\ vars'[x].alias \in Declared \cup {None}
    <3>1. CASE x = c
      <4>1. IsVal(vars[x].val)' BY <1>4, <3>1 DEF IsVal
      <4> QED BY <1>1, <1>4, <3>1, <4>1 DEF VarsInv
    <3>2. CASE x # c
      <4>1. vars'[x] = vars[x] /\ IsVal(vars[x].val) BY <1>5, <3>2 DEF VarsInv
      <4>2. IsVal(vars[x].val)' BY <4>1 DEF MoreVals, IsVal
      <4> QED BY <4>1, <4>2 DEF VarsInv
    <3> QED BY <3>1, <3>2
  <2> QED BY <1>2, <2>1, <2>2 DEF VarsInv
<1>9. FlagsInv' BY <1>2, <1>4, <1>5 DEF FlagsInv
<1>10. \A x \in DOMAIN vars : vars'[x].alias = vars[x].alias /\ vars'[x].lock = vars[x].lock
                               /\ vars'[x].const = vars[x].const
  BY <1>1, <1>4, <1>5, <1>6 DEF VarSet
<1>11. \A x \in Declared : Pointee(x)' = Pointee(x) BY <1>10 DEF Pointee, Declared
<1>12. CellOf' = CellOf BY <1>2, <1>11 DEF CellOf, Declared
<1>13. Cells' = [Cells EXCEPT ![c] = [val |-> v, const |-> FALSE, lock |-> vars[c].lock]]
  <2>1. \A x : (exists(x)' <=> exists(x)) /\ (Reached(x)' <=> Reached(x))
    BY <1>2, <1>12, ReachedIs DEF exists
  <2>2. exists(c) /\ Reached(c) BY <1>1, NameFacts, CellFacts, ReachedIs
  <2>3. \A x \in Names : x # c => Cells'[x] = Cells[x] BY <1>5, <2>1 DEF Cells, exists, Declared
  <2>4. Cells'[c] = [val |-> v, const |-> FALSE, lock |-> vars[c].lock]
    BY <1>1, <1>4, <2>1, <2>2 DEF Cells, VarsInv
  <2>5. DOMAIN Cells = Names /\ Cells' = [x \in Names |-> Cells'[x]] /\ Cells = [x \in Names |-> Cells[x]]
    BY DEF Cells
  <2> QED BY <2>3, <2>4, <2>5
<1>14. FlagStep
  <2> SUFFICES ASSUME NEW x \in Declared
               PROVE  /\ vars[x].const => vars'[x].const /\ get(x)' = get(x)
                      /\ vars[x].lock /\ vars[x].alias = None /\ vars'[x].alias = None => get(x)'.t = get(x).t
    BY DEF FlagStep
  <2>1. get(x)' = vars'[Pointee(x)].val /\ get(x) = vars[Pointee(x)].val BY <1>11 DEF get
  <2>2. ASSUME vars[x].const PROVE vars'[x].const /\ get(x)' = get(x)
    <3>1. Pointee(x) = x /\ x # c /\ x \in DOMAIN vars BY <2>2, NameFacts DEF FlagsInv, Declared
    <3> QED BY <2>1, <2>2, <3>1, <1>5
  <2>3. ASSUME vars[x].lock, vars[x].alias = None PROVE get(x)'.t = get(x).t
    <3>1. Pointee(x) = x /\ x \in DOMAIN vars BY <2>3, NameFacts DEF Declared
    <3>2. CASE x = c
      <4>1. vars[c].lock /\ vars[c].val.t = v.t BY <2>3, <3>2
      <4>2. get(x)' = v /\ get(x) = vars[c].val BY <2>1, <3>1, <3>2, <1>4
      <4> QED BY <4>1, <4>2
    <3>3. CASE x # c BY <2>1, <3>1, <3>3, <1>5
    <3> QED BY <3>2, <3>3
  <2> QED BY <2>2, <2>3
<1> QED BY <1>8, <1>9, <1>12, <1>13, <1>14

(* A variable put in, with its own value or with an alias.                 *)
LEMMA PutVar ==
  ASSUME VarsInv, FlagsInv, MoreVals, NEW n \in Names, NEW w \in VarSet,
         vars' = Put(vars, n, w), IsVal(w.val)', w.alias \in Declared \cup {None} \cup {n},
         w.vconst = w.const, w.vlock => w.lock, w.const => w.alias = None,
         n \in Declared => w.alias # None /\ ~vars[n].const
  PROVE  /\ VarsInv' /\ FlagsInv' /\ FlagStep /\ Declared' = Declared \cup {n}
         /\ \A x : exists(x)' <=> x \in Declared \cup {n}
         /\ vars'[n] = w /\ \A x \in Declared : x # n => vars'[x] = vars[x]
         /\ \A x \in Declared : x # n => Pointee(x)' = Pointee(x)
         /\ CellOf' = Put(CellOf, n, IF w.alias = None THEN n ELSE w.alias)
<1>1. DOMAIN vars' = DOMAIN vars \cup {n} /\ vars'[n] = w BY DEF Put
<1>2. \A x \in DOMAIN vars : x # n => vars'[x] = vars[x] BY DEF Put
<1>3. n # Nobody /\ n # None BY NameFacts
<1>4. Declared' = Declared \cup {n} BY <1>1, <1>3 DEF Declared
<1>5. VarsInv'
  <2>1. \A x \in DOMAIN vars' : vars'[x] \in VarSet BY <1>1, <1>2 DEF VarsInv
  <2>2. vars' = [x \in DOMAIN vars' |-> vars'[x]] BY <1>1 DEF Put
  <2>3. ASSUME NEW x \in DOMAIN vars'
        PROVE  IsVal(vars[x].val)' /\ vars'[x].alias \in Declared' \cup {None}
    <3>1. CASE x = n BY <1>1, <1>4, <3>1 DEF IsVal
    <3>2. CASE x # n
      <4>1. vars'[x] = vars[x] /\ IsVal(vars[x].val) /\ vars[x].alias \in Declared \cup {None}
        BY <1>1, <1>2, <3>2 DEF VarsInv
      <4>2. IsVal(vars[x].val)' BY <4>1 DEF MoreVals, IsVal
      <4> QED BY <1>4, <4>1, <4>2
    <3> QED BY <3>1, <3>2
  <2>4. vars' \in [DOMAIN vars' -> VarSet] BY <2>1, <2>2
  <2> QED BY <1>1, <1>4, <2>3, <2>4 DEF VarsInv
<1>6. FlagsInv' BY <1>1, <1>2 DEF FlagsInv
<1>7. \A x \in Declared : x # n => Pointee(x)' = Pointee(x)
  <2>1. \A x \in Declared : x # n => vars'[x].alias = vars[x].alias BY <1>2 DEF Declared
  <2> QED BY <2>1 DEF Pointee
<1>8. Pointee(n)' = IF w.alias = None THEN n ELSE w.alias BY <1>1 DEF Pointee
<1>9. CellOf' = Put(CellOf, n, IF w.alias = None THEN n ELSE w.alias)
  <2> DEFINE q == IF w.alias = None THEN n ELSE w.alias
  <2>1. CellOf' = [x \in Declared \cup {n} |-> Pointee(x)'] BY <1>4 DEF CellOf, Declared
  <2>2. DOMAIN CellOf = Declared /\ \A x \in Declared : CellOf[x] = Pointee(x) BY CellFacts
  <2>3. \A x \in Declared \cup {n} : Pointee(x)' = Put(CellOf, n, q)[x] BY <1>7, <1>8, <2>2 DEF Put
  <2>4. Put(CellOf, n, q) = [x \in Declared \cup {n} |-> Put(CellOf, n, q)[x]] BY <2>2 DEF Put
  <2> QED BY <2>1, <2>3, <2>4
<1>10. FlagStep
  <2> SUFFICES ASSUME NEW x \in Declared
               PROVE  /\ vars[x].const => vars'[x].const /\ get(x)' = get(x)
                      /\ vars[x].lock /\ vars[x].alias = None /\ vars'[x].alias = None => get(x)'.t = get(x).t
    BY DEF FlagStep
  <2>1. CASE x = n BY <1>1, <2>1
  <2>2. CASE x # n
    <3>1. vars'[x] = vars[x] /\ Pointee(x)' = Pointee(x) BY <1>2, <1>7, <2>2 DEF Declared
    <3>2. ASSUME vars[x].alias = None PROVE get(x)' = get(x)
      <4>1. Pointee(x) = x BY <3>2, NameFacts
      <4> QED BY <3>1, <4>1 DEF get
    <3>3. vars[x].const => vars[x].alias = None BY DEF FlagsInv, Declared
    <3> QED BY <3>1, <3>2, <3>3
  <2> QED BY <2>1, <2>2
<1>11. \A x : exists(x)' <=> x \in Declared \cup {n} BY <1>4 DEF exists, Declared
<1> QED BY <1>1, <1>2, <1>4, <1>5, <1>6, <1>7, <1>9, <1>10, <1>11 DEF Declared

LEMMA Created ==
  ASSUME VarsInv, FlagsInv, MoreVals, NEW n \in Names \ Declared, NEW v, v \in Vals, IsVal(v)',
         NEW const \in BOOLEAN, NEW lock \in BOOLEAN,
         vars' = Put(vars, n, Var(v, const, lock, None, const, lock))
  PROVE  /\ VarsInv' /\ FlagsInv' /\ FlagStep
         /\ CellOf' = Put(CellOf, n, n)
         /\ Cells' = [Cells EXCEPT ![n] = [val |-> v, const |-> const, lock |-> lock]]
<1> DEFINE w == Var(v, const, lock, None, const, lock)
<1>1. w \in VarSet BY VarIn
<1>2. w.val = v /\ w.vconst = const /\ w.vlock = lock /\ w.alias = None /\ w.const = const /\ w.lock = lock
  BY DEF Var
<1> HIDE DEF w
<1>3. IsVal(w.val)' BY <1>2 DEF IsVal
<1>4. /\ VarsInv' /\ FlagsInv' /\ FlagStep /\ CellOf' = Put(CellOf, n, n)
      /\ \A x : exists(x)' <=> x \in Declared \cup {n}
      /\ vars'[n] = w /\ \A x \in Declared : x # n => vars'[x] = vars[x]
  BY <1>1, <1>2, <1>3, PutVar DEF w
<1>5. \A x : Reached(x)' <=> Reached(x) \/ x = n
  <2>1. DOMAIN CellOf = Declared BY CellFacts
  <2> QED BY <1>4, <2>1, ReachedIs DEF Put
<1>6. ASSUME NEW c \in Names, c # n PROVE Cells'[c] = Cells[c]
  BY <1>4, <1>5, <1>6, NameFacts DEF Cells
<1>7. Cells'[n] = [val |-> v, const |-> const, lock |-> lock] BY <1>2, <1>4, <1>5 DEF Cells
<1>8. DOMAIN Cells = Names /\ Cells' = [x \in Names |-> Cells'[x]] /\ Cells = [x \in Names |-> Cells[x]]
  BY DEF Cells
<1>9. Cells' = [Cells EXCEPT ![n] = [val |-> v, const |-> const, lock |-> lock]] BY <1>6, <1>7, <1>8
<1> QED BY <1>4, <1>9

(* A name made an alias: it keeps its cell for others, or had none.        *)
LEMMA Linked ==
  ASSUME VarsInv, FlagsInv, MoreVals, NEW n \in Names, NEW m \in Declared,
         n \in Declared => ~vars[n].const,
         NEW w \in VarSet, w.alias = Pointee(m), w.vconst = w.const, w.vlock => w.lock, ~w.const,
         IsVal(w.val)', vars' = Put(vars, n, w),
         \/ n \in Declared /\ w.val = vars[n].val /\ w.const = vars[n].const /\ w.lock = vars[n].lock
         \/ n # m /\ \A x \in Declared : vars[x].alias # n
  PROVE  /\ VarsInv' /\ FlagsInv' /\ FlagStep
         /\ CellOf' = Put(CellOf, n, CellOf[m])
         /\ Cells' = [c \in Names |-> IF \E k \in DOMAIN CellOf' : CellOf'[k] = c THEN Cells[c]
                                      ELSE [val |-> NoType, const |-> FALSE, lock |-> FALSE]]
<1> DEFINE q == Pointee(m)
<1>1. q \in Declared /\ q # None BY NameFacts DEF Declared
<1>2. /\ VarsInv' /\ FlagsInv' /\ FlagStep
      /\ \A x : exists(x)' <=> x \in Declared \cup {n}
      /\ vars'[n] = w /\ \A x \in Declared : x # n => vars'[x] = vars[x]
      /\ CellOf' = Put(CellOf, n, IF w.alias = None THEN n ELSE w.alias)
  <2>1. w.alias \in Declared \cup {None} \cup {n} /\ w.alias # None BY <1>1
  <2> QED BY <2>1, PutVar
<1>3. DOMAIN CellOf = Declared /\ \A x \in Declared : CellOf[x] = Pointee(x) BY CellFacts
<1>4. CellOf' = Put(CellOf, n, q) /\ CellOf[m] = q BY <1>1, <1>2, <1>3
<1> HIDE DEF q
<1>5. DOMAIN CellOf' = Declared \cup {n} /\ CellOf'[n] = q /\ \A x \in Declared : x # n => CellOf'[x] = CellOf[x]
  BY <1>3, <1>4 DEF Put
<1>6. ASSUME NEW c \in Names, NEW k \in DOMAIN CellOf', CellOf'[k] = c PROVE Cells'[c] = Cells[c]
  <2>1. c \in Declared
    <3>1. \A x \in Declared : CellOf[x] \in Declared BY <1>3, NameFacts
    <3> QED BY <1>1, <1>5, <1>6, <3>1
  <2>2. Reached(c) BY <1>3, <1>4, <1>5, <1>6, ReachedIs
  <2>3. Reached(c)' BY <1>6, ReachedIs
  <2>4. exists(c) /\ exists(c)' BY <1>2, <2>1, NameFacts
  <2>5. vars'[c].val = vars[c].val /\ vars'[c].const = vars[c].const /\ vars'[c].lock = vars[c].lock
    <3>1. CASE c # n BY <1>2, <2>1, <3>1
    <3>2. CASE c = n /\ w.val = vars[n].val /\ w.const = vars[n].const /\ w.lock = vars[n].lock
      BY <1>2, <3>2
    <3>3. CASE c = n /\ n # m /\ \A x \in Declared : vars[x].alias # n
      <4>1. \A x \in Declared : x # n => Pointee(x) # n BY <3>3 DEF Pointee
      <4>2. q # n BY <3>3, <4>1 DEF q
      <4>3. \A x \in Declared : x # n => CellOf[x] # n BY <1>3, <4>1
      <4> QED BY <1>5, <1>6, <3>3, <4>2, <4>3
    <3> QED BY <2>1, <3>1, <3>2, <3>3
  <2> QED BY <2>2, <2>3, <2>4, <2>5 DEF Cells
<1>7. ASSUME NEW c \in Names, ~ \E k \in DOMAIN CellOf' : CellOf'[k] = c
      PROVE  Cells'[c] = [val |-> NoType, const |-> FALSE, lock |-> FALSE]
  BY <1>7, ReachedIs DEF Cells
<1>8. Cells' = [c \in Names |-> Cells'[c]] BY DEF Cells
<1>9. Cells' = [c \in Names |-> IF \E k \in DOMAIN CellOf' : CellOf'[k] = c THEN Cells[c]
                                ELSE [val |-> NoType, const |-> FALSE, lock |-> FALSE]]
  BY <1>6, <1>7, <1>8
<1> QED BY <1>2, <1>4, <1>9

(***************************************************************************)
(* The lines that define and assign.                                       *)
(***************************************************************************)
Effects == VarsInv' /\ FlagsInv' /\ FlagStep

LEMMA DeclaredIs ==
  ASSUME VarsInv
  PROVE  /\ \A n : Promise!Declared(n) <=> n \in Declared
         /\ \A n \in Declared : Promise!Content(n) = get(n)
         /\ \A n : n \notin Declared => Promise!Content(n) = NoType
         /\ \A n \in Declared : \A v : Promise!Refuses(CellOf[n], v) <=>
              vars[Pointee(n)].const \/ (vars[Pointee(n)].lock /\ get(n).t # v.t)
BY CellFacts, Words DEF Promise!Declared, Promise!Content, Promise!Refuses

LEMMA Refused ==
  ASSUME VarsInv, FlagsInv, UNCHANGED <<vars, overloads>>,
         outcome' \in {Error("ConstError"), Error("TypeError"), Error("NameError"), Error("RuntimeError"),
                       Error("ArgumentError")}
  PROVE  Effects /\ Promise!Refuse
<1>1. MoreVals BY DEF MoreVals, IsVal
<1>2. Effects /\ CellOf' = CellOf /\ Cells' = Cells BY <1>1, SameVars DEF Effects
<1>3. Sets' = Sets BY DEF Sets
<1> QED BY <1>2, <1>3, Words DEF Promise!Refuse

(* A value stored, as the abstract module has it.                          *)
LEMMA StoredChange ==
  ASSUME VarsInv, FlagsInv, UNCHANGED overloads, outcome' = Done,
         NEW n \in Declared, ~vars[Pointee(n)].const,
         NEW v, IsVal(v), vars[Pointee(n)].lock => v.t = get(n).t,
         NEW vlock \in BOOLEAN, vlock => vars[Pointee(n)].lock,
         vars' = [vars EXCEPT ![Pointee(n)] =
                   Var(v, FALSE, vlock, vars[Pointee(n)].alias, FALSE, vars[Pointee(n)].lock)],
         NEW const \in BOOLEAN, ~const, NEW lock \in BOOLEAN, lock => vars[Pointee(n)].lock
  PROVE  Effects /\ Promise!Change(n, v, const, lock)
<1> DEFINE c == Pointee(n)
<1>1. MoreVals BY DEF MoreVals, IsVal
<1>2. IsVal(v)' BY DEF IsVal
<1>3. vars[c].lock => v.t = vars[c].val.t BY DEF get
<1>4. Effects /\ CellOf' = CellOf
      /\ Cells' = [Cells EXCEPT ![c] = [val |-> v, const |-> FALSE, lock |-> vars[c].lock]]
  BY <1>1, <1>2, <1>3, Stored DEF Effects
<1>5. CellOf[n] = c /\ Cells[c].lock = vars[c].lock BY CellFacts
<1>6. ~Promise!Refuses(c, v) BY <1>5, DeclaredIs
<1>7. vars[c].lock \in BOOLEAN BY NameFacts DEF VarsInv, VarSet, Declared
<1>8. Sets' = Sets BY DEF Sets
<1>9. [val |-> v, const |-> FALSE, lock |-> vars[c].lock] = Promise!Cell(v, const, Cells[c].lock \/ lock)
  <2>1. const = FALSE OBVIOUS
  <2> QED BY <1>5, <1>7 DEF Promise!Cell
<1> QED BY <1>4, <1>5, <1>6, <1>8, <1>9, Words DEF Promise!Change

LEMMA SetStep ==
  ASSUME VarsInv, FlagsInv, NEW n \in Names, NEW v, IsVal(v), NEW const \in BOOLEAN, NEW lock \in BOOLEAN,
         n \in Declared => /\ vars[n].alias = None
                           /\ const => vars[n].const
                           /\ lock => vars[n].lock,
         Set(n, v, const, lock)
  PROVE  Effects /\ Promise!Let(n, v, const, lock) /\ UNCHANGED <<overloads, memo>>
<1>1. n \in Declared => Pointee(n) = n /\ CellOf[n] = n /\ vars[n] \in VarSet /\ get(n) = vars[n].val
  BY NameFacts, CellFacts DEF VarsInv, Declared, get
<1>2. CASE SetError(n, v) # None
  <2>1. SetError(n, v) = "RuntimeError" /\ n \in Declared
        /\ (vars[n].const \/ (vars[n].lock /\ vars[n].val.t # v.t))
    BY <1>2, NameFacts DEF SetError, None
  <2>2. outcome' = Error("RuntimeError") /\ UNCHANGED <<vars, overloads, memo>> BY <1>2, <2>1 DEF Set, Fails
  <2>3. Effects /\ Promise!Refuse BY <2>2, Refused
  <2>4. Promise!Refuses(CellOf[n], v) BY <1>1, <2>1, DeclaredIs
  <2>5. Promise!Change(n, v, const, lock) BY <2>3, <2>4 DEF Promise!Change
  <2> QED BY <2>1, <2>2, <2>3, <2>5, DeclaredIs DEF Promise!Let
<1>3. CASE SetError(n, v) = None
  <2>1. vars' = SetTo(n, v, const, lock) /\ outcome' = Done /\ UNCHANGED <<overloads, memo>>
    BY <1>3 DEF Set
  <2>2. MoreVals BY <2>1 DEF MoreVals, IsVal
  <2>3. Sets' = Sets BY <2>1 DEF Sets
  <2>4. CASE n \notin Declared
    <3>1. vars' = Put(vars, n, Var(v, const, lock, None, const, lock)) BY <2>1, <2>4, NameFacts DEF SetTo
    <3>2. IsVal(v)' /\ v \in Vals BY <2>1 DEF IsVal
    <3>3. Effects /\ CellOf' = Put(CellOf, n, n)
          /\ Cells' = [Cells EXCEPT ![n] = [val |-> v, const |-> const, lock |-> lock]]
      BY <2>2, <2>4, <3>1, <3>2, Created DEF Effects
    <3>4. Promise!Create(n, v, const, lock)
      BY <2>1, <2>3, <3>3, Words DEF Promise!Create, Promise!Put, Put, Promise!Cell
    <3> QED BY <2>1, <2>4, <3>3, <3>4, DeclaredIs DEF Promise!Let
  <2>5. CASE n \in Declared /\ vars[n].const
    <3>1. UNCHANGED vars BY <2>1, <2>5, NameFacts DEF SetTo
    <3>2. Effects /\ CellOf' = CellOf /\ Cells' = Cells BY <2>2, <3>1, SameVars DEF Effects
    <3>3. Cells[CellOf[n]].const BY <1>1, <2>5, CellFacts
    <3>4. Promise!Change(n, v, const, lock) BY <2>1, <2>3, <3>2, <3>3, Words DEF Promise!Change
    <3> QED BY <2>1, <2>5, <3>2, <3>4, DeclaredIs DEF Promise!Let
  <2>6. CASE n \in Declared /\ ~vars[n].const
    <3>1. vars[n].lock => vars[n].val.t = v.t BY <1>3, <2>6, NameFacts DEF SetError, None
    <3>2. vars' = [vars EXCEPT ![n] = Var(v, FALSE, FALSE, vars[n].alias, vars[n].const, vars[n].lock)]
      BY <2>1, <2>6, NameFacts DEF SetTo, Store
    <3>3. vars[n].const = FALSE BY <1>1, <2>6 DEF VarSet
    <3>4. ~const /\ (lock => vars[n].lock) BY <2>6
    <3>5. Pointee(n) = n /\ get(n) = vars[n].val BY <1>1, <2>6
    <3>6. vars' = [vars EXCEPT ![Pointee(n)] =
                    Var(v, FALSE, FALSE, vars[Pointee(n)].alias, FALSE, vars[Pointee(n)].lock)]
      BY <3>2, <3>3, <3>5
    <3>7. ~vars[Pointee(n)].const /\ (vars[Pointee(n)].lock => v.t = get(n).t)
          /\ (lock => vars[Pointee(n)].lock)
      BY <2>6, <3>1, <3>4, <3>5
    <3>8. Effects /\ Promise!Change(n, v, const, lock)
      BY <2>1, <2>6, <3>4, <3>6, <3>7, StoredChange
    <3> QED BY <2>1, <2>6, <3>8, DeclaredIs DEF Promise!Let
  <2> QED BY <2>4, <2>5, <2>6
<1> QED BY <1>2, <1>3

LEMMA DefineVarStep ==
  ASSUME VarsInv, FlagsInv, NEW n \in Names, NEW v, IsVal(v), NEW const \in BOOLEAN, NEW lock \in BOOLEAN,
         n \in Declared => /\ vars[n].alias = None
                           /\ const => vars[n].const
                           /\ lock => vars[n].lock,
         DefineVar(n, v, const, lock)
  PROVE  Effects /\ Promise!Let(n, v, const, lock) /\ UNCHANGED <<overloads, memo>>
<1>1. CASE ~Identical(n, v) BY <1>1, SetStep DEF DefineVar
<1>2. CASE Identical(n, v)
  <2>1. n \in Declared /\ get(n) = v BY <1>2, NameFacts DEF Identical
  <2>2. Pointee(n) = n /\ CellOf[n] = n /\ vars[n] \in VarSet /\ n \in DOMAIN vars /\ vars[n].val = v
    BY <2>1, NameFacts, CellFacts DEF VarsInv, Declared, get
  <2>3. outcome' = Done /\ UNCHANGED <<vars, overloads, memo>> BY <1>2 DEF DefineVar
  <2>4. CASE vars[n].const
    <3>1. MoreVals BY <2>3 DEF MoreVals, IsVal
    <3>2. Effects /\ CellOf' = CellOf /\ Cells' = Cells BY <2>3, <3>1, SameVars DEF Effects
    <3>3. Sets' = Sets BY <2>3 DEF Sets
    <3>4. Cells[CellOf[n]].const BY <2>1, <2>2, <2>4, CellFacts
    <3>5. Promise!Change(n, v, const, lock) BY <2>3, <3>2, <3>3, <3>4, Words DEF Promise!Change
    <3> QED BY <2>1, <2>3, <3>2, <3>5, DeclaredIs DEF Promise!Let
  <2>5. CASE ~vars[n].const
    <3>1. vars[n].const = FALSE /\ vars[n].vconst = FALSE BY <2>2, <2>5 DEF VarSet, FlagsInv
    <3>2. vars[n] = Var(v, FALSE, vars[n].vlock, vars[n].alias, FALSE, vars[n].lock)
      BY <2>2, <3>1 DEF VarSet, Var
    <3>3. vars' = [vars EXCEPT ![Pointee(n)] =
                    Var(v, FALSE, vars[n].vlock, vars[Pointee(n)].alias, FALSE, vars[Pointee(n)].lock)]
      BY <2>2, <2>3, <3>2 DEF VarsInv
    <3>4. vars[n].vlock \in BOOLEAN /\ (vars[n].vlock => vars[n].lock) BY <2>2 DEF VarSet, FlagsInv
    <3>5. ~vars[Pointee(n)].const /\ (vars[Pointee(n)].lock => v.t = get(n).t)
          /\ (lock => vars[Pointee(n)].lock) /\ (vars[n].vlock => vars[Pointee(n)].lock) /\ ~const
      BY <2>1, <2>2, <2>5, <3>4
    <3>6. Effects /\ Promise!Change(n, v, const, lock)
      BY <2>1, <2>3, <3>3, <3>4, <3>5, StoredChange, ZenonT(30)
    <3> QED BY <2>1, <2>3, <3>6, DeclaredIs DEF Promise!Let
  <2> QED BY <2>4, <2>5
<1> QED BY <1>1, <1>2

LEMMA Revalued ==
  ASSUME NEW r \in VarSet, NEW v, r.vconst = FALSE, r.const = FALSE
  PROVE  [r EXCEPT !.val = v] = Var(v, FALSE, r.vlock, r.alias, FALSE, r.lock)
<1> DEFINE s == [r EXCEPT !.val = v]
<1>1. DOMAIN r = {"val", "vconst", "vlock", "alias", "const", "lock"} BY DEF VarSet
<1>2. s = [x \in DOMAIN r |-> IF x = "val" THEN v ELSE r[x]] BY <1>1
<1>3. s.val = v /\ s.vconst = r.vconst /\ s.vlock = r.vlock /\ s.alias = r.alias /\ s.const = r.const
      /\ s.lock = r.lock
  BY <1>1, <1>2
<1>4. DOMAIN s = {"val", "vconst", "vlock", "alias", "const", "lock"} BY <1>1
<1>5. s = [x \in {"val", "vconst", "vlock", "alias", "const", "lock"} |-> s[x]] BY <1>1, <1>2
<1> HIDE DEF s
<1>6. s = [val |-> s.val, vconst |-> s.vconst, vlock |-> s.vlock, alias |-> s.alias, const |-> s.const,
           lock |-> s.lock]
  BY <1>4, <1>5
<1> QED BY <1>3, <1>6 DEF Var, s

LEMMA SetVarStep ==
  ASSUME VarsInv, FlagsInv, NEW n \in Names, NEW v, IsVal(v), SetVar(n, v),
         n \in Declared /\ vars[n].alias # None =>
           (vars[vars[n].alias].lock => vars[vars[n].alias].vlock)
  PROVE  Effects /\ Promise!Assign(n, v) /\ UNCHANGED <<overloads, memo>>
<1>1. CASE n \notin Declared
  <2>1. outcome' = Error("NameError") /\ UNCHANGED <<vars, overloads, memo>>
    BY <1>1, NameFacts DEF SetVar, Fails
  <2>2. Effects /\ Promise!Refuse BY <2>1, Refused
  <2> QED BY <1>1, <2>1, <2>2, DeclaredIs DEF Promise!Assign
<1>2. CASE n \in Declared
  <2> DEFINE c == Pointee(n)
  <2>1. c \in Declared /\ CellOf[n] = c /\ vars[c] \in VarSet /\ c \in DOMAIN vars /\ get(n) = vars[c].val
        /\ n \in DOMAIN vars
    BY <1>2, NameFacts, CellFacts DEF VarsInv, Declared, get
  <2>2. c = IF vars[n].alias = None THEN n ELSE vars[n].alias BY DEF Pointee
  <2>3. IF vars[n].alias = None THEN AssignName(n, v) ELSE AssignTarget(vars[n].alias, v)
    BY <1>2, NameFacts DEF SetVar
  <2>4. CASE vars[c].const \/ (vars[c].lock /\ get(n).t # v.t)
    <3>1. outcome' \in {Error("ConstError"), Error("TypeError")} /\ UNCHANGED <<vars, overloads, memo>>
      <4>1. CASE vars[n].alias = None BY <2>1, <2>2, <2>3, <2>4, <4>1 DEF AssignName, Fails
      <4>2. CASE vars[n].alias # None
        <5>1. vars[c].vconst = vars[c].const /\ (vars[c].lock => vars[c].vlock)
          BY <1>2, <2>1, <2>2, <4>2 DEF FlagsInv
        <5> QED BY <2>1, <2>2, <2>3, <2>4, <4>2, <5>1 DEF AssignTarget, Fails
      <4> QED BY <4>1, <4>2
    <3>2. Effects /\ Promise!Refuse BY <3>1, Refused
    <3>3. Promise!Refuses(CellOf[n], v) BY <1>2, <2>4, DeclaredIs
    <3>4. Promise!Change(n, v, FALSE, FALSE) BY <3>2, <3>3 DEF Promise!Change
    <3> QED BY <1>2, <3>1, <3>2, <3>4, DeclaredIs DEF Promise!Assign
  <2>5. CASE ~vars[c].const /\ ~(vars[c].lock /\ get(n).t # v.t)
    <3>1. vars[c].const = FALSE /\ vars[c].vconst = FALSE /\ (vars[c].vlock => vars[c].lock)
      BY <2>1, <2>5 DEF VarSet, FlagsInv
    <3>2. \E lock \in BOOLEAN :
            /\ lock => vars[c].lock
            /\ vars' = [vars EXCEPT ![c] = Var(v, FALSE, lock, vars[c].alias, FALSE, vars[c].lock)]
            /\ outcome' = Done /\ UNCHANGED <<overloads, memo>>
      <4>1. CASE vars[n].alias = None
        <5>1. vars' = Store(n, v) /\ outcome' = Done /\ UNCHANGED <<overloads, memo>>
          BY <2>1, <2>2, <2>3, <2>5, <4>1 DEF AssignName
        <5>2. vars' = [vars EXCEPT ![c] = Var(v, FALSE, FALSE, vars[c].alias, FALSE, vars[c].lock)]
          BY <2>2, <3>1, <4>1, <5>1 DEF Store
        <5> QED BY <5>1, <5>2
      <4>2. CASE vars[n].alias # None
        <5>1. vars' = [vars EXCEPT ![c].val = v] /\ outcome' = Done /\ UNCHANGED <<overloads, memo>>
          BY <2>1, <2>2, <2>3, <2>5, <3>1, <4>2 DEF AssignTarget
        <5>2. [vars[c] EXCEPT !.val = v] = Var(v, FALSE, vars[c].vlock, vars[c].alias, FALSE, vars[c].lock)
          BY <2>1, <3>1, Revalued
        <5>3. vars[c].vlock \in BOOLEAN BY <2>1 DEF VarSet
        <5> HIDE DEF c
        <5>4. vars' = [vars EXCEPT ![c] = Var(v, FALSE, vars[c].vlock, vars[c].alias, FALSE, vars[c].lock)]
          BY <5>1, <5>2
        <5> QED BY <3>1, <5>1, <5>3, <5>4
      <4> QED BY <4>1, <4>2
    <3>3. PICK lock \in BOOLEAN :
            /\ lock => vars[c].lock
            /\ vars' = [vars EXCEPT ![c] = Var(v, FALSE, lock, vars[c].alias, FALSE, vars[c].lock)]
            /\ outcome' = Done /\ UNCHANGED <<overloads, memo>>
      BY <3>2
    <3>4. vars[c].lock => v.t = get(n).t BY <2>5
    <3>5. Effects /\ Promise!Change(n, v, FALSE, FALSE) BY <1>2, <2>5, <3>3, <3>4, StoredChange
    <3> QED BY <1>2, <3>3, <3>5, DeclaredIs DEF Promise!Assign
  <2> QED BY <2>4, <2>5
<1> QED BY <1>1, <1>2

(***************************************************************************)
(* The lines that make references.                                         *)
(***************************************************************************)
LEMMA Referred ==
  ASSUME VarsInv, NEW n \in Names, NEW m \in Declared, n \in Declared => ~vars[n].const,
         outcome' = Done, UNCHANGED overloads,
         CellOf' = Put(CellOf, n, CellOf[m]),
         Cells' = [c \in Names |-> IF \E k \in DOMAIN CellOf' : CellOf'[k] = c THEN Cells[c]
                                   ELSE [val |-> NoType, const |-> FALSE, lock |-> FALSE]]
  PROVE  Promise!Refer(n, m)
<1>1. ~(~Promise!Declared(m) \/ (Promise!Declared(n) /\ CellOf[n] = n /\ Cells[n].const))
  <2>1. n \in Declared /\ CellOf[n] = n => Cells[n].const = vars[n].const BY CellFacts
  <2> QED BY <2>1, DeclaredIs
<1>2. Sets' = Sets BY DEF Sets
<1>3. Promise!Put(CellOf, n, CellOf[m]) = Put(CellOf, n, CellOf[m]) BY DEF Promise!Put, Put
<1>4. Promise!Blank = [val |-> NoType, const |-> FALSE, lock |-> FALSE]
  BY Words DEF Promise!Blank, Promise!Cell
<1> QED BY <1>1, <1>2, <1>3, <1>4, Words DEF Promise!Refer

LEMMA DefineRefStep ==
  ASSUME VarsInv, FlagsInv, NEW n \in Names, NEW m \in Declared,
         n \in Declared => ~vars[n].const /\ ~IsTarget(n) /\ n # m, DefineRef(n, m)
  PROVE  Effects /\ Promise!Refer(n, m) /\ UNCHANGED <<overloads, memo>>
<1>0. PICK w : w = Alias(Pointee(m)) OBVIOUS
<1>1. lookup(m) = m /\ Pointee(m) \in Names BY NameFacts DEF VarsInv
<1>2. vars' = Put(vars, n, w) /\ outcome' = Done /\ UNCHANGED <<overloads, memo>> BY <1>0, <1>1 DEF DefineRef
<1>3. NoType \in Vals /\ NoType.t = "notype" BY DEF NoType, Value, Vals
<1>4. w \in VarSet BY <1>0, <1>1, <1>3, VarIn DEF Alias
<1>5. w.val = NoType /\ w.alias = Pointee(m) /\ w.vconst = FALSE /\ w.const = FALSE /\ w.vlock = FALSE
      /\ w.lock = FALSE
  BY <1>0 DEF Alias, Var
<1>6. IsVal(w.val)' BY <1>3, <1>5 DEF IsVal
<1>7. MoreVals BY <1>2 DEF MoreVals, IsVal
<1>8. n # m /\ \A x \in Declared : vars[x].alias # n
  <2>1. CASE n \in Declared BY <2>1 DEF IsTarget, Declared
  <2>2. CASE n \notin Declared BY <2>2, NameFacts DEF VarsInv, Declared
  <2> QED BY <2>1, <2>2
<1>9. /\ Effects /\ CellOf' = Put(CellOf, n, CellOf[m])
      /\ Cells' = [c \in Names |-> IF \E k \in DOMAIN CellOf' : CellOf'[k] = c THEN Cells[c]
                                   ELSE [val |-> NoType, const |-> FALSE, lock |-> FALSE]]
  BY <1>2, <1>4, <1>5, <1>6, <1>7, <1>8, Linked DEF Effects
<1> QED BY <1>2, <1>9, Referred

LEMMA SetRefStep ==
  ASSUME VarsInv, FlagsInv, NEW n \in Names, NEW m \in Declared, n \in Declared => ~vars[n].const, SetRef(n, m)
  PROVE  /\ Effects /\ UNCHANGED <<overloads, memo>>
         /\ IF n \in Declared THEN Promise!Refer(n, m) ELSE Promise!Refuse
<1>1. CASE n \notin Declared
  <2>1. outcome' = Error("NameError") /\ UNCHANGED <<vars, overloads, memo>>
    BY <1>1, NameFacts DEF SetRef, Fails
  <2> QED BY <1>1, <2>1, Refused
<1>2. CASE n \in Declared
  <2>0. PICK q, r, w : q = Pointee(m) /\ r = vars[n] /\ w = [r EXCEPT !.alias = q] OBVIOUS
  <2>1. lookup(m) = m /\ q \in Names BY <2>0, NameFacts DEF VarsInv
  <2>2. vars' = [vars EXCEPT ![n].alias = q] /\ outcome' = Done /\ UNCHANGED <<overloads, memo>>
    BY <1>2, <2>0, <2>1, NameFacts DEF SetRef
  <2>3. n \in DOMAIN vars /\ r \in VarSet /\ IsVal(r.val) BY <1>2, <2>0 DEF VarsInv, Declared
  <2>4. vars' = Put(vars, n, w) BY <2>0, <2>2, <2>3 DEF Put
  <2>5. w \in VarSet BY <2>0, <2>1, <2>3 DEF VarSet
  <2>6. w.alias = q /\ w.val = r.val /\ w.vconst = r.vconst /\ w.const = r.const /\ w.vlock = r.vlock
        /\ w.lock = r.lock
    BY <2>0, <2>3 DEF VarSet
  <2>7. ~w.const /\ w.vconst = w.const /\ (w.vlock => w.lock)
    BY <1>2, <2>0, <2>3, <2>6 DEF FlagsInv
  <2>8. IsVal(w.val)' BY <2>2, <2>3, <2>6 DEF IsVal
  <2>9. MoreVals BY <2>2 DEF MoreVals, IsVal
  <2>10. w.val = vars[n].val /\ w.const = vars[n].const /\ w.lock = vars[n].lock BY <2>0, <2>6
  <2>11. w.alias = Pointee(m) BY <2>0, <2>6
  <2>12. /\ Effects /\ CellOf' = Put(CellOf, n, CellOf[m])
         /\ Cells' = [c \in Names |-> IF \E k \in DOMAIN CellOf' : CellOf'[k] = c THEN Cells[c]
                                      ELSE [val |-> NoType, const |-> FALSE, lock |-> FALSE]]
    BY <1>2, <2>4, <2>5, <2>7, <2>8, <2>9, <2>10, <2>11, Linked DEF Effects
  <2>13. Promise!Refer(n, m) BY <2>2, <2>12, Referred
  <2> QED BY <1>2, <2>2, <2>12, <2>13
<1> QED BY <1>1, <1>2

(***************************************************************************)
(* The lines that define functions.                                        *)
(***************************************************************************)
LEMMA SetsFacts ==
  ASSUME OverloadsInv
  PROVE  /\ Sets \in Seq(Seq(Funcs)) /\ Len(Sets) = Len(overloads) /\ Len(overloads) \in Nat
         /\ DOMAIN overloads = 1..Len(overloads)
         /\ \A i \in DOMAIN overloads : /\ Sets[i] = overloads[i].cands /\ overloads[i] \in OverloadSet
                                        /\ overloads[i].cands \in Seq(Funcs) /\ overloads[i].cache \in Caches
<1>1. Len(overloads) \in Nat /\ DOMAIN overloads = 1..Len(overloads)
      /\ \A i \in DOMAIN overloads : overloads[i] \in OverloadSet
  BY DEF OverloadsInv
<1>2. \A i \in DOMAIN overloads : overloads[i].cands \in Seq(Funcs) /\ overloads[i].cache \in Caches
  BY <1>1 DEF OverloadSet
<1>3. Sets = [i \in 1..Len(overloads) |-> overloads[i].cands] BY <1>1 DEF Sets
<1> QED BY <1>1, <1>2, <1>3

LEMMA NoCache == <<>> \in Caches /\ DOMAIN <<>> = {}
<1>1. <<>> \in [{} -> Funcs] OBVIOUS
<1>2. {} \in SUBSET Seq(ArgTypes) OBVIOUS
<1> QED BY <1>1, <1>2 DEF Caches

LEMMA NewOverloadStep ==
  ASSUME VarsInv, FlagsInv, OverloadsInv, NEW n \in Declared, vars[n].alias = None, get(n).t = "function",
         NEW f \in Funcs, NewOverload(n, f)
  PROVE  Effects /\ OverloadsInv' /\ UNCHANGED memo /\ Promise!Declare(n, f)
<1>0. PICK v : v = OverloadRef(Len(overloads) + 1) OBVIOUS
<1>1. v.t = "overload" /\ v.n = Len(overloads) + 1 /\ v.f = "none" /\ v \in Vals
  BY <1>0, SetsFacts DEF OverloadRef, Value, Vals
<1>2. Pointee(n) = n /\ CellOf[n] = n /\ n \in Names /\ n \in DOMAIN vars /\ vars[n] \in VarSet
      /\ get(n) = vars[n].val /\ get(n).f \in Funcs
  BY NameFacts, CellFacts DEF VarsInv, Declared, get, IsVal
<1>3. v = Promise!OverloadRef(Len(Sets) + 1) BY <1>0, SetsFacts, Words
<1>4. CASE SetError(n, v) # None
  <2>1. SetError(n, v) = "RuntimeError" /\ (vars[n].const \/ vars[n].lock)
    BY <1>4 DEF SetError, None
  <2>2. outcome' = Error("RuntimeError") /\ UNCHANGED <<vars, overloads, memo>>
    BY <1>0, <1>4, <2>1 DEF NewOverload, Fails
  <2>3. Effects /\ Promise!Refuse BY <2>2, Refused
  <2>4. Promise!Refuses(CellOf[n], v) BY <1>1, <1>2, <2>1, DeclaredIs
  <2>5. OverloadsInv' BY <2>2 DEF OverloadsInv, CacheCurrent
  <2>6. Promise!Content(n).t = "function" BY DeclaredIs
  <2>7. Promise!Declare(n, f) BY <1>3, <2>3, <2>4, <2>6 DEF Promise!Declare
  <2> QED BY <2>2, <2>3, <2>5, <2>7
<1>5. CASE SetError(n, v) = None
  <2>1. ~vars[n].const /\ ~vars[n].lock
    BY <1>1, <1>2, <1>5, NameFacts DEF SetError, None
  <2> DEFINE o == [cands |-> <<get(n).f, f>>, cache |-> <<>>]
  <2>2. vars' = SetTo(n, v, FALSE, FALSE) /\ overloads' = Append(overloads, o) /\ outcome' = Done
        /\ UNCHANGED memo
    BY <1>0, <1>5 DEF NewOverload
  <2>3. vars' = Store(n, v) BY <2>1, <2>2, NameFacts DEF SetTo
  <2>4. overloads \in Seq(OverloadSet) BY DEF OverloadsInv
  <2>5. o \in OverloadSet /\ o.cands = <<get(n).f, f>> /\ DOMAIN o.cache = {}
    BY <1>2, NoCache DEF OverloadSet
  <2> HIDE DEF o
  <2>6. /\ overloads' \in Seq(OverloadSet) /\ Len(overloads') = Len(overloads) + 1
        /\ DOMAIN overloads' = 1..Len(overloads) + 1
        /\ overloads'[Len(overloads) + 1] = o
        /\ \A i \in 1..Len(overloads) : overloads'[i] = overloads[i]
    BY <2>2, <2>4, <2>5
  <2>7. DOMAIN overloads = 1..Len(overloads) /\ Len(overloads) \in Nat BY SetsFacts
  <2>8. MoreVals BY <2>6, <2>7 DEF MoreVals, IsVal
  <2>9. IsVal(v)' BY <1>1, <2>6, <2>7 DEF IsVal
  <2>10. vars' = [vars EXCEPT ![n] = Var(v, FALSE, FALSE, vars[n].alias, FALSE, vars[n].lock)]
    <3>1. vars[n].const = FALSE BY <1>2, <2>1 DEF VarSet
    <3> QED BY <2>3, <3>1 DEF Store
  <2>11. Effects /\ CellOf' = CellOf
         /\ Cells' = [Cells EXCEPT ![n] = [val |-> v, const |-> FALSE, lock |-> vars[n].lock]]
    BY <1>2, <2>1, <2>8, <2>9, <2>10, Stored DEF Effects
  <2>12. OverloadsInv'
    <3>1. CacheCurrent'
      <4> SUFFICES ASSUME NEW i \in DOMAIN overloads', NEW ts \in DOMAIN overloads'[i].cache
                   PROVE  overloads'[i].cache[ts] = Resolve(overloads'[i].cands, ts)
        BY DEF CacheCurrent
      <4>1. i # Len(overloads) + 1 BY <2>5, <2>6
      <4>2. i \in DOMAIN overloads /\ overloads'[i] = overloads[i] BY <2>6, <2>7, <4>1
      <4> QED BY <4>2 DEF OverloadsInv, CacheCurrent
    <3> QED BY <2>6, <3>1 DEF OverloadsInv
  <2>13. Sets' = Append(Sets, <<get(n).f, f>>)
    <3>1. Len(Sets) = Len(overloads) /\ Sets \in Seq(Seq(Funcs))
          /\ \A i \in 1..Len(overloads) : Sets[i] = overloads[i].cands
      BY <2>7, SetsFacts
    <3>2. Sets' = [i \in 1..Len(overloads) + 1 |-> overloads'[i].cands] BY <2>6 DEF Sets
    <3>3. \A i \in 1..Len(overloads) : overloads'[i].cands = Sets[i] BY <2>6, <3>1
    <3>4. overloads'[Len(overloads) + 1].cands = <<get(n).f, f>> BY <2>5, <2>6
    <3>5. Append(Sets, <<get(n).f, f>>)
            = [i \in 1..Len(overloads) + 1 |-> IF i = Len(overloads) + 1 THEN <<get(n).f, f>> ELSE Sets[i]]
      BY <2>7, <3>1, SMTT(30)
    <3> QED BY <2>7, <3>2, <3>3, <3>4, <3>5
  <2>14. [Cells EXCEPT ![n].val = v] = [Cells EXCEPT ![n] = [val |-> v, const |-> FALSE, lock |-> vars[n].lock]]
    <3>1. Cells[n] = [val |-> vars[n].val, const |-> vars[n].const, lock |-> vars[n].lock]
      BY <1>2, NameFacts, CellFacts, ReachedIs, ZenonT(30) DEF Cells
    <3>2. vars[n].const = FALSE BY <1>2, <2>1 DEF VarSet
    <3>3. [Cells[n] EXCEPT !.val = v] = [val |-> v, const |-> FALSE, lock |-> vars[n].lock]
      <4>0. PICK s, l : s = [Cells[n] EXCEPT !.val = v] /\ l = vars[n].lock OBVIOUS
      <4>1. DOMAIN Cells[n] = {"val", "const", "lock"} /\ Cells[n].const = FALSE /\ Cells[n].lock = l
        BY <3>1, <3>2, <4>0
      <4>2. s = [x \in {"val", "const", "lock"} |-> IF x = "val" THEN v ELSE Cells[n][x]] BY <4>0, <4>1
      <4>3. s.val = v /\ s.const = FALSE /\ s.lock = l BY <4>1, <4>2
      <4>4. s = [val |-> s.val, const |-> s.const, lock |-> s.lock] BY <4>2
      <4> QED BY <4>0, <4>3, <4>4
    <3> QED BY <3>3
  <2>15. ~Promise!Refuses(CellOf[n], v) BY <1>2, <2>1, DeclaredIs
  <2>16. Promise!Content(n).t = "function" /\ Promise!Content(n).f = get(n).f BY DeclaredIs
  <2>17. Promise!Declare(n, f)
    BY <1>2, <1>3, <2>2, <2>11, <2>13, <2>14, <2>15, <2>16, Words DEF Promise!Declare
  <2> QED BY <2>2, <2>11, <2>12, <2>17
<1> QED BY <1>4, <1>5

LEMMA AddOverloadStep ==
  ASSUME VarsInv, FlagsInv, OverloadsInv, NEW n \in Declared, get(n).t = "overload",
         NEW f \in Funcs, AddOverload(get(n).n, f),
         \A ts \in DOMAIN overloads[get(n).n].cache :
           Resolve(Append(overloads[get(n).n].cands, f), ts) = overloads[get(n).n].cache[ts]
  PROVE  Effects /\ OverloadsInv' /\ UNCHANGED memo /\ Promise!Declare(n, f)
<1>0. PICK i, o, q : i = get(n).n /\ o = overloads[i] /\ q = [o EXCEPT !.cands = Append(o.cands, f)]
  OBVIOUS
<1>1. i \in DOMAIN overloads BY <1>0, NameFacts DEF IsVal
<1>2. DOMAIN overloads = 1..Len(overloads) /\ Len(overloads) \in Nat
      /\ o \in OverloadSet /\ o.cands \in Seq(Funcs) /\ o.cache \in Caches
  BY <1>0, <1>1, SetsFacts
<1>3. overloads' = [overloads EXCEPT ![i] = q] /\ outcome' = Done /\ UNCHANGED <<vars, memo>>
  BY <1>0 DEF AddOverload
<1>4. q.cands = Append(o.cands, f) /\ q.cache = o.cache /\ q \in OverloadSet
  <2>1. DOMAIN o = {"cands", "cache"} /\ o = [x \in {"cands", "cache"} |-> o[x]] BY <1>2 DEF OverloadSet
  <2>2. q = [x \in {"cands", "cache"} |-> IF x = "cands" THEN Append(o.cands, f) ELSE o[x]] BY <1>0, <2>1
  <2>3. q.cands = Append(o.cands, f) /\ q.cache = o.cache BY <2>2
  <2>4. q = [cands |-> q.cands, cache |-> q.cache] BY <2>2
  <2>5. Append(o.cands, f) \in Seq(Funcs) BY <1>2
  <2> QED BY <1>2, <2>3, <2>4, <2>5 DEF OverloadSet
<1>5. overloads' \in Seq(OverloadSet) /\ DOMAIN overloads' = DOMAIN overloads
      /\ overloads'[i] = q /\ \A j \in DOMAIN overloads : j # i => overloads'[j] = overloads[j]
  BY <1>1, <1>2, <1>3, <1>4 DEF OverloadsInv
<1>6. CacheCurrent'
  <2> SUFFICES ASSUME NEW j \in DOMAIN overloads', NEW ts \in DOMAIN overloads'[j].cache
               PROVE  overloads'[j].cache[ts] = Resolve(overloads'[j].cands, ts)
    BY DEF CacheCurrent
  <2>1. CASE j = i
    <3>1. overloads'[j] = q /\ ts \in DOMAIN o.cache BY <1>4, <1>5, <2>1
    <3>2. Resolve(Append(o.cands, f), ts) = o.cache[ts] BY <1>0, <3>1
    <3> QED BY <1>4, <3>1, <3>2
  <2>2. CASE j # i BY <1>5, <2>2 DEF OverloadsInv, CacheCurrent
  <2> QED BY <2>1, <2>2
<1>7. Sets' = [Sets EXCEPT ![i] = Append(Sets[i], f)]
  <2>1. DOMAIN Sets = DOMAIN overloads /\ DOMAIN Sets' = DOMAIN Sets
        /\ Sets' = [j \in DOMAIN Sets |-> overloads'[j].cands]
        /\ Sets = [j \in DOMAIN Sets |-> overloads[j].cands]
    BY <1>5 DEF Sets
  <2>2. \A j \in DOMAIN Sets : overloads'[j].cands = IF j = i THEN Append(Sets[i], f) ELSE Sets[j]
    <3>1. Sets[i] = o.cands BY <1>0, <1>1, <2>1
    <3>2. \A j \in DOMAIN overloads : j # i => overloads'[j].cands = Sets[j] BY <1>5, <2>1
    <3> QED BY <1>4, <1>5, <2>1, <3>1, <3>2
  <2> QED BY <2>1, <2>2
<1>8. MoreVals BY <1>5 DEF MoreVals, IsVal
<1>9. Effects /\ CellOf' = CellOf /\ Cells' = Cells BY <1>3, <1>8, SameVars DEF Effects
<1>10. Promise!Content(n).t = "overload" /\ Promise!Content(n).n = i BY <1>0, DeclaredIs
<1>11. Promise!Declare(n, f) BY <1>3, <1>7, <1>9, <1>10, Words DEF Promise!Declare
<1> QED BY <1>3, <1>5, <1>6, <1>9, <1>11 DEF OverloadsInv

LEMMA DefineFunctionStep ==
  ASSUME VarsInv, FlagsInv, OverloadsInv, Risks = {}, NEW n \in Names, NEW f \in Funcs,
         SafeOverload(n, f), DefineFunction(n, f)
  PROVE  Effects /\ OverloadsInv' /\ UNCHANGED memo /\ Promise!Declare(n, f)
<1>1. CASE n \in Declared /\ get(n).t = "function"
  <2>1. NewOverload(n, f) BY <1>1, NameFacts DEF DefineFunction
  <2>2. vars[n].alias = None BY <1>1, NameFacts DEF SafeOverload, SafeRedefinition, Safe, Refers
  <2> QED BY <1>1, <2>1, <2>2, NewOverloadStep
<1>2. CASE n \in Declared /\ get(n).t = "overload"
  <2>1. AddOverload(get(n).n, f) BY <1>2, NameFacts DEF DefineFunction
  <2>2. \A ts \in DOMAIN overloads[get(n).n].cache :
           Resolve(Append(overloads[get(n).n].cands, f), ts) = overloads[get(n).n].cache[ts]
    BY <1>2, NameFacts DEF SafeOverload, Safe
  <2> QED BY <1>2, <2>1, <2>2, AddOverloadStep
<1>3. CASE n \notin Declared \/ get(n).t \notin {"function", "overload"}
  <2>1. Set(n, Func(f), FALSE, FALSE) BY <1>3, NameFacts DEF DefineFunction
  <2>2. n \in Declared => vars[n].alias = None
    BY <1>3, NameFacts DEF SafeOverload, SafeRedefinition, Safe, Refers
  <2>3. IsVal(Func(f)) BY DEF IsVal, Vals, Func
  <2>4. Effects /\ Promise!Let(n, Func(f), FALSE, FALSE) /\ UNCHANGED <<overloads, memo>>
    BY <2>1, <2>2, <2>3, SetStep
  <2>5. OverloadsInv' BY <2>4 DEF OverloadsInv, CacheCurrent
  <2>6. Promise!Content(n).t \notin {"function", "overload"}
    BY <1>3, DeclaredIs DEF NoType, Value
  <2>7. Promise!Declare(n, f) BY <2>4, <2>6, Words DEF Promise!Declare
  <2> QED BY <2>4, <2>5, <2>7
<1> QED BY <1>1, <1>2, <1>3

(***************************************************************************)
(* The lines that call.                                                    *)
(***************************************************************************)
LEMMA SameCalls ==
  /\ \A args : Promise!Types(args) = Types(args)
  /\ \A f, ts : Promise!Fits(f, ts) <=> Fits(f, ts)
  /\ \A f, args : Promise!Binds(f, args) <=> Binds(f, args)
  /\ \A f, args : Promise!TooMany(f, args) <=> TooMany(f, args)
  /\ \A f, args : Promise!Bound(f, args) = Bound(f, args)
  /\ \A f, g, ts : Promise!Better(f, g, ts) <=> Better(f, g, ts)
<1>0. \A S : Promise!Cardinality(S) = Cardinality(S)
  BY DEF Promise!Cardinality, Cardinality, Promise!IsFiniteSet, IsFiniteSet
<1>1. \A args : Promise!Types(args) = Types(args) BY DEF Promise!Types, Types
<1>2. \A f, ts : Promise!Compared(f, ts) = Compared(f, ts) BY DEF Promise!Compared, Compared
<1>3. \A f : Promise!MinArgs(f) = MinArgs(f) BY DEF Promise!MinArgs, MinArgs
<1>4. \A p, t : Promise!Suits(p, t) <=> Suits(p, t) BY DEF Promise!Suits, Suits
<1>5. \A p, t : Promise!Converts(p, t) <=> Converts(p, t) BY DEF Promise!Converts, Converts
<1>6. \A p, v : Promise!Converted(p, v) = Converted(p, v)
  BY DEF Promise!Converted, Converted, Promise!Value, Value
<1>7. \A f, ts : Promise!Fits(f, ts) <=> Fits(f, ts) BY <1>2, <1>3, <1>4 DEF Promise!Fits, Fits
<1>8. \A f, args : Promise!Binds(f, args) <=> Binds(f, args) BY <1>2, <1>3, <1>5 DEF Promise!Binds, Binds
<1>9. \A f, args : Promise!TooMany(f, args) <=> TooMany(f, args) BY DEF Promise!TooMany, TooMany
<1>10. \A f, args : Promise!Bound(f, args) = Bound(f, args)
  BY <1>6 DEF Promise!Bound, Bound, Promise!Value, Value
<1>11. \A f, ts : Promise!Exact(f, ts) = Exact(f, ts) BY <1>2, <1>0 DEF Promise!Exact, Exact
<1>12. \A f, ts : Promise!Castable(f, ts) = Castable(f, ts) BY <1>2, <1>0 DEF Promise!Castable, Castable
<1>13. \A f, ts : Promise!Untyped(f, ts) = Untyped(f, ts) BY <1>2, <1>0 DEF Promise!Untyped, Untyped
<1>14. \A f, g, ts : Promise!Better(f, g, ts) <=> Better(f, g, ts)
  BY <1>11, <1>12, <1>13 DEF Promise!Better, Better
<1> QED BY <1>1, <1>7, <1>8, <1>9, <1>10, <1>14

(* What a call may give: an error when the abstract module picks no        *)
(* function, the picked function's result otherwise.                       *)
CallErrors == {Error("ArgumentError"), Error("TypeError"), Error("NameError")}

LEMMA Called ==
  ASSUME VarsInv, FlagsInv, UNCHANGED vars, MoreVals, Sets' = Sets, NEW n, NEW args,
         \/ Promise!Picked(Promise!Content(n), args) = {} /\ outcome' \in CallErrors
         \/ \E f : /\ Promise!Picked(Promise!Content(n), args) = {f}
                   /\ outcome' = Result(f, Bound(f, args), Seen(f))
  PROVE  Effects /\ Promise!Call(n, args)
<1>1. Effects /\ CellOf' = CellOf /\ Cells' = Cells BY SameVars DEF Effects
<1>2. CASE Promise!Picked(Promise!Content(n), args) = {} /\ outcome' \in CallErrors
  <2>1. Promise!Refuse BY <1>1, <1>2, Words DEF Promise!Refuse, CallErrors
  <2> QED BY <1>1, <1>2, <2>1 DEF Promise!Call
<1>3. CASE \E f : /\ Promise!Picked(Promise!Content(n), args) = {f}
                  /\ outcome' = Result(f, Bound(f, args), Seen(f))
  <2>1. PICK f : /\ Promise!Picked(Promise!Content(n), args) = {f}
                 /\ outcome' = Result(f, Bound(f, args), Seen(f))
    BY <1>3
  <2>2. Seen(f) = IF f \in Reading THEN Promise!Content(Observed) ELSE NoType
    BY DeclaredIs, NameFacts DEF Seen
  <2>3. Promise!Bound(f, args) = Bound(f, args) BY SameCalls
  <2>4. outcome' = Promise!Result(f, Promise!Bound(f, args),
                                  IF f \in Reading THEN Promise!Content(Observed) ELSE Promise!NoType)
    BY <2>1, <2>2, <2>3, Words
  <2> QED BY <1>1, <2>1, <2>4 DEF Promise!Call
<1> QED BY <1>2, <1>3

(* A function of which the cached results may be used.                     *)
LEMMA RunStep ==
  ASSUME MemoInv, NEW f \in Funcs, NEW args, Run(f, args),
         ~(TooMany(f, args) /\ Binds(f, args) /\ Remembered(f, args)), f \notin Cached \cap Reading
  PROVE  /\ MemoInv'
         /\ IF Binds(f, args) /\ ~TooMany(f, args) THEN outcome' = Result(f, Bound(f, args), Seen(f))
                                                   ELSE outcome' \in CallErrors
<1>1. CASE ~Binds(f, args)
  <2>1. outcome' \in {Error("ArgumentError"), Error("TypeError")} /\ UNCHANGED memo BY <1>1 DEF Run
  <2> QED BY <1>1, <2>1 DEF MemoInv, CallErrors
<1>2. CASE Binds(f, args) /\ Remembered(f, args)
  <2>1. outcome' = memo[f][Bound(f, args)] /\ UNCHANGED memo BY <1>2 DEF Run
  <2>2. outcome' = Result(f, Bound(f, args), NoType) BY <1>2, <2>1 DEF MemoInv, Remembered
  <2>3. Seen(f) = NoType BY <1>2 DEF Seen, Remembered
  <2> QED BY <1>2, <2>1, <2>2, <2>3 DEF MemoInv
<1>3. CASE Binds(f, args) /\ ~Remembered(f, args) /\ TooMany(f, args)
  <2>1. outcome' = Error("ArgumentError") /\ UNCHANGED memo BY <1>3 DEF Run
  <2> QED BY <1>3, <2>1 DEF MemoInv, CallErrors
<1>4. CASE Binds(f, args) /\ ~Remembered(f, args) /\ ~TooMany(f, args)
  <2>1. outcome' = Ran(f, args)
        /\ memo' = IF f \in Cached THEN [memo EXCEPT ![f] = Put(memo[f], Bound(f, args), Ran(f, args))]
                   ELSE memo
    BY <1>4 DEF Run
  <2>2. f \in Cached => Ran(f, args) = Result(f, Bound(f, args), NoType) BY DEF Ran, Seen
  <2>3. MemoInv'
    <3>1. CASE f \in Cached
      <4>1. DOMAIN memo' = Funcs /\ memo'[f] = Put(memo[f], Bound(f, args), Result(f, Bound(f, args), NoType))
            /\ \A g \in Funcs : g # f => memo'[g] = memo[g]
        BY <2>1, <2>2, <3>1 DEF MemoInv
      <4>2. \A b \in DOMAIN memo'[f] : memo'[f][b] = Result(f, b, NoType) BY <4>1 DEF MemoInv, Put
      <4> QED BY <4>1, <4>2 DEF MemoInv
    <3>2. CASE f \notin Cached BY <2>1, <3>2 DEF MemoInv
    <3> QED BY <3>1, <3>2
  <2> QED BY <1>4, <2>1, <2>3 DEF Ran
<1> QED BY <1>1, <1>2, <1>3, <1>4

LEMMA FunctionCalled ==
  ASSUME VarsInv, FlagsInv, MemoInv, Risks = {}, NEW n \in Declared, NEW args,
         get(n).t = "function", SafeCall(n, args), Run(get(n).f, args), UNCHANGED <<vars, overloads>>
  PROVE  Effects /\ MemoInv' /\ Promise!Call(n, args)
<1>0. PICK f : f = get(n).f OBVIOUS
<1>1. f \in Funcs /\ Callees(n) = {f} BY <1>0, NameFacts DEF IsVal, Callees
<1>2. ~(TooMany(f, args) /\ Binds(f, args) /\ Remembered(f, args)) /\ f \notin Cached \cap Reading
  BY <1>1 DEF SafeCall, Safe
<1>3. /\ MemoInv'
      /\ IF Binds(f, args) /\ ~TooMany(f, args) THEN outcome' = Result(f, Bound(f, args), Seen(f))
                                                ELSE outcome' \in CallErrors
  BY <1>0, <1>1, <1>2, RunStep
<1>4. Promise!Picked(Promise!Content(n), args) = {g \in {f} : Binds(g, args) /\ ~TooMany(g, args)}
  BY <1>0, DeclaredIs, SameCalls DEF Promise!Picked
<1>5. Sets' = Sets /\ MoreVals BY DEF Sets, MoreVals, IsVal
<1> QED BY <1>3, <1>4, <1>5, Called

(* The overloads the abstract module picks from are those the sum ranks.   *)
LEMMA PickedOverload ==
  ASSUME VarsInv, OverloadsInv, Risks = {}, NEW n \in Declared, NEW args \in Seq(Literals),
         get(n).t = "overload", SafeCall(n, args)
  PROVE  LET cs == overloads[get(n).n].cands ts == Types(args) IN
         /\ Promise!Picked(Promise!Content(n), args) = {cs[i] : i \in Choices(cs, ts)}
         /\ \A i \in Choices(cs, ts) : cs[i] \in Callees(n) /\ Binds(cs[i], args) /\ ~TooMany(cs[i], args)
<1> DEFINE cs == overloads[get(n).n].cands
           ts == Types(args)
           ok == {i \in DOMAIN cs : Fits(cs[i], ts)}
<1>1. get(n).n \in DOMAIN overloads /\ cs \in Seq(Funcs) BY NameFacts, SetsFacts DEF IsVal
<1>2. ts \in Seq(ArgTypes) /\ Len(ts) = Len(args) /\ DOMAIN ts = DOMAIN args BY TypesOf
<1>3. Callees(n) = {cs[i] : i \in DOMAIN cs} BY NameFacts DEF Callees
<1>4. \A i \in ok : cs[i] \in Callees(n) BY <1>3
<1>5. \A i \in ok : Binds(cs[i], args)
  BY <1>4, NameFacts DEF SafeCall, Safe
<1>6. \A i, j \in ok : (Score(cs[i], ts) > Score(cs[j], ts)) = Better(cs[i], cs[j], ts)
  BY <1>4, NameFacts DEF SafeCall, Safe
<1>7. \A i \in DOMAIN cs : Score(cs[i], ts) \in Int /\ i \in Int BY <1>1, <1>2, ScoreInt
<1>8. \A i \in ok : ~TooMany(cs[i], args) BY <1>2 DEF TooMany, Fits
<1>9. Sets[get(n).n] = cs BY <1>1, SetsFacts
<1>10. Promise!Candidates(Promise!Content(n)) = cs
  BY <1>9, DeclaredIs DEF Promise!Candidates
<1>11. {i \in DOMAIN cs : Promise!Takes(cs[i], args)} = ok
  BY <1>5, SameCalls DEF Promise!Takes
<1>12. Choices(cs, ts) = {i \in ok : \A j \in ok : \/ Score(cs[i], ts) > Score(cs[j], ts)
                                                   \/ Score(cs[i], ts) = Score(cs[j], ts) /\ j <= i}
  BY DEF Choices
<1>13. \A i, j \in ok :
         (~Better(cs[j], cs[i], ts) /\ (Better(cs[i], cs[j], ts) \/ j <= i))
           <=> (Score(cs[i], ts) > Score(cs[j], ts) \/ (Score(cs[i], ts) = Score(cs[j], ts) /\ j <= i))
  <2> SUFFICES ASSUME NEW i \in ok, NEW j \in ok
               PROVE  (~Better(cs[j], cs[i], ts) /\ (Better(cs[i], cs[j], ts) \/ j <= i))
                        <=> (Score(cs[i], ts) > Score(cs[j], ts)
                              \/ (Score(cs[i], ts) = Score(cs[j], ts) /\ j <= i))
    OBVIOUS
  <2>1. PICK a, b : a = Score(cs[i], ts) /\ b = Score(cs[j], ts) OBVIOUS
  <2>2. a \in Int /\ b \in Int BY <1>7, <2>1
  <2>3. (a > b) = Better(cs[i], cs[j], ts) /\ (b > a) = Better(cs[j], cs[i], ts) BY <1>6, <2>1
  <2>4. i \in Int /\ j \in Int BY <1>7
  <2> HIDE DEF ok, cs, ts
  <2>5. (Better(cs[i], cs[j], ts) <=> a > b) /\ (Better(cs[j], cs[i], ts) <=> b > a) BY <2>3
  <2>6. (~(b > a) /\ (a > b \/ j <= i)) <=> (a > b \/ (a = b /\ j <= i)) BY <2>2, <2>4
  <2> QED BY <2>1, <2>5, <2>6
<1> HIDE DEF ok, cs, ts
<1>14. Promise!Picked(Promise!Content(n), args)
         = {cs[i] : i \in {i \in ok : \A j \in ok : ~Better(cs[j], cs[i], ts)
                                                    /\ (Better(cs[i], cs[j], ts) \/ j <= i)}}
  <2>1. Promise!Content(n).t = "overload" BY DeclaredIs
  <2>2. Promise!Types(args) = ts BY SameCalls DEF ts
  <2>3. \A i, j : Promise!Better(cs[i], cs[j], ts) <=> Better(cs[i], cs[j], ts) BY SameCalls
  <2> QED BY <1>10, <1>11, <2>1, <2>2, <2>3 DEF Promise!Picked
<1>15. Promise!Picked(Promise!Content(n), args) = {cs[i] : i \in Choices(cs, ts)}
  BY <1>12, <1>13, <1>14
<1>16. \A i \in Choices(cs, ts) : i \in ok BY <1>12
<1> QED BY <1>4, <1>5, <1>8, <1>15, <1>16 DEF cs, ts

LEMMA OverloadCalled ==
  ASSUME VarsInv, FlagsInv, OverloadsInv, MemoInv, Risks = {}, NEW n \in Declared, NEW args \in Seq(Literals),
         get(n).t = "overload", SafeCall(n, args), CallOverload(get(n).n, args)
  PROVE  Effects /\ OverloadsInv' /\ MemoInv' /\ Promise!Call(n, args)
<1>0. PICK i, o, cs, ts, f : /\ i = get(n).n /\ o = overloads[i] /\ cs = o.cands /\ ts = Types(args)
                             /\ f = Target(i, ts)
  OBVIOUS
<1>1. i \in DOMAIN overloads /\ cs \in Seq(Funcs) /\ ts \in Seq(ArgTypes) /\ o \in OverloadSet
      /\ o.cache \in Caches
  BY <1>0, NameFacts, SetsFacts, TypesOf DEF IsVal
<1>2. f = Resolve(cs, ts)
  BY <1>0, <1>1 DEF Target, OverloadsInv, CacheCurrent
<1>3. Promise!Picked(Promise!Content(n), args) = {f} \ {NoMatch}
      /\ (f # NoMatch => f \in Funcs)
  <2>1. Promise!Picked(Promise!Content(n), args) = {cs[k] : k \in Choices(cs, ts)}
    BY <1>0, PickedOverload
  <2>2. {cs[k] : k \in Choices(cs, ts)} = {Resolve(cs, ts)} \ {NoMatch} BY <1>1, Resolved
  <2>3. Resolve(cs, ts) \in Funcs \cup {NoMatch} BY <1>1, Resolved
  <2> QED BY <1>2, <2>1, <2>2, <2>3
<1>4. CASE f = NoMatch
  <2>1. Fails("TypeError") BY <1>0, <1>4 DEF CallOverload
  <2>2. outcome' \in CallErrors /\ UNCHANGED <<vars, overloads, memo>> BY <2>1 DEF Fails, CallErrors
  <2>3. Sets' = Sets /\ MoreVals BY <2>2 DEF Sets, MoreVals, IsVal
  <2>4. Effects /\ Promise!Call(n, args) BY <1>3, <1>4, <2>2, <2>3, Called
  <2>5. OverloadsInv' /\ MemoInv' BY <2>2 DEF OverloadsInv, CacheCurrent, MemoInv
  <2> QED BY <2>4, <2>5
<1>5. CASE f # NoMatch
  <2>1. overloads' = Cache(i, ts, f) /\ Run(f, args) /\ UNCHANGED vars BY <1>0, <1>5 DEF CallOverload
  <2>2. f \in Callees(n) /\ Binds(f, args) /\ ~TooMany(f, args) /\ f \in Funcs
    <3>1. PICK k \in Choices(cs, ts) : f = cs[k] BY <1>1, <1>2, <1>5, Resolved
    <3> QED BY <1>0, <1>3, <1>5, <3>1, PickedOverload
  <2>3. f \notin Cached \cap Reading BY <2>2 DEF SafeCall, Safe
  <2>4. MemoInv' /\ outcome' = Result(f, Bound(f, args), Seen(f)) BY <2>1, <2>2, <2>3, RunStep
  <2>5. PICK q : q = [o EXCEPT !.cache = Put(o.cache, ts, f)] OBVIOUS
  <2>6. overloads' = [overloads EXCEPT ![i] = q] BY <1>0, <2>1, <2>5 DEF Cache
  <2>7. q.cands = cs /\ q.cache = Put(o.cache, ts, f) /\ q \in OverloadSet
    <3>1. DOMAIN o = {"cands", "cache"} /\ o = [x \in {"cands", "cache"} |-> o[x]] BY <1>1 DEF OverloadSet
    <3>2. q = [x \in {"cands", "cache"} |-> IF x = "cache" THEN Put(o.cache, ts, f) ELSE o[x]]
      BY <2>5, <3>1
    <3>3. q.cands = cs /\ q.cache = Put(o.cache, ts, f) BY <1>0, <3>2
    <3>4. q = [cands |-> q.cands, cache |-> q.cache] BY <3>2
    <3>5. Put(o.cache, ts, f) \in Caches
      <4>1. PICK S \in SUBSET Seq(ArgTypes) : o.cache \in [S -> Funcs] BY <1>1 DEF Caches
      <4>2. Put(o.cache, ts, f) \in [S \cup {ts} -> Funcs] BY <2>2, <4>1 DEF Put
      <4>3. S \cup {ts} \in SUBSET Seq(ArgTypes) BY <1>1, <4>1
      <4> QED BY <4>2, <4>3 DEF Caches
    <3> QED BY <1>1, <3>3, <3>4, <3>5 DEF OverloadSet
  <2>8. overloads' \in Seq(OverloadSet) /\ DOMAIN overloads' = DOMAIN overloads
        /\ overloads'[i] = q /\ \A j \in DOMAIN overloads : j # i => overloads'[j] = overloads[j]
    BY <1>1, <2>6, <2>7 DEF OverloadsInv
  <2>9. CacheCurrent'
    <3> SUFFICES ASSUME NEW j \in DOMAIN overloads', NEW us \in DOMAIN overloads'[j].cache
                 PROVE  overloads'[j].cache[us] = Resolve(overloads'[j].cands, us)
      BY DEF CacheCurrent
    <3>1. CASE j = i
      <4>1. overloads'[j] = q /\ us \in DOMAIN o.cache \cup {ts}
            /\ q.cache[us] = IF us = ts THEN f ELSE o.cache[us]
        BY <2>7, <2>8, <3>1 DEF Put
      <4>2. us \in DOMAIN o.cache => o.cache[us] = Resolve(cs, us)
        BY <1>0, <1>1 DEF OverloadsInv, CacheCurrent
      <4> QED BY <1>2, <2>7, <4>1, <4>2
    <3>2. CASE j # i BY <2>8, <3>2 DEF OverloadsInv, CacheCurrent
    <3> QED BY <3>1, <3>2
  <2>10. Sets' = Sets
    <3>1. \A j \in DOMAIN overloads : overloads'[j].cands = overloads[j].cands BY <1>0, <2>7, <2>8
    <3> QED BY <2>8, <3>1 DEF Sets
  <2>11. MoreVals BY <2>8 DEF MoreVals, IsVal
  <2>12. Effects /\ Promise!Call(n, args) BY <1>3, <1>5, <2>1, <2>4, <2>10, <2>11, Called
  <2> QED BY <2>4, <2>8, <2>9, <2>12 DEF OverloadsInv
<1> QED BY <1>4, <1>5

LEMMA CallStep ==
  ASSUME VarsInv, FlagsInv, OverloadsInv, MemoInv, Risks = {}, NEW n \in Names, NEW args \in Seq(Literals),
         SafeCall(n, args), callValue(n, args)
  PROVE  Effects /\ OverloadsInv' /\ MemoInv' /\ Promise!Call(n, args)
<1>1. CASE n \in Declared /\ get(n).t = "function"
  <2>1. Run(get(n).f, args) /\ UNCHANGED <<vars, overloads>> BY <1>1, NameFacts DEF callValue
  <2>2. OverloadsInv' BY <2>1 DEF OverloadsInv, CacheCurrent
  <2> QED BY <1>1, <2>1, <2>2, FunctionCalled
<1>2. CASE n \in Declared /\ get(n).t = "overload"
  <2>1. CallOverload(get(n).n, args) BY <1>2, NameFacts DEF callValue
  <2> QED BY <1>2, <2>1, OverloadCalled
<1>3. CASE n \notin Declared \/ get(n).t \notin {"function", "overload"}
  <2>1. Fails("NameError") \/ Fails("TypeError") BY <1>3, NameFacts DEF callValue
  <2>2. outcome' \in CallErrors /\ UNCHANGED <<vars, overloads, memo>> BY <2>1 DEF Fails, CallErrors
  <2>3. Promise!Content(n).t \notin {"function", "overload"} BY <1>3, DeclaredIs DEF NoType, Value
  <2>4. Promise!Picked(Promise!Content(n), args) = {} BY <2>3 DEF Promise!Picked, Promise!Candidates
  <2>5. Sets' = Sets /\ MoreVals BY <2>2 DEF Sets, MoreVals, IsVal
  <2>6. Effects /\ Promise!Call(n, args) BY <2>2, <2>4, <2>5, Called
  <2> QED BY <2>2, <2>6 DEF OverloadsInv, CacheCurrent, MemoInv
<1> QED BY <1>1, <1>2, <1>3

(***************************************************************************)
(* The session.                                                            *)
(***************************************************************************)
LEMMA InitHolds ==
  ASSUME Init
  PROVE  IInv /\ Promise!Init
<1>1. DOMAIN vars = DOMAIN Builtins \cup {Nobody} /\ Declared = DOMAIN Builtins /\ Declared \subseteq Names
  BY NamesAssumption DEF Init, Declared
<1>2. \A n \in Declared : vars[n] = Plain(Func(Builtins[n])) BY <1>1, NamesAssumption DEF Init
<1>3. vars[Nobody] = Plain(NoType) BY DEF Init
<1>4. \A v : v \in Vals => /\ Plain(v) \in VarSet /\ Plain(v).val = v /\ Plain(v).alias = None
                           /\ Plain(v).vconst = FALSE /\ Plain(v).const = FALSE /\ Plain(v).vlock = FALSE
                           /\ Plain(v).lock = FALSE
  BY DEF Plain, Var, VarSet
<1>5. \A n \in Declared : Func(Builtins[n]) \in Vals /\ IsVal(Func(Builtins[n]))
  BY <1>1, NamesAssumption DEF Func, Vals, IsVal
<1>6. NoType \in Vals /\ IsVal(NoType) BY DEF NoType, Value, Vals, IsVal
<1>7. \A n \in DOMAIN vars : /\ vars[n] \in VarSet /\ IsVal(vars[n].val) /\ vars[n].alias = None
                             /\ vars[n].vconst = FALSE /\ vars[n].const = FALSE /\ vars[n].vlock = FALSE
                             /\ vars[n].lock = FALSE
  <2> SUFFICES ASSUME NEW n \in DOMAIN vars
               PROVE  /\ vars[n] \in VarSet /\ IsVal(vars[n].val) /\ vars[n].alias = None
                      /\ vars[n].vconst = FALSE /\ vars[n].const = FALSE /\ vars[n].vlock = FALSE
                      /\ vars[n].lock = FALSE
    OBVIOUS
  <2>1. CASE n = Nobody BY <1>3, <1>4, <1>6, <2>1
  <2>2. CASE n # Nobody
    <3>1. n \in Declared BY <2>2 DEF Declared
    <3> QED BY <1>2, <1>4, <1>5, <3>1
  <2> QED BY <2>1, <2>2
<1>8. VarsInv
  <2>1. vars = [n \in DOMAIN vars |-> vars[n]] BY DEF Init
  <2> QED BY <1>1, <1>7, <2>1 DEF VarsInv
<1>9. FlagsInv BY <1>7 DEF FlagsInv
<1>10. OverloadsInv
  <2>1. overloads = <<>> BY DEF Init
  <2> QED BY <2>1 DEF OverloadsInv, CacheCurrent
<1>11. MemoInv
  <2>1. memo = [f \in Funcs |-> <<>>] BY DEF Init
  <2>2. DOMAIN <<>> = {} BY NoCache
  <2> QED BY <2>1, <2>2 DEF MemoInv
<1>12. CellOf = [n \in DOMAIN Builtins |-> n]
  <2>1. \A n \in Declared : Pointee(n) = n BY <1>7, <1>1 DEF Pointee
  <2> QED BY <1>1, <2>1 DEF CellOf, Declared
<1>13. Cells = [c \in Names |-> IF c \in DOMAIN Builtins
                                THEN Promise!Cell(Promise!Func(Builtins[c]), FALSE, FALSE) ELSE Promise!Blank]
  <2>1. \A c : Reached(c) <=> c \in Declared BY <1>1, <1>12, ReachedIs
  <2>2. \A c : exists(c) <=> c \in Declared BY DEF exists, Declared
  <2>3. \A c \in Declared : vars[c].val = Func(Builtins[c]) /\ vars[c].const = FALSE /\ vars[c].lock = FALSE
    BY <1>2, <1>4, <1>5
  <2> QED BY <1>1, <2>1, <2>2, <2>3, Words DEF Cells, Promise!Cell, Promise!Blank
<1>14. Sets = <<>> /\ line = <<>> /\ outcome = Done
  <2>1. overloads = <<>> BY DEF Init
  <2> QED BY <2>1 DEF Init, Sets
<1> QED BY <1>8, <1>9, <1>10, <1>11, <1>12, <1>13, <1>14, Words DEF IInv, Promise!Init

(* A session without the harmful combinations keeps the invariant, every   *)
(* flag, and takes a step of the abstract module.                          *)
LEMMA StepHolds ==
  ASSUME Risks = {}, IInv, Next
  PROVE  IInv' /\ FlagStep /\ Promise!Next
<1> USE DEF IInv
<1>1. ASSUME NEW n \in Names, LetLine(n) PROVE IInv' /\ FlagStep /\ Promise!LetLine(n)
  <2>1. PICK v \in Values, const \in BOOLEAN, lock \in BOOLEAN :
          /\ Enter(LetStmt(n, v, const, lock))
          /\ SafeRedefinition(n) /\ SafeFlags(n, const, lock)
          /\ DefineVar(n, v, const, lock)
    BY <1>1 DEF LetLine
  <2>2. IsVal(v) /\ v \in Promise!Values BY ValuesVals
  <2>3. n \in Declared => /\ vars[n].alias = None
                          /\ const => vars[n].const
                          /\ lock => vars[n].lock
    BY <2>1, NameFacts DEF SafeRedefinition, SafeFlags, Safe, Refers
  <2>4. Effects /\ Promise!Let(n, v, const, lock) /\ UNCHANGED <<overloads, memo>>
    BY <2>1, <2>2, <2>3, DefineVarStep
  <2>5. IInv' /\ FlagStep BY <2>4 DEF Effects, OverloadsInv, CacheCurrent, MemoInv
  <2>6. line' = Promise!LetStmt(n, v, const, lock) BY <2>1, Words DEF Enter
  <2> QED BY <2>2, <2>4, <2>5, <2>6 DEF Promise!LetLine
<1>2. ASSUME NEW n \in Names, SetLine(n) PROVE IInv' /\ FlagStep /\ Promise!SetLine(n)
  <2>1. SafeTarget(n) BY <1>2 DEF SetLine
  <2>2. PICK v \in Values : Enter(SetStmt(n, v)) /\ SetVar(n, v) BY <1>2 DEF SetLine
  <2>3. IsVal(v) /\ v \in Promise!Values BY ValuesVals
  <2>4. n \in Declared /\ vars[n].alias # None =>
          (vars[vars[n].alias].lock => vars[vars[n].alias].vlock)
    BY <2>1, NameFacts DEF SafeTarget, Safe, Refers
  <2>5. Effects /\ Promise!Assign(n, v) /\ UNCHANGED <<overloads, memo>> BY <2>2, <2>3, <2>4, SetVarStep
  <2>6. IInv' /\ FlagStep BY <2>5 DEF Effects, OverloadsInv, CacheCurrent, MemoInv
  <2>7. line' = Promise!SetStmt(n, v) BY <2>2, Words DEF Enter
  <2> QED BY <2>3, <2>5, <2>6, <2>7 DEF Promise!SetLine
<1>3. ASSUME NEW n \in Names, FunctionLine(n) PROVE IInv' /\ FlagStep /\ Promise!FunctionLine(n)
  <2>1. PICK f \in Funcs : Enter(FunStmt(n, f)) /\ SafeOverload(n, f) /\ DefineFunction(n, f)
    BY <1>3 DEF FunctionLine
  <2>2. Effects /\ OverloadsInv' /\ UNCHANGED memo /\ Promise!Declare(n, f) BY <2>1, DefineFunctionStep
  <2>3. IInv' /\ FlagStep BY <2>2 DEF Effects, MemoInv
  <2>4. line' = Promise!FunStmt(n, f) BY <2>1, Words DEF Enter
  <2> QED BY <2>1, <2>2, <2>3, <2>4 DEF Promise!FunctionLine
<1>4. ASSUME NEW n \in Names, CallLine(n) PROVE IInv' /\ FlagStep /\ Promise!CallLine(n)
  <2>1. PICK args \in ArgLists : Enter(CallStmt(n, args)) /\ SafeCall(n, args) /\ callValue(n, args)
    BY <1>4 DEF CallLine
  <2>2. args \in Seq(Literals) BY NamesAssumption
  <2>3. Effects /\ OverloadsInv' /\ MemoInv' /\ Promise!Call(n, args) BY <2>1, <2>2, CallStep
  <2>4. line' = Promise!CallStmt(n, args) BY <2>1, Words DEF Enter
  <2> QED BY <2>3, <2>4 DEF Effects, Promise!CallLine
<1>5. ASSUME NEW n \in Names, NEW m \in Names, LetRefLine(n, m)
      PROVE  IInv' /\ FlagStep /\ Promise!RefLine(n, m)
  <2>1. Enter(RefStmt("let ref", n, m)) /\ SafeReference(n, m) /\ SafeReplacement(n, m) /\ DefineRef(n, m)
    BY <1>5 DEF LetRefLine
  <2>2. m \in Declared /\ (n \in Declared => ~vars[n].const /\ ~IsTarget(n) /\ n # m)
    BY <2>1, NameFacts DEF SafeReference, SafeReplacement, Safe
  <2>3. Effects /\ Promise!Refer(n, m) /\ UNCHANGED <<overloads, memo>> BY <2>1, <2>2, DefineRefStep
  <2>4. IInv' /\ FlagStep BY <2>3 DEF Effects, OverloadsInv, CacheCurrent, MemoInv
  <2>5. line' = Promise!RefStmt("let ref", n, m) BY <2>1, Words DEF Enter
  <2> QED BY <2>3, <2>4, <2>5 DEF Promise!RefLine
<1>6. ASSUME NEW n \in Names, NEW m \in Names, SetRefLine(n, m)
      PROVE  IInv' /\ FlagStep /\ (Promise!RefLine(n, m) \/ Promise!UnknownLine(n, m))
  <2>1. Enter(RefStmt("set ref", n, m)) /\ SafeReference(n, m) /\ SetRef(n, m)
    BY <1>6 DEF SetRefLine
  <2>2. m \in Declared /\ (n \in Declared => ~vars[n].const)
    BY <2>1, NameFacts DEF SafeReference, Safe
  <2>3. /\ Effects /\ UNCHANGED <<overloads, memo>>
        /\ IF n \in Declared THEN Promise!Refer(n, m) ELSE Promise!Refuse
    BY <2>1, <2>2, SetRefStep
  <2>4. IInv' /\ FlagStep BY <2>3 DEF Effects, OverloadsInv, CacheCurrent, MemoInv
  <2>5. line' = Promise!RefStmt("set ref", n, m) BY <2>1, Words DEF Enter
  <2> QED BY <2>3, <2>4, <2>5, DeclaredIs DEF Promise!RefLine, Promise!UnknownLine
<1>7. ASSUME NEW n \in Names, NEW m \in Names,
             LetLine(n) \/ SetLine(n) \/ FunctionLine(n) \/ CallLine(n)
               \/ LetRefLine(n, m) \/ SetRefLine(n, m)
      PROVE  line'.n = n
  <2>1. ASSUME NEW l, Enter(l) PROVE line' = l BY <2>1 DEF Enter
  <2>2. CASE LetLine(n) BY <2>2, <2>1 DEF LetLine, LetStmt
  <2>3. CASE SetLine(n) BY <2>3, <2>1 DEF SetLine, SetStmt
  <2>4. CASE FunctionLine(n) BY <2>4, <2>1 DEF FunctionLine, FunStmt
  <2>5. CASE CallLine(n) BY <2>5, <2>1 DEF CallLine, CallStmt
  <2>6. CASE LetRefLine(n, m)
    <3>1. line' = RefStmt("let ref", n, m) BY <2>6 DEF LetRefLine, Enter
    <3> QED BY <3>1 DEF RefStmt
  <2>7. CASE SetRefLine(n, m)
    <3>1. line' = RefStmt("set ref", n, m) BY <2>7 DEF SetRefLine, Enter
    <3> QED BY <3>1 DEF RefStmt
  <2> QED BY <1>7, <2>2, <2>3, <2>4, <2>5, <2>6, <2>7
<1>8. CASE \E n \in Names : LetLine(n) \/ SetLine(n) \/ FunctionLine(n) \/ CallLine(n)
  <2>1. PICK n \in Names : LetLine(n) \/ SetLine(n) \/ FunctionLine(n) \/ CallLine(n) BY <1>8
  <2>2. line'.n = n BY <1>7, <2>1
  <2> QED BY <2>1, <2>2, <1>1, <1>2, <1>3, <1>4 DEF Promise!Next
<1>9. CASE \E n, m \in Names : LetRefLine(n, m) \/ SetRefLine(n, m)
  <2>1. PICK n \in Names, m \in Names : LetRefLine(n, m) \/ SetRefLine(n, m) BY <1>9
  <2>2. line'.n = n BY <1>7, <2>1
  <2> QED BY <2>1, <2>2, <1>5, <1>6 DEF Promise!Next
<1> QED BY <1>8, <1>9 DEF Next

(***************************************************************************)
(* The theorems.                                                           *)
(***************************************************************************)
LEMMA Stutter ==
  ASSUME IInv, UNCHANGED evVars
  PROVE  IInv' /\ FlagStep /\ UNCHANGED <<CellOf, Cells, Sets, line, outcome>>
<1>1. MoreVals BY DEF evVars, MoreVals, IsVal
<1>2. UNCHANGED vars BY DEF evVars
<1>3. VarsInv' /\ FlagsInv' /\ CellOf' = CellOf /\ Cells' = Cells /\ FlagStep
  BY <1>1, <1>2, SameVars DEF IInv
<1>4. OverloadsInv' /\ MemoInv' /\ Sets' = Sets
  BY DEF evVars, IInv, OverloadsInv, CacheCurrent, MemoInv, Sets
<1> QED BY <1>3, <1>4 DEF evVars, IInv

(* OverloadObject::signatureCache: a cached choice stays the choice a      *)
(* fresh resolution makes, as long as no function is added whose           *)
(* declaration changes the choice for a signature already called.          *)
THEOREM CacheStaysCurrent ==
  ASSUME Risks = {}
  PROVE  Spec => []CacheCurrent
<1>1. Init => IInv BY InitHolds
<1>2. IInv /\ [Next]_evVars => IInv' BY StepHolds, Stutter
<1>3. IInv => CacheCurrent BY DEF IInv, OverloadsInv
<1> QED BY <1>1, <1>2, <1>3, PTL DEF Spec

(* A variable declared constant reads the same for ever, and a locked one  *)
(* keeps its type, through every line that may name, refer to or alias it. *)
THEOREM FlagsAlwaysHold ==
  ASSUME Risks = {}
  PROVE  Spec => FlagsHold
<1>1. Init => IInv BY InitHolds
<1>2. IInv /\ [Next]_evVars => IInv' BY StepHolds, Stutter
<1>3. IInv /\ [Next]_evVars =>
        [\A n \in DOMAIN vars \ {Nobody} :
           /\ vars[n].const => vars'[n].const /\ get(n)' = get(n)
           /\ vars[n].lock /\ vars[n].alias = None /\ vars'[n].alias = None => get(n)'.t = get(n).t]_evVars
  BY StepHolds DEF FlagStep, Declared
<1> QED BY <1>1, <1>2, <1>3, PTL DEF Spec, FlagsHold

(* Flags kept twice, pointers, the cache of signatures and the cache of    *)
(* results implement the cells and calls of Scopes.                        *)
THEOREM EnvironmentIsScopes ==
  ASSUME Risks = {}
  PROVE  Spec => KeepsPromise
<1>1. Init => IInv /\ Promise!Init BY InitHolds
<1>2. IInv /\ [Next]_evVars => IInv' BY StepHolds, Stutter
<1>3. IInv /\ [Next]_evVars => [Promise!Next]_Promise!scVars
  BY StepHolds, Stutter DEF Promise!scVars
<1> QED BY <1>1, <1>2, <1>3, PTL DEF Spec, KeepsPromise, Promise!Spec
=============================================================================
