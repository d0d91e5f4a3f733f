------------------------- MODULE SwitchTableProofs -------------------------
(***************************************************************************)
(* A switch reaches its case, for every width of a byte and of a table     *)
(* entry, every switch whose keys are distinct and fit, and every number   *)
(* of constants that fits a byte, as long as the code does.                *)
(***************************************************************************)
EXTENDS SwitchTable, TLAPS

Compiling == {"scan", "default", "bodies", "table", "linear", "tests"}

TypeInv ==
  /\ phase \in Compiling
  /\ cases \in Seq(Cases)
  /\ minVal \in Int /\ maxVal \in Int
  /\ constants \in Seq(Values)
  /\ here \in Nat /\ tableStart \in Nat
  /\ minIdx \in Nat /\ count \in Nat
  /\ defaultAddr \in Nat
  /\ bodies \in Seq(Nat) /\ Len(bodies) <= Len(cases)
  /\ scanned \in 0..Len(cases)
  /\ target \in Values

(* What the scan knows of the keys: both bounds are keys. *)
ScanInv ==
  /\ \A j \in 1..scanned :
       cases[j].value.int /\ minVal <= cases[j].value.key /\ cases[j].value.key <= maxVal
  /\ scanned # 0 =>
       /\ \E j \in 1..scanned : minVal = cases[j].value.key
       /\ \E j \in 1..scanned : maxVal = cases[j].value.key

ByTable == phase \in {"default", "bodies", "table"}

(* The header: the operands fit their bytes. *)
HeaderInv ==
  ByTable =>
    /\ scanned = Len(cases) /\ scanned # 0
    /\ count = Entries
    /\ minIdx + 1 \in DOMAIN constants /\ constants[minIdx + 1].key = minVal
    /\ phase = "default" => here = tableStart + 2 * Entries

(* The bodies lie behind the table, each under its key. *)
BodiesInv ==
  /\ phase = "scan" => bodies = <<>> /\ caseAddresses = <<>> /\ Len(constants) < Byte
  /\ phase = "default" => bodies = <<>> /\ caseAddresses = <<>>
  /\ phase \in {"bodies", "table"} =>
       /\ defaultAddr = tableStart + 2 * Entries /\ defaultAddr <= here
       /\ DOMAIN caseAddresses = {cases[j].value.key : j \in 1..Len(bodies)}
       /\ \A j \in 1..Len(bodies) :
            /\ caseAddresses[cases[j].value.key] = bodies[j]
            /\ tableStart + 2 * Entries <= bodies[j] /\ bodies[j] <= here
  /\ phase = "table" =>
       /\ Len(bodies) = Len(cases)
       /\ \A i \in 0..(Entries - 1) :
            table[i] = Destination(i) - (tableStart + 2 * i) - 2

IInv ==
  /\ TypeInv /\ ScanInv /\ HeaderInv /\ BodiesInv
  /\ Distinct(cases) /\ Fits(cases)
  /\ DispatchReachesCase
  /\ phase \notin {"table", "tests"} => ip = 0

Hypotheses ==
  /\ \A s \in Switches : Distinct(s) /\ Fits(s)
  /\ \A p \in Pools : Len(p) < Byte

----------------------------------------------------------------------------
LEMMA InitInv == ASSUME Hypotheses, Init PROVE IInv
<1>1. TypeInv
  BY SwitchTableAssumption DEF Init, TypeInv, Compiling, Values
<1>2. cases \in Switches /\ constants \in Pools BY DEF Init
<1>3. Distinct(cases) /\ Fits(cases) /\ Len(constants) < Byte BY <1>2 DEF Hypotheses
<1>4. ScanInv /\ HeaderInv /\ BodiesInv BY <1>3 DEF Init, ScanInv, HeaderInv, ByTable, BodiesInv
<1>5. DispatchReachesCase BY DEF Init, DispatchReachesCase
<1> QED BY <1>1, <1>3, <1>4, <1>5 DEF IInv, Init

(* The value of a case is a record of its type and number. *)
LEMMA CaseTypes ==
  ASSUME TypeInv, NEW j \in DOMAIN cases
  PROVE  /\ cases[j].value \in Values /\ cases[j].value.key \in Int
         /\ cases[j].value = [int |-> cases[j].value.int, key |-> cases[j].value.key]
         /\ cases[j].len \in Nat
<1>1. cases[j] \in Cases BY DEF TypeInv
<1>2. cases[j].value \in Values /\ cases[j].len \in Nat BY <1>1 DEF Cases
<1> QED BY <1>2 DEF Values

(* In a distinct switch the first matching case is the only one. *)
LEMMA OnlyMatch ==
  ASSUME TypeInv, Distinct(cases), NEW j \in DOMAIN cases
  PROVE  BodyOf(cases[j].value) = bodies[j]
<1>1. Matching(cases[j].value) = {j} BY DEF Matching, Distinct
<1>2. j \in Nat BY DEF TypeInv
<1>3. First(cases[j].value) = j BY <1>1, <1>2 DEF First
<1> QED BY <1>1, <1>3 DEF BodyOf

LEMMA ScanKeyStep == ASSUME IInv, ScanKey PROVE IInv'
<1> DEFINE n == scanned + 1
           v == cases[n].value
<1>1. n \in 1..Len(cases) /\ n \in DOMAIN cases /\ v.int /\ v.key \in Int
  <2>1. n \in 1..Len(cases) /\ n \in DOMAIN cases BY DEF IInv, TypeInv, ScanKey
  <2> QED BY <2>1, CaseTypes DEF IInv, ScanKey
<1>2. /\ minVal' = IF scanned = 0 \/ v.key < minVal THEN v.key ELSE minVal
      /\ maxVal' = IF scanned = 0 \/ v.key > maxVal THEN v.key ELSE maxVal
      /\ scanned' = n
  BY DEF ScanKey
<1>3. UNCHANGED <<phase, cases, constants, here, bodies, layout, run>> BY DEF ScanKey
<1>4. \A j \in 1..scanned : cases[j].value.key \in Int
  <2> SUFFICES ASSUME NEW j \in 1..scanned PROVE cases[j].value.key \in Int OBVIOUS
  <2>1. j \in DOMAIN cases BY DEF IInv, TypeInv
  <2> QED BY <2>1, CaseTypes DEF IInv
<1>5. TypeInv' BY <1>1, <1>2, <1>3 DEF IInv, TypeInv, layout, run
<1>6. ScanInv'
  <2> HIDE DEF n, v
  <2>0. n = scanned + 1 /\ v = cases[n].value /\ scanned \in Nat BY DEF n, v, IInv, TypeInv
  <2>1. \A j \in 1..n : cases[j].value.int /\ minVal' <= cases[j].value.key
                        /\ cases[j].value.key <= maxVal'
    <3> SUFFICES ASSUME NEW j \in 1..n
                 PROVE  cases[j].value.int /\ minVal' <= cases[j].value.key
                        /\ cases[j].value.key <= maxVal'
      OBVIOUS
    <3>1. CASE j = n BY <3>1, <1>1, <1>2, <2>0 DEF IInv, TypeInv
    <3>2. CASE j # n
      <4>1. j \in 1..scanned BY <3>2, <2>0
      <4>2. scanned # 0 BY <4>1, <2>0
      <4>3. cases[j].value.int /\ minVal <= cases[j].value.key /\ cases[j].value.key <= maxVal
        BY <4>1 DEF IInv, ScanInv
      <4>4. minVal \in Int /\ maxVal \in Int BY DEF IInv, TypeInv
      <4> QED BY <4>1, <4>2, <4>3, <4>4, <1>1, <1>2, <1>4
    <3> QED BY <3>1, <3>2
  <2>2. \E j \in 1..n : minVal' = cases[j].value.key
    <3>1. CASE minVal' = v.key BY <3>1, <2>0, n \in 1..n
    <3>2. CASE minVal' # v.key
      <4>1. scanned # 0 /\ minVal' = minVal BY <3>2, <1>2
      <4>2. PICK j \in 1..scanned : minVal = cases[j].value.key BY <4>1 DEF IInv, ScanInv
      <4> QED BY <4>1, <4>2, <2>0
    <3> QED BY <3>1, <3>2
  <2>3. \E j \in 1..n : maxVal' = cases[j].value.key
    <3>1. CASE maxVal' = v.key BY <3>1, <2>0, n \in 1..n
    <3>2. CASE maxVal' # v.key
      <4>1. scanned # 0 /\ maxVal' = maxVal BY <3>2, <1>2
      <4>2. PICK j \in 1..scanned : maxVal = cases[j].value.key BY <4>1 DEF IInv, ScanInv
      <4> QED BY <4>1, <4>2, <2>0
    <3> QED BY <3>1, <3>2
  <2> QED BY <2>1, <2>2, <2>3, <1>2, <1>3 DEF ScanInv
<1>7. phase = "scan" /\ phase' = "scan" BY <1>3 DEF ScanKey
<1> QED BY <1>3, <1>5, <1>6, <1>7
     DEF IInv, HeaderInv, ByTable, BodiesInv, DispatchReachesCase, Distinct, Fits, run, layout

LEMMA UseScanStep == ASSUME IInv, UseScan PROVE IInv'
<1>1. UNCHANGED <<cases, minVal, maxVal, constants, here, bodies, scanned, layout, run>>
      /\ phase = "scan" /\ phase' = "linear"
  BY DEF UseScan
<1>2. TypeInv' BY <1>1 DEF IInv, TypeInv, Compiling, layout, run
<1> QED BY <1>1, <1>2
     DEF IInv, ScanInv, HeaderInv, ByTable, BodiesInv, DispatchReachesCase, Distinct, Fits,
         run, layout

(* The bounds are reached, so the number of entries fits a byte. *)
LEMMA EntriesFit ==
  ASSUME IInv, scanned = Len(cases), scanned # 0
  PROVE  Entries \in Nat \ {0} /\ Entries \notin {Byte, Byte + 1}
<1>1. PICK i \in 1..scanned : minVal = cases[i].value.key BY DEF IInv, ScanInv
<1>2. PICK j \in 1..scanned : maxVal = cases[j].value.key BY DEF IInv, ScanInv
<1>3. i \in DOMAIN cases /\ j \in DOMAIN cases BY <1>1, <1>2 DEF IInv, TypeInv
<1>4. cases[i].value.int /\ cases[j].value.int /\ minVal <= maxVal
  BY <1>1, <1>2 DEF IInv, ScanInv
<1>5. maxVal - minVal \notin {Byte - 1, Byte} BY <1>1, <1>2, <1>3, <1>4 DEF IInv, Fits
<1>6. minVal \in Int /\ maxVal \in Int /\ Byte \in Nat
  BY SwitchTableAssumption DEF IInv, TypeInv
<1> QED BY <1>4, <1>5, <1>6 DEF Entries

LEMMA EmitTableStep == ASSUME IInv, EmitTable PROVE IInv'
<1> DEFINE v == [int |-> TRUE, key |-> minVal]
           pool == addConstant(constants, v)
           i == CHOOSE i \in DOMAIN pool : pool[i] = v
<1>1. /\ scanned = Len(cases) /\ scanned # 0 /\ phase = "scan" /\ phase' = "default"
      /\ constants' = pool /\ minIdx' = (i - 1) % Byte /\ count' = Entries % Byte
      /\ tableStart' = here + 3 /\ here' = here + 3 + 2 * Entries
      /\ maxVal - minVal <= Byte
      /\ UNCHANGED <<cases, minVal, maxVal, scanned, bodies, table, caseAddresses,
                     defaultAddr, run>>
  <2>1. maxVal \in Int /\ minVal \in Int /\ Byte \in Nat
    BY SwitchTableAssumption DEF IInv, TypeInv
  <2> QED BY <2>1 DEF EmitTable, IndexOf, TooSparse
<1>2. v \in Values BY DEF IInv, TypeInv, Values
<1>3. constants \in Seq(Values) /\ Len(constants) < Byte BY <1>1 DEF IInv, TypeInv, BodiesInv
<1>4. pool \in Seq(Values) /\ Len(pool) <= Byte /\ \E k \in DOMAIN pool : pool[k] = v
  <2> HIDE DEF v
  <2>0. Byte \in Nat BY SwitchTableAssumption
  <2>1. CASE Holds(constants, v) BY <2>0, <2>1, <1>3 DEF addConstant, Holds
  <2>2. CASE ~Holds(constants, v)
    <3>1. pool = Append(constants, v) BY <2>2 DEF addConstant
    <3>2. Len(constants) + 1 \in DOMAIN pool /\ pool[Len(constants) + 1] = v
      BY <3>1, <1>2, <1>3
    <3> QED BY <3>1, <3>2, <1>2, <1>3, <2>0
  <2> QED BY <2>1, <2>2
<1>5. i \in DOMAIN pool /\ pool[i] = v BY <1>4
<1>6. minIdx' = i - 1
  <2> HIDE DEF pool
  <2>1. i \in 1..Len(pool) BY <1>4, <1>5
  <2> HIDE DEF i
  <2>2. Byte \in Nat \ {0} BY SwitchTableAssumption
  <2>3. i - 1 \in 0..(Byte - 1) BY <1>4, <2>1, <2>2
  <2>4. (i - 1) % Byte = i - 1 BY <2>2, <2>3
  <2> QED BY <2>4, <1>1
<1>7. Entries \in Nat \ {0} /\ Entries < Byte /\ Entries' = Entries
  <2>1. Entries <= Byte + 1
    <3>1. maxVal \in Int /\ minVal \in Int /\ Byte \in Nat
      BY SwitchTableAssumption DEF IInv, TypeInv
    <3> QED BY <3>1, <1>1 DEF Entries
  <2>2. Entries \in Nat \ {0} /\ Entries \notin {Byte, Byte + 1} BY <1>1, EntriesFit
  <2>3. Entries' = Entries BY <1>1 DEF Entries
  <2> QED BY <2>1, <2>2, <2>3, SwitchTableAssumption
<1>8. count' = Entries
  <2>1. Byte \in Nat \ {0} BY SwitchTableAssumption
  <2>2. Entries \in 0..(Byte - 1) BY <1>7, <2>1
  <2>3. ASSUME NEW n \in 0..(Byte - 1) PROVE n % Byte = n BY <2>1
  <2> QED BY <2>2, <2>3, <1>1
<1>9. TypeInv'
  <2>1. minIdx' \in Nat
    <3> HIDE DEF pool
    <3>1. i \in 1..Len(pool) /\ Len(pool) \in Nat BY <1>4, <1>5
    <3> HIDE DEF i
    <3> QED BY <3>1, <1>6
  <2>2. constants' \in Seq(Values) BY <1>1, <1>4
  <2>3. count' \in Nat /\ here' \in Nat /\ tableStart' \in Nat
    <3>1. here \in Nat BY DEF IInv, TypeInv
    <3> QED BY <3>1, <1>1, <1>7, <1>8
  <2> HIDE DEF i, pool, v
  <2> QED BY <2>1, <2>2, <2>3, <1>1 DEF IInv, TypeInv, Compiling, run
<1>10. HeaderInv'
  <2>1. minIdx' + 1 \in DOMAIN constants' /\ constants'[minIdx' + 1] = v
    <3> HIDE DEF pool, v
    <3>1. i \in 1..Len(pool) BY <1>4, <1>5
    <3> HIDE DEF i
    <3>2. minIdx' + 1 = i BY <3>1, <1>6
    <3> QED BY <3>2, <1>1, <1>5
  <2>2. minIdx' + 1 \in DOMAIN constants' /\ constants'[minIdx' + 1].key = minVal BY <2>1
  <2>3. here' = tableStart' + 2 * Entries
    <3>1. here \in Nat BY DEF IInv, TypeInv
    <3> QED BY <3>1, <1>1, <1>7
  <2> HIDE DEF i, pool, v
  <2> QED BY <2>2, <2>3, <1>1, <1>7, <1>8 DEF HeaderInv, ByTable
<1>11. ScanInv' BY <1>1 DEF IInv, ScanInv
<1>12. BodiesInv' BY <1>1 DEF IInv, BodiesInv
<1> HIDE DEF i, pool, v
<1> QED BY <1>1, <1>9, <1>10, <1>11, <1>12
     DEF IInv, DispatchReachesCase, Distinct, Fits, run

LEMMA EmitDefaultStep == ASSUME IInv, EmitDefault PROVE IInv'
<1>1. /\ phase = "default" /\ phase' = "bodies" /\ defaultAddr' = here
      /\ here' = here + BodyEnd
      /\ UNCHANGED <<cases, minVal, maxVal, constants, scanned, bodies, tableStart,
                     minIdx, count, table, caseAddresses, run>>
  BY DEF EmitDefault
<1>2. here \in Nat /\ here' = here + 4 BY <1>1 DEF IInv, TypeInv, BodyEnd
<1>3. TypeInv' BY <1>1, <1>2 DEF IInv, TypeInv, Compiling, run
<1>4. Entries' = Entries /\ here = tableStart + 2 * Entries /\ bodies = <<>>
      /\ caseAddresses = <<>>
  BY <1>1 DEF IInv, HeaderInv, BodiesInv, ByTable, Entries
<1>5. HeaderInv' BY <1>1, <1>4 DEF IInv, HeaderInv, ByTable
<1>6. BodiesInv'
  <2>1. DOMAIN caseAddresses = {cases[j].value.key : j \in 1..Len(bodies)}
    BY <1>4
  <2>2. 1..Len(bodies) = {} BY <1>4
  <2> QED BY <1>1, <1>2, <1>4, <2>1, <2>2 DEF BodiesInv
<1>7. ScanInv' BY <1>1 DEF IInv, ScanInv
<1> QED BY <1>1, <1>3, <1>5, <1>6, <1>7
     DEF IInv, DispatchReachesCase, Distinct, Fits, run

(* Writing under a new key leaves the other bodies under theirs.           *)
LEMMA EmitBodyStep == ASSUME IInv, EmitBody PROVE IInv'
<1> DEFINE n == Len(bodies) + 1
           k == cases[n].value.key
<1>1. /\ phase = "bodies" /\ Len(bodies) < Len(cases)
      /\ bodies' = Append(bodies, here)
      /\ caseAddresses' = [q \in DOMAIN caseAddresses \cup {k} |->
                             IF q = k THEN here ELSE caseAddresses[q]]
      /\ here' = here + cases[n].len + 4
      /\ UNCHANGED <<phase, cases, minVal, maxVal, constants, scanned, tableStart,
                     minIdx, count, table, defaultAddr, run>>
  BY DEF EmitBody, nextCase, BodyEnd
<1>2. n \in DOMAIN cases /\ n \in Nat BY <1>1 DEF IInv, TypeInv
<1>3. k \in Int /\ cases[n].len \in Nat BY <1>2, CaseTypes DEF IInv
<1>4. here \in Nat /\ here' \in Nat /\ here <= here' BY <1>1, <1>3, SMTT(30) DEF IInv, TypeInv
<1>5. bodies \in Seq(Nat) /\ bodies' \in Seq(Nat) /\ Len(bodies') = n /\ bodies'[n] = here
      /\ \A j \in 1..Len(bodies) : bodies'[j] = bodies[j]
  BY <1>1, <1>4 DEF IInv, TypeInv
<1>6. TypeInv' BY <1>1, <1>2, <1>4, <1>5 DEF IInv, TypeInv, run
<1>7. /\ defaultAddr = tableStart + 2 * Entries /\ defaultAddr <= here
      /\ DOMAIN caseAddresses = {cases[j].value.key : j \in 1..Len(bodies)}
      /\ \A j \in 1..Len(bodies) :
           /\ caseAddresses[cases[j].value.key] = bodies[j]
           /\ tableStart + 2 * Entries <= bodies[j] /\ bodies[j] <= here
      /\ Entries' = Entries /\ scanned = Len(cases)
  BY <1>1 DEF IInv, BodiesInv, HeaderInv, ByTable, Entries
<1>8. defaultAddr \in Nat BY DEF IInv, TypeInv
<1>9. \A j \in 1..Len(bodies) : cases[j].value.key # k
  <2> SUFFICES ASSUME NEW j \in 1..Len(bodies), cases[j].value.key = k PROVE FALSE OBVIOUS
  <2>1. j \in DOMAIN cases /\ j # n BY <1>2, <1>5 DEF IInv, TypeInv
  <2>2. cases[j].value.int /\ cases[n].value.int
    <3>1. j \in 1..scanned /\ n \in 1..scanned BY <1>2, <1>7, <2>1 DEF IInv, TypeInv
    <3> QED BY <3>1 DEF IInv, ScanInv
  <2>3. cases[j].value.int \in BOOLEAN /\ cases[n].value.int \in BOOLEAN
    <3>1. cases[j].value \in Values /\ cases[n].value \in Values
      BY <1>2, <2>1, CaseTypes DEF IInv
    <3> QED BY <3>1 DEF Values
  <2>4. cases[j].value = cases[n].value
    <3>1. cases[j].value = [int |-> cases[j].value.int, key |-> cases[j].value.key]
          /\ cases[n].value = [int |-> cases[n].value.int, key |-> cases[n].value.key]
      BY <1>2, <2>1, CaseTypes DEF IInv
    <3>2. cases[j].value.int = cases[n].value.int BY <2>2, <2>3
    <3> QED BY <3>1, <3>2
  <2> QED BY <2>1, <2>4, <1>2 DEF IInv, Distinct
<1>10. BodiesInv'
  <2> HIDE DEF k
  <2>0. k = cases[n].value.key BY DEF k
  <2>1. DOMAIN caseAddresses' = DOMAIN caseAddresses \cup {k} BY <1>1
  <2>2. DOMAIN caseAddresses' = {cases[j].value.key : j \in 1..n}
    <3>1. 1..n = 1..Len(bodies) \cup {n} BY <1>2, <1>5
    <3> HIDE DEF n
    <3> QED BY <3>1, <2>0, <2>1, <1>7
  <2>3. \A j \in 1..n : /\ caseAddresses'[cases[j].value.key] = bodies'[j]
                        /\ tableStart + 2 * Entries <= bodies'[j] /\ bodies'[j] <= here'
    <3> SUFFICES ASSUME NEW j \in 1..n
                 PROVE  /\ caseAddresses'[cases[j].value.key] = bodies'[j]
                        /\ tableStart + 2 * Entries <= bodies'[j] /\ bodies'[j] <= here'
      OBVIOUS
    <3>1. CASE j = n
      <4>1. caseAddresses'[k] = here BY <1>1
      <4> QED BY <3>1, <4>1, <2>0, <1>4, <1>5, <1>7, <1>8
    <3>2. CASE j # n
      <4>1. j \in 1..Len(bodies) BY <3>2, <1>2
      <4>2. cases[j].value.key # k /\ cases[j].value.key \in DOMAIN caseAddresses
        BY <4>1, <1>7, <1>9
      <4>3. caseAddresses'[cases[j].value.key] = caseAddresses[cases[j].value.key]
        BY <4>2, <1>1
      <4>4. bodies'[j] = bodies[j] /\ bodies[j] \in Nat BY <4>1, <1>5
      <4> QED BY <4>1, <4>3, <4>4, <1>4, <1>7, SMTT(30)
    <3> QED BY <3>1, <3>2
  <2>4. defaultAddr' = tableStart' + 2 * Entries' /\ defaultAddr' <= here'
    BY <1>1, <1>4, <1>7, <1>8
  <2> QED BY <2>2, <2>3, <2>4, <1>1, <1>5, <1>7, ZenonT(30) DEF BodiesInv
<1>11. HeaderInv' BY <1>1, <1>7 DEF IInv, HeaderInv, ByTable
<1>12. ScanInv' BY <1>1 DEF IInv, ScanInv
<1> HIDE DEF k, n
<1> QED BY <1>1, <1>6, <1>10, <1>11, <1>12
     DEF IInv, DispatchReachesCase, Distinct, Fits, run

LEMMA FillTableStep == ASSUME IInv, FillTable, here <= Word PROVE IInv'
<1>1. /\ phase = "bodies" /\ phase' = "table" /\ Len(bodies) = Len(cases)
      /\ table' = [i \in 0..(Entries - 1) |->
                     (Destination(i) - (tableStart + 2 * i) - 2) % Word]
      /\ UNCHANGED <<cases, minVal, maxVal, constants, here, bodies, scanned, tableStart,
                     minIdx, count, caseAddresses, defaultAddr, run>>
  BY DEF FillTable
<1>2. TypeInv' BY <1>1 DEF IInv, TypeInv, Compiling, run
<1>3. /\ defaultAddr = tableStart + 2 * Entries /\ defaultAddr <= here
      /\ DOMAIN caseAddresses = {cases[j].value.key : j \in 1..Len(bodies)}
      /\ \A j \in 1..Len(bodies) :
           /\ caseAddresses[cases[j].value.key] = bodies[j]
           /\ tableStart + 2 * Entries <= bodies[j] /\ bodies[j] <= here
      /\ Entries' = Entries /\ scanned = Len(cases) /\ scanned # 0
  BY <1>1 DEF IInv, BodiesInv, HeaderInv, ByTable, Entries
<1>4. Entries \in Nat BY <1>3, EntriesFit
<1>5. \A i \in 0..(Entries - 1) : Destination(i)' = Destination(i)
  BY <1>1 DEF Destination
<1>6. \A i \in 0..(Entries - 1) : table'[i] = Destination(i) - (tableStart + 2 * i) - 2
  <2> SUFFICES ASSUME NEW i \in 0..(Entries - 1)
               PROVE  table'[i] = Destination(i) - (tableStart + 2 * i) - 2
    OBVIOUS
  <2> DEFINE d == Destination(i) - (tableStart + 2 * i) - 2
  <2>1. Destination(i) \in Nat /\ tableStart + 2 * Entries <= Destination(i)
        /\ Destination(i) <= here
    <3>1. CASE minVal + i \in DOMAIN caseAddresses
      <4>1. PICK j \in 1..Len(bodies) : minVal + i = cases[j].value.key BY <3>1, <1>3
      <4>2. Destination(i) = bodies[j] BY <3>1, <4>1, <1>3 DEF Destination
      <4>3. bodies[j] \in Nat BY <4>1 DEF IInv, TypeInv
      <4> QED BY <4>1, <4>2, <4>3, <1>3
    <3>2. CASE minVal + i \notin DOMAIN caseAddresses
      <4>1. Destination(i) = defaultAddr /\ defaultAddr \in Nat
        BY <3>2 DEF Destination, IInv, TypeInv
      <4>2. tableStart \in Nat BY DEF IInv, TypeInv
      <4> QED BY <4>1, <4>2, <1>3, <1>4
    <3> QED BY <3>1, <3>2
  <2>2. tableStart \in Nat /\ here \in Nat /\ Word \in Nat \ {0}
    BY SwitchTableAssumption DEF IInv, TypeInv
  <2>3. i \in Nat /\ i <= Entries - 1 BY <1>4
  <2>4. d \in 0..(Word - 1)
    <3> HIDE DEF d
    <3>1. d = Destination(i) - (tableStart + 2 * i) - 2 BY DEF d
    <3> QED BY ONLY <3>1, <2>1, <2>2, <2>3, <1>4, here <= Word
  <2>5. ASSUME NEW x \in 0..(Word - 1) PROVE x % Word = x BY <2>2
  <2>6. d % Word = d BY <2>4, <2>5
  <2> QED BY <2>6, <1>1
<1>7. BodiesInv'
  <2>1. \A i \in 0..(Entries - 1) :
          table'[i] = Destination(i)' - (tableStart' + 2 * i) - 2
    BY <1>1, <1>5, <1>6
  <2> QED BY <2>1, <1>1, <1>3 DEF BodiesInv
<1>8. HeaderInv' BY <1>1, <1>3 DEF IInv, HeaderInv, ByTable
<1>9. ScanInv' BY <1>1 DEF IInv, ScanInv
<1>10. DispatchReachesCase' BY <1>1 DEF IInv, DispatchReachesCase, run
<1> QED BY <1>1, <1>2, <1>7, <1>8, <1>9, <1>10 DEF IInv, Distinct, Fits

LEMMA LinearStep == ASSUME IInv, EmitTest \/ EmitLastDefault PROVE IInv'
<1>1. here \in Nat BY DEF IInv, TypeInv
<1>2. CASE EmitTest
  <2>1. /\ phase = "linear" /\ Len(bodies) < Len(cases)
        /\ bodies' = Append(bodies, here + 9)
        /\ here' = here + 9 + cases[Len(bodies) + 1].len + 4 + 1
        /\ UNCHANGED <<phase, cases, minVal, maxVal, constants, scanned, layout, run>>
    BY <1>2 DEF EmitTest, nextCase, BodyEnd
  <2>2. Len(bodies) + 1 \in DOMAIN cases BY <2>1 DEF IInv, TypeInv
  <2>3. cases[Len(bodies) + 1].len \in Nat BY <2>2, CaseTypes DEF IInv
  <2>4. TypeInv'
    <3>1. bodies \in Seq(Nat) /\ here + 9 \in Nat BY <1>1 DEF IInv, TypeInv
    <3>2. bodies' \in Seq(Nat) /\ Len(bodies') = Len(bodies) + 1 BY ONLY <2>1, <3>1
    <3>3. here' \in Nat BY ONLY <1>1, <2>1, <2>3
    <3> QED BY <2>1, <3>2, <3>3 DEF IInv, TypeInv, layout, run
  <2> QED BY <2>1, <2>4
       DEF IInv, ScanInv, HeaderInv, ByTable, BodiesInv, DispatchReachesCase, Distinct,
           Fits, layout, run
<1>3. CASE EmitLastDefault
  <2>1. /\ phase = "linear" /\ phase' = "tests" /\ defaultAddr' = here
        /\ here' = here + 4
        /\ UNCHANGED <<cases, minVal, maxVal, constants, bodies, scanned, tableStart,
                       minIdx, count, table, caseAddresses, run>>
    BY <1>3 DEF EmitLastDefault, BodyEnd
  <2>2. TypeInv' BY <1>1, <2>1 DEF IInv, TypeInv, Compiling, run
  <2> QED BY <2>1, <2>2
       DEF IInv, ScanInv, HeaderInv, ByTable, BodiesInv, DispatchReachesCase, Distinct,
           Fits, run
<1> QED BY <1>2, <1>3

(* The heart of the matter: the jump of OP_SWITCH_TABLE is right.          *)
LEMMA TableJumpRight ==
  ASSUME IInv, phase = "table", NEW v \in Values
  PROVE  TableJump(v) = BodyOf(v)
<1> DEFINE at == v.key - minVal
<1>1. /\ defaultAddr = tableStart + 2 * Entries
      /\ DOMAIN caseAddresses = {cases[j].value.key : j \in 1..Len(bodies)}
      /\ \A j \in 1..Len(bodies) : caseAddresses[cases[j].value.key] = bodies[j]
      /\ \A i \in 0..(Entries - 1) :
           table[i] = Destination(i) - (tableStart + 2 * i) - 2
      /\ Len(bodies) = Len(cases) /\ scanned = Len(cases) /\ scanned # 0
      /\ count = Entries /\ constants[minIdx + 1].key = minVal
  BY DEF IInv, BodiesInv, HeaderInv, ByTable
<1>2. v.int \in BOOLEAN /\ v.key \in Int /\ v = [int |-> v.int, key |-> v.key] BY DEF Values
<1>3. minVal \in Int /\ maxVal \in Int /\ tableStart \in Nat /\ Entries \in Nat
  BY <1>1, EntriesFit DEF IInv, TypeInv
<1>4. \A j \in 1..Len(cases) : /\ j \in DOMAIN cases /\ cases[j].value.int = TRUE
                               /\ minVal <= cases[j].value.key
                               /\ cases[j].value.key <= maxVal
  <2> SUFFICES ASSUME NEW j \in 1..Len(cases)
               PROVE  /\ j \in DOMAIN cases /\ cases[j].value.int = TRUE
                      /\ minVal <= cases[j].value.key /\ cases[j].value.key <= maxVal
    OBVIOUS
  <2>1. j \in DOMAIN cases BY DEF IInv, TypeInv
  <2>2. cases[j].value.int \in BOOLEAN BY <2>1, CaseTypes DEF IInv, Values
  <2> QED BY <2>1, <2>2, <1>1 DEF IInv, ScanInv
<1>5. \A j \in DOMAIN cases : j \in 1..Len(cases) BY DEF IInv, TypeInv
<1>6. ASSUME NEW j \in DOMAIN cases, cases[j].value = v PROVE TableJump(v) = bodies[j]
  <2>1. v.int = TRUE /\ minVal <= v.key /\ v.key <= maxVal BY <1>4, <1>5, <1>6
  <2>2. at \in 0..(Entries - 1) BY <2>1, <1>2, <1>3 DEF Entries
  <2>3. minVal + at = v.key BY <1>2, <1>3
  <2>4. Destination(at) = bodies[j] BY <2>3, <1>1, <1>5, <1>6 DEF Destination
  <2>5. TableJump(v) = tableStart + 2 * at + 2 + table[at]
    BY <2>1, <2>2, <1>1, <1>3 DEF TableJump
  <2>6. table[at] = bodies[j] - (tableStart + 2 * at) - 2 BY <2>2, <2>4, <1>1
  <2>7. bodies[j] \in Nat BY <1>1, <1>5, SMTT(30) DEF IInv, TypeInv
  <2> HIDE DEF at
  <2> QED BY <2>2, <2>5, <2>6, <2>7, <1>3
<1>7. ASSUME \A j \in DOMAIN cases : cases[j].value # v PROVE TableJump(v) = defaultAddr
  <2>1. CASE ~v.int \/ ~(0 <= at /\ at < count) BY <2>1, <1>1 DEF TableJump
  <2>2. CASE v.int /\ 0 <= at /\ at < count
    <3>1. at \in 0..(Entries - 1) /\ minVal + at = v.key BY <2>2, <1>1, <1>2, <1>3
    <3>2. v.key \notin DOMAIN caseAddresses
      <4> SUFFICES ASSUME NEW j \in 1..Len(cases), v.key = cases[j].value.key PROVE FALSE
        BY <1>1
      <4>1. j \in DOMAIN cases /\ cases[j].value.int = v.int BY <2>2, <1>2, <1>4
      <4>2. cases[j].value = v BY <4>1, <1>2, CaseTypes DEF IInv
      <4> QED BY <4>1, <4>2, <1>7
    <3>3. Destination(at) = defaultAddr BY <3>1, <3>2 DEF Destination
    <3>4. table[at] = defaultAddr - (tableStart + 2 * at) - 2 BY <3>1, <3>3, <1>1
    <3>5. TableJump(v) = tableStart + 2 * at + 2 + table[at] BY <2>2, <1>1 DEF TableJump
    <3>6. defaultAddr \in Nat BY DEF IInv, TypeInv
    <3> HIDE DEF at
    <3> QED BY <3>1, <3>4, <3>5, <3>6, <1>3
  <2> QED BY <2>1, <2>2
<1>8. CASE \E j \in DOMAIN cases : cases[j].value = v
  <2>1. PICK j \in DOMAIN cases : cases[j].value = v BY <1>8
  <2> QED BY <2>1, <1>6, OnlyMatch DEF IInv
<1>9. CASE \A j \in DOMAIN cases : cases[j].value # v
  <2>1. Matching(v) = {} BY <1>9 DEF Matching
  <2> QED BY <2>1, <1>7, <1>9 DEF BodyOf
<1> QED BY <1>8, <1>9

LEMMA DispatchStep == ASSUME IInv, DispatchByTable \/ DispatchByScan PROVE IInv'
<1>1. UNCHANGED <<phase, cases, minVal, maxVal, constants, here, bodies, scanned, layout>>
      /\ phase \in {"table", "tests"}
  BY DEF DispatchByTable, DispatchByScan
<1>2. target' \in Values /\ ip' = BodyOf(target')
  <2>1. CASE DispatchByTable
    <3>1. PICK v \in Targets : target' = v /\ ip' = TableJump(v) BY <2>1 DEF DispatchByTable
    <3>2. v \in Values BY <3>1, SwitchTableAssumption
    <3>3. phase = "table" BY <2>1 DEF DispatchByTable
    <3> QED BY <3>1, <3>2, <3>3, TableJumpRight
  <2>2. CASE DispatchByScan BY <2>2, SwitchTableAssumption DEF DispatchByScan
  <2> QED BY <2>1, <2>2
<1>3. TypeInv' BY <1>1, <1>2 DEF IInv, TypeInv, layout
<1>4. BodyOf(target') = BodyOf(target)'
  BY <1>1 DEF BodyOf, First, Matching, layout
<1>5. DispatchReachesCase' BY <1>2, <1>4 DEF DispatchReachesCase
<1>6. BodiesInv' BY <1>1 DEF IInv, BodiesInv, Destination, Entries, layout
<1>7. HeaderInv' BY <1>1 DEF IInv, HeaderInv, ByTable, Entries, layout
<1>8. ScanInv' BY <1>1 DEF IInv, ScanInv
<1> QED BY <1>1, <1>3, <1>5, <1>6, <1>7, <1>8 DEF IInv, Distinct, Fits

LEMMA StepInv == ASSUME IInv, [Next]_vars, here <= Word PROVE IInv'
<1>1. CASE ScanKey \/ UseScan BY <1>1, ScanKeyStep, UseScanStep
<1>2. CASE EmitTable \/ EmitDefault \/ EmitBody
  BY <1>2, EmitTableStep, EmitDefaultStep, EmitBodyStep
<1>3. CASE FillTable BY <1>3, FillTableStep
<1>4. CASE EmitTest \/ EmitLastDefault BY <1>4, LinearStep
<1>5. CASE DispatchByTable \/ DispatchByScan BY <1>5, DispatchStep
<1>6. CASE UNCHANGED vars
  <2>1. UNCHANGED <<phase, cases, minVal, maxVal, constants, here, tableStart, minIdx,
                    count, table, caseAddresses, defaultAddr, bodies, scanned, target, ip>>
    BY <1>6 DEF vars
  <2> QED BY <2>1 DEF IInv, TypeInv, ScanInv, HeaderInv, ByTable, BodiesInv, Destination,
                Entries, DispatchReachesCase, BodyOf, First, Matching, Distinct, Fits
<1> QED BY <1>1, <1>2, <1>3, <1>4, <1>5, <1>6 DEF Next

----------------------------------------------------------------------------
(* If no two cases are alike and no span of keys is one of the two the     *)
(* compiler wrongly admits, if the constants fit a byte and the code fits  *)
(* a table entry, a switch executes the body of its case, whichever form   *)
(* it was compiled to (compiler.cpp, StmtType::SWITCH; OP_SWITCH_TABLE).   *)
THEOREM SwitchRight ==
  ASSUME Hypotheses
  PROVE  Spec /\ [](here <= Word) => []DispatchReachesCase
<1>1. Init => IInv BY InitInv
<1>2. IInv /\ here <= Word /\ [Next]_vars => IInv' BY StepInv
<1>3. IInv => DispatchReachesCase BY DEF IInv
<1> QED BY <1>1, <1>2, <1>3, PTL DEF Spec
============================================================================
