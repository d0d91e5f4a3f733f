---------------------------- MODULE SwitchTable ----------------------------
(***************************************************************************)
(* How a switch statement finds its case: the choice between a jump table  *)
(* and a linear scan, the layout of either in the chunk (StmtType::SWITCH  *)
(* of src/src/compiler.cpp) and OP_SWITCH_TABLE (src/src/vm.cpp).          *)
(*                                                                         *)
(* Addresses count bytes from the start of the statement's code.  What a   *)
(* body does is abstracted to its length; CodeGen models the control flow  *)
(* of the linear form.  A value is a number with its type: only integers   *)
(* may index the table.                                                    *)
(***************************************************************************)
EXTENDS Integers, Sequences

CONSTANTS
  Byte,     \* number of values of uint8_t (256)
  Word,     \* number of values of uint16_t (65536)
  Switches, \* the switch statements: sequences of cases
  Pools,    \* the constants a chunk may hold before the statement
  Targets   \* the values the switch may find at run time

Values == [int : BOOLEAN, key : Int]
Cases == [value : Values, len : Nat]

ASSUME SwitchTableAssumption ==
  /\ Byte \in Nat \ {0} /\ Word \in Nat \ {0}
  /\ Switches \subseteq Seq(Cases)
  /\ Pools \subseteq Seq(Values)
  /\ Targets \subseteq Values

VARIABLES
  phase,         \* what the compiler, then the machine, does next
  cases,         \* SwitchStmt::cases
  minVal,        \* the least key scanned so far
  maxVal,        \* the greatest
  constants,     \* Chunk::constants
  here,          \* code.size()
  tableStart,    \* address of the table
  minIdx,        \* first operand of OP_SWITCH_TABLE
  count,         \* second operand of OP_SWITCH_TABLE
  table,         \* the entries, once filled in
  caseAddresses, \* the map of the compiler, from keys to bodies
  defaultAddr,   \* address of the default body
  bodies,        \* address of the body of each case compiled
  scanned,       \* number of cases scanned for their keys
  target,        \* the value switched on
  ip             \* the address OP_SWITCH_TABLE, or the scan, goes to

vars == <<phase, cases, minVal, maxVal, constants, here, tableStart, minIdx,
          count, table, caseAddresses, defaultAddr, bodies, scanned, target, ip>>

layout == <<tableStart, minIdx, count, table, caseAddresses, defaultAddr>>
run == <<target, ip>>

----------------------------------------------------------------------------
(* Choosing the form. *)

Init ==
  /\ phase = "scan"
  /\ cases \in Switches
  /\ constants \in Pools
  /\ minVal = 0 /\ maxVal = 0 /\ scanned = 0
  /\ here = 0
  /\ tableStart = 0 /\ minIdx = 0 /\ count = 0
  /\ table = <<>> /\ caseAddresses = <<>>
  /\ defaultAddr = 0 /\ bodies = <<>>
  /\ target = [int |-> FALSE, key |-> 0] /\ ip = 0

(* The next case is an integer literal. *)
ScanKey ==
  /\ phase = "scan"
  /\ scanned < Len(cases)
  /\ LET v == cases[scanned + 1].value IN
     /\ v.int
     /\ minVal' = IF scanned = 0 \/ v.key < minVal THEN v.key ELSE minVal
     /\ maxVal' = IF scanned = 0 \/ v.key > maxVal THEN v.key ELSE maxVal
  /\ scanned' = scanned + 1
  /\ UNCHANGED <<phase, cases, constants, here, bodies, layout, run>>

(* The compiler allows the span of a table one byte, and then some. *)
TooSparse == maxVal - minVal > Byte

UseScan ==
  /\ phase = "scan"
  /\ \/ scanned < Len(cases) /\ ~cases[scanned + 1].value.int
     \/ scanned = Len(cases) /\ (scanned = 0 \/ TooSparse)
  /\ phase' = "linear"
  /\ UNCHANGED <<cases, minVal, maxVal, constants, here, bodies, scanned, layout, run>>

----------------------------------------------------------------------------
(* The jump table. *)

Holds(pool, v) == \E i \in DOMAIN pool : pool[i] = v

(* addConstant: equal constants share one entry. *)
addConstant(pool, v) == IF Holds(pool, v) THEN pool ELSE Append(pool, v)
IndexOf(pool, v) == (CHOOSE i \in DOMAIN pool : pool[i] = v) - 1

(* Variant: the entry of the greatest key is forgotten. *)
EntriesButLast == maxVal - minVal

Entries == maxVal - minVal + 1

(* OP_SWITCH_TABLE, its operands, each one byte, and room for the entries. *)
EmitTable ==
  /\ phase = "scan"
  /\ scanned = Len(cases) /\ scanned # 0 /\ ~TooSparse
  /\ LET v == [int |-> TRUE, key |-> minVal]
         pool == addConstant(constants, v)
     IN  /\ constants' = pool
         /\ minIdx' = IndexOf(pool, v) % Byte
  /\ count' = Entries % Byte
  /\ tableStart' = here + 3
  /\ here' = here + 3 + 2 * Entries
  /\ phase' = "default"
  /\ UNCHANGED <<cases, minVal, maxVal, scanned, bodies, table, caseAddresses,
                 defaultAddr, run>>

(* A body ends with OP_POP and OP_LOOP: four bytes. *)
BodyEnd == 4

(* The default body stands first.  It is empty here. *)
EmitDefault ==
  /\ phase = "default"
  /\ defaultAddr' = here
  /\ here' = here + BodyEnd
  /\ phase' = "bodies"
  /\ UNCHANGED <<cases, minVal, maxVal, constants, scanned, bodies, tableStart,
                 minIdx, count, table, caseAddresses, run>>

nextCase == cases[Len(bodies) + 1]

EmitBody ==
  /\ phase = "bodies"
  /\ Len(bodies) < Len(cases)
  /\ bodies' = Append(bodies, here)
  /\ caseAddresses' =
       [k \in DOMAIN caseAddresses \cup {nextCase.value.key} |->
          IF k = nextCase.value.key THEN here ELSE caseAddresses[k]]
  /\ here' = here + nextCase.len + BodyEnd
  /\ UNCHANGED <<phase, cases, minVal, maxVal, constants, scanned, tableStart,
                 minIdx, count, table, defaultAddr, run>>

(* Where the entry of key minVal + i leads. *)
Destination(i) ==
  IF minVal + i \in DOMAIN caseAddresses THEN caseAddresses[minVal + i] ELSE defaultAddr

(* An entry is the distance from its own end, in sixteen bits. *)
FillTable ==
  /\ phase = "bodies"
  /\ Len(bodies) = Len(cases)
  /\ table' = [i \in 0..(Entries - 1) |->
                 (Destination(i) - (tableStart + 2 * i) - 2) % Word]
  /\ phase' = "table"
  /\ UNCHANGED <<cases, minVal, maxVal, constants, here, bodies, scanned, tableStart,
                 minIdx, count, caseAddresses, defaultAddr, run>>

----------------------------------------------------------------------------
(* The linear scan: GET_LOCAL, the value, STRICT_EQ, JUMP_IF_FALSE and POP *)
(* before each body, a POP after it, and the default body at the end.      *)

EmitTest ==
  /\ phase = "linear"
  /\ Len(bodies) < Len(cases)
  /\ bodies' = Append(bodies, here + 9)
  /\ here' = here + 9 + nextCase.len + BodyEnd + 1
  /\ UNCHANGED <<phase, cases, minVal, maxVal, constants, scanned, layout, run>>

EmitLastDefault ==
  /\ phase = "linear"
  /\ Len(bodies) = Len(cases)
  /\ defaultAddr' = here
  /\ here' = here + BodyEnd
  /\ phase' = "tests"
  /\ UNCHANGED <<cases, minVal, maxVal, constants, bodies, scanned, tableStart,
                 minIdx, count, table, caseAddresses, run>>

----------------------------------------------------------------------------
(* Running.  A body that does not break evaluates the switch again, so a   *)
(* dispatch may follow a dispatch.                                         *)

Matching(v) == {i \in DOMAIN cases : cases[i].value = v}
First(v) == CHOOSE i \in Matching(v) : \A j \in Matching(v) : i <= j

(* The body a switch on v has to execute: that of the first case equal to  *)
(* v, or the default body.                                                 *)
BodyOf(v) == IF Matching(v) = {} THEN defaultAddr ELSE bodies[First(v)]

(* OP_SWITCH_TABLE *)
TableJump(v) ==
  LET at == v.key - constants[minIdx + 1].key IN
  IF v.int /\ 0 <= at /\ at < count
  THEN tableStart + 2 * at + 2 + table[at]
  ELSE tableStart + 2 * count

DispatchByTable ==
  /\ phase = "table"
  /\ \E v \in Targets : target' = v /\ ip' = TableJump(v)
  /\ UNCHANGED <<phase, cases, minVal, maxVal, constants, here, bodies, scanned, layout>>

DispatchByScan ==
  /\ phase = "tests"
  /\ \E v \in Targets : target' = v /\ ip' = BodyOf(v)
  /\ UNCHANGED <<phase, cases, minVal, maxVal, constants, here, bodies, scanned, layout>>

Next ==
  \/ ScanKey \/ UseScan
  \/ EmitTable \/ EmitDefault \/ EmitBody \/ FillTable
  \/ EmitTest \/ EmitLastDefault
  \/ DispatchByTable \/ DispatchByScan

Spec == Init /\ [][Next]_vars

----------------------------------------------------------------------------
(* What a switch must be for its table to be right: no two cases alike,    *)
(* and no two keys so far apart that the number of entries is the first    *)
(* that does not fit a byte, or the second.                                *)
Distinct(s) == \A i, j \in DOMAIN s : s[i].value = s[j].value => i = j
Fits(s) == \A i, j \in DOMAIN s :
  s[i].value.int /\ s[j].value.int => s[j].value.key - s[i].value.key \notin {Byte - 1, Byte}

(* A switch executes the body of the first case equal to its value, and    *)
(* the default body when there is none, whichever form the compiler chose. *)
DispatchReachesCase ==
  phase \in {"table", "tests"} /\ ip # 0 => ip = BodyOf(target)
============================================================================
