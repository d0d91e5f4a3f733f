--------------------------- MODULE MCSwitchTable ---------------------------
(* Switches of up to three cases over chosen keys. *)
EXTENDS SwitchTable

CONSTANTS MCKeys, MCLens

Int1(k) == [int |-> TRUE, key |-> k]
Float(k) == [int |-> FALSE, key |-> k]

MCValues == {Int1(k) : k \in MCKeys} \cup {Float(2)}
MCCases == [value : MCValues, len : MCLens]

MCDistinctSwitches == {s \in UNION {[1..n -> MCCases] : n \in 0..3} : Distinct(s)}
MCSwitches == {s \in MCDistinctSwitches : Fits(s)}
MCPools == {<<>>, <<Float(7), Int1(1)>>}
MCTargets == {Int1(k) : k \in -1..11} \cup {Float(1), Float(2)}
============================================================================
