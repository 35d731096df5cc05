----------------------------- MODULE MCFlowTable -----------------------------
(***************************************************************************)
(* A table of four slots: rule 0 and a ring of three, written by rules of  *)
(* four window lists so that evictions, wraps, in-place updates and holes  *)
(* happen.  Fresh rules live two rounds of updateTable.  A byte has four   *)
(* values, so that positions 2 and 3 have their upper bit set, as          *)
(* positions from 128 have in a table of 10000 rules.                      *)
(***************************************************************************)
EXTENDS FlowTable, TLC

CONSTANTS own, toS, w1, w2, self, up, p1, p2

MCWindowLists == {own, toS, w1, w2}
MCAged == {own, toS}
MCActions == {self, up}
MCPackets == {p1, p2}
\* w1 and w2 overlap on p1; the rules for the own address and the sink on p2
MCMatches == {<<w1, p1>>, <<w2, p1>>, <<own, p2>>, <<toS, p2>>}
\* w1 and w2 match the same packets, so they may be exchanged.
MCSymmetry == Permutations({w1, w2})
MCParents == {up}
MCSinkWindows == {toS}

==============================================================================
