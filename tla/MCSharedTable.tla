---------------------------- MODULE MCSharedTable ----------------------------
(***************************************************************************)
(* A table of the sink with its own rule and a ring of two or three slots, *)
(* written by rules of two or three window lists: insertions overlap,      *)
(* evict, and change the order of a lookup that is under way.              *)
(***************************************************************************)
EXTENDS SharedTable

CONSTANTS own, w1, w2, w3, self, p1

MCWindowLists == {own, w1, w2, w3}
MCOwn == {own}
MCAged == {own, w1}
MCActions == {self}
MCPackets == {p1}
\* w2 does not match
MCMatches == {<<w1, p1>>, <<w3, p1>>}

==============================================================================
