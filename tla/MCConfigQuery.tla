---------------------------- MODULE MCConfigQuery ----------------------------
(***************************************************************************)
(* Two threads, a mote, one of its timers and two positions of its table.  *)
(***************************************************************************)
EXTENDS ConfigQuery, TLC

CONSTANTS c1, c2

MCCallers == {c1, c2}
MCItems == {[kind |-> "timer", n |-> 2], [kind |-> "rule", n |-> 0], [kind |-> "rule", n |-> 1]}
MCSymmetry == Permutations(MCCallers)

==============================================================================
