---------------------------- MODULE MCNetworkMap ----------------------------
(***************************************************************************)
(* A chain of three nodes: s hears a, which may fall silent, and a hears   *)
(* b.  A node must be able to be late and another in time when the check   *)
(* is due, hence a time-out of two ticks.                                  *)
(***************************************************************************)
EXTENDS ReportedMap

CONSTANTS s, a, b

MCNodes == {s, a, b}
MCLink == {<<a, s>>, <<b, a>>}
MCMortal == {a}
MCLengths == {0, 1, 2}

=============================================================================
