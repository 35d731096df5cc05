----------------------------- MODULE MCPathSetup -----------------------------
(***************************************************************************)
(* A chain: the sink s hears m, and m hears a.  Up to the sink and down    *)
(* again are four hops, so a time to live of 5 is enough for a request.    *)
(***************************************************************************)
EXTENDS PathSetup

CONSTANTS s, m, a, m1, m2

MCMotes == {m, a}
MCParent == [n \in MCMotes |-> IF n = a THEN m ELSE s]
MCDist ==
  [x \in MCMotes \cup {s} |-> [y \in MCMotes \cup {s} |->
     IF x = y THEN 0 ELSE IF {x, y} = {s, a} THEN 2 ELSE 1]]

==============================================================================
