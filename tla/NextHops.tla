------------------------------ MODULE NextHops ------------------------------
(***************************************************************************)
(* What forwarding takes a flow table for: at most one next hop for each   *)
(* destination.  A message brings one, or two at once; a full table may    *)
(* forget another destination for each, and none for one it had.  The      *)
(* controller may erase one, and those in Passing come to an end.          *)
(*                                                                         *)
(* FlowTable implements this with its ring of rules, and PathSetup speaks  *)
(* of the rules of every node in no other way.                             *)
(***************************************************************************)
CONSTANTS
  Destinations,
  Passing,      \* the destinations whose next hop may age
  Hops,
  NoHop

VARIABLE hop

Init == hop = [d \in Destinations |-> NoHop]

\* What is known after next hop a for d has been added to h.
Installs(h, d, a) ==
  {[h EXCEPT ![d] = a]}
    \cup {[h EXCEPT ![d] = a, ![v] = NoHop] :
            v \in {v \in Destinations \ {d} : h[d] = NoHop}}

InstallOne == \E d \in Destinations, a \in Hops : hop' \in Installs(hop, d, a)

InstallTwo ==
  \E d1, d2 \in Destinations, a1, a2 \in Hops :
     d1 # d2 /\ \E mid \in Installs(hop, d1, a1) : hop' \in Installs(mid, d2, a2)

Erase == \E d \in Destinations : hop' = [hop EXCEPT ![d] = NoHop]

AgeSome ==
  \E F \in SUBSET (Passing \cap Destinations) :
     hop' = [d \in Destinations |-> IF d \in F THEN NoHop ELSE hop[d]]

Next == InstallOne \/ InstallTwo \/ Erase \/ AgeSome

Spec == Init /\ [][Next]_hop

=============================================================================
