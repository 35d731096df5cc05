----------------------------- MODULE ReportedMap -----------------------------
(***************************************************************************)
(* The map beside what the nodes reported: a history of the last report of *)
(* every node that is in the map, kept apart from the lengths the map      *)
(* chose to record.                                                        *)
(***************************************************************************)
EXTENDS NetworkMap

VARIABLE heard   \* of each node, its last report

Remembered(S, n) ==
  IF n \in S THEN Restrict(heard[n], DOMAIN heard[n] \cap S) ELSE <<>>

RInit == MapInit /\ heard = [n \in Nodes |-> <<>>]

RReport ==
  \E n \in Nodes \ silent : \E r \in Report(n) :
     /\ UpdateMap(n, r)
     /\ LET there == ToSet(Kept)
        IN  heard' = [k \in Nodes |-> IF k = n THEN r ELSE Remembered(there, k)]

RTick == Tick /\ UNCHANGED heard

RFallSilent == (\E n \in Mortal : FallSilent(n)) /\ UNCHANGED heard

reportedVars == <<mapVars, heard>>

\* The clock goes on, and some node keeps reporting.
RSpec ==
  /\ RInit /\ [][RReport \/ RTick \/ RFallSilent]_reportedVars
  /\ WF_reportedVars(RTick) /\ WF_reportedVars(RReport)

\* The edges into n, by their first node.
Entering(g, n) == {o \in Nodes : <<o, n>> \in DOMAIN g}

(***************************************************************************)
(* The map is what the nodes last reported: the edges into a node are the  *)
(* neighbours of its last report (but for those removed from the map       *)
(* since), each within the resolution of the strength reported, however    *)
(* many small changes were ignored on the way.                             *)
(***************************************************************************)
MapFollowsReports ==
  \A n \in Nodes :
     /\ Entering(length, n) = DOMAIN heard[n]
     /\ \A o \in DOMAIN heard[n] : Abs(length[<<o, n>>] - heard[n][o]) <= RssiResolution

==============================================================================
