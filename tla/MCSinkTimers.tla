---------------------------- MODULE MCSinkTimers ----------------------------
(***************************************************************************)
(* A sink and one mote with the periods of Constants.java: how many        *)
(* beacons in a row may be lost before the rule towards the sink is?       *)
(***************************************************************************)
EXTENDS SinkDiscovery

CONSTANTS s, a

MCMotes == {a}
MCSinks == {s}
MCLink == {<<s, a>>, <<a, s>>}

\* The values below are those of the theorem about NeverOrphaned.
ASSUME Periods == Mortal = {} /\ InTime

=============================================================================
