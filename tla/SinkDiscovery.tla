---------------------------- MODULE SinkDiscovery ----------------------------
(***************************************************************************)
(* How the motes find a way to a sink (Mote.java, AbstractMote.java).      *)
(*                                                                         *)
(* Sinks, and motes that have a rule towards a sink, beacon their distance *)
(* and the address of that sink.  A mote without a rule takes the sender   *)
(* of the first beacon it accepts as next hop (flow table slot 0), raises  *)
(* its semaphore and starts its own timers.  Beacons of the same parent    *)
(* keep the rule alive; updateTable takes it away when they stop.          *)
(*                                                                         *)
(* The variables of a node are functions of the node: semaphore, dist and  *)
(* rssiSink are the fields of Mote; parent, sinkOf and ttl are the next    *)
(* hop, the address matched and the Stats of slot 0; alive is "battery     *)
(* level above 0".  air holds the beacons sent and not yet received, one   *)
(* copy for each receiver in range.                                        *)
(*                                                                         *)
(* Abstracted: the neighbour table and the report made from it, the other  *)
(* slots of the flow table (FlowTable), the amount of charge (Drain is     *)
(* whatever uses up the last of it).                                       *)
(***************************************************************************)
EXTENDS Integers, FiniteSets

CONSTANTS
  Motes, Sinks,   \* the nodes of the network
  Link,           \* <<n, m>>: m is in radio range of n
  NoNode,         \* the next hop of a blank rule
  Mortal,         \* the motes whose battery may run out
  Rssi,           \* the signal strength receivedPacket hands on (255)
  DistInit,       \* distance of a mote at boot (ttl_max + 1 = 101)
  DistLost,       \* distance after resetSemaphore (255)
  BeaconMax,      \* SDN_WISE_DFLT_CNT_BEACON_MAX (10)
  UpdTableMax,    \* SDN_WISE_DFLT_CNT_UPDTABLE_MAX (6)
  TtlMax, TtlPermanent, TtlDecr,  \* of a rule: 254, 255, 10
  MaxLost,        \* bound: beacons of its parent a mote misses in a row
  MaxLate         \* bound: ticks a parent falls behind between two of them

Nodes == Motes \cup Sinks

ASSUME DiscoveryAssumption ==
  /\ Motes \cap Sinks = {}
  /\ Link \subseteq Nodes \X Nodes
  /\ \A n \in Nodes : <<n, n>> \notin Link
  /\ NoNode \notin Nodes
  /\ Mortal \subseteq Motes
  /\ Rssi \in Nat \ {0}
  /\ DistInit \in Nat /\ DistLost \in Nat
  /\ BeaconMax \in Nat \ {0} /\ UpdTableMax \in Nat \ {0}
  /\ TtlMax \in Nat /\ TtlPermanent \in Nat /\ TtlMax < TtlPermanent
  /\ TtlDecr \in Nat \ {0}
  /\ MaxLost \in Nat /\ MaxLate \in Nat

VARIABLES
  semaphore, dist, rssiSink,   \* fields of a mote
  parent, sinkOf, ttl,         \* its slot 0
  cntBeacon, cntUpdTable,      \* its timer counters
  alive,                       \* its battery is above 0
  air,                         \* beacons on their way
  fired,                       \* nodes whose timer has run in this second
  lost, late                   \* what the bounds MaxLost, MaxLate count

moteVars == <<semaphore, dist, rssiSink, parent, sinkOf, ttl>>
timerVars == <<cntBeacon, cntUpdTable>>
vars == <<moteVars, timerVars, alive, air, fired, lost, late>>

Beacon == [src : Nodes, to : Motes, dist : Nat, sink : Nodes]

TypeOK ==
  /\ semaphore \in [Nodes -> {0, 1}]
  /\ dist \in [Nodes -> Nat]
  /\ rssiSink \in [Nodes -> {0, Rssi}]
  /\ parent \in [Nodes -> Nodes \cup {NoNode}]
  /\ sinkOf \in [Nodes -> Nodes \cup {NoNode}]
  /\ ttl \in [Nodes -> 0 .. TtlPermanent]
  /\ cntBeacon \in [Nodes -> 0 .. (BeaconMax - 1)]
  /\ cntUpdTable \in [Nodes -> 0 .. (UpdTableMax - 1)]
  /\ alive \in [Nodes -> BOOLEAN]
  /\ air \in SUBSET Beacon
  /\ fired \in SUBSET Nodes
  /\ lost \in [Nodes -> 0 .. MaxLost]
  /\ late \in [Nodes -> 0 .. MaxLate]

\* m has a neighbour as next hop towards a sink.
HasParent(m) == parent[m] \in Nodes \ {m}

Children(n) == {m \in Motes : HasParent(m) /\ parent[m] = n}

------------------------------------------------------------------------------
(* At boot, rule 0 of every node is permanent and leads to the node itself. *)

Init ==
  /\ semaphore = [n \in Nodes |-> IF n \in Sinks THEN 1 ELSE 0]
  /\ dist = [n \in Nodes |-> IF n \in Sinks THEN 0 ELSE DistInit]
  /\ rssiSink = [n \in Nodes |-> IF n \in Sinks THEN Rssi ELSE 0]
  /\ parent = [n \in Nodes |-> n]
  /\ sinkOf = [n \in Nodes |-> n]
  /\ ttl = [n \in Nodes |-> TtlPermanent]
  /\ cntBeacon = [n \in Nodes |-> 0]
  /\ cntUpdTable = [n \in Nodes |-> 0]
  /\ alive = [n \in Nodes |-> TRUE]
  /\ air = {}
  /\ fired = {}
  /\ lost = [n \in Nodes |-> 0]
  /\ late = [n \in Nodes |-> 0]

------------------------------------------------------------------------------
(* Receiving a beacon: Mote.rxBeacon *)

\* A mutant: a nearer sender is enough, whatever its signal.
AcceptsNearer(m, b) == b.dist < dist[m]

\* A better sender than the parent the mote has now.
Accepts(m, b) == b.dist < dist[m] /\ Rssi > rssiSink[m]

\* A mutant: compares the distance of the sender with the mote's own.
FromParentOffByOne(m, b) == b.dist = dist[m] /\ parent[m] = b.src

FromParent(m, b) == b.dist + 1 = dist[m] /\ parent[m] = b.src

Adopt(m, b) ==
  /\ semaphore' = [semaphore EXCEPT ![m] = 1]
  /\ dist' = [dist EXCEPT ![m] = b.dist + 1]
  /\ rssiSink' = [rssiSink EXCEPT ![m] = Rssi]
  /\ parent' = [parent EXCEPT ![m] = b.src]
  /\ sinkOf' = [sinkOf EXCEPT ![m] = b.sink]
  /\ ttl' = [ttl EXCEPT ![m] = TtlMax]

\* A mutant: restoreTtl is forgotten.
RefreshKeepsTtl(m, b) ==
  /\ sinkOf' = [sinkOf EXCEPT ![m] = b.sink]
  /\ UNCHANGED <<semaphore, dist, rssiSink, parent, ttl>>

Refresh(m, b) ==
  /\ sinkOf' = [sinkOf EXCEPT ![m] = b.sink]
  /\ ttl' = [ttl EXCEPT ![m] = TtlMax]
  /\ UNCHANGED <<semaphore, dist, rssiSink, parent>>

RxBeacon(b) ==
  LET m == b.to
      useful == Accepts(m, b) \/ FromParent(m, b)
  IN  /\ b \in air
      /\ air' = air \ {b}
      /\ IF Accepts(m, b) THEN Adopt(m, b)
         ELSE IF FromParent(m, b) THEN Refresh(m, b)
         ELSE UNCHANGED moteVars
      /\ lost' = IF useful THEN [lost EXCEPT ![m] = 0] ELSE lost
      /\ late' = IF useful THEN [late EXCEPT ![m] = 0] ELSE late
      /\ UNCHANGED <<timerVars, alive, fired>>

\* The radio drops a beacon.  Bounded for the beacons a mote depends on:
\* those of its parent, and all of them while it has none.
LoseBeacon(b) ==
  LET m == b.to
      counts == ~HasParent(m) \/ parent[m] = b.src
  IN  /\ b \in air
      /\ air' = air \ {b}
      /\ counts => lost[m] < MaxLost
      /\ lost' = IF counts THEN [lost EXCEPT ![m] = @ + 1] ELSE lost
      /\ UNCHANGED <<moteVars, timerVars, alive, fired, late>>

------------------------------------------------------------------------------
(* The timer.  Every node runs timerTask once a second; a transmission      *)
(* takes a millisecond, so the beacons of a second have arrived or are lost *)
(* when the next one starts.                                                *)

\* n's timer has run: when all have, the next second begins.
Fire(n) ==
  /\ n \notin fired
  /\ fired = {} => air = {}
  /\ fired' = IF fired \cup {n} = Nodes THEN {} ELSE fired \cup {n}

\* A mutant: rssiSink is reset too, so that beacons are accepted again.
ResetSemaphoreAgain(n) ==
  /\ semaphore' = [semaphore EXCEPT ![n] = 0]
  /\ dist' = [dist EXCEPT ![n] = DistLost]
  /\ rssiSink' = [rssiSink EXCEPT ![n] = 0]

\* rssiSink keeps its value.
ResetSemaphore(n) ==
  /\ semaphore' = [semaphore EXCEPT ![n] = 0]
  /\ dist' = [dist EXCEPT ![n] = DistLost]
  /\ UNCHANGED rssiSink

\* A mutant: a rule that has run down stays.
UpdateTableNoExpiry(n) ==
  /\ ttl' = IF ttl[n] # TtlPermanent /\ ttl[n] >= TtlDecr
            THEN [ttl EXCEPT ![n] = @ - TtlDecr] ELSE ttl
  /\ UNCHANGED <<semaphore, dist, rssiSink, parent, sinkOf>>

\* A mutant: the time to live is lowered below zero before it is compared.
UpdateTableNegative(n) ==
  /\ ttl' = IF ttl[n] # TtlPermanent THEN [ttl EXCEPT ![n] = @ - TtlDecr] ELSE ttl
  /\ UNCHANGED <<semaphore, dist, rssiSink, parent, sinkOf>>

\* updateTable on slot 0
UpdateTable(n) ==
  IF ttl[n] = TtlPermanent THEN UNCHANGED moteVars
  ELSE IF ttl[n] >= TtlDecr
  THEN /\ ttl' = [ttl EXCEPT ![n] = @ - TtlDecr]
       /\ UNCHANGED <<semaphore, dist, rssiSink, parent, sinkOf>>
  ELSE /\ parent' = [parent EXCEPT ![n] = NoNode]
       /\ sinkOf' = [sinkOf EXCEPT ![n] = NoNode]
       /\ ttl' = [ttl EXCEPT ![n] = TtlMax]
       /\ ResetSemaphore(n)

\* prepareBeacon, one copy for each mote in range.  A sink that hears a beacon
\* only notes the neighbour, so its copy is left out.
BeaconsOf(n) ==
  {[src |-> n, to |-> m, dist |-> dist[n], sink |-> sinkOf[n]] :
      m \in {k \in Motes : <<n, k>> \in Link}}

\* timerTask of a node with a rule and a battery: the beacon goes out before
\* the table is aged.
TimerTask(n) ==
  /\ Fire(n)
  /\ semaphore[n] = 1 /\ alive[n]
  /\ LET beaconDue == cntBeacon[n] + 1 >= BeaconMax
         updateDue == cntUpdTable[n] + 1 >= UpdTableMax
     IN  /\ cntBeacon' = [cntBeacon EXCEPT ![n] = IF beaconDue THEN 0 ELSE @ + 1]
         /\ cntUpdTable' = [cntUpdTable EXCEPT ![n] = IF updateDue THEN 0 ELSE @ + 1]
         /\ air' = IF beaconDue THEN air \cup BeaconsOf(n) ELSE air
         /\ IF updateDue THEN UpdateTable(n) ELSE UNCHANGED moteVars
  /\ UNCHANGED <<alive, lost, late>>

\* timerTask of any other node does nothing.
IdleTask(n) ==
  /\ Fire(n)
  /\ ~(semaphore[n] = 1 /\ alive[n])
  /\ UNCHANGED <<moteVars, timerVars, alive, air, lost, late>>

\* The timer waits up to 9 ms more than a second: now and then a parent has
\* run one tick less than its children.
LateTask(n) ==
  /\ Children(n) # {}
  /\ \A m \in Children(n) : late[m] < MaxLate
  /\ Fire(n)
  /\ late' = [m \in Nodes |-> IF m \in Children(n) THEN late[m] + 1 ELSE late[m]]
  /\ UNCHANGED <<moteVars, timerVars, alive, air, lost>>

\* The battery runs out; the mote keeps its table and its radio.
Drain(m) ==
  /\ m \in Mortal /\ alive[m]
  /\ alive' = [alive EXCEPT ![m] = FALSE]
  /\ UNCHANGED <<moteVars, timerVars, air, fired, lost, late>>

Next ==
  \/ \E b \in air : RxBeacon(b) \/ LoseBeacon(b)
  \/ \E n \in Nodes : TimerTask(n) \/ IdleTask(n) \/ LateTask(n)
  \/ \E m \in Mortal : Drain(m)

Spec == Init /\ [][Next]_vars

\* The simulator runs every timer and delivers what is not lost.
Fairness ==
  /\ WF_vars(\E b \in air : RxBeacon(b))
  /\ \A n \in Nodes : WF_vars(TimerTask(n)) /\ WF_vars(IdleTask(n))

FairSpec == Spec /\ Fairness

------------------------------------------------------------------------------
(* Properties *)

HasRoute(n) == n \in Sinks \/ HasParent(n)

(***************************************************************************)
(* A mote agrees with its parent on where they are: while both have a      *)
(* rule, the mote is one hop further than its parent and sends to the same *)
(* sink, however late or out of order the beacons were that told it so.    *)
(***************************************************************************)
AgreesWithParent ==
  \A m \in Motes : HasParent(m) /\ HasRoute(parent[m]) =>
     dist[m] = dist[parent[m]] + 1 /\ sinkOf[m] = sinkOf[parent[m]]

(***************************************************************************)
(* Packets sent up rule 0 do not circle: no set of motes is closed under   *)
(* the next hop of its members.                                            *)
(***************************************************************************)
NoRoutingLoop ==
  \A S \in SUBSET Motes :
     S # {} => \E m \in S : ~(HasParent(m) /\ parent[m] \in S)

(***************************************************************************)
(* A mote has one parent in its life: it never moves to a better one, and  *)
(* once its rule has expired no beacon brings it back, because             *)
(* resetSemaphore leaves rssiSink at the value no beacon exceeds.          *)
(***************************************************************************)
OneParentInALife ==
  [][\A m \in Motes : parent'[m] # parent[m] =>
        parent[m] = m \/ parent'[m] = NoNode]_vars

(***************************************************************************)
(* A dead parent is forgotten: a mote with a battery does not send to a    *)
(* parent without one for ever.                                            *)
(***************************************************************************)
DeadParentForgotten ==
  \A m \in Motes, p \in Mortal :
     (parent[m] = p /\ p # m /\ alive[m] /\ ~alive[p]) ~> (parent[m] # p \/ ~alive[m])

(***************************************************************************)
(* A mote that has joined stays: with the periods of Constants.java no     *)
(* rule towards the sink expires while at most MaxLost beacons of the      *)
(* parent are lost in a row and its timer is at most MaxLate ticks behind. *)
(***************************************************************************)
NeverOrphaned == \A m \in Motes : parent[m] # NoNode

\* The periods leave room for as many losses and as much drift: without it
\* NeverOrphaned does not hold.  The values of Constants.java, 254 / 10 agings
\* six ticks apart, leave room for thirteen beacons, ten ticks apart.
InTime == BeaconMax * (MaxLost + 1) + MaxLate < UpdTableMax * (TtlMax \div TtlDecr)

(***************************************************************************)
(* Every mote joins, and is joined from then on.                           *)
(***************************************************************************)
EventuallyJoined == <>[](\A m \in Motes : semaphore[m] = 1)

==============================================================================
