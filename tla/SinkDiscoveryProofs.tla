------------------------- MODULE SinkDiscoveryProofs -------------------------
(***************************************************************************)
(* Theorems of SinkDiscovery, for every network, every period and every    *)
(* bound on losses and drift (JoinedForGood: those that meet InTime).      *)
(***************************************************************************)
EXTENDS SinkDiscovery, WellFoundedInduction, TLAPS

\* Every non-empty set of naturals has a least element: the library's WFMin,
\* for a set.
LEMMA LeastElement ==
  ASSUME NEW S \in SUBSET Nat, S # {}
  PROVE  \E m \in S : \A k \in S : m <= k
<1> DEFINE Less == {ss \in Nat \X Nat : ss[1] < ss[2]}
<1>1. IsWellFoundedOn(Less, Nat)
  BY NatLessThanWellFounded DEF OpToRel
<1>2. \E x \in S : \A y \in S : ~(<<y, x>> \in Less)
  <2> HIDE DEF Less
  <2> QED BY <1>1, WFMin
<1>3. PICK m \in S : \A y \in S : ~(<<y, m>> \in Less)
  BY <1>2
<1>4. \A y \in S : y < m => <<y, m>> \in Less
  OBVIOUS
<1>5. \A y \in S : ~(y < m)
  BY <1>3, <1>4
<1> HIDE DEF Less
<1>6. QED
  BY <1>5

(***************************************************************************)
(* The inductive invariant.  AgreesWithParent alone is not inductive: a    *)
(* beacon still in the air could tell a child something else than its      *)
(* parent says now, and a mote could change its distance after it got      *)
(* children.  The other parts exclude both.                                *)
(***************************************************************************)

\* A mote that never joined is its own next hop.
Fresh(n) == n \in Motes /\ parent[n] = n

SinksStay ==
  \A s \in Sinks :
     parent[s] = s /\ sinkOf[s] = s /\ dist[s] = 0 /\ ttl[s] = TtlPermanent

\* The semaphore of a mote is up exactly while its rule 0 leads to a neighbour,
\* which has joined; rssiSink is at its last value from then on.
Phases ==
  /\ \A m \in Motes : semaphore[m] = 1 <=> HasParent(m)
  /\ \A m \in Motes : ~Fresh(m) => rssiSink[m] = Rssi
  /\ \A m \in Motes : HasParent(m) => ~Fresh(parent[m])
  /\ \A n \in Nodes : HasRoute(n) => sinkOf[n] \in Nodes

\* Beacons cross a link and come from nodes that have joined.
AirOrigin == \A b \in air : <<b.src, b.to>> \in Link /\ ~Fresh(b.src)

\* A beacon says what its sender would say now, if it still had a rule,
AirCurrent ==
  \A b \in air : HasRoute(b.src) => b.dist = dist[b.src] /\ b.sink = sinkOf[b.src]

\* what the other beacons of its sender say,
AirConsistent ==
  \A b1, b2 \in air : b1.src = b2.src => b1.dist = b2.dist /\ b1.sink = b2.sink

\* and what the children of its sender believe.
AirKnown ==
  \A b \in air : \A m \in Motes :
     HasParent(m) /\ parent[m] = b.src => dist[m] = b.dist + 1 /\ sinkOf[m] = b.sink

IInv ==
  /\ TypeOK
  /\ SinksStay
  /\ Phases
  /\ AirOrigin
  /\ AirCurrent
  /\ AirConsistent
  /\ AirKnown
  /\ AgreesWithParent

LEMMA InitIInv == Init => IInv
BY DiscoveryAssumption
   DEF Init, IInv, TypeOK, SinksStay, Phases, Fresh, HasParent, HasRoute, AirOrigin,
       AirCurrent, AirConsistent, AirKnown, AgreesWithParent, Nodes, Beacon

------------------------------------------------------------------------------
(* Receiving *)

LEMMA AdoptKeeps ==
  ASSUME IInv, NEW b \in air, Accepts(b.to, b), Adopt(b.to, b),
         air' = air \ {b}, UNCHANGED <<timerVars, alive, fired>>,
         lost' = [lost EXCEPT ![b.to] = 0], late' = [late EXCEPT ![b.to] = 0]
  PROVE  IInv'
<1> DEFINE m == b.to
<1>1. /\ m \in Motes /\ b.src \in Nodes /\ b.src # m /\ b \in Beacon
      /\ ~Fresh(b.src)
  BY DiscoveryAssumption DEF IInv, TypeOK, Beacon, AirOrigin, Nodes
<1>2. Fresh(m)
  BY <1>1, DiscoveryAssumption DEF IInv, TypeOK, Phases, Accepts, Nodes
<1>3. /\ \A n \in Nodes : n # m =>
            /\ semaphore'[n] = semaphore[n] /\ dist'[n] = dist[n]
            /\ rssiSink'[n] = rssiSink[n] /\ parent'[n] = parent[n]
            /\ sinkOf'[n] = sinkOf[n] /\ ttl'[n] = ttl[n]
      /\ semaphore'[m] = 1 /\ dist'[m] = b.dist + 1 /\ rssiSink'[m] = Rssi
      /\ parent'[m] = b.src /\ sinkOf'[m] = b.sink /\ ttl'[m] = TtlMax
  BY <1>1 DEF IInv, TypeOK, Adopt, Nodes
<1>4. TypeOK'
  BY <1>1, DiscoveryAssumption DEF IInv, TypeOK, Adopt, Beacon, timerVars, Nodes
<1>5. \A n \in Motes : HasParent(n) => parent[n] # m
  BY <1>2 DEF IInv, Phases
<1>6. \A c \in air : c.src # m /\ c.src \in Nodes /\ c.to \in Motes
  BY <1>2 DEF IInv, AirOrigin, TypeOK, Beacon
<1>7. /\ \A n \in Nodes : n # m => (HasParent(n)' <=> HasParent(n)) /\ (HasRoute(n)' <=> HasRoute(n))
                                   /\ (Fresh(n)' <=> Fresh(n))
      /\ HasParent(m)' /\ HasRoute(m)' /\ ~Fresh(m)'
  BY <1>1, <1>3 DEF HasParent, HasRoute, Fresh
<1>8. SinksStay'
  BY <1>1, <1>3, DiscoveryAssumption DEF IInv, SinksStay, Nodes
<1>9. \A n \in Motes : n # m /\ HasParent(n) => parent'[n] = parent[n] /\ parent[n] \in Nodes /\ parent[n] # m
  BY <1>3, <1>5 DEF HasParent, Nodes
<1>10. Phases'
  <2>1. \A n \in Motes : semaphore'[n] = 1 <=> HasParent(n)'
    BY <1>3, <1>7 DEF IInv, Phases, Nodes
  <2>2. \A n \in Motes : ~Fresh(n)' => rssiSink'[n] = Rssi
    BY <1>3, <1>7 DEF IInv, Phases, Nodes
  <2>3. \A n \in Motes : HasParent(n)' => ~Fresh(parent[n])'
    BY <1>1, <1>3, <1>7, <1>9 DEF IInv, Phases, Nodes, Fresh
  <2>4. \A n \in Nodes : HasRoute(n)' => sinkOf'[n] \in Nodes
    BY <1>1, <1>3, <1>7 DEF IInv, Phases, Nodes, Beacon
  <2>5. QED BY <2>1, <2>2, <2>3, <2>4 DEF Phases
<1>11. AirOrigin'
  BY <1>6, <1>7 DEF IInv, AirOrigin
<1>12. AirCurrent'
  BY <1>3, <1>6, <1>7 DEF IInv, AirCurrent
<1>13. AirConsistent'
  BY DEF IInv, AirConsistent
<1>14. AirKnown'
  <2> SUFFICES ASSUME NEW c \in air', NEW n \in Motes, HasParent(n)', parent'[n] = c.src
               PROVE  dist'[n] = c.dist + 1 /\ sinkOf'[n] = c.sink
    BY DEF AirKnown
  <2>1. c \in air
    OBVIOUS
  <2>2. CASE n = m
    BY <2>1, <2>2, <1>3 DEF IInv, AirConsistent
  <2>3. CASE n # m
    BY <2>1, <2>3, <1>3, <1>7 DEF IInv, AirKnown, Nodes
  <2>4. QED BY <2>2, <2>3
<1>15. AgreesWithParent'
  <2> SUFFICES ASSUME NEW n \in Motes, HasParent(n)', HasRoute(parent[n])'
               PROVE  dist'[n] = dist'[parent'[n]] + 1 /\ sinkOf'[n] = sinkOf'[parent'[n]]
    BY DEF AgreesWithParent
  <2>1. CASE n = m
    <3>1. HasRoute(b.src)
      BY <2>1, <1>1, <1>3, <1>7 DEF HasRoute, HasParent
    <3>2. b.dist = dist[b.src] /\ b.sink = sinkOf[b.src]
      BY <3>1 DEF IInv, AirCurrent
    <3>3. QED BY <3>2, <2>1, <1>1, <1>3
  <2>2. CASE n # m
    <3>1. HasParent(n) /\ HasRoute(parent[n])
      BY <2>2, <1>7, <1>9 DEF Nodes, HasRoute, HasParent
    <3>2. QED BY <3>1, <2>2, <1>3, <1>9 DEF IInv, AgreesWithParent, Nodes
  <2>3. QED BY <2>1, <2>2
<1>16. QED
  BY <1>4, <1>8, <1>10, <1>11, <1>12, <1>13, <1>14, <1>15 DEF IInv

LEMMA RefreshKeeps ==
  ASSUME IInv, NEW b \in air, FromParent(b.to, b), Refresh(b.to, b),
         air' = air \ {b}, UNCHANGED <<timerVars, alive, fired>>,
         lost' = [lost EXCEPT ![b.to] = 0], late' = [late EXCEPT ![b.to] = 0]
  PROVE  IInv'
<1> DEFINE m == b.to
<1>1. m \in Motes /\ b.src \in Nodes /\ b.src # m /\ b \in Beacon
  BY DiscoveryAssumption DEF IInv, TypeOK, Beacon, AirOrigin, Nodes
<1>2. HasParent(m)
  BY <1>1 DEF FromParent, HasParent
<1>3. sinkOf[m] = b.sink
  BY <1>1, <1>2 DEF IInv, AirKnown, FromParent
<1>4. sinkOf' = sinkOf
  BY <1>1, <1>3 DEF Refresh, IInv, TypeOK, Nodes
<1>5. TypeOK'
  BY <1>1, DiscoveryAssumption DEF IInv, TypeOK, Refresh, Beacon, timerVars, Nodes
<1>6. \A s \in Sinks : ttl'[s] = ttl[s]
  BY <1>1, DiscoveryAssumption DEF Refresh, IInv, TypeOK, Nodes
<1>7. UNCHANGED <<semaphore, dist, rssiSink, parent>>
  BY DEF Refresh
<1>8. QED
  BY <1>4, <1>5, <1>6, <1>7
     DEF IInv, SinksStay, Phases, Fresh, HasParent, HasRoute, AirOrigin,
         AirCurrent, AirConsistent, AirKnown, AgreesWithParent

\* Nothing changes but a beacon that is gone.
LEMMA DropKeeps ==
  ASSUME IInv, NEW b \in air, air' = air \ {b}, UNCHANGED <<moteVars, timerVars, alive, fired>>,
         lost' \in [Nodes -> 0 .. MaxLost], late' \in [Nodes -> 0 .. MaxLate]
  PROVE  IInv'
BY DEF IInv, TypeOK, moteVars, timerVars, SinksStay, Phases, Fresh, HasParent, HasRoute,
       AirOrigin, AirCurrent, AirConsistent, AirKnown, AgreesWithParent

LEMMA RxBeaconKeeps ==
  ASSUME IInv, NEW b \in air, RxBeacon(b)
  PROVE  IInv'
<1>1. CASE Accepts(b.to, b)
  BY <1>1, AdoptKeeps DEF RxBeacon
<1>2. CASE ~Accepts(b.to, b) /\ FromParent(b.to, b)
  BY <1>2, RefreshKeeps DEF RxBeacon
<1>3. CASE ~Accepts(b.to, b) /\ ~FromParent(b.to, b)
  BY <1>3, DropKeeps DEF RxBeacon, IInv, TypeOK
<1>4. QED BY <1>1, <1>2, <1>3

LEMMA LoseBeaconKeeps ==
  ASSUME IInv, NEW b \in air, LoseBeacon(b)
  PROVE  IInv'
<1>1. b.to \in Nodes
  BY DEF IInv, TypeOK, Beacon, Nodes
<1>2. lost' \in [Nodes -> 0 .. MaxLost]
  BY <1>1, DiscoveryAssumption DEF LoseBeacon, IInv, TypeOK
<1>3. QED
  BY <1>2, DropKeeps DEF LoseBeacon, IInv, TypeOK

------------------------------------------------------------------------------
(* The timer *)

\* What a node with a rule says of itself.
LEMMA BeaconsSay ==
  ASSUME IInv, NEW n \in Nodes, HasRoute(n), NEW c \in BeaconsOf(n)
  PROVE  /\ c.src = n /\ c.to \in Motes /\ c.dist = dist[n] /\ c.sink = sinkOf[n]
         /\ c \in Beacon /\ <<c.src, c.to>> \in Link
<1>1. PICK m \in Motes : /\ <<n, m>> \in Link
                         /\ c = [src |-> n, to |-> m, dist |-> dist[n], sink |-> sinkOf[n]]
  BY DEF BeaconsOf
<1>2. dist[n] \in Nat /\ sinkOf[n] \in Nodes
  BY DEF IInv, TypeOK, Phases
<1>3. QED BY <1>1, <1>2 DEF Beacon

\* The beacons of a node with a rule keep what the air says true.
LEMMA BeaconsKeepAir ==
  ASSUME IInv, NEW n \in Nodes, semaphore[n] = 1, HasRoute(n),
         air' = air \cup BeaconsOf(n) \/ air' = air,
         UNCHANGED <<dist, parent, sinkOf>>
  PROVE  /\ air' \in SUBSET Beacon
         /\ AirOrigin' /\ AirCurrent' /\ AirConsistent' /\ AirKnown'
<1>1. \A c \in BeaconsOf(n) :
        /\ c.src = n /\ c.to \in Motes /\ c.dist = dist[n] /\ c.sink = sinkOf[n]
        /\ c \in Beacon /\ <<c.src, c.to>> \in Link
  BY BeaconsSay
<1>2. ~Fresh(n)
  BY DiscoveryAssumption DEF HasRoute, HasParent, Fresh
<1>3. \A c \in air' : c \in air \/ c \in BeaconsOf(n)
  OBVIOUS
<1>4. air' \in SUBSET Beacon
  BY <1>1, <1>3 DEF IInv, TypeOK
<1>5. AirOrigin'
  BY <1>1, <1>2, <1>3 DEF IInv, AirOrigin, Fresh
<1>6. AirCurrent'
  BY <1>1, <1>3 DEF IInv, AirCurrent, HasRoute, HasParent
<1>7. AirConsistent'
  <2>1. \A c \in air' : c.src = n => c.dist = dist[n] /\ c.sink = sinkOf[n]
    BY <1>1, <1>3 DEF IInv, AirCurrent
  <2>2. \A c \in air' : c.src # n => c \in air
    BY <1>1, <1>3
  <2>3. QED BY <2>1, <2>2 DEF IInv, AirConsistent
<1>8. AirKnown'
  <2> SUFFICES ASSUME NEW c \in air', NEW m \in Motes, HasParent(m), parent[m] = c.src
               PROVE  dist[m] = c.dist + 1 /\ sinkOf[m] = c.sink
    BY DEF AirKnown, HasParent
  <2>1. CASE c \in air
    BY <2>1 DEF IInv, AirKnown
  <2>2. CASE c \in BeaconsOf(n)
    BY <2>2, <1>1 DEF IInv, AgreesWithParent
  <2>3. QED BY <1>3, <2>1, <2>2
<1>9. QED BY <1>4, <1>5, <1>6, <1>7, <1>8

\* A rule that expires makes its mote an orphan, which nobody relies on.
LEMMA ExpiryKeeps ==
  ASSUME IInv, NEW n \in Motes, HasParent(n),
         parent' = [parent EXCEPT ![n] = NoNode],
         sinkOf' = [sinkOf EXCEPT ![n] = NoNode],
         semaphore' = [semaphore EXCEPT ![n] = 0],
         dist' = [dist EXCEPT ![n] = DistLost],
         ttl' = [ttl EXCEPT ![n] = TtlMax],
         UNCHANGED rssiSink,
         air' \in SUBSET Beacon,
         \A c \in air' : <<c.src, c.to>> \in Link /\ ~Fresh(c.src),
         \A c \in air' : HasRoute(c.src) => c.dist = dist[c.src] /\ c.sink = sinkOf[c.src],
         \A b1, b2 \in air' : b1.src = b2.src => b1.dist = b2.dist /\ b1.sink = b2.sink,
         \A c \in air' : \A m \in Motes :
            HasParent(m) /\ parent[m] = c.src => dist[m] = c.dist + 1 /\ sinkOf[m] = c.sink
  PROVE  /\ SinksStay' /\ Phases' /\ AgreesWithParent'
         /\ AirOrigin' /\ AirCurrent' /\ AirConsistent' /\ AirKnown'
<1>1. /\ \A k \in Nodes : k # n =>
           /\ semaphore'[k] = semaphore[k] /\ dist'[k] = dist[k]
           /\ parent'[k] = parent[k] /\ sinkOf'[k] = sinkOf[k] /\ ttl'[k] = ttl[k]
      /\ semaphore'[n] = 0 /\ parent'[n] = NoNode
      /\ n \in Nodes /\ n \notin Sinks
  BY DiscoveryAssumption DEF IInv, TypeOK, Nodes
<1>2. /\ \A k \in Nodes : k # n => (HasParent(k)' <=> HasParent(k)) /\ (HasRoute(k)' <=> HasRoute(k))
      /\ ~HasParent(n)' /\ ~HasRoute(n)'
  BY <1>1, DiscoveryAssumption DEF HasParent, HasRoute
<1>3. \A k \in Nodes : Fresh(k)' => Fresh(k)
  BY <1>1, DiscoveryAssumption DEF Fresh, Nodes
<1>4. \A c \in air' : c.src \in Nodes /\ c.to \in Motes
  BY DEF Beacon
<1>5. SinksStay'
  BY <1>1, DiscoveryAssumption DEF IInv, SinksStay, Nodes
<1>6. Phases'
  <2>1. \A m \in Motes : semaphore'[m] = 1 <=> HasParent(m)'
    BY <1>1, <1>2 DEF IInv, Phases, Nodes
  <2>2. \A m \in Motes : ~Fresh(m)' => rssiSink'[m] = Rssi
    <3>1. ~Fresh(n)
      BY DEF HasParent, Fresh
    <3>2. \A m \in Motes : m # n => (Fresh(m)' <=> Fresh(m))
      BY <1>1 DEF Fresh, Nodes
    <3>3. QED BY <3>1, <3>2 DEF IInv, Phases
  <2>3. \A m \in Motes : HasParent(m)' => ~Fresh(parent[m])'
    <3> SUFFICES ASSUME NEW m \in Motes, HasParent(m)'
                 PROVE  ~Fresh(parent[m])'
      OBVIOUS
    <3>1. m # n /\ HasParent(m) /\ parent'[m] = parent[m] /\ parent[m] \in Nodes
      BY <1>1, <1>2 DEF HasParent, Nodes
    <3>2. ~Fresh(parent[m])
      BY <3>1 DEF IInv, Phases
    <3>3. QED BY <3>1, <3>2, <1>1, DiscoveryAssumption DEF Fresh, Nodes
  <2>4. \A k \in Nodes : HasRoute(k)' => sinkOf'[k] \in Nodes
    BY <1>1, <1>2 DEF IInv, Phases
  <2>5. QED BY <2>1, <2>2, <2>3, <2>4 DEF Phases
<1>7. AgreesWithParent'
  <2> SUFFICES ASSUME NEW m \in Motes, HasParent(m)', HasRoute(parent[m])'
               PROVE  dist'[m] = dist'[parent'[m]] + 1 /\ sinkOf'[m] = sinkOf'[parent'[m]]
    BY DEF AgreesWithParent
  <2>1. m # n /\ HasParent(m) /\ parent'[m] = parent[m] /\ parent[m] \in Nodes
    BY <1>1, <1>2 DEF HasParent, Nodes
  <2>2. parent[m] # n /\ HasRoute(parent[m])
    BY <2>1, <1>1, <1>2, DiscoveryAssumption DEF HasRoute, HasParent
  <2>3. QED BY <2>1, <2>2, <1>1 DEF IInv, AgreesWithParent, Nodes
<1>8. AirOrigin'
  BY <1>3, <1>4 DEF AirOrigin
<1>9. AirCurrent'
  BY <1>1, <1>2, <1>4 DEF AirCurrent
<1>10. AirConsistent'
  BY DEF AirConsistent
<1>11. AirKnown'
  BY <1>1, <1>2, <1>4 DEF AirKnown, Nodes
<1>12. QED
  BY <1>5, <1>6, <1>7, <1>8, <1>9, <1>10, <1>11

LEMMA TimerTaskKeeps ==
  ASSUME IInv, NEW n \in Nodes, TimerTask(n)
  PROVE  IInv'
<1>1. HasRoute(n) /\ semaphore[n] = 1
  BY DEF TimerTask, IInv, Phases, HasRoute, Nodes
<1>2. air' = air \cup BeaconsOf(n) \/ air' = air
  BY DEF TimerTask
<1>3. /\ cntBeacon' \in [Nodes -> 0 .. (BeaconMax - 1)]
      /\ cntUpdTable' \in [Nodes -> 0 .. (UpdTableMax - 1)]
      /\ fired' \in SUBSET Nodes
      /\ alive' = alive /\ lost' = lost /\ late' = late
  BY DiscoveryAssumption DEF TimerTask, Fire, IInv, TypeOK
<1>4. UpdateTable(n) \/ UNCHANGED moteVars
  BY DEF TimerTask
<1>5. CASE \/ UNCHANGED moteVars
           \/ /\ ttl[n] # TtlPermanent /\ ttl[n] >= TtlDecr
              /\ ttl' = [ttl EXCEPT ![n] = @ - TtlDecr]
              /\ UNCHANGED <<semaphore, dist, rssiSink, parent, sinkOf>>
  <2>1. UNCHANGED <<semaphore, dist, rssiSink, parent, sinkOf>>
    BY <1>5 DEF moteVars
  <2>2. /\ ttl' \in [Nodes -> 0 .. TtlPermanent]
        /\ \A s \in Sinks : ttl'[s] = ttl[s]
    BY <1>5, DiscoveryAssumption DEF moteVars, IInv, TypeOK, SinksStay, Nodes
  <2>3. /\ air' \in SUBSET Beacon
        /\ AirOrigin' /\ AirCurrent' /\ AirConsistent' /\ AirKnown'
    BY <1>1, <1>2, <2>1, BeaconsKeepAir
  <2>4. TypeOK'
    BY <1>3, <2>1, <2>2, <2>3 DEF IInv, TypeOK
  <2>5. SinksStay' /\ Phases' /\ AgreesWithParent'
    BY <2>1, <2>2 DEF IInv, SinksStay, Phases, Fresh, HasParent, HasRoute, AgreesWithParent
  <2>6. QED BY <2>3, <2>4, <2>5 DEF IInv
<1>6. CASE /\ UpdateTable(n) /\ ttl[n] # TtlPermanent /\ ~(ttl[n] >= TtlDecr)
  <2>1. n \in Motes /\ HasParent(n)
    BY <1>1, <1>6 DEF IInv, SinksStay, HasRoute, Nodes
  <2>2. /\ parent' = [parent EXCEPT ![n] = NoNode]
        /\ sinkOf' = [sinkOf EXCEPT ![n] = NoNode]
        /\ semaphore' = [semaphore EXCEPT ![n] = 0]
        /\ dist' = [dist EXCEPT ![n] = DistLost]
        /\ ttl' = [ttl EXCEPT ![n] = TtlMax]
        /\ UNCHANGED rssiSink
    BY <1>6 DEF UpdateTable, ResetSemaphore
  <2>3. \A c \in BeaconsOf(n) :
        /\ c.src = n /\ c.to \in Motes /\ c.dist = dist[n] /\ c.sink = sinkOf[n]
        /\ c \in Beacon /\ <<c.src, c.to>> \in Link
    BY <1>1, BeaconsSay
  <2>4. \A c \in air' : c \in air \/ c \in BeaconsOf(n)
    BY <1>2
  <2>5. air' \in SUBSET Beacon
    BY <2>3, <2>4 DEF IInv, TypeOK
  <2>6. ~Fresh(n)
    BY <2>1 DEF HasParent, Fresh
  <2>7. \A c \in air' : <<c.src, c.to>> \in Link /\ ~Fresh(c.src)
    BY <2>3, <2>4, <2>6 DEF IInv, AirOrigin
  <2>8. \A c \in air' : HasRoute(c.src) => c.dist = dist[c.src] /\ c.sink = sinkOf[c.src]
    BY <2>3, <2>4 DEF IInv, AirCurrent
  <2>9. \A b1, b2 \in air' : b1.src = b2.src => b1.dist = b2.dist /\ b1.sink = b2.sink
    <3>1. \A c \in air' : c.src = n => c.dist = dist[n] /\ c.sink = sinkOf[n]
      BY <1>1, <2>3, <2>4 DEF IInv, AirCurrent
    <3>2. \A c \in air' : c.src # n => c \in air
      BY <2>3, <2>4
    <3>3. QED BY <3>1, <3>2 DEF IInv, AirConsistent
  <2>10. \A c \in air' : \A m \in Motes :
            HasParent(m) /\ parent[m] = c.src => dist[m] = c.dist + 1 /\ sinkOf[m] = c.sink
    <3> SUFFICES ASSUME NEW c \in air', NEW m \in Motes, HasParent(m), parent[m] = c.src
                 PROVE  dist[m] = c.dist + 1 /\ sinkOf[m] = c.sink
      OBVIOUS
    <3>1. CASE c \in air
      BY <3>1 DEF IInv, AirKnown
    <3>2. CASE c \in BeaconsOf(n)
      BY <3>2, <1>1, <2>3 DEF IInv, AgreesWithParent
    <3>3. QED BY <2>4, <3>1, <3>2
  <2>11. /\ SinksStay' /\ Phases' /\ AgreesWithParent'
         /\ AirOrigin' /\ AirCurrent' /\ AirConsistent' /\ AirKnown'
    BY <2>1, <2>2, <2>5, <2>7, <2>8, <2>9, <2>10, ExpiryKeeps
  <2>12. TypeOK'
    BY <1>3, <2>2, <2>5, DiscoveryAssumption DEF IInv, TypeOK
  <2>13. QED BY <2>11, <2>12 DEF IInv
<1>7. QED
  BY <1>4, <1>5, <1>6 DEF UpdateTable

\* The steps that only move a counter, a bound or a battery.
LEMMA OtherKeeps ==
  ASSUME IInv, UNCHANGED <<moteVars, timerVars, air>>,
         alive' \in [Nodes -> BOOLEAN], fired' \in SUBSET Nodes,
         lost' = lost, late' \in [Nodes -> 0 .. MaxLate]
  PROVE  IInv'
BY DEF IInv, TypeOK, moteVars, timerVars, SinksStay, Phases, Fresh, HasParent, HasRoute,
       AirOrigin, AirCurrent, AirConsistent, AirKnown, AgreesWithParent

LEMMA NextIInv == IInv /\ [Next]_vars => IInv'
<1> SUFFICES ASSUME IInv, [Next]_vars PROVE IInv'
  OBVIOUS
<1>1. ASSUME NEW b \in air, RxBeacon(b) PROVE IInv'
  BY <1>1, RxBeaconKeeps
<1>2. ASSUME NEW b \in air, LoseBeacon(b) PROVE IInv'
  BY <1>2, LoseBeaconKeeps
<1>3. ASSUME NEW n \in Nodes, TimerTask(n) PROVE IInv'
  BY <1>3, TimerTaskKeeps
<1>4. ASSUME NEW n \in Nodes, IdleTask(n) PROVE IInv'
  <2>1. fired' \in SUBSET Nodes
    BY <1>4 DEF IdleTask, Fire, IInv, TypeOK
  <2>2. QED BY <1>4, <2>1, OtherKeeps DEF IdleTask, IInv, TypeOK
<1>5. ASSUME NEW n \in Nodes, LateTask(n) PROVE IInv'
  <2>1. fired' \in SUBSET Nodes
    BY <1>5 DEF LateTask, Fire, IInv, TypeOK
  <2>2. late' \in [Nodes -> 0 .. MaxLate]
    BY <1>5, DiscoveryAssumption DEF LateTask, IInv, TypeOK
  <2>3. QED BY <1>5, <2>1, <2>2, OtherKeeps DEF LateTask, IInv, TypeOK
<1>6. ASSUME NEW m \in Mortal, Drain(m) PROVE IInv'
  BY <1>6, OtherKeeps DEF Drain, IInv, TypeOK
<1>7. CASE UNCHANGED vars
  BY <1>7, OtherKeeps DEF vars, IInv, TypeOK
<1>8. QED
  BY <1>1, <1>2, <1>3, <1>4, <1>5, <1>6, <1>7 DEF Next

LEMMA Invariance == Spec => []IInv
<1>1. QED BY InitIInv, NextIInv, PTL DEF Spec

------------------------------------------------------------------------------
(* The theorems *)

\* Every reachable state is well-typed: in particular no beacon carries the
\* blank sink address of an expired rule, and no time to live falls below 0.
THEOREM TypeCorrect == Spec => []TypeOK
<1>1. IInv => TypeOK
  BY DEF IInv
<1>2. QED BY <1>1, Invariance, PTL

\* A mote is one hop further than its parent and uses the same sink.
THEOREM Agreement == Spec => []AgreesWithParent
<1>1. IInv => AgreesWithParent
  BY DEF IInv
<1>2. QED BY <1>1, Invariance, PTL

\* Packets sent to the sink do not circle, in a network of any shape.
THEOREM LoopFree == Spec => []NoRoutingLoop
<1>1. IInv => NoRoutingLoop
  <2> SUFFICES ASSUME IInv, NEW S \in SUBSET Motes, S # {},
                      \A m \in S : HasParent(m) /\ parent[m] \in S
               PROVE  FALSE
    BY DEF NoRoutingLoop
  <2> DEFINE D == {dist[m] : m \in S}
  <2>1. D \in SUBSET Nat /\ D # {}
    BY DEF IInv, TypeOK, Nodes
  <2>2. PICK d \in D : \A k \in D : d <= k
    <3> HIDE DEF D
    <3> QED BY <2>1, LeastElement
  <2>3. PICK m \in S : dist[m] = d
    BY <2>2
  <2>4. parent[m] \in S /\ HasParent(m) /\ HasRoute(parent[m])
    BY <2>3 DEF HasRoute
  <2>5. dist[m] = dist[parent[m]] + 1 /\ dist[parent[m]] \in Nat
    BY <2>4 DEF IInv, AgreesWithParent, TypeOK, Nodes
  <2>6. dist[parent[m]] \in D
    BY <2>4
  <2>7. dist[m] <= dist[parent[m]] /\ dist[m] \in Nat
    BY <2>1, <2>2, <2>3, <2>6
  <2>8. QED BY <2>5, <2>7
<1>2. QED BY <1>1, Invariance, PTL

\* No mote changes its parent for another one, or comes back after an expiry.
THEOREM OneParent == Spec => OneParentInALife
<1>1. ASSUME IInv, [Next]_vars, NEW m \in Motes, parent'[m] # parent[m]
      PROVE  parent[m] = m \/ parent'[m] = NoNode
  <2>1. ASSUME NEW b \in air, RxBeacon(b) PROVE parent[m] = m \/ parent'[m] = NoNode
    <3>1. Accepts(b.to, b) /\ Adopt(b.to, b)
      BY <1>1, <2>1 DEF RxBeacon, Refresh, moteVars
    <3>2. b.to = m
      BY <1>1, <3>1 DEF Adopt, IInv, TypeOK, Nodes
    <3>3. rssiSink[m] # Rssi
      BY <3>1, <3>2, DiscoveryAssumption DEF Accepts
    <3>4. QED BY <1>1, <3>3 DEF IInv, Phases, Fresh
  <2>2. ASSUME NEW n \in Nodes, TimerTask(n) PROVE parent[m] = m \/ parent'[m] = NoNode
    <3>1. parent' = parent \/ parent' = [parent EXCEPT ![n] = NoNode]
      BY <2>2 DEF TimerTask, UpdateTable, moteVars
    <3>2. QED BY <1>1, <3>1 DEF IInv, TypeOK, Nodes
  <2>3. \/ \E b \in air : RxBeacon(b)
        \/ \E n \in Nodes : TimerTask(n)
        \/ parent' = parent
    BY <1>1 DEF Next, LoseBeacon, IdleTask, LateTask, Drain, moteVars, vars
  <2>4. QED BY <1>1, <2>1, <2>2, <2>3
<1>2. IInv /\ [Next]_vars =>
        [\A m \in Motes : parent'[m] # parent[m] => parent[m] = m \/ parent'[m] = NoNode]_vars
  BY <1>1
<1>3. QED BY <1>2, Invariance, PTL DEF Spec, OneParentInALife

------------------------------------------------------------------------------
(* Time *)

\* Without dead batteries every rule keeps pace with the clock of the parent,
\* which beacons: only rules that were aged too often run out.

OnTheWay(m) == IF \E b \in air : b.src = parent[m] /\ b.to = m THEN 1 ELSE 0

\* The ticks its parent has counted since it sent the beacon m heard last.
ParentTicks(m) == BeaconMax * (lost[m] + OnTheWay(m)) + cntBeacon[parent[m]]

\* Whether m has fired before its parent in this second, or after it.
Ahead(m) == (IF m \in fired THEN 1 ELSE 0) - (IF parent[m] \in fired THEN 1 ELSE 0)

\* k agings of the rule of m since it was restored fit into the ticks of its
\* parent, those the parent was late by, and what is left of the present second.
Aged(m, k) ==
  /\ ttl[m] = TtlMax - k * TtlDecr
  /\ k * UpdTableMax + cntUpdTable[m] <= UpdTableMax + ParentTicks(m) + late[m] + Ahead(m)

\* A beacon arrives or is lost in the second it was sent in.
AirFresh == \A b \in air : (b.src \in fired \/ fired = {}) /\ cntBeacon[b.src] = 0

TimeInv ==
  /\ \A n \in Nodes : parent[n] # NoNode /\ alive[n] /\ (n \in Sinks => semaphore[n] = 1)
  /\ \A m \in Motes : HasParent(m) => <<parent[m], m>> \in Link
  /\ AirFresh
  /\ \A m \in Motes : HasParent(m) => \E k \in Nat : Aged(m, k)

JInv == IInv /\ TimeInv

\* The time a rule has left is a bound on the agings it has had.
LEMMA AgingsLeft ==
  ASSUME NEW k \in Nat, TtlMax - k * TtlDecr < TtlDecr
  PROVE  UpdTableMax * (TtlMax \div TtlDecr) <= k * UpdTableMax
<1> DEFINE q == TtlMax \div TtlDecr
<1>1. q \in Nat /\ q * TtlDecr <= TtlMax
  BY DiscoveryAssumption, Z3
<1>2. TtlMax < (k + 1) * TtlDecr
  BY DiscoveryAssumption
<1>3. q <= k
  <2> SUFFICES ASSUME k + 1 <= q PROVE FALSE
    BY <1>1
  <2> HIDE DEF q
  <2>1. (k + 1) * TtlDecr <= q * TtlDecr
    BY <1>1, DiscoveryAssumption, Z3
  <2>2. (k + 1) * TtlDecr \in Int /\ q * TtlDecr \in Int
    BY <1>1, DiscoveryAssumption
  <2>3. QED BY <1>1, <1>2, <2>1, <2>2, DiscoveryAssumption
<1> HIDE DEF q
<1>4. UpdTableMax * q <= k * UpdTableMax
  BY <1>1, <1>3, DiscoveryAssumption, Z3
<1>5. QED BY <1>4 DEF q

\* No rule is at its end when it is aged.
LEMMA NotExpired ==
  ASSUME InTime, JInv, NEW m \in Motes, HasParent(m), m \notin fired,
         fired = {} => air = {},
         cntUpdTable[m] + 1 >= UpdTableMax
  PROVE  ttl[m] >= TtlDecr
<1> SUFFICES ASSUME ttl[m] < TtlDecr PROVE FALSE
  BY DiscoveryAssumption DEF JInv, IInv, TypeOK, Nodes
<1> DEFINE p == parent[m]
<1>1. PICK k \in Nat : Aged(m, k)
  BY DEF JInv, TimeInv
<1>2. UpdTableMax * (TtlMax \div TtlDecr) <= k * UpdTableMax
  BY <1>1, AgingsLeft DEF Aged
<1>3. /\ cntUpdTable[m] = UpdTableMax - 1
      /\ lost[m] \in 0 .. MaxLost /\ late[m] \in 0 .. MaxLate
      /\ p \in Nodes /\ cntBeacon[p] \in 0 .. (BeaconMax - 1)
  BY DiscoveryAssumption DEF JInv, IInv, TypeOK, Nodes, HasParent
<1>4. ParentTicks(m) + Ahead(m) <= BeaconMax * (MaxLost + 1) - 1
  <2>1. CASE OnTheWay(m) = 1
    <3>1. p \in fired /\ cntBeacon[p] = 0
      BY <2>1 DEF OnTheWay, JInv, TimeInv, AirFresh
    <3>2. Ahead(m) = -1
      BY <3>1 DEF Ahead
    <3>3. BeaconMax * (lost[m] + 1) <= BeaconMax * (MaxLost + 1)
      BY <1>3, DiscoveryAssumption, Z3
    <3>4. BeaconMax * (lost[m] + 1) \in Int /\ BeaconMax * (MaxLost + 1) \in Int
      BY <1>3, DiscoveryAssumption
    <3>5. ParentTicks(m) = BeaconMax * (lost[m] + 1)
      BY <2>1, <3>1, <3>4 DEF ParentTicks
    <3>6. QED BY <3>2, <3>3, <3>4, <3>5
  <2>2. CASE OnTheWay(m) = 0
    <3>1. Ahead(m) <= 0 /\ Ahead(m) \in Int
      BY DEF Ahead
    <3>2. BeaconMax * lost[m] + BeaconMax <= BeaconMax * (MaxLost + 1)
      BY <1>3, DiscoveryAssumption, Z3
    <3>3. BeaconMax * lost[m] \in Int /\ BeaconMax * (MaxLost + 1) \in Int
      BY <1>3, DiscoveryAssumption
    <3>4. ParentTicks(m) = BeaconMax * lost[m] + cntBeacon[p]
      BY <1>3, <2>2, <3>3 DEF ParentTicks
    <3>5. QED BY <1>3, <3>1, <3>2, <3>3, <3>4, DiscoveryAssumption
  <2>3. QED BY <2>1, <2>2 DEF OnTheWay
<1>5. /\ ParentTicks(m) \in Int /\ Ahead(m) \in Int
      /\ k * UpdTableMax \in Int /\ BeaconMax * (MaxLost + 1) \in Int
      /\ UpdTableMax * (TtlMax \div TtlDecr) \in Int
  BY <1>3, DiscoveryAssumption DEF ParentTicks, Ahead, OnTheWay
<1>6. k * UpdTableMax + cntUpdTable[m] <= UpdTableMax + ParentTicks(m) + late[m] + Ahead(m)
  BY <1>1 DEF Aged
<1>7. QED BY <1>2, <1>3, <1>4, <1>5, <1>6, DiscoveryAssumption DEF InTime

\* Who a mote with a parent is, and who the parent is.
LEMMA Pair ==
  ASSUME JInv, NEW m \in Motes, HasParent(m)
  PROVE  /\ m \in Nodes /\ parent[m] \in Nodes /\ parent[m] # m
         /\ semaphore[m] = 1 /\ semaphore[parent[m]] = 1
         /\ alive[m] /\ alive[parent[m]]
<1> DEFINE p == parent[m]
<1>1. m \in Nodes /\ p \in Nodes /\ p # m
  BY DEF HasParent, Nodes
<1>2. semaphore[m] = 1 /\ ~Fresh(p)
  BY DEF JInv, IInv, Phases
<1>3. parent[p] \in Nodes \cup {NoNode} /\ parent[p] # NoNode /\ alive[p] /\ alive[m]
  BY <1>1 DEF JInv, IInv, TypeOK, TimeInv
<1>4. CASE p \in Sinks
  BY <1>1, <1>2, <1>3, <1>4 DEF JInv, TimeInv
<1>5. CASE p \in Motes
  <2>1. HasParent(p)
    BY <1>2, <1>3, <1>5 DEF Fresh, HasParent
  <2>2. semaphore[p] = 1
    BY <1>5, <2>1 DEF JInv, IInv, Phases
  <2>3. QED BY <1>1, <1>2, <1>3, <2>2
<1>6. QED BY <1>1, <1>4, <1>5 DEF Nodes

\* The numbers in the bound are integers.
LEMMA BoundTypes ==
  ASSUME IInv, NEW m \in Motes, HasParent(m)
  PROVE  /\ ttl[m] \in Int /\ cntUpdTable[m] \in 0 .. (UpdTableMax - 1)
         /\ cntBeacon[parent[m]] \in 0 .. (BeaconMax - 1)
         /\ lost[m] \in Nat /\ late[m] \in Nat /\ OnTheWay(m) \in {0, 1}
         /\ Ahead(m) \in {-1, 0, 1} /\ BeaconMax * (lost[m] + OnTheWay(m)) \in Nat
         /\ ParentTicks(m) \in Nat
<1>1. m \in Nodes /\ parent[m] \in Nodes
  BY DEF HasParent, Nodes
<1>2. ttl[m] \in 0 .. TtlPermanent
  BY <1>1 DEF IInv, TypeOK
<1>3. /\ cntUpdTable[m] \in 0 .. (UpdTableMax - 1)
      /\ cntBeacon[parent[m]] \in 0 .. (BeaconMax - 1)
  BY <1>1 DEF IInv, TypeOK
<1>4. lost[m] \in Nat /\ late[m] \in Nat
  BY <1>1, DiscoveryAssumption DEF IInv, TypeOK
<1>5. OnTheWay(m) \in {0, 1} /\ Ahead(m) \in {-1, 0, 1}
  BY DEF OnTheWay, Ahead
<1>6. lost[m] + OnTheWay(m) \in Nat
  BY <1>4, <1>5
<1>7. BeaconMax * (lost[m] + OnTheWay(m)) \in Nat
  BY <1>6, DiscoveryAssumption
<1>8. QED BY <1>2, <1>3, <1>4, <1>5, <1>7, DiscoveryAssumption DEF ParentTicks

LEMMA BoundTypesNext ==
  ASSUME IInv', NEW m \in Motes, HasParent(m)'
  PROVE  /\ cntUpdTable'[m] \in 0 .. (UpdTableMax - 1)
         /\ late'[m] \in Nat /\ OnTheWay(m)' \in {0, 1}
         /\ Ahead(m)' \in {-1, 0, 1} /\ ParentTicks(m)' \in Nat
<1>1. m \in Nodes /\ parent'[m] \in Nodes
  BY DEF HasParent, Nodes
<1>2. /\ cntUpdTable'[m] \in 0 .. (UpdTableMax - 1)
      /\ cntBeacon'[parent'[m]] \in 0 .. (BeaconMax - 1)
  BY <1>1 DEF IInv, TypeOK
<1>3. lost'[m] \in Nat /\ late'[m] \in Nat
  BY <1>1, DiscoveryAssumption DEF IInv, TypeOK
<1>4. OnTheWay(m)' \in {0, 1} /\ Ahead(m)' \in {-1, 0, 1}
  BY DEF OnTheWay, Ahead
<1>5. lost'[m] + OnTheWay(m)' \in Nat
  BY <1>3, <1>4
<1>6. BeaconMax * (lost'[m] + OnTheWay(m)') \in Nat
  BY <1>5, DiscoveryAssumption
<1>7. QED BY <1>2, <1>3, <1>4, <1>6, DiscoveryAssumption DEF ParentTicks

\* A rule that a step does not age is as good as before, if the clock of its
\* parent does not go back.
LEMMA NotOlder ==
  ASSUME IInv, IInv', NEW m \in Motes, HasParent(m), HasParent(m)',
         ttl'[m] = ttl[m], cntUpdTable'[m] = cntUpdTable[m],
         ParentTicks(m)' + late'[m] + Ahead(m)' >= ParentTicks(m) + late[m] + Ahead(m),
         \E k \in Nat : Aged(m, k)
  PROVE  \E k \in Nat : Aged(m, k)'
<1>1. PICK k \in Nat : Aged(m, k)
  OBVIOUS
<1>2. /\ ParentTicks(m) \in Nat /\ late[m] \in Nat /\ Ahead(m) \in Int
      /\ cntUpdTable[m] \in Int
  BY BoundTypes
<1>3. ParentTicks(m)' \in Nat /\ late'[m] \in Nat /\ Ahead(m)' \in Int
  BY BoundTypesNext
<1>4. k * UpdTableMax \in Int /\ UpdTableMax \in Int
  BY DiscoveryAssumption
<1>5. ttl'[m] = TtlMax - k * TtlDecr
  BY <1>1 DEF Aged
<1>6. k * UpdTableMax + cntUpdTable[m] <= UpdTableMax + ParentTicks(m) + late[m] + Ahead(m)
  BY <1>1 DEF Aged
<1>7. k * UpdTableMax + cntUpdTable'[m] <= UpdTableMax + ParentTicks(m)' + late'[m] + Ahead(m)'
  BY <1>2, <1>3, <1>4, <1>6
<1>8. Aged(m, k)'
  BY <1>5, <1>7 DEF Aged
<1>9. QED BY <1>8

------------------------------------------------------------------------------
(* Time: receiving *)

LEMMA RxBeaconInTime ==
  ASSUME JInv, NEW b \in air, RxBeacon(b)
  PROVE  TimeInv'
<1> DEFINE m == b.to
<1>1. IInv /\ IInv'
  BY RxBeaconKeeps DEF JInv
<1>2. /\ m \in Motes /\ m \in Nodes /\ b.src \in Nodes /\ b.src # m /\ b \in Beacon
      /\ <<b.src, m>> \in Link
  BY <1>1, DiscoveryAssumption DEF IInv, TypeOK, Beacon, AirOrigin, Nodes
<1>3. air' = air \ {b} /\ UNCHANGED <<timerVars, alive, fired>>
  BY DEF RxBeacon
<1>4. /\ \A n \in Nodes : n # m =>
            /\ semaphore'[n] = semaphore[n] /\ parent'[n] = parent[n] /\ ttl'[n] = ttl[n]
            /\ lost'[n] = lost[n] /\ late'[n] = late[n]
  BY <1>1, <1>2 DEF RxBeacon, Adopt, Refresh, moteVars, IInv, TypeOK
<1>5. \/ /\ parent'[m] = b.src /\ ttl'[m] = TtlMax /\ lost'[m] = 0 /\ late'[m] = 0
      \/ /\ ~Accepts(m, b) /\ ~FromParent(m, b)
         /\ UNCHANGED moteVars /\ lost' = lost /\ late' = late
  BY <1>1, <1>2 DEF RxBeacon, Adopt, Refresh, FromParent, IInv, TypeOK
<1>6. m \notin Sinks
  BY <1>2, DiscoveryAssumption
<1>7. \A n \in Nodes : parent'[n] # NoNode /\ alive'[n] /\ (n \in Sinks => semaphore'[n] = 1)
  BY <1>2, <1>3, <1>4, <1>5, <1>6, DiscoveryAssumption DEF JInv, TimeInv, moteVars
<1>8. \A n \in Motes : HasParent(n)' => <<parent'[n], n>> \in Link
  BY <1>2, <1>4, <1>5 DEF JInv, TimeInv, HasParent, moteVars, Nodes
<1>9. AirFresh'
  BY <1>3 DEF JInv, TimeInv, AirFresh, timerVars
<1>10. ASSUME NEW n \in Motes, n # m, HasParent(n)' PROVE \E k \in Nat : Aged(n, k)'
  <2>1. HasParent(n) /\ parent'[n] = parent[n] /\ n \in Nodes /\ late'[n] = late[n]
    BY <1>4, <1>10 DEF HasParent, Nodes
  <2>2. OnTheWay(n)' = OnTheWay(n)
    BY <1>3, <1>10, <2>1 DEF OnTheWay
  <2>3. ParentTicks(n)' = ParentTicks(n) /\ Ahead(n)' = Ahead(n)
    BY <1>3, <1>4, <1>10, <2>1, <2>2 DEF ParentTicks, Ahead, timerVars
  <2>4. ParentTicks(n) \in Int /\ late[n] \in Int /\ Ahead(n) \in Int
    BY <1>1, <2>1, BoundTypes
  <2>5. ParentTicks(n)' + late'[n] + Ahead(n)' >= ParentTicks(n) + late[n] + Ahead(n)
    BY <2>1, <2>3, <2>4
  <2>6. ttl'[n] = ttl[n] /\ cntUpdTable'[n] = cntUpdTable[n]
    BY <1>3, <1>4, <1>10, <2>1 DEF timerVars
  <2>7. \E k \in Nat : Aged(n, k)
    BY <2>1 DEF JInv, TimeInv
  <2>8. QED BY <1>1, <1>10, <2>1, <2>5, <2>6, <2>7, NotOlder
<1>11. ASSUME HasParent(m)' PROVE \E k \in Nat : Aged(m, k)'
  <2>1. CASE parent'[m] = b.src /\ ttl'[m] = TtlMax /\ lost'[m] = 0 /\ late'[m] = 0
    <3>1. /\ cntUpdTable'[m] \in 0 .. (UpdTableMax - 1) /\ Ahead(m)' \in {-1, 0, 1}
          /\ ParentTicks(m)' \in Nat
      BY <1>1, <1>2, <1>11, BoundTypesNext
    <3>2. OnTheWay(m)' = 0
      <4>1. ASSUME NEW c \in air, c.src = b.src, c.to = m PROVE c = b
        BY <1>1, <1>2, <4>1 DEF IInv, AirConsistent, TypeOK, Beacon
      <4>2. QED BY <1>3, <2>1, <4>1 DEF OnTheWay
    <3>3. 0 * TtlDecr = 0 /\ 0 * UpdTableMax = 0
      BY DiscoveryAssumption
    <3>4. ttl'[m] = TtlMax - 0 * TtlDecr
      BY <2>1, <3>3, DiscoveryAssumption
    <3>5. 0 * UpdTableMax + cntUpdTable'[m] <= UpdTableMax + ParentTicks(m)' + late'[m] + Ahead(m)'
      BY <2>1, <3>1, <3>3, DiscoveryAssumption
    <3>6. Aged(m, 0)'
      BY <3>4, <3>5 DEF Aged
    <3>7. QED BY <3>6
  <2>2. CASE /\ ~Accepts(m, b) /\ ~FromParent(m, b)
             /\ UNCHANGED moteVars /\ lost' = lost /\ late' = late
    <3>1. HasParent(m) /\ parent' = parent
      BY <1>11, <2>2 DEF HasParent, moteVars
    <3>2. parent[m] # b.src
      <4> SUFFICES ASSUME parent[m] = b.src PROVE FALSE
        OBVIOUS
      <4>1. dist[m] = b.dist + 1
        BY <1>1, <1>2, <3>1 DEF IInv, AirKnown
      <4>2. QED BY <2>2, <4>1 DEF FromParent
    <3>3. OnTheWay(m)' = OnTheWay(m)
      BY <1>3, <3>1, <3>2 DEF OnTheWay
    <3>4. ParentTicks(m)' = ParentTicks(m) /\ Ahead(m)' = Ahead(m)
      BY <1>3, <2>2, <3>1, <3>3 DEF ParentTicks, Ahead, timerVars
    <3>5. ParentTicks(m) \in Int /\ late[m] \in Int /\ Ahead(m) \in Int
      BY <1>1, <1>2, <3>1, BoundTypes
    <3>6. ParentTicks(m)' + late'[m] + Ahead(m)' >= ParentTicks(m) + late[m] + Ahead(m)
      BY <2>2, <3>4, <3>5
    <3>7. ttl'[m] = ttl[m] /\ cntUpdTable'[m] = cntUpdTable[m]
      BY <1>3, <2>2 DEF timerVars, moteVars
    <3>8. \E k \in Nat : Aged(m, k)
      BY <1>2, <3>1 DEF JInv, TimeInv
    <3>9. QED BY <1>1, <1>2, <1>11, <3>1, <3>6, <3>7, <3>8, NotOlder
  <2>3. QED BY <1>5, <2>1, <2>2
<1>12. QED BY <1>7, <1>8, <1>9, <1>10, <1>11 DEF TimeInv

LEMMA LoseBeaconInTime ==
  ASSUME JInv, NEW b \in air, LoseBeacon(b)
  PROVE  TimeInv'
<1>1. IInv /\ IInv'
  BY LoseBeaconKeeps DEF JInv
<1>2. b.to \in Motes /\ b.to \in Nodes /\ b \in Beacon
  BY <1>1 DEF IInv, TypeOK, Beacon, Nodes
<1>3. air' = air \ {b} /\ UNCHANGED <<moteVars, timerVars, alive, fired, late>>
  BY DEF LoseBeacon
<1>4. ASSUME NEW n \in Motes, HasParent(n)' PROVE \E k \in Nat : Aged(n, k)'
  <2>1. HasParent(n) /\ n \in Nodes
    BY <1>3, <1>4 DEF HasParent, moteVars, Nodes
  <2>2. lost[n] + OnTheWay(n) = lost'[n] + OnTheWay(n)'
    <3>1. lost \in [Nodes -> 0 .. MaxLost]
      BY <1>1 DEF IInv, TypeOK
    <3>2. CASE b.to = n /\ parent[n] = b.src
      <4>1. lost'[n] = lost[n] + 1
        BY <1>2, <2>1, <3>1, <3>2 DEF LoseBeacon
      <4>2. OnTheWay(n) = 1
        BY <3>2 DEF OnTheWay
      <4>3. ASSUME NEW c \in air, c.src = b.src, c.to = n PROVE c = b
        BY <1>1, <1>2, <3>2, <4>3 DEF IInv, AirConsistent, TypeOK, Beacon
      <4>4. OnTheWay(n)' = 0
        BY <1>3, <3>2, <4>3 DEF OnTheWay, moteVars
      <4>5. QED BY <2>1, <3>1, <4>1, <4>2, <4>4, DiscoveryAssumption
    <3>3. CASE ~(b.to = n /\ parent[n] = b.src)
      <4>1. lost'[n] = lost[n]
        BY <1>2, <2>1, <3>1, <3>3 DEF LoseBeacon
      <4>2. OnTheWay(n)' = OnTheWay(n)
        BY <1>3, <3>3 DEF OnTheWay, moteVars
      <4>3. QED BY <4>1, <4>2
    <3>4. QED BY <3>2, <3>3
  <2>3. ParentTicks(n)' = ParentTicks(n) /\ Ahead(n)' = Ahead(n) /\ late'[n] = late[n]
    BY <1>3, <2>2 DEF ParentTicks, Ahead, timerVars, moteVars
  <2>4. ParentTicks(n) \in Int /\ late[n] \in Int /\ Ahead(n) \in Int
    BY <1>1, <2>1, BoundTypes
  <2>5. ParentTicks(n)' + late'[n] + Ahead(n)' >= ParentTicks(n) + late[n] + Ahead(n)
    BY <2>3, <2>4
  <2>6. ttl'[n] = ttl[n] /\ cntUpdTable'[n] = cntUpdTable[n]
    BY <1>3 DEF timerVars, moteVars
  <2>7. \E k \in Nat : Aged(n, k)
    BY <2>1 DEF JInv, TimeInv
  <2>8. QED BY <1>1, <1>4, <2>1, <2>5, <2>6, <2>7, NotOlder
<1>5. QED BY <1>3, <1>4 DEF JInv, TimeInv, AirFresh, HasParent, moteVars, timerVars

------------------------------------------------------------------------------
(* Time: the timer *)

\* A node that fires gets ahead of its parent, or its children fall back.
LEMMA FireAhead ==
  ASSUME JInv, NEW n \in Nodes, Fire(n), NEW m \in Motes, HasParent(m), parent'[m] = parent[m]
  PROVE  /\ n = m => Ahead(m)' = Ahead(m) + 1
         /\ n = parent[m] => Ahead(m)' = Ahead(m) - 1
         /\ n # m /\ n # parent[m] => Ahead(m)' = Ahead(m)
<1> DEFINE p == parent[m]
<1>1. m \in Nodes /\ p \in Nodes /\ p # m
  BY Pair
<1>2. n \notin fired /\ fired \subseteq Nodes
  BY DEF Fire, JInv, IInv, TypeOK
<1>3. CASE fired \cup {n} = Nodes
  <2>1. fired' = {}
    BY <1>3 DEF Fire
  <2>2. Ahead(m)' = 0
    BY <2>1 DEF Ahead
  <2>3. m \in fired <=> m # n
    BY <1>1, <1>2, <1>3
  <2>4. p \in fired <=> p # n
    BY <1>1, <1>2, <1>3
  <2>5. QED BY <1>1, <2>2, <2>3, <2>4 DEF Ahead
<1>4. CASE fired \cup {n} # Nodes
  <2>1. fired' = fired \cup {n}
    BY <1>4 DEF Fire
  <2>2. QED BY <1>1, <1>2, <2>1 DEF Ahead
<1>5. QED BY <1>3, <1>4

\* The beacons on their way are of this second and not of the node that fires.
LEMMA FireFresh ==
  ASSUME JInv, NEW n \in Nodes, Fire(n)
  PROVE  /\ n \in fired' \/ fired' = {}
         /\ \A b \in air : /\ b.src # n /\ cntBeacon[b.src] = 0
                           /\ b.src \in fired' \/ fired' = {}
<1>1. n \in fired' \/ fired' = {}
  BY DEF Fire
<1>2. ASSUME NEW b \in air
      PROVE  b.src # n /\ cntBeacon[b.src] = 0 /\ (b.src \in fired' \/ fired' = {})
  <2>1. b.src \in fired /\ cntBeacon[b.src] = 0
    BY <1>2 DEF Fire, JInv, TimeInv, AirFresh
  <2>2. QED BY <2>1 DEF Fire
<1>3. QED BY <1>1, <1>2

\* The timer of a node runs no rule out.
LEMMA TimerAges ==
  ASSUME InTime, JInv, NEW n \in Nodes, TimerTask(n)
  PROVE  /\ UNCHANGED <<semaphore, dist, rssiSink, parent, sinkOf>>
         /\ \A m \in Nodes : m # n => ttl'[m] = ttl[m]
         /\ n \in Motes => /\ HasParent(n)
                           /\ ttl'[n] = IF cntUpdTable[n] + 1 >= UpdTableMax
                                        THEN ttl[n] - TtlDecr ELSE ttl[n]
<1>1. semaphore[n] = 1 /\ ttl \in [Nodes -> 0 .. TtlPermanent] /\ n \notin fired
      /\ (fired = {} => air = {})
  BY DEF TimerTask, Fire, JInv, IInv, TypeOK
<1>2. CASE n \in Sinks
  <2>1. ttl[n] = TtlPermanent /\ n \notin Motes
    BY <1>2, DiscoveryAssumption DEF JInv, IInv, SinksStay
  <2>2. UNCHANGED moteVars
    BY <2>1 DEF TimerTask, UpdateTable
  <2>3. QED BY <2>1, <2>2 DEF moteVars
<1>3. CASE n \in Motes
  <2>1. HasParent(n)
    BY <1>1, <1>3 DEF JInv, IInv, Phases
  <2>2. ttl[n] # TtlPermanent
    <3>1. PICK k \in Nat : Aged(n, k)
      BY <1>3, <2>1 DEF JInv, TimeInv
    <3>2. k * TtlDecr \in Nat
      BY DiscoveryAssumption
    <3>3. QED BY <3>1, <3>2, DiscoveryAssumption DEF Aged
  <2>3. CASE cntUpdTable[n] + 1 >= UpdTableMax
    <3>1. ttl[n] >= TtlDecr
      BY <1>1, <1>3, <2>1, <2>3, NotExpired
    <3>2. /\ ttl' = [ttl EXCEPT ![n] = @ - TtlDecr]
          /\ UNCHANGED <<semaphore, dist, rssiSink, parent, sinkOf>>
      BY <2>2, <2>3, <3>1 DEF TimerTask, UpdateTable
    <3>3. QED BY <1>1, <2>1, <2>3, <3>2
  <2>4. CASE ~(cntUpdTable[n] + 1 >= UpdTableMax)
    <3>1. UNCHANGED moteVars
      BY <2>4 DEF TimerTask
    <3>2. QED BY <2>1, <2>4, <3>1 DEF moteVars
  <2>5. QED BY <2>3, <2>4
<1>4. QED BY <1>2, <1>3 DEF Nodes

\* A beacon names its sender.
LEMMA SentBy ==
  ASSUME NEW n \in Nodes, NEW b \in BeaconsOf(n)
  PROVE  b.src = n
<1>1. \E m \in Motes : b = [src |-> n, to |-> m, dist |-> dist[n], sink |-> sinkOf[n]]
  BY DEF BeaconsOf
<1>2. QED BY <1>1

\* The clock of a parent is the beacons it sent and the ticks since the last.
LEMMA TimerTicks ==
  ASSUME InTime, JInv, NEW n \in Nodes, TimerTask(n), NEW m \in Motes, HasParent(m)
  PROVE  ParentTicks(m)' = ParentTicks(m) + (IF n = parent[m] THEN 1 ELSE 0)
<1> DEFINE p == parent[m]
<1>1. p \in Nodes /\ parent' = parent /\ lost' = lost /\ Fire(n)
  BY Pair, TimerAges DEF TimerTask
<1>2. cntBeacon \in [Nodes -> 0 .. (BeaconMax - 1)]
  BY DEF JInv, IInv, TypeOK
<1>3. CASE n # p
  <2>1. cntBeacon'[p] = cntBeacon[p]
    BY <1>1, <1>2, <1>3 DEF TimerTask
  <2>2. \A b \in BeaconsOf(n) : b.src = n
    BY SentBy
  <2>3. air' = air \/ air' = air \cup BeaconsOf(n)
    BY DEF TimerTask
  <2>4. OnTheWay(m)' = OnTheWay(m)
    BY <1>1, <1>3, <2>2, <2>3 DEF OnTheWay
  <2>5. ParentTicks(m)' = ParentTicks(m)
    BY <1>1, <2>1, <2>4 DEF ParentTicks
  <2>6. ParentTicks(m) \in Nat
    BY BoundTypes DEF JInv
  <2>7. QED BY <1>3, <2>5, <2>6
<1>4. CASE n = p
  <2>1. OnTheWay(m) = 0
    BY <1>1, <1>4, FireFresh DEF OnTheWay
  <2>2. lost[m] \in Nat /\ cntBeacon[p] \in 0 .. (BeaconMax - 1)
    BY BoundTypes DEF JInv
  <2>3. ParentTicks(m) = BeaconMax * lost[m] + cntBeacon[p] /\ BeaconMax * lost[m] \in Nat
    BY <2>1, <2>2, DiscoveryAssumption DEF ParentTicks
  <2>4. CASE cntBeacon[n] + 1 >= BeaconMax
    <3>1. cntBeacon'[p] = 0 /\ cntBeacon[p] = BeaconMax - 1
      BY <1>1, <1>2, <1>4, <2>2, <2>4, DiscoveryAssumption DEF TimerTask
    <3>2. air' = air \cup BeaconsOf(n)
      BY <2>4 DEF TimerTask
    <3>3. <<p, m>> \in Link
      BY DEF JInv, TimeInv
    <3>4. [src |-> n, to |-> m, dist |-> dist[n], sink |-> sinkOf[n]] \in BeaconsOf(n)
      BY <1>4, <3>3 DEF BeaconsOf
    <3>5. OnTheWay(m)' = 1
      BY <1>1, <1>4, <3>2, <3>4 DEF OnTheWay
    <3>6. ParentTicks(m)' = BeaconMax * (lost[m] + 1) + 0
      BY <1>1, <3>1, <3>5 DEF ParentTicks
    <3>7. BeaconMax * (lost[m] + 1) = BeaconMax * lost[m] + BeaconMax
      BY <2>2, DiscoveryAssumption
    <3>8. QED BY <1>4, <2>3, <3>1, <3>6, <3>7, DiscoveryAssumption
  <2>5. CASE ~(cntBeacon[n] + 1 >= BeaconMax)
    <3>1. cntBeacon'[p] = cntBeacon[p] + 1 /\ air' = air
      BY <1>1, <1>2, <1>4, <2>5 DEF TimerTask
    <3>2. OnTheWay(m)' = 0
      BY <1>1, <2>1, <3>1 DEF OnTheWay
    <3>3. ParentTicks(m)' = BeaconMax * lost[m] + (cntBeacon[p] + 1)
      BY <1>1, <2>2, <3>1, <3>2, DiscoveryAssumption DEF ParentTicks
    <3>4. QED BY <1>4, <2>2, <2>3, <3>3
  <2>6. QED BY <2>4, <2>5
<1>5. QED BY <1>3, <1>4

LEMMA TimerTaskInTime ==
  ASSUME InTime, JInv, NEW n \in Nodes, TimerTask(n)
  PROVE  TimeInv'
<1>1. IInv /\ IInv'
  BY TimerTaskKeeps DEF JInv
<1>2. /\ UNCHANGED <<semaphore, dist, rssiSink, parent, sinkOf, alive, lost, late>>
      /\ Fire(n)
  BY TimerAges DEF TimerTask
<1>3. /\ cntUpdTable \in [Nodes -> 0 .. (UpdTableMax - 1)]
      /\ cntBeacon \in [Nodes -> 0 .. (BeaconMax - 1)]
  BY <1>1 DEF IInv, TypeOK
<1>4. AirFresh'
  <2> SUFFICES ASSUME NEW b \in air'
               PROVE  (b.src \in fired' \/ fired' = {}) /\ cntBeacon'[b.src] = 0
    BY DEF AirFresh
  <2>1. CASE b \in air
    <3>1. /\ b.src # n /\ cntBeacon[b.src] = 0
          /\ b.src \in fired' \/ fired' = {}
      BY <1>2, <2>1, FireFresh
    <3>2. cntBeacon'[b.src] = cntBeacon[b.src]
      BY <1>1, <1>3, <2>1, <3>1 DEF TimerTask, IInv, TypeOK, Beacon
    <3>3. QED BY <3>1, <3>2
  <2>2. CASE b \notin air
    <3>1. b \in BeaconsOf(n) /\ cntBeacon[n] + 1 >= BeaconMax
      BY <2>2 DEF TimerTask
    <3>2. b.src = n
      BY <3>1, SentBy
    <3>3. cntBeacon'[n] = 0
      BY <1>3, <3>1 DEF TimerTask
    <3>4. QED BY <1>2, <3>2, <3>3, FireFresh
  <2>3. QED BY <2>1, <2>2
<1>5. ASSUME NEW m \in Motes, HasParent(m)' PROVE \E k \in Nat : Aged(m, k)'
  <2>1. HasParent(m) /\ parent'[m] = parent[m] /\ m \in Nodes
    BY <1>2, <1>5 DEF HasParent, Nodes
  <2>2. /\ ParentTicks(m) \in Nat /\ Ahead(m) \in Int /\ late[m] \in Nat
        /\ cntUpdTable[m] \in 0 .. (UpdTableMax - 1) /\ ttl[m] \in Int
    BY <1>1, <2>1, BoundTypes
  <2>3. ParentTicks(m)' = ParentTicks(m) + (IF n = parent[m] THEN 1 ELSE 0)
    BY <2>1, TimerTicks
  <2>4. PICK k \in Nat : Aged(m, k)
    BY <2>1 DEF JInv, TimeInv
  <2>5. CASE n # m
    <3>1. ParentTicks(m)' + Ahead(m)' = ParentTicks(m) + Ahead(m)
      BY <1>2, <2>1, <2>2, <2>3, <2>5, FireAhead
    <3>2. ParentTicks(m)' \in Nat /\ Ahead(m)' \in Int
      BY <1>1, <1>5, BoundTypesNext
    <3>3. ParentTicks(m)' + late'[m] + Ahead(m)' >= ParentTicks(m) + late[m] + Ahead(m)
      BY <1>2, <2>2, <3>1, <3>2
    <3>4. ttl'[m] = ttl[m]
      BY <2>1, <2>5, TimerAges
    <3>5. cntUpdTable'[m] = cntUpdTable[m]
      BY <1>3, <2>1, <2>5 DEF TimerTask
    <3>6. QED BY <1>1, <1>5, <2>1, <2>4, <3>3, <3>4, <3>5, NotOlder
  <2>6. CASE n = m
    <3>1. n # parent[m] /\ Ahead(m)' = Ahead(m) + 1
      BY <1>2, <2>1, <2>6, Pair, FireAhead
    <3>2. ParentTicks(m)' = ParentTicks(m) /\ late'[m] = late[m]
      BY <1>2, <2>2, <2>3, <3>1
    <3>3. k * UpdTableMax \in Int /\ k * TtlDecr \in Int /\ UpdTableMax \in Int
      BY DiscoveryAssumption
    <3>4. /\ ttl[m] = TtlMax - k * TtlDecr
          /\ k * UpdTableMax + cntUpdTable[m]
               <= UpdTableMax + ParentTicks(m) + late[m] + Ahead(m)
      BY <2>4 DEF Aged
    <3>5. CASE cntUpdTable[m] + 1 >= UpdTableMax
      <4>1. ttl'[m] = ttl[m] - TtlDecr
        BY <2>6, <3>5, TimerAges
      <4>2. cntUpdTable'[m] = 0 /\ cntUpdTable[m] + 1 = UpdTableMax
        BY <1>3, <2>2, <2>6, <3>5, DiscoveryAssumption DEF TimerTask
      <4>3. /\ (k + 1) * TtlDecr = k * TtlDecr + TtlDecr
            /\ (k + 1) * UpdTableMax = k * UpdTableMax + UpdTableMax
        BY DiscoveryAssumption
      <4>4. ttl'[m] = TtlMax - (k + 1) * TtlDecr
        BY <3>3, <3>4, <4>1, <4>3, DiscoveryAssumption
      <4>5. (k + 1) * UpdTableMax + cntUpdTable'[m]
              <= UpdTableMax + ParentTicks(m)' + late'[m] + Ahead(m)'
        BY <2>2, <3>1, <3>2, <3>3, <3>4, <4>2, <4>3
      <4>6. Aged(m, k + 1)'
        BY <4>4, <4>5 DEF Aged
      <4>7. QED BY <4>6
    <3>6. CASE ~(cntUpdTable[m] + 1 >= UpdTableMax)
      <4>1. ttl'[m] = ttl[m]
        BY <2>6, <3>6, TimerAges
      <4>2. cntUpdTable'[m] = cntUpdTable[m] + 1
        BY <1>3, <2>6, <3>6 DEF TimerTask
      <4>3. k * UpdTableMax + cntUpdTable'[m]
              <= UpdTableMax + ParentTicks(m)' + late'[m] + Ahead(m)'
        BY <2>2, <3>1, <3>2, <3>3, <3>4, <4>2
      <4>4. ttl'[m] = TtlMax - k * TtlDecr
        BY <3>4, <4>1
      <4>5. Aged(m, k)'
        BY <4>3, <4>4 DEF Aged
      <4>6. QED BY <4>5
    <3>7. QED BY <3>5, <3>6
  <2>7. QED BY <2>5, <2>6
<1>6. QED BY <1>2, <1>4, <1>5 DEF JInv, TimeInv, HasParent

\* The timer of a mote that has not joined.
LEMMA IdleTaskInTime ==
  ASSUME JInv, NEW n \in Nodes, IdleTask(n)
  PROVE  TimeInv'
<1>1. IInv /\ IInv'
  <2>1. Next
    BY DEF Next
  <2>2. QED BY <2>1, NextIInv DEF JInv
<1>2. Fire(n) /\ UNCHANGED <<moteVars, timerVars, alive, air, lost, late>>
  BY DEF IdleTask
<1>3. AirFresh'
  BY <1>2, FireFresh DEF AirFresh, timerVars
<1>4. semaphore[n] # 1
  BY DEF IdleTask, JInv, TimeInv
<1>5. ASSUME NEW m \in Motes, HasParent(m)' PROVE \E k \in Nat : Aged(m, k)'
  <2>1. HasParent(m) /\ parent' = parent
    BY <1>2, <1>5 DEF HasParent, moteVars
  <2>2. n # m /\ n # parent[m]
    BY <1>4, <2>1, Pair
  <2>3. Ahead(m)' = Ahead(m)
    BY <1>2, <2>1, <2>2, FireAhead
  <2>4. ParentTicks(m)' = ParentTicks(m) /\ late' = late
    BY <1>2, <2>1 DEF ParentTicks, OnTheWay, timerVars
  <2>5. ParentTicks(m) \in Nat /\ Ahead(m) \in Int /\ late[m] \in Nat
    BY <1>1, <2>1, BoundTypes
  <2>6. ParentTicks(m)' + late'[m] + Ahead(m)' >= ParentTicks(m) + late[m] + Ahead(m)
    BY <2>3, <2>4, <2>5
  <2>7. ttl'[m] = ttl[m] /\ cntUpdTable'[m] = cntUpdTable[m]
    BY <1>2 DEF moteVars, timerVars
  <2>8. \E k \in Nat : Aged(m, k)
    BY <2>1 DEF JInv, TimeInv
  <2>9. QED BY <1>1, <1>5, <2>1, <2>6, <2>7, <2>8, NotOlder
<1>6. QED BY <1>2, <1>3, <1>5 DEF JInv, TimeInv, HasParent, moteVars

\* A parent that runs one tick less is late for each of its children.
LEMMA LateTaskInTime ==
  ASSUME JInv, NEW n \in Nodes, LateTask(n)
  PROVE  TimeInv'
<1>1. IInv /\ IInv'
  <2>1. Next
    BY DEF Next
  <2>2. QED BY <2>1, NextIInv DEF JInv
<1>2. /\ Fire(n) /\ UNCHANGED <<moteVars, timerVars, alive, air, lost>>
      /\ late' = [m \in Nodes |-> IF m \in Children(n) THEN late[m] + 1 ELSE late[m]]
  BY DEF LateTask
<1>3. AirFresh'
  BY <1>2, FireFresh DEF AirFresh, timerVars
<1>4. ASSUME NEW m \in Motes, HasParent(m)' PROVE \E k \in Nat : Aged(m, k)'
  <2>1. HasParent(m) /\ parent' = parent /\ m \in Nodes
    BY <1>2, <1>4 DEF HasParent, moteVars, Nodes
  <2>2. ParentTicks(m)' = ParentTicks(m)
    BY <1>2, <2>1 DEF ParentTicks, OnTheWay, timerVars
  <2>3. ParentTicks(m) \in Nat /\ Ahead(m) \in Int /\ late[m] \in Nat
    BY <1>1, <2>1, BoundTypes
  <2>4. late'[m] + Ahead(m)' >= late[m] + Ahead(m)
    <3>1. CASE n = parent[m]
      <4>1. m \in Children(n)
        BY <2>1, <3>1 DEF Children
      <4>2. late'[m] = late[m] + 1
        BY <1>2, <2>1, <4>1
      <4>3. Ahead(m)' = Ahead(m) - 1
        BY <1>2, <2>1, <3>1, FireAhead
      <4>4. QED BY <2>3, <4>2, <4>3
    <3>2. CASE n # parent[m]
      <4>1. m \notin Children(n)
        BY <3>2 DEF Children
      <4>2. late'[m] = late[m]
        BY <1>2, <2>1, <4>1
      <4>3. Ahead(m)' = Ahead(m) + 1 \/ Ahead(m)' = Ahead(m)
        BY <1>2, <2>1, <3>2, FireAhead
      <4>4. QED BY <2>3, <4>2, <4>3
    <3>3. QED BY <3>1, <3>2
  <2>5. late'[m] \in Nat /\ Ahead(m)' \in Int
    BY <1>1, <1>4, BoundTypesNext
  <2>6. ParentTicks(m)' + late'[m] + Ahead(m)' >= ParentTicks(m) + late[m] + Ahead(m)
    BY <2>2, <2>3, <2>4, <2>5
  <2>7. ttl'[m] = ttl[m] /\ cntUpdTable'[m] = cntUpdTable[m]
    BY <1>2 DEF moteVars, timerVars
  <2>8. \E k \in Nat : Aged(m, k)
    BY <2>1 DEF JInv, TimeInv
  <2>9. QED BY <1>1, <1>4, <2>1, <2>6, <2>7, <2>8, NotOlder
<1>5. QED BY <1>2, <1>3, <1>4 DEF JInv, TimeInv, HasParent, moteVars

LEMMA InitJInv == Init => JInv
<1> SUFFICES ASSUME Init PROVE JInv
  OBVIOUS
<1>1. \A m \in Motes : ~HasParent(m)
  BY DEF Init, HasParent, Nodes
<1>2. \A n \in Nodes : parent[n] # NoNode /\ alive[n] /\ (n \in Sinks => semaphore[n] = 1)
  BY DiscoveryAssumption DEF Init
<1>3. AirFresh
  BY DEF Init, AirFresh
<1>4. QED BY <1>1, <1>2, <1>3, InitIInv DEF JInv, TimeInv

LEMMA NextJInv ==
  ASSUME Mortal = {}, InTime
  PROVE  JInv /\ [Next]_vars => JInv'
<1> SUFFICES ASSUME JInv, [Next]_vars PROVE JInv'
  OBVIOUS
<1>1. IInv'
  BY NextIInv DEF JInv
<1>2. ASSUME NEW b \in air, RxBeacon(b) \/ LoseBeacon(b) PROVE TimeInv'
  BY <1>2, RxBeaconInTime, LoseBeaconInTime
<1>3. ASSUME NEW n \in Nodes, TimerTask(n) \/ IdleTask(n) \/ LateTask(n) PROVE TimeInv'
  BY <1>3, TimerTaskInTime, IdleTaskInTime, LateTaskInTime
<1>4. ASSUME UNCHANGED vars PROVE TimeInv'
  <2>1. UNCHANGED <<moteVars, timerVars, alive, air, fired, lost, late>>
    BY <1>4 DEF vars
  <2>2. ASSUME NEW m \in Motes, NEW k \in Nat PROVE Aged(m, k)' <=> Aged(m, k)
    BY <2>1 DEF moteVars, timerVars, Aged, ParentTicks, Ahead, OnTheWay
  <2>3. \A m \in Motes : HasParent(m)' <=> HasParent(m)
    BY <2>1 DEF moteVars, HasParent
  <2>4. AirFresh'
    BY <2>1 DEF timerVars, JInv, TimeInv, AirFresh
  <2>5. QED BY <2>1, <2>2, <2>3, <2>4 DEF moteVars, JInv, TimeInv
<1>5. TimeInv'
  BY <1>2, <1>3, <1>4 DEF Next
<1>6. QED BY <1>1, <1>5 DEF JInv

\* A mote that has joined stays: no rule towards a sink runs out while no
\* battery does, at most MaxLost beacons of a parent are lost in a row, a parent
\* is at most MaxLate ticks behind, and the periods leave room for both.
THEOREM JoinedForGood ==
  ASSUME Mortal = {}, InTime
  PROVE  Spec => []NeverOrphaned
<1>1. JInv => NeverOrphaned
  BY DEF JInv, TimeInv, NeverOrphaned, Nodes
<1>2. JInv /\ [Next]_vars => JInv'
  BY NextJInv
<1>3. QED BY <1>1, <1>2, InitJInv, PTL DEF Spec

==============================================================================
