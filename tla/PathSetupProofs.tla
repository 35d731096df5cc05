-------------------------- MODULE PathSetupProofs --------------------------
(***************************************************************************)
(* Rules never send a packet round in circles, in every network, whatever  *)
(* is sent, lost, retried or removed: each rule leads one hop closer to    *)
(* its destination, because it was left by a shortest path that ends       *)
(* there.                                                                  *)
(***************************************************************************)
EXTENDS PathSetup, WellFoundedInduction, TLAPS

\* Every non-empty set of naturals has a least element: the library's WFMin,
\* for a set.
LEMMA LeastElement ==
  ASSUME NEW S \in SUBSET Nat, S # {}
  PROVE  \E m \in S : \A k \in S : m <= k
<1> DEFINE Less == {ss \in Nat \X Nat : ss[1] < ss[2]}
<1>1. IsWellFoundedOn(Less, Nat)
  BY NatLessThanWellFounded DEF OpToRel
<1>2. \E x \in S : \A y \in S : ~(<<y, x>> \in Less)
  <2> HIDE DEF Less
  <2> QED BY <1>1, WFMin
<1>3. PICK m \in S : \A y \in S : ~(<<y, m>> \in Less)
  BY <1>2
<1>4. \A y \in S : y < m => <<y, m>> \in Less
  OBVIOUS
<1>5. \A y \in S : ~(y < m)
  BY <1>3, <1>4
<1> HIDE DEF Less
<1>6. QED
  BY <1>5

Air == [to : Nodes, packet : Packets]

RulesLeadCloser ==
  \A n, d \in Nodes :
     rule[n][d] # NoNode => Dist[rule[n][d]][d] + 1 = Dist[n][d]

------------------------------------------------------------------------------
(* Paths *)

\* A path of the controller is a sequence of nodes that starts and ends at the
\* nodes it is for, and counts the hops to both.
LEMMA PathOfNodes ==
  ASSUME NEW p \in Paths
  PROVE  /\ p \in Seq(Nodes) /\ Len(p) >= 1
         /\ \A i \in 1 .. Len(p) : /\ Dist[p[i]][p[1]] = i - 1
                                   /\ Dist[p[i]][p[Len(p)]] = Len(p) - i
  <1>1. PICK a \in Nodes, b \in Nodes : p \in ShortestPaths(a, b)
    BY DEF Paths
  <1>2. Dist[a][b] \in Nat
    BY PathAssumption
  <1>3. p \in [1 .. (Dist[a][b] + 1) -> Nodes]
    BY <1>1 DEF ShortestPaths
  <1>4. p \in Seq(Nodes) /\ Len(p) = Dist[a][b] + 1 /\ DOMAIN p = 1 .. Len(p)
    BY <1>2, <1>3
  <1>5. \A i \in 1 .. Len(p) : Dist[p[i]][a] = i - 1 /\ Dist[p[i]][b] = Len(p) - i
    BY <1>1, <1>4 DEF ShortestPaths
  <1>6. p[1] \in Nodes /\ p[Len(p)] \in Nodes
    BY <1>2, <1>4
  <1>7. p[1] = a
    <2>1. Dist[p[1]][a] = 0
      BY <1>2, <1>4, <1>5
    <2> QED
      BY <2>1, <1>6, PathAssumption
  <1>8. p[Len(p)] = b
    <2>1. Dist[p[Len(p)]][b] = 0
      BY <1>2, <1>4, <1>5
    <2> QED
      BY <2>1, <1>6, PathAssumption
  <1> QED
    BY <1>2, <1>4, <1>5, <1>7, <1>8

\* A rule that a path leaves at one of its nodes leads one hop closer.
LEMMA PathLeadsCloser ==
  ASSUME NEW p \in Paths, NEW i \in DOMAIN p, NEW d \in Nodes,
         NextOnPath(p, i, d) # NoNode
  PROVE  /\ NextOnPath(p, i, d) \in Nodes
         /\ Dist[NextOnPath(p, i, d)][d] + 1 = Dist[p[i]][d]
  <1>1. p \in Seq(Nodes) /\ i \in 1 .. Len(p)
    BY PathOfNodes
  <1>2. CASE d = p[1] /\ i # 1
    <2>1. NextOnPath(p, i, d) = p[i - 1] /\ i - 1 \in 1 .. Len(p)
      BY <1>1, <1>2 DEF NextOnPath
    <2>2. p[i - 1] \in Nodes
      BY <1>1, <2>1
    <2>3. Dist[p[i]][d] = i - 1 /\ Dist[p[i - 1]][d] = (i - 1) - 1
      BY <1>1, <1>2, <2>1, PathOfNodes
    <2> QED
      BY <1>1, <2>1, <2>2, <2>3
  <1>3. CASE ~(d = p[1] /\ i # 1) /\ d = p[Len(p)] /\ i # Len(p)
    <2>1. NextOnPath(p, i, d) = p[i + 1] /\ i + 1 \in 1 .. Len(p)
      BY <1>1, <1>3 DEF NextOnPath
    <2>2. p[i + 1] \in Nodes
      BY <1>1, <2>1
    <2>3. Dist[p[i]][d] = Len(p) - i /\ Dist[p[i + 1]][d] = Len(p) - (i + 1)
      BY <1>1, <1>3, <2>1, PathOfNodes
    <2> QED
      BY <1>1, <2>1, <2>2, <2>3
  <1> QED
    BY <1>2, <1>3 DEF NextOnPath

------------------------------------------------------------------------------
(* Packets *)

\* What a node makes of a packet is a packet.
LEMMA PacketsMade ==
  ASSUME NEW p \in Packets
  PROVE  /\ Decremented(p) \in Packets
         /\ \A n \in Nodes : AsRequest(n, p) \in Packets /\ [p EXCEPT !.dst = n] \in Packets
         /\ [p EXCEPT !.request = FALSE, !.src = Sink] \in Packets
  <1>1. Decremented(p) \in Packets
    <2>1. (IF p.ttl > 0 THEN p.ttl - 1 ELSE 0) \in 0 .. TtlMax
      BY PathAssumption DEF Packets
    <2> QED
      BY <2>1 DEF Packets, Decremented
  <1>2. TtlMax \in 0 .. TtlMax /\ Sink \in Nodes
    BY PathAssumption DEF Nodes
  <1>3. ASSUME NEW n \in Nodes
        PROVE  AsRequest(n, p) \in Packets /\ [p EXCEPT !.dst = n] \in Packets
    BY <1>2, <1>3 DEF Packets, AsRequest
  <1>4. [p EXCEPT !.request = FALSE, !.src = Sink] \in Packets
    BY <1>2 DEF Packets
  <1> QED
    BY <1>1, <1>3, <1>4

LEMMA PacketsSent ==
  /\ \A m \in Messages, n, d \in Nodes : Data(m, n, d) \in Packets
  /\ \A p \in Paths : OpenPath(p) \in Packets
  <1>1. \A p \in Paths : p[1] \in Nodes
    BY PathOfNodes
  <1> QED
    BY <1>1, PathAssumption DEF Packets, Data, OpenPath, Nodes

\* radioTX puts a packet into the air.
LEMMA RadioTXType ==
  ASSUME NEW p \in Packets, NEW h \in Nodes, NEW others \in SUBSET Air
  PROVE  RadioTX(p, h, others) \in SUBSET Air
  <1>1. Decremented(p) \in Packets
    BY PacketsMade
  <1>2. [to |-> h, packet |-> Decremented(p)] \in Air
    BY <1>1 DEF Air
  <1> QED
    BY <1>2 DEF RadioTX

\* A request goes to the parent or to the controller.
LEMMA ControllerTXType ==
  ASSUME TypeOK, NEW p \in Packets, NEW n \in Nodes, NEW others \in SUBSET Air,
         ControllerTX(n, p, others)
  PROVE  air' \in SUBSET Air /\ toController' \in Seq(Packets)
  <1>0. toController \in Seq(Packets)
    BY DEF TypeOK
  <1>1. CASE n = Sink
    <2>1. toController' = Append(toController, p) /\ air' = others
      BY <1>1 DEF ControllerTX
    <2> QED
      BY <1>0, <2>1
  <1>2. CASE n # Sink
    <2>1. Parent[n] \in Nodes
      BY <1>2, PathAssumption DEF Nodes
    <2>2. air' = RadioTX(p, Parent[n], others) /\ toController' = toController
      BY <1>2 DEF ControllerTX
    <2> QED
      BY <1>0, <2>1, <2>2, RadioTXType
  <1> QED
    BY <1>1, <1>2

\* So does a packet that no rule is for; another goes to the next hop.
LEMMA FlowMatchType ==
  ASSUME TypeOK, NEW p \in Packets, NEW n \in Nodes, NEW others \in SUBSET Air,
         FlowMatch(n, p, rule, others)
  PROVE  air' \in SUBSET Air /\ toController' \in Seq(Packets)
  <1>1. p.dst \in Nodes
    BY DEF Packets
  <1>2. CASE rule[n][p.dst] # NoNode
    <2>1. rule[n][p.dst] \in Nodes
      BY <1>1, <1>2 DEF TypeOK
    <2> QED
      BY <1>2, <2>1, RadioTXType DEF FlowMatch, TypeOK
  <1>3. CASE rule[n][p.dst] = NoNode
    BY <1>3, PacketsMade, ControllerTXType DEF FlowMatch
  <1> QED
    BY <1>2, <1>3

\* An OPEN_PATH leaves rules that lead closer, and goes on.
LEMMA RxOpenPathType ==
  ASSUME TypeOK, RulesLeadCloser,
         NEW p \in Packets, NEW n \in Nodes, NEW others \in SUBSET Air,
         p.path # NoPath, RxOpenPath(n, p, others)
  PROVE  /\ rule' \in [Nodes -> [Nodes -> Nodes \cup {NoNode}]] /\ RulesLeadCloser'
         /\ air' \in SUBSET Air /\ UNCHANGED <<toController, delivered>>
  <1>1. p.path \in Paths
    BY DEF Packets
  <1>2. PICK i \in {i \in DOMAIN p.path : p.path[i] = n} :
          /\ rule' = [rule EXCEPT ![n] =
                        [d \in Nodes |-> IF NextOnPath(p.path, i, d) # NoNode
                                         THEN NextOnPath(p.path, i, d) ELSE rule[n][d]]]
          /\ air' = IF i < Len(p.path)
                    THEN RadioTX([p EXCEPT !.dst = p.path[i + 1]], p.path[i + 1], others)
                    ELSE others
    BY DEF RxOpenPath
  <1>3. i \in DOMAIN p.path /\ p.path[i] = n
    OBVIOUS
  <1>4. \A d \in Nodes : NextOnPath(p.path, i, d) # NoNode =>
          /\ NextOnPath(p.path, i, d) \in Nodes
          /\ Dist[NextOnPath(p.path, i, d)][d] + 1 = Dist[n][d]
    BY <1>1, <1>3, PathLeadsCloser
  <1>5. rule \in [Nodes -> [Nodes -> Nodes \cup {NoNode}]]
    BY DEF TypeOK
  <1>6. rule' \in [Nodes -> [Nodes -> Nodes \cup {NoNode}]]
    BY <1>2, <1>4, <1>5
  <1>7. RulesLeadCloser'
    <2> SUFFICES ASSUME NEW x \in Nodes, NEW d \in Nodes, rule'[x][d] # NoNode
                 PROVE  Dist[rule'[x][d]][d] + 1 = Dist[x][d]
      BY DEF RulesLeadCloser
    <2>1. CASE x = n /\ NextOnPath(p.path, i, d) # NoNode
      <3>1. rule'[x][d] = NextOnPath(p.path, i, d)
        BY <2>1, <1>2, <1>5
      <3> QED
        BY <2>1, <3>1, <1>4
    <2>2. CASE ~(x = n /\ NextOnPath(p.path, i, d) # NoNode)
      <3>1. rule'[x][d] = rule[x][d]
        BY <2>2, <1>2, <1>5
      <3> QED
        BY <3>1 DEF RulesLeadCloser
    <2> QED
      BY <2>1, <2>2
  <1>8. air' \in SUBSET Air
    <2>1. CASE i < Len(p.path)
      <3>1. p.path[i + 1] \in Nodes
        BY <1>1, <1>3, <2>1, PathOfNodes
      <3> QED
        BY <1>2, <2>1, <3>1, PacketsMade, RadioTXType
    <2>2. CASE ~(i < Len(p.path))
      BY <1>2, <2>2
    <2> QED
      BY <2>1, <2>2
  <1> QED
    BY <1>6, <1>7, <1>8 DEF RxOpenPath

\* Whatever a node does with a packet it received keeps the invariant.
LEMMA RxHandlerType ==
  ASSUME TypeOK, RulesLeadCloser,
         NEW p \in Packets, NEW n \in Nodes, NEW others \in SUBSET Air,
         RxHandler(n, p, others)
  PROVE  /\ rule' \in [Nodes -> [Nodes -> Nodes \cup {NoNode}]] /\ RulesLeadCloser'
         /\ air' \in SUBSET Air /\ toController' \in Seq(Packets)
         /\ delivered' \in SUBSET Messages
  <1>1. UNCHANGED rule => /\ rule' \in [Nodes -> [Nodes -> Nodes \cup {NoNode}]]
                          /\ RulesLeadCloser'
    BY DEF TypeOK, RulesLeadCloser
  <1>2. UNCHANGED delivered => delivered' \in SUBSET Messages
    BY DEF TypeOK
  <1>3. CASE air' = others /\ UNCHANGED <<rule, toController, delivered>>
    BY <1>1, <1>2, <1>3 DEF TypeOK
  <1>4. CASE ControllerTX(n, p, others) /\ UNCHANGED <<rule, delivered>>
    BY <1>1, <1>2, <1>4, ControllerTXType
  <1>5. CASE FlowMatch(n, p, rule, others) /\ UNCHANGED <<rule, delivered>>
    BY <1>1, <1>2, <1>5, FlowMatchType
  <1>6. CASE p.path = NoPath /\ RxData(n, p, others)
    <2>1. CASE n = Sink
      BY <1>1, <1>2, <1>6, <2>1, ControllerTXType DEF RxData
    <2>2. CASE n # Sink
      <3>1. p.message \in SUBSET Messages
        BY DEF Packets
      <3> QED
        BY <1>1, <1>6, <2>2, <3>1 DEF RxData, TypeOK
    <2> QED
      BY <2>1, <2>2
  <1>7. CASE p.path # NoPath /\ RxOpenPath(n, p, others)
    BY <1>7, RxOpenPathType DEF TypeOK
  <1> QED
    BY <1>3, <1>4, <1>5, <1>6, <1>7 DEF RxHandler

------------------------------------------------------------------------------
(* The invariant *)

LEMMA AtFirst == Init => TypeOK /\ RulesLeadCloser
  <1> SUFFICES ASSUME Init
               PROVE  TypeOK /\ RulesLeadCloser
    OBVIOUS
  <1>1. RulesLeadCloser
    BY DEF Init, RulesLeadCloser
  <1>2. TypeOK
    BY PathAssumption DEF Init, TypeOK, Faults
  <1> QED
    BY <1>1, <1>2

LEMMA EveryStep == TypeOK /\ RulesLeadCloser /\ [Next]_vars => TypeOK' /\ RulesLeadCloser'
  <1> SUFFICES ASSUME TypeOK, RulesLeadCloser, [Next]_vars
               PROVE  TypeOK' /\ RulesLeadCloser'
    OBVIOUS
  <1> USE DEF tcpVars, nodeVars, messageVars, boundVars
  <1>1. ASSUME UNCHANGED rule
        PROVE  RulesLeadCloser'
    BY <1>1 DEF RulesLeadCloser
  <1>2. air \in SUBSET Air
    BY DEF TypeOK, Air
  <1>3. ASSUME NEW n \in Motes, NEW m \in Messages, SendUp(n, m)
        PROVE  TypeOK' /\ RulesLeadCloser'
    <2>1. n \in Nodes /\ Sink \in Nodes
      BY DEF Nodes
    <2>2. air' \in SUBSET Air /\ toController' \in Seq(Packets)
      BY <1>2, <1>3, <2>1, PacketsSent, FlowMatchType DEF SendUp
    <2> QED
      BY <1>1, <1>3, <2>2 DEF SendUp, TypeOK, Air, Faults
  <1>4. ASSUME NEW n \in Motes, NEW m \in Messages, SendDown(n, m)
        PROVE  TypeOK' /\ RulesLeadCloser'
    <2>1. Data(m, Sink, n) \in Packets
      BY PacketsSent DEF Nodes
    <2>2. toSink' \in Seq(Packets)
      BY <1>4, <2>1 DEF SendDown, TypeOK
    <2> QED
      BY <1>1, <1>4, <2>2 DEF SendDown, TypeOK, Faults
  <1>5. ASSUME NEW x \in air, Receive(x)
        PROVE  TypeOK' /\ RulesLeadCloser'
    <2>1. x.to \in Nodes /\ x.packet \in Packets /\ air \ {x} \in SUBSET Air
      BY <1>2 DEF Air
    <2>2. RxHandler(x.to, x.packet, air \ {x})
      BY <1>5 DEF Receive
    <2>3. /\ rule' \in [Nodes -> [Nodes -> Nodes \cup {NoNode}]] /\ RulesLeadCloser'
          /\ air' \in SUBSET Air /\ toController' \in Seq(Packets)
          /\ delivered' \in SUBSET Messages
      BY <2>1, <2>2, RxHandlerType
    <2> QED
      BY <1>5, <2>3 DEF Receive, TypeOK, Air, Faults
  <1>6. ASSUME ReceiveAtSink
        PROVE  TypeOK' /\ RulesLeadCloser'
    <2>1. Head(toSink) \in Packets /\ toSink' \in Seq(Packets) /\ Sink \in Nodes
      BY <1>6 DEF ReceiveAtSink, TypeOK, Nodes
    <2>2. RxHandler(Sink, Head(toSink), air)
      BY <1>6 DEF ReceiveAtSink
    <2>3. /\ rule' \in [Nodes -> [Nodes -> Nodes \cup {NoNode}]] /\ RulesLeadCloser'
          /\ air' \in SUBSET Air /\ toController' \in Seq(Packets)
          /\ delivered' \in SUBSET Messages
      BY <1>2, <2>1, <2>2, RxHandlerType
    <2> QED
      BY <1>6, <2>1, <2>3 DEF ReceiveAtSink, TypeOK, Air, Faults
  <1>7. ASSUME ControllerStep
        PROVE  TypeOK' /\ RulesLeadCloser'
    <2> DEFINE p == Head(toController)
    <2>1. p \in Packets /\ toController' \in Seq(Packets)
      BY <1>7 DEF ControllerStep, TypeOK
    <2>2. p.src \in Nodes /\ p.dst \in Nodes /\ p.message \in SUBSET Messages
      BY <2>1 DEF Packets
    <2>3. \A answer \in Answers(p) : answer \in Seq(Packets)
      <3>1. \A q \in ShortestPaths(p.src, p.dst) : q \in Paths
        BY <2>2 DEF Paths
      <3>2. [p EXCEPT !.request = FALSE, !.src = Sink] \in Packets
        BY <2>1, PacketsMade
      <3>3. \A q \in ShortestPaths(p.src, p.dst) : OpenPath(q) \in Packets
        BY <3>1, PacketsSent
      <3>4. CASE p.src = p.dst
        BY <3>4 DEF Answers
      <3>5. CASE p.src # p.dst
        <4> SUFFICES ASSUME NEW q \in ShortestPaths(p.src, p.dst)
                     PROVE  <<OpenPath(q), [p EXCEPT !.request = FALSE, !.src = Sink]>>
                              \in Seq(Packets)
          BY <3>5 DEF Answers
        <4> QED
          BY <3>2, <3>3
      <3> QED
        BY <3>4, <3>5
    <2>4. toSink' \in Seq(Packets) /\ delivered' \in SUBSET Messages
      <3>1. CASE p.request
        <4>1. PICK answer \in Answers(p) : toSink' = toSink \o answer
          BY <1>7, <3>1 DEF ControllerStep
        <4> QED
          BY <1>7, <2>3, <3>1, <4>1 DEF ControllerStep, TypeOK
      <3>2. CASE ~p.request
        BY <1>7, <2>2, <3>2 DEF ControllerStep, TypeOK
      <3> QED
        BY <3>1, <3>2
    <2> QED
      BY <1>1, <1>7, <2>1, <2>4 DEF ControllerStep, TypeOK, Faults
  <1>8. ASSUME NEW x \in air, Retry(x)
        PROVE  TypeOK' /\ RulesLeadCloser'
    <2>1. air' \in SUBSET Air
      BY <1>2, <1>8, PacketsMade DEF Retry, Air
    <2> QED
      BY <1>1, <1>8, <2>1, PathAssumption DEF Retry, TypeOK, Air, Faults
  <1>9. ASSUME NEW x \in air, Lose(x)
        PROVE  TypeOK' /\ RulesLeadCloser'
    BY <1>1, <1>9, PathAssumption DEF Lose, TypeOK, Faults
  <1>10. ASSUME NEW n \in Nodes, NEW d \in Nodes, Remove(n, d)
         PROVE  TypeOK' /\ RulesLeadCloser'
    <2>1. TypeOK'
      <3>1. rule' \in [Nodes -> [Nodes -> Nodes \cup {NoNode}]]
        BY <1>10 DEF Remove, TypeOK
      <3>2. removed' \in Nat /\ lost' \in Nat /\ busy' \in Nat /\ Faults' <= MaxFaults
        BY <1>10, PathAssumption DEF Remove, TypeOK, Faults
      <3> QED
        BY <1>10, <3>1, <3>2 DEF Remove, TypeOK
    <2>2. \A x, y \in Nodes : rule'[x][y] = rule[x][y] \/ rule'[x][y] = NoNode
      BY <1>10 DEF Remove, TypeOK
    <2>3. RulesLeadCloser'
      BY <2>2 DEF RulesLeadCloser
    <2> QED
      BY <2>1, <2>3
  <1>11. ASSUME NEW n \in Motes, NEW m \in Messages, SendEvent(n, m)
         PROVE  TypeOK' /\ RulesLeadCloser'
    <2>1. n \in Nodes /\ Sink \in Nodes
      BY DEF Nodes
    <2>2. Data(m, n, Sink) \in Packets /\ AsRequest(n, Data(m, n, Sink)) \in Packets
      BY <2>1, PacketsSent, PacketsMade
    <2>3. air' \in SUBSET Air /\ toController' \in Seq(Packets)
      BY <1>2, <1>11, <2>1, <2>2, FlowMatchType, ControllerTXType DEF SendEvent
    <2>4. marked' \in SUBSET Motes
      BY <1>11 DEF SendEvent, TypeOK
    <2> QED
      BY <1>1, <1>11, <2>3, <2>4 DEF SendEvent, TypeOK, Air, Faults
  <1>12. ASSUME NEW n \in Motes, NewEvent(n)
         PROVE  TypeOK' /\ RulesLeadCloser'
    BY <1>1, <1>12 DEF NewEvent, TypeOK, Faults
  <1>13. CASE UNCHANGED vars
    BY <1>1, <1>13 DEF vars, TypeOK, Faults
  <1> QED
    BY <1>3, <1>4, <1>5, <1>6, <1>7, <1>8, <1>9, <1>10, <1>11,
       <1>12, <1>13 DEF Next

\* Type correctness: packets of both directions, rules and counters.
THEOREM TypeCorrect == Spec => []TypeOK
  <1>1. Init => TypeOK /\ RulesLeadCloser
    BY AtFirst
  <1>2. TypeOK /\ RulesLeadCloser /\ [Next]_vars => (TypeOK /\ RulesLeadCloser)'
    BY EveryStep
  <1> QED
    BY <1>1, <1>2, PTL DEF Spec

\* In any set of nodes the one closest to the destination has a rule that leads
\* out of the set, or none.
LEMMA CloserIsNoLoop ==
  ASSUME TypeOK, RulesLeadCloser
  PROVE  NoForwardingLoop
  <1> SUFFICES ASSUME NEW d \in Nodes, NEW S \in SUBSET Nodes, S # {},
                      \A n \in S : rule[n][d] \in S
               PROVE  FALSE
    BY DEF NoForwardingLoop
  <1> DEFINE D == {Dist[n][d] : n \in S}
  <1>1. \A n \in Nodes : Dist[n][d] \in Nat
    BY PathAssumption
  <1>2. D \in SUBSET Nat /\ D # {}
    BY <1>1
  <1>3. PICK least \in D : \A k \in D : least <= k
    BY <1>2, LeastElement
  <1>4. PICK n \in S : least = Dist[n][d]
    BY <1>3
  <1>5. rule[n][d] \in S /\ rule[n][d] # NoNode
    BY <1>4, PathAssumption
  <1>6. Dist[rule[n][d]][d] + 1 = Dist[n][d]
    BY <1>4, <1>5 DEF RulesLeadCloser
  <1>7. Dist[n][d] <= Dist[rule[n][d]][d]
    BY <1>3, <1>4, <1>5
  <1> QED
    BY <1>1, <1>5, <1>6, <1>7

\* No forwarding loop, in every network and with any number of faults.
THEOREM LoopFree == Spec => []NoForwardingLoop
  <1>1. Init => TypeOK /\ RulesLeadCloser
    BY AtFirst
  <1>2. TypeOK /\ RulesLeadCloser /\ [Next]_vars => (TypeOK /\ RulesLeadCloser)'
    BY EveryStep
  <1>3. TypeOK /\ RulesLeadCloser => NoForwardingLoop
    BY CloserIsNoLoop
  <1> QED
    BY <1>1, <1>2, <1>3, PTL DEF Spec

------------------------------------------------------------------------------
(* The rules of a node as a table of next hops *)

\* A path of two nodes or more has two ends.
LEMMA EndsDiffer ==
  ASSUME NEW p \in Paths, Len(p) # 1
  PROVE  p[1] # p[Len(p)]
  <1>1. p \in Seq(Nodes) /\ 1 \in 1 .. Len(p) /\ Len(p) \in 1 .. Len(p)
    BY PathOfNodes
  <1>2. Dist[p[1]][p[Len(p)]] = Len(p) - 1
    BY <1>1, PathOfNodes
  <1>3. \A a \in Nodes : Dist[a][a] = 0
    BY PathAssumption
  <1>4. p[1] \in Nodes /\ Len(p) \in Nat
    BY <1>1
  <1>5. Dist[p[1]][p[1]] = 0
    BY <1>3, <1>4
  <1> SUFFICES ASSUME p[1] = p[Len(p)] PROVE FALSE
    OBVIOUS
  <1>6. Dist[p[1]][p[Len(p)]] = 0
    BY <1>5
  <1>7. Len(p) - 1 = 0
    BY <1>2, <1>6
  <1> QED
    BY <1>4, <1>7

\* Every next hop of a path is one of the rules of a table: none, one or two are
\* added at a node, and the others stay.
LEMMA OpenPathInstalls ==
  ASSUME TypeOK, NEW p \in Paths, NEW i \in DOMAIN p, NEW n \in Nodes, p[i] = n,
         rule'[n] = [d \in Nodes |-> IF NextOnPath(p, i, d) # NoNode
                                     THEN NextOnPath(p, i, d) ELSE rule[n][d]]
  PROVE  rule'[n] = rule[n] \/ HopTable(n)!Next
  <1> DEFINE h == rule[n]
             g == rule'[n]
             first == p[1]
             last == p[Len(p)]
  <1>1. p \in Seq(Nodes) /\ i \in 1 .. Len(p) /\ first \in Nodes /\ last \in Nodes
    BY PathOfNodes
  <1>2. h \in [Nodes -> Nodes \cup {NoNode}] /\ NoNode \notin Nodes
    BY PathAssumption DEF TypeOK
  <1>3. \A d \in Nodes : g[d] = IF NextOnPath(p, i, d) # NoNode THEN NextOnPath(p, i, d) ELSE h[d]
    OBVIOUS
  <1>4. g = [d \in Nodes |-> g[d]] /\ h = [d \in Nodes |-> h[d]]
    BY <1>2
  <1>9. \A j \in 1 .. Len(p) : p[j] \in Nodes
    BY <1>1
  <1>5. CASE i = 1 /\ i = Len(p)
    <2>1. \A d \in Nodes : NextOnPath(p, i, d) = NoNode
      BY <1>5 DEF NextOnPath
    <2> HIDE DEF h, g
    <2>2. g = h
      BY <1>2, <1>3, <1>4, <2>1
    <2> QED
      BY <2>2 DEF g, h
  <1>6. CASE i = 1 /\ i # Len(p)
    <2>1. p[i + 1] \in Nodes
      <3>1. Len(p) \in Nat /\ i \in 1 .. Len(p) /\ i # Len(p)
        BY <1>1, <1>6
      <3>2. i + 1 \in 1 .. Len(p)
        BY <3>1
      <3> QED
        BY <1>9, <3>2
    <2>2. \A d \in Nodes : NextOnPath(p, i, d) = IF d = last THEN p[i + 1] ELSE NoNode
      BY <1>6 DEF NextOnPath
    <2> HIDE DEF h, g, last
    <2>3. g = [h EXCEPT ![last] = p[i + 1]]
      <3>1. \A d \in Nodes : g[d] = IF d = last THEN p[i + 1] ELSE h[d]
        BY <1>2, <1>3, <2>1, <2>2
      <3> QED
        BY <1>4, <3>1
    <2> QED
      BY <1>1, <2>1, <2>3 DEF HopTable!Next, HopTable!InstallOne, HopTable!Installs, g, h
  <1>7. CASE i # 1 /\ i = Len(p)
    <2>1. p[i - 1] \in Nodes
      BY <1>1, <1>7
    <2>2. \A d \in Nodes : NextOnPath(p, i, d) = IF d = first THEN p[i - 1] ELSE NoNode
      BY <1>7 DEF NextOnPath
    <2> HIDE DEF h, g, first
    <2>3. g = [h EXCEPT ![first] = p[i - 1]]
      <3>1. \A d \in Nodes : g[d] = IF d = first THEN p[i - 1] ELSE h[d]
        BY <1>2, <1>3, <2>1, <2>2
      <3> QED
        BY <1>4, <3>1
    <2> QED
      BY <1>1, <2>1, <2>3 DEF HopTable!Next, HopTable!InstallOne, HopTable!Installs, g, h
  <1>8. CASE i # 1 /\ i # Len(p)
    <2>1. p[i - 1] \in Nodes /\ p[i + 1] \in Nodes
      BY <1>1, <1>8
    <2>2. first # last
      BY <1>1, <1>8, EndsDiffer
    <2>3. \A d \in Nodes : NextOnPath(p, i, d) = IF d = first THEN p[i - 1]
                                                 ELSE IF d = last THEN p[i + 1] ELSE NoNode
      BY <1>8 DEF NextOnPath
    <2> DEFINE mid == [h EXCEPT ![first] = p[i - 1]]
    <2> HIDE DEF h, g, first, last
    <2>4. g = [mid EXCEPT ![last] = p[i + 1]]
      <3>1. \A d \in Nodes : g[d] = IF d = last THEN p[i + 1]
                                    ELSE IF d = first THEN p[i - 1] ELSE h[d]
        BY <1>2, <1>3, <2>1, <2>2, <2>3
      <3>2. mid = [d \in Nodes |-> IF d = first THEN p[i - 1] ELSE h[d]]
        BY <1>4
      <3> HIDE DEF mid
      <3> QED
        BY <1>4, <3>1, <3>2
    <2>5. mid \in HopTable(n)!Installs(h, first, p[i - 1])
      BY DEF HopTable!Installs
    <2>6. g \in HopTable(n)!Installs(mid, last, p[i + 1])
      BY <2>4 DEF HopTable!Installs
    <2>7. HopTable(n)!InstallTwo
      BY <1>1, <2>1, <2>2, <2>5, <2>6 DEF HopTable!InstallTwo, g, h
    <2> QED
      BY <2>7 DEF HopTable!Next
  <1> QED
    BY <1>5, <1>6, <1>7, <1>8

\* A handler changes the rules of its node, and only as an OPEN_PATH says.
LEMMA RxHandlerHops ==
  ASSUME TypeOK, NEW p \in Packets, NEW n \in Nodes, NEW others, RxHandler(n, p, others),
         NEW k \in Nodes
  PROVE  rule'[k] = rule[k] \/ HopTable(k)!Next
  <1>1. CASE UNCHANGED rule
    BY <1>1
  <1>2. CASE p.path # NoPath /\ RxOpenPath(n, p, others)
    <2>1. p.path \in Paths
      BY <1>2 DEF Packets
    <2>2. PICK i \in {i \in DOMAIN p.path : p.path[i] = n} :
            rule' = [rule EXCEPT ![n] =
                       [d \in Nodes |-> IF NextOnPath(p.path, i, d) # NoNode
                                        THEN NextOnPath(p.path, i, d) ELSE rule[n][d]]]
      BY <1>2 DEF RxOpenPath
    <2>3. rule \in [Nodes -> [Nodes -> Nodes \cup {NoNode}]]
      BY DEF TypeOK
    <2>4. CASE k = n
      <3>1. rule'[n] = [d \in Nodes |-> IF NextOnPath(p.path, i, d) # NoNode
                                        THEN NextOnPath(p.path, i, d) ELSE rule[n][d]]
        BY <2>2, <2>3
      <3>2. i \in DOMAIN p.path /\ p.path[i] = n
        OBVIOUS
      <3>3. rule'[n] = rule[n] \/ HopTable(n)!Next
        BY <2>1, <3>1, <3>2, OpenPathInstalls
      <3> QED
        BY <2>4, <3>3
    <2>5. CASE k # n
      BY <2>2, <2>3, <2>5
    <2> QED
      BY <2>4, <2>5
  <1> QED
    BY <1>1, <1>2 DEF RxHandler, RxData

LEMMA StepIsHops ==
  ASSUME TypeOK, [Next]_vars, NEW k \in Nodes
  PROVE  rule'[k] = rule[k] \/ HopTable(k)!Next
  <1> USE DEF nodeVars, tcpVars, messageVars, boundVars
  <1>1. CASE UNCHANGED rule
    BY <1>1
  <1>2. ASSUME NEW x \in air, Receive(x)
        PROVE  rule'[k] = rule[k] \/ HopTable(k)!Next
    <2>1. x.to \in Nodes /\ x.packet \in Packets
      BY DEF TypeOK
    <2> QED
      BY <1>2, <2>1, RxHandlerHops DEF Receive
  <1>3. ASSUME ReceiveAtSink
        PROVE  rule'[k] = rule[k] \/ HopTable(k)!Next
    <2>1. Head(toSink) \in Packets /\ Sink \in Nodes
      BY <1>3 DEF ReceiveAtSink, TypeOK, Nodes
    <2> QED
      BY <1>3, <2>1, RxHandlerHops DEF ReceiveAtSink
  <1>4. ASSUME NEW n \in Nodes, NEW d \in Nodes, Remove(n, d)
        PROVE  rule'[k] = rule[k] \/ HopTable(k)!Next
    <2>1. rule' = [rule EXCEPT ![n][d] = NoNode] /\ rule \in [Nodes -> [Nodes -> Nodes \cup {NoNode}]]
      BY <1>4 DEF Remove, TypeOK
    <2>2. CASE k = n
      <3>1. rule'[k] = [rule[k] EXCEPT ![d] = NoNode]
        BY <2>1, <2>2
      <3> QED
        BY <3>1 DEF HopTable!Next, HopTable!Erase
    <2>3. CASE k # n
      BY <2>1, <2>3
    <2> QED
      BY <2>2, <2>3
  <1>5. CASE UNCHANGED vars
    BY <1>1, <1>5 DEF vars
  <1>6. CASE Next
    BY <1>1, <1>2, <1>3, <1>4, <1>6
       DEF Next, SendUp, SendEvent, NewEvent, SendDown, Retry, Lose, ControllerStep
  <1> QED
    BY <1>5, <1>6

\* What a node learns from an OPEN_PATH, and what it forgets, is what its flow
\* table allows.
THEOREM RulesOfTables == Spec => RulesAreNextHops
  <1>1. Init => TypeOK /\ RulesLeadCloser
    BY AtFirst
  <1>2. TypeOK /\ RulesLeadCloser /\ [Next]_vars => (TypeOK /\ RulesLeadCloser)'
    BY EveryStep
  <1>3. Init => \A n \in Nodes : HopTable(n)!Init
    BY DEF Init, HopTable!Init
  <1>4. TypeOK /\ [Next]_vars => \A n \in Nodes : [HopTable(n)!Next]_(rule[n])
    BY StepIsHops
  <1> QED
    BY <1>1, <1>2, <1>3, <1>4, PTL DEF Spec, RulesAreNextHops

==============================================================================
