------------------------------ MODULE PathSetup ------------------------------
(***************************************************************************)
(* How packets find their way down the network (AbstractMote.java,         *)
(* Sink.java, ControllerDijkstra.java).                                    *)
(*                                                                         *)
(* A node without a rule for a packet sends it, marked as a request, up    *)
(* the tree to its sink and over TCP to the controller.  The controller    *)
(* answers with an OPEN_PATH message that travels along the shortest path  *)
(* and leaves at every node a rule for both ends, and sends the packet     *)
(* again from the sink.  The OPEN_PATH itself starts at the sink, which    *)
(* may have no rule for its destination: then it becomes a request too.    *)
(*                                                                         *)
(* Radio messages are a set, air: they may arrive in any order and be      *)
(* lost.  The two directions of the TCP connection are sequences.  The map *)
(* of the controller is complete and does not change (see NetworkMap); all *)
(* its edges have one length, because every node reports 255 as the        *)
(* strength of every neighbour, so the shortest path is the fewest hops.   *)
(*                                                                         *)
(* rule[n][d] is the next hop of n's rule for d (FlowTable has the table); *)
(* Parent is rule 0 of a mote, at rest (SinkDiscovery has how it is        *)
(* found).                                                                 *)
(***************************************************************************)
EXTENDS Integers, FiniteSets, Sequences

CONSTANTS
  Motes, Sink,
  NoNode,      \* the next hop of no rule
  Dist,        \* hops between two nodes
  Parent,      \* of a mote, towards the sink
  TtlMax,      \* SDN_WISE_DFLT_TTL_MAX
  Messages,    \* the data messages there are
  MaxFaults    \* bound: packets lost or retried, and rules removed

Nodes == Motes \cup {Sink}

ASSUME PathAssumption ==
  /\ Sink \notin Motes /\ NoNode \notin Nodes
  /\ Dist \in [Nodes -> [Nodes -> Nat]]
  /\ \A a, b \in Nodes : Dist[a][b] = Dist[b][a] /\ (Dist[a][b] = 0 <=> a = b)
  /\ Parent \in [Motes -> Nodes]
  /\ TtlMax \in 1 .. 127
  /\ MaxFaults \in Nat

VARIABLES
  rule,                \* of each node, the next hop for each destination
  air,                 \* packets sent and not yet received
  toController, toSink,  \* the TCP connection
  sent, delivered,     \* the messages that were sent, that arrived
  marked,              \* motes whose event handler keeps a packet marked as request
  lost, busy, removed  \* what the bound counts

nodeVars == <<rule, air>>
tcpVars == <<toController, toSink>>
messageVars == <<sent, delivered>>
boundVars == <<lost, busy, removed>>
Faults == lost + busy + removed

vars == <<nodeVars, tcpVars, messageVars, marked, boundVars>>

\* The shortest paths of the map.
ShortestPaths(a, b) ==
  {p \in [1 .. (Dist[a][b] + 1) -> Nodes] :
     /\ \A i \in DOMAIN p : Dist[p[i]][a] = i - 1 /\ Dist[p[i]][b] = Len(p) - i
     /\ \A i \in 1 .. (Len(p) - 1) : Dist[p[i]][p[i + 1]] = 1}

Paths == UNION {ShortestPaths(a, b) : a, b \in Nodes}

\* A data packet has no path, an OPEN_PATH no message.
NoPath == <<>>
Packets ==
  [message : SUBSET Messages, path : Paths \cup {NoPath}, src : Nodes, dst : Nodes,
   request : BOOLEAN, ttl : 0 .. TtlMax]

Data(m, n, d) ==
  [message |-> {m}, path |-> NoPath, src |-> n, dst |-> d,
   request |-> FALSE, ttl |-> TtlMax]
OpenPath(p) ==
  [message |-> {}, path |-> p, src |-> Sink, dst |-> p[1],
   request |-> FALSE, ttl |-> TtlMax]

Init ==
  /\ rule = [n \in Nodes |-> [d \in Nodes |-> NoNode]]
  /\ air = {}
  /\ toController = <<>> /\ toSink = <<>>
  /\ sent = {} /\ delivered = {}
  /\ marked = {}
  /\ lost = 0 /\ busy = 0 /\ removed = 0

------------------------------------------------------------------------------
(* Sending *)

\* A mutant: the time to live is lowered whatever it is.
DecrementedBelowZero(p) == [p EXCEPT !.ttl = @ - 1]

\* decrementTtl does not go below 0.
Decremented(p) == [p EXCEPT !.ttl = IF @ > 0 THEN @ - 1 ELSE 0]

\* radioTX: from n to next hop h, in a state of the air
RadioTX(p, h, others) ==
  others \cup {[to |-> h, packet |-> Decremented(p)]}

AsRequest(n, p) ==
  [p EXCEPT !.src = n, !.request = TRUE, !.ttl = TtlMax]

\* controllerTX of a mote is a transmission to its parent, of the sink one to
\* the controller.
ControllerTX(n, p, others) ==
  IF n = Sink
  THEN /\ toController' = Append(toController, p)
       /\ air' = others
  ELSE /\ air' = RadioTX(p, Parent[n], others)
       /\ UNCHANGED toController

\* A mutant: a packet without a rule is dropped.
FlowMatchDrops(n, p, rules, others) ==
  /\ air' = IF rules[n][p.dst] # NoNode THEN RadioTX(p, rules[n][p.dst], others) ELSE others
  /\ UNCHANGED toController

\* runFlowMatch: n forwards p by its rule, or asks for one.
FlowMatch(n, p, rules, others) ==
  IF rules[n][p.dst] # NoNode
  THEN /\ air' = RadioTX(p, rules[n][p.dst], others)
       /\ UNCHANGED toController
  ELSE ControllerTX(n, AsRequest(n, p), others)

------------------------------------------------------------------------------
(* Receiving: rxHandler of n for a packet p that is no longer in the air   *)

\* A mutant: the rule for the last node of the path leads back.
NextOnPathSwapped(p, i, d) ==
  IF d = p[1] /\ i # 1 THEN p[i - 1]
  ELSE IF d = p[Len(p)] /\ i # Len(p) THEN IF i # 1 THEN p[i - 1] ELSE p[i + 1]
  ELSE NoNode

\* The next hop from the i-th node of the path p to its two ends.
NextOnPath(p, i, d) ==
  IF d = p[1] /\ i # 1 THEN p[i - 1]
  ELSE IF d = p[Len(p)] /\ i # Len(p) THEN p[i + 1]
  ELSE NoNode

\* rxOpenPath at a node that the packet is addressed to
RxOpenPath(n, p, others) ==
  /\ \E i \in {i \in DOMAIN p.path : p.path[i] = n} :
       /\ rule' = [rule EXCEPT ![n] =
                     [d \in Nodes |-> IF NextOnPath(p.path, i, d) # NoNode
                                      THEN NextOnPath(p.path, i, d) ELSE rule[n][d]]]
       /\ air' = IF i < Len(p.path)
                 THEN RadioTX([p EXCEPT !.dst = p.path[i + 1]], p.path[i + 1], others)
                 ELSE others
  /\ UNCHANGED <<toController, delivered>>

\* rxData at the node the packet is addressed to: a mote's callback has it, the
\* sink hands it to the controller.
RxData(n, p, others) ==
  /\ IF n = Sink THEN ControllerTX(Sink, p, others) /\ UNCHANGED delivered
     ELSE /\ delivered' = delivered \cup p.message
          /\ air' = others
          /\ UNCHANGED toController
  /\ UNCHANGED rule

RxHandler(n, p, others) ==
  \/ /\ p.ttl = 0
     /\ air' = others
     /\ UNCHANGED <<rule, toController, delivered>>
  \/ /\ p.ttl # 0 /\ p.request
     /\ ControllerTX(n, p, others)
     /\ UNCHANGED <<rule, delivered>>
  \/ /\ p.ttl # 0 /\ ~p.request /\ p.dst # n
     /\ FlowMatch(n, p, rule, others)
     /\ UNCHANGED <<rule, delivered>>
  \/ /\ p.ttl # 0 /\ ~p.request /\ p.dst = n
     /\ IF p.path = NoPath THEN RxData(n, p, others) ELSE RxOpenPath(n, p, others)

------------------------------------------------------------------------------
(* Steps *)

\* The agent of a mote answers in the packet of the question.
SendUp(n, m) ==
  /\ m \notin sent
  /\ sent' = sent \cup {m}
  /\ FlowMatch(n, Data(m, n, Sink), rule, air)
  /\ UNCHANGED <<rule, toSink, delivered, marked, boundVars>>

\* The event handler of a mote, and the agent when it registers an event, send
\* in the packet the handler keeps: once marked as a request it stays marked,
\* and rule 0 takes it up the tree.
SendEvent(n, m) ==
  /\ m \notin sent
  /\ sent' = sent \cup {m}
  /\ IF n \in marked THEN ControllerTX(n, AsRequest(n, Data(m, n, Sink)), air)
     ELSE FlowMatch(n, Data(m, n, Sink), rule, air)
  /\ marked' = IF rule[n][Sink] = NoNode THEN marked \cup {n} ELSE marked
  /\ UNCHANGED <<rule, toSink, delivered, boundVars>>

\* Another event is registered: its handler keeps a new packet.
NewEvent(n) ==
  /\ n \in marked
  /\ marked' = marked \ {n}
  /\ UNCHANGED <<nodeVars, tcpVars, messageVars, boundVars>>

\* The controller sends a message to a mote (Communication).
SendDown(n, m) ==
  /\ m \notin sent
  /\ sent' = sent \cup {m}
  /\ toSink' = Append(toSink, Data(m, Sink, n))
  /\ UNCHANGED <<nodeVars, toController, delivered, marked, boundVars>>

\* A packet arrives by radio.
Receive(x) ==
  /\ x \in air
  /\ RxHandler(x.to, x.packet, air \ {x})
  /\ UNCHANGED <<toSink, sent, marked, boundVars>>

\* A packet of the controller arrives at the sink, to be handled like any other.
ReceiveAtSink ==
  /\ toSink # <<>>
  /\ toSink' = Tail(toSink)
  /\ RxHandler(Sink, Head(toSink), air)
  /\ UNCHANGED <<sent, marked, boundVars>>

\* manageRoutingRequest: the path first, then the packet again.
Answers(p) ==
  IF p.src = p.dst THEN {<<>>}
  ELSE {<<OpenPath(q), [p EXCEPT !.request = FALSE, !.src = Sink]>> :
          q \in ShortestPaths(p.src, p.dst)}

\* The worker of the controller takes a packet from the queue.
ControllerStep ==
  /\ toController # <<>>
  /\ LET p == Head(toController)
     IN  /\ toController' = Tail(toController)
         /\ IF p.request
            THEN /\ \E answer \in Answers(p) : toSink' = toSink \o answer
                 /\ UNCHANGED delivered
            ELSE /\ delivered' = delivered \cup p.message
                 /\ UNCHANGED toSink
         /\ UNCHANGED <<nodeVars, sent, marked, boundVars>>

\* The radio of the sender is busy: radioTX is called once more for the packet,
\* and lowers its time to live again.
Retry(x) ==
  /\ x \in air /\ Faults < MaxFaults
  /\ busy' = busy + 1
  /\ air' = (air \ {x}) \cup {[x EXCEPT !.packet = Decremented(@)]}
  /\ UNCHANGED <<rule, tcpVars, messageVars, marked, lost, removed>>

Lose(x) ==
  /\ x \in air /\ Faults < MaxFaults
  /\ lost' = lost + 1
  /\ air' = air \ {x}
  /\ UNCHANGED <<rule, tcpVars, messageVars, marked, busy, removed>>

\* A rule is overwritten in the full ring, or erased by the controller (FlowTable):
\* the rules of an OPEN_PATH do not age.
Remove(n, d) ==
  /\ rule[n][d] # NoNode /\ Faults < MaxFaults
  /\ removed' = removed + 1
  /\ rule' = [rule EXCEPT ![n][d] = NoNode]
  /\ UNCHANGED <<air, tcpVars, messageVars, marked, lost, busy>>

Next ==
  \/ \E n \in Motes, m \in Messages : SendUp(n, m) \/ SendEvent(n, m) \/ SendDown(n, m)
  \/ \E n \in Motes : NewEvent(n)
  \/ \E x \in air : Receive(x) \/ Retry(x) \/ Lose(x)
  \/ ReceiveAtSink
  \/ ControllerStep
  \/ \E n, d \in Nodes : Remove(n, d)

Spec == Init /\ [][Next]_vars

\* The threads that take packets from the queues run, and the simulator delivers
\* a packet within milliseconds, whatever else is sent.
Fairness ==
  /\ WF_vars(ReceiveAtSink) /\ WF_vars(ControllerStep)
  /\ \A n \in Nodes, q \in Paths \cup {NoPath} :
       WF_vars(\E x \in air : x.to = n /\ x.packet.path = q /\ Receive(x))

FairSpec == Spec /\ Fairness

------------------------------------------------------------------------------
(* Properties *)

TypeOK ==
  /\ rule \in [Nodes -> [Nodes -> Nodes \cup {NoNode}]]
  /\ air \subseteq [to : Nodes, packet : Packets]
  /\ toController \in Seq(Packets) /\ toSink \in Seq(Packets)
  /\ sent \in SUBSET Messages /\ delivered \in SUBSET Messages
  /\ marked \in SUBSET Motes
  /\ lost \in Nat /\ busy \in Nat /\ removed \in Nat /\ Faults <= MaxFaults

(***************************************************************************)
(* Rules left by different OPEN_PATH messages, for either end of their     *)
(* paths, in whatever order they arrived, and with any of them lost on the *)
(* way or removed since, never send a packet round in circles.             *)
(***************************************************************************)
NoForwardingLoop ==
  \A d \in Nodes : \A S \in SUBSET Nodes :
     S # {} => \E n \in S : rule[n][d] \notin S

(***************************************************************************)
(* Every message arrives, unless a packet is lost or retries at a busy     *)
(* radio cost one its time to live: although at first no node has a rule,  *)
(* not even the sink for the OPEN_PATH messages themselves, although these *)
(* may overtake each other, and although rules are removed under way.      *)
(***************************************************************************)
EveryMessageArrives ==
  \A m \in Messages : m \in sent ~> m \in delivered \/ lost > 0 \/ busy > 0

(***************************************************************************)
(* The rules of a node change as its flow table, with its ring of slots,   *)
(* lets them (FlowTable implements the same NextHops): from an OPEN_PATH   *)
(* that arrives, however late, a node learns about the two ends of the     *)
(* path, and otherwise it loses one rule at a time.                        *)
(***************************************************************************)
HopTable(n) ==
  INSTANCE NextHops WITH Destinations <- Nodes, Passing <- {}, Hops <- Nodes,
                         NoHop <- NoNode, hop <- rule[n]

RulesAreNextHops ==
  /\ \A n \in Nodes : HopTable(n)!Init
  /\ [][\A n \in Nodes : [HopTable(n)!Next]_(rule[n])]_vars

(***************************************************************************)
(* A request is a packet that has no match in a flow table, says the       *)
(* comment of rxHandler: a mote that has a rule for the sink does not send *)
(* it a message as a request.                                              *)
(***************************************************************************)
RequestsLackARule ==
  [][\A n \in Motes, m \in Messages :
        (SendUp(n, m) \/ SendEvent(n, m)) /\ rule[n][Sink] # NoNode =>
           \A x \in air' \ air : ~x.packet.request]_vars

==============================================================================
