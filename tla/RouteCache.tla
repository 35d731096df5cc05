----------------------------- MODULE RouteCache -----------------------------
(***************************************************************************)
(* How the controller answers a node that has no rule for a packet         *)
(* (ControllerDijkstra.java): manageRoutingRequest computes the shortest   *)
(* paths from that node over the map, keeps them, and answers the next     *)
(* request of the same node from what it kept as long as the map has not   *)
(* been modified.  The worker thread handles reports and requests one at a *)
(* time.                                                                   *)
(*                                                                         *)
(* computed is the graph whose shortest-path tree dijkstra holds; opened   *)
(* is the path of the last OPEN_PATH message, until the next report.       *)
(***************************************************************************)
EXTENDS NetworkMap

CONSTANTS
  NoNode,          \* lastSource before the first request
  NoModification   \* lastModification of the controller at the start

ASSUME CacheAssumption ==
  /\ NoNode \notin Nodes
  /\ NoModification \notin 0 .. (LongRange - 1)

VARIABLES
  results,          \* the paths kept, by destination
  computed,
  lastSource,
  lastModification,
  opened

cacheVars == <<results, computed, lastSource, lastModification, opened>>
vars == <<mapVars, cacheVars>>

------------------------------------------------------------------------------
(* Shortest paths *)

\* The paths from n to d in g without a node twice.
Paths(g, n, d) ==
  {p \in SetToAllKPermutations(Nodes) :
     /\ p # <<>> /\ p[1] = n /\ p[Len(p)] = d
     /\ \A i \in 1 .. (Len(p) - 1) : <<p[i], p[i + 1]>> \in DOMAIN g}

PathLength(g, p) ==
  FoldLeftDomain(LAMBDA sum, i : IF i = Len(p) THEN sum ELSE sum + g[<<p[i], p[i + 1]>>],
                 0, p)

\* What getPathNodes may return: a shortest path, or no node at all when there
\* is none.
ShortestPaths(g, n, d) ==
  LET ps == Paths(g, n, d)
      best == {p \in ps : \A q \in ps : PathLength(g, p) <= PathLength(g, q)}
  IN  IF ps = {} THEN {<<>>} ELSE best

------------------------------------------------------------------------------
CacheInit ==
  /\ results = <<>>
  /\ computed = <<>>
  /\ lastSource = NoNode
  /\ lastModification = NoModification
  /\ opened = <<>>

Init == MapInit /\ CacheInit

\* A mutant: only the source is compared.
StaleBySource(n) == lastSource # n

\* What was computed last does not answer a request of n.
Stale(n) == lastSource # n \/ lastModification # modification

\* A mutant: the paths kept are not dropped before computing again.
KeptResultsAlways(n) == results

\* results after the test, before the path asked for is added
KeptResults(n) == IF Stale(n) THEN <<>> ELSE results

\* manageRoutingRequest for a packet of n to d
RoutingRequest(n, d) ==
  /\ n # d
  /\ n \in Known /\ d \in Known
  /\ LET kept == KeptResults(n)
         g == IF Stale(n) THEN length ELSE computed
     IN  \E path \in IF d \in DOMAIN kept THEN {kept[d]} ELSE ShortestPaths(g, n, d) :
           /\ results' = [k \in DOMAIN kept \cup {d} |-> IF k = d THEN path ELSE kept[k]]
           /\ computed' = g
           /\ opened' = IF Len(path) > 1 THEN path ELSE <<>>
  /\ lastSource' = n
  /\ lastModification' = IF Stale(n) THEN modification ELSE lastModification
  /\ UNCHANGED mapVars

\* A report, handled by the same thread.  Bounded: lastModification does not
\* come round to a value it had before.
HandleReport ==
  /\ RxReport
  /\ modification + 1 < LongRange
  /\ opened' = <<>>
  /\ UNCHANGED <<results, computed, lastSource, lastModification>>

Around ==
  /\ Tick \/ \E n \in Mortal : FallSilent(n)
  /\ UNCHANGED cacheVars

Next ==
  \/ \E n, d \in Nodes : RoutingRequest(n, d)
  \/ HandleReport
  \/ Around

Spec == Init /\ [][Next]_vars

------------------------------------------------------------------------------
(* Properties *)

TypeOK ==
  /\ MapTypeOK
  /\ DOMAIN results \subseteq Nodes
  /\ \A d \in DOMAIN results : results[d] \in SetToAllKPermutations(Nodes)
  /\ DOMAIN computed \subseteq Edge
  /\ lastSource \in Nodes \cup {NoNode}
  /\ lastModification \in 0 .. (LongRange - 1) \cup {NoModification}
  /\ opened \in SetToAllKPermutations(Nodes)

(***************************************************************************)
(* What the controller keeps is right whenever it would be used: while     *)
(* lastModification matches, every path kept is a shortest path of the     *)
(* map as it is now, and so is every path the tree would still yield.      *)
(***************************************************************************)
CacheCoherent ==
  lastModification = modification =>
    /\ computed = length
    /\ \A d \in DOMAIN results : results[d] \in ShortestPaths(length, lastSource, d)

(***************************************************************************)
(* A path opened in the network starts at the node that asked, and is a    *)
(* shortest one over the edges the map has at that moment.                 *)
(***************************************************************************)
OpenedIsShortest ==
  opened # <<>> =>
    \E d \in Nodes : opened \in ShortestPaths(length, lastSource, d)

==============================================================================
