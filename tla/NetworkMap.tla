----------------------------- MODULE NetworkMap -----------------------------
(***************************************************************************)
(* The controller's picture of the network (NetworkGraph.java): the graph  *)
(* that updateMap keeps from the reports of the nodes.                     *)
(*                                                                         *)
(* An edge <<o, n>> says that n hears o; its length is 255 minus the       *)
(* signal strength n reported.  order is the array the graph keeps its     *)
(* nodes in; removing one moves the last into its place (GraphStream's     *)
(* removeNodeCallback), also while checkConsistency walks the array.       *)
(*                                                                         *)
(* Time is counted in ticks, and only as far as the code compares it: age  *)
(* and sinceCheck stop where their comparison is decided.                  *)
(*                                                                         *)
(* Abstracted: battery level and net id, which updateMap only stores.      *)
(***************************************************************************)
EXTENDS Integers, FiniteSets, SequencesExt

CONSTANTS
  Nodes,           \* the addresses in the network
  Link,            \* <<o, n>>: n is in radio range of o
  Mortal,          \* the nodes that may fall silent
  Lengths,         \* the lengths of an edge
  Timeout,         \* TIMEOUT of config.ini, in ticks
  RssiResolution,  \* RSSI_RESOLUTION of config.ini
  LongRange        \* the values of a long: lastModification wraps there

ASSUME MapAssumption ==
  /\ IsFiniteSet(Nodes)
  /\ Link \subseteq Nodes \X Nodes
  /\ \A n \in Nodes : <<n, n>> \notin Link
  /\ Mortal \subseteq Nodes
  /\ Lengths \subseteq Nat
  /\ Timeout \in Nat \ {0}
  /\ RssiResolution \in Nat
  /\ LongRange \in Nat /\ LongRange > 1

VARIABLES
  order,         \* the nodes of the graph, as its array has them
  length,        \* the edges of the graph, each with its length
  age,           \* ticks since a node's lastSeen
  sinceCheck,    \* ticks since lastCheck
  modification,  \* lastModification, counted from its first value
  silent         \* nodes that neither report nor are heard any more

mapVars == <<order, length, age, sinceCheck, modification, silent>>

Edge == Nodes \X Nodes
Known == ToSet(order)

\* The reports of n: the neighbours it hears, each with the length it would give
\* the edge.
Report(n) ==
  UNION {[S -> Lengths] : S \in SUBSET {o \in Nodes \ silent : <<o, n>> \in Link}}

Abs(x) == IF x < 0 THEN -x ELSE x

MapTypeOK ==
  /\ order \in SetToAllKPermutations(Nodes)
  /\ DOMAIN length \subseteq Known \X Known
  /\ \A e \in DOMAIN length : length[e] \in Lengths
  /\ age \in [Nodes -> 0 .. Timeout]
  /\ sinceCheck \in 0 .. (Timeout + 1)
  /\ modification \in 0 .. (LongRange - 1)
  /\ silent \in SUBSET Mortal

MapInit ==
  /\ order = <<>>
  /\ length = <<>>
  /\ age = [n \in Nodes |-> 0]
  /\ sinceCheck = 0
  /\ modification = 0
  /\ silent = {}

------------------------------------------------------------------------------
(* checkConsistency *)

IsAlive(n) == age[n] < Timeout

\* A mutant: the last place is given up without moving its node.
RemoveSwappedDropsLast(seq, i) == SubSeq(seq, 1, Len(seq) - 1)

RemoveSwapped(seq, i) ==
  [k \in 1 .. (Len(seq) - 1) |-> IF k = i THEN seq[Len(seq)] ELSE seq[k]]

NothingRemoved == [nodes |-> order, modified |-> FALSE]

\* A mutant: dead nodes are never taken out.
SweepNothing == NothingRemoved

\* One walk over the array: the nodes left, and the flag that a removal sets.
\* What is moved into the place just visited is passed over.
Sweep ==
  LET walk[i \in 0 .. Len(order)] ==
        IF i = 0 THEN NothingRemoved ELSE
        LET seq == walk[i - 1].nodes
        IN  IF i <= Len(seq) /\ ~IsAlive(seq[i])
            THEN [nodes |-> RemoveSwapped(seq, i), modified |-> TRUE] ELSE walk[i - 1]
  IN  walk[Len(order)]

CheckDue == sinceCheck > Timeout

CheckConsistency == IF CheckDue THEN Sweep ELSE NothingRemoved

\* The nodes that updateMap finds after the check.
Kept == CheckConsistency.nodes

\* A mutant: the edges of a removed node stay.
WithoutNone(S) == length

\* The edges left when the nodes of S are removed.
Without(S) == Restrict(length, {e \in DOMAIN length : e[1] \notin S /\ e[2] \notin S})

------------------------------------------------------------------------------
(* updateMap.  g is the edges after the check. *)

\* The length of an edge e after its second node reported l: a change within
\* the resolution is not recorded.
NewLength(g, e, l) ==
  IF e \in DOMAIN g /\ Abs(g[e] - l) <= RssiResolution THEN g[e] ELSE l

\* A mutant: edges that are not reported any more stay.
UpdatedEdgesKeepOld(g, n, r) ==
  [e \in DOMAIN g \cup {<<o, n>> : o \in DOMAIN r} |->
     IF e[2] = n /\ e[1] \in DOMAIN r THEN NewLength(g, e, r[e[1]]) ELSE g[e]]

\* The edges into n become those of its report.
UpdatedEdges(g, n, r) ==
  [e \in {e \in DOMAIN g : e[2] # n} \cup {<<o, n>> : o \in DOMAIN r} |->
     IF e[2] = n THEN NewLength(g, e, r[e[1]]) ELSE g[e]]

\* The edges into n that the report leaves in oldEdges.
OldEdges(g, n, r) == {e \in DOMAIN g : e[2] = n /\ e[1] \notin DOMAIN r}

\* A mutant: an edge that was not there sets no flag.
NeighbourModifiesKnown(g, n, o, l) ==
  <<o, n>> \in DOMAIN g /\ Abs(g[<<o, n>>] - l) > RssiResolution

\* The flag after neighbour o, heard with l: set by a change beyond the
\* resolution and by an edge that was not there, not by a node that was not.
NeighbourModifies(g, n, o, l) ==
  IF <<o, n>> \in DOMAIN g THEN Abs(g[<<o, n>>] - l) > RssiResolution ELSE TRUE

\* The flag modified at the end of updateMap: set by the check, by a node that
\* is new, in the loop over the neighbours of one that is not, or behind it.
Modified(check, g, n, r) ==
  \/ check.modified
  \/ n \notin ToSet(check.nodes)
  \/ \E o \in DOMAIN r : NeighbourModifies(g, n, o, r[o])
  \/ OldEdges(g, n, r) # {}

UpdateMap(n, r) ==
  LET check == CheckConsistency
      kept == check.nodes
      there == ToSet(kept)
      g == Without(Known \ there)
      edges == UpdatedEdges(g, n, r)
      new == DOMAIN r \ (there \cup {n})
  IN  /\ sinceCheck' = IF CheckDue THEN 0 ELSE sinceCheck
      /\ \E added \in SetToSeqs(new) :
           order' = (IF n \in there THEN kept ELSE Append(kept, n)) \o added
      /\ length' = edges
      /\ age' = [k \in Nodes |-> IF k \in there \ {n} THEN age[k] ELSE 0]
      /\ modification' = IF Modified(check, g, n, r)
                         THEN (modification + 1) % LongRange ELSE modification
      /\ UNCHANGED silent

\* A report reaches the controller.
RxReport ==
  \E n \in Nodes \ silent : \E r \in Report(n) : UpdateMap(n, r)

------------------------------------------------------------------------------
(* Around it *)

Tick ==
  /\ age' = [n \in Nodes |-> IF n \in Known /\ age[n] < Timeout THEN age[n] + 1 ELSE age[n]]
  /\ sinceCheck' = IF sinceCheck <= Timeout THEN sinceCheck + 1 ELSE sinceCheck
  /\ UNCHANGED <<order, length, modification, silent>>

\* The battery of n runs out, and its neighbours have reported since.
FallSilent(n) ==
  /\ n \in Mortal \ silent
  /\ silent' = silent \cup {n}
  /\ UNCHANGED <<order, length, age, sinceCheck, modification>>

------------------------------------------------------------------------------
(* Properties *)

(***************************************************************************)
(* lastModification moves with every change of the map that a route can    *)
(* depend on: ControllerDijkstra compares nothing else.  Each branch of    *)
(* updateMap that changes the map has to set the flag, or to be followed   *)
(* by one that does: a node found in a report sets none, but its edge is   *)
(* then new, since edges leave the map with their nodes.                   *)
(***************************************************************************)
EveryChangeCounted ==
  [][Known' # Known \/ length' # length => modification' # modification]_mapVars

(***************************************************************************)
(* The check takes no node out that was seen in time, although a removal   *)
(* moves another node into the place the walk has just passed.             *)
(***************************************************************************)
LiveNodesKept == [][\A n \in Known : IsAlive(n) => n \in Known']_mapVars

(***************************************************************************)
(* A node that has fallen silent leaves the map in the end, although a     *)
(* check may pass over it.                                                 *)
(***************************************************************************)
SilentNodeForgotten == \A n \in Mortal : n \in silent ~> n \notin Known

==============================================================================
