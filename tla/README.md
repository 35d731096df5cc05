# SDN-WISE with interaction of devices: a TLA+ model

The repository is a software-defined network for a wireless sensor network and, on top of
it, a layer of *intents*: a program says which motes it wants to observe, and the layer
picks a way of observing them. Two Java programs make up the system:

* the **motes and sinks**, Java motes that run in the Cooja simulator
  (`src/contiki/tools/cooja/examples/sdn-wise_java/java/.../cooja/`, below `cooja/`);
* the **controller** with the intent layer
  (`src/ControllerSDN_WISE/SDN_IDN_IoT/src/main/java/com/github/...`, below `sdnwise/` for
  `sdnwiselab/sdnwise` and `idn/` for `sdn_idn_iot/idn`).

The rest of `src/contiki` is a copy of the Contiki distribution: half a million lines of C for
motes of other kinds, none of which is compiled for these Java motes or runs in their
simulation, and Cooja, of which the motes use the radio medium and the clock. The SDN-WISE library (packets, flow table entries) and GraphStream (the graph and
Dijkstra's algorithm) come as jar files and are modelled only as far as the code uses
them (`external` in the map of `PROJECT.json`).

## 1. Inventory

| Component | State | Operations | Hard behaviour | What makes it correct |
|---|---|---|---|---|
| Flow table (`cooja/AbstractMote.java`, `Mote.java`, `Sink.java`) | ring of slots, slot 0 the rule towards the sink, free position | insert, replace, remove by index, age, look up | the ring wraps and evicts; positions of the lookup are not slots; indices as signed bytes; a sink has two threads on it and no lock | behaves as a list of rules, newest first; no rule twice; a lookup under way finds what stays |
| Sink discovery (`rxBeacon`, `TimerTask`, `Battery`) | parent, distance, semaphore, signal strength, timers | beacon sent, received; tick; ageing; idle | beacons lost, delayed, overtaken; a parent that dies; a reset that keeps the signal strength | forest towards the sinks; agreement with the parent; rule kept alive; dead parent forgotten |
| Network map (`topology/NetworkGraph.java`) | nodes, edges, last seen, modification counter | `updateMap`, `checkConsistency` | removal while iterating; lengths compared with a resolution | map follows the reports; silent nodes leave; each relevant change counted |
| Routing (`controller/ControllerDijkstra.java`) | cached paths, Dijkstra's tree, source and counter they are for | `manageRoutingRequest` | stale cache | what is reused is a shortest path of the present map |
| Forwarding and path set-up (`runFlowMatch`, `radioTX`, `insertRule`, `Sink.java`, `managePacket`) | rules of each node, packets in the air and on the TCP connection | forward, ask, open a path, send again | reordering, loss, time to live, the OPEN_PATH itself without a rule | no forwarding loop; a message arrives |
| Link of sinks and controller (`Sink.java`, `adapter/AdapterTcp.java`, `controller/Controller.java`) | connections, `flowTableQueue` (100), `bQ` (1000), one Worker, two observables with a flag each, the list of connections | connect, accept, read, notify, put, take, send to all | readers share the flags; the list is iterated over while it grows; an exception ends the Worker; two threads that write to each other through full buffers | nothing lost or out of order; a path before its packet; the simulator is not stopped |
| Configuration queries (`sendQuery`, `marshalPacket`) | cache of answers (5 s) | ask, sleep, look | late answers of earlier queries | an answer belongs to its question |
| Neighbour table and reports (`initNeighborTable`, `prepareReport`) | list of neighbours | count beacons, report | the list grows at each report | reports name the neighbours heard |
| Function upload (`createPackets`, `marshalPacket`) | parts received | split, join | reordering of parts | joined as sent |
| Agent and events on a mote (`Agente.java`, `EventHandler.java`) | events of the mote, their counter, the packet they answer with | register, delete, poll, fire | the stored packet is changed by sending | one event at most; deleted when told so |
| Intent layer (`Mediador`, `Behavior`, `BehaviorLogic`, `Communication`, `SdnWise`) | behaviours with a flag and a thread, handlers by message id | execute, stop, compare, choose | interrupts anywhere in a loop, threads that overlap, messages late | behaviours do not mix; the motes fall silent |
| Metrics (`MonitoringMetrics`, `ResultMetrics`) | counters of messages of a window | start, count, stop | lazily reset, shared | the comparison counts the messages of the window |
| Configuration, drawing | files; window | | | not modelled |

**Interaction.** Motes talk over the simulated radio: beacons (mote to neighbours), reports
and requests (up the tree to the sink), data (along rules), OPEN_PATH (down, installing
rules). A sink has a TCP connection with the controller's adapter; what arrives is put into
`bQ`, from which the Worker calls `managePacket`: reports go to `NetworkGraph`, requests to
`manageRoutingRequest`, data to `Communication.receivePacket`, which calls the handler of
the message's id. Behaviours run in threads of their own and send through
`Communication.sendMessage`. Within a mote every handler runs on the thread of the
simulator; a sink has a second one for what the controller sends. The controller has the
thread that accepts connections, one reader for each, the Worker, the Mediador and one per
behaviour executed.

## 2. Modules

| Module | Models | Needs |
|---|---|---|
| `FlowRules` | rules, entries, matching | |
| `FlowTable` | the ring of slots of one mote | `FlowRules`, `RuleList`, `NextHops` |
| `RuleList` | **abstract**: what the table promises, a list of rules | `FlowRules` |
| `NextHops` | **abstract**: what forwarding takes a table for, one next hop for each destination | |
| `SharedTable` | the ring of a sink under its two threads, one access at a time | `FlowRules` |
| `ControllerLink` | connections, readers, observers, queues, Worker and PacketManager, with their threads | |
| `Channel` | **abstract**: what the way up promises, a channel without loss | |
| `SinkDiscovery` | beacons, parents, timers, batteries of a network | |
| `NetworkMap` | the map and its check, with GraphStream's order of nodes | |
| `ReportedMap` | `NetworkMap` with a record of the last report on each edge | `NetworkMap` |
| `RouteCache` | the cache of `ControllerDijkstra` over a map that changes | `NetworkMap` |
| `PathSetup` | forwarding, requests, OPEN_PATH, sink, Worker, event handlers' packets | `NextHops` |
| `ConfigQuery` | `sendQuery` and its map of answers, the settings and rules of motes | |
| `MessageCount` | the counters of messages under the threads of behaviours, Worker and Mediador, one access at a time | |
| `Interaction` | Mediador, behaviours, messages, agents, Worker, results | `MessageCount` |
| `FlowTableProofs`, `SharedTableProofs`, `SinkDiscoveryProofs`, `MapProofs` (of the map, `ReportedMap` and `RouteCache`), `PathSetupProofs`, `ControllerLinkProofs`, `ConfigQueryProofs`, `InteractionProofs` | theorems | the module, TLAPS |
| `MC*` | instances for TLC | the module |

The modules follow the seams of the code and abstract each other: `PathSetup` takes rule 0
as the constant `Parent`, which is what `SinkDiscovery` reaches at rest, its rules as a
function, and a complete map, which is what `NetworkMap` reaches; the function is that of `NextHops`,
which `FlowTable` implements (`ImplementsNextHops`) and to which the rules of `PathSetup` keep
(`RulesAreNextHops`); `Interaction` takes a message as delivered or lost, which is what
`PathSetup` does with it. `PathSetup` takes the link between sink and controller as two
sequences, which is what `ControllerLink` shows of one sink; its handlers are single steps, and
`SharedTable` shows what becomes of the table when they are not.

### FlowTable, RuleList, NextHops

`flowTable`, `flow_table_free_pos`, `semaphore` and `rssiSink` are the fields of
`AbstractMote`; `decision` is what the last lookup (`runFlowMatch`, `searchRule`) answered.
One action per source of change: a beacon (`Mote.rxBeacon`), a rule in a RESPONSE or
OPEN_PATH (`insertRule`), its removal by a CONFIG packet, the timer (`updateTable`), a
lookup. Windows and actions are model values with a relation `Matches`. The removal keeps
the arithmetic of the code, two bytes joined as signed numbers (`IndexRead`).
`RuleList` is a sequence of rules, newest first: `ImplementsRuleList` maps the ring to it,
reading it in the order of `getActualFlowIndex`.
`NextHops` forgets the order: for each destination (windows no rule towards a sink has) it
has the actions of its rule or none. An insertion sets those of its destination and, if it was new,
may evict another; an erasure takes one; ageing takes only those with several windows. An
insertion that evicts is one step here and two in `PathSetup`, `Remove` and then the reception.

### SharedTable

At a sink `rxHandler` runs on the thread `PacketManager` and on the thread of the simulator,
and `updateTable` on the second. Each operation of `FlowTable` is cut where the other thread may
run: `insertRule` into `Search` (one comparison), `Claim`, `Bump`, `Wrap` and `Set`;
`runFlowMatch` into one `Lookup` for each round, which reads `flow_table_free_pos` anew, and
`ActOrAsk`; `updateTable` into `AgeSlot` and `BlankSlot`. `overlapped`, `wrapped`, and `stayed` and
`missed` of a lookup only record what the properties speak of. Two insertions at once do break
the table, and the properties except them: both may find no rule to replace and store it twice,
and one may take the position `RlsMax` before the other has wrapped it, for which `set` throws and
ends the thread (`Set` is then not enabled). It takes an OPEN_PATH from the controller while a
RESPONSE or OPEN_PATH comes by radio.

### ControllerLink, Channel

Seven threads, with one action for each stretch between two accesses to something shared: at a
sink the simulator, `TcpListener` (`Listen`, `Enqueue`) and `PacketManager` (`ManagePacket`,
`ManagerWrites`); at the controller its start (`OpenServerSocket`, `AddObserver`), the thread that
accepts (`Accept`, `StartReader`), the readers (`ReadPacket`, `NotifyFromServer`,
`NotifyFromAdapter`, `PutPacket`), and the Worker and an application that send (`TakePacket`,
`ApplicationSends`, `WriteNext`, `SendNext`, `IteratorThrows`). `changed` has the flags of the two
`Observable`s that all readers share. A message is only what decides the next one. `Channel` is the
abstract way up: messages arrive in order and, once observed, all of them; `ImplementsChannel` maps
what a reader and its socket hold to `onTheWay`.

### SinkDiscovery

One action per handler: `SendBeacon` in `TimerTask`, `RxBeacon`, the tick (ageing
included), the reset of the semaphore, a battery that runs out. Messages in the air are a
set with arbitrary delay and overtaking; losses are counted up to `MaxLost`, lateness of a
timer up to `MaxLate` ticks.

### NetworkMap, ReportedMap, RouteCache

`updateMap` is one action, `checkConsistency` in it at its place, with the array of nodes
GraphStream keeps: removal puts the last node into the place freed, which the iteration
has passed. The iteration is the function `walk`, one place of the array after the other. The flag `modified`
is set where the code sets it: by the check at a removal (`Sweep` returns the nodes left and the flag), by a
reporting node that is new, by each neighbour whose edge changes beyond the resolution or was not there
(`NeighbourModifies`), and by edges left over (`OldEdges`). `RouteCache` adds `manageRoutingRequest`: the cached tree, paths and
`lastSource`, `lastModification`. Dijkstra's result is any set of shortest paths of the
map it is computed on.

### PathSetup

`rule[n][d]` are the rules, `air` the radio messages, `toController` and `toSink` the two
directions of the TCP connection, `marked` the motes whose event handler keeps a packet
that was sent as a request. Actions are the reception at a mote, a sink and the controller,
each with everything it sends on; `Retry` is a busy radio, `Lose` a loss, `Remove` the
removal of a rule, all three counted against `MaxFaults`.

### ConfigQuery

`held` is what the fields of a mote hold (timers, numbers of a byte, accepted addresses, the
rules at some positions), `cache` the expiring map of the controller, `caller` the place of
each thread in `sendQuery`. `sendQuery` is three actions, since other threads, the Worker and
the timer of the map run in between: `Ask` up to the sleep, `ContainsKey` after it,
`RemoveAnswer`. An answer whose time is over leaves the map (`Expire`) before the next tick, in
any order with what else is due. A `Set` sends a packet that nobody answers; the mote carries
it out in `Write` as `marshalPacket` does: a full list throws, position 0 is not erased, the two
bytes of a number are joined with their signs (`Joined`) and read back without them (`Shown`),
so that a period of 200 is held as -56 and read as 65480. An empty list of accepted addresses
reads as one with the address 0. `quiet`, `alone`, `inForce` and `old` only record what the
properties speak of.

### Interaction

Time passes in ticks of 200 ms, the pause a behaviour makes between two messages. `round`
and `phase` are the place of Mediador in `executeMediador` or `executeSingle`; `thread[r]`
is the thread of round *r* with its program counter, its place in the list of addresses,
the time it still sleeps and its interrupt; `flag[b]` is `BehaviorLogic`'s `flag`. Every
action is one stretch of a thread between two sleeps, one message, or one access of `MessageCount`. `event` and `cont`
are `Agente`'s and `EventHandler`'s. The exception a handler throws ends the Worker
(`HandlerThrows`), after which nothing is received.

`MessageCount` has the unlocked fields that behaviours, Worker and Mediador count messages with, in
`metrics`, and for each of these threads the place of its next access and the value it read last
(`sending`, `receiving`, `watching`). The test of `getCount`, each assignment to `auxTX`, `auxRX` and
`count`, the reading of a counter and its writing, `startMsg` and `stopMsg` field by field are steps of their
own, which the other threads' steps come between. `SendMessage`, `ReceivePacket` and
Mediador's `CallStopMsg`, `NextWindow` and `NextRound` only bring a thread to its first access. What one
thread writes the others see at once: the fields are not `volatile`, and what a thread would see
later is not modelled. `exchanged` only records what was exchanged in a round.

`processIntents` in the repository calls `executeSingle` for polling; the calls of
`executeMediador` and of the periodic behaviour stand beside it as comments. The model
starts in any of these (`Init`).

## 3. Runs

| Run | Question | Bounds, and why they are enough |
|---|---|---|
| `MCFlowTable` | is the ring the list it should be, with no rule twice? | four slots, four windows, two next hops: the ring fills, wraps and evicts; `ByteSize` 4, so that some positions have the sign bit. The table has 10000 slots; the proof covers every size |
| `MCSinkTree` | do parents form forests that agree, with losses and a death, and is a dead parent forgotten? | two sinks, three motes, one between both; rules live so short that losses make them expire |
| `MCSinkTimers` | how many beacons may be lost in a row? | the numbers of `Constants.java`. `MaxLost` = 13 holds and 14 does not |
| `MCNetworkMap` | does the map follow the reports, without drift, does a check keep the nodes in time and lose the silent ones in the end? | a chain of three nodes, whose middle one may fall silent; `Timeout` 2, so that at one check a node is too late and another, late by less, stands where a removal moves nodes; lengths 0 to 2 with a resolution of 1, so that two small changes exceed it |
| `MCRouteCache` | is what is reused right? | a direct and an indirect path that change with length, edge or node |
| `MCPathSetup` | does a message arrive, and never in a circle? | a chain of three nodes (four hops up and down), two faults. `TtlMax` 5 |
| `EventRequests` | *(violated)* is every request one for which a rule was missing? | two messages, no fault |
| `MCConfigQuery` | is an answer that of the question, and when is it fresh? | two threads, three questions and one change: one question more than a late answer needs to be found by the next; a timer and two positions of the table of one mote, whose keys differ only in the last part. A byte and a list of addresses take the same steps |
| `MCInteraction` | do behaviours stay apart, do the motes fall silent, is the comparison right? | two motes and the address 0 of no mote, as in `SdnWise.java`; windows of 4 ticks, the length of the poller's loop, which stop it when it is about to begin its loop again and so lives longest; delays of a tick; one loss; every order of the accesses to the counters within a tick. A window of 7 ticks, which stops it in the sleep behind its loop, passes too; the proofs cover every length |
| `MCSharedTable` | what may two threads do to one table? | rule 0 and a ring of three slots, four windows, one of them both ageing and matching: insertions overlap, evict, and move the order of a lookup under way |
| `MCControllerLink` | does the link keep its promises, and can it stop for good? | one sink, one mote, three messages begun, every buffer of size 1, so that all of them fill |
| `LostMessages` | *(violated)* is every message from the adapter put into `bQ`? | two sinks, two messages |

What the properties say, beyond one type invariant for each module:

* `NoRuleTwice`, `ImplementsRuleList` (refinement); `ImplementsNextHops` (refinement): what is done
  for a destination changes only by a rule for it, an eviction by a new rule, a removal or age; and
  (`FindsNextHop`) a lookup acts by a rule the ring has for the packet, wherever it is, and asks
  only if there is none.
* `AgreesWithParent`: a mote's distance and sink are its parent's, plus one hop; `NoRoutingLoop`;
  `OneParentInALife`: a mote never exchanges its parent, because `resetSemaphore` keeps
  `rssiSink`; `DeadParentForgotten`, `NeverOrphaned`, `EventuallyJoined`.
* `MapFollowsReports`: each edge is within the resolution of the *last report*;
  `EveryChangeCounted`: a step that changes what a route depends on changes the counter, although a
  node found in a report sets no flag: its edge does, which is new because edges leave with their nodes;
  `LiveNodesKept`: a check takes out no node seen in time, although the array it walks over is
  rearranged under it; `SilentNodeForgotten`.
* `CacheCoherent`: whatever the next request would reuse is right on the present map;
  `OpenedIsShortest`: so is every path opened.
* `NoForwardingLoop`: rules for a destination never form a circle, whatever parts of path
  set-ups were carried out; `EveryMessageArrives`, unless a packet was lost or met a busy radio.
* `AnswersItsQuestion`: of that mote and that item; `QuietMeansFresh`: what a thread gets was
  held by the mote while the thread waited, if nobody had asked for the same for some time;
  `NullOnlyIfShared`: the answer found by `containsKey` is gone at `remove` only if another
  thread asked for the same, or its time was over.
* `TableSound`: without overlapping insertions the ring stores no rule twice and is not left,
  whatever the other thread looks up, ages or erases; `AsksOnlyWithoutRule`: a rule that stays
  during a lookup is found, although the order of the slots moves under it; `ActsByTheRuleMatched`:
  the actions run are those of the rule that matched, or of a blank one (then the packet is dropped
  and nobody is asked), until the ring has wrapped.
* `WorkerSurvives`: only a handler ends the Worker; `NobodyAsksTwice`: a packet finds the path that
  was sent before it; `SimulatorGoesOn`: a write of the simulator's thread ends, but for a dead
  Worker or `LoopFull`, the circle of four full buffers; `ImplementsChannel` (refinement).
* `OneBehaviourSends`: two threads of behaviours never send in the same window;
  `EventsOfThisRound`, `EveryMoteObserved`: no mote keeps the event of an earlier round, and
  each mote has the present one, once the messages under way have arrived;
  `ComparesWhatWasExchanged`: while no message is lost, the numbers compared are those of the messages
  exchanged in each round, except the first, which starts the counters, or the first and its answer, if the
  Worker counts the one while the behaviour still starts them; nothing else is missed, counted
  twice or carried over, in any interleaving of the unlocked accesses;
  `MotesFallSilent`: after the last stop no mote sends again.

**Tight assumptions.** `InTime` of `SinkDiscovery`:
`BeaconMax * (MaxLost + 1) + MaxLate < UpdTableMax * (TtlMax \div TtlDecr)`, so that the ticks from
one beacon to the one after `MaxLost` lost ones are fewer than the 25 agings, six ticks apart, that a
rule lives through; with the numbers of `Constants.java` that is `MaxLost` = 13 in `MCSinkTimers`, and with 14
`NeverOrphaned` is violated. In `MCInteraction`, `LongEnough`: `Pause` must
exceed the number of targets: the pause of two seconds is ten messages of a stopped thread,
and the intent has six targets; with an intent for ten motes the last thread would still be
deleting while the next registers. `TimeToArrive` adds the delay of the last message to both, the
pause and the windows; with one tick more of `MaxDelay`, and a mote as last target,
`EventsOfThisRound` and `EveryMoteObserved` are violated. `TimeToAnswer` lets the answer to the last
deletion arrive within the pause too (`N + 2 * MaxDelay <= Pause`), so that nobody counts while Mediador
closes a window or opens the next; with a pause one tick shorter and a mote as last target
`ComparesWhatWasExchanged` is violated, since the Worker may then be counting when Mediador closes the
window. With the six targets of the repository and ten ticks of pause, an answer may be up to two ticks on each way. In `ConfigQuery` the time without questions must be
`2 * MaxDelay + CacheTime - Timeout + 1`: an answer can be almost so long on its way and in the
map, and the next question waits `Timeout` before it looks. With one tick less
`QuietMeansFresh` is violated, and without the condition one late answer makes every close
question after it get the answer to the one before. In `PathSetup` a packet that was sent again keeps the
time to live it has left after its way up, so a destination must be within what is left.

**Fairness.** `SinkDiscovery`: `RxBeacon` and the timers of each node, since the simulator
runs every scheduled task and hands over every message it does not drop. `ReportedMap`: time
passes and reports go on arriving at the controller, without which `updateMap`, and the check in
it, would not run. `ControllerLink`: while some thread can go on, one does; this is less than
fairness to each of them, and enough, because what the motes and the application begin is finite. `PathSetup`: each class of messages to
a node is received, and the Worker and the sink's reader take the head of their queues; none
for losses, busy radios and removals. `Interaction`: time passes, each thread that is due
runs, the Worker's while it counts too (`WorkerCounts`), messages are delivered before they are too late. All are weak: an action that stays
enabled is taken in the end.

**Deadlock** is checked in every run but `MCPathSetup`, `EventRequests`, `MCControllerLink` and
`LostMessages`, whose network is at rest once every message has been sent and answered (that
`ControllerLink` rests nowhere else is `SimulatorGoesOn`), and `MCSharedTable`, where an insertion
past the table ends a thread.

## 4. Proofs

TLAPS proves the following for every value of the constants that satisfies the named
assumptions.

* **`FlowTableProofs`**: `TypeCorrect`, `RuleStoredOnce`, `RingImplementsList`,
  `IndexSurjective`, `RingImplementsHops` (`ImplementsNextHops`), under `RulesAssumption` and `TableAssumption`. `NoRuleTwice` is about the *ring* alone, as a rule
  of a RESPONSE may have the windows of slot 0 later; its invariant `IInv` is
  `OnceOnly` with the types: an insertion replaces in place or finds none to repeat. The refinement rests on lemmas about
  `GetActualFlowIndex`, a bijection between places and slots whose values move by one when
  the free position does. For `NextHops`, `HopInv` adds that slot 0 never holds a rule
  for a destination and that a rule has actions (`HopOK`). A destination then has one rule (`HopIs`), so
  writing a slot changes the destination written and the one written over only (`HopWritten`): hence
  what an insertion (`InsertHops`), an erasure (`HopErased`) and ageing (`HopsAge`) do. A lookup finds the
  rule because every slot has a place in its order (`IndexSurjective`, `LookupFindsHop`).
* **`SharedTableProofs`**: `TypeCorrect`, `SoundTable`, `FoundDespiteInsertion`
  (`AsksOnlyWithoutRule`), `ActsAsMatched` (`ActsByTheRuleMatched`). Of two threads of which one inserts, the
  other can only take rules out: the invariant says where an insertion is and what it has passed
  (`PassedDiffers`), that the rule it brings is in no slot but the one it is about to write
  (`NewRuleNowhere`, `OnlyWhereWritten`), and where the free position may be (`FreeInRing`).
  `FoundInv`: a rule that matches the packet and has stayed since the lookup began is still ahead of
  it, or about to be replaced by another (`Finds`): when the free position moves, every slot of the
  ring is looked at one round later, and the one that falls behind is the one the insertion has
  claimed (`IndexBumped`). `ActInv`: until
  the ring wraps, what lies past the free position has never held a rule (`Unused`), so that an
  insertion writes over no rule that a lookup may have matched (`WritesUnused`).
* **`ControllerLinkProofs`**: `TypeCorrect` for any number of sinks; `WorkerNotInterrupted`,
  `LinkImplementsChannel` and `PathBeforePacket` for one (`ASSUME Sinks = {k}`): with two a sink may connect while an answer is written,
  and `LostMessages` shows what becomes of the flags. The invariant: a connection that is read is in `clientSockets`
  (`SocketKept`, `ReaderStarted`), so that none is added while an answer is written, and the flag a
  reader is about to test is up (`FlagsUp`), which nobody else can take down. `PathBeforePacket`
  (`NobodyAsksTwice`) adds `AskInv`: on the whole line down, from the Worker through the socket and
  TcpListener into the queue, a packet that was asked with follows the path it needs unless the
  sink has the rule (`InOrder`, `PathFirst`), so that only first requests come up (`OnlyFirstAsks`).
* **`SinkDiscoveryProofs`**: `TypeCorrect`, `Agreement`, `LoopFree`, `OneParent`. What a
  beacon in the air says may contradict its sender's present state, so the invariant
  speaks of the air: each beacon says what its sender believed (`AirOrigin`), is what the
  sender still believes unless it has lost its rule (`AirCurrent`), beacons of a sender agree
  (`AirConsistent`), and one that has lost its rule never gets another (`Phases`).
  `LoopFree` follows by the least distance on a supposed circle (`LeastElement`).
  `JoinedForGood` (`NeverOrphaned`) assumes that no battery runs out and `InTime`. Its invariant
  `JInv` adds `TimeInv`, which compares the clocks of a mote and its parent: the agings of a rule since a beacon restored it (`Aged`)
  take no more ticks than the parent has counted since it sent that beacon (`ParentTicks`, from its
  beacons lost or in the air and its own timer), the ticks it is late by, and the one that either has counted
  before the other in the present second (`Ahead`). A beacon is in the air only within its second
  (`AirFresh`), so at most `MaxLost` + 1 periods pass, and the rule has time left when the next
  one arrives (`NotExpired`).
* **`MapProofs`**: of `ReportedMap`, `MapType`, `MapFollows` (`MapFollowsReports`),
  `ChangesCounted` (`EveryChangeCounted`), `LiveNodesStay` (`LiveNodesKept`); of `RouteCache`, `CacheType`,
  `CacheIsCoherent`, `OpenedPaths`. The nodes stand in an array without repetition (`Perms`), and
  what a check leaves is again such an array, holds every live node and no node that was not
  there, and unless its flag is set is the array it found (`SweepKeeps`, `KeptIsSwept`). The walk is a recursive function; what it computes would need an induction, in the
  place of which stands the first position, by `LeastElement`, at which the walk would
  have lost what `VisitKeeps` says a visit keeps. From this follow the type, that edges are
  exactly those of reports between nodes that are left (`EdgesAfterReport`), and that each is within
  the resolution of its last report (`FollowsReport`). That the flag is set for every change is no matter of
  definition: `ReportChanges` takes the branches that leave it unset one by one, and a node found in a
  report needs that no edge is left of a node outside the map. `CacheInv`: the counter only grows
  (`CounterOrder`), so a cache that bears its present value was computed on the present map.
  Both need the bound `LongRange` on the counter, which is a `long` in the code.
* **`PathSetupProofs`**: `TypeCorrect`, `LoopFree`, `RulesOfTables` (`RulesAreNextHops`).
  `RulesLeadCloser`: each rule leads one hop closer to its destination, whichever part of whichever
  path set-up left it. A path of two nodes or more has two different ends (`EndsDiffer`), so that the
  rules an OPEN_PATH leaves at a node are insertions for different destinations (`OpenPathInstalls`): an OPEN_PATH, however late, brings
  a node one or two next hops and takes none, and otherwise a node loses one at a time. No run
  checks this, as with the three nodes of `MCPathSetup` almost any change is one that `NextHops` allows.

* **`ConfigQueryProofs`**: `TypeCorrect`, `RightAnswers`, `OnlySharedGone`, `FreshAnswers`. An answer is kept under
  the key of its question (`KeptUnderKey`) and the key tells items of motes apart
  (`KeyInjective`, which needs the position of a rule in it). For `OnlySharedGone`, of two
  threads that ask the same neither is alone (`AloneMeansAlone`), so that what a thread
  alone has found in time stays until it takes it (`FoundIsThere`). `FreshAnswers`
  (`QuietMeansFresh`) is about time: how long ago an item was asked for bounds the ages of packets
  and answers about it (`SinceAsked`, `KeptSinceAsked`), so that after a quiet time nothing is on
  its way and what is still in the map expires before the thread looks (`QuietAround`,
  `FreshEntry`). It needs `Timeout < CacheTime`.
* **`InteractionProofs`**: `TypeCorrect`, `OneSends` (`OneBehaviourSends`), `ComparesRight`
  (`ComparesWhatWasExchanged`). `OneSends` assumes `LongEnough`: a message to each target fits into
  the pause with a tick to spare (`N < Pause`) and into every window, and so does the poller's
  sleep. `OneBehaviourSends` is about
  threads that are over; the invariant `PlaceInv` says why they are. The present thread is in its
  window, stopped but not yet interrupted, or interrupted (`Works`, `ToInterrupt`, `Ends`), and in
  each of the three the messages its loop has yet to send and the sleep it is in (`ToSend`) end
  before the clock of Mediador. A poller that is interrupted while it polls sleeps through
  its next pause before it looks at its flag, so it may outlive its round by one; it wakes before
  the flag is set again (`SleepsOnce`). `ComparesRight`
  assumes `TimeToAnswer`, from which each message of a round is counted before its window closes
  (`AnswersInTime`), so that a window opens and closes with nothing in the air and nobody counting (`Calm`).
  `CountInv` follows a round from there. At first nothing is counted (`NothingYet`); the thread sends before time passes
  (`FirstSent`). Then the first message starts the counters, alone or beside its answer, and `Opening` lists how
  the two threads can stand to each other. Once the counters run (`Running`), each is written by one thread only,
  `auxTX` by the behaviour's and `auxRX` by the Worker, so that numbers, values read and
  messages grow together (`AddsOne`), and the difference is one or two when the window is closed (`Settled`).
  `EventsEnd` (`EventsOfThisRound`) and `EveryoneObserved` (`EveryMoteObserved`) assume
  `TimeToArrive` and rest on `PlaceInv` with `EventInv`: what a loop has yet to send leaves early enough
  (`Early`) to arrive within its window or pause (`InTime`), so when a clock stands at 0 nothing
  that changes an event is on its way (`NothingPending`). As long as no message was lost, every
  event is of the present round (`OnlyThisRound`), each target the loop has passed
  has its event or is about to (`Registered`), and each event in the pause is yet to be
  deleted, by the loop or a message under way (`ToBeDeleted`).

Only model-checked: the liveness properties, `DeadParentForgotten`, `EventuallyJoined`,
`SilentNodeForgotten`, `EveryMessageArrives`, `MotesFallSilent` and `SimulatorGoesOn`, which are out of
the prover's reach (fairness needs ENABLED). Every invariant and every other action property or
refinement that a passing run checks is stated by a theorem. Only proved: `RulesAreNextHops`, and the
types of `RouteCache` (`CacheType`), which the properties of its run need anyway.

## 5. Where code and expectation disagree

* `LostMessages`: `TcpElement.update` (`AdapterTcp.java:162`) and `Adapter.update` call `setChanged`
  and then `notifyObservers` on objects that the readers of all connections share. With two sinks
  the notification of one reader can take the flag of the other, whose message is dropped.
* `EventRequests`: an event handler keeps the packet of its registration (`EventHandler.java:106`);
  once that was marked as a request, every later message of the event goes to the controller as
  a request, although the mote has a rule.
* `checkConsistency` removes nodes from the graph it iterates over (`NetworkGraph.java:87`) and
  passes over the one that takes the place; `SilentNodeForgotten` shows a later check to find it, and
  `LiveNodesKept` that no other node is lost by it.
* The agents do not know "pollingAlerta" and answer with an error text, which the handler of the
  alert behaviour splits as if it were a reading (`SdnWise.java:244`). The exception ends the
  controller's only Worker. A consequence in `executeMediador`: the alert behaviour always has the
  fewest messages, and so would be chosen.
* Rules of paths over different maps may form circles, as rules of OPEN_PATH never age. The time to
  live ends a packet in such a circle, but not the message it belongs to: if the sink's rule for *d*
  leads to *n*, which has none, and the OPEN_PATH to *n* is caught in a circle, then each request of
  *n* is answered with a path that never arrives and a packet that makes *n* ask again, for ever.
  Hence no property of `PathSetup` speaks of a map that changes.
* The index of a rule to erase is joined from signed bytes (`AbstractMote.java:352`): an index
  whose low byte is 128 or more names another rule or none. `FlowTable` does as the code does
  and `RuleList` permits the removal of any rule.

## 6. Not modelled

Contiki's C code and Cooja: third-party, and not part of what runs here but for the radio medium
and the clock. Configuration files, the drawing, log format: input and presentation. UDP and the
TCP client: `config.ini` selects neither. Connections that end: the reader of a closed connection
ends, its socket stays in the list, and `TcpListener` turns round without pause (`read` returns -1,
`Sink.java:162`). Byte streams: `read` of `Sink.java:166` may return a part of a packet.
What the counters of messages promise after a loss, or with a pause too short for the last answers
(`Communication.java:108-136`): a mote may then send while a window opens, and a Worker that has read
`getCount` before `startMsg` and adds after it carries the number of the last window into this one.
`Interaction` takes these steps, and `ComparesWhatWasExchanged` excuses what comes of them: then no bound on a number
holds, and nothing in the repository promises one.
Function upload (`Controller.java:719-811`, `AbstractMote.java:402-430`): nothing calls
`sendFunction`, and parts are joined as they arrive. What the list of accepted ids decides:
nothing in the repository adds an address (how it is written and read is in `ConfigQuery`). The
charge drawn from a battery: only whether it is empty matters to another component. The table of
neighbours: it collects who was heard since the last report, and `NetworkMap` takes any such
report. Alert events on a mote: none is ever registered, for the reason above. Sums of battery
levels: printed only. Changes of the map while paths are in use: see section 5.

## 7. Plan

In the order of the behaviour's importance; done are 1 to 8.

1. Flow table with its abstract list, proofs. *Done.*
2. Sink discovery, proofs. *Done.*
3. Network map and routing cache, proofs. *Done.*
4. Path set-up, proofs. *Done.*
5. Interaction and the counting of its messages, proofs. *Done.*
6. `ConfigQuery`, proofs of its safety. *Done.*
7. The link of sinks and controller, and a sink's table under two threads, proofs. *Done.*
8. That `PathSetup`'s rules are those of `FlowTable`: `NextHops`, proofs. *Done.*
9. That `SharedTable`, as long as no two insertions overlap, implements `NextHops` too, so that the
   single steps of `PathSetup` stand for a sink's two threads.
