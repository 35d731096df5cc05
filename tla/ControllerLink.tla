--------------------------- MODULE ControllerLink ---------------------------
(***************************************************************************)
(* The way between the sinks and the controller, with the threads on it    *)
(* (Sink.java, AbstractMote.java, AdapterTcp.java, Controller.java,        *)
(* ControllerDijkstra.java).                                               *)
(*                                                                         *)
(* At a sink: the thread of the simulator, which hands it what comes by    *)
(* radio; TcpListener, which reads the socket into flowTableQueue; and     *)
(* PacketManager, which handles that queue.  The first and the last write  *)
(* the socket, and wait while it is full.  At the controller: one thread   *)
(* accepts connections, one thread for each connection reads it and        *)
(* passes what it read through two observers into bQ; Worker handles bQ    *)
(* and answers; an application sends on its own.                           *)
(*                                                                         *)
(* Of a message, up or down, is kept what decides about the next one: who  *)
(* asks for a path, where a packet goes, which two ends a path has.        *)
(* Abstracted: the map (it may hold a path or not), rules by radio and     *)
(* rules that are removed (FlowTable), a write of a message in parts.      *)
(***************************************************************************)
EXTENDS Integers, SequencesExt

CONSTANTS
  Sinks,    \* the addresses of the sinks
  Motes,    \* the addresses of the motes that messages come from and go to
  Window,   \* the messages one direction of a connection holds
  Pending,  \* the capacity of flowTableQueue (100)
  Backlog,  \* the capacity of bQ (1000)
  Traffic   \* bounds the messages that motes and application begin

ASSUME LinkAssumption ==
  /\ Sinks \cap Motes = {}
  /\ Window \in Nat \ {0} /\ Pending \in Nat \ {0} /\ Backlog \in Nat \ {0}
  /\ Traffic \in Nat

Nodes == Sinks \cup Motes

\* What goes down: an OPEN_PATH or another packet, to a node.  end is the far
\* end of the path; asked counts how often a rule was asked for with it.
Down == [t : {"path", "packet"}, to : Nodes, end : Nodes, asked : Nat]

\* What goes up: a request; a report or something else the controller takes note
\* of; an answer, for which a handler of the application is called.
Up == [t : {"ask"}, from : Nodes, what : Down] \cup [t : {"report", "answer"}]

Ask(n, d) == [t |-> "ask", from |-> n, what |-> [d EXCEPT !.asked = @ + 1]]
Packet(n) == [t |-> "packet", to |-> n, end |-> n, asked |-> 0]
OpenPath(n, m) == [t |-> "path", to |-> n, end |-> m, asked |-> 0]
Just(t) == [t |-> t]
None == Just("none")

Senders == {"worker", "application"}

VARIABLES
  listening,       \* the controller has opened its server socket
  observed,        \* it has registered with its adapter
  connection,      \* of each sink: how far its connection is
  clientSockets,   \* the connections that answers are written to
  toController,    \* what a connection holds, up
  toSink,          \* and down
  simulator,       \* the sink the simulator's thread writes for, and what
  listener,        \* what TcpListener has read
  flowTableQueue,
  manager,         \* what PacketManager writes
  rules,           \* the nodes a sink has a rule for
  reader,          \* where the reader of a connection is, and what it read
  changed,         \* the flags of the observables TcpServer and AdapterTcp
  bQ,
  worker,          \* alive, or what ended it
  sending,         \* of each sender: what is left to send, and its iterator
  load             \* the messages begun

controllerVars == <<listening, observed, clientSockets, reader, changed, bQ, worker, sending>>
sinkVars == <<simulator, listener, flowTableQueue, manager, rules>>
vars == <<controllerVars, sinkVars, connection, toController, toSink, load>>

TypeOK ==
  /\ listening \in BOOLEAN /\ observed \in BOOLEAN
  /\ connection \in [Sinks -> {"none", "failed", "waiting", "accepted", "read"}]
  /\ clientSockets \in Seq(Sinks)
  /\ toController \in [Sinks -> Seq(Up)]
  /\ toSink \in [Sinks -> Seq(Down)]
  /\ \A s \in Sinks : Len(toController[s]) <= Window /\ Len(toSink[s]) <= Window
  /\ simulator \in [sink : Sinks, msg : Up] \cup {None}
  /\ listener \in [Sinks -> Down \cup {None}]
  /\ flowTableQueue \in [Sinks -> Seq(Down)]
  /\ \A s \in Sinks : Len(flowTableQueue[s]) <= Pending
  /\ manager \in [Sinks -> Up \cup {None}]
  /\ rules \in [Sinks -> SUBSET Nodes]
  /\ reader \in [Sinks -> [at : {"server", "adapter", "put"}, msg : Up] \cup {[at |-> "read"]}]
  /\ changed \in [{"server", "adapter"} -> BOOLEAN]
  /\ bQ \in Seq(Up) /\ Len(bQ) <= Backlog
  /\ worker \in {"alive", "handler threw", "iterator threw"}
  /\ sending \in [Senders -> [todo : Seq(Down), at : Nat \ {0}, size : Nat]]
  /\ load \in 0 .. Traffic

NothingToSend == [todo |-> <<>>, at |-> 1, size |-> 0]

Init ==
  /\ listening = FALSE /\ observed = FALSE
  /\ connection = [s \in Sinks |-> "none"]
  /\ clientSockets = <<>>
  /\ toController = [s \in Sinks |-> <<>>]
  /\ toSink = [s \in Sinks |-> <<>>]
  /\ simulator = None
  /\ listener = [s \in Sinks |-> None]
  /\ flowTableQueue = [s \in Sinks |-> <<>>]
  /\ manager = [s \in Sinks |-> None]
  /\ rules = [s \in Sinks |-> {}]
  /\ reader = [s \in Sinks |-> [at |-> "read"]]
  /\ changed = [o \in {"server", "adapter"} |-> FALSE]
  /\ bQ = <<>>
  /\ worker = "alive"
  /\ sending = [w \in Senders |-> NothingToSend]
  /\ load = 0

------------------------------------------------------------------------------
(* The controller starts: lower.open, and then addObserver. *)

OpenServerSocket ==
  /\ ~listening
  /\ listening' = TRUE
  /\ UNCHANGED <<observed, clientSockets, reader, changed, bQ, worker, sending,
                 sinkVars, connection, toController, toSink, load>>

AddObserver ==
  /\ ~observed
  /\ observed' = TRUE
  /\ UNCHANGED <<listening, clientSockets, reader, changed, bQ, worker, sending,
                 sinkVars, connection, toController, toSink, load>>

\* TcpServer.run: accept a connection and keep it ...
Accept(s) ==
  /\ connection[s] = "waiting"
  /\ \A r \in Sinks : connection[r] # "accepted"
  /\ connection' = [connection EXCEPT ![s] = "accepted"]
  /\ clientSockets' = Append(clientSockets, s)
  /\ UNCHANGED <<listening, observed, reader, changed, bQ, worker, sending,
                 sinkVars, toController, toSink, load>>

\* ... and then start its reader.
StartReader(s) ==
  /\ connection[s] = "accepted"
  /\ connection' = [connection EXCEPT ![s] = "read"]
  /\ UNCHANGED <<controllerVars, sinkVars, toController, toSink, load>>

------------------------------------------------------------------------------
(* The sink *)

\* initSdnWise, in the thread of the simulator: the connection is made once;
\* REG_PROXY is the first message.
Connect(s) ==
  /\ connection[s] = "none" /\ simulator = None
  /\ IF listening
     THEN /\ connection' = [connection EXCEPT ![s] = "waiting"]
          /\ simulator' = [sink |-> s, msg |-> Just("report")]
     ELSE /\ connection' = [connection EXCEPT ![s] = "failed"]
          /\ UNCHANGED simulator
  /\ UNCHANGED <<controllerVars, listener, flowTableQueue, manager, rules,
                 toController, toSink, load>>

Connected(s) == connection[s] \notin {"none", "failed"}

\* What the radio may bring to s that goes up: reports and answers, and requests
\* of the motes for a way to s.
FromRadio(s) == {Just(t) : t \in {"report", "answer"}} \cup {Ask(m, Packet(s)) : m \in Motes}

\* receivedPacket, up to the write in controllerTX
RxRadio(s) ==
  /\ Connected(s) /\ simulator = None
  /\ load < Traffic /\ load' = load + 1
  /\ \E u \in FromRadio(s) : simulator' = [sink |-> s, msg |-> u]
  /\ UNCHANGED <<controllerVars, listener, flowTableQueue, manager, rules, connection,
                 toController, toSink>>

\* The write of controllerTX in the thread of the simulator
SimulatorWrites ==
  /\ simulator # None
  /\ Len(toController[simulator.sink]) < Window
  /\ toController' = [toController EXCEPT ![simulator.sink] = Append(@, simulator.msg)]
  /\ simulator' = None
  /\ UNCHANGED <<controllerVars, listener, flowTableQueue, manager, rules, connection,
                 toSink, load>>

\* TcpListener.run: read a packet ...
Listen(s) ==
  /\ listener[s] = None /\ toSink[s] # <<>>
  /\ listener' = [listener EXCEPT ![s] = Head(toSink[s])]
  /\ toSink' = [toSink EXCEPT ![s] = Tail(@)]
  /\ UNCHANGED <<controllerVars, simulator, flowTableQueue, manager, rules, connection,
                 toController, load>>

\* ... and put it into the queue.
Enqueue(s) ==
  /\ listener[s] # None /\ Len(flowTableQueue[s]) < Pending
  /\ flowTableQueue' = [flowTableQueue EXCEPT ![s] = Append(@, listener[s])]
  /\ listener' = [listener EXCEPT ![s] = None]
  /\ UNCHANGED <<controllerVars, simulator, manager, rules, connection, toController,
                 toSink, load>>

\* What PacketManager may have to write after handling d at s: an answer to
\* what is for the sink, a request when there is no rule.
Handled(s, d) ==
  IF d.to = s THEN IF d.t = "path" THEN {None}
                   ELSE {Just(t) : t \in {"report", "answer"}}
  ELSE IF d.to \in rules[s] THEN {None}
  ELSE {Ask(s, d)}

\* PacketManager.run and rxHandler, up to the write in controllerTX
ManagePacket(s) ==
  /\ manager[s] = None /\ flowTableQueue[s] # <<>>
  /\ LET d == Head(flowTableQueue[s])
     IN  /\ \E u \in Handled(s, d) : manager' = [manager EXCEPT ![s] = u]
         /\ rules' = IF d.t = "path" /\ d.to = s
                     THEN [rules EXCEPT ![s] = @ \cup {d.end}] ELSE rules
  /\ flowTableQueue' = [flowTableQueue EXCEPT ![s] = Tail(@)]
  /\ UNCHANGED <<controllerVars, simulator, listener, connection, toController, toSink, load>>

ManagerWrites(s) ==
  /\ manager[s] # None /\ Len(toController[s]) < Window
  /\ toController' = [toController EXCEPT ![s] = Append(@, manager[s])]
  /\ manager' = [manager EXCEPT ![s] = None]
  /\ UNCHANGED <<controllerVars, simulator, listener, flowTableQueue, rules, connection,
                 toSink, load>>

------------------------------------------------------------------------------
(* The reader of a connection *)

\* A mutant: the reader starts before its connection is kept.
HasReaderAtOnce(s) == connection[s] \in {"waiting", "accepted", "read"}

HasReader(s) == connection[s] = "read"

\* A mutant: notifyObservers without setChanged.
FlagsAsBefore == changed

SetChanged == [changed EXCEPT !["server"] = TRUE]

\* WorkerRunnable.run, up to setChanged of TcpServer
ReadPacket(s) ==
  /\ HasReader(s) /\ reader[s].at = "read" /\ toController[s] # <<>>
  /\ reader' = [reader EXCEPT ![s] = [at |-> "server", msg |-> Head(toController[s])]]
  /\ toController' = [toController EXCEPT ![s] = Tail(@)]
  /\ changed' = SetChanged
  /\ UNCHANGED <<listening, observed, clientSockets, bQ, worker, sending, sinkVars,
                 connection, toSink, load>>

\* A mutant: a reader ends with a message that nobody takes.
AfterDropEnded == [at |-> "ended"]

AfterDrop == [at |-> "read"]

\* notifyObservers of TcpServer, up to setChanged of AdapterTcp: one who finds
\* the flag down returns.
NotifyFromServer(s) ==
  /\ reader[s].at = "server"
  /\ reader' = [reader EXCEPT ![s] = IF changed["server"] THEN [@ EXCEPT !.at = "adapter"]
                                     ELSE AfterDrop]
  /\ changed' = [changed EXCEPT !["server"] = FALSE, !["adapter"] = @ \/ changed["server"]]
  /\ UNCHANGED <<listening, observed, clientSockets, bQ, worker, sending, sinkVars,
                 connection, toController, toSink, load>>

\* notifyObservers of AdapterTcp: the controller, if it has registered
NotifyFromAdapter(s) ==
  /\ reader[s].at = "adapter"
  /\ reader' = [reader EXCEPT ![s] = IF changed["adapter"] /\ observed
                                     THEN [@ EXCEPT !.at = "put"] ELSE AfterDrop]
  /\ changed' = [changed EXCEPT !["adapter"] = FALSE]
  /\ UNCHANGED <<listening, observed, clientSockets, bQ, worker, sending, sinkVars,
                 connection, toController, toSink, load>>

\* A mutant: offer, which does not wait for room.
RoomOrNot == TRUE

RoomInQueue == Len(bQ) < Backlog

\* Controller.update
PutPacket(s) ==
  /\ reader[s].at = "put" /\ RoomInQueue
  /\ bQ' = Append(bQ, reader[s].msg)
  /\ reader' = [reader EXCEPT ![s] = [at |-> "read"]]
  /\ UNCHANGED <<listening, observed, clientSockets, changed, worker, sending, sinkVars,
                 connection, toController, toSink, load>>

------------------------------------------------------------------------------
(* Worker and application *)

StartSending(w, ds) ==
  sending' = [sending EXCEPT ![w] = [todo |-> ds, at |-> 1, size |-> Len(clientSockets)]]

\* A mutant: the packet goes before its path.
RepliesPacketFirst(u) ==
  IF u.t = "ask" THEN {<<u.what, OpenPath(u.from, u.what.to)>>} ELSE {<<>>}

\* What managePacket may send for u: a path and then the packet it was asked
\* with, if the map holds a path; what the handler of an answer asks next.
Replies(u) ==
  CASE u.t = "ask" /\ u.from # u.what.to -> {<<>>, <<OpenPath(u.from, u.what.to), u.what>>}
    [] u.t = "answer" -> {<<>>} \cup {<<Packet(m)>> : m \in Motes}
    [] OTHER -> {<<>>}

\* Worker.run: managePacket, up to the first write
TakePacket ==
  /\ worker = "alive" /\ sending["worker"].todo = <<>> /\ bQ # <<>>
  /\ bQ' = Tail(bQ)
  /\ \/ /\ \E ds \in Replies(Head(bQ)) : StartSending("worker", ds)
        /\ UNCHANGED worker
     \/ \* the application does not know the id of the answer
        /\ Head(bQ).t = "answer"
        /\ worker' = "handler threw" /\ UNCHANGED sending
  /\ UNCHANGED <<listening, observed, clientSockets, reader, changed, sinkVars, connection,
                 toController, toSink, load>>

\* A thread of the application sends to some node.
ApplicationSends ==
  /\ sending["application"].todo = <<>>
  /\ load < Traffic /\ load' = load + 1
  /\ \E n \in Nodes : StartSending("application", <<Packet(n)>>)
  /\ UNCHANGED <<listening, observed, clientSockets, reader, changed, bQ, worker,
                 sinkVars, connection, toController, toSink>>

\* TcpServer.send: write to the next connection.
WriteNext(w) ==
  LET snd == sending[w]
      sck == clientSockets[snd.at]
  IN  /\ snd.todo # <<>> /\ snd.at <= Len(clientSockets)
      /\ snd.size = Len(clientSockets)
      /\ Len(toSink[sck]) < Window
      /\ toSink' = [toSink EXCEPT ![sck] = Append(@, Head(snd.todo))]
      /\ sending' = [sending EXCEPT ![w].at = @ + 1]
      /\ UNCHANGED <<listening, observed, clientSockets, reader, changed, bQ, worker,
                     sinkVars, connection, toController, load>>

\* All connections are written to: on to the next packet, with a new iterator.
SendNext(w) ==
  /\ sending[w].todo # <<>> /\ sending[w].at > Len(clientSockets)
  /\ StartSending(w, Tail(sending[w].todo))
  /\ UNCHANGED <<listening, observed, clientSockets, reader, changed, bQ, worker,
                 sinkVars, connection, toController, toSink, load>>

\* A connection was accepted since the iterator was made: it throws, which ends
\* the thread.  Another thread of the application may send on.
IteratorThrows(w) ==
  /\ sending[w].todo # <<>> /\ sending[w].at <= Len(clientSockets)
  /\ sending[w].size # Len(clientSockets)
  /\ sending' = [sending EXCEPT ![w] = NothingToSend]
  /\ worker' = IF w = "worker" THEN "iterator threw" ELSE worker
  /\ UNCHANGED <<listening, observed, clientSockets, reader, changed, bQ,
                 sinkVars, connection, toController, toSink, load>>

------------------------------------------------------------------------------
AcceptThread == \E s \in Sinks : Accept(s) \/ StartReader(s)

ReaderThread(s) ==
  ReadPacket(s) \/ NotifyFromServer(s) \/ NotifyFromAdapter(s) \/ PutPacket(s)

ListenerThread(s) == Listen(s) \/ Enqueue(s)

ManagerThread(s) == ManagePacket(s) \/ ManagerWrites(s)

SenderThread(w) == WriteNext(w) \/ SendNext(w) \/ IteratorThrows(w)

\* The threads run: while one of them can go on, one of them does.
Threads ==
  \/ OpenServerSocket \/ AddObserver \/ AcceptThread \/ SimulatorWrites
  \/ \E s \in Sinks : ReaderThread(s) \/ ListenerThread(s) \/ ManagerThread(s)
  \/ TakePacket
  \/ \E w \in Senders : SenderThread(w)

Next ==
  \/ Threads
  \/ \E s \in Sinks : Connect(s) \/ RxRadio(s)
  \/ ApplicationSends

Spec == Init /\ [][Next]_vars /\ WF_vars(Threads)

------------------------------------------------------------------------------
(* Properties *)

(***************************************************************************)
(* With one sink the Worker ends by nothing but an exception in the        *)
(* handling of a message: the connection is in clientSockets before its    *)
(* reader starts, so none is added while an answer is being written.       *)
(***************************************************************************)
WorkerSurvives == worker # "iterator threw"

(***************************************************************************)
(* The path goes before the packet: what comes back to a sink after a      *)
(* request finds the rule it was asked for, whatever the other threads     *)
(* send in between.  Nobody asks twice with the same packet.               *)
(***************************************************************************)
AsksOf(s) == {u \in ToSet(toController[s]) \cup {manager[s]} : u.t = "ask"}

NobodyAsksTwice == \A s \in Sinks : \A u \in AsksOf(s) : u.what.asked = 1

\* All four buffers between the two threads that write to each other are full,
\* and both wait.
LoopFull(s) ==
  /\ manager[s] # None /\ Len(toController[s]) = Window
  /\ reader[s].at = "put" /\ Len(bQ) = Backlog
  /\ sending["worker"].todo # <<>> /\ Len(toSink[s]) = Window
  /\ listener[s] # None /\ Len(flowTableQueue[s]) = Pending

(***************************************************************************)
(* A write of the simulator's thread, on which all motes wait, ends: only  *)
(* a dead Worker, or a full loop of buffers, stops it for good.            *)
(***************************************************************************)
SimulatorGoesOn ==
  simulator # None ~> simulator = None \/ worker # "alive" \/ \E s \in Sinks : LoopFull(s)

\* What a connection and its reader hold, oldest first
OnTheWay(s) ==
  (IF reader[s].at = "read" THEN <<>> ELSE <<reader[s].msg>>) \o toController[s]

(***************************************************************************)
(* With one sink, the observers and queues between its socket and the      *)
(* Worker keep the promise of Channel: nothing lost from the moment the    *)
(* controller observes its adapter, nothing out of order.                  *)
(***************************************************************************)
TheSink == CHOOSE s \in Sinks : TRUE

Way == INSTANCE Channel WITH onTheWay <- OnTheWay(TheSink), Messages <- Up

ImplementsChannel == Way!Spec

(***************************************************************************)
(* What the comment of Controller.update says: a message received from the *)
(* adapter is inserted into bQ.                                            *)
(***************************************************************************)
EveryMessageQueued ==
  [][\A s \in Sinks :
       reader[s].at = "adapter" /\ observed /\ reader'[s].at # "adapter"
         => reader'[s] = [reader[s] EXCEPT !.at = "put"]]_vars

==============================================================================
