------------------------ MODULE ControllerLinkProofs ------------------------
(***************************************************************************)
(* Theorems of ControllerLink, for any capacity of the buffers and any     *)
(* traffic; those about a single connection assume that there is one sink. *)
(***************************************************************************)
EXTENDS ControllerLink, SequenceTheorems, TLAPS

Readers == [at : {"server", "adapter", "put"}, msg : Up] \cup {[at |-> "read"]}

Sendings == [todo : Seq(Down), at : Nat \ {0}, size : Nat]

------------------------------------------------------------------------------
(* The messages that the steps make *)

LEMMA MadeMessages ==
  /\ \A n \in Nodes : Packet(n) \in Down
  /\ \A n, m \in Nodes : OpenPath(n, m) \in Down
  /\ \A n \in Nodes, d \in Down : Ask(n, d) \in Up
  /\ Just("report") \in Up /\ Just("answer") \in Up
  /\ None \notin Up
BY DEF Packet, OpenPath, Ask, Just, None, Up, Down

LEMMA FromRadioTyped ==
  ASSUME NEW s \in Sinks
  PROVE  FromRadio(s) \subseteq Up
BY MadeMessages DEF FromRadio, Nodes

LEMMA HandledTyped ==
  ASSUME NEW s \in Sinks, NEW d \in Down
  PROVE  Handled(s, d) \subseteq Up \cup {None}
BY MadeMessages DEF Handled, Nodes

LEMMA OneMessage ==
  ASSUME NEW S, NEW d \in S
  PROVE  <<d>> \in Seq(S)
OBVIOUS

LEMMA RepliesTyped ==
  ASSUME NEW u \in Up
  PROVE  Replies(u) \subseteq Seq(Down)
<1>1. <<>> \in Seq(Down)
  OBVIOUS
<1>2. ASSUME u.t = "ask"
      PROVE  <<OpenPath(u.from, u.what.to), u.what>> \in Seq(Down)
  <2>1. u.from \in Nodes /\ u.what \in Down /\ u.what.to \in Nodes
    BY <1>2 DEF Up, Down
  <2>2. OpenPath(u.from, u.what.to) \in Down
    BY <2>1, MadeMessages
  <2>3. QED BY <2>1, <2>2
<1>3. \A m \in Motes : <<Packet(m)>> \in Seq(Down)
  BY MadeMessages, OneMessage DEF Nodes
<1>4. QED BY <1>1, <1>2, <1>3 DEF Replies

------------------------------------------------------------------------------
(* Sequences *)

LEMMA Shortened ==
  ASSUME NEW S, NEW q \in Seq(S), q # <<>>
  PROVE  /\ Head(q) \in S /\ Tail(q) \in Seq(S)
         /\ Len(q) \in Nat /\ Len(Tail(q)) = Len(q) - 1
BY HeadTailProperties, LenProperties

LEMMA Lengthened ==
  ASSUME NEW S, NEW q \in Seq(S), NEW e \in S
  PROVE  /\ Append(q, e) \in Seq(S)
         /\ Len(q) \in Nat /\ Len(Append(q, e)) = Len(q) + 1
BY AppendProperties, LenProperties

\* A bounded queue of each sink stays bounded ...
LEMMA QueueTaken ==
  ASSUME NEW S, NEW q \in [Sinks -> Seq(S)], NEW B \in Nat,
         \A r \in Sinks : Len(q[r]) <= B,
         NEW s \in Sinks, q[s] # <<>>
  PROVE  /\ Head(q[s]) \in S
         /\ [q EXCEPT ![s] = Tail(@)] \in [Sinks -> Seq(S)]
         /\ \A r \in Sinks : Len([q EXCEPT ![s] = Tail(@)][r]) <= B
<1>1. q[s] \in Seq(S)
  OBVIOUS
<1>2. Head(q[s]) \in S /\ Tail(q[s]) \in Seq(S) /\ Len(Tail(q[s])) <= B
  BY <1>1, Shortened
<1>3. QED BY <1>2

LEMMA QueuePut ==
  ASSUME NEW S, NEW q \in [Sinks -> Seq(S)], NEW B \in Nat,
         \A r \in Sinks : Len(q[r]) <= B,
         NEW s \in Sinks, NEW e \in S, Len(q[s]) < B
  PROVE  /\ [q EXCEPT ![s] = Append(@, e)] \in [Sinks -> Seq(S)]
         /\ \A r \in Sinks : Len([q EXCEPT ![s] = Append(@, e)][r]) <= B
<1>1. q[s] \in Seq(S)
  OBVIOUS
<1>2. Append(q[s], e) \in Seq(S) /\ Len(Append(q[s], e)) <= B
  BY <1>1, Lengthened
<1>3. QED BY <1>2

------------------------------------------------------------------------------
(* Type correctness *)

LEMMA InitTyped == Init => TypeOK
<1> SUFFICES ASSUME Init PROVE TypeOK
  OBVIOUS
<1>1. <<>> \in Seq(Up) /\ <<>> \in Seq(Down) /\ <<>> \in Seq(Sinks) /\ Len(<<>>) = 0
  OBVIOUS
<1>2. NothingToSend \in Sendings
  BY <1>1 DEF NothingToSend, Sendings
<1>3. 0 <= Window /\ 0 <= Pending /\ 0 <= Backlog /\ 0 \in 0 .. Traffic
  BY LinkAssumption
<1>4. QED BY <1>1, <1>2, <1>3 DEF Init, TypeOK, Sendings

\* The steps that only the controller's thread of connections takes
LEMMA ConnectionsTyped ==
  ASSUME TypeOK,
         \/ OpenServerSocket \/ AddObserver
         \/ \E s \in Sinks : Accept(s) \/ StartReader(s) \/ Connect(s)
  PROVE  TypeOK'
<1>1. CASE OpenServerSocket
  BY <1>1 DEF TypeOK, OpenServerSocket, sinkVars
<1>2. CASE AddObserver
  BY <1>2 DEF TypeOK, AddObserver, sinkVars
<1>3. ASSUME NEW s \in Sinks, Accept(s) PROVE TypeOK'
  <2>1. Append(clientSockets, s) \in Seq(Sinks)
    BY Lengthened DEF TypeOK
  <2>2. QED BY <1>3, <2>1 DEF TypeOK, Accept, sinkVars
<1>4. ASSUME NEW s \in Sinks, StartReader(s) PROVE TypeOK'
  BY <1>4 DEF TypeOK, StartReader, sinkVars, controllerVars
<1>5. ASSUME NEW s \in Sinks, Connect(s) PROVE TypeOK'
  <2>1. [sink |-> s, msg |-> Just("report")] \in [sink : Sinks, msg : Up]
    BY MadeMessages
  <2>2. QED BY <1>5, <2>1 DEF TypeOK, Connect, controllerVars
<1>6. QED BY <1>1, <1>2, <1>3, <1>4, <1>5

LEMMA SinksTyped ==
  ASSUME TypeOK,
         \/ SimulatorWrites
         \/ \E s \in Sinks : RxRadio(s) \/ ListenerThread(s) \/ ManagerThread(s)
  PROVE  TypeOK'
<1> USE LinkAssumption
<1>1. CASE SimulatorWrites
  <2>1. simulator.sink \in Sinks /\ simulator.msg \in Up
    BY <1>1 DEF SimulatorWrites, TypeOK
  <2>2. /\ toController' \in [Sinks -> Seq(Up)]
        /\ \A r \in Sinks : Len(toController'[r]) <= Window
    <3>1. /\ toController' = [toController EXCEPT ![simulator.sink] = Append(@, simulator.msg)]
          /\ Len(toController[simulator.sink]) < Window
      BY <1>1 DEF SimulatorWrites
    <3>2. toController \in [Sinks -> Seq(Up)] /\ \A r \in Sinks : Len(toController[r]) <= Window
      BY DEF TypeOK
    <3>3. QED BY <2>1, <3>1, <3>2, QueuePut
  <2>3. QED BY <1>1, <2>2 DEF TypeOK, SimulatorWrites, controllerVars
<1>2. ASSUME NEW s \in Sinks, RxRadio(s) PROVE TypeOK'
  <2>1. simulator' \in [sink : Sinks, msg : Up]
    BY <1>2, FromRadioTyped DEF RxRadio
  <2>2. load' \in 0 .. Traffic
    <3>1. load < Traffic /\ load' = load + 1 /\ load \in 0 .. Traffic
      BY <1>2 DEF RxRadio, TypeOK
    <3>2. Traffic \in Nat
      OBVIOUS
    <3>3. QED BY ONLY <3>1, <3>2
  <2>3. QED BY <1>2, <2>1, <2>2 DEF TypeOK, RxRadio, controllerVars
<1>3. ASSUME NEW s \in Sinks, Listen(s) PROVE TypeOK'
  <2>1. /\ Head(toSink[s]) \in Down
        /\ toSink' \in [Sinks -> Seq(Down)]
        /\ \A r \in Sinks : Len(toSink'[r]) <= Window
    BY <1>3, QueueTaken DEF Listen, TypeOK
  <2>2. listener' \in [Sinks -> Down \cup {None}]
    BY <1>3, <2>1 DEF Listen, TypeOK
  <2>3. QED BY <1>3, <2>1, <2>2 DEF TypeOK, Listen, controllerVars
<1>4. ASSUME NEW s \in Sinks, Enqueue(s) PROVE TypeOK'
  <2>1. listener[s] \in Down
    BY <1>4 DEF Enqueue, TypeOK
  <2>2. /\ flowTableQueue' \in [Sinks -> Seq(Down)]
        /\ \A r \in Sinks : Len(flowTableQueue'[r]) <= Pending
    BY <1>4, <2>1, QueuePut DEF Enqueue, TypeOK
  <2>3. listener' \in [Sinks -> Down \cup {None}]
    BY <1>4 DEF Enqueue, TypeOK
  <2>4. QED BY <1>4, <2>2, <2>3 DEF TypeOK, Enqueue, controllerVars
<1>5. ASSUME NEW s \in Sinks, ManagePacket(s) PROVE TypeOK'
  <2> DEFINE d == Head(flowTableQueue[s])
  <2>1. /\ d \in Down
        /\ flowTableQueue' \in [Sinks -> Seq(Down)]
        /\ \A r \in Sinks : Len(flowTableQueue'[r]) <= Pending
    BY <1>5, QueueTaken DEF ManagePacket, TypeOK
  <2>2. \E u \in Handled(s, d) : manager' = [manager EXCEPT ![s] = u]
    BY <1>5 DEF ManagePacket
  <2>3. rules' \in [Sinks -> SUBSET Nodes]
    <3>1. d.end \in Nodes
      BY <2>1 DEF Down
    <3>2. rules' = IF d.t = "path" /\ d.to = s THEN [rules EXCEPT ![s] = @ \cup {d.end}] ELSE rules
      BY <1>5 DEF ManagePacket
    <3> HIDE DEF d
    <3>3. QED BY <3>1, <3>2 DEF TypeOK
  <2> HIDE DEF d
  <2>4. manager' \in [Sinks -> Up \cup {None}]
    <3>1. PICK u \in Handled(s, d) : manager' = [manager EXCEPT ![s] = u]
      BY <2>2
    <3>2. u \in Up \cup {None}
      BY <2>1, HandledTyped
    <3>3. QED BY <3>1, <3>2 DEF TypeOK
  <2>5. QED BY <1>5, <2>1, <2>3, <2>4 DEF TypeOK, ManagePacket, controllerVars
<1>6. ASSUME NEW s \in Sinks, ManagerWrites(s) PROVE TypeOK'
  <2>1. manager[s] \in Up
    BY <1>6 DEF ManagerWrites, TypeOK
  <2>2. /\ toController' \in [Sinks -> Seq(Up)]
        /\ \A r \in Sinks : Len(toController'[r]) <= Window
    <3>1. /\ toController' = [toController EXCEPT ![s] = Append(@, manager[s])]
          /\ Len(toController[s]) < Window
      BY <1>6 DEF ManagerWrites
    <3>2. toController \in [Sinks -> Seq(Up)] /\ \A r \in Sinks : Len(toController[r]) <= Window
      BY DEF TypeOK
    <3>3. QED BY <2>1, <3>1, <3>2, QueuePut
  <2>3. manager' \in [Sinks -> Up \cup {None}]
    BY <1>6 DEF ManagerWrites, TypeOK
  <2>4. QED BY <1>6, <2>2, <2>3 DEF TypeOK, ManagerWrites, controllerVars
<1>7. QED BY <1>1, <1>2, <1>3, <1>4, <1>5, <1>6 DEF ListenerThread, ManagerThread

LEMMA ReadersTyped ==
  ASSUME TypeOK, NEW s \in Sinks, ReaderThread(s)
  PROVE  TypeOK'
<1> USE LinkAssumption
<1>1. [at |-> "read"] \in Readers
  BY DEF Readers
<1>2. reader \in [Sinks -> Readers]
  BY DEF TypeOK, Readers
<1>3. \A r \in Readers, a \in {"adapter", "put"} :
         r.at # "read" => r.msg \in Up /\ [r EXCEPT !.at = a] \in Readers
  BY DEF Readers
<1>4. CASE ReadPacket(s)
  <2>1. /\ Head(toController[s]) \in Up
        /\ toController' \in [Sinks -> Seq(Up)]
        /\ \A r \in Sinks : Len(toController'[r]) <= Window
    BY <1>4, QueueTaken DEF ReadPacket, TypeOK
  <2>2. [at |-> "server", msg |-> Head(toController[s])] \in Readers
    BY <2>1 DEF Readers
  <2>3. reader' \in [Sinks -> Readers]
    BY <1>2, <1>4, <2>2 DEF ReadPacket
  <2>4. changed' \in [{"server", "adapter"} -> BOOLEAN]
    BY <1>4 DEF ReadPacket, SetChanged, TypeOK
  <2>5. QED BY <1>4, <2>1, <2>3, <2>4 DEF TypeOK, Readers, ReadPacket, sinkVars
<1>5. CASE NotifyFromServer(s)
  <2>1. reader' \in [Sinks -> Readers]
    BY <1>1, <1>2, <1>3, <1>5 DEF NotifyFromServer, AfterDrop
  <2>2. changed' \in [{"server", "adapter"} -> BOOLEAN]
    <3>1. changed["server"] \in BOOLEAN /\ changed["adapter"] \in BOOLEAN
      BY DEF TypeOK
    <3> DEFINE c == changed["adapter"] \/ changed["server"]
    <3>2. changed' = [changed EXCEPT !["server"] = FALSE, !["adapter"] = c]
      BY <1>5 DEF NotifyFromServer
    <3>3. c \in BOOLEAN
      BY <3>1
    <3> HIDE DEF c
    <3>4. QED BY <3>2, <3>3 DEF TypeOK
  <2>3. QED BY <1>5, <2>1, <2>2 DEF TypeOK, Readers, NotifyFromServer, sinkVars
<1>6. CASE NotifyFromAdapter(s)
  <2>1. reader' \in [Sinks -> Readers]
    BY <1>1, <1>2, <1>3, <1>6 DEF NotifyFromAdapter, AfterDrop
  <2>2. changed' \in [{"server", "adapter"} -> BOOLEAN]
    BY <1>6 DEF NotifyFromAdapter, TypeOK
  <2>3. QED BY <1>6, <2>1, <2>2 DEF TypeOK, Readers, NotifyFromAdapter, sinkVars
<1>7. CASE PutPacket(s)
  <2>1. reader[s].msg \in Up
    BY <1>2, <1>3, <1>7 DEF PutPacket
  <2>2. bQ' \in Seq(Up) /\ Len(bQ') <= Backlog
    <3>1. bQ' = Append(bQ, reader[s].msg) /\ Len(bQ) < Backlog /\ bQ \in Seq(Up)
      BY <1>7 DEF PutPacket, RoomInQueue, TypeOK
    <3>2. QED BY <2>1, <3>1, Lengthened
  <2>3. reader' \in [Sinks -> Readers]
    BY <1>1, <1>2, <1>7 DEF PutPacket
  <2>4. QED BY <1>7, <2>2, <2>3 DEF TypeOK, Readers, PutPacket, sinkVars
<1>8. QED BY <1>4, <1>5, <1>6, <1>7 DEF ReaderThread

LEMMA SendingStarted ==
  ASSUME TypeOK, NEW w \in Senders, NEW ds \in Seq(Down), StartSending(w, ds)
  PROVE  sending' \in [Senders -> Sendings]
<1>1. Len(clientSockets) \in Nat
  BY LenProperties DEF TypeOK
<1>2. [todo |-> ds, at |-> 1, size |-> Len(clientSockets)] \in Sendings
  BY <1>1 DEF Sendings
<1>3. QED BY <1>2 DEF StartSending, TypeOK, Sendings

LEMMA SendersTyped ==
  ASSUME TypeOK, NEW w \in Senders, SenderThread(w)
  PROVE  TypeOK'
<1> USE LinkAssumption
<1>1. sending \in [Senders -> Sendings]
  BY DEF TypeOK, Sendings
<1>2. CASE WriteNext(w)
  <2> DEFINE s == clientSockets[sending[w].at]
             d == Head(sending[w].todo)
  <2>1. s \in Sinks
    <3>1. sending[w].at \in Nat \ {0} /\ sending[w].at <= Len(clientSockets)
      BY <1>1, <1>2 DEF WriteNext, Sendings
    <3>2. clientSockets \in Seq(Sinks) /\ Len(clientSockets) \in Nat
      BY LenProperties DEF TypeOK
    <3>3. QED BY <3>1, <3>2, ElementOfSeq
  <2>2. d \in Down
    <3>1. sending[w].todo \in Seq(Down) /\ sending[w].todo # <<>>
      BY <1>1, <1>2 DEF WriteNext, Sendings
    <3>2. QED BY <3>1, Shortened
  <2>3. /\ toSink' \in [Sinks -> Seq(Down)]
        /\ \A r \in Sinks : Len(toSink'[r]) <= Window
    <3>1. toSink' = [toSink EXCEPT ![s] = Append(@, d)] /\ Len(toSink[s]) < Window
      BY <1>2 DEF WriteNext
    <3>2. toSink \in [Sinks -> Seq(Down)] /\ \A r \in Sinks : Len(toSink[r]) <= Window
      BY DEF TypeOK
    <3> HIDE DEF s, d
    <3>3. QED BY <2>1, <2>2, <3>1, <3>2, QueuePut
  <2> HIDE DEF s, d
  <2>4. sending' \in [Senders -> Sendings]
    <3>1. sending[w].at \in Nat \ {0}
      BY <1>1 DEF Sendings
    <3>2. sending' = [sending EXCEPT ![w].at = @ + 1]
      BY <1>2 DEF WriteNext
    <3>3. [sending[w] EXCEPT !.at = @ + 1] \in Sendings
      <4>1. sending[w].at + 1 \in Nat \ {0}
        BY <3>1
      <4>2. \A x \in Sendings, n \in Nat \ {0} : [x EXCEPT !.at = n] \in Sendings
        BY DEF Sendings
      <4>3. QED BY <1>1, <4>1, <4>2
    <3>4. QED BY <1>1, <3>2, <3>3
  <2>5. QED BY <1>2, <2>3, <2>4 DEF TypeOK, Sendings, WriteNext, sinkVars
<1>3. CASE SendNext(w)
  <2>1. Tail(sending[w].todo) \in Seq(Down)
    <3>1. sending[w].todo \in Seq(Down) /\ sending[w].todo # <<>>
      BY <1>1, <1>3 DEF SendNext, Sendings
    <3>2. QED BY <3>1, Shortened
  <2>2. sending' \in [Senders -> Sendings]
    BY <1>3, <2>1, SendingStarted DEF SendNext
  <2>3. QED BY <1>3, <2>2 DEF TypeOK, Sendings, SendNext, sinkVars
<1>4. CASE IteratorThrows(w)
  <2>1. NothingToSend \in Sendings
    BY EmptySeq DEF NothingToSend, Sendings
  <2>2. sending' \in [Senders -> Sendings]
    BY <1>1, <1>4, <2>1 DEF IteratorThrows
  <2>3. QED BY <1>4, <2>2 DEF TypeOK, Sendings, IteratorThrows, sinkVars
<1>5. QED BY <1>2, <1>3, <1>4 DEF SenderThread

LEMMA BeginnersTyped ==
  ASSUME TypeOK, TakePacket \/ ApplicationSends
  PROVE  TypeOK'
<1> USE LinkAssumption
<1>1. CASE TakePacket
  <2>1. Head(bQ) \in Up /\ bQ' \in Seq(Up) /\ Len(bQ') <= Backlog
    <3>1. bQ \in Seq(Up) /\ Len(bQ) <= Backlog /\ bQ # <<>> /\ bQ' = Tail(bQ)
      BY <1>1 DEF TakePacket, TypeOK
    <3>2. QED BY <3>1, Shortened
  <2>2. sending' \in [Senders -> Sendings]
    <3>1. CASE \E ds \in Replies(Head(bQ)) : StartSending("worker", ds)
      <4>1. PICK ds \in Replies(Head(bQ)) : StartSending("worker", ds)
        BY <3>1
      <4>2. ds \in Seq(Down)
        BY <2>1, RepliesTyped
      <4>3. QED BY <4>1, <4>2, SendingStarted DEF Senders
    <3>2. CASE UNCHANGED sending
      BY <3>2 DEF TypeOK, Sendings
    <3>3. QED BY <1>1, <3>1, <3>2 DEF TakePacket
  <2>3. worker' \in {"alive", "handler threw", "iterator threw"}
    BY <1>1 DEF TakePacket, TypeOK
  <2>4. /\ UNCHANGED <<listening, observed, clientSockets, reader, changed>>
        /\ UNCHANGED <<simulator, listener, flowTableQueue, manager, rules>>
        /\ UNCHANGED <<connection, toController, toSink, load>>
    BY <1>1 DEF TakePacket, sinkVars
  <2>5. QED BY <2>1, <2>2, <2>3, <2>4 DEF TypeOK, Sendings
<1>2. CASE ApplicationSends
  <2>1. PICK n \in Nodes : StartSending("application", <<Packet(n)>>)
    BY <1>2 DEF ApplicationSends
  <2>2. <<Packet(n)>> \in Seq(Down)
    BY MadeMessages, OneMessage
  <2>3. sending' \in [Senders -> Sendings]
    BY <2>1, <2>2, SendingStarted DEF Senders
  <2>4. load' \in 0 .. Traffic
    <3>1. load < Traffic /\ load' = load + 1 /\ load \in 0 .. Traffic
      BY <1>2 DEF ApplicationSends, TypeOK
    <3>2. QED BY ONLY <3>1, LinkAssumption
  <2>5. /\ UNCHANGED <<listening, observed, clientSockets, reader, changed, bQ, worker>>
        /\ UNCHANGED <<simulator, listener, flowTableQueue, manager, rules>>
        /\ UNCHANGED <<connection, toController, toSink>>
    BY <1>2 DEF ApplicationSends, sinkVars
  <2>6. QED BY <2>3, <2>4, <2>5 DEF TypeOK, Sendings
<1>3. QED BY <1>1, <1>2

LEMMA StepTyped == TypeOK /\ [Next]_vars => TypeOK'
<1> SUFFICES ASSUME TypeOK, [Next]_vars PROVE TypeOK'
  OBVIOUS
<1>1. CASE Next
  BY <1>1, ConnectionsTyped, SinksTyped, ReadersTyped, SendersTyped, BeginnersTyped
  DEF Next, Threads, AcceptThread
<1>2. CASE UNCHANGED vars
  BY <1>2 DEF TypeOK, vars, controllerVars, sinkVars
<1>3. QED BY <1>1, <1>2

(***************************************************************************)
(* The buffers on the way never hold more than they have room for, and     *)
(* nothing is in them but messages, for any number of sinks and motes.     *)
(***************************************************************************)
THEOREM TypeCorrect == Spec => []TypeOK
<1>1. QED BY InitTyped, StepTyped, PTL DEF Spec

------------------------------------------------------------------------------
(* One connection *)

\* The connection is in clientSockets, and no other is, once it is accepted.
SocketKept ==
  clientSockets = IF connection[TheSink] \in {"accepted", "read"} THEN <<TheSink>> ELSE <<>>

\* Its reader reads, and the Worker gets messages, only after that: no
\* connection can be accepted while the Worker writes.
ReaderStarted ==
  /\ connection[TheSink] # "read" => reader[TheSink].at = "read"
  /\ bQ # <<>> \/ sending["worker"].todo # <<>> => connection[TheSink] = "read"
  /\ sending["worker"].todo # <<>> => sending["worker"].size = 1

\* An observable is marked as changed while its only reader is about to notify.
FlagsUp ==
  /\ changed["server"] <=> reader[TheSink].at = "server"
  /\ changed["adapter"] <=> reader[TheSink].at = "adapter"

(***************************************************************************)
(* Neither WorkerSurvives nor the promise of Channel is inductive alone:   *)
(* that no iterator throws needs the order of accept, start and read, and  *)
(* that no message is dropped needs the flags of the observables.          *)
(***************************************************************************)
LinkInv == TypeOK /\ SocketKept /\ ReaderStarted /\ FlagsUp /\ WorkerSurvives

LEMMA TheOnlySink ==
  ASSUME NEW k, Sinks = {k}
  PROVE  TheSink = k
BY DEF TheSink

LEMMA InitLinked ==
  ASSUME NEW k, Sinks = {k}, Init
  PROVE  LinkInv
<1> USE TheOnlySink
<1>1. TypeOK
  BY InitTyped
<1>2. SocketKept
  BY DEF Init, SocketKept
<1>3. ReaderStarted
  BY DEF Init, ReaderStarted, Senders, NothingToSend
<1>4. FlagsUp
  BY DEF Init, FlagsUp
<1>5. WorkerSurvives
  BY DEF Init, WorkerSurvives
<1>6. QED BY <1>1, <1>2, <1>3, <1>4, <1>5 DEF LinkInv

LEMMA SocketsStay ==
  ASSUME LinkInv, NEW k, Sinks = {k}, Next
  PROVE  SocketKept' /\ (clientSockets' # clientSockets => connection[TheSink] = "waiting")
<1> USE TheOnlySink
<1>1. CASE UNCHANGED <<clientSockets, connection>>
  BY <1>1 DEF LinkInv, SocketKept
<1>2. ASSUME NEW s \in Sinks, Accept(s) PROVE SocketKept' /\ connection[TheSink] = "waiting"
  <2>1. connection[k] = "waiting" /\ s = k /\ connection'[k] = "accepted"
    BY <1>2 DEF Accept, LinkInv, TypeOK
  <2>2. clientSockets = <<>>
    BY <2>1 DEF LinkInv, SocketKept
  <2>3. clientSockets' = <<k>>
    BY <1>2, <2>1, <2>2 DEF Accept
  <2>4. QED BY <2>1, <2>3 DEF SocketKept
<1>3. ASSUME NEW s \in Sinks, StartReader(s)
      PROVE  SocketKept' /\ clientSockets' = clientSockets
  BY <1>3 DEF StartReader, SocketKept, LinkInv, TypeOK, controllerVars
<1>4. ASSUME NEW s \in Sinks, Connect(s)
      PROVE  SocketKept' /\ clientSockets' = clientSockets
  BY <1>4 DEF Connect, SocketKept, LinkInv, TypeOK, controllerVars
<1>5. QED
  BY <1>1, <1>2, <1>3, <1>4
  DEF Next, Threads, AcceptThread, ReaderThread, ListenerThread, ManagerThread, SenderThread,
      OpenServerSocket, AddObserver, SimulatorWrites, RxRadio, Listen, Enqueue, ManagePacket,
      ManagerWrites, ReadPacket, NotifyFromServer, NotifyFromAdapter, PutPacket, TakePacket,
      WriteNext, SendNext, IteratorThrows, ApplicationSends, controllerVars

\* What neither moves the reader nor starts the Worker leaves the rest as it is.
LEMMA OthersLinked ==
  ASSUME LinkInv, UNCHANGED <<reader, changed, bQ, worker>>,
         connection'[TheSink] = connection[TheSink],
         sending'["worker"].todo = sending["worker"].todo,
         sending'["worker"].size = sending["worker"].size
  PROVE  FlagsUp' /\ ReaderStarted' /\ WorkerSurvives'
BY DEF LinkInv, FlagsUp, ReaderStarted, WorkerSurvives

\* Once the connection is read, the iterator counts one connection.
LEMMA OneToWrite ==
  ASSUME LinkInv, connection[TheSink] = "read"
  PROVE  Len(clientSockets) = 1
BY DEF LinkInv, SocketKept

LEMMA ConnectionsLinked ==
  ASSUME LinkInv, NEW k, Sinks = {k},
         \E s \in Sinks : Accept(s) \/ StartReader(s) \/ Connect(s)
  PROVE  FlagsUp' /\ ReaderStarted' /\ WorkerSurvives'
<1>1. UNCHANGED <<reader, changed, bQ, worker, sending>>
  BY DEF Accept, StartReader, Connect, controllerVars
<1>2. connection[k] = "read" => connection'[k] = "read"
  BY DEF Accept, StartReader, Connect, LinkInv, TypeOK
<1>3. QED
  BY <1>1, <1>2, TheOnlySink DEF LinkInv, FlagsUp, ReaderStarted, WorkerSurvives

LEMMA ReadersLinked ==
  ASSUME LinkInv, NEW k, Sinks = {k}, ReaderThread(k)
  PROVE  FlagsUp' /\ ReaderStarted' /\ WorkerSurvives'
<1>1. UNCHANGED <<connection, sending, worker>>
  BY DEF ReaderThread, ReadPacket, NotifyFromServer, NotifyFromAdapter, PutPacket
<1>2. connection[k] = "read"
  BY TheOnlySink
  DEF LinkInv, ReaderStarted, ReaderThread, ReadPacket, HasReader, NotifyFromServer,
      NotifyFromAdapter, PutPacket
<1>3. ReaderStarted'
  BY <1>1, <1>2, TheOnlySink DEF LinkInv, ReaderStarted
<1>4. WorkerSurvives'
  BY <1>1 DEF LinkInv, WorkerSurvives
<1>5. /\ reader \in [Sinks -> Readers] /\ changed \in [{"server", "adapter"} -> BOOLEAN]
      /\ changed["server"] <=> reader[k].at = "server"
      /\ changed["adapter"] <=> reader[k].at = "adapter"
  BY TheOnlySink DEF LinkInv, FlagsUp, TypeOK, Readers
<1>6. (changed'["server"] <=> reader'[k].at = "server")
      /\ (changed'["adapter"] <=> reader'[k].at = "adapter")
  <2>1. CASE ReadPacket(k)
    BY <1>5, <2>1 DEF ReadPacket, SetChanged
  <2>2. CASE NotifyFromServer(k)
    <3>1. changed["server"] /\ ~changed["adapter"] /\ reader[k].at = "server"
      BY <1>5, <2>2 DEF NotifyFromServer
    <3>2. reader' = [reader EXCEPT ![k] = [@ EXCEPT !.at = "adapter"]]
      BY <2>2, <3>1 DEF NotifyFromServer
    <3>3. reader'[k].at = "adapter"
      BY <1>5, <3>1, <3>2 DEF Readers
    <3>4. ~changed'["server"] /\ changed'["adapter"]
      BY <1>5, <2>2, <3>1 DEF NotifyFromServer
    <3>5. QED BY <3>3, <3>4
  <2>3. CASE NotifyFromAdapter(k)
    <3>1. reader'[k].at \in {"read", "put"}
      BY <1>5, <2>3 DEF NotifyFromAdapter, AfterDrop, Readers
    <3>2. ~changed["server"]
      BY <1>5, <2>3 DEF NotifyFromAdapter
    <3>3. changed' = [changed EXCEPT !["adapter"] = FALSE]
      BY <2>3 DEF NotifyFromAdapter
    <3>4. ~changed'["server"] /\ ~changed'["adapter"]
      BY <1>5, <3>2, <3>3
    <3>5. QED BY <3>1, <3>4
  <2>4. CASE PutPacket(k)
    BY <1>5, <2>4 DEF PutPacket
  <2>5. QED BY <2>1, <2>2, <2>3, <2>4 DEF ReaderThread
<1>7. QED BY <1>3, <1>4, <1>6, TheOnlySink DEF FlagsUp

LEMMA WorkerLinked ==
  ASSUME LinkInv, NEW k, Sinks = {k}, TakePacket \/ ApplicationSends
  PROVE  FlagsUp' /\ ReaderStarted' /\ WorkerSurvives'
<1>1. sending \in [Senders -> Sendings] /\ "worker" \in Senders
  BY DEF LinkInv, TypeOK, Sendings, Senders
<1>2. CASE TakePacket
  <2>1. UNCHANGED <<connection, reader, changed>> /\ worker' # "iterator threw"
    BY <1>2 DEF TakePacket
  <2>2. connection[TheSink] = "read"
    BY <1>2 DEF TakePacket, LinkInv, ReaderStarted
  <2>3. sending'["worker"].todo # <<>> => sending'["worker"].size = 1
    <3>1. CASE \E ds \in Replies(Head(bQ)) : StartSending("worker", ds)
      BY <1>1, <2>2, <3>1, OneToWrite DEF StartSending
    <3>2. CASE UNCHANGED sending /\ sending["worker"].todo = <<>>
      BY <3>2
    <3>3. QED BY <1>2, <3>1, <3>2 DEF TakePacket
  <2>4. QED
    BY <2>1, <2>2, <2>3 DEF LinkInv, FlagsUp, ReaderStarted, WorkerSurvives
<1>3. CASE ApplicationSends
  <2>1. UNCHANGED <<connection, reader, changed, bQ, worker>>
    BY <1>3 DEF ApplicationSends
  <2>2. sending'["worker"] = sending["worker"]
    BY <1>1, <1>3 DEF ApplicationSends, StartSending
  <2>3. QED BY <2>1, <2>2, OthersLinked
<1>4. QED BY <1>2, <1>3

LEMMA SendersLinked ==
  ASSUME LinkInv, NEW k, Sinks = {k}, NEW w \in Senders, SenderThread(w)
  PROVE  FlagsUp' /\ ReaderStarted' /\ WorkerSurvives'
<1>1. sending \in [Senders -> Sendings] /\ "worker" \in Senders
  BY DEF LinkInv, TypeOK, Sendings, Senders
<1>2. UNCHANGED <<connection, reader, changed, bQ>>
  BY DEF SenderThread, WriteNext, SendNext, IteratorThrows
<1>3. w = "worker" /\ sending[w].todo # <<>> =>
         connection[TheSink] = "read" /\ sending[w].size = 1 /\ Len(clientSockets) = 1
  BY OneToWrite DEF LinkInv, ReaderStarted
<1>4. CASE WriteNext(w)
  <2>1. sending' = [sending EXCEPT ![w].at = @ + 1] /\ UNCHANGED worker
    BY <1>4 DEF WriteNext
  <2>2. /\ sending'["worker"].todo = sending["worker"].todo
        /\ sending'["worker"].size = sending["worker"].size
    BY <1>1, <2>1 DEF Sendings
  <2>3. QED BY <1>2, <2>1, <2>2, OthersLinked
<1>5. CASE SendNext(w)
  <2>1. UNCHANGED worker
    BY <1>5 DEF SendNext
  <2>2. CASE w = "worker"
    <3>1. sending'["worker"].size = 1 /\ connection[TheSink] = "read"
      BY <1>1, <1>3, <1>5, <2>2 DEF SendNext, StartSending
    <3>2. QED BY <1>2, <2>1, <3>1 DEF LinkInv, FlagsUp, ReaderStarted, WorkerSurvives
  <2>3. CASE w # "worker"
    <3>1. sending'["worker"] = sending["worker"]
      BY <1>1, <1>5, <2>3 DEF SendNext, StartSending
    <3>2. QED BY <1>2, <2>1, <3>1, OthersLinked
  <2>4. QED BY <2>2, <2>3
<1>6. CASE IteratorThrows(w)
  <2>1. w # "worker"
    BY <1>3, <1>6 DEF IteratorThrows
  <2>2. UNCHANGED worker /\ sending'["worker"] = sending["worker"]
    BY <1>1, <1>6, <2>1 DEF IteratorThrows
  <2>3. QED BY <1>2, <2>2, OthersLinked
<1>7. QED BY <1>4, <1>5, <1>6 DEF SenderThread

LEMMA StepLinked ==
  ASSUME NEW k, Sinks = {k}
  PROVE  LinkInv /\ [Next]_vars => LinkInv'
<1> SUFFICES ASSUME LinkInv, [Next]_vars PROVE LinkInv'
  OBVIOUS
<1>1. TypeOK'
  BY StepTyped DEF LinkInv
<1>2. CASE Next
  <2>1. SocketKept'
    BY <1>2, SocketsStay
  <2>2. FlagsUp' /\ ReaderStarted' /\ WorkerSurvives'
    <3>1. CASE \/ OpenServerSocket \/ AddObserver \/ SimulatorWrites
               \/ \E s \in Sinks : ListenerThread(s) \/ ManagerThread(s) \/ RxRadio(s)
      <4>1. UNCHANGED <<reader, changed, bQ, worker, connection, sending>>
        BY <3>1
        DEF OpenServerSocket, AddObserver, SimulatorWrites, ListenerThread, Listen, Enqueue,
            ManagerThread, ManagePacket, ManagerWrites, RxRadio, controllerVars
      <4>2. QED BY <4>1, OthersLinked
    <3>2. CASE \E s \in Sinks : Accept(s) \/ StartReader(s) \/ Connect(s)
      BY <3>2, ConnectionsLinked
    <3>3. CASE \E s \in Sinks : ReaderThread(s)
      BY <3>3, ReadersLinked
    <3>4. CASE TakePacket \/ ApplicationSends
      BY <3>4, WorkerLinked
    <3>5. CASE \E w \in Senders : SenderThread(w)
      BY <3>5, SendersLinked
    <3>6. QED BY <1>2, <3>1, <3>2, <3>3, <3>4, <3>5 DEF Next, Threads, AcceptThread
  <2>3. QED BY <1>1, <2>1, <2>2 DEF LinkInv
<1>3. CASE UNCHANGED vars
  BY <1>1, <1>3
  DEF LinkInv, SocketKept, ReaderStarted, FlagsUp, WorkerSurvives, vars, controllerVars
<1>4. QED BY <1>2, <1>3

(***************************************************************************)
(* With one sink the thread that answers is never ended by a connection    *)
(* accepted under it, however late the sink connects.                      *)
(***************************************************************************)
THEOREM WorkerNotInterrupted ==
  ASSUME NEW k, Sinks = {k}
  PROVE  Spec => []WorkerSurvives
<1>1. Init => LinkInv
  BY InitLinked
<1>2. LinkInv /\ [Next]_vars => LinkInv'
  BY StepLinked
<1>3. LinkInv => WorkerSurvives
  BY DEF LinkInv
<1>4. QED BY <1>1, <1>2, <1>3, PTL DEF Spec

------------------------------------------------------------------------------
(* The way of a message *)

LEMMA FirstAndRest ==
  ASSUME NEW S, NEW q \in Seq(S), q # <<>>
  PROVE  <<Head(q)>> \o Tail(q) = q
<1>1. Head(q) \in S /\ Tail(q) \in Seq(S) /\ <<Head(q)>> \in Seq(S)
  BY HeadTailProperties
<1>2. <<Head(q)>> \o Tail(q) \in Seq(S) /\ Len(<<Head(q)>> \o Tail(q)) = Len(q)
  BY <1>1, ConcatProperties, HeadTailProperties, LenProperties
<1>3. \A i \in 1 .. Len(q) : (<<Head(q)>> \o Tail(q))[i] = q[i]
  BY <1>1, ConcatProperties, HeadTailProperties, LenProperties
<1>4. QED BY <1>2, <1>3, SeqEqual

LEMMA FirstOfMore ==
  ASSUME NEW S, NEW e \in S, NEW q \in Seq(S)
  PROVE  LET p == <<e>> \o q IN p \in Seq(S) /\ p # <<>> /\ Head(p) = e /\ Tail(p) = q
<1> DEFINE p == <<e>> \o q
<1>1. <<e>> \in Seq(S) /\ Len(<<e>>) = 1
  BY OneMessage
<1>2. p \in Seq(S) /\ Len(p) = Len(q) + 1 /\ Len(q) \in Nat
      /\ \A i \in 1 .. Len(q) + 1 : p[i] = IF i <= 1 THEN <<e>>[i] ELSE q[i - 1]
  BY <1>1, ConcatProperties, LenProperties
<1> HIDE DEF p
<1>3. p # <<>>
  BY <1>2, EmptySeq
<1>4. Head(p) = e
  BY <1>2, <1>3
<1>5. Tail(p) = q
  <2>1. Tail(p) \in Seq(S) /\ Len(Tail(p)) = Len(q)
        /\ \A i \in 1 .. Len(Tail(p)) : Tail(p)[i] = p[i + 1]
    BY <1>2, <1>3, HeadTailProperties
  <2>2. \A i \in 1 .. Len(Tail(p)) : Tail(p)[i] = q[i]
    BY <1>2, <2>1
  <2>3. QED BY <2>1, <2>2, SeqEqual
<1>6. QED BY <1>2, <1>3, <1>4, <1>5 DEF p

LEMMA AppendedLast ==
  ASSUME NEW S, NEW p \in Seq(S), NEW q \in Seq(S), NEW e \in S
  PROVE  /\ p \o Append(q, e) = Append(p \o q, e)
         /\ Len(Append(p \o q, e)) > Len(p \o q)
         /\ Append(p \o q, e)[Len(Append(p \o q, e))] = e
<1>1. p \o q \in Seq(S) /\ <<e>> \in Seq(S)
  BY ConcatProperties, OneMessage
<1>2. Append(q, e) = q \o <<e>> /\ Append(p \o q, e) = (p \o q) \o <<e>>
  BY <1>1, AppendIsConcat
<1>3. p \o Append(q, e) = Append(p \o q, e)
  BY <1>1, <1>2, ConcatAssociative
<1>4. QED BY <1>1, <1>3, AppendProperties, LenProperties

LEMMA OnTheWayTyped ==
  ASSUME LinkInv, NEW k, Sinks = {k}
  PROVE  /\ toController[k] \in Seq(Up)
         /\ reader[k].at # "read" => reader[k].msg \in Up
         /\ OnTheWay(k) \in Seq(Up)
<1>1. toController[k] \in Seq(Up) /\ reader[k] \in Readers
  BY DEF LinkInv, TypeOK, Readers
<1>2. reader[k].at # "read" => reader[k].msg \in Up
  BY <1>1 DEF Readers
<1>3. (IF reader[k].at = "read" THEN <<>> ELSE <<reader[k].msg>>) \in Seq(Up)
  BY <1>2, OneMessage, EmptySeq
<1>4. QED BY <1>1, <1>2, <1>3, ConcatProperties DEF OnTheWay

\* What a write into the socket adds comes last.
LEMMA WrittenLast ==
  ASSUME LinkInv, NEW k, Sinks = {k}, NEW u \in Up,
         toController' = [toController EXCEPT ![k] = Append(@, u)],
         UNCHANGED <<reader, bQ, observed>>
  PROVE  Way!Send
<1> DEFINE p == IF reader[k].at = "read" THEN <<>> ELSE <<reader[k].msg>>
<1>1. p \in Seq(Up) /\ toController[k] \in Seq(Up)
  BY OnTheWayTyped, OneMessage, EmptySeq
<1>2. toController'[k] = Append(toController[k], u)
  BY DEF LinkInv, TypeOK
<1>3. OnTheWay(k) = p \o toController[k] /\ OnTheWay(k)' = p \o Append(toController[k], u)
  BY <1>2 DEF OnTheWay
<1> HIDE DEF p
<1>4. /\ OnTheWay(k)' = Append(OnTheWay(k), u)
      /\ Len(OnTheWay(k)') > Len(OnTheWay(k))
      /\ OnTheWay(k)'[Len(OnTheWay(k)')] = u
  <2>1. /\ p \o Append(toController[k], u) = Append(p \o toController[k], u)
        /\ Len(Append(p \o toController[k], u)) > Len(p \o toController[k])
        /\ Append(p \o toController[k], u)[Len(Append(p \o toController[k], u))] = u
    <3> DEFINE q == toController[k]
    <3>1. q \in Seq(Up) /\ u \in Up
      BY <1>1
    <3> HIDE DEF q
    <3>2. \A x, y \in Seq(Up), e \in Up :
             /\ x \o Append(y, e) = Append(x \o y, e)
             /\ Len(Append(x \o y, e)) > Len(x \o y)
             /\ Append(x \o y, e)[Len(Append(x \o y, e))] = e
      BY ONLY AppendedLast
    <3>3. QED BY <1>1, <3>1, <3>2 DEF q
  <2>2. QED BY ONLY <1>3, <2>1
<1>5. QED BY <1>4, TheOnlySink DEF Way!Send

LEMMA ReaderOnTheWay ==
  ASSUME LinkInv, NEW k, Sinks = {k}, ReaderThread(k)
  PROVE  [Way!Next]_(Way!vars)
<1>1. /\ reader \in [Sinks -> Readers] /\ toController \in [Sinks -> Seq(Up)]
      /\ changed["server"] <=> reader[k].at = "server"
      /\ changed["adapter"] <=> reader[k].at = "adapter"
      /\ bQ \in Seq(Up)
  BY TheOnlySink DEF LinkInv, FlagsUp, TypeOK, Readers
<1>2. ASSUME OnTheWay(k)' = OnTheWay(k), UNCHANGED <<bQ, observed>>
      PROVE  [Way!Next]_(Way!vars)
  BY <1>2, TheOnlySink DEF Way!vars
<1>3. CASE ReadPacket(k)
  <2>1. reader[k].at = "read" /\ toController[k] # <<>> /\ UNCHANGED <<bQ, observed>>
    BY <1>3 DEF ReadPacket
  <2>2. reader'[k] = [at |-> "server", msg |-> Head(toController[k])]
    BY <1>1, <1>3 DEF ReadPacket
  <2>3. toController'[k] = Tail(toController[k])
    BY <1>1, <1>3 DEF ReadPacket
  <2>4. OnTheWay(k)' = <<Head(toController[k])>> \o Tail(toController[k])
    BY <2>2, <2>3 DEF OnTheWay
  <2>5. OnTheWay(k) = <<>> \o toController[k]
    BY <2>1 DEF OnTheWay
  <2>6. OnTheWay(k)' = OnTheWay(k)
    BY <1>1, <2>1, <2>4, <2>5, FirstAndRest, ConcatEmptySeq
  <2>7. QED BY <1>2, <2>1, <2>6
<1>4. CASE NotifyFromServer(k)
  <2>1. reader[k].at = "server" /\ changed["server"] /\ UNCHANGED <<toController, bQ, observed>>
    BY <1>1, <1>4 DEF NotifyFromServer
  <2>2. reader' = [reader EXCEPT ![k] = [@ EXCEPT !.at = "adapter"]]
    BY <1>4, <2>1 DEF NotifyFromServer
  <2>3. reader'[k].at = "adapter" /\ reader'[k].msg = reader[k].msg
    BY <1>1, <2>1, <2>2 DEF Readers
  <2>4. OnTheWay(k)' = OnTheWay(k)
    BY <2>1, <2>3 DEF OnTheWay
  <2>5. QED BY <1>2, <2>1, <2>4
<1>5. CASE NotifyFromAdapter(k)
  <2>1. reader[k].at = "adapter" /\ changed["adapter"] /\ UNCHANGED <<toController, bQ, observed>>
    BY <1>1, <1>5 DEF NotifyFromAdapter
  <2>2. CASE observed
    <3>1. reader' = [reader EXCEPT ![k] = [@ EXCEPT !.at = "put"]]
      BY <1>5, <2>1, <2>2 DEF NotifyFromAdapter
    <3>2. reader'[k].at = "put" /\ reader'[k].msg = reader[k].msg
      BY <1>1, <2>1, <3>1 DEF Readers
    <3>3. OnTheWay(k)' = OnTheWay(k)
      BY <2>1, <3>2 DEF OnTheWay
    <3>4. QED BY <1>2, <2>1, <3>3
  <2>3. CASE ~observed
    <3>1. reader'[k].at = "read"
      BY <1>1, <1>5, <2>3 DEF NotifyFromAdapter, AfterDrop
    <3>2. OnTheWay(k) = <<reader[k].msg>> \o toController[k]
      BY <2>1 DEF OnTheWay
    <3>3. OnTheWay(k)' = <<>> \o toController[k]
      BY <2>1, <3>1 DEF OnTheWay
    <3>4. OnTheWay(k) # <<>> /\ OnTheWay(k)' = Tail(OnTheWay(k))
      BY <1>1, <2>1, <3>2, <3>3, OnTheWayTyped, FirstOfMore, ConcatEmptySeq
    <3>5. Way!Lose
      BY <2>1, <2>3, <3>4, TheOnlySink DEF Way!Lose
    <3>6. QED BY <3>5 DEF Way!Next
  <2>4. QED BY <2>2, <2>3
<1>6. CASE PutPacket(k)
  <2>1. /\ reader[k].at = "put" /\ Len(bQ) < Backlog /\ bQ' = Append(bQ, reader[k].msg)
        /\ UNCHANGED <<toController, observed>>
    BY <1>6 DEF PutPacket, RoomInQueue
  <2>2. reader'[k].at = "read"
    BY <1>1, <1>6 DEF PutPacket
  <2>3. OnTheWay(k) = <<reader[k].msg>> \o toController[k]
    BY <2>1 DEF OnTheWay
  <2>4. OnTheWay(k)' = <<>> \o toController[k]
    BY <2>1, <2>2 DEF OnTheWay
  <2>5. /\ OnTheWay(k) # <<>> /\ OnTheWay(k)' = Tail(OnTheWay(k))
        /\ Head(OnTheWay(k)) = reader[k].msg
    BY <1>1, <2>1, <2>3, <2>4, OnTheWayTyped, FirstOfMore, ConcatEmptySeq
  <2>6. Way!Deliver
    BY <2>1, <2>5, TheOnlySink DEF Way!Deliver
  <2>7. QED BY <2>6 DEF Way!Next
<1>7. QED BY <1>3, <1>4, <1>5, <1>6 DEF ReaderThread

LEMMA WayInit ==
  ASSUME NEW k, Sinks = {k}, Init
  PROVE  Way!Init
<1>1. OnTheWay(k) = <<>> \o <<>>
  BY DEF Init, OnTheWay
<1>2. OnTheWay(k) = <<>>
  BY <1>1, EmptySeq, ConcatEmptySeq
<1>3. QED BY <1>2, TheOnlySink DEF Init, Way!Init

LEMMA WayStep ==
  ASSUME LinkInv, NEW k, Sinks = {k}, [Next]_vars
  PROVE  [Way!Next]_(Way!vars)
<1>1. ASSUME UNCHANGED <<reader, toController, bQ, observed>>
      PROVE  [Way!Next]_(Way!vars)
  BY <1>1, TheOnlySink DEF OnTheWay, Way!vars
<1>2. CASE AddObserver
  <2>1. Way!Observe
    BY <1>2, TheOnlySink DEF AddObserver, OnTheWay, Way!Observe
  <2>2. QED BY <2>1 DEF Way!Next
<1>3. CASE SimulatorWrites
  <2>1. simulator.sink = k /\ simulator.msg \in Up
    BY <1>3 DEF SimulatorWrites, LinkInv, TypeOK
  <2>2. /\ toController' = [toController EXCEPT ![k] = Append(@, simulator.msg)]
        /\ UNCHANGED <<reader, bQ, observed>>
    BY <1>3, <2>1 DEF SimulatorWrites, controllerVars
  <2>3. QED BY <2>1, <2>2, WrittenLast DEF Way!Next
<1>4. CASE ManagerWrites(k)
  <2>1. manager[k] \in Up
    BY <1>4 DEF ManagerWrites, LinkInv, TypeOK
  <2>2. /\ toController' = [toController EXCEPT ![k] = Append(@, manager[k])]
        /\ UNCHANGED <<reader, bQ, observed>>
    BY <1>4 DEF ManagerWrites, controllerVars
  <2>3. QED BY <2>1, <2>2, WrittenLast DEF Way!Next
<1>5. CASE ReaderThread(k)
  BY <1>5, ReaderOnTheWay
<1>6. CASE TakePacket
  <2>1. bQ # <<>> /\ bQ' = Tail(bQ) /\ UNCHANGED <<reader, toController, observed>>
    BY <1>6 DEF TakePacket
  <2>2. Way!Take
    BY <2>1, TheOnlySink DEF OnTheWay, Way!Take
  <2>3. QED BY <2>2 DEF Way!Next
<1>7. CASE \/ OpenServerSocket \/ AcceptThread \/ ApplicationSends \/ UNCHANGED vars
           \/ \E s \in Sinks : Connect(s) \/ RxRadio(s) \/ ListenerThread(s) \/ ManagePacket(s)
           \/ \E w \in Senders : SenderThread(w)
  <2>1. UNCHANGED <<reader, toController, bQ, observed>>
    BY <1>7
    DEF OpenServerSocket, AcceptThread, Accept, StartReader, ApplicationSends, vars, Connect,
        RxRadio, ListenerThread, Listen, Enqueue, ManagePacket, SenderThread, WriteNext,
        SendNext, IteratorThrows, controllerVars
  <2>2. QED BY <1>1, <2>1
<1>8. QED
  BY <1>2, <1>3, <1>4, <1>5, <1>6, <1>7 DEF Next, Threads, ManagerThread

(***************************************************************************)
(* With one sink the observers and queues of the controller implement      *)
(* Channel, whatever their capacities: a message is lost only before the   *)
(* controller observes its adapter, and the order is kept.                 *)
(***************************************************************************)
THEOREM LinkImplementsChannel ==
  ASSUME NEW k, Sinks = {k}
  PROVE  Spec => ImplementsChannel
<1>1. Init => LinkInv /\ Way!Init
  BY InitLinked, WayInit
<1>2. LinkInv /\ [Next]_vars => LinkInv'
  BY StepLinked
<1>3. LinkInv /\ [Next]_vars => [Way!Next]_(Way!vars)
  BY WayStep
<1>4. QED BY <1>1, <1>2, <1>3, PTL DEF Spec, ImplementsChannel, Way!Spec

------------------------------------------------------------------------------
(* The path before its packet *)

\* The requests there are: the sink asks for a way to a mote, a mote for one to
\* the sink, each with a packet nobody has asked with before.
FirstAsks(s) ==
  {u \in Up : u.t = "ask" =>
     /\ u.what.asked = 1
     /\ \/ u.from = s /\ u.what.to \in Motes
        \/ u.from \in Motes /\ u.what.to = s}

Unasked == {d \in Down : d.asked = 0}

OnlyFirstAsks(s) ==
  /\ simulator = None \/ simulator.msg \in FirstAsks(s)
  /\ manager[s] = None \/ manager[s] \in FirstAsks(s)
  /\ toController[s] \in Seq(FirstAsks(s))
  /\ reader[s].at # "read" => reader[s].msg \in FirstAsks(s)
  /\ bQ \in Seq(FirstAsks(s))
  /\ sending["application"].todo \in Seq(Unasked)

\* What is on its way to PacketManager, first in line first
Line(s) ==
  flowTableQueue[s] \o ((IF listener[s] = None THEN <<>> ELSE <<listener[s]>>) \o toSink[s])

\* A packet that was asked with must find a rule.
NeedsRule(s, d) == d.to # s /\ d.asked # 0

Brings(s, d, n) == d.t = "path" /\ d.to = s /\ d.end = n

\* R has a rule for n, or a path on the line q brings one.
Prepared(s, R, q, n) == n \in R \/ \E i \in 1 .. Len(q) : Brings(s, q[i], n)

\* Whatever needs a rule finds it when its turn comes.
InOrder(s, R, q) ==
  \A i \in 1 .. Len(q) :
     NeedsRule(s, q[i]) => q[i].to \in R \/ \E j \in 1 .. (i - 1) : Brings(s, q[j], q[i].to)

\* The Worker has sent the path before it sends the packet.
PathFirst(s) ==
  LET snd == sending["worker"]
  IN  \/ snd.todo = <<>>
      \/ \E d \in Down :
           /\ snd.todo = <<d>>
           /\ NeedsRule(s, d) => Prepared(s, rules[s], Line(s), d.to)
      \/ \E p, d \in Down :
           /\ snd.todo = <<p, d>> /\ ~NeedsRule(s, p)
           /\ NeedsRule(s, d) => /\ Brings(s, p, d.to)
                                 /\ snd.at # 1 => Prepared(s, rules[s], Line(s), d.to)

(***************************************************************************)
(* NobodyAsksTwice is a fact about what has come up; it holds because of   *)
(* the order of what goes down: in the sockets, in the queue and at the    *)
(* Worker, a packet that was asked with follows its path.                  *)
(***************************************************************************)
AskInv(s) ==
  LinkInv /\ OnlyFirstAsks(s) /\ InOrder(s, rules[s], Line(s)) /\ PathFirst(s)

\* A line may grow by a packet that finds its rule ...
LEMMA PathPut ==
  ASSUME NEW s, NEW R, NEW q \in Seq(Down), NEW d \in Down, InOrder(s, R, q),
         NeedsRule(s, d) => Prepared(s, R, q, d.to)
  PROVE  /\ InOrder(s, R, Append(q, d))
         /\ \A n : Prepared(s, R, q, n) \/ Brings(s, d, n) => Prepared(s, R, Append(q, d), n)
<1> DEFINE p == Append(q, d)
<1>1. /\ p \in Seq(Down) /\ Len(q) \in Nat /\ Len(p) = Len(q) + 1
      /\ \A i \in 1 .. Len(q) : p[i] = q[i]
      /\ p[Len(q) + 1] = d
  BY AppendProperties, LenProperties
<1> HIDE DEF p
<1>2. ASSUME NEW i \in 1 .. Len(p), NeedsRule(s, p[i])
      PROVE  p[i].to \in R \/ \E j \in 1 .. (i - 1) : Brings(s, p[j], p[i].to)
  <2>1. CASE i \in 1 .. Len(q)
    <3>1. p[i] = q[i]
      BY <1>1, <2>1
    <3>2. q[i].to \in R \/ \E j \in 1 .. (i - 1) : Brings(s, q[j], q[i].to)
      BY <1>2, <2>1, <3>1 DEF InOrder
    <3>3. \A j \in 1 .. (i - 1) : p[j] = q[j]
      BY <1>1, <2>1
    <3>4. QED BY <3>1, <3>2, <3>3
  <2>2. CASE i = Len(q) + 1
    <3>1. p[i] = d /\ i - 1 = Len(q)
      BY <1>1, <2>2
    <3>2. d.to \in R \/ \E j \in 1 .. Len(q) : Brings(s, q[j], d.to)
      BY <1>2, <3>1 DEF Prepared
    <3>3. QED BY <1>1, <3>1, <3>2
  <2>3. QED BY <1>1, <2>1, <2>2
<1>3. ASSUME NEW n, Prepared(s, R, q, n) \/ Brings(s, d, n)
      PROVE  Prepared(s, R, p, n)
  <2>1. CASE n \in R
    BY <2>1 DEF Prepared
  <2>2. ASSUME NEW i \in 1 .. Len(q), Brings(s, q[i], n) PROVE Prepared(s, R, p, n)
    <3>1. i \in 1 .. Len(p) /\ p[i] = q[i]
      BY <1>1
    <3>2. QED BY <2>2, <3>1 DEF Prepared
  <2>3. CASE Brings(s, d, n)
    <3>1. Len(q) + 1 \in 1 .. Len(p) /\ Brings(s, p[Len(q) + 1], n)
      BY <1>1, <2>3
    <3>2. QED BY <3>1 DEF Prepared
  <2>4. QED BY <1>3, <2>1, <2>2, <2>3 DEF Prepared
<1>4. QED BY <1>2, <1>3 DEF InOrder, p

\* ... and its first packet be handled, once the rule it brings is there.
LEMMA PathTaken ==
  ASSUME NEW s, NEW R, NEW T, NEW q \in Seq(Down), q # <<>>, InOrder(s, R, q),
         R \subseteq T, \A n : Brings(s, Head(q), n) => n \in T
  PROVE  /\ NeedsRule(s, Head(q)) => Head(q).to \in R
         /\ InOrder(s, T, Tail(q))
         /\ \A n : Prepared(s, R, q, n) => Prepared(s, T, Tail(q), n)
<1> DEFINE p == Tail(q)
           h == Head(q)
<1>1. /\ Len(q) \in Nat \ {0} /\ Len(p) = Len(q) - 1
      /\ \A i \in 1 .. Len(p) : p[i] = q[i + 1]
      /\ h = q[1]
  BY HeadTailProperties, EmptySeq
<1>2. h = Head(q)
  OBVIOUS
<1> HIDE DEF p, h
<1>3. NeedsRule(s, h) => h.to \in R
  <2>1. 1 \in 1 .. Len(q)
    BY <1>1
  <2>2. NeedsRule(s, q[1]) => q[1].to \in R \/ \E j \in 1 .. (1 - 1) : Brings(s, q[j], q[1].to)
    BY <2>1 DEF InOrder
  <2>3. QED BY <1>1, <2>2
<1>4. ASSUME NEW i \in 1 .. Len(p), NeedsRule(s, p[i])
      PROVE  p[i].to \in T \/ \E j \in 1 .. (i - 1) : Brings(s, p[j], p[i].to)
  <2>1. i \in Nat /\ i + 1 \in 1 .. Len(q) /\ p[i] = q[i + 1] /\ (i + 1) - 1 = i
    BY <1>1
  <2>2. p[i].to \in R \/ \E j \in 1 .. i : Brings(s, q[j], p[i].to)
    BY <1>4, <2>1 DEF InOrder
  <2>3. ASSUME NEW j \in 1 .. i, Brings(s, q[j], p[i].to)
        PROVE  p[i].to \in T \/ \E l \in 1 .. (i - 1) : Brings(s, p[l], p[i].to)
    <3>1. CASE j = 1
      BY <1>1, <1>2, <2>3, <3>1
    <3>2. CASE j # 1
      <4>1. j - 1 \in 1 .. (i - 1) /\ p[j - 1] = q[j]
        BY <1>1, <2>1, <3>2
      <4>2. QED BY <2>3, <4>1
    <3>3. QED BY <3>1, <3>2
  <2>4. QED BY <2>2, <2>3
<1>5. ASSUME NEW n, Prepared(s, R, q, n)
      PROVE  Prepared(s, T, p, n)
  <2>1. CASE n \in R
    BY <2>1 DEF Prepared
  <2>2. ASSUME NEW i \in 1 .. Len(q), Brings(s, q[i], n) PROVE Prepared(s, T, p, n)
    <3>1. CASE i = 1
      BY <1>1, <1>2, <2>2, <3>1 DEF Prepared
    <3>2. CASE i # 1
      <4>1. i - 1 \in 1 .. Len(p) /\ p[i - 1] = q[i]
        BY <1>1, <3>2
      <4>2. QED BY <2>2, <4>1 DEF Prepared
    <3>3. QED BY <3>1, <3>2
  <2>3. QED BY <1>5, <2>1, <2>2 DEF Prepared
<1>6. QED BY <1>2, <1>3, <1>4, <1>5 DEF InOrder, p

LEMMA LineTyped ==
  ASSUME TypeOK, NEW s \in Sinks
  PROVE  /\ flowTableQueue[s] \in Seq(Down) /\ toSink[s] \in Seq(Down)
         /\ listener[s] # None => listener[s] \in Down
         /\ (IF listener[s] = None THEN <<>> ELSE <<listener[s]>>) \in Seq(Down)
         /\ (IF listener[s] = None THEN <<>> ELSE <<listener[s]>>) \o toSink[s] \in Seq(Down)
         /\ Line(s) \in Seq(Down)
<1>1. /\ flowTableQueue[s] \in Seq(Down) /\ toSink[s] \in Seq(Down)
      /\ listener[s] # None => listener[s] \in Down
  BY DEF TypeOK
<1> DEFINE h == IF listener[s] = None THEN <<>> ELSE <<listener[s]>>
<1>2. h \in Seq(Down)
  BY <1>1, OneMessage, EmptySeq
<1> HIDE DEF h
<1>3. h \o toSink[s] \in Seq(Down) /\ flowTableQueue[s] \o (h \o toSink[s]) \in Seq(Down)
  BY <1>1, <1>2, ConcatProperties
<1>4. QED BY <1>1, <1>2, <1>3 DEF Line, h

\* What TcpListener does leaves the line as it is.
LEMMA ListenerKeepsLine ==
  ASSUME TypeOK, NEW s \in Sinks, ListenerThread(s)
  PROVE  Line(s)' = Line(s)
<1>1. /\ toSink \in [Sinks -> Seq(Down)] /\ flowTableQueue \in [Sinks -> Seq(Down)]
      /\ listener \in [Sinks -> Down \cup {None}]
  BY DEF TypeOK
<1>2. toSink[s] \in Seq(Down) /\ flowTableQueue[s] \in Seq(Down)
  BY <1>1
<1>3. CASE Listen(s)
  <2>1. Head(toSink[s]) \in Down /\ toSink[s] # <<>> /\ listener[s] = None
    BY <1>2, <1>3, Shortened DEF Listen
  <2>2. /\ listener'[s] = Head(toSink[s]) /\ toSink'[s] = Tail(toSink[s])
        /\ flowTableQueue' = flowTableQueue
    BY <1>1, <1>3 DEF Listen
  <2>3. listener'[s] # None
    BY <2>1, <2>2 DEF Down, None, Just
  <2>4. Line(s) = flowTableQueue[s] \o (<<>> \o toSink[s])
    BY <2>1 DEF Line
  <2>5. Line(s)' = flowTableQueue[s] \o (<<Head(toSink[s])>> \o Tail(toSink[s]))
    BY <2>2, <2>3 DEF Line
  <2>6. <<>> \o toSink[s] = toSink[s]
    BY <1>2, ConcatEmptySeq
  <2>7. <<Head(toSink[s])>> \o Tail(toSink[s]) = toSink[s]
    BY <1>2, <2>1, FirstAndRest
  <2>8. QED BY <2>4, <2>5, <2>6, <2>7
<1>4. CASE Enqueue(s)
  <2> DEFINE e == listener[s]
  <2>1. e \in Down /\ e # None
    BY <1>1, <1>4 DEF Enqueue
  <2>2. /\ flowTableQueue'[s] = Append(flowTableQueue[s], e) /\ listener'[s] = None
        /\ toSink' = toSink
    BY <1>1, <1>4 DEF Enqueue
  <2>3. Line(s) = flowTableQueue[s] \o (<<e>> \o toSink[s])
    BY <2>1 DEF Line
  <2>4. Line(s)' = Append(flowTableQueue[s], e) \o (<<>> \o toSink[s])
    BY <2>2 DEF Line
  <2> HIDE DEF e
  <2>5. <<e>> \in Seq(Down)
    BY <2>1, OneMessage
  <2>6. <<>> \o toSink[s] = toSink[s]
    BY <1>2, ConcatEmptySeq
  <2>7. Append(flowTableQueue[s], e) = flowTableQueue[s] \o <<e>>
    BY <1>2, <2>1, AppendIsConcat
  <2>8. (flowTableQueue[s] \o <<e>>) \o toSink[s] = flowTableQueue[s] \o (<<e>> \o toSink[s])
    <3>1. \A x, y, z \in Seq(Down) : (x \o y) \o z = x \o (y \o z)
      BY ONLY ConcatAssociative
    <3>2. QED BY ONLY <1>2, <2>5, <3>1
  <2>9. QED BY <2>3, <2>4, <2>6, <2>7, <2>8
<1>5. QED BY <1>3, <1>4 DEF ListenerThread

\* What is written down comes last ...
LEMMA WrittenDownLast ==
  ASSUME TypeOK, NEW s \in Sinks, NEW d \in Down,
         toSink' = [toSink EXCEPT ![s] = Append(@, d)],
         UNCHANGED <<flowTableQueue, listener>>
  PROVE  Line(s)' = Append(Line(s), d)
<1> DEFINE h == IF listener[s] = None THEN <<>> ELSE <<listener[s]>>
           f == flowTableQueue[s]
           t == toSink[s]
<1>1. f \in Seq(Down) /\ t \in Seq(Down) /\ h \in Seq(Down) /\ h \o t \in Seq(Down)
  BY LineTyped
<1>2. toSink'[s] = Append(t, d)
  BY DEF TypeOK
<1>3. Line(s) = f \o (h \o t) /\ Line(s)' = f \o (h \o Append(t, d))
  BY <1>2 DEF Line
<1> HIDE DEF f, h, t
<1>4. h \o Append(t, d) = Append(h \o t, d)
  BY <1>1, AppendedLast
<1> DEFINE g == h \o t
<1>5. g \in Seq(Down)
  BY <1>1
<1> HIDE DEF g
<1>6. f \o Append(g, d) = Append(f \o g, d)
  <2>1. \A x, y \in Seq(Down), e \in Down : x \o Append(y, e) = Append(x \o y, e)
    BY ONLY AppendedLast
  <2>2. QED BY <1>1, <1>5, <2>1
<1>7. QED BY <1>3, <1>4, <1>6 DEF g

\* ... and what PacketManager takes was first.
LEMMA ManagedFirst ==
  ASSUME TypeOK, NEW s \in Sinks, ManagePacket(s)
  PROVE  /\ Line(s) # <<>> /\ Head(Line(s)) = Head(flowTableQueue[s])
         /\ Line(s)' = Tail(Line(s))
<1> DEFINE d == Head(flowTableQueue[s])
           f == Tail(flowTableQueue[s])
           g == (IF listener[s] = None THEN <<>> ELSE <<listener[s]>>) \o toSink[s]
<1>1. flowTableQueue[s] \in Seq(Down) /\ flowTableQueue[s] # <<>>
  BY LineTyped DEF ManagePacket
<1>2. d \in Down /\ f \in Seq(Down) /\ <<d>> \in Seq(Down)
  BY <1>1, Shortened, OneMessage
<1>3. g \in Seq(Down)
  BY LineTyped
<1>4. <<d>> \o f = flowTableQueue[s]
  BY <1>1, FirstAndRest
<1>5. flowTableQueue'[s] = f /\ UNCHANGED <<listener, toSink>>
  BY DEF ManagePacket, TypeOK
<1>6. Line(s) = (<<d>> \o f) \o g /\ Line(s)' = f \o g
  BY <1>4, <1>5 DEF Line
<1>7. d = Head(flowTableQueue[s])
  OBVIOUS
<1> HIDE DEF d, f, g
<1>8. (<<d>> \o f) \o g = <<d>> \o (f \o g)
  BY <1>2, <1>3, ConcatAssociative
<1> DEFINE r == f \o g
<1>9. r \in Seq(Down)
  BY <1>2, <1>3, ConcatProperties
<1> HIDE DEF r
<1>10. <<d>> \o r # <<>> /\ Head(<<d>> \o r) = d /\ Tail(<<d>> \o r) = r
  BY <1>2, <1>9, FirstOfMore
<1>11. QED BY <1>6, <1>7, <1>8, <1>10 DEF r

LEMMA FirstAsked ==
  ASSUME NEW k, Sinks = {k}
  PROVE  /\ FirstAsks(k) \subseteq Up
         /\ Just("report") \in FirstAsks(k) /\ Just("answer") \in FirstAsks(k)
         /\ FromRadio(k) \subseteq FirstAsks(k)
         /\ \A d \in Down : d.asked = 0 /\ d.to \in Motes => Ask(k, d) \in FirstAsks(k)
         /\ \A n \in Nodes : Packet(n) \in Unasked
<1>1. FirstAsks(k) \subseteq Up
  BY DEF FirstAsks
<1>2. Just("report") \in FirstAsks(k) /\ Just("answer") \in FirstAsks(k)
  BY MadeMessages DEF FirstAsks, Just
<1>3. \A n \in Nodes : Packet(n) \in Unasked /\ Packet(n).asked = 0 /\ Packet(n).to = n
  BY MadeMessages DEF Unasked, Packet
<1>4. \A n \in Nodes, d \in Down : d.asked = 0 =>
        /\ Ask(n, d) \in Up /\ Ask(n, d).from = n
        /\ Ask(n, d).what.asked = 1 /\ Ask(n, d).what.to = d.to
  BY MadeMessages DEF Ask, Down
<1>5. \A m \in Motes : Ask(m, Packet(k)) \in FirstAsks(k)
  BY <1>3, <1>4 DEF FirstAsks, Nodes, Unasked
<1>6. \A d \in Down : d.asked = 0 /\ d.to \in Motes => Ask(k, d) \in FirstAsks(k)
  BY <1>4 DEF FirstAsks, Nodes
<1>7. FromRadio(k) \subseteq FirstAsks(k)
  BY <1>2, <1>5 DEF FromRadio
<1>8. QED BY <1>1, <1>2, <1>3, <1>6, <1>7

\* The Worker answers with nothing that needs a rule it does not bring.
LEMMA RepliesInOrder ==
  ASSUME NEW k, Sinks = {k}, NEW u \in FirstAsks(k), NEW ds \in Replies(u)
  PROVE  \/ ds = <<>>
         \/ \E d \in Down : ds = <<d>> /\ ~NeedsRule(k, d)
         \/ \E p, d \in Down : /\ ds = <<p, d>> /\ ~NeedsRule(k, p)
                               /\ NeedsRule(k, d) => Brings(k, p, d.to)
<1>1. CASE u.t = "ask" /\ ds = <<OpenPath(u.from, u.what.to), u.what>>
  <2>1. u.from \in Nodes /\ u.what \in Down /\ u.what.to \in Nodes
    BY <1>1 DEF FirstAsks, Up, Down
  <2>2. OpenPath(u.from, u.what.to) \in Down /\ ~NeedsRule(k, OpenPath(u.from, u.what.to))
    BY <2>1, MadeMessages DEF OpenPath, NeedsRule
  <2>3. NeedsRule(k, u.what) => u.from = k
    BY <1>1 DEF FirstAsks, NeedsRule
  <2>4. NeedsRule(k, u.what) => Brings(k, OpenPath(u.from, u.what.to), u.what.to)
    BY <2>3 DEF Brings, OpenPath
  <2>5. QED BY <1>1, <2>1, <2>2, <2>4
<1>2. ASSUME NEW m \in Motes, ds = <<Packet(m)>>
      PROVE  \E d \in Down : ds = <<d>> /\ ~NeedsRule(k, d)
  <2>1. Packet(m) \in Unasked
    BY FirstAsked DEF Nodes
  <2>2. QED BY <1>2, <2>1 DEF Unasked, NeedsRule
<1>3. QED BY <1>1, <1>2 DEF Replies

\* What PacketManager has to write after it handled the first on the line
LEMMA ManagedAsksFirst ==
  ASSUME NEW k, Sinks = {k}, NEW d \in Down, NEW u \in Handled(k, d),
         NeedsRule(k, d) => d.to \in rules[k]
  PROVE  u = None \/ u \in FirstAsks(k)
<1>1. CASE d.to = k
  BY <1>1, FirstAsked DEF Handled
<1>2. CASE d.to # k /\ d.to \notin rules[k]
  <2>1. d.to \in Motes
    BY <1>2 DEF Down, Nodes
  <2>2. d.asked = 0
    BY <1>2 DEF NeedsRule
  <2>3. u = Ask(k, d)
    BY <1>2 DEF Handled
  <2>4. QED BY <2>1, <2>2, <2>3, FirstAsked
<1>3. CASE d.to # k /\ d.to \in rules[k]
  BY <1>3 DEF Handled
<1>4. QED BY <1>1, <1>2, <1>3

\* The messages that go up stay first requests.
LEMMA AsksStay ==
  ASSUME NEW k, Sinks = {k}, AskInv(k), Next
  PROVE  OnlyFirstAsks(k)'
<1>1. /\ simulator \in [sink : Sinks, msg : Up] \cup {None}
      /\ manager \in [Sinks -> Up \cup {None}]
      /\ toController \in [Sinks -> Seq(Up)] /\ reader \in [Sinks -> Readers]
      /\ sending \in [Senders -> Sendings] /\ TypeOK
  BY DEF AskInv, LinkInv, TypeOK, Readers, Sendings
<1>2. /\ simulator = None \/ simulator.msg \in FirstAsks(k)
      /\ manager[k] = None \/ manager[k] \in FirstAsks(k)
      /\ toController[k] \in Seq(FirstAsks(k))
      /\ reader[k].at # "read" => reader[k].msg \in FirstAsks(k)
      /\ bQ \in Seq(FirstAsks(k))
      /\ sending["application"].todo \in Seq(Unasked)
  BY DEF AskInv, OnlyFirstAsks
<1>3. ASSUME UNCHANGED <<simulator, manager, toController, reader, bQ>>,
             sending'["application"].todo \in Seq(Unasked)
      PROVE  OnlyFirstAsks(k)'
  BY <1>2, <1>3 DEF OnlyFirstAsks
<1>4. CASE \E s \in Sinks : Connect(s) \/ RxRadio(s)
  <2>1. simulator' = None \/ simulator'.msg \in FirstAsks(k)
    BY <1>2, <1>4, FirstAsked DEF Connect, RxRadio
  <2>2. UNCHANGED <<manager, toController, reader, bQ, sending>>
    BY <1>4 DEF Connect, RxRadio, controllerVars
  <2>3. QED BY <1>2, <2>1, <2>2 DEF OnlyFirstAsks
<1>5. ASSUME NEW u \in FirstAsks(k), toController' = [toController EXCEPT ![k] = Append(@, u)],
             simulator' \in {simulator, None}, manager'[k] \in {manager[k], None},
             UNCHANGED <<reader, bQ, sending>>
      PROVE  OnlyFirstAsks(k)'
  <2>1. toController'[k] = Append(toController[k], u)
    BY <1>1, <1>5
  <2>2. toController'[k] \in Seq(FirstAsks(k))
    BY <1>2, <2>1, Lengthened
  <2>3. QED BY <1>2, <1>5, <2>2 DEF OnlyFirstAsks
<1>6. CASE SimulatorWrites
  <2>1. simulator.sink = k /\ simulator.msg \in FirstAsks(k)
    BY <1>1, <1>2, <1>6 DEF SimulatorWrites
  <2>2. /\ toController' = [toController EXCEPT ![k] = Append(@, simulator.msg)]
        /\ simulator' = None /\ UNCHANGED <<reader, bQ, sending, manager>>
    BY <1>6, <2>1 DEF SimulatorWrites, controllerVars
  <2>3. QED BY <1>5, <2>1, <2>2
<1>7. CASE ManagerWrites(k)
  <2>1. manager[k] \in FirstAsks(k)
    BY <1>2, <1>7 DEF ManagerWrites
  <2>2. /\ toController' = [toController EXCEPT ![k] = Append(@, manager[k])]
        /\ manager'[k] = None /\ UNCHANGED <<reader, bQ, sending, simulator>>
    BY <1>1, <1>7 DEF ManagerWrites, controllerVars
  <2>3. QED BY <1>5, <2>1, <2>2
<1>8. CASE ManagePacket(k)
  <2> DEFINE d == Head(flowTableQueue[k])
  <2>1. d \in Down
    BY <1>1, <1>8, LineTyped, Shortened DEF ManagePacket
  <2>2. NeedsRule(k, d) => d.to \in rules[k]
    <3>1. Line(k) # <<>> /\ Head(Line(k)) = d
      BY <1>1, <1>8, ManagedFirst
    <3>2. Line(k) \in Seq(Down) /\ InOrder(k, rules[k], Line(k))
      BY <1>1, LineTyped DEF AskInv
    <3> DEFINE q == Line(k)
    <3>3. q \in Seq(Down) /\ q # <<>> /\ Head(q) = d /\ InOrder(k, rules[k], q)
      BY <3>1, <3>2
    <3> HIDE DEF q, d
    <3> DEFINE T == rules[k] \cup {n \in Nodes : Brings(k, Head(q), n)}
    <3>4. Head(q).end \in Nodes
      BY <2>1, <3>3 DEF Down
    <3>5. rules[k] \subseteq T /\ \A n : Brings(k, Head(q), n) => n \in T
      BY <3>4 DEF Brings
    <3> HIDE DEF T
    <3>6. NeedsRule(k, Head(q)) => Head(q).to \in rules[k]
      BY <3>3, <3>5, PathTaken
    <3>7. QED BY <3>3, <3>6
  <2>3. \E u \in Handled(k, d) : manager' = [manager EXCEPT ![k] = u]
    BY <1>8 DEF ManagePacket
  <2> HIDE DEF d
  <2>4. PICK u \in Handled(k, d) : manager' = [manager EXCEPT ![k] = u]
    BY <2>3
  <2>5. u = None \/ u \in FirstAsks(k)
    BY <2>1, <2>2, ManagedAsksFirst
  <2>6. manager'[k] = u
    BY <1>1, <2>4
  <2>7. UNCHANGED <<simulator, toController, reader, bQ, sending>>
    BY <1>8 DEF ManagePacket, controllerVars
  <2>8. QED BY <1>2, <2>5, <2>6, <2>7 DEF OnlyFirstAsks
<1>9. CASE ReaderThread(k)
  <2>1. UNCHANGED <<simulator, manager, sending>>
    BY <1>9
    DEF ReaderThread, ReadPacket, NotifyFromServer, NotifyFromAdapter, PutPacket, sinkVars
  <2>2. CASE ReadPacket(k)
    <3>1. Head(toController[k]) \in FirstAsks(k) /\ Tail(toController[k]) \in Seq(FirstAsks(k))
      BY <1>2, <2>2, Shortened DEF ReadPacket
    <3>2. reader'[k] = [at |-> "server", msg |-> Head(toController[k])]
      BY <1>1, <2>2 DEF ReadPacket
    <3>3. toController'[k] = Tail(toController[k]) /\ bQ' = bQ
      BY <1>1, <2>2 DEF ReadPacket
    <3>4. QED BY <1>2, <2>1, <3>1, <3>2, <3>3 DEF OnlyFirstAsks
  <2>3. CASE NotifyFromServer(k) \/ NotifyFromAdapter(k)
    <3>1. reader[k].at # "read"
      BY <2>3 DEF NotifyFromServer, NotifyFromAdapter
    <3>2. \/ reader'[k] = [at |-> "read"]
          \/ \E a \in {"adapter", "put"} : reader'[k] = [reader[k] EXCEPT !.at = a]
      BY <1>1, <2>3 DEF NotifyFromServer, NotifyFromAdapter, AfterDrop
    <3>3. \A a \in {"adapter", "put"} : [reader[k] EXCEPT !.at = a].msg = reader[k].msg
      BY <1>1, <3>1 DEF Readers
    <3>4. reader'[k].at # "read" => reader'[k].msg = reader[k].msg
      <4>1. ASSUME reader'[k] = [at |-> "read"] PROVE reader'[k].at = "read"
        BY <4>1
      <4>2. ASSUME NEW a \in {"adapter", "put"}, reader'[k] = [reader[k] EXCEPT !.at = a]
            PROVE  reader'[k].msg = reader[k].msg
        BY <3>3, <4>2
      <4>3. QED BY <3>2, <4>1, <4>2
    <3>5. UNCHANGED <<toController, bQ>>
      BY <2>3 DEF NotifyFromServer, NotifyFromAdapter
    <3>6. QED BY <1>2, <2>1, <3>1, <3>4, <3>5 DEF OnlyFirstAsks
  <2>4. CASE PutPacket(k)
    <3>1. reader[k].at = "put" /\ bQ' = Append(bQ, reader[k].msg) /\ UNCHANGED toController
      BY <2>4 DEF PutPacket
    <3>2. bQ' \in Seq(FirstAsks(k))
      <4>1. reader[k].msg \in FirstAsks(k)
        BY <1>2, <3>1
      <4>2. QED BY <1>2, <3>1, <4>1, Lengthened
    <3>3. reader'[k].at = "read"
      BY <1>1, <2>4 DEF PutPacket
    <3>4. QED BY <1>2, <2>1, <3>1, <3>2, <3>3 DEF OnlyFirstAsks
  <2>5. QED BY <1>9, <2>2, <2>3, <2>4 DEF ReaderThread
<1>10. CASE TakePacket
  <2>1. bQ' \in Seq(FirstAsks(k))
    BY <1>2, <1>10, Shortened DEF TakePacket
  <2>2. sending'["application"] = sending["application"]
    BY <1>1, <1>10 DEF TakePacket, StartSending, Senders
  <2>3. UNCHANGED <<simulator, manager, toController, reader>>
    BY <1>10 DEF TakePacket, sinkVars
  <2>4. QED BY <1>2, <2>1, <2>2, <2>3 DEF OnlyFirstAsks
<1>11. CASE ApplicationSends
  <2>1. PICK n \in Nodes : StartSending("application", <<Packet(n)>>)
    BY <1>11 DEF ApplicationSends
  <2>2. <<Packet(n)>> \in Seq(Unasked)
    BY FirstAsked, OneMessage
  <2>3. sending'["application"].todo = <<Packet(n)>>
    BY <1>1, <2>1 DEF StartSending, Senders
  <2>4. UNCHANGED <<simulator, manager, toController, reader, bQ>>
    BY <1>11 DEF ApplicationSends, sinkVars
  <2>5. QED BY <1>3, <2>2, <2>3, <2>4
<1>12. ASSUME NEW w \in Senders, SenderThread(w) PROVE OnlyFirstAsks(k)'
  <2>1. UNCHANGED <<simulator, manager, toController, reader, bQ>>
    BY <1>12 DEF SenderThread, WriteNext, SendNext, IteratorThrows, sinkVars
  <2>2. CASE w # "application"
    <3>1. sending'["application"] = sending["application"]
      BY <1>1, <1>12, <2>2
      DEF SenderThread, WriteNext, SendNext, IteratorThrows, StartSending, Senders
    <3>2. QED BY <1>2, <1>3, <2>1, <3>1
  <2>3. CASE WriteNext("application")
    <3>1. sending'["application"].todo = sending["application"].todo
      BY <1>1, <2>3 DEF WriteNext, Senders, Sendings
    <3>2. QED BY <1>2, <1>3, <2>1, <3>1
  <2>4. CASE SendNext("application")
    <3>1. sending'["application"].todo = Tail(sending["application"].todo)
      BY <1>1, <2>4 DEF SendNext, StartSending, Senders
    <3>2. Tail(sending["application"].todo) \in Seq(Unasked)
      BY <1>2, <2>4, Shortened DEF SendNext
    <3>3. QED BY <1>3, <2>1, <3>1, <3>2
  <2>5. CASE IteratorThrows("application")
    <3>1. sending'["application"].todo = <<>>
      BY <1>1, <2>5 DEF IteratorThrows, NothingToSend, Senders
    <3>2. QED BY <1>3, <2>1, <3>1, EmptySeq
  <2>6. QED BY <1>12, <2>2, <2>3, <2>4, <2>5 DEF SenderThread
<1>13. CASE \/ OpenServerSocket \/ AddObserver \/ AcceptThread
            \/ \E s \in Sinks : ListenerThread(s)
  <2>1. UNCHANGED <<simulator, manager, toController, reader, bQ, sending>>
    BY <1>13
    DEF OpenServerSocket, AddObserver, AcceptThread, Accept, StartReader, ListenerThread,
        Listen, Enqueue, sinkVars, controllerVars
  <2>2. QED BY <1>2, <1>3, <2>1
<1>14. QED
  BY <1>4, <1>6, <1>7, <1>8, <1>9, <1>10, <1>11, <1>12, <1>13 DEF Next, Threads, ManagerThread

\* What is prepared stays so, and the Worker is where it was.
LEMMA WorkerWaits ==
  ASSUME NEW s, PathFirst(s),
         sending'["worker"].todo = sending["worker"].todo,
         sending'["worker"].at = sending["worker"].at,
         \A n : Prepared(s, rules[s], Line(s), n) => Prepared(s, rules'[s], Line(s)', n)
  PROVE  PathFirst(s)'
<1> DEFINE td == sending["worker"].todo
           Ready(n) == Prepared(s, rules[s], Line(s), n)
           Later(n) == Prepared(s, rules'[s], Line(s)', n)
<1>1. \/ td = <<>>
      \/ \E d \in Down : td = <<d>> /\ (NeedsRule(s, d) => Ready(d.to))
      \/ \E p, d \in Down :
           /\ td = <<p, d>> /\ ~NeedsRule(s, p)
           /\ NeedsRule(s, d) => /\ Brings(s, p, d.to)
                                 /\ sending["worker"].at # 1 => Ready(d.to)
  BY DEF PathFirst
<1>2. \A n : Ready(n) => Later(n)
  OBVIOUS
<1> SUFFICES
      \/ td = <<>>
      \/ \E d \in Down : td = <<d>> /\ (NeedsRule(s, d) => Later(d.to))
      \/ \E p, d \in Down :
           /\ td = <<p, d>> /\ ~NeedsRule(s, p)
           /\ NeedsRule(s, d) => /\ Brings(s, p, d.to)
                                 /\ sending["worker"].at # 1 => Later(d.to)
  BY DEF PathFirst
<1> HIDE DEF td, Ready, Later
<1>3. QED BY <1>1, <1>2

\* The line and the Worker, at the steps of a sender
LEMMA SendersKeepOrder ==
  ASSUME NEW k, Sinks = {k}, AskInv(k), NEW w \in Senders, SenderThread(w)
  PROVE  InOrder(k, rules'[k], Line(k)') /\ PathFirst(k)'
<1>1. /\ sending \in [Senders -> Sendings] /\ "worker" \in Senders /\ TypeOK
      /\ clientSockets \in Seq(Sinks) /\ Line(k) \in Seq(Down)
      /\ InOrder(k, rules[k], Line(k)) /\ PathFirst(k)
      /\ sending["worker"].todo # <<>> => connection[TheSink] = "read" /\ sending["worker"].size = 1
  BY LineTyped DEF AskInv, LinkInv, ReaderStarted, TypeOK, Sendings, Senders
<1>2. UNCHANGED <<flowTableQueue, listener, rules>>
  BY DEF SenderThread, WriteNext, SendNext, IteratorThrows, sinkVars
<1> DEFINE td == sending["worker"].todo
           Ready(n) == Prepared(k, rules[k], Line(k), n)
           Later(n) == Prepared(k, rules'[k], Line(k)', n)
<1>3. \/ td = <<>>
      \/ \E d \in Down : td = <<d>> /\ (NeedsRule(k, d) => Ready(d.to))
      \/ \E p, d \in Down :
           /\ td = <<p, d>> /\ ~NeedsRule(k, p)
           /\ NeedsRule(k, d) => /\ Brings(k, p, d.to)
                                 /\ sending["worker"].at # 1 => Ready(d.to)
  BY <1>1 DEF PathFirst
<1>4. td # <<>> => Len(clientSockets) = 1
  BY <1>1, OneToWrite DEF AskInv
<1>5. CASE toSink' = toSink /\ w # "worker"
  <2>1. Line(k)' = Line(k)
    BY <1>2, <1>5 DEF Line
  <2>2. sending'["worker"] = sending["worker"]
    BY <1>1, <1>5 DEF SenderThread, WriteNext, SendNext, IteratorThrows, StartSending
  <2>3. QED BY <1>1, <1>2, <2>1, <2>2, WorkerWaits
<1>6. CASE WriteNext(w)
  <2> DEFINE h == Head(sending[w].todo)
  <2>1. sending[w].todo \in Seq(Down) /\ sending[w].todo # <<>> /\ h \in Down
    BY <1>1, <1>6, Shortened DEF WriteNext, Sendings
  <2>2. clientSockets[sending[w].at] = k
    <3>1. sending[w].at \in 1 .. Len(clientSockets)
      BY <1>1, <1>6, LenProperties DEF WriteNext, Sendings
    <3>2. QED BY <1>1, <3>1, ElementOfSeq
  <2>3. toSink' = [toSink EXCEPT ![k] = Append(@, h)]
    BY <1>6, <2>2 DEF WriteNext
  <2> HIDE DEF h
  <2>4. Line(k)' = Append(Line(k), h)
    BY <1>1, <1>2, <2>1, <2>3, WrittenDownLast
  <2>5. sending' = [sending EXCEPT ![w].at = @ + 1]
    BY <1>6 DEF WriteNext
  <2>6. NeedsRule(k, h) => Ready(h.to)
    <3>1. CASE w = "application"
      <4>1. h \in Unasked
        BY <2>1, <3>1, Shortened DEF h, AskInv, OnlyFirstAsks
      <4>2. QED BY <4>1 DEF Unasked, NeedsRule
    <3>2. CASE w = "worker"
      <4>1. ASSUME NEW d \in Down, td = <<d>> PROVE h = d
        BY <3>2, <4>1 DEF h
      <4>2. ASSUME NEW p \in Down, NEW d \in Down, td = <<p, d>> PROVE h = p
        BY <3>2, <4>2 DEF h
      <4>3. td # <<>>
        BY <2>1, <3>2
      <4> HIDE DEF td, Ready
      <4>4. QED BY <1>3, <4>1, <4>2, <4>3
    <3>3. QED BY <3>1, <3>2 DEF Senders
  <2>7. /\ InOrder(k, rules[k], Append(Line(k), h))
        /\ \A n : Ready(n) \/ Brings(k, h, n) => Prepared(k, rules[k], Append(Line(k), h), n)
    <3> DEFINE R == rules[k]
               q == Line(k)
    <3>1. q \in Seq(Down) /\ h \in Down /\ InOrder(k, R, q)
          /\ (NeedsRule(k, h) => Prepared(k, R, q, h.to))
      BY <1>1, <2>1, <2>6
    <3> HIDE DEF R, q
    <3>2. /\ InOrder(k, R, Append(q, h))
          /\ \A n : Prepared(k, R, q, n) \/ Brings(k, h, n) => Prepared(k, R, Append(q, h), n)
      BY <3>1, PathPut
    <3>3. QED BY <3>2 DEF R, q
  <2>8. InOrder(k, rules'[k], Line(k)') /\ \A n : Ready(n) \/ Brings(k, h, n) => Later(n)
    BY <1>2, <2>4, <2>7
  <2>9. PathFirst(k)'
    <3>1. CASE w # "worker"
      <4>1. sending'["worker"] = sending["worker"]
        BY <1>1, <2>5, <3>1
      <4>2. QED BY <1>1, <2>8, <4>1, WorkerWaits
    <3>2. CASE w = "worker"
      <4>1. sending'["worker"].todo = td
        BY <1>1, <2>5, <3>2 DEF Sendings
      <4>2. td # <<>>
        BY <2>1, <3>2
      <4>3. ASSUME NEW p \in Down, NEW d \in Down, td = <<p, d>> PROVE h = p
        BY <3>2, <4>3 DEF h
      <4>4. \/ \E d \in Down : td = <<d>> /\ (NeedsRule(k, d) => Later(d.to))
            \/ \E p, d \in Down :
                 /\ td = <<p, d>> /\ ~NeedsRule(k, p)
                 /\ NeedsRule(k, d) => Brings(k, p, d.to) /\ Later(d.to)
        <5>1. \A n : Ready(n) \/ Brings(k, h, n) => Later(n)
          BY <2>8
        <5> HIDE DEF td, Ready, Later
        <5>2. ASSUME NEW d \in Down, td = <<d>>, NeedsRule(k, d) => Ready(d.to)
              PROVE  td = <<d>> /\ (NeedsRule(k, d) => Later(d.to))
          BY <5>1, <5>2
        <5>3. ASSUME NEW p \in Down, NEW d \in Down, td = <<p, d>>, ~NeedsRule(k, p),
                     NeedsRule(k, d) => Brings(k, p, d.to)
              PROVE  /\ td = <<p, d>> /\ ~NeedsRule(k, p)
                     /\ NeedsRule(k, d) => Brings(k, p, d.to) /\ Later(d.to)
          BY <4>3, <5>1, <5>3
        <5>4. QED BY <1>3, <4>2, <5>2, <5>3
      <4>5. QED BY <4>1, <4>4 DEF PathFirst
    <3>3. QED BY <3>1, <3>2
  <2>10. QED BY <2>8, <2>9
<1>7. CASE SendNext("worker")
  <2>1. td # <<>> /\ sending["worker"].at # 1
    <3>1. td # <<>> /\ sending["worker"].at > Len(clientSockets)
      BY <1>7 DEF SendNext
    <3>2. Len(clientSockets) = 1
      BY <1>4, <3>1
    <3>3. QED BY <3>1, <3>2
  <2>2. toSink' = toSink /\ sending'["worker"].todo = Tail(td)
    BY <1>1, <1>7 DEF SendNext, StartSending
  <2>3. Line(k)' = Line(k)
    BY <1>2, <2>2 DEF Line
  <2>4. \A n : Ready(n) => Later(n)
    BY <1>2, <2>3
  <2>5. \/ Tail(td) = <<>>
        \/ \E d \in Down : Tail(td) = <<d>> /\ (NeedsRule(k, d) => Later(d.to))
    <3> HIDE DEF td, Ready, Later
    <3>1. ASSUME NEW d \in Down, td = <<d>> PROVE Tail(td) = <<>>
      BY <3>1
    <3>2. ASSUME NEW p \in Down, NEW d \in Down, td = <<p, d>> PROVE Tail(td) = <<d>>
      BY <3>2
    <3>3. ASSUME NEW p \in Down, NEW d \in Down, td = <<p, d>>, NeedsRule(k, d) => Ready(d.to)
          PROVE  Tail(td) = <<d>> /\ (NeedsRule(k, d) => Later(d.to))
      BY <2>4, <3>2, <3>3
    <3>4. QED BY <1>3, <2>1, <3>1, <3>3
  <2>6. PathFirst(k)'
    BY <2>2, <2>5 DEF PathFirst
  <2>7. QED BY <1>1, <1>2, <2>3, <2>6
<1>8. ~IteratorThrows("worker")
  BY <1>1, <1>4 DEF IteratorThrows
<1>9. QED
  <2>1. CASE w = "worker"
    BY <1>6, <1>7, <1>8, <2>1 DEF SenderThread
  <2>2. CASE w # "worker"
    <3>1. CASE WriteNext(w)
      BY <1>6, <3>1
    <3>2. CASE SendNext(w) \/ IteratorThrows(w)
      BY <1>5, <2>2, <3>2 DEF SendNext, IteratorThrows
    <3>3. QED BY <3>1, <3>2 DEF SenderThread
  <2>3. QED BY <2>1, <2>2

LEMMA OrderStays ==
  ASSUME NEW k, Sinks = {k}, AskInv(k), Next
  PROVE  InOrder(k, rules'[k], Line(k)') /\ PathFirst(k)'
<1>1. /\ TypeOK /\ sending \in [Senders -> Sendings] /\ "worker" \in Senders
      /\ rules \in [Sinks -> SUBSET Nodes] /\ Line(k) \in Seq(Down)
      /\ InOrder(k, rules[k], Line(k)) /\ PathFirst(k)
  BY LineTyped DEF AskInv, LinkInv, TypeOK, Sendings, Senders
<1>2. ASSUME rules' = rules, Line(k)' = Line(k),
             sending'["worker"].todo = sending["worker"].todo,
             sending'["worker"].at = sending["worker"].at
      PROVE  InOrder(k, rules'[k], Line(k)') /\ PathFirst(k)'
  BY <1>1, <1>2, WorkerWaits
<1>3. CASE \/ OpenServerSocket \/ AddObserver \/ AcceptThread \/ SimulatorWrites
           \/ \E s \in Sinks : Connect(s) \/ RxRadio(s) \/ ReaderThread(s) \/ ManagerWrites(s)
  <2>1. UNCHANGED <<rules, flowTableQueue, listener, toSink, sending>>
    BY <1>3
    DEF OpenServerSocket, AddObserver, AcceptThread, Accept, StartReader, SimulatorWrites,
        Connect, RxRadio, ReaderThread, ReadPacket, NotifyFromServer, NotifyFromAdapter,
        PutPacket, ManagerWrites, sinkVars, controllerVars
  <2>2. QED BY <1>2, <2>1 DEF Line
<1>4. CASE ApplicationSends
  <2>1. UNCHANGED <<rules, flowTableQueue, listener, toSink>>
    BY <1>4 DEF ApplicationSends, sinkVars
  <2>2. sending'["worker"] = sending["worker"]
    BY <1>1, <1>4 DEF ApplicationSends, StartSending
  <2>3. QED BY <1>2, <2>1, <2>2 DEF Line
<1>5. CASE ListenerThread(k)
  <2>1. Line(k)' = Line(k)
    BY <1>1, <1>5, ListenerKeepsLine
  <2>2. UNCHANGED <<rules, sending>>
    BY <1>5 DEF ListenerThread, Listen, Enqueue, controllerVars
  <2>3. QED BY <1>2, <2>1, <2>2
<1>6. CASE ManagePacket(k)
  <2> DEFINE d == Head(flowTableQueue[k])
             q == Line(k)
             R == rules[k]
             T == rules'[k]
  <2>1. q \in Seq(Down) /\ q # <<>> /\ Head(q) = d /\ Line(k)' = Tail(q) /\ InOrder(k, R, q)
    BY <1>1, <1>6, ManagedFirst
  <2>2. rules' = IF d.t = "path" /\ d.to = k THEN [rules EXCEPT ![k] = @ \cup {d.end}] ELSE rules
    BY <1>6 DEF ManagePacket
  <2> HIDE DEF d, q
  <2>3. R \subseteq T /\ \A n : Brings(k, d, n) => n \in T
    BY <1>1, <2>2 DEF Brings
  <2> HIDE DEF R, T
  <2>4. InOrder(k, T, Tail(q)) /\ \A n : Prepared(k, R, q, n) => Prepared(k, T, Tail(q), n)
    BY <2>1, <2>3, PathTaken
  <2>5. sending' = sending
    BY <1>6 DEF ManagePacket, controllerVars
  <2>6. PathFirst(k)'
    BY <1>1, <2>1, <2>4, <2>5, WorkerWaits DEF q, R, T
  <2>7. QED BY <2>1, <2>4, <2>6 DEF T
<1>7. CASE TakePacket
  <2>1. UNCHANGED <<rules, flowTableQueue, listener, toSink>>
    BY <1>7 DEF TakePacket, sinkVars
  <2>2. Line(k)' = Line(k)
    BY <2>1 DEF Line
  <2>3. CASE UNCHANGED sending
    BY <1>2, <2>1, <2>2, <2>3
  <2>4. ASSUME NEW ds \in Replies(Head(bQ)), StartSending("worker", ds)
        PROVE  PathFirst(k)'
    <3>1. Head(bQ) \in FirstAsks(k)
      BY <1>7, Shortened DEF TakePacket, AskInv, OnlyFirstAsks
    <3>2. \/ ds = <<>>
          \/ \E d \in Down : ds = <<d>> /\ ~NeedsRule(k, d)
          \/ \E p, d \in Down : /\ ds = <<p, d>> /\ ~NeedsRule(k, p)
                                /\ NeedsRule(k, d) => Brings(k, p, d.to)
      BY <2>4, <3>1, RepliesInOrder
    <3>3. sending'["worker"].todo = ds /\ sending'["worker"].at = 1
      BY <1>1, <2>4 DEF StartSending
    <3>4. QED BY <3>2, <3>3 DEF PathFirst
  <2>5. InOrder(k, rules'[k], Line(k)')
    BY <1>1, <2>1, <2>2
  <2>6. QED BY <1>7, <2>3, <2>4, <2>5 DEF TakePacket
<1>8. CASE \E w \in Senders : SenderThread(w)
  BY <1>8, SendersKeepOrder
<1>9. QED
  BY <1>3, <1>4, <1>5, <1>6, <1>7, <1>8 DEF Next, Threads, ManagerThread

LEMMA AskInit ==
  ASSUME NEW k, Sinks = {k}, Init
  PROVE  AskInv(k)
<1>1. LinkInv
  BY InitLinked
<1>2. OnlyFirstAsks(k)
  BY EmptySeq DEF Init, OnlyFirstAsks, NothingToSend, Senders
<1>3. Line(k) = <<>> \o (<<>> \o <<>>)
  BY DEF Init, Line
<1>4. Line(k) = <<>>
  BY <1>3, EmptySeq, ConcatEmptySeq
<1>5. InOrder(k, rules[k], Line(k))
  BY <1>4, EmptySeq DEF InOrder
<1>6. PathFirst(k)
  BY DEF Init, PathFirst, NothingToSend, Senders
<1>7. QED BY <1>1, <1>2, <1>5, <1>6 DEF AskInv

LEMMA AskStep ==
  ASSUME NEW k, Sinks = {k}
  PROVE  AskInv(k) /\ [Next]_vars => AskInv(k)'
<1> SUFFICES ASSUME AskInv(k), [Next]_vars PROVE AskInv(k)'
  OBVIOUS
<1>1. LinkInv'
  BY StepLinked DEF AskInv
<1>2. CASE Next
  BY <1>1, <1>2, AsksStay, OrderStays DEF AskInv
<1>3. CASE UNCHANGED vars
  <2>1. UNCHANGED <<simulator, manager, toController, reader, bQ, sending, rules,
                    flowTableQueue, listener, toSink>>
    BY <1>3 DEF vars, controllerVars, sinkVars
  <2>2. Line(k)' = Line(k)
    BY <2>1 DEF Line
  <2>3. OnlyFirstAsks(k)'
    BY <2>1 DEF AskInv, OnlyFirstAsks
  <2>4. InOrder(k, rules'[k], Line(k)')
    BY <2>1, <2>2 DEF AskInv
  <2>5. PathFirst(k)'
    BY <2>1, <2>2, WorkerWaits DEF AskInv
  <2>6. QED BY <1>1, <2>3, <2>4, <2>5 DEF AskInv
<1>4. QED BY <1>2, <1>3

LEMMA AskedOnce ==
  ASSUME NEW k, Sinks = {k}, AskInv(k)
  PROVE  NobodyAsksTwice
<1>1. ASSUME NEW u \in AsksOf(k) PROVE u.what.asked = 1
  <2>1. u.t = "ask" /\ (u \in ToSet(toController[k]) \/ u = manager[k])
    BY <1>1 DEF AsksOf
  <2>2. None.t # "ask"
    BY DEF None, Just
  <2>3. manager[k] = None \/ manager[k] \in FirstAsks(k)
    BY DEF AskInv, OnlyFirstAsks
  <2>4. ASSUME u \in ToSet(toController[k]) PROVE u \in FirstAsks(k)
    <3>1. toController[k] \in Seq(FirstAsks(k))
      BY DEF AskInv, OnlyFirstAsks
    <3>2. PICK i \in DOMAIN toController[k] : toController[k][i] = u
      BY <2>4 DEF ToSet
    <3>3. QED BY <3>1, <3>2, LenProperties, ElementOfSeq
  <2>5. u \in FirstAsks(k)
    BY <2>1, <2>2, <2>3, <2>4
  <2>6. QED BY <2>1, <2>5 DEF FirstAsks
<1>2. QED BY <1>1 DEF NobodyAsksTwice

(***************************************************************************)
(* With one sink nobody asks for a path twice with the same packet,        *)
(* however many packets the application and the motes send in between:     *)
(* the path is handled before the packet that was asked with, and brings   *)
(* the rule it needs.                                                      *)
(***************************************************************************)
THEOREM PathBeforePacket ==
  ASSUME NEW k, Sinks = {k}
  PROVE  Spec => []NobodyAsksTwice
<1>1. Init => AskInv(k)
  BY AskInit
<1>2. AskInv(k) /\ [Next]_vars => AskInv(k)'
  BY AskStep
<1>3. AskInv(k) => NobodyAsksTwice
  BY AskedOnce
<1>4. QED BY <1>1, <1>2, <1>3, PTL DEF Spec

==============================================================================
