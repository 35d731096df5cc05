-------------------------- MODULE InteractionProofs --------------------------
(***************************************************************************)
(* Theorems of Interaction, for any motes, targets, delays and losses.     *)
(* That one behaviour sends at a time needs LongEnough, which bounds the   *)
(* number of targets by the times that Mediador waits; that its events     *)
(* come and go in its round needs TimeToArrive, which leaves room for the  *)
(* delay of messages too; that the numbers it compares are right needs     *)
(* TimeToAnswer, which leaves room for the answers.                        *)
(***************************************************************************)
EXTENDS Interaction, TLAPS

Pcs == {"none", "begin", "reify", "poll", "exec", "delete", "done"}

Positions == 1 .. (N + 1)

Threads ==
  [pc : Pcs, i : Positions, back : Pcs \X Positions, sleep : Nat, interrupted : BOOLEAN]

Types ==
  /\ round \in Rounds /\ phase \in {"start", "window", "pause", "end"}
  /\ clock \in Nat /\ left \in Nat
  /\ compared \in BOOLEAN /\ chosen \in Behaviours
  /\ thread \in [Rounds -> Threads]
  /\ flag \in [Behaviours -> BOOLEAN]
  /\ event \in [Motes -> Rounds \cup {NoRound}] /\ cont \in [Motes -> 1 .. EventPeriod]
  /\ net \subseteq Messages
  /\ worker \in BOOLEAN
  /\ metrics \in Metrics
  /\ sending \in [Rounds -> Places] /\ receiving \in Places /\ watching \in Places
  /\ exchanged \in [Rounds -> Nat]
  /\ lost \in 0 .. MaxLost

\* Each round adds one number, until there are three.
NumbersSoFar ==
  /\ ~compared => round = Single /\ Len(metrics.qntMsg) <= 3
  /\ compared => Len(metrics.qntMsg) =
                   IF round # Single /\ watching = Stopped THEN round + 1 ELSE round
  /\ phase = "end" \/ left > 0 => round = Single

TypeInv == Types /\ NumbersSoFar

------------------------------------------------------------------------------
(* Where the threads are *)

\* How many ticks the loop that thread r is in takes yet.
ToSend(r) == thread[r].sleep + (N + 1 - thread[r].i)

Polls(r) == Behaviour(r) = Polling

\* In its window.
Works(r) ==
  /\ ~thread[r].interrupted
  /\ thread[r].pc \in {"begin", "reify", "poll", "exec"}
  /\ thread[r].pc = "begin" => thread[r].sleep = 0 /\ clock > 0 /\ clock \in Windows
  /\ thread[r].pc = "poll" => Polls(r) /\ thread[r].sleep <= PollPause
  /\ thread[r].pc = "exec" => ~Polls(r)
  /\ thread[r].pc = "reify" => ToSend(r) <= IF Polls(r) THEN N ELSE clock
  /\ thread[r].pc # "begin" => flag[Behaviour(r)]

\* Its window is over, but it has not slept since.
ToInterrupt(r) ==
  /\ thread[r].interrupted /\ clock = Pause
  /\ thread[r].pc \in IF Polls(r) THEN {"reify", "poll"} ELSE {"reify", "exec"}
  /\ thread[r].pc = "poll" => thread[r].sleep <= PollPause
  /\ thread[r].pc = "reify" => ToSend(r) <= IF Polls(r) THEN N ELSE 0
  /\ flag[Behaviour(r)]

\* It was interrupted.
Ends(r) ==
  /\ ~thread[r].interrupted /\ ~flag[Behaviour(r)]
  /\ thread[r].pc \in IF Polls(r) THEN {"reify", "poll", "done"} ELSE {"delete", "exec", "done"}
  /\ thread[r].pc = "poll" => thread[r].sleep <= PollPause
  /\ thread[r].pc = "delete" => thread[r].back[1] = "exec"
  /\ thread[r].pc \in {"reify", "delete"} => ToSend(r) < clock
  /\ thread[r].pc = "exec" => thread[r].sleep = 0 /\ clock > 0

\* A poller that was interrupted while it polled sleeps once more.  It wakes
\* before its flag can be set again.
SleepsOnce(r) ==
  /\ r = Polling /\ round = Alert
  /\ thread[r].pc = "poll" /\ ~thread[r].interrupted /\ ~flag[Polling]
  /\ CASE phase = "start"  -> thread[r].sleep <= PollPause
       [] phase = "window" -> thread[r].sleep <= clock
       [] phase = "pause"  -> thread[r].sleep = 0 /\ clock = Pause

Over(r) == thread[r].pc \in {"none", "done"} /\ ~thread[r].interrupted

(***************************************************************************)
(* OneBehaviourSends is about the threads of past rounds.  They are silent *)
(* because the loop that the present one is in ends before the clock of    *)
(* Mediador does.                                                          *)
(***************************************************************************)
PlaceInv ==
  /\ \A r \in Rounds : r > round => thread[r] = NoThread
  /\ \A r \in Rounds : r < round => Over(r) \/ SleepsOnce(r)
  /\ phase = "start" => thread[round] = NoThread
  /\ phase = "window" => Works(round) /\ (round # Single => left = 0)
  /\ phase = "pause" => ToInterrupt(round) \/ Ends(round)
  /\ phase = "end" => \/ Over(round)
                      \/ /\ thread[round].pc = "poll" /\ ~thread[round].interrupted
                         /\ ~flag[Behaviour(round)]

------------------------------------------------------------------------------
(* Types *)

LEMMA TargetsCounted == N \in Nat /\ N >= 1 /\ 1 \in Positions
BY InteractionAssumption DEF N, Positions

LEMMA NoThreadTyped == NoThread \in Threads
BY TargetsCounted DEF NoThread, Threads, Pcs, Positions

\* The counters stay numbers, and the places of those who count places.
Direction(aux, msg) ==
  \/ aux = "auxTX" /\ msg = "countMsgTX"
  \/ aux = "auxRX" /\ msg = "countMsgRX"

LEMMA PlacesTyped ==
  /\ Idle \in Places /\ ToCount \in Places /\ Stopped \in Places
  /\ ToStartMsg \in Places /\ ToStopMsg \in Places
BY DEF Idle, ToCount, Stopped, ToStartMsg, ToStopMsg, At, Places

LEMMA AccessTyped ==
  ASSUME metrics \in Metrics, NEW p \in Places, NEW aux, NEW msg, Direction(aux, msg)
  PROVE  /\ Access(p, aux, msg) \in Metrics /\ Access(p, aux, msg).qntMsg = metrics.qntMsg
         /\ NextPlace(p, aux) \in Places
<1>1. p.value \in Nat /\ p.value + 1 \in Nat
  BY DEF Places
<1>2. /\ [metrics EXCEPT !.auxTX = 0] \in Metrics
      /\ [metrics EXCEPT !.auxRX = 0] \in Metrics
      /\ [metrics EXCEPT !.count = TRUE] \in Metrics
      /\ [metrics EXCEPT !.auxTX = 0].qntMsg = metrics.qntMsg
      /\ [metrics EXCEPT !.auxRX = 0].qntMsg = metrics.qntMsg
      /\ [metrics EXCEPT !.count = TRUE].qntMsg = metrics.qntMsg
  BY DEF Metrics
<1>3. ASSUME NEW n \in Nat
      PROVE  /\ [metrics EXCEPT ![aux] = n] \in Metrics
             /\ [metrics EXCEPT ![aux] = n].qntMsg = metrics.qntMsg
             /\ [metrics EXCEPT ![msg] = n] \in Metrics
             /\ [metrics EXCEPT ![msg] = n].qntMsg = metrics.qntMsg
  BY DEF Metrics, Direction
<1>4. /\ Access(p, aux, msg) \in Metrics /\ Access(p, aux, msg).qntMsg = metrics.qntMsg
  BY <1>1, <1>2, <1>3 DEF Access
<1>5. metrics[aux] \in Nat
  BY DEF Metrics, Direction
<1>6. NextPlace(p, aux) \in Places
  BY <1>5 DEF NextPlace, At, Idle, Places
<1>7. QED BY <1>4, <1>6

LEMMA CountTyped ==
  ASSUME Types, (\E r \in Rounds : CountTX(r)) \/ CountRX
  PROVE  /\ metrics' \in Metrics /\ metrics'.qntMsg = metrics.qntMsg
         /\ sending' \in [Rounds -> Places] /\ receiving' \in Places /\ watching' = watching
<1>1. CASE \E r \in Rounds : CountTX(r)
  <2>1. PICK r \in Rounds : CountTX(r)
    BY <1>1
  <2>2. sending[r] \in Places /\ metrics \in Metrics
    BY DEF Types
  <2>3. /\ Access(sending[r], "auxTX", "countMsgTX") \in Metrics
        /\ Access(sending[r], "auxTX", "countMsgTX").qntMsg = metrics.qntMsg
        /\ NextPlace(sending[r], "auxTX") \in Places
    BY <2>2, AccessTyped DEF Direction
  <2>4. QED BY <2>1, <2>3 DEF CountTX, Types
<1>2. CASE CountRX
  <2>1. receiving \in Places /\ metrics \in Metrics
    BY DEF Types
  <2>2. /\ Access(receiving, "auxRX", "countMsgRX") \in Metrics
        /\ Access(receiving, "auxRX", "countMsgRX").qntMsg = metrics.qntMsg
        /\ NextPlace(receiving, "auxRX") \in Places
    BY <2>1, AccessTyped DEF Direction
  <2>3. QED BY <1>2, <2>2 DEF CountRX, Types
<1>3. QED BY <1>1, <1>2

\* What Mediador does to the counters: one step appends the number of a round.
Closes ==
  /\ watching.step = "readRX" /\ watching' = Stopped
  /\ metrics' = [metrics EXCEPT !.qntMsg =
                   IF Len(@) < 3 THEN Append(@, watching.value + metrics.countMsgRX) ELSE @]

LEMMA ClosesNumbers ==
  ASSUME Types, Closes
  PROVE  /\ metrics' \in Metrics /\ metrics.qntMsg \in Seq(Nat)
         /\ watching.value + metrics.countMsgRX \in Nat
         /\ metrics'.qntMsg = IF Len(metrics.qntMsg) < 3
                              THEN Append(metrics.qntMsg, watching.value + metrics.countMsgRX)
                              ELSE metrics.qntMsg
         /\ metrics'.count = metrics.count
         /\ metrics'.countMsgTX = metrics.countMsgTX /\ metrics'.countMsgRX = metrics.countMsgRX
<1>1. /\ metrics \in Metrics /\ metrics.qntMsg \in Seq(Nat)
      /\ watching.value + metrics.countMsgRX \in Nat
  BY DEF Types, Metrics, Places
<1>2. Append(metrics.qntMsg, watching.value + metrics.countMsgRX) \in Seq(Nat)
  BY <1>1
<1>3. QED BY <1>1, <1>2 DEF Closes, Metrics

LEMMA WatchTyped ==
  ASSUME Types, Watch
  PROVE  /\ metrics' \in Metrics /\ watching' \in Places
         /\ UNCHANGED <<sending, receiving>>
         /\ \/ Closes
            \/ /\ metrics'.qntMsg = metrics.qntMsg /\ watching' # Stopped /\ watching # Stopped
<1>1. metrics \in Metrics /\ watching \in Places /\ metrics.countMsgTX \in Nat
  BY DEF Types, Metrics
<1>2. CASE StartMsg
  <2>1. metrics' \in Metrics /\ metrics'.qntMsg = metrics.qntMsg
    <3>1. \/ metrics' = [metrics EXCEPT !.countMsgTX = 0]
          \/ metrics' = [metrics EXCEPT !.countMsgRX = 0]
          \/ metrics' = [metrics EXCEPT !.count = FALSE]
      BY <1>2 DEF StartMsg
    <3>2. /\ [metrics EXCEPT !.countMsgTX = 0] \in Metrics
          /\ [metrics EXCEPT !.countMsgRX = 0] \in Metrics
          /\ [metrics EXCEPT !.count = FALSE] \in Metrics
          /\ [metrics EXCEPT !.countMsgTX = 0].qntMsg = metrics.qntMsg
          /\ [metrics EXCEPT !.countMsgRX = 0].qntMsg = metrics.qntMsg
          /\ [metrics EXCEPT !.count = FALSE].qntMsg = metrics.qntMsg
      BY <1>1 DEF Metrics
    <3>3. QED BY <3>1, <3>2
  <2>2. watching' \in Places /\ watching' # Stopped /\ watching # Stopped
    BY <1>2 DEF StartMsg, Places, Stopped, Idle, At
  <2>3. QED BY <2>1, <2>2 DEF Watch
<1>3. CASE StopMsg /\ watching.step # "readRX"
  <2>1. metrics' \in Metrics /\ metrics'.qntMsg = metrics.qntMsg
    BY <1>1, <1>3 DEF StopMsg, Metrics
  <2>2. watching' \in Places /\ watching' # Stopped /\ watching # Stopped
    BY <1>1, <1>3 DEF StopMsg, Places, Stopped, At
  <2>3. QED BY <2>1, <2>2 DEF Watch
<1>4. CASE StopMsg /\ watching.step = "readRX"
  <2>1. Closes
    BY <1>4 DEF StopMsg, Closes
  <2>2. QED BY <2>1, ClosesNumbers, PlacesTyped DEF Closes, Watch
<1>5. QED BY <1>2, <1>3, <1>4 DEF Watch

LEMMA ExchangeTyped ==
  ASSUME Types, Exchange
  PROVE  exchanged' \in [Rounds -> Nat]
BY DEF Types, Exchange

LEMMA SendTyped ==
  ASSUME Types, NEW r \in Rounds, NEW i \in 1 .. N, NEW asks \in Asked,
         SendMessage(Targets[i], r, asks)
  PROVE  /\ net' \subseteq Messages
         /\ UNCHANGED <<metrics, receiving, watching>>
         /\ sending' \in [Rounds -> Places] /\ sending' = [sending EXCEPT ![r] = ToCount]
         /\ exchanged' \in [Rounds -> Nat] /\ Exchange
<1>1. /\ net' = IF Targets[i] \notin Motes THEN net
                ELSE net \cup {[mote |-> Targets[i], up |-> FALSE, round |-> r, asks |-> asks,
                                says |-> "request", age |-> 0]}
      /\ UNCHANGED <<metrics, receiving, watching>>
      /\ sending' = [sending EXCEPT ![r] = ToCount] /\ Exchange
  BY DEF SendMessage
<1>2. 0 \in 0 .. MaxDelay
  BY InteractionAssumption
<1>3. Targets[i] \in Motes =>
         [mote |-> Targets[i], up |-> FALSE, round |-> r, asks |-> asks, says |-> "request", age |-> 0]
           \in Messages
  BY <1>2 DEF Messages
<1>4. net' \subseteq Messages
  BY <1>1, <1>3 DEF Types
<1>5. sending' \in [Rounds -> Places]
  BY <1>1, PlacesTyped DEF Types
<1>6. QED BY <1>1, <1>4, <1>5, ExchangeTyped

LEMMA BehaviourTyped ==
  ASSUME Types, NEW r \in Rounds
  PROVE  Behaviour(r) \in Behaviours /\ Asks(Behaviour(r)) \in Asked
<1>1. Behaviour(r) \in Behaviours
  BY DEF Types, Behaviour, Rounds
<1>2. QED
  BY <1>1 DEF Asks, Asked, Behaviours, Periodic, Polling, Alert

\* What of a thread a step of it changes.
LEMMA ThreadTyped ==
  ASSUME Types, NEW r \in Rounds, NEW t \in Threads, thread' = [thread EXCEPT ![r] = t]
  PROVE  /\ thread' \in [Rounds -> Threads] /\ thread'[r] = t
         /\ \A q \in Rounds : q # r => thread'[q] = thread[q]
BY DEF Types

Sends(r) == Reify(r) \/ Delete(r)

LEMMA SendsShape ==
  ASSUME Types, NEW r \in Rounds, Sends(r)
  PROVE  /\ UNCHANGED <<mediadorVars, flag, moteVars, worker, lost>>
         /\ net' \subseteq Messages
         /\ UNCHANGED <<metrics, receiving, watching>>
         /\ sending' \in [Rounds -> Places] /\ sending' = [sending EXCEPT ![r] = ToCount]
         /\ exchanged' \in [Rounds -> Nat] /\ Exchange
         /\ thread[r].pc \in {"reify", "delete"} /\ thread[r].sleep = 0 /\ thread[r].i \in 1 .. N
         /\ thread' \in [Rounds -> Threads]
         /\ thread'[r] = [thread[r] EXCEPT !.i = @ + 1, !.sleep = 1]
         /\ \A q \in Rounds : q # r => thread'[q] = thread[q]
<1>1. thread[r] \in Threads
  BY DEF Types
<1>2. /\ thread[r].pc \in {"reify", "delete"} /\ thread[r].sleep = 0 /\ thread[r].i <= N
      /\ \E asks \in Asked : SendMessage(Targets[thread[r].i], r, asks)
      /\ UNCHANGED <<mediadorVars, flag, moteVars, worker, lost>>
      /\ thread' = [thread EXCEPT ![r].i = @ + 1, ![r].sleep = 1]
  BY BehaviourTyped DEF Sends, Reify, Delete, Awake, Asked
<1>3. thread[r].i \in 1 .. N
  BY <1>1, <1>2, TargetsCounted DEF Threads, Positions
<1>4. [thread[r] EXCEPT !.i = @ + 1, !.sleep = 1] \in Threads
  <2>1. thread[r].i + 1 \in Positions
    BY <1>3, TargetsCounted DEF Positions
  <2>2. QED BY <1>1, <2>1 DEF Threads
<1>5. thread' = [thread EXCEPT ![r] = [thread[r] EXCEPT !.i = @ + 1, !.sleep = 1]]
  BY <1>2
<1>6. QED BY <1>2, <1>3, <1>4, <1>5, SendTyped, ThreadTyped

\* The other steps of a thread leave messages and counters alone.
Moves(r) ==
  Begin(r) \/ ReifyEnds(r) \/ PollAgain(r) \/ ExecEnds(r) \/ Interrupted(r) \/ DeleteEnds(r)

LEMMA MovesShape ==
  ASSUME Types, NEW r \in Rounds, Moves(r)
  PROVE  /\ UNCHANGED <<mediadorVars, moteVars, net, controllerVars, lost>>
         /\ thread' \in [Rounds -> Threads] /\ flag' \in [Behaviours -> BOOLEAN]
         /\ \A q \in Rounds : q # r => thread'[q] = thread[q]
<1>1. thread[r] \in Threads /\ flag \in [Behaviours -> BOOLEAN] /\ PollPause \in Nat
  BY InteractionAssumption DEF Types
<1>2. UNCHANGED <<mediadorVars, moteVars, net, controllerVars, lost>>
  BY DEF Moves, Begin, ReifyEnds, PollAgain, ExecEnds, Interrupted, DeleteEnds
<1>3. flag' \in [Behaviours -> BOOLEAN]
  BY <1>1 DEF Moves, Begin, ReifyEnds, PollAgain, ExecEnds, Interrupted, DeleteEnds
<1>4. \E t \in Threads : thread' = [thread EXCEPT ![r] = t]
  <2>1. CASE Begin(r)
    <3>1. thread' = [thread EXCEPT ![r] = [thread[r] EXCEPT !.pc = "reify", !.i = 1]]
      BY <2>1 DEF Begin
    <3>2. [thread[r] EXCEPT !.pc = "reify", !.i = 1] \in Threads
      BY <1>1, TargetsCounted DEF Threads, Pcs
    <3>3. QED BY <3>1, <3>2
  <2>2. CASE ReifyEnds(r)
    <3>1. \/ thread' = [thread EXCEPT ![r] = [thread[r] EXCEPT !.pc = "poll", !.sleep = PollPause]]
          \/ thread' = [thread EXCEPT ![r] = [thread[r] EXCEPT !.pc = "exec"]]
      BY <2>2 DEF ReifyEnds
    <3>2. /\ [thread[r] EXCEPT !.pc = "poll", !.sleep = PollPause] \in Threads
          /\ [thread[r] EXCEPT !.pc = "exec"] \in Threads
      BY <1>1 DEF Threads, Pcs
    <3>3. QED BY <3>1, <3>2
  <2>3. CASE PollAgain(r)
    <3>1. \/ thread' = [thread EXCEPT ![r] = [thread[r] EXCEPT !.pc = "reify", !.i = 1]]
          \/ thread' = [thread EXCEPT ![r] = [thread[r] EXCEPT !.pc = "done"]]
      BY <2>3 DEF PollAgain
    <3>2. /\ [thread[r] EXCEPT !.pc = "reify", !.i = 1] \in Threads
          /\ [thread[r] EXCEPT !.pc = "done"] \in Threads
      BY <1>1, TargetsCounted DEF Threads, Pcs
    <3>3. QED BY <3>1, <3>2
  <2>4. CASE ExecEnds(r)
    <3>1. thread' = [thread EXCEPT ![r] = [thread[r] EXCEPT !.pc = "done"]]
      BY <2>4 DEF ExecEnds
    <3>2. [thread[r] EXCEPT !.pc = "done"] \in Threads
      BY <1>1 DEF Threads, Pcs
    <3>3. QED BY <3>1, <3>2
  <2>5. CASE Interrupted(r)
    <3>1. \/ thread' = [thread EXCEPT ![r] = [thread[r] EXCEPT !.sleep = 0, !.interrupted = FALSE]]
          \/ thread' = [thread EXCEPT ![r] =
                          [thread[r] EXCEPT !.sleep = 0, !.interrupted = FALSE,
                                            !.back = <<thread[r].pc, thread[r].i>>,
                                            !.pc = "delete", !.i = 1]]
      BY <2>5 DEF Interrupted
    <3>2. /\ [thread[r] EXCEPT !.sleep = 0, !.interrupted = FALSE] \in Threads
          /\ [thread[r] EXCEPT !.sleep = 0, !.interrupted = FALSE,
                               !.back = <<thread[r].pc, thread[r].i>>,
                               !.pc = "delete", !.i = 1] \in Threads
      BY <1>1, TargetsCounted DEF Threads, Pcs
    <3>3. QED BY <3>1, <3>2
  <2>6. CASE DeleteEnds(r)
    <3>1. thread' = [thread EXCEPT ![r] = [thread[r] EXCEPT !.pc = thread[r].back[1],
                                                            !.i = thread[r].back[2]]]
      BY <2>6 DEF DeleteEnds
    <3>2. thread[r].back[1] \in Pcs /\ thread[r].back[2] \in Positions
      BY <1>1 DEF Threads
    <3>3. [thread[r] EXCEPT !.pc = thread[r].back[1], !.i = thread[r].back[2]] \in Threads
      BY <1>1, <3>2 DEF Threads
    <3>4. QED BY <3>1, <3>3
  <2>7. QED BY <2>1, <2>2, <2>3, <2>4, <2>5, <2>6 DEF Moves
<1>5. QED BY <1>2, <1>3, <1>4, ThreadTyped

\* Of three numbers one is the least.
LEMMA FewestExists ==
  ASSUME NEW counts \in Seq(Nat), Len(counts) = 3
  PROVE  Fewest(counts) \in Behaviours
<1> DEFINE Least(b) == \A c \in Behaviours :
                          counts[b + 1] < counts[c + 1] \/ (counts[b + 1] = counts[c + 1] /\ b <= c)
<1>1. counts[1] \in Nat /\ counts[2] \in Nat /\ counts[3] \in Nat
  <2>1. \A n \in 1 .. Len(counts) : counts[n] \in Nat
    OBVIOUS
  <2>2. QED BY <2>1
<1>2. Behaviours = {0, 1, 2}
  BY DEF Behaviours, Periodic, Polling, Alert
<1>3. Least(0) \/ Least(1) \/ Least(2)
  <2>1. 0 + 1 = 1 /\ 1 + 1 = 2 /\ 2 + 1 = 3
    OBVIOUS
  <2>2. Least(0) <=> /\ counts[1] <= counts[2] /\ counts[1] <= counts[3]
    BY <1>1, <1>2
  <2>3. Least(1) <=> /\ counts[2] < counts[1] /\ counts[2] <= counts[3]
    BY <1>1, <1>2
  <2>4. Least(2) <=> /\ counts[3] < counts[1] /\ counts[3] < counts[2]
    BY <1>1, <1>2
  <2> HIDE DEF Least
  <2>5. QED BY <1>1, <2>2, <2>3, <2>4
<1>4. \E b \in Behaviours : Least(b)
  <2> HIDE DEF Least
  <2> QED BY <1>2, <1>3
<1>5. QED BY <1>4 DEF Fewest

LEMMA MediadorTyped ==
  ASSUME TypeInv, Mediador
  PROVE  TypeInv'
<1>1. /\ metrics \in Metrics /\ round \in Rounds /\ chosen \in Behaviours /\ clock \in Nat /\ left \in Nat
      /\ compared \in BOOLEAN /\ phase \in {"start", "window", "pause", "end"}
  BY DEF TypeInv, Types
<1>2. Windows \subseteq Nat /\ SingleWindows - 1 \in Nat /\ Pause \in Nat
  BY InteractionAssumption
<1>3. UNCHANGED <<flag, moteVars, net, worker, sending, receiving, exchanged, lost>>
  BY DEF Mediador, Execute, CallStopMsg, NextWindow, Stop, NextRound, MediadorCounts, Watch,
         threadVars, controllerVars, countVars
<1>4. thread' \in [Rounds -> Threads]
  <2>1. thread' = thread \/ thread' = [thread EXCEPT ![round] = [NoThread EXCEPT !.pc = "begin"]]
        \/ thread' = [thread EXCEPT ![round] = [thread[round] EXCEPT !.interrupted = TRUE]]
    BY DEF Mediador, Execute, CallStopMsg, NextWindow, Stop, NextRound, MediadorCounts, threadVars
  <2>2. [NoThread EXCEPT !.pc = "begin"] \in Threads
    BY TargetsCounted DEF NoThread, Threads, Pcs, Positions
  <2>3. thread[round] \in Threads /\ [thread[round] EXCEPT !.interrupted = TRUE] \in Threads
    BY <1>1 DEF TypeInv, Types, Threads
  <2>4. QED BY <1>1, <2>1, <2>2, <2>3, ThreadTyped DEF TypeInv, Types
<1>5. ASSUME /\ metrics' \in Metrics /\ watching' \in Places
             /\ round' \in Rounds /\ phase' \in {"start", "window", "pause", "end"}
             /\ clock' \in Nat /\ left' \in Nat /\ compared' = compared /\ chosen' \in Behaviours
      PROVE  Types'
  BY <1>1, <1>3, <1>4, <1>5 DEF TypeInv, Types, moteVars
<1>6. ToStartMsg # Stopped /\ ToStopMsg # Stopped /\ Idle # Stopped
  BY DEF ToStartMsg, ToStopMsg, Stopped, Idle, At
<1>7. CASE Execute
  <2>1. /\ UNCHANGED <<round, compared, chosen, metrics, watching>>
        /\ phase' = "window" /\ clock' \in Nat /\ left' \in Nat
        /\ left' > 0 => round = Single
    BY <1>1, <1>2, <1>7 DEF Execute, controllerVars, countVars
  <2>2. Types'
    BY <1>1, <1>5, <2>1 DEF TypeInv, Types
  <2>3. QED BY <2>1, <2>2 DEF TypeInv, NumbersSoFar
<1>8. CASE CallStopMsg
  <2>1. /\ UNCHANGED <<round, phase, clock, left, compared, chosen, metrics>>
        /\ watching = Idle /\ watching' = ToStopMsg
    BY <1>8 DEF CallStopMsg, mediadorVars
  <2>2. Types'
    BY <1>1, <1>5, <2>1, PlacesTyped
  <2>3. QED BY <1>6, <2>1, <2>2 DEF TypeInv, NumbersSoFar
<1>9. CASE NextWindow
  <2>1. /\ UNCHANGED <<round, phase, compared, chosen, metrics>>
        /\ round = Single /\ left' \in Nat /\ clock' \in Nat
        /\ watching' = ToStartMsg
    BY <1>1, <1>2, <1>9 DEF NextWindow, TypeInv, NumbersSoFar
  <2>2. Types'
    BY <1>1, <1>5, <2>1, PlacesTyped
  <2>3. QED BY <2>1, <2>2 DEF TypeInv, NumbersSoFar
<1>10. CASE Stop
  <2>1. /\ UNCHANGED <<round, left, compared, chosen, metrics>>
        /\ phase' = "pause" /\ clock' \in Nat /\ watching' = Idle
        /\ round # Single => watching = Idle
    BY <1>2, <1>10 DEF Stop
  <2>2. Types'
    BY <1>1, <1>5, <2>1, PlacesTyped
  <2>3. QED BY <1>6, <2>1, <2>2 DEF TypeInv, NumbersSoFar
<1>11. CASE NextRound
  <2>1. /\ UNCHANGED <<clock, left, compared, metrics>>
        /\ phase' \in {"start", "end"} /\ (phase' = "end" => round' = Single)
        /\ round' = IF round = Single THEN Single ELSE round + 1
        /\ watching = Stopped /\ watching' \in {Idle, ToStartMsg}
        /\ phase # "end"
    BY <1>1, <1>11 DEF NextRound
  <2>2. round' \in Rounds
    BY <1>1, <2>1 DEF Rounds, Behaviours, Periodic, Polling, Alert, Single
  <2>3. compared => Len(metrics.qntMsg) = round'
    BY <2>1 DEF TypeInv, NumbersSoFar
  <2>4. chosen' \in Behaviours
    <3>1. CASE round = Alert
      <4>1. compared /\ round' = 3
        BY <2>1, <3>1 DEF TypeInv, NumbersSoFar, Alert, Single
      <4>2. metrics.qntMsg \in Seq(Nat) /\ Len(metrics.qntMsg) = 3
        BY <1>1, <2>3, <4>1 DEF Metrics
      <4>3. QED BY <1>11, <3>1, <4>2, FewestExists DEF NextRound
    <3>2. CASE round # Alert
      BY <1>1, <1>11, <3>2 DEF NextRound
    <3>3. QED BY <3>1, <3>2
  <2>5. Types'
    BY <1>1, <1>5, <2>1, <2>2, <2>4, PlacesTyped
  <2>6. left > 0 => round' = Single
    BY <2>1 DEF TypeInv, NumbersSoFar
  <2>7. ~compared => round' = Single /\ Len(metrics.qntMsg) <= 3
    BY <2>1 DEF TypeInv, NumbersSoFar
  <2>8. watching' # Stopped
    BY <1>6, <2>1
  <2>9. QED BY <2>1, <2>3, <2>5, <2>6, <2>7, <2>8 DEF TypeInv, NumbersSoFar
<1>12. CASE MediadorCounts
  <2>1. UNCHANGED <<round, phase, clock, left, compared, chosen>> /\ Watch
    BY <1>12 DEF MediadorCounts, mediadorVars
  <2>2. Types
    BY DEF TypeInv
  <2>3. /\ metrics' \in Metrics /\ watching' \in Places
        /\ \/ Closes
           \/ metrics'.qntMsg = metrics.qntMsg /\ watching' # Stopped /\ watching # Stopped
    BY <2>1, <2>2, WatchTyped
  <2>4. Types'
    BY <1>1, <1>5, <2>1, <2>3
  <2>5. CASE ~Closes
    BY <2>1, <2>3, <2>4, <2>5 DEF TypeInv, NumbersSoFar
  <2>6. CASE Closes
    <3>1. /\ metrics.qntMsg \in Seq(Nat) /\ watching.value + metrics.countMsgRX \in Nat
          /\ metrics'.qntMsg = IF Len(metrics.qntMsg) < 3
                               THEN Append(metrics.qntMsg, watching.value + metrics.countMsgRX)
                               ELSE metrics.qntMsg
      BY <2>2, <2>6, ClosesNumbers
    <3>2. watching # Stopped /\ watching' = Stopped
      BY <2>6 DEF Closes, Stopped, At
    <3>3. /\ Len(metrics.qntMsg) < 3 => Len(metrics'.qntMsg) = Len(metrics.qntMsg) + 1
          /\ Len(metrics.qntMsg) >= 3 => metrics'.qntMsg = metrics.qntMsg
          /\ Len(metrics.qntMsg) \in Nat
      BY <3>1
    <3>4. /\ ~compared => round = Single /\ Len(metrics.qntMsg) <= 3
          /\ compared => Len(metrics.qntMsg) = round
      BY <3>2 DEF TypeInv, NumbersSoFar
    <3>5. round = 3 \/ round \in 0 .. 2
      BY <1>1 DEF Rounds, Behaviours, Periodic, Polling, Alert, Single
    <3>6. /\ compared => Len(metrics'.qntMsg) = IF round # 3 THEN round + 1 ELSE round
          /\ ~compared => Len(metrics'.qntMsg) <= 3
      BY <3>3, <3>4, <3>5
    <3>7. QED BY <2>1, <2>4, <3>2, <3>4, <3>6 DEF TypeInv, NumbersSoFar, Single
  <2>7. QED BY <2>5, <2>6
<1>13. QED BY <1>7, <1>8, <1>9, <1>10, <1>11, <1>12 DEF Mediador

\* A step of a thread but for the counting.
Runs(r) == Sends(r) \/ Moves(r)

LEMMA BehaviourStepRuns ==
  ASSUME NEW r \in Rounds, BehaviourStep(r)
  PROVE  (Runs(r) /\ sending[r] = Idle) \/ BehaviourCounts(r)
BY DEF BehaviourStep, Runs, Sends, Moves

\* Somebody counts.
Count == (\E r \in Rounds : BehaviourCounts(r)) \/ WorkerCounts

LEMMA CountChanges ==
  ASSUME Count
  PROVE  /\ UNCHANGED <<mediadorVars, threadVars, moteVars, net, worker, exchanged, lost>>
         /\ (\E r \in Rounds : CountTX(r)) \/ CountRX
BY DEF Count, BehaviourCounts, WorkerCounts

LEMMA CountStepTyped ==
  ASSUME TypeInv, Count
  PROVE  TypeInv'
<1>1. /\ metrics' \in Metrics /\ metrics'.qntMsg = metrics.qntMsg
      /\ sending' \in [Rounds -> Places] /\ receiving' \in Places /\ watching' = watching
  BY CountChanges, CountTyped DEF TypeInv
<1>2. QED
  BY <1>1, CountChanges DEF TypeInv, Types, NumbersSoFar, mediadorVars, threadVars, moteVars

LEMMA BehaviourStepTyped ==
  ASSUME TypeInv, NEW r \in Rounds, BehaviourStep(r)
  PROVE  TypeInv'
<1>1. CASE Sends(r)
  BY <1>1, SendsShape DEF TypeInv, Types, NumbersSoFar, mediadorVars, moteVars
<1>2. CASE Moves(r)
  BY <1>2, MovesShape
     DEF TypeInv, Types, NumbersSoFar, mediadorVars, moteVars, controllerVars, countVars
<1>3. CASE BehaviourCounts(r)
  BY <1>3, CountStepTyped DEF Count
<1>4. QED BY <1>1, <1>2, <1>3, BehaviourStepRuns DEF Runs

LEMMA MessagesTyped ==
  ASSUME TypeInv, NEW x \in net, ReceiveController(x) \/ ReceivePacket(x) \/ Lose(x)
  PROVE  TypeInv'
<1>1. x \in Messages /\ metrics \in Metrics /\ 1 \in 1 .. EventPeriod /\ 0 \in 0 .. MaxDelay
  BY InteractionAssumption DEF TypeInv, Types
<1>2. x.mote \in Motes /\ x.round \in Rounds
  BY <1>1 DEF Messages
<1>3. CASE ReceiveController(x)
  <2>1. UNCHANGED <<mediadorVars, threadVars, controllerVars, lost>> /\ CheckRequest(x)
    BY <1>3 DEF ReceiveController
  <2>2. event' \in [Motes -> Rounds \cup {NoRound}] /\ cont' \in [Motes -> 1 .. EventPeriod]
    BY <1>1, <1>2, <2>1 DEF TypeInv, Types, CheckRequest
  <2>3. \A says \in {"reading", "notice", "error"} : Answer(x, says) \in Messages
    BY <1>1 DEF Answer, Messages
  <2>4. net' \subseteq Messages
    <3>1. \E says \in {"reading", "notice", "error"} : net' = (net \ {x}) \cup {Answer(x, says)}
      BY <2>1 DEF CheckRequest
    <3>2. QED BY <2>3, <3>1 DEF TypeInv, Types
  <2>5. QED
    BY <2>1, <2>2, <2>4
       DEF TypeInv, Types, NumbersSoFar, mediadorVars, threadVars, controllerVars, countVars
<1>4. CASE ReceivePacket(x)
  <2>1. /\ UNCHANGED <<mediadorVars, threadVars, moteVars, lost>> /\ net' \subseteq net
        /\ worker' = (worker /\ ~HandlerThrows(x))
        /\ UNCHANGED <<metrics, sending, watching>>
        /\ \/ receiving' = ToCount /\ Exchange
           \/ UNCHANGED <<receiving, exchanged>>
    BY <1>4 DEF ReceivePacket
  <2>2. worker' \in BOOLEAN
    BY <2>1
  <2>3. receiving' \in Places /\ exchanged' \in [Rounds -> Nat]
    BY <2>1, PlacesTyped, ExchangeTyped DEF TypeInv, Types
  <2>4. QED
    BY <2>1, <2>2, <2>3 DEF TypeInv, Types, NumbersSoFar, mediadorVars, threadVars, moteVars
<1>5. CASE Lose(x)
  <2>1. /\ UNCHANGED <<mediadorVars, threadVars, moteVars, controllerVars>> /\ net' \subseteq net
        /\ lost' = lost + 1 /\ lost < MaxLost /\ MaxLost \in Nat
    BY <1>5, InteractionAssumption DEF Lose
  <2>2. lost' \in 0 .. MaxLost
    BY <2>1 DEF TypeInv, Types
  <2>3. QED
    BY <2>1, <2>2
       DEF TypeInv, Types, NumbersSoFar, mediadorVars, threadVars, moteVars, controllerVars, countVars
<1>6. QED BY <1>3, <1>4, <1>5

LEMMA TickTyped ==
  ASSUME TypeInv, Tick
  PROVE  TypeInv'
<1>1. UNCHANGED <<round, phase, left, compared, chosen, flag, event, controllerVars, lost>>
  BY DEF Tick
<1>2. clock' \in Nat
  BY DEF Tick, TypeInv, Types
<1>3. thread' \in [Rounds -> Threads]
  <2>1. ASSUME NEW r \in Rounds
        PROVE  [thread[r] EXCEPT !.sleep = IF @ > 0 THEN @ - 1 ELSE 0] \in Threads
    <3>1. thread[r] \in Threads
      BY DEF TypeInv, Types
    <3>2. (IF thread[r].sleep > 0 THEN thread[r].sleep - 1 ELSE 0) \in Nat
      BY <3>1 DEF Threads
    <3>3. QED BY <3>1, <3>2 DEF Threads
  <2>2. QED BY <2>1 DEF Tick
<1>4. cont' \in [Motes -> 1 .. EventPeriod]
  <2>1. EventPeriod \in Nat \ {0}
    BY InteractionAssumption
  <2>2. ASSUME NEW m \in Motes PROVE cont'[m] \in 1 .. EventPeriod
    <3>1. cont[m] \in 1 .. EventPeriod
      BY DEF TypeInv, Types
    <3>2. cont'[m] = IF event[m] = NoRound THEN cont[m]
                     ELSE IF m \in EventDue THEN 1 ELSE cont[m] + 1
      BY DEF Tick
    <3>3. event[m] # NoRound /\ m \notin EventDue => cont[m] # EventPeriod
      BY DEF EventDue
    <3>4. QED BY <2>1, <3>1, <3>2, <3>3
  <2>3. QED BY <2>2 DEF Tick
<1>5. net' \subseteq Messages
  <2>1. MaxDelay \in Nat
    BY InteractionAssumption
  <2>2. ASSUME NEW x \in net PROVE [x EXCEPT !.age = @ + 1] \in Messages
    <3>1. x \in Messages /\ x.age < MaxDelay
      BY DEF Tick, TypeInv, Types
    <3>2. x.age + 1 \in 0 .. MaxDelay
      BY <2>1, <3>1 DEF Messages
    <3>3. QED BY <3>1, <3>2 DEF Messages
  <2>3. SendDataEvents \subseteq Messages
    <3>1. ASSUME NEW m \in EventDue
          PROVE  [mote |-> m, up |-> TRUE, round |-> event[m], asks |-> "periodic",
                  says |-> "reading", age |-> 0] \in Messages
      <4>1. m \in Motes /\ event[m] \in Rounds /\ 0 \in 0 .. MaxDelay
        BY <2>1 DEF EventDue, TypeInv, Types
      <4>2. QED BY <4>1 DEF Messages, Asked
    <3>2. QED BY <3>1 DEF SendDataEvents
  <2>4. net' = {[x EXCEPT !.age = @ + 1] : x \in net} \cup SendDataEvents
    BY DEF Tick
  <2>5. QED BY <2>2, <2>3, <2>4
<1>6. QED
  BY <1>1, <1>2, <1>3, <1>4, <1>5 DEF TypeInv, Types, NumbersSoFar, controllerVars, countVars

LEMMA InitTyped == Init => TypeInv
<1> SUFFICES ASSUME Init PROVE TypeInv
  OBVIOUS
<1>1. 0 \in 0 .. MaxLost /\ 1 \in 1 .. EventPeriod /\ Direct \subseteq Behaviours
  BY InteractionAssumption
<1>2. /\ round \in Rounds /\ compared \in BOOLEAN /\ chosen \in Behaviours
      /\ (~compared => round = Single) /\ (compared => round = 0)
      /\ phase = "start" /\ clock = 0 /\ left = 0
  BY <1>1 DEF Init, Rounds, Behaviours, Periodic, Polling, Alert, Single
<1>3. /\ metrics \in Metrics /\ Len(metrics.qntMsg) = 0
      /\ sending \in [Rounds -> Places] /\ receiving \in Places /\ watching \in Places
      /\ watching # Stopped
  BY PlacesTyped DEF Init, CountInit, Metrics, ToStartMsg, Stopped, At
<1>4. thread \in [Rounds -> Threads]
  BY NoThreadTyped DEF Init
<1>5. Types
  BY <1>1, <1>2, <1>3, <1>4 DEF Init, Types
<1>6. QED BY <1>2, <1>3, <1>5 DEF TypeInv, NumbersSoFar

LEMMA StepTyped ==
  ASSUME TypeInv, [Next]_vars
  PROVE  TypeInv'
<1>1. CASE Mediador
  BY <1>1, MediadorTyped
<1>2. ASSUME NEW r \in Rounds, BehaviourStep(r) PROVE TypeInv'
  BY <1>2, BehaviourStepTyped
<1>3. ASSUME NEW x \in net, ReceiveController(x) \/ ReceivePacket(x) \/ Lose(x) PROVE TypeInv'
  BY <1>3, MessagesTyped
<1>4. CASE Tick
  BY <1>4, TickTyped
<1>5. CASE WorkerCounts
  BY <1>5, CountStepTyped DEF Count
<1>6. CASE UNCHANGED vars
  BY <1>6 DEF vars, mediadorVars, threadVars, moteVars, controllerVars, countVars,
              TypeInv, Types, NumbersSoFar
<1>7. QED BY <1>1, <1>2, <1>3, <1>4, <1>5, <1>6 DEF Next

------------------------------------------------------------------------------
(* One behaviour at a time *)

\* Where each step leaves its thread.
LEMMA StepFields ==
  ASSUME Types, NEW r \in Rounds
  PROVE  /\ Begin(r) => /\ thread[r].pc = "begin"
                        /\ thread'[r].pc = "reify" /\ thread'[r].i = 1
                        /\ thread'[r].sleep = thread[r].sleep
                        /\ thread'[r].interrupted = thread[r].interrupted
         /\ ReifyEnds(r) => /\ thread[r].pc = "reify" /\ thread[r].sleep = 0 /\ thread[r].i > N
                            /\ thread'[r].pc = IF Polls(r) THEN "poll" ELSE "exec"
                            /\ Polls(r) => thread'[r].sleep = PollPause
                            /\ ~Polls(r) => thread'[r].sleep = 0
                            /\ thread'[r].interrupted = thread[r].interrupted
         /\ PollAgain(r) => /\ thread[r].pc = "poll" /\ thread[r].sleep = 0
                            /\ flag[Behaviour(r)] => thread'[r].pc = "reify" /\ thread'[r].i = 1
                            /\ ~flag[Behaviour(r)] => thread'[r].pc = "done"
                            /\ thread'[r].sleep = 0
                            /\ thread'[r].interrupted = thread[r].interrupted
         /\ ExecEnds(r) => /\ thread[r].pc = "exec" /\ ~flag[Behaviour(r)]
                           /\ thread'[r].pc = "done"
                           /\ thread'[r].interrupted = thread[r].interrupted
         /\ Interrupted(r) => /\ thread[r].interrupted /\ ~thread'[r].interrupted
                              /\ thread[r].sleep # 0 \/ thread[r].pc = "exec"
                              /\ thread'[r].sleep = 0
                              /\ Polls(r) => thread'[r].pc = thread[r].pc /\ thread'[r].i = thread[r].i
                              /\ ~Polls(r) => /\ thread'[r].pc = "delete" /\ thread'[r].i = 1
                                              /\ thread'[r].back[1] = thread[r].pc
         /\ DeleteEnds(r) => /\ thread[r].pc = "delete" /\ thread[r].sleep = 0 /\ thread[r].i > N
                             /\ thread'[r].pc = thread[r].back[1] /\ thread'[r].sleep = 0
                             /\ thread'[r].interrupted = thread[r].interrupted
<1>1. thread[r] \in Threads /\ thread \in [Rounds -> Threads]
  BY DEF Types
<1>2. ASSUME Begin(r)
      PROVE  /\ thread[r].pc = "begin"
             /\ thread'[r].pc = "reify" /\ thread'[r].i = 1 /\ thread'[r].sleep = thread[r].sleep
             /\ thread'[r].interrupted = thread[r].interrupted
  <2>1. thread[r].pc = "begin" /\ thread'[r] = [thread[r] EXCEPT !.pc = "reify", !.i = 1]
    BY <1>1, <1>2 DEF Begin
  <2>2. QED BY <1>1, <2>1 DEF Threads
<1>3. ASSUME ReifyEnds(r)
      PROVE  /\ thread[r].pc = "reify" /\ thread[r].sleep = 0 /\ thread[r].i > N
             /\ thread'[r].pc = IF Polls(r) THEN "poll" ELSE "exec"
             /\ Polls(r) => thread'[r].sleep = PollPause
             /\ ~Polls(r) => thread'[r].sleep = 0
             /\ thread'[r].interrupted = thread[r].interrupted
  <2>1. thread[r].pc = "reify" /\ thread[r].sleep = 0 /\ thread[r].i > N
    BY <1>3 DEF ReifyEnds, Awake
  <2>2. CASE Polls(r)
    <3>1. thread'[r] = [thread[r] EXCEPT !.pc = "poll", !.sleep = PollPause]
      BY <1>1, <1>3, <2>2 DEF ReifyEnds, Polls
    <3>2. QED BY <1>1, <2>1, <2>2, <3>1 DEF Threads
  <2>3. CASE ~Polls(r)
    <3>1. thread'[r] = [thread[r] EXCEPT !.pc = "exec"]
      BY <1>1, <1>3, <2>3 DEF ReifyEnds, Polls
    <3>2. QED BY <1>1, <2>1, <2>3, <3>1 DEF Threads
  <2>4. QED BY <2>2, <2>3
<1>4. ASSUME PollAgain(r)
      PROVE  /\ thread[r].pc = "poll" /\ thread[r].sleep = 0
             /\ flag[Behaviour(r)] => thread'[r].pc = "reify" /\ thread'[r].i = 1
             /\ ~flag[Behaviour(r)] => thread'[r].pc = "done"
             /\ thread'[r].sleep = 0
             /\ thread'[r].interrupted = thread[r].interrupted
  <2>1. thread[r].pc = "poll" /\ thread[r].sleep = 0
    BY <1>4 DEF PollAgain, Awake
  <2>2. CASE flag[Behaviour(r)]
    <3>1. thread'[r] = [thread[r] EXCEPT !.pc = "reify", !.i = 1]
      BY <1>1, <1>4, <2>2 DEF PollAgain
    <3>2. QED BY <1>1, <2>1, <2>2, <3>1 DEF Threads
  <2>3. CASE ~flag[Behaviour(r)]
    <3>1. thread'[r] = [thread[r] EXCEPT !.pc = "done"]
      BY <1>1, <1>4, <2>3 DEF PollAgain
    <3>2. QED BY <1>1, <2>1, <2>3, <3>1 DEF Threads
  <2>4. QED BY <2>2, <2>3
<1>5. ASSUME ExecEnds(r)
      PROVE  /\ thread[r].pc = "exec" /\ ~flag[Behaviour(r)] /\ thread'[r].pc = "done"
             /\ thread'[r].interrupted = thread[r].interrupted
  <2>1. /\ thread[r].pc = "exec" /\ ~flag[Behaviour(r)]
        /\ thread'[r] = [thread[r] EXCEPT !.pc = "done"]
    BY <1>1, <1>5 DEF ExecEnds
  <2>2. QED BY <1>1, <2>1 DEF Threads
<1>6. ASSUME Interrupted(r)
      PROVE  /\ thread[r].interrupted /\ ~thread'[r].interrupted
             /\ thread[r].sleep # 0 \/ thread[r].pc = "exec"
             /\ thread'[r].sleep = 0
             /\ Polls(r) => thread'[r].pc = thread[r].pc /\ thread'[r].i = thread[r].i
             /\ ~Polls(r) => /\ thread'[r].pc = "delete" /\ thread'[r].i = 1
                             /\ thread'[r].back[1] = thread[r].pc
  <2>1. thread[r].interrupted /\ (thread[r].sleep # 0 \/ thread[r].pc = "exec")
    BY <1>6 DEF Interrupted, Awake
  <2>2. CASE Polls(r)
    <3>1. thread'[r] = [thread[r] EXCEPT !.sleep = 0, !.interrupted = FALSE]
      BY <1>1, <1>6, <2>2 DEF Interrupted, Polls
    <3>2. QED BY <1>1, <2>1, <2>2, <3>1 DEF Threads
  <2>3. CASE ~Polls(r)
    <3>1. thread'[r] = [thread[r] EXCEPT !.sleep = 0, !.interrupted = FALSE,
                                         !.back = <<thread[r].pc, thread[r].i>>,
                                         !.pc = "delete", !.i = 1]
      BY <1>1, <1>6, <2>3 DEF Interrupted, Polls
    <3>2. QED BY <1>1, <2>1, <2>3, <3>1 DEF Threads
  <2>4. QED BY <2>2, <2>3
<1>7. ASSUME DeleteEnds(r)
      PROVE  /\ thread[r].pc = "delete" /\ thread[r].sleep = 0 /\ thread[r].i > N
             /\ thread'[r].pc = thread[r].back[1] /\ thread'[r].sleep = 0
             /\ thread'[r].interrupted = thread[r].interrupted
  <2>1. /\ thread[r].pc = "delete" /\ thread[r].sleep = 0 /\ thread[r].i > N
        /\ thread'[r] = [thread[r] EXCEPT !.pc = thread[r].back[1], !.i = thread[r].back[2]]
    BY <1>1, <1>7 DEF DeleteEnds, Awake
  <2>2. QED BY <1>1, <2>1 DEF Threads
<1>8. QED BY <1>2, <1>3, <1>4, <1>5, <1>6, <1>7

LEMMA SendsFields ==
  ASSUME Types, NEW r \in Rounds, Sends(r)
  PROVE  /\ thread'[r].pc = thread[r].pc /\ thread'[r].i = thread[r].i + 1 /\ thread'[r].sleep = 1
         /\ thread'[r].interrupted = thread[r].interrupted /\ thread'[r].back = thread[r].back
         /\ ToSend(r)' = ToSend(r)
         /\ Reify(r) => thread[r].pc = "reify"
         /\ Delete(r) => thread[r].pc = "delete"
<1>1. /\ thread[r].sleep = 0 /\ thread[r].i \in 1 .. N
      /\ thread'[r] = [thread[r] EXCEPT !.i = @ + 1, !.sleep = 1]
  BY SendsShape
<1>2. thread[r] \in Threads
  BY DEF Types
<1>3. /\ thread'[r].pc = thread[r].pc /\ thread'[r].i = thread[r].i + 1 /\ thread'[r].sleep = 1
      /\ thread'[r].interrupted = thread[r].interrupted /\ thread'[r].back = thread[r].back
  BY <1>1, <1>2 DEF Threads
<1>4. ToSend(r)' = ToSend(r)
  BY <1>1, <1>3, TargetsCounted DEF ToSend
<1>5. QED BY <1>3, <1>4 DEF Reify, Delete

\* A thread that is over does nothing.
LEMMA OverRests ==
  ASSUME Types, NEW r \in Rounds, Over(r)
  PROVE  ~Runs(r)
<1>1. ~Sends(r)
  BY SendsShape DEF Over
<1>2. ~Moves(r)
  BY StepFields DEF Over, Moves
<1>3. QED BY <1>1, <1>2 DEF Runs

LEMMA StepFlag ==
  ASSUME Types, NEW r \in Rounds, Runs(r)
  PROVE  /\ \A b \in Behaviours : b # Behaviour(r) => flag'[b] = flag[b]
         /\ Begin(r) => flag'[Behaviour(r)]
         /\ Interrupted(r) => ~flag'[Behaviour(r)]
         /\ ~Begin(r) /\ ~Interrupted(r) => flag' = flag
<1>1. flag \in [Behaviours -> BOOLEAN] /\ Behaviour(r) \in Behaviours
  BY BehaviourTyped DEF Types
<1>2. CASE Begin(r)
  <2>1. flag' = [flag EXCEPT ![Behaviour(r)] = TRUE] /\ thread[r].pc = "begin"
    BY <1>2 DEF Begin
  <2>2. ~Interrupted(r) \/ flag' = [flag EXCEPT ![Behaviour(r)] = FALSE]
    BY DEF Interrupted
  <2>3. ~Interrupted(r)
    <3> SUFFICES ASSUME Interrupted(r) PROVE FALSE
      OBVIOUS
    <3>1. flag'[Behaviour(r)] = TRUE
      BY <1>1, <2>1
    <3>2. flag'[Behaviour(r)] = FALSE
      BY <1>1, <2>2
    <3>3. QED BY <3>1, <3>2
  <2>4. QED BY <1>1, <1>2, <2>1, <2>3
<1>3. CASE ~Begin(r) /\ Interrupted(r)
  <2>1. flag' = [flag EXCEPT ![Behaviour(r)] = FALSE]
    BY <1>3 DEF Interrupted
  <2>2. QED BY <1>1, <1>3, <2>1
<1>4. CASE ~Begin(r) /\ ~Interrupted(r)
  <2>1. flag' = flag
    BY <1>4 DEF Runs, Sends, Moves, Reify, ReifyEnds, PollAgain, ExecEnds, Delete, DeleteEnds
  <2>2. QED BY <1>4, <2>1
<1>5. QED BY <1>2, <1>3, <1>4

LEMMA StepKeeps ==
  ASSUME Types, NEW r \in Rounds, Runs(r)
  PROVE  /\ UNCHANGED <<round, phase, clock, left, compared, chosen>>
         /\ thread' \in [Rounds -> Threads]
         /\ \A q \in Rounds : q # r => thread'[q] = thread[q]
         /\ \A q \in Rounds : Behaviour(q)' = Behaviour(q) /\ Polls(q)' = Polls(q)
<1>1. /\ UNCHANGED mediadorVars /\ thread' \in [Rounds -> Threads]
      /\ \A q \in Rounds : q # r => thread'[q] = thread[q]
  <2>1. CASE Sends(r)
    BY <2>1, SendsShape
  <2>2. CASE Moves(r)
    BY <2>2, MovesShape
  <2>3. QED BY <2>1, <2>2 DEF Runs
<1>2. \A q \in Rounds : Behaviour(q)' = Behaviour(q) /\ Polls(q)' = Polls(q)
  BY <1>1 DEF mediadorVars, Behaviour, Polls
<1>3. QED BY <1>1, <1>2 DEF mediadorVars

LEMMA WorksStep ==
  ASSUME Types, LongEnough, NEW r \in Rounds, Runs(r), Works(r)
  PROVE  Works(r)'
<1>1. /\ UNCHANGED <<round, phase, clock, left, compared, chosen>>
      /\ Behaviour(r)' = Behaviour(r) /\ Polls(r)' = Polls(r)
  BY StepKeeps
<1>2. /\ ~thread[r].interrupted /\ thread[r].sleep \in Nat /\ thread[r].i \in Positions
      /\ PollPause \in Nat /\ clock \in Nat
  BY InteractionAssumption DEF Works, Types, Threads
<1>3. CASE Begin(r)
  <2>1. /\ ~thread'[r].interrupted /\ thread'[r].pc = "reify" /\ thread'[r].i = 1
        /\ thread'[r].sleep = 0 /\ N <= clock /\ flag'[Behaviour(r)]
    BY <1>3, StepFields, StepFlag DEF Works, LongEnough
  <2>2. ToSend(r)' = N
    BY <2>1, TargetsCounted DEF ToSend
  <2>3. QED BY <1>1, <1>2, <2>1, <2>2, TargetsCounted DEF Works
<1>4. CASE Sends(r)
  <2>1. thread[r].pc = "reify" /\ ~Begin(r) /\ ~Interrupted(r)
    BY <1>4, SendsShape, StepFields DEF Works
  <2>2. /\ ~thread'[r].interrupted /\ thread'[r].pc = "reify" /\ ToSend(r)' = ToSend(r)
        /\ flag' = flag
    BY <1>2, <1>4, <2>1, SendsFields, StepFlag
  <2>3. QED BY <1>1, <2>1, <2>2 DEF Works
<1>5. CASE ReifyEnds(r)
  <2>1. ~Begin(r) /\ ~Interrupted(r)
    BY <1>2, <1>5, StepFields
  <2>2. /\ ~thread'[r].interrupted /\ thread'[r].pc = (IF Polls(r) THEN "poll" ELSE "exec")
        /\ Polls(r) => thread'[r].sleep <= PollPause
        /\ flag' = flag /\ flag[Behaviour(r)]
    BY <1>2, <1>5, <2>1, StepFields, StepFlag DEF Works
  <2>3. QED BY <1>1, <2>2 DEF Works
<1>6. CASE PollAgain(r)
  <2>1. ~Begin(r) /\ ~Interrupted(r)
    BY <1>2, <1>6, StepFields
  <2>2. /\ ~thread'[r].interrupted /\ thread'[r].pc = "reify" /\ thread'[r].i = 1
        /\ thread'[r].sleep = 0 /\ flag' = flag /\ flag[Behaviour(r)] /\ Polls(r)
    BY <1>2, <1>6, <2>1, StepFields, StepFlag DEF Works
  <2>3. ToSend(r)' = N
    BY <2>2, TargetsCounted DEF ToSend
  <2>4. QED BY <1>1, <2>2, <2>3, TargetsCounted DEF Works
<1>7. ~ExecEnds(r) /\ ~Interrupted(r) /\ ~DeleteEnds(r)
  BY StepFields DEF Works
<1>8. QED BY <1>3, <1>4, <1>5, <1>6, <1>7 DEF Runs, Moves

LEMMA ToInterruptStep ==
  ASSUME Types, LongEnough, NEW r \in Rounds, Runs(r), ToInterrupt(r)
  PROVE  ToInterrupt(r)' \/ Ends(r)'
<1>1. /\ UNCHANGED <<round, phase, clock, left, compared, chosen>>
      /\ Behaviour(r)' = Behaviour(r) /\ Polls(r)' = Polls(r)
  BY StepKeeps
<1>2. /\ thread[r].interrupted /\ thread[r].sleep \in Nat /\ thread[r].i \in 1 .. (N + 1)
      /\ PollPause \in Nat /\ clock \in Nat /\ clock = Pause /\ N < Pause /\ flag[Behaviour(r)]
  BY InteractionAssumption DEF ToInterrupt, Types, Threads, Positions, LongEnough
<1>3. ~Begin(r) /\ ~ExecEnds(r) /\ ~DeleteEnds(r)
  BY StepFields DEF ToInterrupt
<1>4. CASE Sends(r) /\ ~Interrupted(r)
  <2>1. thread[r].pc = "reify" /\ thread[r].i \in 1 .. N
    BY <1>4, SendsShape DEF ToInterrupt
  <2>2. Polls(r)
    BY <1>2, <2>1, TargetsCounted DEF ToInterrupt, ToSend
  <2>3. /\ thread'[r].interrupted /\ thread'[r].pc = "reify" /\ ToSend(r)' = ToSend(r)
        /\ flag' = flag
    BY <1>2, <1>3, <1>4, <2>1, SendsFields, StepFlag
  <2>4. ToInterrupt(r)'
    BY <1>1, <1>2, <2>1, <2>2, <2>3 DEF ToInterrupt
  <2>5. QED BY <2>4
<1>5. CASE ReifyEnds(r) /\ ~Interrupted(r)
  <2>1. /\ thread'[r].interrupted /\ thread'[r].pc = (IF Polls(r) THEN "poll" ELSE "exec")
        /\ Polls(r) => thread'[r].sleep <= PollPause
        /\ flag' = flag
    BY <1>2, <1>3, <1>5, StepFields, StepFlag
  <2>2. ToInterrupt(r)'
    BY <1>1, <1>2, <2>1 DEF ToInterrupt
  <2>3. QED BY <2>2
<1>6. CASE PollAgain(r) /\ ~Interrupted(r)
  <2>1. /\ thread'[r].interrupted /\ thread'[r].pc = "reify" /\ thread'[r].i = 1
        /\ thread'[r].sleep = 0 /\ flag' = flag /\ Polls(r)
    BY <1>2, <1>3, <1>6, StepFields, StepFlag DEF ToInterrupt
  <2>2. ToSend(r)' = N
    BY <2>1, TargetsCounted DEF ToSend
  <2>3. ToInterrupt(r)'
    BY <1>1, <1>2, <2>1, <2>2, TargetsCounted DEF ToInterrupt
  <2>4. QED BY <2>3
<1>7. CASE Interrupted(r)
  <2>1. /\ ~thread'[r].interrupted /\ thread'[r].sleep = 0 /\ ~flag'[Behaviour(r)]
        /\ thread[r].sleep # 0 \/ thread[r].pc = "exec"
    BY <1>7, StepFields, StepFlag
  <2>2. CASE Polls(r)
    <3>1. thread'[r].pc = thread[r].pc /\ thread'[r].i = thread[r].i /\ thread[r].pc \in {"reify", "poll"}
      BY <1>7, <2>2, StepFields DEF ToInterrupt
    <3>2. ToSend(r)' < clock
      BY <1>2, <2>1, <3>1, TargetsCounted DEF ToSend
    <3>3. Ends(r)'
      BY <1>1, <1>2, <2>1, <2>2, <3>1, <3>2 DEF Ends
    <3>4. QED BY <3>3
  <2>3. CASE ~Polls(r)
    <3>1. /\ thread'[r].pc = "delete" /\ thread'[r].i = 1 /\ thread'[r].back[1] = thread[r].pc
          /\ thread[r].pc \in {"reify", "exec"}
      BY <1>7, <2>3, StepFields DEF ToInterrupt
    <3>2. thread[r].pc = "exec"
      <4>1. thread[r].pc = "reify" => ToSend(r) <= 0
        BY <2>3 DEF ToInterrupt
      <4>2. thread[r].pc = "reify" => thread[r].sleep = 0
        BY <1>2, <4>1, TargetsCounted DEF ToSend
      <4>3. QED BY <2>1, <3>1, <4>2
    <3>3. ToSend(r)' < clock
      BY <1>2, <2>1, <3>1, TargetsCounted DEF ToSend
    <3>4. Ends(r)'
      BY <1>1, <1>2, <2>1, <2>3, <3>1, <3>2, <3>3 DEF Ends
    <3>5. QED BY <3>4
  <2>4. QED BY <2>2, <2>3
<1>8. QED BY <1>3, <1>4, <1>5, <1>6, <1>7 DEF Runs, Moves

LEMMA EndsStep ==
  ASSUME Types, NEW r \in Rounds, Runs(r), Ends(r)
  PROVE  Ends(r)'
<1>1. /\ UNCHANGED <<round, phase, clock, left, compared, chosen>>
      /\ Behaviour(r)' = Behaviour(r) /\ Polls(r)' = Polls(r)
  BY StepKeeps
<1>2. /\ ~thread[r].interrupted /\ thread[r].i \in 1 .. (N + 1)
      /\ PollPause \in Nat /\ clock \in Nat /\ ~flag[Behaviour(r)]
  BY InteractionAssumption DEF Ends, Types, Threads, Positions
<1>3. ~Begin(r) /\ ~Interrupted(r) /\ flag' = flag
  BY StepFields, StepFlag DEF Ends
<1>4. CASE Sends(r)
  <2>1. /\ thread[r].pc \in {"reify", "delete"} /\ thread'[r].pc = thread[r].pc
        /\ ~thread'[r].interrupted /\ thread'[r].back = thread[r].back /\ ToSend(r)' = ToSend(r)
    BY <1>2, <1>4, SendsShape, SendsFields
  <2>2. QED BY <1>1, <1>3, <2>1 DEF Ends
<1>5. CASE ReifyEnds(r)
  <2>1. /\ Polls(r) /\ thread'[r].pc = "poll" /\ thread'[r].sleep <= PollPause
        /\ ~thread'[r].interrupted
    BY <1>2, <1>5, StepFields DEF Ends
  <2>2. QED BY <1>1, <1>2, <1>3, <2>1 DEF Ends
<1>6. CASE PollAgain(r)
  <2>1. thread'[r].pc = "done" /\ ~thread'[r].interrupted
    BY <1>2, <1>6, StepFields
  <2>2. QED BY <1>1, <1>2, <1>3, <2>1 DEF Ends
<1>7. CASE ExecEnds(r)
  <2>1. thread'[r].pc = "done" /\ ~thread'[r].interrupted
    BY <1>2, <1>7, StepFields
  <2>2. QED BY <1>1, <1>2, <1>3, <2>1 DEF Ends
<1>8. CASE DeleteEnds(r)
  <2>1. /\ thread[r].pc = "delete" /\ thread[r].sleep = 0 /\ thread[r].i > N
        /\ thread'[r].pc = "exec" /\ thread'[r].sleep = 0 /\ ~thread'[r].interrupted /\ ~Polls(r)
    BY <1>2, <1>8, StepFields DEF Ends
  <2>2. clock > 0
    BY <1>2, <2>1, TargetsCounted DEF Ends, ToSend
  <2>3. QED BY <1>1, <1>2, <1>3, <2>1, <2>2 DEF Ends
<1>9. QED BY <1>3, <1>4, <1>5, <1>6, <1>7, <1>8 DEF Runs, Moves

LEMMA RoundsOrdered ==
  /\ Rounds = 0 .. 3 /\ Behaviours = 0 .. 2
  /\ Periodic = 0 /\ Polling = 1 /\ Alert = 2 /\ Single = 3
  /\ \A r \in Rounds : r # Single => Behaviour(r) = r
BY DEF Rounds, Behaviours, Periodic, Polling, Alert, Single, Behaviour

\* A step of a thread: of the present round, or the last of an old poller.
LEMMA BehaviourStepPlaces ==
  ASSUME TypeInv, PlaceInv, LongEnough, NEW r \in Rounds, Runs(r)
  PROVE  PlaceInv'
<1>1. Types /\ round \in Rounds /\ thread \in [Rounds -> Threads]
  BY DEF TypeInv, Types
<1>2. /\ UNCHANGED <<round, phase, clock, left, compared, chosen>>
      /\ \A q \in Rounds : q # r => thread'[q] = thread[q]
      /\ \A q \in Rounds : Behaviour(q)' = Behaviour(q)
  BY <1>1, StepKeeps
<1>3. ~Over(r) /\ thread[r] # NoThread
  <2>1. thread[r] = NoThread => Over(r)
    BY DEF Over, NoThread
  <2>2. QED BY <1>1, <2>1, OverRests
<1>4. r <= round
  BY <1>1, <1>3, RoundsOrdered DEF PlaceInv
<1>5. \A q \in Rounds : q > round => thread'[q] = NoThread
  BY <1>1, <1>2, <1>4, RoundsOrdered DEF PlaceInv
<1>6. CASE r = round
  <2>1. \A q \in Rounds : q < round => Over(q)' \/ SleepsOnce(q)'
    <3> SUFFICES ASSUME NEW q \in Rounds, q < round PROVE Over(q)' \/ SleepsOnce(q)'
      OBVIOUS
    <3>1. thread'[q] = thread[q] /\ (Over(q) \/ SleepsOnce(q))
      BY <1>1, <1>2, <1>6, RoundsOrdered DEF PlaceInv
    <3>2. CASE Over(q)
      BY <3>1, <3>2 DEF Over
    <3>3. CASE SleepsOnce(q)
      <4>1. round = Alert /\ Behaviour(r) # Polling
        BY <1>6, <3>3, RoundsOrdered DEF SleepsOnce
      <4>2. flag'[Polling] = flag[Polling]
        BY <1>1, <4>1, StepFlag, RoundsOrdered
      <4>3. QED BY <1>2, <3>1, <3>3, <4>2 DEF SleepsOnce
    <3>4. QED BY <3>1, <3>2, <3>3
  <2>2. phase # "start"
    BY <1>3, <1>6 DEF PlaceInv
  <2>3. phase = "window" => Works(r)'
    BY <1>1, <1>6, WorksStep DEF PlaceInv
  <2>4. phase = "pause" => ToInterrupt(r)' \/ Ends(r)'
    BY <1>1, <1>6, ToInterruptStep, EndsStep DEF PlaceInv
  <2>5. phase = "end" => Over(r)'
    <3> SUFFICES ASSUME phase = "end" PROVE Over(r)'
      OBVIOUS
    <3>1. thread[r].pc = "poll" /\ ~thread[r].interrupted /\ ~flag[Behaviour(r)]
      BY <1>3, <1>6 DEF PlaceInv
    <3>2. ~Sends(r)
      BY <1>1, <3>1, SendsShape
    <3>3. PollAgain(r)
      BY <1>1, <3>1, <3>2, StepFields DEF Runs, Moves
    <3>4. thread'[r].pc = "done" /\ ~thread'[r].interrupted
      BY <1>1, <3>1, <3>3, StepFields
    <3>5. QED BY <3>4 DEF Over
  <2>6. /\ round' = r /\ phase' = phase /\ left' = left
        /\ phase = "window" => (round # Single => left = 0)
    BY <1>2, <1>6 DEF PlaceInv
  <2>7. QED
    BY <1>5, <1>6, <2>1, <2>2, <2>3, <2>4, <2>5, <2>6
       DEF PlaceInv, Works, ToInterrupt, Ends, Over, SleepsOnce, ToSend, Polls, Behaviour
<1>7. CASE r < round
  <2>1. SleepsOnce(r)
    BY <1>3, <1>7 DEF PlaceInv
  <2>2. r = Polling /\ round = Alert /\ Behaviour(r) = r
    BY <2>1, RoundsOrdered DEF SleepsOnce
  <2>3. thread[r].pc = "poll" /\ ~thread[r].interrupted /\ ~flag[Behaviour(r)]
    BY <2>1, <2>2 DEF SleepsOnce
  <2>4. PollAgain(r) /\ ~Begin(r) /\ ~Interrupted(r)
    <3>1. ~Sends(r)
      BY <1>1, <2>3, SendsShape
    <3>2. QED BY <1>1, <2>3, <3>1, StepFields DEF Runs, Moves
  <2>5. thread'[r].pc = "done" /\ ~thread'[r].interrupted /\ flag' = flag
    BY <1>1, <2>3, <2>4, StepFields, StepFlag
  <2>6. \A q \in Rounds : q < round => Over(q)' \/ SleepsOnce(q)'
    <3> SUFFICES ASSUME NEW q \in Rounds, q < round PROVE Over(q)' \/ SleepsOnce(q)'
      OBVIOUS
    <3>1. CASE q = r
      BY <2>5, <3>1 DEF Over
    <3>2. CASE q # r
      <4>1. Over(q)
        BY <2>2, <3>2 DEF PlaceInv, SleepsOnce
      <4>2. QED BY <1>2, <3>2, <4>1 DEF Over
    <3>3. QED BY <3>1, <3>2
  <2>7. thread'[round] = thread[round]
    BY <1>1, <1>2, <1>7, RoundsOrdered
  <2>8. Behaviour(round)' = Behaviour(round) /\ Polls(round)' = Polls(round)
    BY <1>1, StepKeeps
  <2>9. QED
    BY <1>2, <1>5, <2>5, <2>6, <2>7, <2>8
       DEF PlaceInv, Works, ToInterrupt, Ends, Over, ToSend
<1>8. QED BY <1>1, <1>4, <1>6, <1>7, RoundsOrdered

LEMMA UnchangedPlaces ==
  ASSUME PlaceInv, UNCHANGED <<mediadorVars, threadVars>>
  PROVE  PlaceInv'
BY DEF PlaceInv, Works, ToInterrupt, Ends, SleepsOnce, Over, ToSend, Polls, Behaviour,
       mediadorVars, threadVars

LEMMA MediadorPlaces ==
  ASSUME TypeInv, PlaceInv, LongEnough, Mediador
  PROVE  PlaceInv'
<1>1. /\ round \in Rounds /\ thread \in [Rounds -> Threads] /\ clock \in Nat /\ left \in Nat
      /\ flag' = flag /\ Pause \in Nat /\ Windows \subseteq Nat \ {0} /\ thread[round] \in Threads
  BY InteractionAssumption
     DEF TypeInv, Types, Mediador, Execute, CallStopMsg, NextWindow, Stop, NextRound, MediadorCounts,
         threadVars
<1>2. CASE Execute
  <2>1. /\ phase = "start" /\ phase' = "window" /\ clock' \in Windows
        /\ UNCHANGED <<round, chosen>> /\ (round # Single => left' = 0)
        /\ thread' = [thread EXCEPT ![round] = [NoThread EXCEPT !.pc = "begin"]]
    BY <1>2 DEF Execute
  <2>2. /\ thread'[round] = [NoThread EXCEPT !.pc = "begin"]
        /\ \A q \in Rounds : q # round => thread'[q] = thread[q]
    BY <1>1, <2>1
  <2>3. /\ thread'[round].pc = "begin" /\ thread'[round].sleep = 0 /\ ~thread'[round].interrupted
    BY <2>2 DEF NoThread
  <2>4. Works(round)'
    BY <1>1, <2>1, <2>3 DEF Works
  <2>5. \A q \in Rounds : q < round => Over(q)' \/ SleepsOnce(q)'
    <3> SUFFICES ASSUME NEW q \in Rounds, q < round PROVE Over(q)' \/ SleepsOnce(q)'
      OBVIOUS
    <3>1. thread'[q] = thread[q] /\ (Over(q) \/ SleepsOnce(q))
      BY <1>1, <2>2, RoundsOrdered DEF PlaceInv
    <3>2. CASE Over(q)
      BY <3>1, <3>2 DEF Over
    <3>3. CASE SleepsOnce(q)
      <4>1. /\ thread[q].sleep <= PollPause /\ PollPause <= clock' /\ thread[q].sleep \in Nat
            /\ PollPause \in Nat
        BY <1>1, <2>1, <3>3, InteractionAssumption DEF SleepsOnce, LongEnough, Threads
      <4>2. thread[q].sleep <= clock'
        BY <1>1, <2>1, <4>1
      <4>3. QED BY <1>1, <2>1, <3>1, <3>3, <4>2 DEF SleepsOnce
    <3>4. QED BY <3>1, <3>2, <3>3
  <2>6. \A q \in Rounds : q > round => thread'[q] = NoThread
    BY <1>1, <2>2, RoundsOrdered DEF PlaceInv
  <2>7. QED BY <2>1, <2>4, <2>5, <2>6 DEF PlaceInv, Works, ToSend, Polls, Behaviour
<1>3. CASE NextWindow
  <2>1. /\ phase = "window" /\ clock = 0 /\ left > 0 /\ clock' \in Windows
        /\ UNCHANGED <<round, phase, chosen, thread>> /\ left' = left - 1
    BY <1>3 DEF NextWindow, threadVars
  <2>2. round = Single /\ Works(round)
    BY <2>1 DEF TypeInv, NumbersSoFar, PlaceInv
  <2>3. /\ thread[round].pc # "begin"
        /\ thread[round].pc = "reify" => ToSend(round) <= IF Polls(round) THEN N ELSE clock'
    BY <1>1, <2>1, <2>2, TargetsCounted DEF Works, ToSend, Threads, Positions
  <2>4. Works(round)'
    BY <1>1, <2>1, <2>2, <2>3 DEF Works, ToSend, Polls, Behaviour
  <2>5. \A q \in Rounds : q < round => Over(q)'
    BY <1>1, <2>1, <2>2, RoundsOrdered DEF PlaceInv, SleepsOnce, Over
  <2>6. \A q \in Rounds : q > round => thread'[q] = NoThread
    BY <2>1 DEF PlaceInv
  <2>7. QED BY <2>1, <2>2, <2>4, <2>5, <2>6 DEF PlaceInv, Works, ToSend, Polls, Behaviour, Over
<1>4. CASE Stop
  <2>1. /\ phase = "window" /\ clock = 0 /\ phase' = "pause" /\ clock' = Pause
        /\ UNCHANGED <<round, chosen>>
        /\ thread' = [thread EXCEPT ![round].interrupted = TRUE]
    BY <1>4 DEF Stop
  <2>2. /\ thread'[round] = [thread[round] EXCEPT !.interrupted = TRUE]
        /\ \A q \in Rounds : q # round => thread'[q] = thread[q]
    BY <1>1, <2>1
  <2>3. /\ thread'[round].interrupted /\ thread'[round].pc = thread[round].pc
        /\ thread'[round].i = thread[round].i /\ thread'[round].sleep = thread[round].sleep
    BY <1>1, <2>2 DEF Threads
  <2>4. Works(round)
    BY <2>1 DEF PlaceInv
  <2>5. ToInterrupt(round)'
    BY <1>1, <2>1, <2>3, <2>4 DEF Works, ToInterrupt, ToSend, Polls, Behaviour
  <2>6. \A q \in Rounds : q < round => Over(q)' \/ SleepsOnce(q)'
    <3> SUFFICES ASSUME NEW q \in Rounds, q < round PROVE Over(q)' \/ SleepsOnce(q)'
      OBVIOUS
    <3>1. thread'[q] = thread[q] /\ (Over(q) \/ SleepsOnce(q))
      BY <1>1, <2>2, RoundsOrdered DEF PlaceInv
    <3>2. CASE Over(q)
      BY <3>1, <3>2 DEF Over
    <3>3. CASE SleepsOnce(q)
      <4>1. thread[q].sleep <= 0 /\ thread[q].sleep \in Nat
        BY <1>1, <2>1, <3>3 DEF SleepsOnce, Threads
      <4>2. thread[q].sleep = 0
        BY <4>1
      <4>3. QED BY <1>1, <2>1, <3>1, <3>3, <4>2 DEF SleepsOnce
    <3>4. QED BY <3>1, <3>2, <3>3
  <2>7. \A q \in Rounds : q > round => thread'[q] = NoThread
    BY <1>1, <2>2, RoundsOrdered DEF PlaceInv
  <2>8. QED BY <2>1, <2>5, <2>6, <2>7 DEF PlaceInv, ToInterrupt, ToSend, Polls, Behaviour
<1>5. CASE NextRound
  <2>1. /\ phase = "pause" /\ clock = 0 /\ thread' = thread
        /\ phase' = IF round = Single THEN "end" ELSE "start"
        /\ round' = IF round = Single THEN Single ELSE round + 1
        /\ round # Alert => chosen' = chosen
    BY <1>5 DEF NextRound, threadVars
  <2>2. Ends(round)
    <3>1. Pause # 0
      BY <1>1, TargetsCounted DEF LongEnough
    <3>2. ~ToInterrupt(round)
      BY <2>1, <3>1 DEF ToInterrupt
    <3>3. QED BY <2>1, <3>2 DEF PlaceInv
  <2>3. Over(round) \/ (Polls(round) /\ thread[round].pc = "poll")
    <3>1. thread[round].pc \notin {"reify", "delete"}
      BY <1>1, <2>1, <2>2, TargetsCounted DEF Ends, ToSend, Threads, Positions
    <3>2. thread[round].pc # "exec"
      BY <1>1, <2>1, <2>2 DEF Ends
    <3>3. QED BY <2>2, <3>1, <3>2 DEF Ends, Over
  <2>4. \A q \in Rounds : q < round => Over(q)
    <3>1. Pause # 0
      BY <1>1, TargetsCounted DEF LongEnough
    <3>2. QED BY <2>1, <3>1 DEF PlaceInv, SleepsOnce
  <2>5. CASE round = Single
    <3>1. phase' = "end" /\ round' = Single /\ chosen' = chosen
      BY <2>1, <2>5, RoundsOrdered
    <3>2. \/ Over(Single)'
          \/ /\ thread'[Single].pc = "poll" /\ ~thread'[Single].interrupted
             /\ ~flag'[Behaviour(Single)']
      BY <1>1, <2>1, <2>2, <2>3, <2>5, <3>1 DEF Over, Ends, Behaviour
    <3>3. \A q \in Rounds : (q < Single => Over(q)') /\ ~(q > Single)
      BY <2>1, <2>4, <2>5, RoundsOrdered DEF Over
    <3>4. QED BY <3>1, <3>2, <3>3 DEF PlaceInv, Over, Behaviour
  <2>6. CASE round # Single
    <3>1. phase' = "start" /\ round' = round + 1 /\ round' \in Rounds
      BY <1>1, <2>1, <2>6, RoundsOrdered
    <3>2. ASSUME NEW q \in Rounds, q = round
          PROVE  Over(q)' \/ SleepsOnce(q)'
      <4>1. CASE Over(q)
        <5>1. thread'[q] = thread[q]
          BY <2>1
        <5>2. QED BY <4>1, <5>1 DEF Over
      <4>2. CASE Polls(q) /\ thread[q].pc = "poll"
        <5>1. q = Polling /\ round' = Alert
          BY <1>1, <2>6, <3>1, <3>2, <4>2, RoundsOrdered DEF Polls
        <5>2. ~thread[q].interrupted /\ ~flag[Polling] /\ thread[q].sleep <= PollPause
          BY <2>2, <3>2, <4>2 DEF Ends, Polls
        <5>3. QED BY <1>1, <2>1, <3>1, <4>2, <5>1, <5>2 DEF SleepsOnce
      <4>3. QED BY <2>3, <3>2, <4>1, <4>2
    <3>3. \A q \in Rounds : q < round + 1 => Over(q)' \/ SleepsOnce(q)'
      <4> SUFFICES ASSUME NEW q \in Rounds, q < round + 1 PROVE Over(q)' \/ SleepsOnce(q)'
        OBVIOUS
      <4>1. CASE q < round
        <5>1. Over(q) /\ thread'[q] = thread[q]
          BY <2>1, <2>4, <4>1
        <5>2. QED BY <5>1 DEF Over
      <4>2. CASE q = round
        BY <3>2, <4>2
      <4>3. QED BY <1>1, <4>1, <4>2, RoundsOrdered
    <3>4. \A q \in Rounds : q >= round + 1 => thread'[q] = NoThread
      BY <1>1, <2>1, RoundsOrdered DEF PlaceInv
    <3>5. QED BY <3>1, <3>3, <3>4, RoundsOrdered DEF PlaceInv
  <2>7. QED BY <2>5, <2>6
<1>6. CASE CallStopMsg \/ MediadorCounts
  BY <1>6, UnchangedPlaces DEF CallStopMsg, MediadorCounts
<1>7. QED BY <1>2, <1>3, <1>4, <1>5, <1>6 DEF Mediador

\* Time passes only while every thread sleeps, waits or is over.
LEMMA TickPlaces ==
  ASSUME TypeInv, PlaceInv, Tick
  PROVE  PlaceInv'
<1>1. /\ round \in Rounds /\ thread \in [Rounds -> Threads] /\ clock \in Nat
      /\ phase \in {"start", "window", "pause", "end"}
      /\ UNCHANGED <<round, phase, left, chosen, flag>>
      /\ \A q \in Rounds : AtRest(q)
      /\ phase # "end" => clock > 0 /\ clock' = clock - 1
      /\ PollPause \in Nat /\ (phase = "end" => round = Single)
  BY InteractionAssumption DEF TypeInv, Types, NumbersSoFar, Tick
<1>2. ASSUME NEW q \in Rounds
      PROVE  /\ thread'[q].pc = thread[q].pc /\ thread'[q].i = thread[q].i
             /\ thread'[q].back = thread[q].back
             /\ thread'[q].interrupted = thread[q].interrupted
             /\ thread[q].sleep \in Nat /\ thread[q].i \in Positions
             /\ thread[q].sleep > 0 => thread'[q].sleep = thread[q].sleep - 1
             /\ thread[q].sleep = 0 => thread'[q].sleep = 0 /\ thread'[q] = thread[q]
  <2>1. thread[q] \in Threads
    BY <1>1
  <2>2. thread'[q] = [thread[q] EXCEPT !.sleep = IF @ > 0 THEN @ - 1 ELSE 0]
    BY DEF Tick
  <2>3. thread[q].sleep = 0 => thread'[q] = [thread[q] EXCEPT !.sleep = thread[q].sleep]
    BY <2>1, <2>2
  <2>4. [thread[q] EXCEPT !.sleep = thread[q].sleep] = thread[q]
    BY <2>1 DEF Threads
  <2>5. thread[q].sleep = 0 => thread'[q] = thread[q]
    BY <2>3, <2>4
  <2>6. QED BY <2>1, <2>2, <2>5 DEF Threads
<1>3. \A q \in Rounds : thread[q] = NoThread => thread'[q] = NoThread
  BY <1>2 DEF NoThread
<1>4. \A q \in Rounds : Over(q) => Over(q)'
  BY <1>2 DEF Over
<1>5. \A q \in Rounds : Behaviour(q)' = Behaviour(q) /\ Polls(q)' = Polls(q)
  BY <1>1 DEF Behaviour, Polls
<1>6. ASSUME NEW q \in Rounds, SleepsOnce(q)
      PROVE  SleepsOnce(q)'
  <2>1. thread[q].sleep > 0 /\ phase # "end"
    BY <1>1, <1>2, <1>6, RoundsOrdered DEF SleepsOnce, AtRest, Awake
  <2>2. thread'[q].sleep = thread[q].sleep - 1 /\ thread[q].sleep \in Nat
    BY <1>2, <2>1
  <2>3. /\ q = Polling /\ round' = Alert /\ phase' = phase
        /\ thread'[q].pc = "poll" /\ ~thread'[q].interrupted /\ ~flag'[Polling]
    BY <1>1, <1>2, <1>6 DEF SleepsOnce
  <2>4. CASE phase = "start"
    BY <1>1, <1>6, <2>2, <2>3, <2>4 DEF SleepsOnce
  <2>5. CASE phase = "window"
    BY <1>1, <1>6, <2>2, <2>3, <2>5 DEF SleepsOnce
  <2>6. CASE phase = "pause"
    <3>1. thread[q].sleep = 0
      BY <1>6, <2>6 DEF SleepsOnce
    <3>2. QED BY <2>1, <3>1
  <2>7. QED BY <1>1, <2>1, <2>4, <2>5, <2>6
<1>7. ASSUME phase = "window", Works(round)
      PROVE  Works(round)'
  <2>1. /\ thread[round].pc # "begin"
        /\ thread[round].pc \in {"reify", "poll"} => thread[round].sleep > 0
    BY <1>1, <1>2, <1>7 DEF Works, AtRest, Awake
  <2>2. thread[round].pc = "reify" => ToSend(round)' = ToSend(round) - 1 /\ ToSend(round) \in Nat
    BY <1>1, <1>2, <2>1, TargetsCounted DEF ToSend, Positions
  <2>3. thread[round].pc = "poll" => thread'[round].sleep = thread[round].sleep - 1
    BY <1>1, <1>2, <2>1
  <2>4. QED
    BY <1>1, <1>2, <1>5, <1>7, <2>1, <2>2, <2>3, TargetsCounted DEF Works
<1>8. ASSUME phase = "pause", ToInterrupt(round) \/ Ends(round)
      PROVE  Ends(round)'
  <2>1. Ends(round)
    BY <1>1, <1>8 DEF ToInterrupt, AtRest
  <2>2. /\ thread[round].pc # "exec"
        /\ thread[round].pc \in {"reify", "delete", "poll"} => thread[round].sleep > 0
    BY <1>1, <1>2, <2>1 DEF Ends, AtRest, Awake
  <2>3. thread[round].pc \in {"reify", "delete"} =>
          ToSend(round)' = ToSend(round) - 1 /\ ToSend(round) \in Nat
    BY <1>1, <1>2, <2>2, TargetsCounted DEF ToSend, Positions
  <2>4. thread[round].pc = "poll" => thread'[round].sleep = thread[round].sleep - 1
    BY <1>1, <1>2, <2>2
  <2>5. QED BY <1>1, <1>2, <1>5, <1>8, <2>1, <2>2, <2>3, <2>4 DEF Ends
<1>9. \A q \in Rounds : q < round => Over(q)' \/ SleepsOnce(q)'
  BY <1>4, <1>6 DEF PlaceInv
<1>10. \A q \in Rounds : q > round => thread'[q] = NoThread
  BY <1>3 DEF PlaceInv
<1>11. phase = "window" => Works(round)' /\ (round # Single => left = 0)
  BY <1>7 DEF PlaceInv
<1>12. phase = "pause" => Ends(round)'
  BY <1>8 DEF PlaceInv
<1>13. phase = "start" => thread'[round] = NoThread
  BY <1>1, <1>3 DEF PlaceInv
<1>14. phase = "end" => \/ Over(round)'
                        \/ /\ thread'[round].pc = "poll" /\ ~thread'[round].interrupted
                           /\ ~flag[Behaviour(round)]
  BY <1>1, <1>2, <1>4 DEF PlaceInv
<1>15. round' = round /\ phase' = phase /\ left' = left /\ flag' = flag
       /\ Behaviour(round)' = Behaviour(round) /\ Polls(round)' = Polls(round)
  BY <1>1, <1>5
<1>16. QED
  BY <1>9, <1>10, <1>11, <1>12, <1>13, <1>14, <1>15
     DEF PlaceInv, Works, Ends, Over, ToSend

LEMMA InitPlaces == Init => PlaceInv
<1> SUFFICES ASSUME Init PROVE PlaceInv
  OBVIOUS
<1>1. phase = "start" /\ round \in Rounds /\ \A q \in Rounds : thread[q] = NoThread
  BY RoundsOrdered DEF Init
<1>2. \A q \in Rounds : Over(q)
  BY <1>1 DEF Over, NoThread
<1>3. QED BY <1>1, <1>2 DEF PlaceInv

LEMMA StepPlaces ==
  ASSUME TypeInv, PlaceInv, LongEnough, [Next]_vars
  PROVE  PlaceInv'
<1>1. CASE Mediador
  BY <1>1, MediadorPlaces
<1>2. ASSUME NEW r \in Rounds, BehaviourStep(r) PROVE PlaceInv'
  <2>1. CASE Runs(r)
    BY <2>1, BehaviourStepPlaces
  <2>2. CASE BehaviourCounts(r)
    BY <2>2, UnchangedPlaces, CountChanges DEF Count
  <2>3. QED BY <1>2, <2>1, <2>2, BehaviourStepRuns
<1>3. ASSUME NEW x \in net, ReceiveController(x) \/ ReceivePacket(x) \/ Lose(x) PROVE PlaceInv'
  <2>1. UNCHANGED <<mediadorVars, threadVars>>
    BY <1>3 DEF ReceiveController, ReceivePacket, Lose
  <2>2. QED BY <2>1, UnchangedPlaces
<1>4. CASE Tick
  BY <1>4, TickPlaces
<1>5. CASE WorkerCounts
  BY <1>5, UnchangedPlaces, CountChanges DEF Count
<1>6. CASE UNCHANGED vars
  BY <1>6, UnchangedPlaces DEF vars
<1>7. QED BY <1>1, <1>2, <1>3, <1>4, <1>5, <1>6 DEF Next

LEMMA PlacesSilent ==
  ASSUME TypeInv, PlaceInv
  PROVE  OneBehaviourSends
<1> SUFFICES ASSUME NEW r \in Rounds, round > r \/ phase = "end"
             PROVE  Silent(r)
  BY DEF OneBehaviourSends
<1>1. round \in Rounds
  BY DEF TypeInv, Types
<1>2. CASE round > r
  <2>1. Over(r) \/ SleepsOnce(r)
    BY <1>1, <1>2, RoundsOrdered DEF PlaceInv
  <2>2. SleepsOnce(r) => Behaviour(r) = Polling
    BY RoundsOrdered DEF SleepsOnce
  <2>3. QED BY <2>1, <2>2 DEF Over, SleepsOnce, Silent
<1>3. CASE phase = "end" /\ ~(round > r)
  <2>1. r = round
    BY <1>1, <1>3, RoundsOrdered DEF TypeInv, NumbersSoFar
  <2>2. QED BY <1>3, <2>1 DEF PlaceInv, Over, Silent
<1>4. QED BY <1>2, <1>3

------------------------------------------------------------------------------
(* Events *)

\* A request that changes the event of a mote.
Changes(x) == ~x.up /\ x.asks \in {"periodic", "deleteEvent"}

\* A loop is early enough for what it has yet to send to arrive before the clock
\* stands at 0,
Early ==
  ~Polls(round) /\ thread[round].pc \in {"reify", "delete"} /\ thread[round].i <= N =>
     clock + thread[round].i > N + MaxDelay + thread[round].sleep

\* and what it has sent to the motes of the intent is of its round.
OfThisRound(x) ==
  /\ x.round = round /\ \E j \in 1 .. N : Targets[j] = x.mote
  /\ clock + x.age > MaxDelay
  /\ x.asks = "periodic" => phase = "window" /\ Behaviour(round) = Periodic
  /\ x.asks = "deleteEvent" => phase = "pause"

InTime == \A x \in net : Changes(x) => OfThisRound(x)

Pending(m, asks) == \E x \in net : x.mote = m /\ ~x.up /\ x.asks = asks

OnlyThisRound ==
  \A m \in Motes : event[m] # NoRound =>
     /\ event[m] = round /\ Behaviour(round) = Periodic /\ phase \in {"window", "pause"}
     /\ \E j \in 1 .. N : Targets[j] = m

\* The motes the loop of reify has passed.
Passed(j) == thread[round].pc = "exec" \/ (thread[round].pc = "reify" /\ j < thread[round].i)

Registered ==
  phase = "window" /\ Behaviour(round) = Periodic =>
     \A j \in 1 .. N : Targets[j] \in Motes /\ Passed(j) =>
        event[Targets[j]] = round \/ Pending(Targets[j], "periodic")

\* The deletion of an event is to be sent yet, or on its way.
ToBeDeleted ==
  phase = "pause" =>
     \A m \in Motes : event[m] # NoRound =>
        \/ thread[round].interrupted
        \/ /\ thread[round].pc = "delete"
           /\ \E j \in thread[round].i .. N : Targets[j] = m
        \/ Pending(m, "deleteEvent")

(***************************************************************************)
(* EventsOfThisRound and EveryMoteObserved are about the ends of a window  *)
(* and of the pause after it.  Whatever changes the event of a mote is     *)
(* sent early enough to have arrived by then: at clock 0 none is pending.  *)
(***************************************************************************)
EventInv ==
  /\ Early /\ InTime
  /\ lost = 0 => OnlyThisRound /\ Registered /\ ToBeDeleted

LEMMA NothingPending ==
  ASSUME TypeInv, InTime, clock = 0
  PROVE  \A x \in net : ~Changes(x)
<1> SUFFICES ASSUME NEW x \in net, Changes(x) PROVE FALSE
  OBVIOUS
<1>1. x.age \in 0 .. MaxDelay /\ MaxDelay \in Nat
  BY InteractionAssumption DEF TypeInv, Types, Messages
<1>2. clock + x.age > MaxDelay
  BY DEF InTime, OfThisRound
<1>3. QED BY <1>1, <1>2

\* What the invariant speaks of.
LEMMA SameEvents ==
  ASSUME EventInv, UNCHANGED <<round, phase, clock, chosen, event, net, lost>>,
         thread'[round] = thread[round]
  PROVE  EventInv'
BY DEF EventInv, Early, InTime, OfThisRound, OnlyThisRound, Registered, ToBeDeleted,
       Passed, Pending, Polls, Behaviour

\* Where the thread of the round is, by what it does.
LEMMA RoundPlaces ==
  ASSUME TypeInv, PlaceInv
  PROVE  /\ thread[round].pc = "begin" => phase = "window" /\ Works(round)
         /\ thread[round].pc = "delete" => phase = "pause" /\ Ends(round) /\ ~Polls(round)
         /\ thread[round].pc = "reify" /\ ~Polls(round) /\ thread[round].i <= N =>
              phase = "window" /\ Works(round)
         /\ thread[round].pc = "poll" => Polls(round) \/ ~flag[Behaviour(round)]
         /\ thread[round].interrupted => phase = "pause" /\ ToInterrupt(round)
         /\ phase \in {"start", "end"} => thread[round].pc \in {"none", "done", "poll"}
<1>1. /\ round \in Rounds /\ phase \in {"start", "window", "pause", "end"}
      /\ thread[round] \in Threads
  BY DEF TypeInv, Types
<1>2. CASE phase = "start"
  <2>1. thread[round].pc = "none" /\ ~thread[round].interrupted
    BY <1>2 DEF PlaceInv, NoThread
  <2>2. QED BY <1>2, <2>1
<1>3. CASE phase = "window"
  <2>1. Works(round)
    BY <1>3 DEF PlaceInv
  <2>2. thread[round].pc \notin {"delete", "none", "done"} /\ ~thread[round].interrupted
        /\ (thread[round].pc = "poll" => Polls(round))
    BY <2>1 DEF Works
  <2>3. QED BY <1>3, <2>1, <2>2
<1>4. CASE phase = "pause" /\ ToInterrupt(round)
  <2>1. thread[round].pc = "reify" /\ ~Polls(round) => thread[round].i > N
    BY <1>1, <1>4, TargetsCounted DEF ToInterrupt, ToSend, Threads, Positions
  <2>2. /\ thread[round].pc \notin {"begin", "delete"}
        /\ (thread[round].pc = "poll" => Polls(round))
    BY <1>4 DEF ToInterrupt
  <2>3. thread[round].i \in Int /\ N \in Int
    BY <1>1, TargetsCounted DEF Threads, Positions
  <2>4. QED BY <1>4, <2>1, <2>2, <2>3
<1>5. CASE phase = "pause" /\ Ends(round)
  <2>1. /\ thread[round].pc # "begin" /\ ~thread[round].interrupted
        /\ (thread[round].pc = "delete" => ~Polls(round))
        /\ (thread[round].pc \in {"reify", "poll"} => Polls(round))
    BY <1>5 DEF Ends
  <2>2. QED BY <1>5, <2>1
<1>6. CASE phase = "end"
  <2>1. /\ thread[round].pc \in {"none", "done", "poll"} /\ ~thread[round].interrupted
        /\ (thread[round].pc = "poll" => ~flag[Behaviour(round)])
    BY <1>6 DEF PlaceInv, Over
  <2>2. QED BY <1>6, <2>1
<1>7. QED BY <1>1, <1>2, <1>3, <1>4, <1>5, <1>6 DEF PlaceInv

\* The thread of a round that is over sends nothing.
LEMMA OthersMove ==
  ASSUME TypeInv, PlaceInv, NEW r \in Rounds, r # round, Runs(r)
  PROVE  /\ UNCHANGED <<mediadorVars, moteVars, net, controllerVars, lost>>
         /\ thread'[round] = thread[round]
<1>1. Types /\ round \in Rounds
  BY DEF TypeInv, Types
<1>2. thread[r].pc \notin {"reify", "delete"}
  <2>1. CASE r > round
    BY <2>1 DEF PlaceInv, NoThread
  <2>2. CASE r < round
    BY <2>2 DEF PlaceInv, Over, SleepsOnce
  <2>3. QED BY <1>1, <2>1, <2>2, RoundsOrdered
<1>3. ~Sends(r)
  BY <1>1, <1>2, SendsShape
<1>4. Moves(r)
  BY <1>3 DEF Runs
<1>5. QED BY <1>1, <1>4, MovesShape

LEMMA OthersKeepEvents ==
  ASSUME TypeInv, PlaceInv, EventInv, NEW r \in Rounds, r # round, Runs(r)
  PROVE  EventInv'
BY OthersMove, SameEvents DEF mediadorVars, moteVars

LEMMA MovesKeepEvents ==
  ASSUME TypeInv, PlaceInv, TimeToArrive, EventInv, Moves(round)
  PROVE  EventInv'
<1>1. Types /\ round \in Rounds /\ thread[round] \in Threads /\ clock \in Nat /\ N \in Nat
      /\ MaxDelay \in Nat /\ Pause \in Nat /\ Windows \subseteq Nat
  BY TargetsCounted, InteractionAssumption DEF TypeInv, Types
<1>2. /\ UNCHANGED <<round, phase, clock, chosen, event, net, lost>>
      /\ Behaviour(round)' = Behaviour(round) /\ Polls(round)' = Polls(round)
  BY <1>1, MovesShape DEF mediadorVars, moteVars, Behaviour, Polls
<1>3. InTime' /\ (OnlyThisRound => OnlyThisRound')
  BY <1>2 DEF EventInv, InTime, OfThisRound, OnlyThisRound
<1>4. Early'
  <2> SUFFICES ASSUME ~Polls(round), thread'[round].pc \in {"reify", "delete"}
               PROVE  clock + thread'[round].i > N + MaxDelay + thread'[round].sleep
    BY <1>2 DEF Early
  <2>1. CASE Begin(round)
    <3>1. /\ thread[round].pc = "begin" /\ thread'[round].i = 1
          /\ thread'[round].sleep = thread[round].sleep
      BY <1>1, <2>1, StepFields
    <3>2. clock \in Windows /\ thread[round].sleep = 0
      BY <3>1, RoundPlaces DEF Works
    <3>3. N + MaxDelay <= clock
      BY <3>2 DEF TimeToArrive
    <3>4. QED BY <1>1, <3>1, <3>2, <3>3
  <2>2. CASE Interrupted(round)
    <3>1. thread[round].interrupted /\ thread'[round].i = 1 /\ thread'[round].sleep = 0
      BY <1>1, <2>2, StepFields
    <3>2. clock = Pause
      BY <3>1, RoundPlaces DEF ToInterrupt
    <3>3. QED BY <1>1, <3>1, <3>2 DEF TimeToArrive
  <2>3. CASE PollAgain(round)
    <3>1. thread[round].pc = "poll" /\ flag[Behaviour(round)]
      BY <1>1, <2>3, StepFields
    <3>2. QED BY <3>1, RoundPlaces
  <2>4. CASE DeleteEnds(round)
    <3>1. thread[round].pc = "delete" /\ thread'[round].pc = thread[round].back[1]
      BY <1>1, <2>4, StepFields
    <3>2. thread[round].back[1] = "exec"
      BY <3>1, RoundPlaces DEF Ends
    <3>3. QED BY <3>1, <3>2
  <2>5. CASE ReifyEnds(round) \/ ExecEnds(round)
    <3>1. thread'[round].pc \notin {"reify", "delete"}
      BY <1>1, <2>5, StepFields
    <3>2. QED BY <3>1
  <2>6. QED BY <2>1, <2>2, <2>3, <2>4, <2>5 DEF Moves
<1>5. Registered => Registered'
  <2> SUFFICES ASSUME Registered, phase = "window", Behaviour(round) = Periodic,
                      NEW j \in 1 .. N, Targets[j] \in Motes, Passed(j)'
               PROVE  event[Targets[j]] = round \/ Pending(Targets[j], "periodic")
    BY <1>2 DEF Registered, Pending
  <2>1. ~Polls(round) /\ Works(round)
    BY DEF Polls, Periodic, Polling, PlaceInv
  <2>2. thread'[round].pc = "exec" \/ (thread'[round].pc = "reify" /\ j < thread'[round].i)
    BY <1>2 DEF Passed
  <2>3. ReifyEnds(round)
    <3>1. ~Begin(round)
      BY <1>1, <2>2, StepFields
    <3>2. ~Interrupted(round)
      BY <1>1, <2>1, StepFields DEF Works
    <3>3. ~PollAgain(round) /\ ~ExecEnds(round)
      BY <1>1, <2>1, StepFields DEF Works
    <3>4. ~DeleteEnds(round)
      BY <1>1, <2>1, StepFields DEF Works
    <3>5. QED BY <3>1, <3>2, <3>3, <3>4 DEF Moves
  <2>4. thread[round].pc = "reify" /\ thread[round].i > N
    BY <1>1, <2>3, StepFields
  <2>5. Passed(j)
    BY <1>1, <2>4 DEF Passed, Threads, Positions
  <2>6. QED BY <2>5 DEF Registered
<1>6. OnlyThisRound /\ ToBeDeleted => ToBeDeleted'
  <2> SUFFICES ASSUME OnlyThisRound, ToBeDeleted, phase = "pause", NEW m \in Motes, event[m] # NoRound
               PROVE  \/ thread'[round].interrupted
                      \/ /\ thread'[round].pc = "delete"
                         /\ \E j \in thread'[round].i .. N : Targets[j] = m
                      \/ Pending(m, "deleteEvent")
    BY <1>2 DEF ToBeDeleted, Pending
  <2>1. ~Polls(round) /\ \E j \in 1 .. N : Targets[j] = m
    BY DEF OnlyThisRound, Polls, Periodic, Polling
  <2>2. CASE Interrupted(round)
    <3>1. thread'[round].pc = "delete" /\ thread'[round].i = 1
      BY <1>1, <2>1, <2>2, StepFields
    <3>2. QED BY <2>1, <3>1
  <2>3. CASE ~Interrupted(round)
    <3>1. thread'[round].interrupted = thread[round].interrupted
      BY <1>1, <2>3, StepFields DEF Moves
    <3>2. thread[round].pc = "delete" => thread[round].i > N
      BY <1>1, <2>3, StepFields DEF Moves
    <3>3. ~\E j \in thread[round].i .. N : thread[round].pc = "delete"
      BY <1>1, <3>2 DEF Threads, Positions
    <3>4. QED BY <3>1, <3>3 DEF ToBeDeleted
  <2>4. QED BY <2>2, <2>3
<1>7. QED BY <1>2, <1>3, <1>4, <1>5, <1>6 DEF EventInv

\* What a thread sends.
LEMMA SendsNet ==
  ASSUME Types, NEW r \in Rounds, Sends(r)
  PROVE  LET a == Targets[thread[r].i]
             asks == IF thread[r].pc = "reify" THEN Asks(Behaviour(r)) ELSE "deleteEvent"
         IN  net' = IF a \notin Motes THEN net
                    ELSE net \cup {[mote |-> a, up |-> FALSE, round |-> r, asks |-> asks,
                                    says |-> "request", age |-> 0]}
BY DEF Sends, Reify, Delete, SendMessage

LEMMA SendsKeepEvents ==
  ASSUME TypeInv, PlaceInv, EventInv, Sends(round)
  PROVE  EventInv'
<1> DEFINE t == thread[round]
           a == Targets[t.i]
           asks == IF t.pc = "reify" THEN Asks(Behaviour(round)) ELSE "deleteEvent"
           new == [mote |-> a, up |-> FALSE, round |-> round, asks |-> asks,
                   says |-> "request", age |-> 0]
<1>1. Types /\ round \in Rounds /\ t \in Threads /\ clock \in Nat /\ N \in Nat
      /\ MaxDelay \in Nat /\ t.i \in 1 .. N /\ t.sleep = 0 /\ t.pc \in {"reify", "delete"}
  BY TargetsCounted, InteractionAssumption, SendsShape DEF TypeInv, Types
<1>2. /\ UNCHANGED <<round, phase, clock, chosen, event, lost>>
      /\ Behaviour(round)' = Behaviour(round) /\ Polls(round)' = Polls(round)
  BY <1>1, SendsShape DEF mediadorVars, moteVars, Behaviour, Polls
<1>3. net' = IF a \notin Motes THEN net ELSE net \cup {new}
  BY <1>1, SendsNet
<1>4. /\ thread'[round].pc = t.pc /\ thread'[round].i = t.i + 1 /\ thread'[round].sleep = 1
      /\ thread'[round].interrupted = t.interrupted
  BY <1>1, SendsFields
<1>5. asks = "periodic" => t.pc = "reify" /\ Behaviour(round) = Periodic /\ ~Polls(round)
  BY <1>1, BehaviourTyped DEF Asks, Behaviours, Polls, Periodic, Polling, Alert
<1>6. asks = "deleteEvent" => t.pc = "delete" /\ phase = "pause" /\ ~Polls(round)
  BY <1>1, BehaviourTyped, RoundPlaces DEF Asks, Behaviours, Periodic, Polling, Alert
<1>7. t.pc = "reify" /\ ~Polls(round) => phase = "window"
  BY <1>1, RoundPlaces
<1>8. ~Polls(round) => clock > MaxDelay
  BY <1>1 DEF EventInv, Early
<1> HIDE DEF asks
<1>9. Early'
  BY <1>1, <1>2, <1>4 DEF EventInv, Early
<1>10. InTime'
  <2> SUFFICES ASSUME NEW x \in net', Changes(x)
               PROVE  OfThisRound(x)'
    BY DEF InTime, Changes
  <2>1. CASE x \in net
    BY <1>2, <2>1 DEF EventInv, InTime, OfThisRound
  <2>2. CASE x \notin net
    <3>1. x = new /\ \E j \in 1 .. N : Targets[j] = a
      BY <1>1, <1>3, <2>2
    <3>2. /\ x.round = round /\ x.mote = a /\ x.age = 0 /\ x.asks = asks
          /\ asks \in {"periodic", "deleteEvent"}
      BY <3>1 DEF Changes
    <3>3. clock + x.age > MaxDelay
      BY <1>1, <1>5, <1>6, <1>8, <3>2
    <3>4. QED BY <1>2, <1>5, <1>6, <1>7, <3>1, <3>2, <3>3 DEF OfThisRound
  <2>3. QED BY <2>1, <2>2
<1>11. OnlyThisRound => OnlyThisRound'
  BY <1>2 DEF OnlyThisRound
<1>12. \A m \in Motes, what \in Asked : Pending(m, what) => Pending(m, what)'
  BY <1>3 DEF Pending
<1>13. ASSUME NEW j \in 1 .. N, j = t.i, Targets[j] \in Motes, NEW what, what = asks
       PROVE  Pending(Targets[j], what)'
  <2>1. new \in net'
    BY <1>3, <1>13
  <2>2. new.mote = Targets[j] /\ ~new.up /\ new.asks = what
    BY <1>13
  <2> HIDE DEF new
  <2>3. QED BY <2>1, <2>2 DEF Pending
<1>14. Registered => Registered'
  <2> SUFFICES ASSUME Registered, phase = "window", Behaviour(round) = Periodic,
                      NEW j \in 1 .. N, Targets[j] \in Motes, Passed(j)'
               PROVE  event[Targets[j]] = round \/ Pending(Targets[j], "periodic")'
    BY <1>2 DEF Registered
  <2>1. t.pc = "reify" /\ j < t.i + 1
    BY <1>1, <1>2, <1>4, RoundPlaces DEF Passed
  <2>2. CASE j = t.i
    <3>1. asks = "periodic"
      <4>1. asks = Asks(Behaviour(round))
        BY <2>1 DEF asks
      <4>2. QED BY <4>1 DEF Asks, Periodic, Polling, Alert
    <3>2. QED BY <1>13, <2>2, <3>1
  <2>3. CASE j < t.i
    <3>1. event[Targets[j]] = round \/ Pending(Targets[j], "periodic")
      BY <2>1, <2>3 DEF Registered, Passed
    <3>2. QED BY <1>12, <3>1 DEF Asked
  <2>4. QED BY <1>1, <2>1, <2>2, <2>3
<1>15. ToBeDeleted => ToBeDeleted'
  <2> SUFFICES ASSUME ToBeDeleted, phase = "pause", NEW m \in Motes, event[m] # NoRound
               PROVE  \/ thread'[round].interrupted
                      \/ /\ thread'[round].pc = "delete"
                         /\ \E j \in thread'[round].i .. N : Targets[j] = m
                      \/ Pending(m, "deleteEvent")'
    BY <1>2 DEF ToBeDeleted
  <2>1. CASE t.pc = "delete" /\ \E j \in t.i .. N : Targets[j] = m
    <3>1. PICK j \in t.i .. N : Targets[j] = m
      BY <2>1
    <3>2. CASE j = t.i
      <4>1. asks = "deleteEvent"
        BY <2>1 DEF asks
      <4>2. Targets[j] \in Motes
        BY <3>1
      <4>3. Pending(Targets[j], "deleteEvent")'
        BY <1>1, <1>13, <3>1, <3>2, <4>1, <4>2
      <4>4. QED BY <3>1, <4>3 DEF Pending
    <3>3. CASE j # t.i
      <4>1. j \in (t.i + 1) .. N
        BY <1>1, <3>1, <3>3
      <4>2. QED BY <1>4, <2>1, <3>1, <4>1
    <3>4. QED BY <3>2, <3>3
  <2>2. CASE t.interrupted \/ Pending(m, "deleteEvent")
    BY <1>4, <1>12, <2>2 DEF Asked
  <2>3. QED BY <2>1, <2>2 DEF ToBeDeleted
<1>16. QED BY <1>2, <1>9, <1>10, <1>11, <1>14, <1>15 DEF EventInv

LEMMA MessagesKeepEvents ==
  ASSUME TypeInv, EventInv, NEW x \in net, ReceiveController(x) \/ ReceivePacket(x) \/ Lose(x)
  PROVE  EventInv'
<1>1. /\ UNCHANGED <<round, phase, clock, chosen, thread>>
      /\ Behaviour(round)' = Behaviour(round) /\ Polls(round)' = Polls(round)
  BY DEF ReceiveController, ReceivePacket, Lose, mediadorVars, threadVars, Behaviour, Polls
<1>2. /\ round \in Rounds /\ event \in [Motes -> Rounds \cup {NoRound}]
      /\ x \in Messages /\ lost \in Nat
  BY InteractionAssumption DEF TypeInv, Types
<1>3. x.mote \in Motes /\ round # NoRound
  BY <1>2, RoundsOrdered DEF Messages, NoRound
<1>4. Early'
  BY <1>1 DEF EventInv, Early
<1>5. \A y \in net' : Changes(y) => y \in net
  <2>1. \/ net' = net \ {x}
        \/ \E says \in {"reading", "notice", "error"} : net' = (net \ {x}) \cup {Answer(x, says)}
    BY DEF ReceiveController, ReceivePacket, Lose, CheckRequest
  <2>2. \A says \in {"reading", "notice", "error"} : Answer(x, says).up
    BY <1>2 DEF Answer, Messages
  <2>3. QED BY <2>1, <2>2 DEF Changes
<1>6. InTime'
  BY <1>1, <1>5 DEF EventInv, InTime, OfThisRound, Changes
<1>7. ASSUME NEW m \in Motes, NEW what \in {"periodic", "deleteEvent"}, Pending(m, what)
      PROVE  Pending(m, what)' \/ (~x.up /\ x.mote = m /\ x.asks = what)
  <2>1. PICK y \in net : y.mote = m /\ ~y.up /\ y.asks = what
    BY <1>7 DEF Pending
  <2>2. y # x => y \in net'
    BY DEF ReceiveController, ReceivePacket, Lose, CheckRequest
  <2>3. QED BY <2>1, <2>2 DEF Pending
<1>8. CASE Lose(x)
  <2>1. lost' # 0
    BY <1>2, <1>8 DEF Lose
  <2>2. QED BY <1>4, <1>6, <2>1 DEF EventInv
<1>9. CASE ReceivePacket(x)
  <2>1. x.up /\ UNCHANGED <<event, lost>>
    BY <1>9 DEF ReceivePacket, moteVars
  <2>2. OnlyThisRound => OnlyThisRound'
    BY <1>1, <2>1 DEF OnlyThisRound
  <2>3. Registered => Registered'
    BY <1>1, <1>7, <2>1 DEF Registered, Passed
  <2>4. ToBeDeleted => ToBeDeleted'
    BY <1>1, <1>7, <2>1 DEF ToBeDeleted
  <2>5. QED BY <1>4, <1>6, <2>1, <2>2, <2>3, <2>4 DEF EventInv
<1>10. CASE ReceiveController(x)
  <2> DEFINE registers == x.asks = "periodic" /\ event[x.mote] = NoRound
             deletes == x.asks = "deleteEvent" /\ event[x.mote] # NoRound
  <2>1. /\ ~x.up /\ lost' = lost
        /\ event' = IF registers THEN [event EXCEPT ![x.mote] = x.round]
                    ELSE IF deletes THEN [event EXCEPT ![x.mote] = NoRound] ELSE event
    BY <1>10 DEF ReceiveController, CheckRequest
  <2>2. /\ registers => event'[x.mote] = x.round
        /\ deletes => event'[x.mote] = NoRound
        /\ ~registers /\ ~deletes => event' = event
        /\ \A m \in Motes : m # x.mote => event'[m] = event[m]
    BY <1>2, <1>3, <2>1
  <2>3. registers => /\ x.round = round /\ phase = "window" /\ Behaviour(round) = Periodic
                     /\ \E j \in 1 .. N : Targets[j] = x.mote
    BY <2>1 DEF EventInv, InTime, OfThisRound, Changes
  <2>4. deletes => phase = "pause"
    BY <2>1 DEF EventInv, InTime, OfThisRound, Changes
  <2>5. OnlyThisRound => OnlyThisRound'
    <3> SUFFICES ASSUME OnlyThisRound, NEW m \in Motes, event'[m] # NoRound
                 PROVE  /\ event'[m] = round /\ Behaviour(round) = Periodic
                        /\ phase \in {"window", "pause"} /\ \E j \in 1 .. N : Targets[j] = m
      BY <1>1 DEF OnlyThisRound
    <3>1. CASE registers /\ m = x.mote
      BY <2>2, <2>3, <3>1
    <3>2. CASE ~(registers /\ m = x.mote)
      <4>1. event'[m] = event[m]
        BY <2>2, <3>2
      <4>2. QED BY <4>1 DEF OnlyThisRound
    <3>3. QED BY <3>1, <3>2
  <2>6. OnlyThisRound /\ Registered => Registered'
    <3> SUFFICES ASSUME OnlyThisRound, Registered, phase = "window", Behaviour(round) = Periodic,
                        NEW j \in 1 .. N, Targets[j] \in Motes, Passed(j)
                 PROVE  event'[Targets[j]] = round \/ Pending(Targets[j], "periodic")'
      BY <1>1 DEF Registered, Passed
    <3>1. event[Targets[j]] = round => event'[Targets[j]] = round
      BY <1>3, <2>2, <2>4
    <3>2. CASE Pending(Targets[j], "periodic")
      <4>1. CASE x.mote = Targets[j] /\ x.asks = "periodic"
        <5>1. CASE event[x.mote] = NoRound
          BY <2>2, <2>3, <4>1, <5>1
        <5>2. CASE event[x.mote] # NoRound
          BY <1>3, <3>1, <4>1, <5>2 DEF OnlyThisRound
        <5>3. QED BY <5>1, <5>2
      <4>2. QED BY <1>7, <3>2, <4>1
    <3>3. QED BY <3>1, <3>2 DEF Registered
  <2>7. ToBeDeleted => ToBeDeleted'
    <3> SUFFICES ASSUME ToBeDeleted, phase = "pause", NEW m \in Motes, event'[m] # NoRound
                 PROVE  \/ thread[round].interrupted
                        \/ /\ thread[round].pc = "delete"
                           /\ \E j \in thread[round].i .. N : Targets[j] = m
                        \/ Pending(m, "deleteEvent")'
      BY <1>1 DEF ToBeDeleted
    <3>1. ~registers
      BY <2>3
    <3>2. event'[m] = event[m] /\ event[m] # NoRound
      BY <2>2, <3>1
    <3>3. ~(x.mote = m /\ x.asks = "deleteEvent")
      BY <2>2, <3>2
    <3>4. Pending(m, "deleteEvent") => Pending(m, "deleteEvent")'
      BY <1>7, <3>3
    <3>5. QED BY <3>2, <3>4 DEF ToBeDeleted
  <2>8. QED BY <1>4, <1>6, <2>1, <2>5, <2>6, <2>7 DEF EventInv
<1>11. QED BY <1>8, <1>9, <1>10

LEMMA TickKeepsEvents ==
  ASSUME TypeInv, PlaceInv, EventInv, Tick
  PROVE  EventInv'
<1>1. /\ UNCHANGED <<round, phase, chosen, event, lost>>
      /\ Behaviour(round)' = Behaviour(round) /\ Polls(round)' = Polls(round)
      /\ phase # "end" => clock > 0 /\ clock' = clock - 1
      /\ net' = {[x EXCEPT !.age = @ + 1] : x \in net} \cup SendDataEvents
      /\ AtRest(round)
  BY DEF Tick, Behaviour, Polls, TypeInv, Types
<1>2. /\ round \in Rounds /\ clock \in Nat /\ N \in Nat /\ MaxDelay \in Nat
      /\ thread[round] \in Threads /\ net \subseteq Messages
  BY TargetsCounted, InteractionAssumption DEF TypeInv, Types
<1>3. /\ thread'[round].pc = thread[round].pc /\ thread'[round].i = thread[round].i
      /\ thread'[round].interrupted = thread[round].interrupted
      /\ thread[round].sleep > 0 => thread'[round].sleep = thread[round].sleep - 1
      /\ thread[round].i \in Int /\ thread[round].sleep \in Nat
  <2>1. thread'[round] = [thread[round] EXCEPT !.sleep = IF @ > 0 THEN @ - 1 ELSE 0]
    BY <1>2 DEF Tick
  <2>2. QED BY <1>2, <2>1 DEF Threads, Positions
<1>4. ASSUME NEW x \in net
      PROVE  LET y == [x EXCEPT !.age = @ + 1]
             IN  /\ y \in net' /\ y.age = x.age + 1 /\ x.age \in Nat
                 /\ y.mote = x.mote /\ y.up = x.up /\ y.round = x.round /\ y.asks = x.asks
  BY <1>1, <1>2 DEF Messages
<1>5. \A y \in SendDataEvents : y.up
  <2> SUFFICES ASSUME NEW y \in SendDataEvents PROVE y.up
    OBVIOUS
  <2>1. \E m \in EventDue : y = [mote |-> m, up |-> TRUE, round |-> event[m], asks |-> "periodic",
                                 says |-> "reading", age |-> 0]
    BY DEF SendDataEvents
  <2>2. QED BY <2>1
<1>6. Early'
  <2> SUFFICES ASSUME ~Polls(round), thread[round].pc \in {"reify", "delete"}, thread[round].i <= N
               PROVE  clock' + thread[round].i > N + MaxDelay + thread'[round].sleep
    BY <1>1, <1>3 DEF Early
  <2>1. thread[round].sleep > 0
    BY <1>1, <1>2 DEF AtRest, Awake, Threads
  <2>2. phase # "end"
    BY RoundPlaces
  <2>3. clock + thread[round].i > N + MaxDelay + thread[round].sleep
    BY DEF EventInv, Early
  <2>4. QED BY <1>1, <1>2, <1>3, <2>1, <2>2, <2>3
<1>7. InTime'
  <2> SUFFICES ASSUME NEW y \in net', Changes(y)
               PROVE  OfThisRound(y)'
    BY DEF InTime, Changes
  <2>1. PICK x \in net : y = [x EXCEPT !.age = @ + 1]
    BY <1>1, <1>5 DEF Changes
  <2>2. /\ y.age = x.age + 1 /\ x.age \in Nat
        /\ y.mote = x.mote /\ y.up = x.up /\ y.round = x.round /\ y.asks = x.asks
    BY <1>4, <2>1
  <2>3. Changes(x) /\ OfThisRound(x)
    BY <2>2 DEF Changes, EventInv, InTime
  <2>4. phase # "end"
    BY <2>3 DEF Changes, OfThisRound
  <2>5. clock' + y.age > MaxDelay
    BY <1>1, <1>2, <2>2, <2>3, <2>4 DEF OfThisRound
  <2>6. QED BY <1>1, <2>2, <2>3, <2>5 DEF OfThisRound
<1>8. \A m \in Motes, what \in Asked : Pending(m, what) => Pending(m, what)'
  BY <1>4 DEF Pending
<1>9. OnlyThisRound => OnlyThisRound'
  BY <1>1 DEF OnlyThisRound
<1>10. Registered => Registered'
  BY <1>1, <1>3, <1>8 DEF Registered, Passed, Asked
<1>11. ToBeDeleted => ToBeDeleted'
  BY <1>1, <1>3, <1>8 DEF ToBeDeleted, Asked
<1>12. QED BY <1>1, <1>6, <1>7, <1>9, <1>10, <1>11 DEF EventInv

\* When the clock stands at 0 no event is left, but those of an open window.
LEMMA NoEventsLeft ==
  ASSUME TypeInv, PlaceInv, TimeToArrive, EventInv, lost = 0, phase = "pause", clock = 0
  PROVE  \A m \in Motes : event[m] = NoRound
<1> SUFFICES ASSUME NEW m \in Motes, event[m] # NoRound PROVE FALSE
  OBVIOUS
<1>1. Pause \in Nat /\ N \in Nat /\ N < Pause /\ round \in Rounds /\ thread[round] \in Threads
  BY TargetsCounted, InteractionAssumption DEF TimeToArrive, LongEnough, TypeInv, Types
<1>2. ~thread[round].interrupted
  BY <1>1, RoundPlaces DEF ToInterrupt
<1>3. thread[round].pc # "delete"
  <2> SUFFICES ASSUME thread[round].pc = "delete" PROVE FALSE
    OBVIOUS
  <2>1. ToSend(round) < 0
    BY RoundPlaces DEF Ends
  <2>2. QED BY <1>1, <2>1 DEF ToSend, Threads, Positions
<1>4. ~Pending(m, "deleteEvent")
  BY NothingPending DEF Pending, Changes, EventInv
<1>5. QED BY <1>2, <1>3, <1>4 DEF EventInv, ToBeDeleted

LEMMA MediadorKeepsEvents ==
  ASSUME TypeInv, PlaceInv, PlaceInv', TimeToArrive, EventInv, Mediador
  PROVE  EventInv'
<1>1. /\ round \in Rounds /\ thread \in [Rounds -> Threads] /\ clock \in Nat
      /\ N \in Nat /\ Pause \in Nat /\ MaxDelay \in Nat
  BY TargetsCounted, InteractionAssumption DEF TypeInv, Types
<1>2. UNCHANGED <<event, net, lost>>
  BY DEF Mediador, Execute, CallStopMsg, NextWindow, Stop, NextRound, MediadorCounts, moteVars
<1>3. CASE Execute
  <2>1. /\ phase = "start" /\ phase' = "window" /\ UNCHANGED <<round, chosen>>
        /\ thread' = [thread EXCEPT ![round] = [NoThread EXCEPT !.pc = "begin"]]
    BY <1>3 DEF Execute
  <2>2. thread'[round].pc = "begin"
    <3>1. thread'[round] = [NoThread EXCEPT !.pc = "begin"]
      BY <1>1, <2>1
    <3>2. QED BY <3>1 DEF NoThread
  <2>3. \A x \in net : ~Changes(x)
    BY <2>1 DEF EventInv, InTime, OfThisRound, Changes
  <2>4. lost = 0 => \A m \in Motes : event[m] = NoRound
    BY <2>1 DEF EventInv, OnlyThisRound
  <2>5. Early' /\ InTime'
    BY <1>2, <2>1, <2>2, <2>3 DEF Early, InTime, Changes
  <2>6. lost = 0 => OnlyThisRound' /\ Registered' /\ ToBeDeleted'
    BY <1>2, <2>1, <2>2, <2>4 DEF OnlyThisRound, Registered, ToBeDeleted, Passed
  <2>7. QED BY <1>2, <2>5, <2>6 DEF EventInv
<1>4. CASE NextWindow
  <2>1. phase = "window" /\ clock = 0 /\ UNCHANGED <<round, phase, chosen, thread>>
    BY <1>4 DEF NextWindow, threadVars
  <2>2. \A x \in net : ~Changes(x)
    BY <2>1, NothingPending DEF EventInv
  <2>3. ~Polls(round) => ~(thread[round].pc \in {"reify", "delete"} /\ thread[round].i <= N)
    <3>1. Works(round)
      BY <2>1 DEF PlaceInv
    <3>2. thread[round] \in Threads
      BY <1>1
    <3>3. QED BY <1>1, <2>1, <3>1, <3>2 DEF Works, ToSend, Threads, Positions
  <2>4. Early' /\ InTime'
    BY <1>2, <2>1, <2>2, <2>3 DEF Early, InTime, Changes, Polls, Behaviour
  <2>5. /\ OnlyThisRound => OnlyThisRound'
        /\ Registered => Registered'
        /\ ToBeDeleted'
    BY <1>2, <2>1 DEF OnlyThisRound, Registered, ToBeDeleted, Passed, Pending, Behaviour
  <2>6. QED BY <1>2, <2>4, <2>5 DEF EventInv
<1>5. CASE Stop
  <2>1. /\ phase = "window" /\ clock = 0 /\ phase' = "pause" /\ UNCHANGED <<round, chosen>>
        /\ thread' = [thread EXCEPT ![round].interrupted = TRUE]
    BY <1>5 DEF Stop
  <2>2. /\ thread'[round].interrupted /\ thread'[round].pc = thread[round].pc
        /\ thread'[round].i = thread[round].i
    <3>1. thread'[round] = [thread[round] EXCEPT !.interrupted = TRUE] /\ thread[round] \in Threads
      BY <1>1, <2>1
    <3>2. QED BY <3>1 DEF Threads
  <2>3. \A x \in net : ~Changes(x)
    BY <2>1, NothingPending DEF EventInv
  <2>4. ~Polls(round) => ~(thread[round].pc \in {"reify", "delete"} /\ thread[round].i <= N)
    <3>1. Works(round)
      BY <2>1 DEF PlaceInv
    <3>2. thread[round] \in Threads
      BY <1>1
    <3>3. QED BY <1>1, <2>1, <3>1, <3>2 DEF Works, ToSend, Threads, Positions
  <2>5. Early' /\ InTime'
    BY <1>2, <2>1, <2>2, <2>3, <2>4 DEF Early, InTime, Changes, Polls, Behaviour
  <2>6. (OnlyThisRound => OnlyThisRound') /\ Registered' /\ ToBeDeleted'
    BY <1>2, <2>1, <2>2 DEF OnlyThisRound, Registered, ToBeDeleted, Behaviour
  <2>7. QED BY <1>2, <2>5, <2>6 DEF EventInv
<1>6. CASE NextRound
  <2>1. phase = "pause" /\ clock = 0 /\ phase' \in {"start", "end"}
    BY <1>6 DEF NextRound
  <2>2. \A x \in net : ~Changes(x)
    BY <2>1, NothingPending DEF EventInv
  <2>3. lost = 0 => \A m \in Motes : event[m] = NoRound
    BY <2>1, NoEventsLeft
  <2>4. thread'[round'].pc \notin {"reify", "delete"}
    BY <2>1 DEF PlaceInv, NoThread, Over
  <2>5. Early' /\ InTime'
    BY <1>2, <2>2, <2>4 DEF Early, InTime, Changes
  <2>6. lost = 0 => OnlyThisRound' /\ Registered' /\ ToBeDeleted'
    BY <1>2, <2>1, <2>3 DEF OnlyThisRound, Registered, ToBeDeleted
  <2>7. QED BY <1>2, <2>5, <2>6 DEF EventInv
<1>7. CASE CallStopMsg \/ MediadorCounts
  BY <1>7, SameEvents DEF CallStopMsg, MediadorCounts, mediadorVars, threadVars, moteVars
<1>8. QED BY <1>3, <1>4, <1>5, <1>6, <1>7 DEF Mediador

LEMMA StepKeepsEvents ==
  ASSUME TypeInv, PlaceInv, TimeToArrive, EventInv, [Next]_vars
  PROVE  EventInv'
<1>1. CASE Mediador
  <2>1. PlaceInv'
    BY StepPlaces DEF TimeToArrive
  <2>2. QED BY <1>1, <2>1, MediadorKeepsEvents
<1>2. ASSUME NEW r \in Rounds, BehaviourStep(r) PROVE EventInv'
  <2>1. CASE r = round /\ Sends(r)
    BY <2>1, SendsKeepEvents
  <2>2. CASE r = round /\ Moves(r)
    BY <2>2, MovesKeepEvents
  <2>3. CASE r # round /\ Runs(r)
    BY <2>3, OthersKeepEvents
  <2>4. CASE BehaviourCounts(r)
    BY <2>4, SameEvents, CountChanges DEF Count, mediadorVars, threadVars, moteVars
  <2>5. QED BY <1>2, <2>1, <2>2, <2>3, <2>4, BehaviourStepRuns DEF Runs
<1>3. ASSUME NEW x \in net, ReceiveController(x) \/ ReceivePacket(x) \/ Lose(x) PROVE EventInv'
  BY <1>3, MessagesKeepEvents
<1>4. CASE Tick
  BY <1>4, TickKeepsEvents
<1>5. CASE WorkerCounts
  BY <1>5, SameEvents, CountChanges DEF Count, mediadorVars, threadVars, moteVars
<1>6. CASE UNCHANGED vars
  <2>1. /\ UNCHANGED <<round, phase, clock, chosen, event, net, lost>>
        /\ thread'[round] = thread[round]
    BY <1>6 DEF vars, mediadorVars, threadVars, moteVars
  <2>2. QED BY <2>1, SameEvents
<1>7. QED BY <1>1, <1>2, <1>3, <1>4, <1>5, <1>6 DEF Next

LEMMA InitEvents == Init => EventInv
<1> SUFFICES ASSUME Init PROVE EventInv
  OBVIOUS
<1>1. /\ phase = "start" /\ net = {} /\ round \in Rounds
      /\ \A m \in Motes : event[m] = NoRound
  BY RoundsOrdered DEF Init
<1>2. thread[round].pc = "none"
  BY <1>1 DEF Init, NoThread
<1>3. QED
  BY <1>1, <1>2 DEF EventInv, Early, InTime, OnlyThisRound, Registered, ToBeDeleted

LEMMA EverySeen ==
  ASSUME TypeInv, PlaceInv, EventInv
  PROVE  EventsOfThisRound /\ EveryMoteObserved
<1>1. EventsOfThisRound
  BY DEF EventInv, OnlyThisRound, EventsOfThisRound
<1>2. EveryMoteObserved
  <2> SUFFICES ASSUME lost = 0, phase = "window", clock = 0, Behaviour(round) = Periodic,
                      NEW i \in 1 .. N, Targets[i] \in Motes
               PROVE  event[Targets[i]] = round
    BY DEF EveryMoteObserved
  <2>1. Works(round) /\ ~Polls(round) /\ thread[round] \in Threads /\ N \in Nat
    BY TargetsCounted DEF PlaceInv, Polls, Periodic, Polling, TypeInv, Types
  <2>2. Passed(i)
    <3>1. thread[round].pc = "reify" => thread[round].i = N + 1
      BY <2>1 DEF Works, ToSend, Threads, Positions
    <3>2. QED BY <2>1, <3>1 DEF Works, Passed
  <2>3. ~Pending(Targets[i], "periodic")
    BY NothingPending DEF EventInv, Pending, Changes
  <2>4. QED BY <2>2, <2>3 DEF EventInv, Registered
<1>3. QED BY <1>1, <1>2

------------------------------------------------------------------------------
(* The numbers that are compared *)

\* The thread has its first message to send, or has sent it, and no time has
\* passed since the window opened.
FirstToSend ==
  /\ phase = "window" /\ clock > 0
  /\ thread[round].sleep = 0 /\ ~thread[round].interrupted
  /\ thread[round].pc = "begin" \/ (thread[round].pc = "reify" /\ thread[round].i = 1)

FirstSent ==
  /\ phase = "window" /\ clock > 0
  /\ thread[round].sleep = 1 /\ ~thread[round].interrupted /\ thread[round].pc = "reify"

\* The places of a thread that starts the counters, and before it knows.
Starts == {At("clearTX", 0), At("clearRX", 0), At("raise", 0)}
New == Starts \cup {ToCount}

Cleared(p, m) ==
  /\ p.step \in {"clearRX", "raise"} => m.auxTX = 0
  /\ p.step = "raise" => m.auxRX = 0

\* The messages that may start the counters: the first of the thread, and the
\* answer to it.
NothingYet ==
  /\ ~metrics.count /\ FirstToSend /\ exchanged[round] = 0 /\ net = {}
  /\ sending[round] = Idle /\ receiving = Idle

FirstAlone ==
  /\ ~metrics.count /\ FirstSent /\ exchanged[round] = 1 /\ \A x, y \in net : x = y
  /\ sending[round] \in New /\ receiving = Idle

FirstAndAnswer ==
  /\ ~metrics.count /\ FirstSent /\ exchanged[round] = 2 /\ net = {}
  /\ sending[round] \in New /\ receiving \in New

LastOfBoth ==
  /\ metrics.count /\ FirstSent /\ exchanged[round] = 2 /\ net = {}
  /\ metrics.auxTX = 0 /\ metrics.auxRX = 0
  /\ \/ sending[round] = Idle /\ receiving \in Starts
     \/ sending[round] \in Starts /\ receiving = Idle

Opening ==
  /\ metrics.countMsgTX = 0 /\ metrics.countMsgRX = 0
  /\ Cleared(sending[round], metrics) /\ Cleared(receiving, metrics)
  /\ NothingYet \/ FirstAlone \/ FirstAndAnswer \/ LastOfBoth

\* Then each direction has one thread that counts, which adds one to both of its
\* counters.
Counts(p, aux, msg) ==
  \/ p \in {Idle, ToCount, At("read", 0)} /\ aux = msg
  \/ p = At("write", aux) /\ aux = msg
  \/ p = At("readAgain", 0) /\ aux = msg + 1
  \/ p = At("set", aux) /\ aux = msg + 1

Uncounted(p) == IF p = Idle THEN 0 ELSE 1

Running ==
  /\ metrics.count
  /\ Counts(sending[round], metrics.auxTX, metrics.countMsgTX)
  /\ Counts(receiving, metrics.auxRX, metrics.countMsgRX)
  /\ exchanged[round] - (metrics.countMsgTX + metrics.countMsgRX
                         + Uncounted(sending[round]) + Uncounted(receiving)) \in {1, 2}

Settled == exchanged[round] - (metrics.countMsgTX + metrics.countMsgRX) \in {1, 2}

Calm == net = {} /\ receiving = Idle /\ sending[round] = Idle

\* What is to be sent, or answered, or read yet in a pause is early enough.
AnswersInTime ==
  /\ thread[round].pc \in {"reify", "delete"} /\ thread[round].i <= N =>
        clock + thread[round].i > N + 2 * MaxDelay + thread[round].sleep
  /\ \A x \in net : clock + x.age > IF x.up THEN MaxDelay ELSE 2 * MaxDelay

OpensWindow ==
  /\ watching.step \in {"zeroTX", "zeroRX", "open", "idle"}
  /\ watching.step # "zeroTX" => metrics.countMsgTX = 0
  /\ watching.step \in {"open", "idle"} => metrics.countMsgRX = 0
  /\ watching.step = "idle" => ~metrics.count

ClosesWindow ==
  \/ watching = Idle /\ Running
  \/ clock = 0 /\ watching = ToStopMsg /\ Running
  \/ clock = 0 /\ watching = At("readTX", 0) /\ Settled
  \/ clock = 0 /\ watching = At("readRX", metrics.countMsgTX) /\ Settled
  \/ clock = 0 /\ watching = Stopped

RoundInv ==
  /\ \A r \in Rounds : r # round => sending[r] = Idle
  /\ phase = "start" => Calm /\ OpensWindow
  /\ phase = "window" => watching = Idle /\ (Opening \/ Running)
  /\ phase = "pause" => AnswersInTime /\ ClosesWindow /\ (clock = 0 => Calm)

Fresh(r) == r > round \/ (r = round /\ phase = "start")

(***************************************************************************)
(* Why ComparesWhatWasExchanged holds: when Mediador opens or closes a     *)
(* window nobody counts and nothing is on its way, and in between each     *)
(* counter has one writer, but for the first message and its answer, which *)
(* only clear the counters, each before it raises count.                   *)
(***************************************************************************)
CountInv ==
  lost = 0 =>
    /\ ComparesWhatWasExchanged
    /\ \A r \in Rounds : Fresh(r) => exchanged[r] = 0
    /\ round # Single => RoundInv

\* Places differ by their steps.
LEMMA PlacesDiffer ==
  /\ Idle.step = "idle" /\ ToCount.step = "test" /\ Stopped.step = "stopped"
  /\ ToStartMsg.step = "zeroTX" /\ ToStopMsg.step = "close"
  /\ \A s, v : At(s, v).step = s /\ At(s, v).value = v
BY DEF Idle, ToCount, Stopped, ToStartMsg, ToStopMsg, At

\* An access of a thread that starts the counters.
LEMMA StartsOne ==
  ASSUME metrics \in Metrics, NEW p \in New, NEW aux, NEW msg, Direction(aux, msg),
         ~metrics.count \/ p \in Starts, Cleared(p, metrics),
         metrics' = Access(p, aux, msg)
  PROVE  /\ metrics' \in Metrics
         /\ p # At("raise", 0) => /\ NextPlace(p, aux) \in Starts
                                  /\ Cleared(NextPlace(p, aux), metrics')
                                  /\ metrics'.count = metrics.count
         /\ p = At("raise", 0) => /\ NextPlace(p, aux) = Idle
                                  /\ metrics'.count /\ metrics'.auxTX = 0 /\ metrics'.auxRX = 0
         /\ metrics'.countMsgTX = metrics.countMsgTX /\ metrics'.countMsgRX = metrics.countMsgRX
         /\ metrics.auxTX = 0 => metrics'.auxTX = 0
         /\ metrics.auxRX = 0 => metrics'.auxRX = 0
<1> USE PlacesDiffer
<1>1. CASE p = ToCount
  <2>1. ~metrics.count
    BY <1>1 DEF Starts, At, ToCount
  <2>2. metrics' = metrics /\ NextPlace(p, aux) = At("clearTX", 0)
    BY <1>1, <2>1 DEF Access, NextPlace, ToCount, At
  <2>3. QED BY <1>1, <2>2 DEF Starts, Cleared, At, ToCount
<1>2. CASE p = At("clearTX", 0)
  <2>1. metrics' = [metrics EXCEPT !.auxTX = 0] /\ NextPlace(p, aux) = At("clearRX", 0)
    BY <1>2 DEF Access, NextPlace, At
  <2>2. QED BY <1>2, <2>1 DEF Starts, Cleared, At, Metrics
<1>3. CASE p = At("clearRX", 0)
  <2>1. metrics' = [metrics EXCEPT !.auxRX = 0] /\ NextPlace(p, aux) = At("raise", 0)
        /\ metrics.auxTX = 0
    BY <1>3 DEF Access, NextPlace, At, Cleared
  <2>2. QED BY <1>3, <2>1 DEF Starts, Cleared, At, Metrics
<1>4. CASE p = At("raise", 0)
  <2>1. metrics' = [metrics EXCEPT !.count = TRUE] /\ NextPlace(p, aux) = Idle
        /\ metrics.auxTX = 0 /\ metrics.auxRX = 0
    BY <1>4 DEF Access, NextPlace, At, Cleared
  <2>2. QED BY <1>4, <2>1 DEF Metrics
<1>5. QED BY <1>1, <1>2, <1>3, <1>4 DEF New, Starts

\* An access of a thread that adds to the counters of its direction.
LEMMA AddsOne ==
  ASSUME metrics \in Metrics, metrics.count, NEW p, p # Idle, NEW aux, NEW msg, Direction(aux, msg),
         Counts(p, metrics[aux], metrics[msg]), metrics' = Access(p, aux, msg)
  PROVE  /\ metrics' \in Metrics /\ metrics'.count
         /\ Counts(NextPlace(p, aux), metrics'[aux], metrics'[msg])
         /\ metrics'[msg] + Uncounted(NextPlace(p, aux)) = metrics[msg] + Uncounted(p)
         /\ aux = "auxTX" => metrics'.auxRX = metrics.auxRX /\ metrics'.countMsgRX = metrics.countMsgRX
         /\ aux = "auxRX" => metrics'.auxTX = metrics.auxTX /\ metrics'.countMsgTX = metrics.countMsgTX
<1>1. metrics[aux] \in Nat /\ metrics[msg] \in Nat /\ metrics[aux] + 1 \in Nat
  BY DEF Metrics, Direction
<1>2. CASE p \in {ToCount, At("read", 0), At("readAgain", 0)}
  <2>1. metrics' = metrics
    BY <1>2 DEF Access, ToCount, At
  <2>2. /\ p = ToCount => NextPlace(p, aux) = At("read", 0) /\ metrics[aux] = metrics[msg]
        /\ p = At("read", 0) => NextPlace(p, aux) = At("write", metrics[aux]) /\ metrics[aux] = metrics[msg]
        /\ p = At("readAgain", 0) =>
             NextPlace(p, aux) = At("set", metrics[aux]) /\ metrics[aux] = metrics[msg] + 1
    BY DEF NextPlace, Counts, ToCount, Idle, At
  <2>3. NextPlace(p, aux) # Idle
    BY <1>2, <2>2 DEF At, Idle
  <2>4. Counts(NextPlace(p, aux), metrics[aux], metrics[msg])
    BY <1>2, <2>2 DEF Counts
  <2>5. QED BY <2>1, <2>3, <2>4 DEF Uncounted
<1>3. CASE p = At("write", metrics[aux]) /\ metrics[aux] = metrics[msg]
  <2>1. metrics' = [metrics EXCEPT ![aux] = metrics[aux] + 1] /\ NextPlace(p, aux) = At("readAgain", 0)
    BY <1>3 DEF Access, NextPlace, At
  <2>2. /\ metrics' \in Metrics /\ metrics'.count
        /\ metrics'[aux] = metrics[aux] + 1 /\ metrics'[msg] = metrics[msg]
        /\ aux = "auxTX" => metrics'.auxRX = metrics.auxRX /\ metrics'.countMsgRX = metrics.countMsgRX
        /\ aux = "auxRX" => metrics'.auxTX = metrics.auxTX /\ metrics'.countMsgTX = metrics.countMsgTX
    BY <1>1, <2>1 DEF Metrics, Direction
  <2>3. NextPlace(p, aux) # Idle
    BY <2>1 DEF At, Idle
  <2>4. QED BY <1>3, <2>1, <2>2, <2>3 DEF Counts, Uncounted
<1>4. CASE p = At("set", metrics[aux]) /\ metrics[aux] = metrics[msg] + 1
  <2>1. metrics' = [metrics EXCEPT ![msg] = metrics[aux]] /\ NextPlace(p, aux) = Idle
    BY <1>4 DEF Access, NextPlace, At
  <2>2. /\ metrics' \in Metrics /\ metrics'.count
        /\ metrics'[aux] = metrics[aux] /\ metrics'[msg] = metrics[aux]
        /\ aux = "auxTX" => metrics'.auxRX = metrics.auxRX /\ metrics'.countMsgRX = metrics.countMsgRX
        /\ aux = "auxRX" => metrics'.auxTX = metrics.auxTX /\ metrics'.countMsgTX = metrics.countMsgTX
    BY <1>1, <2>1 DEF Metrics, Direction
  <2>3. QED BY <1>1, <1>4, <2>1, <2>2 DEF Counts, Uncounted
<1>5. QED BY <1>2, <1>3, <1>4 DEF Counts

\* Counting while a window opens ends when the last of the two has raised count.
LEMMA OpeningCounts ==
  ASSUME Types, Opening, CountTX(round) \/ CountRX,
         UNCHANGED <<round, phase, clock, thread, net, exchanged>>
  PROVE  Opening' \/ Running'
<1> DEFINE s == sending[round]
           q == receiving
<1>1. /\ metrics \in Metrics /\ round \in Rounds /\ sending \in [Rounds -> Places]
      /\ FirstSent' = FirstSent
      /\ metrics.countMsgTX = 0 /\ metrics.countMsgRX = 0 /\ Cleared(s, metrics) /\ Cleared(q, metrics)
  BY DEF Types, FirstSent, Opening
<1>2. /\ Idle \notin New /\ New = {ToCount} \cup Starts /\ At("raise", 0) # Idle
      /\ At("raise", 0) \in Starts /\ At("raise", 0) # ToCount
  BY DEF New, Starts, Idle, ToCount, At
<1>3. ~NothingYet
  BY DEF NothingYet, CountTX, CountRX
<1>4. CASE CountTX(round)
  <2>1. /\ s # Idle /\ metrics' = Access(s, "auxTX", "countMsgTX")
        /\ sending'[round] = NextPlace(s, "auxTX") /\ receiving' = q
    BY <1>1, <1>4 DEF CountTX
  <2>2. /\ s \in New /\ (~metrics.count \/ s \in Starts) /\ FirstSent
        /\ \/ ~metrics.count /\ exchanged[round] = 1 /\ q = Idle /\ \A x, y \in net : x = y
           \/ ~metrics.count /\ exchanged[round] = 2 /\ q \in New /\ net = {}
           \/ /\ metrics.count /\ exchanged[round] = 2 /\ q = Idle /\ net = {}
              /\ metrics.auxTX = 0 /\ metrics.auxRX = 0 /\ s \in Starts
    BY <1>2, <1>3, <2>1 DEF Opening, FirstAlone, FirstAndAnswer, LastOfBoth
  <2>3. /\ metrics' \in Metrics
        /\ s # At("raise", 0) => /\ NextPlace(s, "auxTX") \in Starts
                                 /\ Cleared(NextPlace(s, "auxTX"), metrics')
                                 /\ metrics'.count = metrics.count
        /\ s = At("raise", 0) => /\ NextPlace(s, "auxTX") = Idle
                                 /\ metrics'.count /\ metrics'.auxTX = 0 /\ metrics'.auxRX = 0
        /\ metrics'.countMsgTX = 0 /\ metrics'.countMsgRX = 0
        /\ metrics.auxTX = 0 => metrics'.auxTX = 0
        /\ metrics.auxRX = 0 => metrics'.auxRX = 0
    BY <1>1, <2>1, <2>2, StartsOne DEF Direction
  <2>4. Cleared(q, metrics')
    BY <1>1, <2>3 DEF Cleared
  <2> HIDE DEF s, q
  <2>5. CASE s # At("raise", 0)
    <3>1. Cleared(sending'[round], metrics') /\ Cleared(receiving', metrics')
      BY <2>1, <2>3, <2>4, <2>5
    <3>2. sending'[round] \in Starts /\ sending'[round] \in New
      BY <1>2, <2>1, <2>3, <2>5
    <3>3. FirstAlone' \/ FirstAndAnswer' \/ LastOfBoth'
      BY <1>1, <2>1, <2>2, <2>3, <2>5, <3>2 DEF FirstAlone, FirstAndAnswer, LastOfBoth
    <3>4. QED BY <2>3, <3>1, <3>3 DEF Opening
  <2>6. CASE s = At("raise", 0)
    <3>1. sending'[round] = Idle /\ metrics'.count /\ metrics'.auxTX = 0 /\ metrics'.auxRX = 0
      BY <2>1, <2>3, <2>6
    <3>2. CASE q \in Starts
      <4>1. LastOfBoth'
        BY <1>1, <1>2, <2>1, <2>2, <3>1, <3>2 DEF LastOfBoth
      <4>2. Cleared(sending'[round], metrics') /\ Cleared(receiving', metrics')
        BY <2>1, <2>4, <3>1 DEF Cleared, Idle, At
      <4>3. QED BY <2>3, <4>1, <4>2 DEF Opening
    <3>3. CASE q \notin Starts
      <4>1. \/ q = Idle /\ exchanged[round] \in {1, 2}
            \/ q = ToCount /\ exchanged[round] = 2
        BY <1>2, <2>2, <3>3
      <4>2. Uncounted(Idle) = 0 /\ Uncounted(ToCount) = 1
        BY DEF Uncounted, Idle, ToCount, At
      <4>3. QED BY <2>1, <2>3, <3>1, <4>1, <4>2 DEF Running, Counts
    <3>4. QED BY <3>2, <3>3
  <2>7. QED BY <2>5, <2>6
<1>5. CASE CountRX
  <2>1. /\ q # Idle /\ metrics' = Access(q, "auxRX", "countMsgRX")
        /\ receiving' = NextPlace(q, "auxRX") /\ sending'[round] = s
    BY <1>5 DEF CountRX
  <2>2. /\ q \in New /\ (~metrics.count \/ q \in Starts) /\ FirstSent
        /\ exchanged[round] = 2 /\ net = {}
        /\ \/ ~metrics.count /\ s \in New
           \/ metrics.count /\ s = Idle /\ metrics.auxTX = 0 /\ metrics.auxRX = 0 /\ q \in Starts
    BY <1>2, <1>3, <2>1 DEF Opening, FirstAlone, FirstAndAnswer, LastOfBoth
  <2>3. /\ metrics' \in Metrics
        /\ q # At("raise", 0) => /\ NextPlace(q, "auxRX") \in Starts
                                 /\ Cleared(NextPlace(q, "auxRX"), metrics')
                                 /\ metrics'.count = metrics.count
        /\ q = At("raise", 0) => /\ NextPlace(q, "auxRX") = Idle
                                 /\ metrics'.count /\ metrics'.auxTX = 0 /\ metrics'.auxRX = 0
        /\ metrics'.countMsgTX = 0 /\ metrics'.countMsgRX = 0
        /\ metrics.auxTX = 0 => metrics'.auxTX = 0
        /\ metrics.auxRX = 0 => metrics'.auxRX = 0
    BY <1>1, <2>1, <2>2, StartsOne DEF Direction
  <2>4. Cleared(s, metrics')
    BY <1>1, <2>3 DEF Cleared
  <2> HIDE DEF s, q
  <2>5. CASE q # At("raise", 0)
    <3>1. Cleared(sending'[round], metrics') /\ Cleared(receiving', metrics')
      BY <2>1, <2>3, <2>4, <2>5
    <3>2. receiving' \in Starts /\ receiving' \in New
      BY <1>2, <2>1, <2>3, <2>5
    <3>3. FirstAndAnswer' \/ LastOfBoth'
      BY <1>1, <2>1, <2>2, <2>3, <2>5, <3>2 DEF FirstAndAnswer, LastOfBoth
    <3>4. QED BY <2>3, <3>1, <3>3 DEF Opening
  <2>6. CASE q = At("raise", 0)
    <3>1. receiving' = Idle /\ metrics'.count /\ metrics'.auxTX = 0 /\ metrics'.auxRX = 0
      BY <2>1, <2>3, <2>6
    <3>2. CASE s \in Starts
      <4>1. LastOfBoth'
        BY <1>1, <1>2, <2>1, <2>2, <3>1, <3>2 DEF LastOfBoth
      <4>2. Cleared(sending'[round], metrics') /\ Cleared(receiving', metrics')
        BY <2>1, <2>4, <3>1 DEF Cleared, Idle, At
      <4>3. QED BY <2>3, <4>1, <4>2 DEF Opening
    <3>3. CASE s \notin Starts
      <4>1. s = Idle \/ s = ToCount
        BY <1>2, <2>2, <3>3
      <4>2. Uncounted(Idle) = 0 /\ Uncounted(ToCount) = 1
        BY DEF Uncounted, Idle, ToCount, At
      <4>3. QED BY <2>1, <2>2, <2>3, <3>1, <4>1, <4>2 DEF Running, Counts
    <3>4. QED BY <3>2, <3>3
  <2>7. QED BY <2>5, <2>6
<1>6. QED BY <1>4, <1>5

LEMMA RunningCounts ==
  ASSUME Types, Running, CountTX(round) \/ CountRX, UNCHANGED <<round, exchanged>>
  PROVE  Running'
<1>1. /\ metrics \in Metrics /\ round \in Rounds /\ sending \in [Rounds -> Places]
      /\ metrics.count /\ exchanged[round] \in Nat
      /\ \A p : Uncounted(p) \in {0, 1}
  BY DEF Types, Running, Uncounted
<1>2. CASE CountTX(round)
  <2>1. /\ sending[round] # Idle /\ metrics' = Access(sending[round], "auxTX", "countMsgTX")
        /\ sending'[round] = NextPlace(sending[round], "auxTX") /\ receiving' = receiving
    BY <1>1, <1>2 DEF CountTX
  <2>2. /\ metrics' \in Metrics /\ metrics'.count
        /\ Counts(sending'[round], metrics'.auxTX, metrics'.countMsgTX)
        /\ metrics'.countMsgTX + Uncounted(sending'[round])
             = metrics.countMsgTX + Uncounted(sending[round])
        /\ metrics'.auxRX = metrics.auxRX /\ metrics'.countMsgRX = metrics.countMsgRX
    BY <1>1, <2>1, AddsOne DEF Running, Direction
  <2>3. /\ metrics'.countMsgTX \in Nat /\ metrics'.countMsgRX \in Nat
        /\ metrics.countMsgTX \in Nat /\ metrics.countMsgRX \in Nat
    BY <1>1, <2>2 DEF Metrics
  <2>4. QED BY <1>1, <2>1, <2>2, <2>3 DEF Running
<1>3. CASE CountRX
  <2>1. /\ receiving # Idle /\ metrics' = Access(receiving, "auxRX", "countMsgRX")
        /\ receiving' = NextPlace(receiving, "auxRX") /\ sending' = sending
    BY <1>3 DEF CountRX
  <2>2. /\ metrics' \in Metrics /\ metrics'.count
        /\ Counts(receiving', metrics'.auxRX, metrics'.countMsgRX)
        /\ metrics'.countMsgRX + Uncounted(receiving') = metrics.countMsgRX + Uncounted(receiving)
        /\ metrics'.auxTX = metrics.auxTX /\ metrics'.countMsgTX = metrics.countMsgTX
    BY <1>1, <2>1, AddsOne DEF Running, Direction
  <2>3. /\ metrics'.countMsgTX \in Nat /\ metrics'.countMsgRX \in Nat
        /\ metrics.countMsgTX \in Nat /\ metrics.countMsgRX \in Nat
    BY <1>1, <2>2 DEF Metrics
  <2>4. QED BY <1>1, <2>1, <2>2, <2>3 DEF Running
<1>4. QED BY <1>2, <1>3

\* A step of a thread or of the Worker leaves the numbers of the rounds before,
\* and nothing is exchanged of those to come.
LEMMA NumbersKeep ==
  ASSUME TypeInv, CountInv, lost = 0, UNCHANGED <<round, phase, compared, watching>>,
         metrics'.qntMsg = metrics.qntMsg,
         UNCHANGED exchanged \/ (Exchange /\ (round # Single => watching # Stopped))
  PROVE  ComparesWhatWasExchanged' /\ \A r \in Rounds : Fresh(r)' => exchanged'[r] = 0
<1>1. /\ round \in Rounds /\ exchanged \in [Rounds -> Nat]
      /\ ComparesWhatWasExchanged /\ \A r \in Rounds : Fresh(r) => exchanged[r] = 0
  BY DEF TypeInv, Types, CountInv
<1>2. CASE UNCHANGED exchanged
  BY <1>1, <1>2 DEF ComparesWhatWasExchanged, Fresh
<1>3. CASE Exchange /\ (round # Single => watching # Stopped)
  <2>1. \A r \in Rounds : r # round \/ phase \notin {"window", "pause"} => exchanged'[r] = exchanged[r]
    BY <1>1, <1>3 DEF Exchange
  <2>2. compared => Len(metrics.qntMsg) = round
    BY <1>3 DEF TypeInv, NumbersSoFar
  <2>3. ComparesWhatWasExchanged'
    <3> SUFFICES ASSUME compared, NEW b \in Behaviours, b < Len(metrics.qntMsg)
                 PROVE  exchanged'[b] - metrics.qntMsg[b + 1] \in {1, 2}
      BY DEF ComparesWhatWasExchanged
    <3>1. b \in Rounds /\ b # round
      BY <1>1, <2>2, RoundsOrdered
    <3>2. exchanged'[b] = exchanged[b]
      BY <2>1, <3>1
    <3>3. QED BY <1>1, <3>2 DEF ComparesWhatWasExchanged
  <2>4. ASSUME NEW r \in Rounds, Fresh(r)
        PROVE  exchanged'[r] = 0
    BY <1>1, <2>1, <2>4, RoundsOrdered DEF Fresh
  <2>5. QED BY <2>3, <2>4 DEF Fresh
<1>4. QED BY <1>2, <1>3

LEMMA CountsDone ==
  ASSUME TypeInv, CountInv, lost = 0, round # Single, receiving # Idle \/ sending[round] # Idle
  PROVE  /\ RoundInv /\ phase \in {"window", "pause"} /\ watching # Stopped
         /\ phase = "pause" => clock # 0 /\ watching = Idle /\ Running
         /\ phase = "window" => watching = Idle
<1>1. RoundInv /\ phase \in {"start", "window", "pause", "end"} /\ ~Calm
  BY DEF CountInv, TypeInv, Types, Calm
<1>2. phase \in {"window", "pause"}
  BY <1>1 DEF RoundInv, TypeInv, NumbersSoFar
<1>3. phase = "pause" => clock # 0 /\ watching = Idle /\ Running
  BY <1>1 DEF RoundInv, ClosesWindow
<1>4. phase = "window" => watching = Idle
  BY <1>1 DEF RoundInv
<1>5. Idle # Stopped
  BY DEF Idle, Stopped, At
<1>6. QED BY <1>1, <1>2, <1>3, <1>4, <1>5

\* What the timing of a pause speaks of.
LEMMA TimingKeeps ==
  ASSUME AnswersInTime, UNCHANGED <<round, clock, net>>, thread'[round] = thread[round]
  PROVE  AnswersInTime'
BY DEF AnswersInTime

LEMMA CountsKeep ==
  ASSUME TypeInv, CountInv, Count
  PROVE  CountInv'
<1> SUFFICES ASSUME lost' = 0
             PROVE  /\ ComparesWhatWasExchanged'
                    /\ \A r \in Rounds : Fresh(r)' => exchanged'[r] = 0
                    /\ round' # Single => RoundInv'
  BY DEF CountInv
<1>1. /\ UNCHANGED <<round, phase, clock, left, compared, chosen, thread, net, exchanged, lost>>
      /\ (\E r \in Rounds : CountTX(r)) \/ CountRX
  BY CountChanges DEF mediadorVars, threadVars
<1>2. /\ metrics' \in Metrics /\ metrics'.qntMsg = metrics.qntMsg /\ watching' = watching
      /\ Types /\ round \in Rounds /\ sending \in [Rounds -> Places]
  BY <1>1, CountTyped DEF TypeInv, Types
<1>3. /\ ComparesWhatWasExchanged'
      /\ \A r \in Rounds : Fresh(r)' => exchanged'[r] = 0
  BY <1>1, <1>2, NumbersKeep
<1>4. ASSUME round # Single
      PROVE  RoundInv'
  <2>1. RoundInv
    BY <1>1, <1>4 DEF CountInv
  <2>2. CountTX(round) \/ CountRX
    BY <1>1, <2>1 DEF RoundInv, CountTX
  <2>3. receiving # Idle \/ sending[round] # Idle
    BY <2>2 DEF CountTX, CountRX
  <2>4. /\ phase \in {"window", "pause"}
        /\ phase = "pause" => clock # 0 /\ watching = Idle /\ Running
        /\ phase = "window" => watching = Idle
    BY <1>1, <1>4, <2>3, CountsDone
  <2>5. \A r \in Rounds : r # round => sending'[r] = Idle
    BY <1>2, <2>1, <2>2 DEF RoundInv, CountTX, CountRX
  <2>6. CASE phase = "window"
    <3>1. Opening' \/ Running'
      BY <1>1, <1>2, <2>1, <2>2, <2>6, OpeningCounts, RunningCounts DEF RoundInv
    <3>2. QED BY <1>1, <1>2, <2>4, <2>5, <2>6, <3>1 DEF RoundInv
  <2>7. CASE phase = "pause"
    <3>1. Running'
      BY <1>1, <1>2, <2>2, <2>4, <2>7, RunningCounts
    <3>2. AnswersInTime'
      BY <1>1, <2>1, <2>7, TimingKeeps DEF RoundInv
    <3>3. QED BY <1>1, <1>2, <2>4, <2>5, <2>7, <3>1, <3>2 DEF RoundInv, ClosesWindow
  <2>8. QED BY <2>4, <2>6, <2>7
<1>5. QED BY <1>1, <1>3, <1>4

\* A step that leaves all of this alone.
LEMMA SameCounts ==
  ASSUME CountInv, thread'[round] = thread[round],
         UNCHANGED <<round, phase, clock, compared, net, countVars, exchanged, lost>>
  PROVE  CountInv'
<1>1. UNCHANGED <<metrics, sending, receiving, watching>>
  BY DEF countVars
<1>2. /\ ComparesWhatWasExchanged' = ComparesWhatWasExchanged
      /\ \A r \in Rounds : Fresh(r)' = Fresh(r)
  BY <1>1 DEF ComparesWhatWasExchanged, Fresh
<1>3. Opening' = Opening /\ Running' = Running /\ Settled' = Settled /\ Calm' = Calm
  BY <1>1 DEF Opening, NothingYet, FirstAlone, FirstAndAnswer, LastOfBoth, FirstToSend, FirstSent,
              Running, Settled, Calm
<1>4. AnswersInTime => AnswersInTime'
  BY TimingKeeps
<1>5. RoundInv => RoundInv'
  BY <1>1, <1>3, <1>4 DEF RoundInv, OpensWindow, ClosesWindow
<1>6. QED BY <1>2, <1>5 DEF CountInv

LEMMA OthersKeepCounts ==
  ASSUME TypeInv, PlaceInv, CountInv, NEW r \in Rounds, r # round, Runs(r)
  PROVE  CountInv'
BY OthersMove, SameCounts DEF mediadorVars, controllerVars

\* Steps in which the thread of the round sends nothing.
LEMMA MovesKeepCounts ==
  ASSUME TypeInv, PlaceInv, TimeToAnswer, CountInv, Moves(round)
  PROVE  CountInv'
<1> SUFFICES ASSUME lost' = 0
             PROVE  /\ ComparesWhatWasExchanged'
                    /\ \A r \in Rounds : Fresh(r)' => exchanged'[r] = 0
                    /\ round' # Single => RoundInv'
  BY DEF CountInv
<1>1. /\ Types /\ round \in Rounds /\ thread[round] \in Threads /\ clock \in Nat /\ N \in Nat /\ N >= 1
      /\ MaxDelay \in Nat /\ Pause \in Nat
  BY TargetsCounted, InteractionAssumption DEF TypeInv, Types
<1>2. /\ UNCHANGED <<round, phase, clock, compared, net, metrics, sending, receiving, watching,
                     exchanged, lost>>
      /\ thread'[round] \in Threads
  BY <1>1, MovesShape DEF mediadorVars, controllerVars, countVars
<1>3. /\ ComparesWhatWasExchanged'
      /\ \A r \in Rounds : Fresh(r)' => exchanged'[r] = 0
  BY <1>2, NumbersKeep
<1>4. ASSUME round # Single
      PROVE  RoundInv'
  <2>1. RoundInv /\ phase \in {"start", "window", "pause", "end"}
    BY <1>1, <1>2, <1>4 DEF CountInv, Types
  <2>2. Running' = Running /\ Settled' = Settled /\ Calm' = Calm
    BY <1>2 DEF Running, Settled, Calm
  <2>3. phase # "start"
    <3>1. phase = "start" => Over(round)
      BY DEF PlaceInv, Over, NoThread
    <3>2. QED BY <1>1, <3>1, OverRests DEF Runs
  <2>4. CASE phase = "window"
    <3>1. CASE Opening
      <4>1. ~FirstSent
        BY <1>1, StepFields DEF FirstSent, Moves
      <4>2. NothingYet
        BY <3>1, <4>1 DEF Opening, FirstAlone, FirstAndAnswer, LastOfBoth
      <4>3. FirstToSend'
        <5>1. Begin(round)
          BY <1>1, <4>2, StepFields DEF NothingYet, FirstToSend, Moves
        <5>2. QED BY <1>1, <1>2, <4>2, <5>1, StepFields DEF NothingYet, FirstToSend
      <4>4. NothingYet'
        BY <1>2, <4>2, <4>3 DEF NothingYet
      <4>5. QED BY <1>2, <2>1, <2>4, <3>1, <4>4 DEF RoundInv, Opening
    <3>2. CASE Running
      BY <1>2, <2>1, <2>2, <2>4, <3>2 DEF RoundInv
    <3>3. QED BY <2>1, <2>4, <3>1, <3>2 DEF RoundInv
  <2>5. CASE phase = "pause"
    <3>1. AnswersInTime'
      <4> SUFFICES ASSUME thread'[round].pc \in {"reify", "delete"}
                   PROVE  clock + thread'[round].i > N + 2 * MaxDelay + thread'[round].sleep
        BY <1>2, <2>1, <2>5 DEF RoundInv, AnswersInTime
      <4>1. CASE Interrupted(round) \/ PollAgain(round)
        <5>1. thread[round].interrupted \/ flag[Behaviour(round)]
          BY <1>1, <4>1, StepFields
        <5>2. ToInterrupt(round)
          BY <2>5, <5>1 DEF PlaceInv, Ends
        <5>3. clock = Pause /\ thread'[round].sleep = 0 /\ thread'[round].i >= 1
          BY <1>1, <1>2, <4>1, <5>2, StepFields DEF ToInterrupt, Threads, Positions
        <5>4. thread'[round].i \in Nat /\ N + 2 * MaxDelay <= Pause
          BY <1>1, <1>2 DEF TimeToAnswer, Threads, Positions
        <5>5. QED BY <1>1, <5>3, <5>4
      <4>2. CASE DeleteEnds(round)
        <5>1. thread[round].pc = "delete" /\ thread'[round].pc = thread[round].back[1]
          BY <1>1, <4>2, StepFields
        <5>2. thread[round].back[1] = "exec"
          BY <5>1, RoundPlaces DEF Ends
        <5>3. QED BY <5>1, <5>2
      <4>3. ~Begin(round)
        BY <1>1, <2>5, StepFields, RoundPlaces
      <4>4. ~ReifyEnds(round) /\ ~ExecEnds(round)
        BY <1>1, StepFields
      <4>5. QED BY <4>1, <4>2, <4>3, <4>4 DEF Moves
    <3>2. QED BY <1>2, <2>1, <2>2, <2>5, <3>1 DEF RoundInv, ClosesWindow
  <2>6. CASE phase = "end"
    BY <1>4, <2>6 DEF TypeInv, NumbersSoFar
  <2>7. QED BY <2>1, <2>3, <2>4, <2>5, <2>6
<1>5. QED BY <1>2, <1>3, <1>4

\* A message that the thread of the round sends.
LEMMA SendRuns ==
  ASSUME Types, Running, sending[round] = Idle, sending' = [sending EXCEPT ![round] = ToCount],
         exchanged' = [exchanged EXCEPT ![round] = @ + 1], UNCHANGED <<round, metrics, receiving>>
  PROVE  Running'
<1>1. /\ round \in Rounds /\ sending'[round] = ToCount /\ exchanged'[round] = exchanged[round] + 1
      /\ exchanged[round] \in Nat /\ metrics.countMsgTX \in Nat /\ metrics.countMsgRX \in Nat
  BY DEF Types, Metrics
<1>2. Counts(ToCount, metrics.auxTX, metrics.countMsgTX)
  <2>1. metrics.auxTX = metrics.countMsgTX
    BY PlacesDiffer DEF Running, Counts
  <2>2. QED BY <2>1 DEF Counts
<1>3. Uncounted(Idle) = 0 /\ Uncounted(ToCount) = 1 /\ Uncounted(receiving) \in {0, 1}
  BY PlacesDiffer DEF Uncounted
<1>4. QED BY <1>1, <1>2, <1>3 DEF Running

LEMMA SendsKeepCounts ==
  ASSUME TypeInv, PlaceInv, CountInv, Sends(round), sending[round] = Idle
  PROVE  CountInv'
<1> SUFFICES ASSUME lost' = 0
             PROVE  /\ ComparesWhatWasExchanged'
                    /\ \A r \in Rounds : Fresh(r)' => exchanged'[r] = 0
                    /\ round' # Single => RoundInv'
  BY DEF CountInv
<1> DEFINE t == thread[round]
<1>1. /\ Types /\ round \in Rounds /\ t \in Threads /\ clock \in Nat /\ N \in Nat
      /\ MaxDelay \in Nat /\ t.i \in 1 .. N /\ t.sleep = 0 /\ t.pc \in {"reify", "delete"}
  BY TargetsCounted, InteractionAssumption, SendsShape DEF TypeInv, Types
<1>2. /\ UNCHANGED <<round, phase, clock, compared, metrics, receiving, watching, lost>>
      /\ sending' = [sending EXCEPT ![round] = ToCount] /\ Exchange
  BY <1>1, SendsShape DEF mediadorVars
<1>3. /\ thread'[round].pc = t.pc /\ thread'[round].i = t.i + 1 /\ thread'[round].sleep = 1
      /\ thread'[round].interrupted = t.interrupted
  BY <1>1, SendsFields
<1>4. \/ net' = net
      \/ \E x : x.age = 0 /\ ~x.up /\ net' = net \cup {x}
  BY <1>1, SendsNet
<1>5. phase \in {"window", "pause"} \/ round = Single
  <2>1. phase = "start" => Over(round)
    BY DEF PlaceInv, Over, NoThread
  <2>2. phase # "start"
    BY <1>1, <2>1, OverRests DEF Runs
  <2>3. QED BY <2>2 DEF TypeInv, Types, NumbersSoFar
<1>6. phase = "pause" /\ round # Single => clock > 2 * MaxDelay
  BY <1>1, <1>2 DEF CountInv, RoundInv, AnswersInTime
<1>7. round # Single => watching = Idle
  BY <1>1, <1>2, <1>5, <1>6 DEF CountInv, RoundInv, ClosesWindow
<1>8. /\ ComparesWhatWasExchanged'
      /\ \A r \in Rounds : Fresh(r)' => exchanged'[r] = 0
  BY <1>2, <1>7, NumbersKeep, PlacesDiffer
<1>9. ASSUME round # Single
      PROVE  RoundInv'
  <2>1. RoundInv
    BY <1>2, <1>9 DEF CountInv
  <2>2. /\ \A r \in Rounds : r # round => sending'[r] = Idle
        /\ sending'[round] = ToCount
    BY <1>1, <1>2, <2>1 DEF RoundInv, Types
  <2>3. exchanged' = [exchanged EXCEPT ![round] = @ + 1] /\ exchanged \in [Rounds -> Nat]
    BY <1>1, <1>2, <1>5, <1>9 DEF Exchange, Types
  <2>4. Running => Running'
    BY <1>1, <1>2, <2>3, SendRuns
  <2>5. CASE phase = "window"
    <3>1. Opening => Opening'
      <4> SUFFICES ASSUME Opening PROVE Opening'
        OBVIOUS
      <4>1. NothingYet
        BY <1>1 DEF Opening, FirstAlone, FirstAndAnswer, LastOfBoth, FirstSent
      <4>2. FirstSent'
        BY <1>1, <1>2, <1>3, <4>1 DEF NothingYet, FirstToSend, FirstSent
      <4>3. exchanged'[round] = 1 /\ \A x, y \in net' : x = y
        BY <1>1, <1>4, <2>3, <4>1 DEF NothingYet
      <4>4. FirstAlone'
        BY <1>2, <2>2, <4>1, <4>2, <4>3 DEF NothingYet, FirstAlone, New
      <4>5. QED BY <1>2, <2>2, <4>4, PlacesDiffer DEF Opening, Cleared
    <3>2. QED BY <1>2, <2>1, <2>2, <2>4, <2>5, <3>1 DEF RoundInv
  <2>6. CASE phase = "pause"
    <3>1. clock > 2 * MaxDelay /\ clock # 0
      BY <1>1, <1>6, <1>9, <2>6
    <3>2. Running'
      BY <2>1, <2>4, <2>6, <3>1 DEF RoundInv, ClosesWindow
    <3>3. AnswersInTime'
      <4>1. /\ clock + t.i > N + 2 * MaxDelay + t.sleep
            /\ \A x \in net : clock + x.age > IF x.up THEN MaxDelay ELSE 2 * MaxDelay
        BY <1>1, <2>1, <2>6 DEF RoundInv, AnswersInTime
      <4>2. \A x \in net' : clock + x.age > IF x.up THEN MaxDelay ELSE 2 * MaxDelay
        BY <1>1, <1>4, <3>1, <4>1
      <4>3. QED BY <1>1, <1>2, <1>3, <4>1, <4>2 DEF AnswersInTime
    <3>4. QED BY <1>2, <1>7, <1>9, <2>2, <2>6, <3>1, <3>2, <3>3 DEF RoundInv, ClosesWindow
  <2>7. QED BY <1>5, <1>9, <2>5, <2>6
<1>10. QED BY <1>2, <1>8, <1>9

\* A message that the Worker receives.
LEMMA ReceiptRuns ==
  ASSUME Types, Running, receiving = Idle, receiving' = ToCount,
         exchanged' = [exchanged EXCEPT ![round] = @ + 1], UNCHANGED <<round, metrics, sending>>
  PROVE  Running'
<1>1. /\ round \in Rounds /\ exchanged'[round] = exchanged[round] + 1
      /\ exchanged[round] \in Nat /\ metrics.countMsgTX \in Nat /\ metrics.countMsgRX \in Nat
  BY DEF Types, Metrics
<1>2. Counts(ToCount, metrics.auxRX, metrics.countMsgRX)
  <2>1. metrics.auxRX = metrics.countMsgRX
    BY PlacesDiffer DEF Running, Counts
  <2>2. QED BY <2>1 DEF Counts
<1>3. Uncounted(Idle) = 0 /\ Uncounted(ToCount) = 1 /\ Uncounted(sending[round]) \in {0, 1}
  BY PlacesDiffer DEF Uncounted
<1>4. QED BY <1>1, <1>2, <1>3 DEF Running

LEMMA MessagesKeepCounts ==
  ASSUME TypeInv, CountInv, NEW x \in net, ReceiveController(x) \/ ReceivePacket(x) \/ Lose(x)
  PROVE  CountInv'
<1> SUFFICES ASSUME lost' = 0
             PROVE  /\ ComparesWhatWasExchanged'
                    /\ \A r \in Rounds : Fresh(r)' => exchanged'[r] = 0
                    /\ round' # Single => RoundInv'
  BY DEF CountInv
<1>1. /\ Types /\ round \in Rounds /\ clock \in Nat /\ MaxDelay \in Nat /\ lost \in Nat
      /\ net \subseteq Messages /\ x.age \in 0 .. MaxDelay
      /\ phase \in {"start", "window", "pause", "end"}
  BY InteractionAssumption DEF TypeInv, Types, Messages
<1>2. ~Lose(x)
  BY <1>1 DEF Lose
<1>3. /\ UNCHANGED <<round, phase, clock, compared, metrics, sending, watching, lost, thread>>
      /\ \/ UNCHANGED <<receiving, exchanged>>
         \/ /\ x.up /\ net' = net \ {x} /\ phase # "end"
            /\ receiving = Idle /\ receiving' = ToCount /\ Exchange
  BY <1>2 DEF ReceiveController, ReceivePacket, mediadorVars, threadVars, controllerVars, countVars
<1>4. \/ net' = net \ {x}
      \/ ~x.up /\ \E y : y.up /\ y.age = 0 /\ net' = (net \ {x}) \cup {y}
  <2>1. CASE ReceivePacket(x)
    BY <2>1 DEF ReceivePacket
  <2>2. CASE ReceiveController(x)
    <3>1. ~x.up /\ \E says : net' = (net \ {x}) \cup {Answer(x, says)}
      BY <2>2 DEF ReceiveController, CheckRequest
    <3>2. \A says : Answer(x, says).up /\ Answer(x, says).age = 0
      BY <1>1 DEF Answer, Messages
    <3>3. QED BY <3>1, <3>2
  <2>3. QED BY <1>2, <2>1, <2>2
<1>5. ASSUME round # Single
      PROVE  /\ RoundInv /\ phase \in {"window", "pause"} /\ watching = Idle
             /\ phase = "pause" => clock # 0 /\ Running
  <2>1. RoundInv /\ phase # "end"
    BY <1>1, <1>3, <1>5 DEF CountInv, TypeInv, NumbersSoFar
  <2>2. ~Calm
    BY DEF Calm
  <2>3. QED BY <1>1, <2>1, <2>2 DEF RoundInv, ClosesWindow
<1>6. /\ ComparesWhatWasExchanged'
      /\ \A r \in Rounds : Fresh(r)' => exchanged'[r] = 0
  BY <1>3, <1>5, NumbersKeep, PlacesDiffer
<1>7. ASSUME round # Single
      PROVE  RoundInv'
  <2>1. \A r \in Rounds : r # round => sending'[r] = Idle
    BY <1>3, <1>5, <1>7 DEF RoundInv
  <2>2. Running => Running'
    <3> SUFFICES ASSUME Running PROVE Running'
      OBVIOUS
    <3>1. CASE UNCHANGED <<receiving, exchanged>>
      BY <1>3, <3>1 DEF Running
    <3>2. CASE receiving = Idle /\ receiving' = ToCount /\ Exchange
      <4>1. exchanged' = [exchanged EXCEPT ![round] = @ + 1]
        BY <1>5, <1>7, <3>2 DEF Exchange
      <4>2. QED BY <1>1, <1>3, <3>2, <4>1, ReceiptRuns
    <3>3. QED BY <1>3, <3>1, <3>2
  <2>3. CASE phase = "window"
    <3>1. Opening => Opening'
      <4> SUFFICES ASSUME Opening PROVE Opening'
        OBVIOUS
      <4>1. FirstAlone /\ FirstSent'
        BY <1>3 DEF Opening, NothingYet, FirstAlone, FirstAndAnswer, LastOfBoth, FirstSent
      <4>2. net = {x}
        BY <4>1 DEF FirstAlone
      <4>3. CASE UNCHANGED <<receiving, exchanged>>
        <5>1. \A y, z \in net' : y = z
          BY <1>4, <4>2
        <5>2. FirstAlone'
          BY <1>3, <4>1, <4>3, <5>1 DEF FirstAlone
        <5>3. QED BY <1>3, <4>3, <5>2 DEF Opening
      <4>4. CASE /\ net' = net \ {x} /\ receiving' = ToCount /\ Exchange
        <5>1. net' = {} /\ exchanged'[round] = 2
          BY <1>1, <1>5, <1>7, <4>1, <4>2, <4>4 DEF Exchange, FirstAlone, Types
        <5>2. FirstAndAnswer'
          BY <1>3, <4>1, <4>4, <5>1 DEF FirstAlone, FirstAndAnswer, New
        <5>3. QED BY <1>3, <4>4, <5>2, PlacesDiffer DEF Opening, Cleared
      <4>5. QED BY <1>3, <4>3, <4>4
    <3>2. QED BY <1>3, <1>5, <1>7, <2>1, <2>2, <2>3, <3>1 DEF RoundInv
  <2>4. CASE phase = "pause"
    <3>1. AnswersInTime'
      <4>1. \A y \in net : clock + y.age > IF y.up THEN MaxDelay ELSE 2 * MaxDelay
        BY <1>5, <1>7, <2>4 DEF RoundInv, AnswersInTime
      <4>2. ~x.up => clock + 0 > MaxDelay
        BY <1>1, <4>1
      <4>3. \A y \in net' : clock + y.age > IF y.up THEN MaxDelay ELSE 2 * MaxDelay
        BY <1>4, <4>1, <4>2
      <4>4. QED BY <1>3, <1>5, <1>7, <2>4, <4>3 DEF RoundInv, AnswersInTime
    <3>2. Running'
      BY <1>5, <1>7, <2>2, <2>4
    <3>3. QED BY <1>3, <1>5, <1>7, <2>1, <2>4, <3>1, <3>2 DEF RoundInv, ClosesWindow
  <2>5. QED BY <1>5, <1>7, <2>3, <2>4
<1>8. QED BY <1>3, <1>6, <1>7

\* The readings of events come in time: their deletions are due, and early enough.
LEMMA TickInTime ==
  ASSUME TypeInv, PlaceInv, EventInv, AnswersInTime, lost = 0, phase = "pause", Tick
  PROVE  AnswersInTime'
<1> DEFINE t == thread[round]
<1>1. /\ round \in Rounds /\ clock \in Nat /\ N \in Nat /\ MaxDelay \in Nat
      /\ t \in Threads /\ t.i \in Nat /\ t.sleep \in Nat /\ net \subseteq Messages
  BY TargetsCounted, InteractionAssumption DEF TypeInv, Types, Threads, Positions
<1>2. /\ UNCHANGED round /\ clock > 0 /\ clock' = clock - 1 /\ AtRest(round)
      /\ net' = {[x EXCEPT !.age = @ + 1] : x \in net} \cup SendDataEvents
      /\ \A x \in net : x.age \in Nat /\ x.age < MaxDelay
      /\ thread' = [r \in Rounds |-> [thread[r] EXCEPT !.sleep = IF @ > 0 THEN @ - 1 ELSE 0]]
  BY <1>1 DEF Tick, Messages
<1>3. /\ thread'[round].pc = t.pc /\ thread'[round].i = t.i
      /\ t.sleep > 0 => thread'[round].sleep = t.sleep - 1
  <2>1. thread'[round] = [t EXCEPT !.sleep = IF @ > 0 THEN @ - 1 ELSE 0]
    BY <1>1, <1>2
  <2>2. QED BY <1>1, <2>1 DEF Threads
<1>4. t.pc \in {"reify", "delete"} => t.sleep > 0
  BY <1>1, <1>2 DEF AtRest, Awake
<1>5. t.pc \in {"reify", "delete"} /\ t.i <= N => clock + t.i > N + 2 * MaxDelay + t.sleep
  BY DEF AnswersInTime
<1>6. ASSUME NEW m \in Motes, event[m] # NoRound
      PROVE  clock > MaxDelay + 1
  <2>1. ~t.interrupted
    <3>1. t.interrupted => t.pc \notin {"none", "done"}
      BY RoundPlaces DEF ToInterrupt
    <3>2. QED BY <1>2, <3>1 DEF AtRest
  <2>2. CASE t.pc = "delete" /\ \E j \in t.i .. N : Targets[j] = m
    BY <1>1, <1>4, <1>5, <2>2
  <2>3. CASE Pending(m, "deleteEvent")
    <3>1. PICK x \in net : ~x.up
      BY <2>3 DEF Pending
    <3>2. clock + x.age > 2 * MaxDelay
      BY <3>1 DEF AnswersInTime
    <3>3. QED BY <1>1, <1>2, <3>1, <3>2
  <2>4. QED BY <1>6, <2>1, <2>2, <2>3 DEF EventInv, ToBeDeleted
<1>7. ASSUME NEW y \in net'
      PROVE  clock' + y.age > IF y.up THEN MaxDelay ELSE 2 * MaxDelay
  <2>1. CASE y \in SendDataEvents
    <3>1. PICK m \in EventDue :
            y = [mote |-> m, up |-> TRUE, round |-> event[m], asks |-> "periodic",
                 says |-> "reading", age |-> 0]
      BY <2>1 DEF SendDataEvents
    <3>2. clock > MaxDelay + 1 /\ y.up /\ y.age = 0
      BY <1>6, <3>1 DEF EventDue
    <3>3. QED BY <1>1, <1>2, <3>2
  <2>2. CASE y \notin SendDataEvents
    <3>1. PICK x \in net : y = [x EXCEPT !.age = @ + 1]
      BY <1>2, <2>2
    <3>2. y.age = x.age + 1 /\ y.up = x.up
      BY <1>1, <3>1 DEF Messages
    <3>3. clock + x.age > IF x.up THEN MaxDelay ELSE 2 * MaxDelay
      BY <3>1 DEF AnswersInTime
    <3>4. QED BY <1>1, <1>2, <3>1, <3>2, <3>3
  <2>3. QED BY <2>1, <2>2
<1>8. thread'[round].pc \in {"reify", "delete"} /\ thread'[round].i <= N =>
         clock' + thread'[round].i > N + 2 * MaxDelay + thread'[round].sleep
  BY <1>1, <1>2, <1>3, <1>4, <1>5
<1>9. QED BY <1>2, <1>7, <1>8 DEF AnswersInTime

LEMMA TickKeepsCounts ==
  ASSUME TypeInv, TypeInv', PlaceInv, EventInv, CountInv, Tick
  PROVE  CountInv'
<1> SUFFICES ASSUME lost' = 0
             PROVE  /\ ComparesWhatWasExchanged'
                    /\ \A r \in Rounds : Fresh(r)' => exchanged'[r] = 0
                    /\ round' # Single => RoundInv'
  BY DEF CountInv
<1>1. /\ UNCHANGED <<round, phase, compared, metrics, sending, receiving, watching, exchanged, lost>>
      /\ phase # "end" => clock > 0 /\ clock' = clock - 1
      /\ net' = {[x EXCEPT !.age = @ + 1] : x \in net} \cup SendDataEvents
      /\ AtRest(round) /\ NobodyCounts
      /\ round \in Rounds /\ clock \in Nat /\ MaxDelay \in Nat
      /\ phase \in {"start", "window", "pause", "end"}
  BY InteractionAssumption DEF Tick, TypeInv, Types, controllerVars, countVars
<1>2. /\ ComparesWhatWasExchanged'
      /\ \A r \in Rounds : Fresh(r)' => exchanged'[r] = 0
  BY <1>1, NumbersKeep
<1>3. ASSUME round # Single
      PROVE  RoundInv'
  <2>1. RoundInv /\ OnlyThisRound /\ phase # "end"
    BY <1>1, <1>3 DEF CountInv, EventInv, TypeInv, NumbersSoFar
  <2>2. Running' = Running
    BY <1>1 DEF Running
  <2>3. CASE phase = "start"
    <3>1. \A m \in Motes : event[m] = NoRound
      BY <2>1, <2>3 DEF OnlyThisRound
    <3>2. net' = {}
      BY <1>1, <2>1, <2>3, <3>1 DEF RoundInv, Calm, SendDataEvents, EventDue
    <3>3. QED BY <1>1, <2>1, <2>3, <3>2 DEF RoundInv, Calm, OpensWindow
  <2>4. CASE phase = "window"
    <3>1. ~FirstToSend
      BY <1>1 DEF AtRest, Awake, FirstToSend
    <3>2. sending[round] = Idle /\ receiving = Idle
      BY <1>1 DEF NobodyCounts
    <3>3. Idle \notin New /\ Idle \notin Starts
      BY PlacesDiffer DEF New, Starts
    <3>4. ~Opening
      BY <3>1, <3>2, <3>3 DEF Opening, NothingYet, FirstAlone, FirstAndAnswer, LastOfBoth
    <3>5. QED BY <1>1, <2>1, <2>2, <2>4, <3>4 DEF RoundInv
  <2>5. CASE phase = "pause"
    <3>1. watching = Idle /\ Running
      BY <1>1, <2>1, <2>5 DEF RoundInv, ClosesWindow
    <3>2. AnswersInTime'
      BY <1>1, <2>1, <2>5, TickInTime DEF RoundInv
    <3>3. clock' = 0 => net' = {}
      <4> SUFFICES ASSUME clock' = 0, NEW y \in net' PROVE FALSE
        OBVIOUS
      <4>1. y.age \in 0 .. MaxDelay
        BY DEF TypeInv, Types, Messages
      <4>2. 0 + y.age > IF y.up THEN MaxDelay ELSE 2 * MaxDelay
        BY <3>2 DEF AnswersInTime
      <4>3. QED BY <1>1, <4>1, <4>2
    <3>4. clock' = 0 => Calm'
      BY <1>1, <3>3 DEF Calm, NobodyCounts
    <3>5. QED BY <1>1, <2>1, <2>2, <2>5, <3>1, <3>2, <3>4 DEF RoundInv, ClosesWindow
  <2>6. QED BY <1>1, <2>1, <2>3, <2>4, <2>5
<1>4. QED BY <1>1, <1>2, <1>3

\* Mediador counts nothing itself: it opens windows, closes them, and keeps the
\* sum of the two counters of each.
LEMMA WatchKeepsRound ==
  ASSUME TypeInv, RoundInv, round # Single, MediadorCounts
  PROVE  RoundInv'
<1>1. /\ UNCHANGED <<round, phase, clock, thread, net, sending, receiving, exchanged>>
      /\ StartMsg \/ StopMsg
      /\ metrics \in Metrics /\ round \in Rounds /\ phase \in {"start", "window", "pause"}
  BY DEF MediadorCounts, mediadorVars, threadVars, Watch, TypeInv, Types, NumbersSoFar
<1>2. Calm' = Calm /\ (AnswersInTime => AnswersInTime')
  BY <1>1, TimingKeeps DEF Calm
<1>3. CASE phase = "start"
  <2>1. OpensWindow
    BY <1>3 DEF RoundInv
  <2>2. StartMsg
    BY <1>1, <2>1 DEF OpensWindow, StopMsg
  <2>3. OpensWindow'
    <3>1. CASE watching.step = "zeroTX"
      <4>1. metrics' = [metrics EXCEPT !.countMsgTX = 0] /\ watching' = At("zeroRX", 0)
        BY <2>2, <3>1 DEF StartMsg
      <4>2. QED BY <1>1, <4>1, PlacesDiffer DEF OpensWindow, Metrics
    <3>2. CASE watching.step = "zeroRX"
      <4>1. metrics' = [metrics EXCEPT !.countMsgRX = 0] /\ watching' = At("open", 0)
        BY <2>2, <3>2 DEF StartMsg
      <4>2. QED BY <1>1, <2>1, <3>2, <4>1, PlacesDiffer DEF OpensWindow, Metrics
    <3>3. CASE watching.step = "open"
      <4>1. metrics' = [metrics EXCEPT !.count = FALSE] /\ watching' = Idle
        BY <2>2, <3>3 DEF StartMsg
      <4>2. QED BY <1>1, <2>1, <3>3, <4>1, PlacesDiffer DEF OpensWindow, Metrics
    <3>4. QED BY <2>2, <3>1, <3>2, <3>3 DEF StartMsg
  <2>4. QED BY <1>1, <1>2, <1>3, <2>3 DEF RoundInv
<1>4. phase # "window"
  <2>1. watching # Idle
    BY <1>1, PlacesDiffer DEF StartMsg, StopMsg
  <2>2. QED BY <2>1 DEF RoundInv
<1>5. CASE phase = "pause"
  <2>1. ClosesWindow /\ AnswersInTime /\ watching # Idle
    BY <1>1, <1>5, PlacesDiffer DEF RoundInv, StartMsg, StopMsg
  <2>2. clock = 0 /\ Calm
    BY <1>5, <2>1 DEF RoundInv, ClosesWindow
  <2>3. ClosesWindow'
    <3>1. CASE watching = ToStopMsg /\ Running
      <4>1. metrics' = [metrics EXCEPT !.count = FALSE] /\ watching' = At("readTX", 0)
        BY <1>1, <3>1, PlacesDiffer DEF StartMsg, StopMsg
      <4>2. /\ metrics'.countMsgTX = metrics.countMsgTX /\ metrics'.countMsgRX = metrics.countMsgRX
            /\ metrics.countMsgTX \in Nat /\ metrics.countMsgRX \in Nat
        BY <1>1, <4>1 DEF Metrics
      <4>3. Settled
        <5>1. sending[round] = Idle /\ receiving = Idle /\ Uncounted(Idle) = 0
          BY <2>2 DEF Calm, Uncounted
        <5>2. QED BY <3>1, <4>2, <5>1 DEF Running, Settled
      <4>4. QED BY <1>1, <2>2, <4>1, <4>2, <4>3 DEF ClosesWindow, Settled
    <3>2. CASE watching = At("readTX", 0) /\ Settled
      <4>1. metrics' = metrics /\ watching' = At("readRX", metrics.countMsgTX)
        BY <1>1, <3>2, PlacesDiffer DEF StartMsg, StopMsg
      <4>2. QED BY <1>1, <2>2, <3>2, <4>1 DEF ClosesWindow, Settled
    <3>3. CASE watching = At("readRX", metrics.countMsgTX) /\ Settled
      <4>1. watching' = Stopped
        BY <1>1, <3>3, PlacesDiffer DEF StartMsg, StopMsg
      <4>2. QED BY <1>1, <2>2, <4>1 DEF ClosesWindow
    <3>4. watching # Stopped
      BY <1>1, PlacesDiffer DEF StartMsg, StopMsg
    <3>5. QED BY <2>1, <3>1, <3>2, <3>3, <3>4 DEF ClosesWindow
  <2>4. QED BY <1>1, <1>2, <1>5, <2>1, <2>2, <2>3 DEF RoundInv
<1>6. QED BY <1>1, <1>3, <1>4, <1>5

LEMMA WatchKeepsCounts ==
  ASSUME TypeInv, CountInv, MediadorCounts
  PROVE  CountInv'
<1> SUFFICES ASSUME lost' = 0
             PROVE  /\ ComparesWhatWasExchanged'
                    /\ \A r \in Rounds : Fresh(r)' => exchanged'[r] = 0
                    /\ round' # Single => RoundInv'
  BY DEF CountInv
<1>1. /\ UNCHANGED <<round, phase, compared, exchanged, lost>> /\ Watch
      /\ Types /\ round \in Rounds
  BY DEF MediadorCounts, mediadorVars, TypeInv, Types
<1>2. ComparesWhatWasExchanged'
  <2>1. CASE metrics'.qntMsg = metrics.qntMsg
    BY <1>1, <2>1 DEF CountInv, ComparesWhatWasExchanged
  <2>2. CASE Closes
    <3> DEFINE q == metrics.qntMsg
               v == watching.value + metrics.countMsgRX
    <3>1. /\ q \in Seq(Nat) /\ v \in Nat
          /\ metrics'.qntMsg = IF Len(q) < 3 THEN Append(q, v) ELSE q
      BY <1>1, <2>2, ClosesNumbers
    <3>2. watching.step = "readRX" /\ watching # Stopped
      BY <2>2, PlacesDiffer DEF Closes
    <3>3. compared => Len(q) = round
      BY <3>2 DEF TypeInv, NumbersSoFar
    <3>4. round # Single => exchanged[round] - v \in {1, 2}
      <4>1. SUFFICES ASSUME round # Single PROVE exchanged[round] - v \in {1, 2}
        OBVIOUS
      <4>2. RoundInv /\ phase \in {"start", "window", "pause"}
        BY <1>1, <4>1 DEF CountInv, TypeInv, Types, NumbersSoFar
      <4>3. ClosesWindow
        BY <3>2, <4>2, PlacesDiffer DEF RoundInv, OpensWindow
      <4>4. watching.value = metrics.countMsgTX /\ Settled
        BY <3>2, <4>3, PlacesDiffer DEF ClosesWindow
      <4>5. QED BY <4>4 DEF Settled
    <3> HIDE DEF q, v
    <3>5. SUFFICES ASSUME compared, NEW b \in Behaviours, b < Len(metrics'.qntMsg)
                   PROVE  exchanged[b] - metrics'.qntMsg[b + 1] \in {1, 2}
      BY <1>1 DEF ComparesWhatWasExchanged
    <3>6. b \in Nat /\ b <= 2 /\ round \in 0 .. 3
      BY <1>1, RoundsOrdered
    <3>7. CASE b < Len(q)
      <4>1. metrics'.qntMsg[b + 1] = q[b + 1]
        BY <3>1, <3>6, <3>7
      <4>2. QED BY <1>1, <3>5, <3>7, <4>1 DEF CountInv, ComparesWhatWasExchanged, q
    <3>8. CASE b >= Len(q)
      <4>1. round # Single /\ b = round /\ metrics'.qntMsg = Append(q, v)
        BY <3>1, <3>3, <3>5, <3>6, <3>8, RoundsOrdered
      <4>2. metrics'.qntMsg[b + 1] = v
        BY <3>1, <3>3, <3>5, <4>1
      <4>3. QED BY <3>4, <4>1, <4>2
    <3>9. Len(q) \in Nat
      BY <3>1
    <3>10. b < Len(q) \/ b >= Len(q)
      BY <3>6, <3>9
    <3>11. QED BY <3>7, <3>8, <3>10
  <2>3. QED BY <1>1, <2>1, <2>2, WatchTyped
<1>3. \A r \in Rounds : Fresh(r)' => exchanged'[r] = 0
  BY <1>1 DEF CountInv, Fresh
<1>4. round # Single => RoundInv'
  BY <1>1, WatchKeepsRound DEF CountInv
<1>5. QED BY <1>1, <1>2, <1>3, <1>4

LEMMA MediadorKeepsCounts ==
  ASSUME TypeInv, PlaceInv, TimeToAnswer, CountInv, Mediador
  PROVE  CountInv'
<1> SUFFICES ASSUME lost' = 0
             PROVE  /\ ComparesWhatWasExchanged'
                    /\ \A r \in Rounds : Fresh(r)' => exchanged'[r] = 0
                    /\ round' # Single => RoundInv'
  BY DEF CountInv
<1>1. CASE MediadorCounts
  BY <1>1, WatchKeepsCounts DEF CountInv
<1> SUFFICES ASSUME Execute \/ CallStopMsg \/ NextWindow \/ Stop \/ NextRound
             PROVE  /\ ComparesWhatWasExchanged'
                    /\ \A r \in Rounds : Fresh(r)' => exchanged'[r] = 0
                    /\ round' # Single => RoundInv'
  BY <1>1 DEF Mediador
<1>2. /\ UNCHANGED <<compared, net, metrics, sending, receiving, exchanged, lost>>
      /\ lost = 0 /\ round \in Rounds /\ thread \in [Rounds -> Threads] /\ clock \in Nat
      /\ N \in Nat /\ N >= 1 /\ Pause \in Nat /\ MaxDelay \in Nat /\ N + 2 * MaxDelay <= Pause
      /\ net \subseteq Messages
  <2>1. UNCHANGED <<compared, net, metrics, sending, receiving, exchanged, lost>>
    BY DEF Execute, CallStopMsg, NextWindow, Stop, NextRound, controllerVars, countVars, mediadorVars
  <2>2. QED BY <2>1, TargetsCounted, InteractionAssumption DEF TypeInv, Types, TimeToAnswer
<1>3. ComparesWhatWasExchanged' /\ \A r \in Rounds : Fresh(r) => exchanged[r] = 0
  BY <1>2 DEF CountInv, ComparesWhatWasExchanged
<1>4. \A r \in Rounds : Fresh(r)' => Fresh(r)
  <2>1. /\ round' = round \/ (round # Single /\ round' = round + 1)
        /\ phase' = "start" => phase = "start" \/ round' = round + 1
    BY PlacesDiffer DEF Execute, CallStopMsg, NextWindow, Stop, NextRound, mediadorVars
  <2>2. QED BY <1>2, <2>1, RoundsOrdered DEF Fresh
<1>5. round' # Single => round # Single /\ RoundInv
  <2>1. round' # Single => round # Single
    BY DEF Execute, CallStopMsg, NextWindow, Stop, NextRound, mediadorVars
  <2>2. QED BY <1>2, <2>1 DEF CountInv
<1>6. CASE Execute
  <2> SUFFICES ASSUME round # Single, RoundInv PROVE RoundInv'
    BY <1>2, <1>3, <1>4, <1>5
  <2>1. /\ phase = "start" /\ watching = Idle /\ phase' = "window" /\ clock' \in Windows
        /\ round' = round /\ watching' = Idle
        /\ thread'[round] = [NoThread EXCEPT !.pc = "begin"]
    BY <1>2, <1>6 DEF Execute, controllerVars, countVars
  <2>2. clock' > 0
    BY <2>1, InteractionAssumption
  <2>3. Calm /\ OpensWindow /\ exchanged[round] = 0
    BY <1>2, <1>3, <2>1 DEF RoundInv, Fresh
  <2>4. FirstToSend'
    BY <2>1, <2>2 DEF FirstToSend, NoThread
  <2>5. Opening'
    <3>1. ~metrics.count /\ metrics.countMsgTX = 0 /\ metrics.countMsgRX = 0
      BY <2>1, <2>3, PlacesDiffer DEF OpensWindow
    <3>2. NothingYet'
      BY <1>2, <2>1, <2>3, <2>4, <3>1 DEF NothingYet, Calm
    <3>3. QED BY <1>2, <2>1, <2>3, <3>1, <3>2, PlacesDiffer DEF Opening, Calm, Cleared
  <2>6. QED BY <1>2, <2>1, <2>5 DEF RoundInv
<1>7. CASE CallStopMsg
  <2> SUFFICES ASSUME round # Single, RoundInv PROVE RoundInv'
    BY <1>2, <1>3, <1>4, <1>5
  <2>1. /\ UNCHANGED <<round, phase, clock, thread>>
        /\ clock = 0 /\ phase = "pause" /\ watching = Idle /\ watching' = ToStopMsg
    BY <1>7 DEF CallStopMsg, mediadorVars, threadVars
  <2>2. Running
    BY <2>1, PlacesDiffer DEF RoundInv, ClosesWindow
  <2>3. Running' /\ Calm' = Calm /\ (AnswersInTime => AnswersInTime')
    BY <1>2, <2>1, <2>2, TimingKeeps DEF Running, Calm
  <2>4. QED BY <1>2, <2>1, <2>3 DEF RoundInv, ClosesWindow
<1>8. CASE NextWindow
  <2>1. round = Single /\ round' = round
    BY <1>2, <1>8 DEF NextWindow, TypeInv, Types, NumbersSoFar
  <2>2. QED BY <1>2, <1>3, <1>4, <2>1
<1>9. CASE Stop
  <2> SUFFICES ASSUME round # Single, RoundInv PROVE RoundInv'
    BY <1>2, <1>3, <1>4, <1>5
  <2> DEFINE t == thread[round]
  <2>1. /\ phase = "window" /\ clock = 0 /\ phase' = "pause" /\ clock' = Pause /\ round' = round
        /\ watching' = Idle /\ thread'[round] = [t EXCEPT !.interrupted = TRUE]
        /\ t \in Threads
    BY <1>2, <1>9 DEF Stop
  <2>2. thread'[round].pc = t.pc /\ thread'[round].i = t.i /\ thread'[round].sleep = t.sleep
    BY <2>1 DEF Threads
  <2>3. Running
    BY <2>1 DEF RoundInv, Opening, NothingYet, FirstAlone, FirstAndAnswer, LastOfBoth,
                FirstToSend, FirstSent
  <2>4. Running'
    BY <1>2, <2>1, <2>3 DEF Running
  <2>5. t.pc \in {"reify", "delete"} /\ t.i <= N => Pause + t.i > N + 2 * MaxDelay + t.sleep
    <3> SUFFICES ASSUME t.pc \in {"reify", "delete"}, t.i <= N
                 PROVE  Pause + t.i > N + 2 * MaxDelay + t.sleep
      OBVIOUS
    <3>1. Works(round) /\ t.i \in Nat /\ t.sleep \in Nat
      BY <1>2, <2>1 DEF PlaceInv, Threads, Positions
    <3>2. t.sleep + (N + 1 - t.i) <= N
      BY <1>2, <2>1, <3>1 DEF Works, ToSend
    <3>3. QED BY <1>2, <3>1, <3>2
  <2>6. \A x \in net : Pause + x.age > IF x.up THEN MaxDelay ELSE 2 * MaxDelay
    <3>1. \A x \in net : x.age \in Nat
      BY <1>2 DEF Messages
    <3>2. QED BY <1>2, <3>1
  <2>7. AnswersInTime'
    BY <1>2, <2>1, <2>2, <2>5, <2>6 DEF AnswersInTime
  <2>8. clock' # 0
    BY <1>2, <2>1
  <2>9. QED BY <1>2, <2>1, <2>4, <2>7, <2>8 DEF RoundInv, ClosesWindow
<1>10. CASE NextRound
  <2> SUFFICES ASSUME round' # Single PROVE RoundInv'
    BY <1>2, <1>3, <1>4
  <2>1. /\ phase = "pause" /\ clock = 0 /\ round # Single /\ RoundInv
        /\ phase' = "start" /\ round' = round + 1 /\ watching' = ToStartMsg
    BY <1>5, <1>10 DEF NextRound
  <2>2. Calm /\ round' \in Rounds
    BY <1>2, <2>1, RoundsOrdered DEF RoundInv
  <2>3. \A r \in Rounds : sending[r] = Idle
    BY <2>1, <2>2 DEF RoundInv, Calm
  <2>4. Calm' /\ OpensWindow'
    BY <1>2, <2>1, <2>2, <2>3, PlacesDiffer DEF Calm, OpensWindow
  <2>5. QED BY <1>2, <2>1, <2>3, <2>4 DEF RoundInv
<1>11. QED BY <1>6, <1>7, <1>8, <1>9, <1>10

LEMMA StepKeepsCounts ==
  ASSUME TypeInv, PlaceInv, EventInv, TimeToAnswer, CountInv, [Next]_vars
  PROVE  CountInv'
<1>1. CASE Mediador
  BY <1>1, MediadorKeepsCounts
<1>2. ASSUME NEW r \in Rounds, BehaviourStep(r) PROVE CountInv'
  <2>1. CASE r = round /\ Sends(r) /\ sending[r] = Idle
    BY <2>1, SendsKeepCounts
  <2>2. CASE r = round /\ Moves(r)
    BY <2>2, MovesKeepCounts
  <2>3. CASE r # round /\ Runs(r)
    BY <2>3, OthersKeepCounts
  <2>4. CASE BehaviourCounts(r)
    BY <2>4, CountsKeep DEF Count
  <2>5. QED BY <1>2, <2>1, <2>2, <2>3, <2>4, BehaviourStepRuns DEF Runs
<1>3. ASSUME NEW x \in net, ReceiveController(x) \/ ReceivePacket(x) \/ Lose(x) PROVE CountInv'
  BY <1>3, MessagesKeepCounts
<1>4. CASE WorkerCounts
  BY <1>4, CountsKeep DEF Count
<1>5. CASE Tick
  BY <1>5, StepTyped, TickKeepsCounts
<1>6. CASE UNCHANGED vars
  <2>1. /\ thread'[round] = thread[round]
        /\ UNCHANGED <<round, phase, clock, compared, net, countVars, exchanged, lost>>
    BY <1>6 DEF vars, mediadorVars, threadVars, controllerVars
  <2>2. QED BY <2>1, SameCounts
<1>7. QED BY <1>1, <1>2, <1>3, <1>4, <1>5, <1>6 DEF Next

LEMMA InitCounts == Init => CountInv
<1> SUFFICES ASSUME Init PROVE CountInv
  OBVIOUS
<1>1. /\ metrics.qntMsg = <<>> /\ sending = [r \in Rounds |-> Idle] /\ receiving = Idle
      /\ watching = ToStartMsg /\ net = {} /\ phase = "start" /\ round \in Rounds
      /\ exchanged = [r \in Rounds |-> 0]
  BY RoundsOrdered DEF Init, CountInit
<1>2. ComparesWhatWasExchanged
  BY <1>1, RoundsOrdered DEF ComparesWhatWasExchanged
<1>3. RoundInv
  BY <1>1, PlacesDiffer DEF RoundInv, Calm, OpensWindow
<1>4. QED BY <1>1, <1>2, <1>3 DEF CountInv

------------------------------------------------------------------------------
(* Theorems *)

(***************************************************************************)
(* Every variable has its type.                                            *)
(***************************************************************************)
THEOREM TypeCorrect == Spec => []TypeOK
<1>1. TypeInv => TypeOK
  <2> SUFFICES ASSUME TypeInv PROVE TypeOK
    OBVIOUS
  <2>1. \A r \in Rounds : thread[r] \in Threads
    BY DEF TypeInv, Types
  <2>2. Len(metrics.qntMsg) <= 3
    <3>1. round \in 0 .. 3
      BY DEF TypeInv, Types, Rounds, Behaviours, Periodic, Polling, Alert, Single
    <3>2. compared => Len(metrics.qntMsg) = round
                      \/ (round # 3 /\ Len(metrics.qntMsg) = round + 1)
      BY DEF TypeInv, NumbersSoFar, Single
    <3>3. ~compared => Len(metrics.qntMsg) <= 3
      BY DEF TypeInv, NumbersSoFar
    <3>4. QED BY <3>1, <3>2, <3>3
  <2>3. QED BY <2>1, <2>2 DEF TypeInv, Types, TypeOK, CountTypeOK, Threads, Pcs, Positions
<1>2. QED BY <1>1, InitTyped, StepTyped, PTL DEF Spec

(***************************************************************************)
(* If the wait after a stop is longer than the messages to all motes of    *)
(* the intent take, and a window as long, the threads of rounds that are   *)
(* over send nothing, wherever in its loop the interrupt found each        *)
(* (OneBehaviourSends), for any number of motes.                           *)
(***************************************************************************)
THEOREM OneSends == ASSUME LongEnough PROVE Spec => []OneBehaviourSends
<1>1. Init => TypeInv /\ PlaceInv
  BY InitTyped, InitPlaces
<1>2. TypeInv /\ PlaceInv /\ [Next]_vars => (TypeInv /\ PlaceInv)'
  BY StepTyped, StepPlaces
<1>3. TypeInv /\ PlaceInv => OneBehaviourSends
  BY PlacesSilent
<1>4. QED BY <1>1, <1>2, <1>3, PTL DEF Spec

(***************************************************************************)
(* What is to arrive in a window or in the pause after it does, however it *)
(* is overtaken: no mote keeps an event of a behaviour that is over, as    *)
(* long as no message is lost (EventsOfThisRound), for any number of motes *)
(* that the times leave room for.                                          *)
(***************************************************************************)
THEOREM EventsEnd == ASSUME TimeToArrive PROVE Spec => []EventsOfThisRound
<1>1. Init => TypeInv /\ PlaceInv /\ EventInv
  BY InitTyped, InitPlaces, InitEvents
<1>2. TypeInv /\ PlaceInv /\ EventInv /\ [Next]_vars => (TypeInv /\ PlaceInv /\ EventInv)'
  BY StepTyped, StepPlaces, StepKeepsEvents DEF TimeToArrive
<1>3. TypeInv /\ PlaceInv /\ EventInv => EventsOfThisRound
  BY EverySeen
<1>4. QED BY <1>1, <1>2, <1>3, PTL DEF Spec

(***************************************************************************)
(* And every mote of an intent has its event when the window of the        *)
(* periodic behaviour closes (EveryMoteObserved): none of an earlier round *)
(* stands in its way, and no late deletion takes it.                       *)
(***************************************************************************)
THEOREM EveryoneObserved == ASSUME TimeToArrive PROVE Spec => []EveryMoteObserved
<1>1. Init => TypeInv /\ PlaceInv /\ EventInv
  BY InitTyped, InitPlaces, InitEvents
<1>2. TypeInv /\ PlaceInv /\ EventInv /\ [Next]_vars => (TypeInv /\ PlaceInv /\ EventInv)'
  BY StepTyped, StepPlaces, StepKeepsEvents DEF TimeToArrive
<1>3. TypeInv /\ PlaceInv /\ EventInv => EveryMoteObserved
  BY EverySeen
<1>4. QED BY <1>1, <1>2, <1>3, PTL DEF Spec

(***************************************************************************)
(* If the answers too arrive before a pause is over, and no message is     *)
(* lost, the numbers that are compared are the messages exchanged in each  *)
(* round but for the one or two that started the counters                  *)
(* (ComparesWhatWasExchanged), although behaviour, Worker and Mediador     *)
(* count without a lock, for any number of motes and any interleaving of   *)
(* their accesses.                                                         *)
(***************************************************************************)
THEOREM ComparesRight == ASSUME TimeToAnswer PROVE Spec => []ComparesWhatWasExchanged
<1>1. Init => TypeInv /\ PlaceInv /\ EventInv /\ CountInv
  BY InitTyped, InitPlaces, InitEvents, InitCounts
<1>2. TypeInv /\ PlaceInv /\ EventInv /\ CountInv /\ [Next]_vars =>
        (TypeInv /\ PlaceInv /\ EventInv /\ CountInv)'
  BY StepTyped, StepPlaces, StepKeepsEvents, StepKeepsCounts DEF TimeToAnswer, TimeToArrive
<1>3. CountInv => ComparesWhatWasExchanged
  BY DEF CountInv, ComparesWhatWasExchanged
<1>4. QED BY <1>1, <1>2, <1>3, PTL DEF Spec

==============================================================================
