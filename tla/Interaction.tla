----------------------------- MODULE Interaction -----------------------------
(***************************************************************************)
(* How an intent is served (Mediador.java, Behavior.java,                  *)
(* BehaviorLogic.java, the behaviours of SdnWise.java, Communication.java, *)
(* and on the motes Agente.java and EventHandler.java).                    *)
(*                                                                         *)
(* A behaviour observes the motes of an intent in one of three ways:       *)
(* 0 registers a periodic event on each, 1 polls them, 2 asks for a        *)
(* reading to set an alert by.  executeMediador lets each run in a window  *)
(* of time, stops it by an interrupt, waits for two seconds and starts the *)
(* next; then executeSingle runs the one that exchanged fewest messages.   *)
(* Each execution of a behaviour is a thread, each stop an interrupt.      *)
(*                                                                         *)
(* Time is in ticks of the 200 ms a behaviour waits between two messages.  *)
(* Everything else that is due happens before the next tick, in any order; *)
(* messages take up to MaxDelay ticks, overtake each other and may be lost *)
(* (PathSetup has how they travel).  The id of a message stands for the    *)
(* handler it was registered with: here the round that asked and what it   *)
(* asked.                                                                  *)
(***************************************************************************)
EXTENDS MessageCount

CONSTANTS
  Motes,
  Targets,        \* the addresses of an intent; one of them may be no mote's
  Direct,         \* the behaviours processIntents may run without comparison
  Windows,        \* lengths of a window, in ticks (60 s)
  SingleWindows,  \* windows of executeSingle
  Pause,          \* of Mediador after a stop (2000 ms)
  PollPause,      \* of the polling behaviour between two rounds of polls
  EventPeriod,    \* of a periodic event
  MaxDelay, MaxLost

NoRound == Single + 1

N == Len(Targets)

ASSUME InteractionAssumption ==
  /\ Targets \in Seq(Motes \cup {0}) /\ N >= 1 /\ 0 \notin Motes
  /\ \A i, j \in 1 .. N : Targets[i] = Targets[j] => i = j
  /\ Direct \subseteq Behaviours
  /\ Windows \subseteq Nat \ {0} /\ Windows # {} /\ SingleWindows \in Nat \ {0}
  /\ Pause \in Nat /\ PollPause \in Nat \ {0} /\ EventPeriod \in Nat \ {0}
  /\ MaxDelay \in Nat /\ MaxLost \in Nat

VARIABLES
  round, phase, clock, left,  \* Mediador: what it does, for how long, windows to go
  compared, chosen,           \* whether it compares, the behaviour of the last round
  thread,                     \* of each round
  flag,                       \* of each BehaviorLogic
  event, cont,                \* of each mote: the round whose event it has; its counter
  net,                        \* messages on their way
  worker,                     \* whether the thread of the controller is alive
  exchanged,                  \* messages exchanged in a round
  lost

mediadorVars == <<round, phase, clock, left, compared, chosen>>
threadVars == <<thread, flag>>
moteVars == <<event, cont>>
controllerVars == <<worker, countVars, exchanged>>
vars == <<mediadorVars, threadVars, moteVars, net, controllerVars, lost>>

Asked == {"periodic", "polling", "pollingAlerta", "deleteEvent"}

\* mote's request from, or answer to, the handler of round for what it asked
Messages ==
  [mote : Motes, up : BOOLEAN, round : Rounds, asks : Asked,
   says : {"request", "reading", "notice", "error"}, age : 0 .. MaxDelay]

Behaviour(r) == IF r = Single THEN chosen ELSE r

NoThread == [pc |-> "none", i |-> 1, back |-> <<"none", 1>>, sleep |-> 0, interrupted |-> FALSE]

Init ==
  /\ \/ compared = TRUE /\ round = Periodic /\ chosen = Periodic
     \/ compared = FALSE /\ round = Single /\ chosen \in Direct
  /\ phase = "start" /\ clock = 0 /\ left = 0
  /\ thread = [r \in Rounds |-> NoThread]
  /\ flag = [b \in Behaviours |-> FALSE]
  /\ event = [m \in Motes |-> NoRound] /\ cont = [m \in Motes |-> 1]
  /\ net = {}
  /\ worker = TRUE
  /\ CountInit
  /\ exchanged = [r \in Rounds |-> 0]
  /\ lost = 0

------------------------------------------------------------------------------
(* The threads of behaviours *)

\* What is exchanged in a round.
Exchange == exchanged' = IF phase \in {"window", "pause"}
                         THEN [exchanged EXCEPT ![round] = @ + 1] ELSE exchanged

Awake(r) == thread[r].sleep = 0

\* A thread has nothing to do before the next tick.
AtRest(r) ==
  \/ thread[r].pc \in {"none", "done"}
  \/ ~thread[r].interrupted /\ (~Awake(r) \/ (thread[r].pc = "exec" /\ flag[Behaviour(r)]))

\* Communication.sendMessage up to the count; nothing comes of a message to an
\* address of no mote.
SendMessage(a, r, asks) ==
  /\ net' = IF a \notin Motes THEN net
            ELSE net \cup {[mote |-> a, up |-> FALSE, round |-> r, asks |-> asks,
                            says |-> "request", age |-> 0]}
  /\ sending' = [sending EXCEPT ![r] = ToCount]
  /\ UNCHANGED <<metrics, receiving, watching>>
  /\ Exchange

Asks(b) ==
  CASE b = Periodic -> "periodic" [] b = Polling -> "polling" [] b = Alert -> "pollingAlerta"

\* A mutant: the loop over the motes starts at the second.
BeginAtSecond(r) ==
  /\ thread[r].pc = "begin"
  /\ thread' = [thread EXCEPT ![r].pc = "reify", ![r].i = 2]
  /\ flag' = [flag EXCEPT ![Behaviour(r)] = TRUE]
  /\ UNCHANGED <<mediadorVars, moteVars, net, controllerVars, lost>>

Begin(r) ==
  /\ thread[r].pc = "begin"
  /\ thread' = [thread EXCEPT ![r].pc = "reify", ![r].i = 1]
  /\ flag' = [flag EXCEPT ![Behaviour(r)] = TRUE]
  /\ UNCHANGED <<mediadorVars, moteVars, net, controllerVars, lost>>

\* The loop of reify: a message, and esperaEnvioMensagem.
Reify(r) ==
  /\ thread[r].pc = "reify" /\ Awake(r) /\ thread[r].i <= N
  /\ SendMessage(Targets[thread[r].i], r, Asks(Behaviour(r)))
  /\ thread' = [thread EXCEPT ![r].i = @ + 1, ![r].sleep = 1]
  /\ UNCHANGED <<mediadorVars, flag, moteVars, worker, lost>>

\* Behind the loop the poller sleeps, the others wait until they are stopped.
ReifyEnds(r) ==
  /\ thread[r].pc = "reify" /\ Awake(r) /\ thread[r].i > N
  /\ thread' = IF Behaviour(r) = Polling
               THEN [thread EXCEPT ![r].pc = "poll", ![r].sleep = PollPause]
               ELSE [thread EXCEPT ![r].pc = "exec"]
  /\ UNCHANGED <<mediadorVars, flag, moteVars, net, controllerVars, lost>>

\* The poller polls again while the flag is set.
PollAgain(r) ==
  /\ thread[r].pc = "poll" /\ Awake(r)
  /\ thread' = IF flag[Behaviour(r)] THEN [thread EXCEPT ![r].pc = "reify", ![r].i = 1]
               ELSE [thread EXCEPT ![r].pc = "done"]
  /\ UNCHANGED <<mediadorVars, flag, moteVars, net, controllerVars, lost>>

\* waitBehaviorExec returns when the flag is not set.
ExecEnds(r) ==
  /\ thread[r].pc = "exec" /\ ~flag[Behaviour(r)]
  /\ thread' = [thread EXCEPT ![r].pc = "done"]
  /\ UNCHANGED <<mediadorVars, flag, moteVars, net, controllerVars, lost>>

\* A mutant: the flag stays set.
InterruptedKeepsFlag(r) ==
  /\ thread[r].interrupted /\ (~Awake(r) \/ thread[r].pc = "exec")
  /\ thread' = [thread EXCEPT ![r] =
       IF Behaviour(r) = Polling THEN [@ EXCEPT !.sleep = 0, !.interrupted = FALSE]
       ELSE [@ EXCEPT !.sleep = 0, !.interrupted = FALSE,
                      !.back = <<thread[r].pc, thread[r].i>>, !.pc = "delete", !.i = 1]]
  /\ UNCHANGED <<flag, mediadorVars, moteVars, net, controllerVars, lost>>

\* The interrupt ends a sleep, now or when the next one starts: the flag is
\* taken back and delete called, which does nothing for the poller.
Interrupted(r) ==
  /\ thread[r].interrupted /\ (~Awake(r) \/ thread[r].pc = "exec")
  /\ thread' = [thread EXCEPT ![r] =
       IF Behaviour(r) = Polling THEN [@ EXCEPT !.sleep = 0, !.interrupted = FALSE]
       ELSE [@ EXCEPT !.sleep = 0, !.interrupted = FALSE,
                      !.back = <<thread[r].pc, thread[r].i>>, !.pc = "delete", !.i = 1]]
  /\ flag' = [flag EXCEPT ![Behaviour(r)] = FALSE]
  /\ UNCHANGED <<mediadorVars, moteVars, net, controllerVars, lost>>

Delete(r) ==
  /\ thread[r].pc = "delete" /\ Awake(r) /\ thread[r].i <= N
  /\ SendMessage(Targets[thread[r].i], r, "deleteEvent")
  /\ thread' = [thread EXCEPT ![r].i = @ + 1, ![r].sleep = 1]
  /\ UNCHANGED <<mediadorVars, flag, moteVars, worker, lost>>

\* delete returns to where the interrupt came.
DeleteEnds(r) ==
  /\ thread[r].pc = "delete" /\ Awake(r) /\ thread[r].i > N
  /\ thread' = [thread EXCEPT ![r].pc = thread[r].back[1], ![r].i = thread[r].back[2]]
  /\ UNCHANGED <<mediadorVars, flag, moteVars, net, controllerVars, lost>>

BehaviourCounts(r) ==
  /\ CountTX(r)
  /\ UNCHANGED <<mediadorVars, threadVars, moteVars, net, worker, exchanged, lost>>

\* The sleep after a message, which an interrupt may end, begins when the
\* message is counted.
BehaviourStep(r) ==
  \/ /\ sending[r] = Idle
     /\ \/ Begin(r) \/ Reify(r) \/ ReifyEnds(r) \/ PollAgain(r) \/ ExecEnds(r)
        \/ Interrupted(r) \/ Delete(r) \/ DeleteEnds(r)
  \/ BehaviourCounts(r)

------------------------------------------------------------------------------
(* Mediador *)

\* Behavior.execute, after startMsg: a new thread of the behaviour
Execute ==
  /\ phase = "start" /\ watching = Idle
  /\ thread' = [thread EXCEPT ![round] = [NoThread EXCEPT !.pc = "begin"]]
  /\ phase' = "window" /\ clock' \in Windows
  /\ left' = IF round = Single THEN SingleWindows - 1 ELSE 0
  /\ UNCHANGED <<round, compared, chosen, flag, moteVars, net, controllerVars, lost>>

\* executeMediador counts up to the end of the pause, executeSingle window by
\* window.
CallStopMsg ==
  /\ clock = 0 /\ watching = Idle
  /\ phase = "pause" \/ (phase = "window" /\ round = Single)
  /\ watching' = ToStopMsg
  /\ UNCHANGED <<mediadorVars, threadVars, moteVars, net, worker, metrics, sending, receiving,
                 exchanged, lost>>

NextWindow ==
  /\ phase = "window" /\ clock = 0 /\ left > 0 /\ watching = Stopped
  /\ left' = left - 1 /\ clock' \in Windows
  /\ watching' = ToStartMsg
  /\ UNCHANGED <<round, phase, compared, chosen, threadVars, moteVars, net, worker,
                 metrics, sending, receiving, exchanged, lost>>

\* A mutant: executeSingle does not stop its behaviour.
StopNotSingle ==
  /\ phase = "window" /\ clock = 0 /\ left = 0
  /\ watching = IF round = Single THEN Stopped ELSE Idle
  /\ thread' = IF round = Single THEN thread
               ELSE [thread EXCEPT ![round].interrupted = TRUE]
  /\ phase' = "pause" /\ clock' = Pause
  /\ watching' = Idle
  /\ UNCHANGED <<round, left, compared, chosen, flag, moteVars, net, worker,
                 metrics, sending, receiving, exchanged, lost>>

Stop ==
  /\ phase = "window" /\ clock = 0 /\ left = 0
  /\ watching = IF round = Single THEN Stopped ELSE Idle
  /\ thread' = [thread EXCEPT ![round].interrupted = TRUE]
  /\ phase' = "pause" /\ clock' = Pause
  /\ watching' = Idle
  /\ UNCHANGED <<round, left, compared, chosen, flag, moteVars, net, worker,
                 metrics, sending, receiving, exchanged, lost>>

\* The first of the behaviours with the fewest messages.
Fewest(counts) ==
  CHOOSE b \in Behaviours : \A c \in Behaviours :
     counts[b + 1] < counts[c + 1] \/ (counts[b + 1] = counts[c + 1] /\ b <= c)

NextRound ==
  /\ phase = "pause" /\ clock = 0 /\ watching = Stopped
  /\ phase' = IF round = Single THEN "end" ELSE "start"
  /\ round' = IF round = Single THEN Single ELSE round + 1
  /\ chosen' = IF round = Alert THEN Fewest(metrics.qntMsg) ELSE chosen
  /\ watching' = IF round = Single THEN Idle ELSE ToStartMsg
  /\ UNCHANGED <<clock, left, compared, threadVars, moteVars, net, worker,
                 metrics, sending, receiving, exchanged, lost>>

MediadorCounts ==
  /\ Watch
  /\ UNCHANGED <<mediadorVars, threadVars, moteVars, net, worker, exchanged, lost>>

Mediador == Execute \/ CallStopMsg \/ NextWindow \/ Stop \/ NextRound \/ MediadorCounts

------------------------------------------------------------------------------
(* Messages *)

Answer(x, says) == [x EXCEPT !.up = TRUE, !.says = says, !.age = 0]

\* A mutant: the event stays.
CheckRequestKeeps(x) ==
  /\ event' = IF x.asks = "periodic" /\ event[x.mote] = NoRound
              THEN [event EXCEPT ![x.mote] = x.round] ELSE event
  /\ UNCHANGED cont
  /\ net' = (net \ {x}) \cup {Answer(x, IF x.asks = "polling" THEN "reading" ELSE "notice")}

\* checkRequest of the mote's agent, and the answer of receiveController.  The
\* agent has no case for "pollingAlerta".
CheckRequest(x) ==
  LET registers == x.asks = "periodic" /\ event[x.mote] = NoRound
      deletes == x.asks = "deleteEvent" /\ event[x.mote] # NoRound
  IN  /\ event' = IF registers THEN [event EXCEPT ![x.mote] = x.round]
                  ELSE IF deletes THEN [event EXCEPT ![x.mote] = NoRound] ELSE event
      /\ cont' = IF registers THEN [cont EXCEPT ![x.mote] = 1] ELSE cont
      /\ net' = (net \ {x}) \cup
           {Answer(x, IF x.asks = "polling" THEN "reading"
                      ELSE IF registers \/ deletes THEN "notice" ELSE "error")}

ReceiveController(x) ==
  /\ ~x.up
  /\ CheckRequest(x)
  /\ UNCHANGED <<mediadorVars, threadVars, controllerVars, lost>>

\* The handler of "pollingAlerta" takes the fourth field of a reading; an error
\* has none.
HandlerThrows(x) == x.asks = "pollingAlerta" /\ x.says # "reading"

\* Communication.receivePacket up to the count, on the thread of the Worker,
\* which an exception of the handler ends.  What is counted after the end of the
\* last round, which nobody looks at, is left out.
ReceivePacket(x) ==
  /\ x.up /\ receiving = Idle
  /\ net' = net \ {x}
  /\ worker' = (worker /\ ~HandlerThrows(x))
  /\ IF worker' /\ phase # "end" THEN receiving' = ToCount /\ Exchange
     ELSE UNCHANGED <<receiving, exchanged>>
  /\ UNCHANGED <<mediadorVars, threadVars, moteVars, metrics, sending, watching, lost>>

WorkerCounts ==
  /\ CountRX
  /\ UNCHANGED <<mediadorVars, threadVars, moteVars, net, worker, exchanged, lost>>

Lose(x) ==
  /\ lost < MaxLost
  /\ lost' = lost + 1
  /\ net' = net \ {x}
  /\ UNCHANGED <<mediadorVars, threadVars, moteVars, controllerVars>>

------------------------------------------------------------------------------
(* Time *)

\* executeEvent of the motes whose event is due
EventDue == {m \in Motes : event[m] # NoRound /\ cont[m] = EventPeriod}

SendDataEvents ==
  {[mote |-> m, up |-> TRUE, round |-> event[m], asks |-> "periodic",
    says |-> "reading", age |-> 0] : m \in EventDue}

\* A mutant: a sleep is not over when its time has come.
TickSleepsOn ==
  /\ NobodyCounts /\ \A r \in Rounds : AtRest(r)
  /\ phase = "end" \/ clock > 0
  /\ \A x \in net : x.age < MaxDelay
  /\ clock' = IF phase = "end" THEN clock ELSE clock - 1
  /\ thread' = [r \in Rounds |-> [thread[r] EXCEPT !.sleep = @ - 1]]
  /\ cont' = [m \in Motes |-> IF event[m] = NoRound THEN cont[m]
                              ELSE IF m \in EventDue THEN 1 ELSE cont[m] + 1]
  /\ net' = {[x EXCEPT !.age = @ + 1] : x \in net} \cup SendDataEvents
  /\ UNCHANGED <<round, phase, left, compared, chosen, flag, event, controllerVars, lost>>

Tick ==
  /\ NobodyCounts /\ \A r \in Rounds : AtRest(r)
  /\ phase = "end" \/ clock > 0
  /\ \A x \in net : x.age < MaxDelay
  /\ clock' = IF phase = "end" THEN clock ELSE clock - 1
  /\ thread' = [r \in Rounds |-> [thread[r] EXCEPT !.sleep = IF @ > 0 THEN @ - 1 ELSE 0]]
  /\ cont' = [m \in Motes |-> IF event[m] = NoRound THEN cont[m]
                              ELSE IF m \in EventDue THEN 1 ELSE cont[m] + 1]
  /\ net' = {[x EXCEPT !.age = @ + 1] : x \in net} \cup SendDataEvents
  /\ UNCHANGED <<round, phase, left, compared, chosen, flag, event, controllerVars, lost>>

Next ==
  \/ Mediador
  \/ \E r \in Rounds : BehaviourStep(r)
  \/ \E x \in net : ReceiveController(x) \/ ReceivePacket(x) \/ Lose(x)
  \/ WorkerCounts
  \/ Tick

Spec == Init /\ [][Next]_vars

\* Time passes, threads run, and a message that is not lost arrives.
Fairness ==
  /\ WF_vars(Tick) /\ WF_vars(Mediador)
  /\ \A r \in Rounds : WF_vars(BehaviourStep(r))
  /\ WF_vars(\E x \in net : ReceiveController(x) \/ ReceivePacket(x)) /\ WF_vars(WorkerCounts)

FairSpec == Spec /\ Fairness

------------------------------------------------------------------------------
(* Properties *)

TypeOK ==
  /\ round \in Rounds /\ phase \in {"start", "window", "pause", "end"}
  /\ clock \in Nat /\ left \in Nat
  /\ compared \in BOOLEAN /\ chosen \in Behaviours
  /\ \A r \in Rounds :
       /\ thread[r].pc \in {"none", "begin", "reify", "poll", "exec", "delete", "done"}
       /\ thread[r].i \in 1 .. (N + 1) /\ thread[r].sleep \in Nat
  /\ flag \in [Behaviours -> BOOLEAN]
  /\ event \in [Motes -> Rounds \cup {NoRound}] /\ cont \in [Motes -> 1 .. EventPeriod]
  /\ net \subseteq Messages
  /\ worker \in BOOLEAN /\ CountTypeOK
  /\ exchanged \in [Rounds -> Nat]
  /\ lost \in 0 .. MaxLost

\* A thread that will not send again unless its behaviour is executed again.
Silent(r) ==
  \/ thread[r].pc \in {"none", "done"}
  \/ thread[r].pc \in {"poll", "exec"} /\ ~flag[Behaviour(r)]

(***************************************************************************)
(* What the two seconds and the windows have to be long enough for: a      *)
(* message to each target, one a tick, and the round of a poller that was  *)
(* interrupted; and that the messages arrive: a tick more of MaxDelay, and *)
(* EventsOfThisRound fails, if the last target is a mote.  The 2000 ms     *)
(* are ten ticks: enough for nine motes and a delay of one.                *)
(***************************************************************************)
LongEnough == N < Pause /\ \A w \in Windows : N <= w /\ PollPause <= w

TimeToArrive ==
  /\ LongEnough
  /\ N + MaxDelay <= Pause
  /\ \A w \in Windows : N + MaxDelay <= w

\* That answers arrive too before the pause is over.
TimeToAnswer == TimeToArrive /\ N + 2 * MaxDelay <= Pause

(***************************************************************************)
(* One behaviour at a time talks to the motes: when Mediador executes the  *)
(* next, the thread of the one before has sent its last message, wherever  *)
(* in its loop the interrupt found it; the two seconds are enough.         *)
(***************************************************************************)
OneBehaviourSends ==
  \A r \in Rounds : (round > r \/ phase = "end") => Silent(r)

(***************************************************************************)
(* While no message is lost, no mote keeps an event of a behaviour that    *)
(* is over: its deletion has arrived before the next behaviour starts, and *)
(* so the messages that are compared are those of one behaviour.           *)
(***************************************************************************)
EventsOfThisRound ==
  lost = 0 => \A m \in Motes : event[m] \in {round, NoRound}

(***************************************************************************)
(* While no message is lost, every mote of the intent is observed: when    *)
(* the window of the periodic behaviour closes, each of them has its       *)
(* event, which no event or late deletion of an earlier one has prevented. *)
(***************************************************************************)
EveryMoteObserved ==
  lost = 0 /\ phase = "window" /\ clock = 0 /\ Behaviour(round) = Periodic =>
     \A i \in 1 .. N : Targets[i] \in Motes => event[Targets[i]] = round

(***************************************************************************)
(* While no message is lost, the numbers executeMediador compares are the  *)
(* messages exchanged in each round but for the first, or for the first    *)
(* and its answer, if the Worker comes to count the one while the other    *)
(* still starts the counters.  Nothing else is missed, counted twice or    *)
(* carried over from a round before, although no thread takes a lock: the  *)
(* pause is long enough for nobody to count when a window opens or closes. *)
(***************************************************************************)
ComparesWhatWasExchanged ==
  compared /\ lost = 0 =>
    \A b \in Behaviours : b < Len(metrics.qntMsg) =>
       exchanged[b] - metrics.qntMsg[b + 1] \in {1, 2}

(***************************************************************************)
(* After the last stop the motes fall silent, and remain so, if no message *)
(* is lost.                                                                *)
(***************************************************************************)
MotesFallSilent ==
  <>[](lost = 0 => net = {} /\ \A m \in Motes : event[m] = NoRound)

==============================================================================
