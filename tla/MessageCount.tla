----------------------------- MODULE MessageCount -----------------------------
(***************************************************************************)
(* How messages are counted: the ends of sendMessage and receivePacket     *)
(* (Communication.java), startMsg and stopMsg (MonitoringMetrics.java).    *)
(*                                                                         *)
(* Behaviours send in threads of their own, the Worker receives, Mediador  *)
(* opens and closes the windows, and none of them takes a lock.  Each      *)
(* access to a field they share is a step: the place of a thread names the *)
(* access it makes next, and has the value it read last.  What a thread    *)
(* writes, the others are taken to see at once.                            *)
(***************************************************************************)
EXTENDS Integers, Sequences

Periodic == 0
Polling == 1
Alert == 2
Behaviours == {Periodic, Polling, Alert}

Single == 3                    \* the round of executeSingle
Rounds == Behaviours \cup {Single}

VARIABLES
  metrics,    \* the fields of Communication and MonitoringMetrics
  sending,    \* the places of the threads of the behaviours, one for each round
  receiving,  \* that of the Worker
  watching    \* that of Mediador

countVars == <<metrics, sending, receiving, watching>>

At(step, value) == [step |-> step, value |-> value]

Idle == At("idle", 0)

\* The message is sent, or its handler has returned.
ToCount == At("test", 0)

\* Mediador enters startMsg, enters stopMsg, and has left stopMsg.
ToStartMsg == At("zeroTX", 0)
ToStopMsg == At("close", 0)
Stopped == At("stopped", 0)

CountInit ==
  /\ metrics = [count |-> FALSE, auxTX |-> 0, auxRX |-> 0,
                countMsgTX |-> 0, countMsgRX |-> 0, qntMsg |-> <<>>]
  /\ sending = [r \in Rounds |-> Idle]
  /\ receiving = Idle
  /\ watching = ToStartMsg

------------------------------------------------------------------------------
(* A message: aux is the counter of Communication and msg the one of       *)
(* MonitoringMetrics for its direction.                                    *)

\* A mutant: only the counter of messages sent starts again.
NextPlaceKeepsRX(p, aux) ==
  CASE p.step = "test"    -> At(IF metrics.count THEN "read" ELSE "clearTX", 0)
    [] p.step = "clearTX" -> At("raise", 0)
    [] p.step = "read"    -> At("write", metrics[aux])
    [] p.step = "write"   -> At("readAgain", 0)
    [] p.step = "readAgain" -> At("set", metrics[aux])
    [] OTHER              -> Idle

\* The first message of a window only starts the counters, the others add one.
NextPlace(p, aux) ==
  CASE p.step = "test"    -> At(IF metrics.count THEN "read" ELSE "clearTX", 0)
    [] p.step = "clearTX" -> At("clearRX", 0)
    [] p.step = "clearRX" -> At("raise", 0)
    [] p.step = "read"    -> At("write", metrics[aux])
    [] p.step = "write"   -> At("readAgain", 0)
    [] p.step = "readAgain" -> At("set", metrics[aux])
    [] OTHER              -> Idle

\* The fields after the access that place p names.
Access(p, aux, msg) ==
  CASE p.step = "clearTX" -> [metrics EXCEPT !.auxTX = 0]
    [] p.step = "clearRX" -> [metrics EXCEPT !.auxRX = 0]
    [] p.step = "raise"   -> [metrics EXCEPT !.count = TRUE]
    [] p.step = "write"   -> [metrics EXCEPT ![aux] = p.value + 1]
    [] p.step = "set"     -> [metrics EXCEPT ![msg] = p.value]
    [] OTHER              -> metrics

CountTX(r) ==
  /\ sending[r] # Idle
  /\ metrics' = Access(sending[r], "auxTX", "countMsgTX")
  /\ sending' = [sending EXCEPT ![r] = NextPlace(sending[r], "auxTX")]
  /\ UNCHANGED <<receiving, watching>>

CountRX ==
  /\ receiving # Idle
  /\ metrics' = Access(receiving, "auxRX", "countMsgRX")
  /\ receiving' = NextPlace(receiving, "auxRX")
  /\ UNCHANGED <<sending, watching>>

------------------------------------------------------------------------------
(* A window *)

StartMsg ==
  \/ /\ watching.step = "zeroTX"
     /\ metrics' = [metrics EXCEPT !.countMsgTX = 0]
     /\ watching' = At("zeroRX", 0)
  \/ /\ watching.step = "zeroRX"
     /\ metrics' = [metrics EXCEPT !.countMsgRX = 0]
     /\ watching' = At("open", 0)
  \/ /\ watching.step = "open"
     /\ metrics' = [metrics EXCEPT !.count = FALSE]
     /\ watching' = Idle

\* The array has room for three results.
StopMsg ==
  \/ /\ watching.step = "close"
     /\ metrics' = [metrics EXCEPT !.count = FALSE]
     /\ watching' = At("readTX", 0)
  \/ /\ watching.step = "readTX"
     /\ watching' = At("readRX", metrics.countMsgTX)
     /\ UNCHANGED metrics
  \/ /\ watching.step = "readRX"
     /\ metrics' = [metrics EXCEPT !.qntMsg =
                      IF Len(@) < 3 THEN Append(@, watching.value + metrics.countMsgRX) ELSE @]
     /\ watching' = Stopped

Watch == (StartMsg \/ StopMsg) /\ UNCHANGED <<sending, receiving>>

Places ==
  [step : {"idle", "test", "clearTX", "clearRX", "raise", "read", "write", "readAgain", "set",
           "zeroTX", "zeroRX", "open", "close", "readTX", "readRX", "stopped"},
   value : Nat]

Metrics ==
  [count : BOOLEAN, auxTX : Nat, auxRX : Nat, countMsgTX : Nat, countMsgRX : Nat,
   qntMsg : Seq(Nat)]

CountTypeOK ==
  /\ metrics \in Metrics /\ Len(metrics.qntMsg) <= 3
  /\ sending \in [Rounds -> Places] /\ receiving \in Places /\ watching \in Places

\* Nobody is about to count.
NobodyCounts == receiving = Idle /\ watching = Idle /\ \A r \in Rounds : sending[r] = Idle

==============================================================================
