----------------------------- MODULE ConfigQuery -----------------------------
(***************************************************************************)
(* How the controller reads and writes what a mote keeps (the methods get  *)
(* and set of Controller.java, AbstractMote.marshalPacket).                *)
(*                                                                         *)
(* A write is one packet, which nobody answers.  To read, sendQuery sends  *)
(* a packet, sleeps, and looks into a map that expires.  The answer is put *)
(* there by the Worker, under a key that says which mote and what, not     *)
(* which question: an answer that comes too late waits for the next one.   *)
(*                                                                         *)
(* An item is what a read can ask of a mote: one of its timers, a number   *)
(* of one byte, the list of accepted addresses or the rule at a position.  *)
(* Values are sets of numbers: of one number, or of the addresses of a     *)
(* list, or of the rule there is at a position, if any.  What else changes *)
(* the rules of a mote is in FlowTable.                                    *)
(*                                                                         *)
(* Time is in ticks.  Whatever is due happens before the next tick, in any *)
(* order.  Packets take up to MaxDelay ticks each way, overtake each other *)
(* and may be lost (PathSetup has how they travel).  Not modelled: writing *)
(* a mote's own address or net id, after which it is another mote.         *)
(***************************************************************************)
EXTENDS Integers, FiniteSets

CONSTANTS
  Callers,       \* the threads that use the controller
  Motes,
  Items,         \* records [kind, n]: the n-th timer, byte, list, rule
  Numbers,       \* values written: numbers, addresses
  Default,       \* the number a mote starts with
  Rules,         \* rules there may be at a position
  OwnRule,       \* the one at position 0 of a new table
  ByteSize,      \* the number of values of a byte (256)
  AcceptedMax,   \* SDN_WISE_ACCEPTED_ID_MAX
  Timeout,       \* RESPONSE_TIMEOUT
  CacheTime,     \* of the map of answers
  MaxDelay, MaxLost,
  MaxQuestions, MaxChanges  \* bounds: questions; writes and changes of rules

Kinds == {"timer", "byte", "accepted", "rule"}

ASSUME QueryAssumption ==
  /\ Items \subseteq [kind : Kinds, n : Nat]
  /\ Default \in Nat /\ OwnRule \in Rules /\ Rules \subseteq Nat
  /\ Numbers \subseteq 0 .. (ByteSize * ByteSize - 1)
  /\ \A i \in Items : i.kind = "rule" => i.n < ByteSize \div 2
  /\ ByteSize \in Nat \ {0} /\ ByteSize % 2 = 0
  /\ AcceptedMax \in Nat \ {0}
  /\ Timeout \in Nat \ {0} /\ Timeout < CacheTime /\ CacheTime \in Nat \ {0}
  /\ MaxDelay \in Nat /\ MaxLost \in Nat /\ MaxQuestions \in Nat /\ MaxChanges \in Nat

VARIABLES
  held,     \* what each mote keeps of each item
  net,      \* packets on their way
  cache,    \* key -> the answer there and its age
  caller,   \* of each thread: where it is in sendQuery
  quiet,    \* ticks since an item was last asked for
  lost, questions, changes  \* what the bounds count

boundVars == <<lost, questions, changes>>
vars == <<held, net, cache, caller, quiet, boundVars>>

------------------------------------------------------------------------------
(* Packets *)

\* payload byte 0
ConfigId(i) == IF i.kind = "rule" THEN <<"rule", 0>> ELSE <<i.kind, i.n>>

\* A mutant: the position of a rule is not part of the key.
KeyWithoutPosition(m, i) == <<m, ConfigId(i), 0>>

\* The key of an answer, and of the question for it.
Key(m, i) == <<m, ConfigId(i), IF i.kind = "rule" THEN i.n ELSE 0>>

Signed(b) == IF b >= ByteSize \div 2 THEN b - ByteSize ELSE b

\* What a mote makes of the two bytes of a number, of which each has a sign.
Joined(v) == Signed(v \div ByteSize) * ByteSize + Signed(v % ByteSize)

\* What the controller reads when a mote holds v: bytes without signs, and for
\* an empty list the address 0, which setRead wrote where the list begins.
Shown(i, v) ==
  CASE i.kind = "timer" -> {x % (ByteSize * ByteSize) : x \in v}
    [] i.kind = "byte"  -> {x % ByteSize : x \in v}
    [] i.kind = "accepted" -> IF v = {} THEN {0} ELSE v
    [] i.kind = "rule"  -> v

Packet(c, m, i, op, v) ==
  [from |-> c, mote |-> m, item |-> i, op |-> op, value |-> v, age |-> 0]

\* The set methods of each kind of item, as what they put into the packet.
TimerWrites == {<<"set", {v}>> : v \in Numbers}
ByteWrites == {<<"set", {v}>> : v \in Numbers}
AcceptedWrites == {<<o, {v}>> : o \in {"add", "remove"}, v \in Numbers}
\* removeRule of a rule instead of a position is a packet motes have no code for.
RuleWrites == {<<"remove", {}>>}

Writes(i) ==
  CASE i.kind = "timer"    -> TimerWrites
    [] i.kind = "byte"     -> ByteWrites
    [] i.kind = "accepted" -> AcceptedWrites
    [] i.kind = "rule"     -> RuleWrites

\* What a thread that has asked nothing yet, or has no answer, has.
Idle == [pc |-> "idle"]
NoAnswer == [is |-> "none"]
Null == [is |-> "null"]

\* Longer than an answer can be on its way and in the map, less the time the
\* next question waits for its own.
Quiet == 2 * MaxDelay + CacheTime - Timeout + 1

Init ==
  /\ held = [m \in Motes |-> [i \in Items |->
               CASE i.kind \in {"timer", "byte"} -> {Default}
                 [] i.kind = "rule" /\ i.n = 0 -> {OwnRule}
                 [] OTHER -> {}]]
  /\ net = {}
  /\ cache = << >>
  /\ caller = [c \in Callers |-> Idle]
  /\ quiet = [m \in Motes |-> [i \in Items |-> Quiet]]
  /\ lost = 0 /\ questions = 0 /\ changes = 0

------------------------------------------------------------------------------
(* The threads that use the controller *)

\* A mutant: answers do not expire.
NeverDue == {}

\* The answers whose time in the map is over.
Due == {k \in DOMAIN cache : cache[k].age = CacheTime}

Asks(c, m, i) ==
  caller[c].pc \in {"asleep", "found"} /\ caller[c].mote = m /\ caller[c].item = i

\* sendQuery, up to its sleep.  old, quiet, alone and inForce are for the properties.
Ask(c, m, i) ==
  /\ questions < MaxQuestions
  /\ questions' = questions + 1
  /\ caller[c].pc \in {"idle", "returned"}
  /\ caller' = [d \in Callers |->
       IF d = c
       THEN [pc |-> "asleep", mote |-> m, item |-> i, left |-> Timeout, got |-> NoAnswer,
             old |-> FALSE, quiet |-> quiet[m][i] = Quiet, alone |-> \A e \in Callers : ~Asks(e, m, i),
             inForce |-> {Shown(i, held[m][i])}]
       ELSE IF Asks(d, m, i) THEN [caller[d] EXCEPT !.alone = FALSE] ELSE caller[d]]
  /\ net' = net \cup {Packet(c, m, i, "read", {})}
  /\ quiet' = [quiet EXCEPT ![m][i] = 0]
  /\ UNCHANGED <<held, cache, lost, changes>>

\* containsKey after the sleep; without an answer sendQuery throws an exception
\* that the get methods turn into -1 or null.
ContainsKey(c) ==
  LET k == Key(caller[c].mote, caller[c].item)
  IN  /\ caller[c].pc = "asleep" /\ caller[c].left = 0
      /\ caller' = [caller EXCEPT ![c].pc = IF k \in DOMAIN cache THEN "found" ELSE "returned",
                                  ![c].old = k \in Due]
      /\ UNCHANGED <<held, net, cache, quiet, boundVars>>

Without(k) == [j \in DOMAIN cache \ {k} |-> cache[j]]

\* remove: null, if the answer has expired or another thread has removed it since.
RemoveAnswer(c) ==
  LET k == Key(caller[c].mote, caller[c].item)
  IN  /\ caller[c].pc = "found"
      /\ caller' = [caller EXCEPT ![c].pc = "returned",
                                  ![c].got = IF k \in DOMAIN cache THEN cache[k].answer ELSE Null]
      /\ cache' = Without(k)
      /\ UNCHANGED <<held, net, quiet, boundVars>>

\* A set method: one packet.
Set(c, m, i) ==
  /\ changes < MaxChanges
  /\ changes' = changes + 1
  /\ \E w \in Writes(i) : net' = net \cup {Packet(c, m, i, w[1], w[2])}
  /\ UNCHANGED <<held, cache, caller, quiet, lost, questions>>

\* managePacket, on the thread of the Worker
ReceiveAnswer(x) ==
  /\ x.op = "answer"
  /\ net' = net \ {x}
  /\ LET k == Key(x.mote, x.item)
     IN  cache' = [j \in DOMAIN cache \cup {k} |->
            IF j = k THEN [answer |-> [is |-> "answer", mote |-> x.mote, item |-> x.item,
                                       value |-> x.value], age |-> 0]
            ELSE cache[j]]
  /\ UNCHANGED <<held, caller, quiet, boundVars>>

------------------------------------------------------------------------------
(* The motes: rxConfig and marshalPacket *)

\* What x makes of the value v of its item.  A full list throws, and position
\* 0 is not erased.
Marshalled(x, v) ==
  CASE x.op = "set" /\ x.item.kind = "timer" -> {Joined(n) : n \in x.value}
    [] x.op = "set" /\ x.item.kind = "byte"  -> {Signed(n % ByteSize) : n \in x.value}
    [] x.op = "add" -> IF Cardinality(v) < AcceptedMax THEN v \cup x.value ELSE v
    [] x.op = "remove" /\ x.item.kind = "accepted" -> v \ x.value
    [] x.op = "remove" /\ x.item.kind = "rule" -> IF x.item.n # 0 THEN {} ELSE v

Holds(m, i, v) ==
  /\ held' = [held EXCEPT ![m][i] = v]
  /\ caller' = [c \in Callers |-> IF Asks(c, m, i)
                                  THEN [caller[c] EXCEPT !.inForce = @ \cup {Shown(i, v)}]
                                  ELSE caller[c]]

Write(x) ==
  /\ x.op \in {"set", "add", "remove"}
  /\ net' = net \ {x}
  /\ Holds(x.mote, x.item, Marshalled(x, held[x.mote][x.item]))
  /\ UNCHANGED <<cache, quiet, boundVars>>

Answer(x) ==
  /\ x.op = "read"
  /\ net' = (net \ {x}) \cup
       {Packet(x.from, x.mote, x.item, "answer", Shown(x.item, held[x.mote][x.item]))}
  /\ UNCHANGED <<held, cache, caller, quiet, boundVars>>

\* Rules arrive, age and are evicted.
RuleChanges(m, i) ==
  /\ i.kind = "rule" /\ changes < MaxChanges
  /\ changes' = changes + 1
  /\ \E r \in {{}} \cup {{v} : v \in Rules} : r # held[m][i] /\ Holds(m, i, r)
  /\ UNCHANGED <<net, cache, quiet, lost, questions>>

------------------------------------------------------------------------------
(* Around them *)

Lose(x) ==
  /\ lost < MaxLost
  /\ lost' = lost + 1
  /\ net' = net \ {x}
  /\ UNCHANGED <<held, cache, caller, quiet, questions, changes>>

Expire(k) ==
  /\ k \in Due
  /\ cache' = Without(k)
  /\ UNCHANGED <<held, net, caller, quiet, boundVars>>

Tick ==
  /\ \A x \in net : x.age < MaxDelay
  /\ Due = {}
  /\ \A c \in Callers : caller[c].pc # "found" /\ (caller[c].pc = "asleep" => caller[c].left > 0)
  /\ net' = {[x EXCEPT !.age = @ + 1] : x \in net}
  /\ cache' = [k \in DOMAIN cache |-> [cache[k] EXCEPT !.age = @ + 1]]
  /\ caller' = [c \in Callers |-> IF caller[c].pc = "asleep"
                                  THEN [caller[c] EXCEPT !.left = @ - 1] ELSE Idle]
  /\ quiet' = [m \in Motes |-> [i \in Items |->
                 IF quiet[m][i] = Quiet THEN Quiet ELSE quiet[m][i] + 1]]
  /\ UNCHANGED <<held, boundVars>>

Next ==
  \/ \E c \in Callers : ContainsKey(c) \/ RemoveAnswer(c)
  \/ \E c \in Callers, m \in Motes, i \in Items : Ask(c, m, i) \/ Set(c, m, i)
  \/ \E x \in net : Answer(x) \/ Write(x) \/ ReceiveAnswer(x) \/ Lose(x)
  \/ \E m \in Motes, i \in Items : RuleChanges(m, i)
  \/ \E k \in DOMAIN cache : Expire(k)
  \/ Tick

Spec == Init /\ [][Next]_vars

------------------------------------------------------------------------------
(* Properties *)

TypeOK ==
  /\ held \in [Motes -> [Items -> SUBSET Int]]
  /\ \A m \in Motes, i \in Items : i.kind \in {"timer", "byte"} => Cardinality(held[m][i]) = 1
  /\ \A m \in Motes, i \in Items : i.kind = "accepted" => Cardinality(held[m][i]) <= AcceptedMax
  /\ \A x \in net : x.age \in 0 .. MaxDelay
  /\ \A k \in DOMAIN cache : cache[k].age \in 0 .. CacheTime
  /\ quiet \in [Motes -> [Items -> 0 .. Quiet]]

Returned(c) == caller[c].pc = "returned"
Got(c, what) == Returned(c) /\ caller[c].got.is = what

(***************************************************************************)
(* An answer is one to the question that was asked: of that mote and that  *)
(* item, whatever other answers came late or were left behind.             *)
(***************************************************************************)
AnswersItsQuestion ==
  \A c \in Callers : Got(c, "answer") =>
     caller[c].got.mote = caller[c].mote /\ caller[c].got.item = caller[c].item

(***************************************************************************)
(* When nobody had asked the same for some time, what a thread gets is     *)
(* something the mote held while the thread waited, and was not about to   *)
(* expire.  Otherwise it may be the late answer to an earlier question,    *)
(* and its own answer waits for the next: one late answer makes all that   *)
(* follow closely enough late.                                             *)
(***************************************************************************)
QuietMeansFresh ==
  \A c \in Callers : Returned(c) /\ caller[c].quiet =>
     /\ Got(c, "answer") => caller[c].got.value \in caller[c].inForce
     /\ ~caller[c].old

(***************************************************************************)
(* A thread finds its answer gone between containsKey and remove, and the  *)
(* get method fails on null, only if another asked the same meanwhile or   *)
(* the time of that answer was over when it was found.                     *)
(***************************************************************************)
NullOnlyIfShared ==
  \A c \in Callers : Got(c, "null") => ~caller[c].alone \/ caller[c].old

==============================================================================
