------------------------------ MODULE FlowTable ------------------------------
(***************************************************************************)
(* The flow table of one mote (AbstractMote.java, Mote.java).              *)
(*                                                                         *)
(* Slot 0 holds the rule towards the sink, written by beacons; the slots   *)
(* 1 .. RlsMax-1 are a ring filled at flow_table_free_pos.  A lookup tries *)
(* slot 0 and then the ring from the newest rule to the oldest             *)
(* (getActualFlowIndex).  Rules arrive in RESPONSE and OPEN_PATH packets,  *)
(* are erased by CONFIG packets that name a lookup position, and age on    *)
(* the timer of the mote while its semaphore is 1.                         *)
(*                                                                         *)
(* Abstracted: the contents of windows and actions (FlowRules), the match  *)
(* counter of Stats (only logged), the distance to the sink and the        *)
(* battery (SinkDiscovery).  A handler that would throw an index exception *)
(* before it changes anything is not enabled.                              *)
(***************************************************************************)
EXTENDS FlowRules

CONSTANTS
  OwnWindows,   \* "dst = my address, type > 127": rule 0 before any beacon
  SinkWindows,  \* the same with the address of a sink
  SelfHop,      \* forward to my own address
  Parents,      \* forward to a neighbour: the next hops a beacon may bring
  Rssi,         \* the signal strength receivedPacket hands to rxHandler
  ByteSize      \* the number of values of a byte (256)

ASSUME TableAssumption ==
  /\ OwnWindows \in Aged /\ SinkWindows \subseteq Aged
  /\ OwnWindows \notin SinkWindows
  /\ SelfHop \in Actions /\ Parents \subseteq Actions \ {SelfHop}
  /\ Rssi \in Nat \ {0}
  /\ ByteSize \in Nat \ {0}

VARIABLES
  flowTable,            \* slot -> entry
  flow_table_free_pos,  \* the next slot of the ring to fill
  semaphore,            \* 1 while the mote has a rule towards the sink
  rssiSink,             \* signal strength of the beacon that gave rule 0
  decision              \* what the last lookup answered

vars == <<flowTable, flow_table_free_pos, semaphore, rssiSink, decision>>

TypeOK ==
  /\ flowTable \in [Slots -> Entry]
  /\ flow_table_free_pos \in 1 .. (RlsMax - 1)
  /\ semaphore \in {0, 1}
  /\ rssiSink \in {0, Rssi}
  /\ decision \in Actions \cup {Ask, NoAction}

------------------------------------------------------------------------------
\* The ring

\* A mutant of GetActualFlowIndex: slots past the free one are tried oldest first.
GetActualFlowIndexNoWrap(free, j) ==
  IF j = 0 THEN 0 ELSE IF j < free THEN free - j ELSE j

\* The slot a lookup tries in its j-th step, with the ring filled up to free.
GetActualFlowIndex(free, j) ==
  LET i == free - j
  IN  IF j = 0 THEN 0
      ELSE IF i = 0 THEN RlsMax - 1
      ELSE IF i < 0 THEN RlsMax - 1 + i ELSE i

\* A mutant of SearchRule: only the ring is searched, from the second slot on.
SearchRuleTooFew(t, r) ==
  LET same == {i \in Slots \ {0, 1} : SameWindows(t.rules[i], r)}
  IN  IF same = {} THEN RlsMax + 1
      ELSE CHOOSE i \in same : \A k \in same : i <= k

\* The lowest slot with the windows of r, or a number past the table.
SearchRule(t, r) ==
  LET same == {i \in Slots : SameWindows(t.rules[i], r)}
  IN  IF same = {} THEN RlsMax + 1
      ELSE CHOOSE i \in same : \A k \in same : i <= k

\* A mutant of InsertRule: the wrap goes back to slot 0.
InsertRuleWrapToZero(t, r) ==
  LET pos == SearchRule(t, r)
  IN  IF pos < RlsMax THEN [t EXCEPT !.rules[pos] = r]
      ELSE [rules |-> [t.rules EXCEPT ![t.free] = r],
            free  |-> IF t.free + 1 >= RlsMax THEN 0 ELSE t.free + 1]

\* insertRule(r, searchRule(r)) on a table t = [rules, free]
InsertRule(t, r) ==
  LET pos == SearchRule(t, r)
  IN  IF pos < RlsMax THEN [t EXCEPT !.rules[pos] = r]
      ELSE [rules |-> [t.rules EXCEPT ![t.free] = r],
            free  |-> IF t.free + 1 >= RlsMax THEN 1 ELSE t.free + 1]

\* The entries of a table in the order runFlowMatch tries them.
LookupOrder(t) == [j \in Slots |-> t.rules[GetActualFlowIndex(t.free, j)]]

Table == [rules |-> flowTable, free |-> flow_table_free_pos]

SetTable(t) == flowTable' = t.rules /\ flow_table_free_pos' = t.free

------------------------------------------------------------------------------
\* The handlers

Init ==
  /\ flowTable = [i \in Slots |->
        IF i = 0 THEN [win |-> OwnWindows, act |-> SelfHop, ttl |-> TtlPermanent]
        ELSE NoRule]
  /\ flow_table_free_pos = 1
  /\ semaphore = 0
  /\ rssiSink = 0
  /\ decision = Ask

\* rxBeacon, first branch: a better parent gives a new rule 0.
AdoptParent(w, h) ==
  /\ Rssi > rssiSink
  /\ semaphore' = 1
  /\ flowTable' = [flowTable EXCEPT ![0] = Fresh(w, h)]
  /\ rssiSink' = Rssi
  /\ UNCHANGED <<flow_table_free_pos, decision>>

\* rxBeacon, second branch: the parent is heard again.
RefreshParent(w, h) ==
  /\ flowTable[0].act = h
  /\ flowTable' = [flowTable EXCEPT ![0] = [@ EXCEPT !.ttl = TtlMax, !.win = w]]
  /\ UNCHANGED <<flow_table_free_pos, semaphore, rssiSink, decision>>

\* rxResponse for this mote
RxResponse(w, a) ==
  /\ SetTable(InsertRule(Table, Fresh(w, a)))
  /\ UNCHANGED <<semaphore, rssiSink, decision>>

\* rxOpenPath at an end of the path: one rule, towards the other end
RxOpenPathEnd(w, a) ==
  /\ w \notin Aged
  /\ SetTable(InsertRule(Table, Fresh(w, a)))
  /\ UNCHANGED <<semaphore, rssiSink, decision>>

\* rxOpenPath inside the path: a rule back to its first node, then one
\* forward to its last node
RxOpenPathInside(w1, a1, w2, a2) ==
  /\ w1 # w2 /\ w1 \notin Aged /\ w2 \notin Aged
  /\ SetTable(InsertRule(InsertRule(Table, Fresh(w1, a1)), Fresh(w2, a2)))
  /\ UNCHANGED <<semaphore, rssiSink, decision>>

\* A byte is signed in Java: the upper half of its values is negative.
SignedByte(b) == IF b >= ByteSize \div 2 THEN b - ByteSize ELSE b

\* setValue splits the index in two bytes, marshalPacket joins them again.
IndexRead(k) == SignedByte((k \div ByteSize) % ByteSize) * ByteSize + SignedByte(k % ByteSize)

\* SDN_WISE_CNF_REMOVE_RULE_INDEX for lookup position k
RemoveRuleIndex(k) ==
  /\ IndexRead(k) # 0
  /\ LET i == GetActualFlowIndex(flow_table_free_pos, IndexRead(k))
     IN  i \in Slots /\ flowTable' = [flowTable EXCEPT ![i] = NoRule]
  /\ UNCHANGED <<flow_table_free_pos, semaphore, rssiSink, decision>>

\* updateTable, called by timerTask: rule 0 takes the semaphore with it
UpdateTable ==
  /\ semaphore = 1
  /\ flowTable' = [i \in Slots |-> Age(flowTable[i])]
  /\ semaphore' = IF ~Blank(flowTable[0]) /\ Blank(Age(flowTable[0])) THEN 0 ELSE 1
  /\ UNCHANGED <<flow_table_free_pos, rssiSink, decision>>

RunFlowMatch(p) ==
  /\ decision' = FirstMatch(LookupOrder(Table), p)
  /\ UNCHANGED <<flowTable, flow_table_free_pos, semaphore, rssiSink>>

Next ==
  \/ \E w \in SinkWindows, h \in Parents : AdoptParent(w, h) \/ RefreshParent(w, h)
  \/ \E w \in WindowLists, a \in Actions : RxResponse(w, a) \/ RxOpenPathEnd(w, a)
  \/ \E w1, w2 \in WindowLists, a1, a2 \in Actions : RxOpenPathInside(w1, a1, w2, a2)
  \/ \E k \in Slots : RemoveRuleIndex(k)
  \/ UpdateTable
  \/ \E p \in Packets : RunFlowMatch(p)

Spec == Init /\ [][Next]_vars

------------------------------------------------------------------------------
\* Properties

(***************************************************************************)
(* No rule of the ring is stored twice: whatever the order of insertions,  *)
(* in-place updates, evictions, removals and ageing, two slots of the ring *)
(* never carry the same windows, so an updated rule cannot be shadowed by  *)
(* an older copy of itself that searchRule missed.                         *)
(***************************************************************************)
NoRuleTwice ==
  \A i, k \in Slots \ {0} :
     i # k /\ ~Blank(flowTable[i]) => ~SameWindows(flowTable[i], flowTable[k])

(***************************************************************************)
(* The ring keeps the promise of RuleList: through every wrap of           *)
(* flow_table_free_pos, getActualFlowIndex visits every slot, slot 0 first *)
(* and then the newest rule first, an insertion evicts the oldest rule of  *)
(* the ring and nothing else, and never the rule towards the sink.         *)
(***************************************************************************)
ListOfRules == INSTANCE RuleList WITH list <- LookupOrder(Table)

ImplementsRuleList == ListOfRules!Spec

\* The windows no rule towards a sink has: those of a destination.
Destinations == WindowLists \ (SinkWindows \cup {OwnWindows})

\* The actions the ring has for each destination.
NextHop(rules) ==
  [w \in Destinations |->
     LET at == {i \in Slots \ {0} : rules[i].win = w}
     IN  IF at = {} THEN NoAction ELSE rules[CHOOSE i \in at : TRUE].act]

\* A packet that no rule towards a sink matches is treated by a rule of the ring
\* that matches, wherever the ring has it, and taken to the controller only if
\* there is none.
FindsNextHop ==
  \A p \in Packets :
     LET held == {w \in Destinations : <<w, p>> \in Matches /\ NextHop(flowTable)[w] # NoAction}
     IN  (\A w \in SinkWindows \cup {OwnWindows} : <<w, p>> \notin Matches) =>
           FirstMatch(LookupOrder(Table), p)
             \in (IF held = {} THEN {Ask} ELSE {NextHop(flowTable)[w] : w \in held})

HopTable ==
  INSTANCE NextHops WITH hop <- NextHop(flowTable), Passing <- Aged,
                         Hops <- Actions, NoHop <- NoAction

(***************************************************************************)
(* The ring keeps the promise of NextHops, what PathSetup takes it for: an *)
(* insertion changes what is done for its own destination and, when it     *)
(* wraps onto another rule, for that one's; nothing else but a removal by  *)
(* the controller and the ageing of rules with several windows makes the   *)
(* mote forget.  And a lookup finds what there is.                         *)
(***************************************************************************)
ImplementsNextHops == HopTable!Spec /\ []FindsNextHop

==============================================================================
