----------------------------- MODULE SharedTable -----------------------------
(***************************************************************************)
(* The flow table of a sink under its two threads (AbstractMote.java,      *)
(* Sink.java): PacketManager handles what comes from the controller, the   *)
(* thread of the simulator what comes by radio, and the timer.  Nothing    *)
(* guards the table.  FlowTable has every operation as one step; here a    *)
(* thread takes one access to flowTable or flow_table_free_pos at a time.  *)
(*                                                                         *)
(* overlapped, wrapped, and stayed and missed of a lookup only record    *)
(* what has happened, for the properties.                                  *)
(*                                                                         *)
(* Abstracted: threads see each other's writes in the order they are made; *)
(* the counter of a rule; decrementTtl is a step with the test before it.  *)
(***************************************************************************)
EXTENDS FlowRules

Threads == {"manager", "simulator"}

VARIABLES
  flowTable,            \* slot -> entry; slot 0 is the sink's own, permanent rule
  flow_table_free_pos,
  at,                   \* of each thread: the operation it is in, and how far
  overlapped,           \* both threads have been inserting at the same time
  wrapped               \* flow_table_free_pos has gone back to the start

vars == <<flowTable, flow_table_free_pos, at, overlapped, wrapped>>

Rule == {Fresh(w, a) : w \in WindowLists, a \in Actions}

Idle == [op |-> "idle"]

At ==
  {Idle}
    \cup [op : {"search"}, rule : Rule, i : Slots]
    \cup [op : {"claim"}, rule : Rule]
    \cup [op : {"bump", "wrap", "set"}, rule : Rule, pos : Nat]
    \cup [op : {"lookup"}, packet : Packets, j : Slots, stayed : SUBSET Slots]
    \cup [op : {"act"}, packet : Packets, i : Slots]
    \cup [op : {"ask"}, missed : SUBSET Slots]
    \cup [op : {"age", "blank"}, i : Slots]

TypeOK ==
  /\ flowTable \in [Slots -> Entry]
  /\ flow_table_free_pos \in Nat
  /\ at \in [Threads -> At]
  /\ overlapped \in BOOLEAN /\ wrapped \in BOOLEAN

Init ==
  /\ \E w \in Aged, a \in Actions :
       flowTable = [i \in Slots |-> IF i = 0 THEN [Fresh(w, a) EXCEPT !.ttl = TtlPermanent]
                                    ELSE NoRule]
  /\ flow_table_free_pos = 1
  /\ at = [t \in Threads |-> Idle]
  /\ overlapped = FALSE /\ wrapped = FALSE

\* The thread t goes on to a and leaves the table tab; a lookup of the other
\* notes which of the rules that match its packet stay.
GoOn(t, a, tab) ==
  at' = [u \in Threads |->
           IF u = t THEN a
           ELSE IF at[u].op # "lookup" THEN at[u]
           ELSE [at[u] EXCEPT !.stayed = {i \in @ : SameWindows(tab[i], flowTable[i])}]]

SetSlot(i, e) == flowTable' = [flowTable EXCEPT ![i] = e]

------------------------------------------------------------------------------
(* insertRule(r, searchRule(r)) *)

Inserting(t) == at[t].op \in {"search", "claim", "bump", "wrap", "set"}

\* A rule of a RESPONSE, or of an OPEN_PATH from the controller or by radio.
StartInsert(t) ==
  /\ at[t] = Idle
  /\ \E r \in Rule : GoOn(t, [op |-> "search", rule |-> r, i |-> 0], flowTable)
  /\ overlapped' = (overlapped \/ \E u \in Threads : Inserting(u))
  /\ UNCHANGED <<flowTable, flow_table_free_pos, wrapped>>

\* A mutant: the last slot is not compared.
LastSlotLess == RlsMax - 2

LastSlot == RlsMax - 1

Search(t) ==
  /\ at[t].op = "search"
  /\ LET r == at[t].rule
         i == at[t].i
     IN  GoOn(t, IF SameWindows(flowTable[i], r) THEN [op |-> "set", rule |-> r, pos |-> i]
                 ELSE IF i < LastSlot THEN [at[t] EXCEPT !.i = @ + 1]
                 ELSE [op |-> "claim", rule |-> r], flowTable)
  /\ UNCHANGED <<flowTable, flow_table_free_pos, overlapped, wrapped>>

\* pos = flow_table_free_pos
Claim(t) ==
  /\ at[t].op = "claim"
  /\ GoOn(t, [op |-> "bump", rule |-> at[t].rule, pos |-> flow_table_free_pos], flowTable)
  /\ UNCHANGED <<flowTable, flow_table_free_pos, overlapped, wrapped>>

\* A mutant: the position is taken and not moved on.
BumpForgotten(t) ==
  /\ at[t].op = "bump"
  /\ GoOn(t, [at[t] EXCEPT !.op = "wrap"], flowTable)
  /\ UNCHANGED <<flowTable, flow_table_free_pos, overlapped, wrapped>>

\* flow_table_free_pos++
Bump(t) ==
  /\ at[t].op = "bump"
  /\ flow_table_free_pos' = flow_table_free_pos + 1
  /\ GoOn(t, [at[t] EXCEPT !.op = "wrap"], flowTable)
  /\ UNCHANGED <<flowTable, overlapped, wrapped>>

RingStart == 1

Wrap(t) ==
  /\ at[t].op = "wrap"
  /\ IF flow_table_free_pos >= RlsMax
     THEN flow_table_free_pos' = RingStart /\ wrapped' = TRUE
     ELSE UNCHANGED <<flow_table_free_pos, wrapped>>
  /\ GoOn(t, [at[t] EXCEPT !.op = "set"], flowTable)
  /\ UNCHANGED <<flowTable, overlapped>>

\* Past the table, set throws, which ends the thread.
Set(t) ==
  /\ at[t].op = "set" /\ at[t].pos \in Slots
  /\ SetSlot(at[t].pos, at[t].rule)
  /\ GoOn(t, Idle, flowTable')
  /\ UNCHANGED <<flow_table_free_pos, overlapped, wrapped>>

------------------------------------------------------------------------------
(* runFlowMatch *)

StartLookup(t) ==
  /\ at[t] = Idle
  /\ \E p \in Packets :
       GoOn(t, [op |-> "lookup", packet |-> p, j |-> 0,
                stayed |-> {i \in Slots : MatchRule(flowTable[i], p)}], flowTable)
  /\ UNCHANGED <<flowTable, flow_table_free_pos, overlapped, wrapped>>

\* A mutant: below the start of the ring, it counts back from its size.
ActualFlowIndexOff(j) ==
  LET i == flow_table_free_pos - j
  IN  IF j = 0 THEN 0
      ELSE IF i = 0 THEN RlsMax - 1
      ELSE IF i < 0 THEN RlsMax + i ELSE i

\* getActualFlowIndex reads flow_table_free_pos anew in every round.
ActualFlowIndex(j) ==
  LET i == flow_table_free_pos - j
  IN  IF j = 0 THEN 0
      ELSE IF i = 0 THEN RlsMax - 1
      ELSE IF i < 0 THEN RlsMax - 1 + i ELSE i

\* The slots insertions are about to write
Claimed == {at[t].pos : t \in {u \in Threads : at[u].op \in {"bump", "wrap", "set"}}}

\* One round.  Past the table, get throws.
Lookup(t) ==
  /\ at[t].op = "lookup"
  /\ LET p == at[t].packet
         i == ActualFlowIndex(at[t].j)
     IN  /\ i \in Slots
         /\ GoOn(t, IF MatchRule(flowTable[i], p) THEN [op |-> "act", packet |-> p, i |-> i]
                    ELSE IF at[t].j < RlsMax - 1 THEN [at[t] EXCEPT !.j = @ + 1]
                    ELSE [op |-> "ask", missed |-> at[t].stayed \ Claimed], flowTable)
  /\ UNCHANGED <<flowTable, flow_table_free_pos, overlapped, wrapped>>

\* flowTable.get(i).getActions() is read after the match; or the controller is
\* asked.
ActOrAsk(t) ==
  /\ at[t].op \in {"act", "ask"}
  /\ GoOn(t, Idle, flowTable)
  /\ UNCHANGED <<flowTable, flow_table_free_pos, overlapped, wrapped>>

------------------------------------------------------------------------------
(* Rules go *)

\* SDN_WISE_CNF_REMOVE_RULE_INDEX, in PacketManager
RemoveRuleIndex ==
  /\ at["manager"] = Idle
  /\ \E k \in Slots \ {0} :
       /\ ActualFlowIndex(k) \in Slots
       /\ SetSlot(ActualFlowIndex(k), NoRule)
  /\ GoOn("manager", Idle, flowTable')
  /\ UNCHANGED <<flow_table_free_pos, overlapped, wrapped>>

\* updateTable, on the timer: ...
StartUpdate ==
  /\ at["simulator"] = Idle
  /\ GoOn("simulator", [op |-> "age", i |-> 0], flowTable)
  /\ UNCHANGED <<flowTable, flow_table_free_pos, overlapped, wrapped>>

AfterSlot(i) == IF i < RlsMax - 1 THEN [op |-> "age", i |-> i + 1] ELSE Idle

\* ... a rule is read, and either aged ...
AgeSlot ==
  /\ at["simulator"].op = "age"
  /\ LET i == at["simulator"].i
         expired == ~Blank(flowTable[i]) /\ Blank(Age(flowTable[i]))
     IN  /\ IF expired THEN UNCHANGED flowTable ELSE SetSlot(i, Age(flowTable[i]))
         /\ GoOn("simulator", IF expired THEN [op |-> "blank", i |-> i] ELSE AfterSlot(i), flowTable')
  /\ UNCHANGED <<flow_table_free_pos, overlapped, wrapped>>

\* ... or replaced, whatever the slot holds by then.
BlankSlot ==
  /\ at["simulator"].op = "blank"
  /\ SetSlot(at["simulator"].i, NoRule)
  /\ GoOn("simulator", AfterSlot(at["simulator"].i), flowTable')
  /\ UNCHANGED <<flow_table_free_pos, overlapped, wrapped>>

------------------------------------------------------------------------------
Next ==
  \/ \E t \in Threads :
       \/ StartInsert(t) \/ Search(t) \/ Claim(t) \/ Bump(t) \/ Wrap(t) \/ Set(t)
       \/ StartLookup(t) \/ Lookup(t) \/ ActOrAsk(t)
  \/ RemoveRuleIndex
  \/ StartUpdate \/ AgeSlot \/ BlankSlot

Spec == Init /\ [][Next]_vars

------------------------------------------------------------------------------
(* Properties *)

(***************************************************************************)
(* No rule of the ring is stored twice, and no insertion leaves the ring,  *)
(* as long as only one thread inserts at a time, whatever the other looks  *)
(* up, ages or blanks meanwhile: the two insertions are the only race that *)
(* breaks the table itself.                                                *)
(***************************************************************************)
TableSound ==
  ~overlapped =>
    /\ flow_table_free_pos \in 1 .. RlsMax
    /\ \A i, k \in Slots \ {0} :
         i # k /\ ~Blank(flowTable[i]) => ~SameWindows(flowTable[i], flowTable[k])

(***************************************************************************)
(* The controller is asked only when it must be: a rule that matches the   *)
(* packet and stays in the table during the whole lookup is found, though  *)
(* flow_table_free_pos moves on under the lookup and the order of its      *)
(* slots with it.  The one exception is the rule an insertion under way is *)
(* about to replace.                                                       *)
(***************************************************************************)
AsksOnlyWithoutRule ==
  \A t \in Threads : at[t].op = "ask" /\ ~overlapped => at[t].missed = {}

(***************************************************************************)
(* The actions that are run are those of the rule that matched, or of none *)
(* when the rule was blanked in between (the packet is then dropped and    *)
(* the controller not asked): only once the ring has wrapped can the slot  *)
(* hold another rule by then.                                              *)
(***************************************************************************)
ActsByTheRuleMatched ==
  \A t \in Threads :
     at[t].op = "act" /\ ~wrapped /\ ~overlapped =>
       LET e == flowTable[at[t].i] IN Blank(e) \/ MatchRule(e, at[t].packet)

==============================================================================
