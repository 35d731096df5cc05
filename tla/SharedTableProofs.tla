-------------------------- MODULE SharedTableProofs --------------------------
(***************************************************************************)
(* Theorems of SharedTable, for any size of the table, any rules and any   *)
(* packets.                                                                *)
(***************************************************************************)
EXTENDS SharedTable, TLAPS

Ring == Slots \ {0}

Writing(t) == at[t].op \in {"bump", "wrap", "set"}

\* No slot of the ring before or after those named in but has the windows of r.
Nowhere(r, but) == \A k \in Ring \ but : ~SameWindows(flowTable[k], r)

(***************************************************************************)
(* TableSound is not inductive alone.  Added to it: one thread inserts at  *)
(* a time; what a search has passed does not have the windows of its rule; *)
(* when it has passed everything, no slot has; and flow_table_free_pos is  *)
(* past the ring only until the thread that moved it wraps it.             *)
(***************************************************************************)
OneInserts == \A t, u \in Threads : t # u => ~(Inserting(t) /\ Inserting(u))

PassedDiffers ==
  \A t \in Threads : at[t].op = "search" =>
     \A k \in Ring : k < at[t].i => ~SameWindows(flowTable[k], at[t].rule)

NewRuleNowhere == \A t \in Threads : at[t].op = "claim" => Nowhere(at[t].rule, {})

OnlyWhereWritten ==
  \A t \in Threads : Writing(t) =>
     at[t].pos \in Slots /\ (at[t].pos # 0 => Nowhere(at[t].rule, {at[t].pos}))

FreeInRing ==
  /\ flow_table_free_pos \in 1 .. RlsMax
  /\ flow_table_free_pos = RlsMax => \E t \in Threads : at[t].op = "wrap"

StoredOnce ==
  \A i, k \in Ring : i # k /\ ~Blank(flowTable[i]) => ~SameWindows(flowTable[i], flowTable[k])

SoundInv ==
  ~overlapped =>
     OneInserts /\ PassedDiffers /\ NewRuleNowhere /\ OnlyWhereWritten /\ FreeInRing /\ StoredOnce

------------------------------------------------------------------------------
(* Rules and threads *)

LEMMA RulesAreEntries ==
  /\ \A r \in Rule : r \in Entry /\ r.win \in WindowLists /\ ~Blank(r)
  /\ NoRule \in Entry /\ Blank(NoRule)
  /\ 0 \in Slots /\ LastSlot \in Slots /\ RlsMax - 1 = LastSlot
BY RulesAssumption DEF Rule, Fresh, Entry, NoRule, Blank, Slots, LastSlot

LEMMA AgedEntry ==
  ASSUME NEW e \in Entry
  PROVE  /\ Age(e) \in Entry
         /\ ~Blank(Age(e)) => Age(e).win = e.win
         /\ Blank(e) => Age(e) = e
<1>1. TtlMax \in Nat /\ TtlPermanent \in Nat /\ TtlMax < TtlPermanent /\ TtlDecr \in Nat \ {0}
  BY RulesAssumption
<1>2. NoRule \in Entry /\ Blank(NoRule)
  BY RulesAreEntries
<1>3. CASE e.win \notin Aged \/ e.ttl = TtlPermanent
  BY <1>3 DEF Age
<1>4. CASE ~(e.win \notin Aged \/ e.ttl = TtlPermanent) /\ e.ttl >= TtlDecr
  <2>1. e.ttl - TtlDecr \in 0 .. TtlPermanent
    BY <1>1, <1>4 DEF Entry
  <2>2. Age(e) = [e EXCEPT !.ttl = e.ttl - TtlDecr]
    BY <1>4 DEF Age
  <2>3. Age(e) \in Entry /\ Age(e).win = e.win
    BY <2>1, <2>2 DEF Entry
  <2>4. ~Blank(e)
    BY <1>4, RulesAssumption DEF Blank
  <2>5. QED BY <2>3, <2>4
<1>5. CASE ~(e.win \notin Aged \/ e.ttl = TtlPermanent) /\ ~(e.ttl >= TtlDecr)
  <2>1. Age(e) = NoRule
    BY <1>5 DEF Age
  <2>2. ~Blank(e)
    BY <1>5, RulesAssumption DEF Blank
  <2>3. QED BY <1>2, <2>1, <2>2
<1>6. QED BY <1>3, <1>4, <1>5

\* The steps of one thread leave the other where it is.
LEMMA OthersStay ==
  ASSUME TypeOK, NEW t \in Threads, NEW a \in At, NEW tab, GoOn(t, a, tab)
  PROVE  /\ at' \in [Threads -> At]
         /\ at'[t] = a
         /\ \A u \in Threads \ {t} :
               /\ at'[u].op = at[u].op
               /\ at[u].op # "lookup" => at'[u] = at[u]
<1>1. at \in [Threads -> At]
  BY DEF TypeOK
<1>2. ASSUME NEW u \in Threads, at[u].op = "lookup"
      PROVE  LET x == [at[u] EXCEPT !.stayed = {i \in @ : SameWindows(tab[i], flowTable[i])}]
             IN  x \in At /\ x.op = "lookup"
  <2>1. at[u] \in [op : {"lookup"}, packet : Packets, j : Slots, stayed : SUBSET Slots]
    BY <1>1, <1>2 DEF At, Idle
  <2> DEFINE kept == {i \in at[u].stayed : SameWindows(tab[i], flowTable[i])}
  <2>2. kept \in SUBSET Slots
    BY <2>1
  <2> HIDE DEF kept
  <2>3. [at[u] EXCEPT !.stayed = kept]
           \in [op : {"lookup"}, packet : Packets, j : Slots, stayed : SUBSET Slots]
    BY <2>1, <2>2
  <2>4. QED BY <2>3 DEF At, kept
<1>3. QED BY <1>1, <1>2 DEF GoOn

LEMMA AtFields ==
  ASSUME TypeOK, NEW t \in Threads
  PROVE  /\ at[t].op = "search" => at[t].rule \in Rule /\ at[t].i \in Slots
         /\ at[t].op = "claim" => at[t].rule \in Rule
         /\ Writing(t) => at[t].rule \in Rule /\ at[t].pos \in Nat
         /\ at[t].op = "lookup" => at[t].packet \in Packets /\ at[t].j \in Slots
                                   /\ at[t].stayed \in SUBSET Slots
         /\ at[t].op \in {"age", "blank"} => at[t].i \in Slots
BY DEF TypeOK, At, Idle, Writing

LEMMA SlotWritten ==
  ASSUME TypeOK, NEW i, NEW e \in Entry, SetSlot(i, e)
  PROVE  /\ flowTable' \in [Slots -> Entry]
         /\ \A k \in Slots : flowTable'[k] = IF k = i THEN e ELSE flowTable[k]
BY DEF TypeOK, SetSlot

------------------------------------------------------------------------------
(* Type correctness *)

LEMMA InitTyped == Init => TypeOK
<1> SUFFICES ASSUME Init PROVE TypeOK
  OBVIOUS
<1>1. PICK w \in Aged, a \in Actions :
        flowTable = [i \in Slots |-> IF i = 0 THEN [Fresh(w, a) EXCEPT !.ttl = TtlPermanent]
                                     ELSE NoRule]
  BY DEF Init
<1>2. [Fresh(w, a) EXCEPT !.ttl = TtlPermanent] \in Entry
  BY RulesAssumption DEF Fresh, Entry
<1>3. flowTable \in [Slots -> Entry]
  BY <1>1, <1>2, RulesAreEntries
<1>4. QED BY <1>3 DEF Init, TypeOK, At

LEMMA InsertTyped ==
  ASSUME TypeOK, NEW t \in Threads,
         StartInsert(t) \/ Search(t) \/ Claim(t) \/ Bump(t) \/ Wrap(t) \/ Set(t)
  PROVE  TypeOK'
<1>1. flowTable \in [Slots -> Entry] /\ flow_table_free_pos \in Nat
      /\ overlapped \in BOOLEAN /\ wrapped \in BOOLEAN
  BY DEF TypeOK
<1>2. CASE StartInsert(t)
  <2>1. PICK r \in Rule : GoOn(t, [op |-> "search", rule |-> r, i |-> 0], flowTable)
    BY <1>2 DEF StartInsert
  <2>2. [op |-> "search", rule |-> r, i |-> 0] \in At
    BY RulesAreEntries DEF At
  <2>3. at' \in [Threads -> At]
    BY <2>1, <2>2, OthersStay
  <2>4. overlapped' \in BOOLEAN
    BY <1>2, <1>1 DEF StartInsert
  <2>5. QED BY <1>1, <1>2, <2>3, <2>4 DEF StartInsert, TypeOK
<1>3. CASE Search(t)
  <2> DEFINE r == at[t].rule
             i == at[t].i
             a == IF SameWindows(flowTable[i], r) THEN [op |-> "set", rule |-> r, pos |-> i]
                  ELSE IF i < LastSlot THEN [at[t] EXCEPT !.i = @ + 1]
                  ELSE [op |-> "claim", rule |-> r]
  <2>1. at[t] \in [op : {"search"}, rule : Rule, i : Slots]
    BY <1>3 DEF Search, TypeOK, At, Idle
  <2>2. i \in Nat /\ r \in Rule /\ (i < LastSlot => i + 1 \in Slots)
    BY <2>1, RulesAssumption DEF Slots, LastSlot
  <2>3. i < LastSlot => [at[t] EXCEPT !.i = @ + 1] \in [op : {"search"}, rule : Rule, i : Slots]
    BY <2>1, <2>2
  <2>4. a \in At
    BY <2>2, <2>3 DEF At
  <2>5. GoOn(t, a, flowTable)
    BY <1>3 DEF Search
  <2> HIDE DEF a
  <2>6. at' \in [Threads -> At]
    BY <2>4, <2>5, OthersStay
  <2>7. QED BY <1>1, <1>3, <2>6 DEF Search, TypeOK
<1>4. CASE Claim(t)
  <2>1. [op |-> "bump", rule |-> at[t].rule, pos |-> flow_table_free_pos] \in At
    BY <1>1, <1>4, AtFields DEF Claim, At
  <2>2. at' \in [Threads -> At]
    BY <1>4, <2>1, OthersStay DEF Claim
  <2>3. QED BY <1>1, <1>4, <2>2 DEF Claim, TypeOK
<1>5. \A o \in {"wrap", "set"} : Writing(t) => [at[t] EXCEPT !.op = o] \in At
  BY DEF Writing, TypeOK, At, Idle
<1>6. CASE Bump(t)
  <2>1. at' \in [Threads -> At]
    BY <1>5, <1>6, OthersStay DEF Bump, Writing
  <2>2. flow_table_free_pos' \in Nat
    BY <1>1, <1>6 DEF Bump
  <2>3. QED BY <1>1, <1>6, <2>1, <2>2 DEF Bump, TypeOK
<1>7. CASE Wrap(t)
  <2>1. at' \in [Threads -> At]
    BY <1>5, <1>7, OthersStay DEF Wrap, Writing
  <2>2. flow_table_free_pos' \in Nat /\ wrapped' \in BOOLEAN
    <3>1. \/ flow_table_free_pos' = 1 /\ wrapped' = TRUE
          \/ flow_table_free_pos' = flow_table_free_pos /\ wrapped' = wrapped
      BY <1>7 DEF Wrap, RingStart
    <3>2. CASE flow_table_free_pos' = 1 /\ wrapped' = TRUE
      BY <3>2
    <3>3. CASE flow_table_free_pos' = flow_table_free_pos /\ wrapped' = wrapped
      BY <1>1, <3>3
    <3>4. QED BY <3>1, <3>2, <3>3
  <2>3. QED BY <1>1, <1>7, <2>1, <2>2 DEF Wrap, TypeOK
<1>8. CASE Set(t)
  <2>1. at' \in [Threads -> At]
    BY <1>8, OthersStay DEF Set, At
  <2>2. flowTable' \in [Slots -> Entry]
    BY <1>8, AtFields, RulesAreEntries, SlotWritten DEF Set, Writing
  <2>3. QED BY <1>1, <1>8, <2>1, <2>2 DEF Set, TypeOK
<1>9. QED BY <1>2, <1>3, <1>4, <1>6, <1>7, <1>8

LEMMA LookupTyped ==
  ASSUME TypeOK, NEW t \in Threads, StartLookup(t) \/ Lookup(t) \/ ActOrAsk(t)
  PROVE  TypeOK'
<1>1. UNCHANGED <<flowTable, flow_table_free_pos, overlapped, wrapped>>
  BY DEF StartLookup, Lookup, ActOrAsk
<1>2. \E a \in At : GoOn(t, a, flowTable)
  <2>1. CASE StartLookup(t)
    <3>1. PICK p \in Packets :
            GoOn(t, [op |-> "lookup", packet |-> p, j |-> 0,
                     stayed |-> {i \in Slots : MatchRule(flowTable[i], p)}], flowTable)
      BY <2>1 DEF StartLookup
    <3> DEFINE hits == {i \in Slots : MatchRule(flowTable[i], p)}
    <3>2. hits \in SUBSET Slots
      OBVIOUS
    <3>3. GoOn(t, [op |-> "lookup", packet |-> p, j |-> 0, stayed |-> hits], flowTable)
      BY <3>1
    <3> HIDE DEF hits
    <3>4. [op |-> "lookup", packet |-> p, j |-> 0, stayed |-> hits] \in At
      BY <3>2, RulesAreEntries DEF At
    <3>5. QED BY <3>3, <3>4
  <2>2. CASE Lookup(t)
    <3> DEFINE p == at[t].packet
               i == ActualFlowIndex(at[t].j)
               a == IF MatchRule(flowTable[i], p) THEN [op |-> "act", packet |-> p, i |-> i]
                    ELSE IF at[t].j < RlsMax - 1 THEN [at[t] EXCEPT !.j = @ + 1]
                    ELSE [op |-> "ask", missed |-> at[t].stayed \ Claimed]
    <3>1. at[t] \in [op : {"lookup"}, packet : Packets, j : Slots, stayed : SUBSET Slots]
      BY <2>2 DEF Lookup, TypeOK, At, Idle
    <3>2. at[t].j < RlsMax - 1 => at[t].j + 1 \in Slots
      BY <3>1, RulesAssumption DEF Slots
    <3>3. at[t].j < RlsMax - 1 =>
            [at[t] EXCEPT !.j = @ + 1]
               \in [op : {"lookup"}, packet : Packets, j : Slots, stayed : SUBSET Slots]
      BY <3>1, <3>2
    <3>4. i \in Slots /\ GoOn(t, a, flowTable)
      BY <2>2 DEF Lookup
    <3>5. p \in Packets /\ (at[t].stayed \ Claimed) \in SUBSET Slots
      BY <3>1
    <3>6. a \in At
      <4> HIDE DEF i, p
      <4> QED BY <3>3, <3>4, <3>5 DEF At
    <3>7. QED BY <3>4, <3>6
  <2>3. CASE ActOrAsk(t)
    BY <2>3 DEF ActOrAsk, At
  <2>4. QED BY <2>1, <2>2, <2>3
<1>3. at' \in [Threads -> At]
  BY <1>2, OthersStay
<1>4. QED BY <1>1, <1>3 DEF TypeOK

LEMMA RemovalTyped ==
  ASSUME TypeOK, RemoveRuleIndex \/ StartUpdate \/ AgeSlot \/ BlankSlot
  PROVE  TypeOK'
<1>1. UNCHANGED <<flow_table_free_pos, overlapped, wrapped>>
  BY DEF RemoveRuleIndex, StartUpdate, AgeSlot, BlankSlot
<1>2. NoRule \in Entry /\ Idle \in At /\ 0 \in Slots
  BY RulesAreEntries DEF At
<1>3. \A i \in Slots : AfterSlot(i) \in At
  BY <1>2, RulesAssumption DEF AfterSlot, At, Slots
<1>4. CASE RemoveRuleIndex
  <2>1. flowTable' \in [Slots -> Entry]
    BY <1>2, <1>4, SlotWritten DEF RemoveRuleIndex
  <2>2. at' \in [Threads -> At]
    BY <1>2, <1>4, OthersStay DEF RemoveRuleIndex, Threads
  <2>3. QED BY <1>1, <2>1, <2>2 DEF TypeOK
<1>5. CASE StartUpdate
  <2>1. [op |-> "age", i |-> 0] \in At
    BY <1>2 DEF At
  <2>2. at' \in [Threads -> At]
    BY <1>5, <2>1, OthersStay DEF StartUpdate, Threads
  <2>3. QED BY <1>1, <1>5, <2>2 DEF StartUpdate, TypeOK
<1>6. CASE AgeSlot
  <2> DEFINE i == at["simulator"].i
             a == Age(flowTable[i])
             expired == ~Blank(flowTable[i]) /\ Blank(a)
  <2>1. i \in Slots
    BY <1>6, AtFields DEF AgeSlot, Threads
  <2>2. a \in Entry
    BY <2>1, AgedEntry DEF TypeOK
  <2>3. /\ IF expired THEN UNCHANGED flowTable ELSE SetSlot(i, a)
        /\ GoOn("simulator", IF expired THEN [op |-> "blank", i |-> i] ELSE AfterSlot(i), flowTable')
    BY <1>6 DEF AgeSlot
  <2> HIDE DEF i, a
  <2>4. flowTable' \in [Slots -> Entry]
    BY <2>2, <2>3, SlotWritten DEF TypeOK
  <2>5. (IF expired THEN [op |-> "blank", i |-> i] ELSE AfterSlot(i)) \in At
    BY <1>3, <2>1 DEF At
  <2> HIDE DEF expired
  <2>6. at' \in [Threads -> At]
    BY <2>3, <2>5, OthersStay DEF Threads
  <2>7. QED BY <1>1, <2>4, <2>6 DEF TypeOK
<1>7. CASE BlankSlot
  <2>1. at["simulator"].i \in Slots
    BY <1>7, AtFields DEF BlankSlot, Threads
  <2>2. flowTable' \in [Slots -> Entry]
    BY <1>2, <1>7, SlotWritten DEF BlankSlot
  <2>3. at' \in [Threads -> At]
    BY <1>3, <1>7, <2>1, OthersStay DEF BlankSlot, Threads
  <2>4. QED BY <1>1, <2>2, <2>3 DEF TypeOK
<1>8. QED BY <1>4, <1>5, <1>6, <1>7

LEMMA StepTyped == TypeOK /\ [Next]_vars => TypeOK'
<1> SUFFICES ASSUME TypeOK, [Next]_vars PROVE TypeOK'
  OBVIOUS
<1>1. CASE Next
  BY <1>1, InsertTyped, LookupTyped, RemovalTyped DEF Next
<1>2. CASE UNCHANGED vars
  BY <1>2 DEF TypeOK, vars
<1>3. QED BY <1>1, <1>2

(***************************************************************************)
(* Whatever the two threads do to each other, the table holds entries, and *)
(* each time to live stays a byte.                                         *)
(***************************************************************************)
THEOREM TypeCorrect == Spec => []TypeOK
<1>1. QED BY InitTyped, StepTyped, PTL DEF Spec

------------------------------------------------------------------------------
(* One insertion at a time keeps the table sound. *)

\* The table loses rules at most, and no thread gets further with an insertion.
LEMMA ShrinkingSound ==
  ASSUME TypeOK, SoundInv,
         UNCHANGED <<flow_table_free_pos, overlapped>>,
         \A k \in Slots : SameWindows(flowTable'[k], flowTable[k]) \/ Blank(flowTable'[k]),
         \A u \in Threads : \/ at'[u] = at[u]
                            \/ ~Inserting(u) /\ ~Inserting(u)'
  PROVE  SoundInv'
<1> SUFFICES ASSUME ~overlapped PROVE SoundInv'
  BY DEF SoundInv
<1>1. OneInserts /\ PassedDiffers /\ NewRuleNowhere /\ OnlyWhereWritten /\ FreeInRing /\ StoredOnce
  BY DEF SoundInv
<1>2. \A u \in Threads : Inserting(u) \/ Inserting(u)' => at'[u] = at[u]
  OBVIOUS
<1>3. \A r \in Rule, k \in Slots : ~SameWindows(flowTable[k], r) => ~SameWindows(flowTable'[k], r)
  BY RulesAreEntries DEF SameWindows, Blank
<1>4. OneInserts'
  BY <1>1, <1>2 DEF OneInserts, Inserting
<1>5. PassedDiffers'
  BY <1>1, <1>2, <1>3, AtFields DEF PassedDiffers, Inserting, Ring
<1>6. NewRuleNowhere'
  BY <1>1, <1>2, <1>3, AtFields DEF NewRuleNowhere, Nowhere, Inserting, Ring
<1>7. OnlyWhereWritten'
  BY <1>1, <1>2, <1>3, AtFields DEF OnlyWhereWritten, Nowhere, Writing, Inserting, Ring
<1>8. FreeInRing'
  BY <1>1, <1>2 DEF FreeInRing, Inserting
<1>9. StoredOnce'
  BY <1>1 DEF StoredOnce, Ring, SameWindows, Blank
<1>10. QED BY <1>4, <1>5, <1>6, <1>7, <1>8, <1>9 DEF SoundInv

\* What takes rules out: a thread that is not inserting leaves each slot with its
\* windows, or blank.
LEMMA Removes ==
  ASSUME TypeOK, RemoveRuleIndex \/ StartUpdate \/ AgeSlot \/ BlankSlot
  PROVE  /\ UNCHANGED <<flow_table_free_pos, overlapped>>
         /\ \A i \in Slots : SameWindows(flowTable'[i], flowTable[i]) \/ Blank(flowTable'[i])
         /\ \E t \in Threads, a \in At :
               GoOn(t, a, flowTable') /\ ~Inserting(t) /\ a.op \in {"idle", "age", "blank"}
<1>1. UNCHANGED <<flow_table_free_pos, overlapped>>
  BY DEF RemoveRuleIndex, StartUpdate, AgeSlot, BlankSlot
<1>2. NoRule \in Entry /\ Idle \in At /\ 0 \in Slots /\ Blank(NoRule)
  BY RulesAreEntries DEF At
<1>3. \A i : i \in Slots => AfterSlot(i) \in At /\ AfterSlot(i).op \in {"age", "idle"}
  BY <1>2, RulesAssumption DEF AfterSlot, At, Slots, Idle
<1>4. ASSUME NEW t \in Threads, NEW a \in At, GoOn(t, a, flowTable'), ~Inserting(t),
             a.op \in {"idle", "age", "blank"},
             \A i \in Slots : SameWindows(flowTable'[i], flowTable[i]) \/ Blank(flowTable'[i])
      PROVE  /\ \A i \in Slots : SameWindows(flowTable'[i], flowTable[i]) \/ Blank(flowTable'[i])
             /\ \E u \in Threads, b \in At :
                   GoOn(u, b, flowTable') /\ ~Inserting(u) /\ b.op \in {"idle", "age", "blank"}
  BY <1>4
<1>5. CASE RemoveRuleIndex
  <2>1. \A k \in Slots : SameWindows(flowTable'[k], flowTable[k]) \/ Blank(flowTable'[k])
    BY <1>2, <1>5, SlotWritten DEF RemoveRuleIndex, SameWindows
  <2>2. ~Inserting("manager") /\ GoOn("manager", Idle, flowTable') /\ Idle.op = "idle"
    BY <1>5 DEF RemoveRuleIndex, Inserting, Idle
  <2>3. QED BY <1>1, <1>2, <1>4, <2>1, <2>2 DEF Threads
<1>6. CASE StartUpdate
  <2>1. [op |-> "age", i |-> 0] \in At
    BY <1>2 DEF At
  <2>2. ~Inserting("simulator") /\ GoOn("simulator", [op |-> "age", i |-> 0], flowTable')
    BY <1>6 DEF StartUpdate, Inserting, Idle, GoOn
  <2>3. \A k \in Slots : SameWindows(flowTable'[k], flowTable[k])
    BY <1>6 DEF StartUpdate, SameWindows
  <2>4. QED BY <1>1, <1>4, <2>1, <2>2, <2>3 DEF Threads
<1>7. CASE AgeSlot
  <2> DEFINE i == at["simulator"].i
             a == Age(flowTable[i])
             expired == ~Blank(flowTable[i]) /\ Blank(a)
             next == IF expired THEN [op |-> "blank", i |-> i] ELSE AfterSlot(i)
  <2>1. i \in Slots /\ at["simulator"].op = "age" /\ "simulator" \in Threads
    BY <1>7, AtFields DEF AgeSlot, Threads
  <2>2. a \in Entry /\ (~Blank(a) => a.win = flowTable[i].win)
    BY <2>1, AgedEntry DEF TypeOK
  <2>3. /\ IF expired THEN UNCHANGED flowTable ELSE SetSlot(i, a)
        /\ GoOn("simulator", next, flowTable')
    BY <1>7 DEF AgeSlot
  <2>4. next \in At /\ next.op \in {"idle", "age", "blank"}
    BY <1>3, <2>1 DEF At
  <2> HIDE DEF i, a, next, expired
  <2>5. \A k \in Slots : SameWindows(flowTable'[k], flowTable[k]) \/ Blank(flowTable'[k])
    BY <2>2, <2>3, SlotWritten DEF SameWindows
  <2>6. ~Inserting("simulator")
    BY <2>1 DEF Inserting
  <2>7. QED BY <1>1, <1>4, <2>1, <2>3, <2>4, <2>5, <2>6
<1>8. CASE BlankSlot
  <2>1. at["simulator"].i \in Slots /\ at["simulator"].op = "blank" /\ "simulator" \in Threads
    BY <1>8, AtFields DEF BlankSlot, Threads
  <2>2. \A k \in Slots : SameWindows(flowTable'[k], flowTable[k]) \/ Blank(flowTable'[k])
    BY <1>2, <1>8, SlotWritten DEF BlankSlot, SameWindows
  <2>3. GoOn("simulator", AfterSlot(at["simulator"].i), flowTable')
    BY <1>8 DEF BlankSlot
  <2>4. AfterSlot(at["simulator"].i) \in At /\ AfterSlot(at["simulator"].i).op \in {"age", "idle"}
    BY <1>3, <2>1
  <2>5. ~Inserting("simulator")
    BY <2>1 DEF Inserting
  <2>6. QED BY <1>1, <1>4, <2>1, <2>2, <2>3, <2>4, <2>5
<1>9. QED BY <1>1, <1>5, <1>6, <1>7, <1>8

LEMMA RemovalSound ==
  ASSUME TypeOK, SoundInv, RemoveRuleIndex \/ StartUpdate \/ AgeSlot \/ BlankSlot
  PROVE  SoundInv'
<1>1. /\ UNCHANGED <<flow_table_free_pos, overlapped>>
      /\ \A i \in Slots : SameWindows(flowTable'[i], flowTable[i]) \/ Blank(flowTable'[i])
  BY Removes
<1>2. PICK t \in Threads, a \in At :
        GoOn(t, a, flowTable') /\ ~Inserting(t) /\ a.op \in {"idle", "age", "blank"}
  BY Removes
<1>3. \A u \in Threads : at'[u] = at[u] \/ (~Inserting(u) /\ ~Inserting(u)')
  BY <1>2, OthersStay DEF Inserting
<1>4. QED BY <1>1, <1>3, ShrinkingSound

LEMMA LookupSound ==
  ASSUME TypeOK, SoundInv, NEW t \in Threads, StartLookup(t) \/ Lookup(t) \/ ActOrAsk(t)
  PROVE  SoundInv'
<1>1. UNCHANGED <<flowTable, flow_table_free_pos, overlapped>>
  BY DEF StartLookup, Lookup, ActOrAsk
<1>2. ~Inserting(t) /\ ~Inserting(t)'
  <2>1. at \in [Threads -> At]
    BY DEF TypeOK
  <2>2. at[t].op \in {"idle", "lookup", "act", "ask"}
    BY DEF StartLookup, Lookup, ActOrAsk, Idle
  <2>3. at'[t].op \in {"idle", "lookup", "act", "ask"}
    <3>1. CASE StartLookup(t)
      BY <2>1, <3>1 DEF StartLookup, GoOn
    <3>2. CASE Lookup(t)
      <4> DEFINE next == IF MatchRule(flowTable[ActualFlowIndex(at[t].j)], at[t].packet)
                         THEN [op |-> "act", packet |-> at[t].packet, i |-> ActualFlowIndex(at[t].j)]
                         ELSE IF at[t].j < RlsMax - 1 THEN [at[t] EXCEPT !.j = @ + 1]
                         ELSE [op |-> "ask", missed |-> at[t].stayed \ Claimed]
      <4>1. at[t] \in [op : {"lookup"}, packet : Packets, j : Slots, stayed : SUBSET Slots]
        BY <2>1, <3>2 DEF Lookup, At, Idle
      <4>2. [at[t] EXCEPT !.j = @ + 1].op = "lookup"
        BY <4>1
      <4>3. next.op \in {"lookup", "act", "ask"}
        BY <4>2
      <4>4. GoOn(t, next, flowTable)
        BY <3>2 DEF Lookup
      <4> HIDE DEF next
      <4>5. at'[t] = next
        BY <4>4 DEF GoOn
      <4>6. QED BY <4>3, <4>5
    <3>3. CASE ActOrAsk(t)
      BY <2>1, <3>3 DEF ActOrAsk, Idle, GoOn
    <3>4. QED BY <3>1, <3>2, <3>3
  <2>4. QED BY <2>2, <2>3 DEF Inserting
<1>3. \A u \in Threads \ {t} : at'[u] = at[u] \/ (~Inserting(u) /\ ~Inserting(u)')
  <2>1. SUFFICES ASSUME NEW u \in Threads \ {t}, Inserting(u) \/ Inserting(u)'
                 PROVE  at'[u] = at[u]
    OBVIOUS
  <2>2. at'[u] = IF at[u].op # "lookup" THEN at[u]
                 ELSE [at[u] EXCEPT !.stayed = {i \in @ : SameWindows(flowTable[i], flowTable[i])}]
    BY DEF StartLookup, Lookup, ActOrAsk, GoOn
  <2>3. at[u].op = "lookup" => at'[u].op = "lookup"
    BY <2>2 DEF TypeOK, At, Idle
  <2>4. QED BY <2>1, <2>2, <2>3 DEF Inserting
<1>4. QED BY <1>1, <1>2, <1>3, ShrinkingSound DEF SameWindows

\* While t inserts nobody else does: what the others are at says nothing.
LEMMA OnlyInserter ==
  ASSUME TypeOK, SoundInv, ~overlapped, NEW t \in Threads, Inserting(t),
         NEW a \in At, NEW tab, GoOn(t, a, tab)
  PROVE  \A u \in Threads \ {t} : ~Inserting(u) /\ ~Inserting(u)'
BY OthersStay DEF SoundInv, OneInserts, Inserting

LEMMA InsertSound ==
  ASSUME TypeOK, TypeOK', SoundInv, NEW t \in Threads,
         StartInsert(t) \/ Search(t) \/ Claim(t) \/ Bump(t) \/ Wrap(t) \/ Set(t)
  PROVE  SoundInv'
<1> SUFFICES ASSUME ~overlapped' PROVE SoundInv'
  BY DEF SoundInv
<1>1. ~overlapped /\ overlapped \in BOOLEAN
  BY DEF StartInsert, Search, Claim, Bump, Wrap, Set, TypeOK
<1>2. OneInserts /\ PassedDiffers /\ NewRuleNowhere /\ OnlyWhereWritten /\ FreeInRing /\ StoredOnce
  BY <1>1 DEF SoundInv
<1>3. \A r \in Rule : ~Blank(r)
  BY RulesAreEntries
\* It is enough to look at t.
<1>4. ASSUME \A u \in Threads \ {t} : ~Inserting(u)',
             at'[t].op = "search" =>
                \A k \in Ring : k < at'[t].i => ~SameWindows(flowTable'[k], at'[t].rule),
             at'[t].op = "claim" => \A k \in Ring : ~SameWindows(flowTable'[k], at'[t].rule),
             Writing(t)' => at'[t].pos \in Slots /\ (at'[t].pos # 0 =>
                \A k \in Ring \ {at'[t].pos} : ~SameWindows(flowTable'[k], at'[t].rule)),
             FreeInRing', StoredOnce'
      PROVE  SoundInv'
  <2>1. OneInserts'
    BY <1>4 DEF OneInserts
  <2>2. PassedDiffers'
    BY <1>4 DEF PassedDiffers, Inserting
  <2>3. NewRuleNowhere'
    BY <1>4 DEF NewRuleNowhere, Nowhere, Inserting
  <2>4. OnlyWhereWritten'
    BY <1>4 DEF OnlyWhereWritten, Nowhere, Inserting, Writing
  <2>5. QED BY <1>4, <2>1, <2>2, <2>3, <2>4 DEF SoundInv
<1>5. at \in [Threads -> At]
  BY DEF TypeOK
<1>6. CASE StartInsert(t)
  <2>1. PICK r \in Rule : GoOn(t, [op |-> "search", rule |-> r, i |-> 0], flowTable)
    BY <1>6 DEF StartInsert
  <2>2. \A u \in Threads : ~Inserting(u)
    BY <1>6 DEF StartInsert
  <2>3. [op |-> "search", rule |-> r, i |-> 0] \in At
    BY RulesAreEntries DEF At
  <2>4. at'[t] = [op |-> "search", rule |-> r, i |-> 0] /\ \A u \in Threads \ {t} : ~Inserting(u)'
    BY <2>1, <2>2, <2>3, OthersStay DEF Inserting
  <2>5. FreeInRing' /\ StoredOnce'
    BY <1>2, <1>6, <2>2 DEF StartInsert, FreeInRing, StoredOnce, Inserting
  <2>6. \A k \in Ring : ~(k < 0)
    BY RulesAssumption DEF Ring, Slots
  <2>7. QED BY <1>4, <2>4, <2>5, <2>6 DEF Writing
<1>7. CASE Search(t)
  <2> DEFINE r == at[t].rule
             i == at[t].i
  <2>1. r \in Rule /\ i \in Slots /\ at[t].op = "search" /\ Inserting(t)
    BY <1>7, AtFields DEF Search, Inserting
  <2>2. UNCHANGED <<flowTable, flow_table_free_pos>>
    BY <1>7 DEF Search
  <2>3. \A k \in Ring : k < i => ~SameWindows(flowTable[k], r)
    BY <1>2, <2>1 DEF PassedDiffers
  <2>4. at[t] \in [op : {"search"}, rule : Rule, i : Slots]
    BY <1>5, <2>1 DEF At, Idle
  <2>5. CASE SameWindows(flowTable[i], r)
    <3>1. GoOn(t, [op |-> "set", rule |-> r, pos |-> i], flowTable)
      BY <1>7, <2>5 DEF Search
    <3>2. [op |-> "set", rule |-> r, pos |-> i] \in At
      BY <2>1 DEF At, Slots
    <3>3. at'[t] = [op |-> "set", rule |-> r, pos |-> i]
          /\ \A u \in Threads \ {t} : ~Inserting(u) /\ ~Inserting(u)'
      BY <1>1, <2>1, <3>1, <3>2, OthersStay, OnlyInserter
    <3>4. i # 0 => \A k \in Ring \ {i} : ~SameWindows(flowTable[k], r)
      BY <1>2, <1>3, <2>1, <2>5 DEF StoredOnce, SameWindows, Blank, Ring
    <3>5. FreeInRing' /\ StoredOnce'
      BY <1>2, <2>1, <2>2, <3>3 DEF FreeInRing, StoredOnce, Inserting
    <3>6. QED BY <1>4, <2>1, <2>2, <3>3, <3>4, <3>5 DEF Writing
  <2>6. CASE ~SameWindows(flowTable[i], r) /\ i < LastSlot
    <3>1. GoOn(t, [at[t] EXCEPT !.i = i + 1], flowTable)
      BY <1>7, <2>6 DEF Search
    <3>2. i + 1 \in Slots /\ i \in Nat
      BY <2>1, <2>6, RulesAssumption DEF Slots, LastSlot
    <3>3. [at[t] EXCEPT !.i = i + 1] \in [op : {"search"}, rule : Rule, i : Slots]
      BY <2>4, <3>2
    <3>4. [at[t] EXCEPT !.i = i + 1] \in At
      BY <3>3 DEF At
    <3>5. at'[t] = [at[t] EXCEPT !.i = i + 1]
          /\ \A u \in Threads \ {t} : ~Inserting(u) /\ ~Inserting(u)'
      BY <1>1, <2>1, <3>1, <3>4, OthersStay, OnlyInserter
    <3>6. at'[t].op = "search" /\ at'[t].i = i + 1 /\ at'[t].rule = r
      BY <2>4, <3>5
    <3>7. \A k \in Ring : k < i + 1 => ~SameWindows(flowTable[k], r)
      BY <2>3, <2>6, <3>2 DEF Ring, Slots
    <3>8. FreeInRing' /\ StoredOnce'
      BY <1>2, <2>1, <2>2, <3>5 DEF FreeInRing, StoredOnce, Inserting
    <3>9. QED BY <1>4, <2>2, <3>5, <3>6, <3>7, <3>8 DEF Writing
  <2>7. CASE ~SameWindows(flowTable[i], r) /\ ~(i < LastSlot)
    <3>1. GoOn(t, [op |-> "claim", rule |-> r], flowTable)
      BY <1>7, <2>7 DEF Search
    <3>2. [op |-> "claim", rule |-> r] \in At
      BY <2>1 DEF At
    <3>3. at'[t] = [op |-> "claim", rule |-> r]
          /\ \A u \in Threads \ {t} : ~Inserting(u) /\ ~Inserting(u)'
      BY <1>1, <2>1, <3>1, <3>2, OthersStay, OnlyInserter
    <3>4. i = LastSlot /\ \A k \in Ring : k < LastSlot \/ k = LastSlot
      BY <2>1, <2>7, RulesAssumption DEF Slots, LastSlot, Ring
    <3>5. \A k \in Ring : ~SameWindows(flowTable[k], r)
      BY <2>3, <2>7, <3>4
    <3>6. FreeInRing' /\ StoredOnce'
      BY <1>2, <2>1, <2>2, <3>3 DEF FreeInRing, StoredOnce, Inserting
    <3>7. QED BY <1>4, <2>2, <3>3, <3>5, <3>6 DEF Writing
  <2>8. QED BY <2>5, <2>6, <2>7
<1>8. CASE Claim(t)
  <2> DEFINE a == [op |-> "bump", rule |-> at[t].rule, pos |-> flow_table_free_pos]
  <2>1. at[t].op = "claim" /\ at[t].rule \in Rule /\ Inserting(t)
    BY <1>8, AtFields DEF Claim, Inserting
  <2>2. UNCHANGED <<flowTable, flow_table_free_pos>> /\ GoOn(t, a, flowTable)
    BY <1>8 DEF Claim
  <2>3. a \in At
    BY <2>1 DEF At, TypeOK
  <2>4. at'[t] = a /\ \A u \in Threads \ {t} : ~Inserting(u) /\ ~Inserting(u)'
    BY <1>1, <2>1, <2>2, <2>3, OthersStay, OnlyInserter
  <2>5. flow_table_free_pos \in Slots
    <3>1. flow_table_free_pos # RlsMax /\ flow_table_free_pos \in 1 .. RlsMax
      BY <1>2, <2>1, <2>4 DEF FreeInRing, Inserting
    <3>2. QED BY <3>1, RulesAssumption DEF Slots
  <2>6. \A k \in Ring : ~SameWindows(flowTable[k], at[t].rule)
    BY <1>2, <2>1 DEF NewRuleNowhere, Nowhere
  <2>7. FreeInRing' /\ StoredOnce'
    BY <1>2, <2>1, <2>2, <2>4 DEF FreeInRing, StoredOnce, Inserting
  <2>8. QED BY <1>4, <2>2, <2>4, <2>5, <2>6, <2>7 DEF Writing
<1>9. ASSUME Writing(t), NEW o \in {"wrap", "set"}, GoOn(t, [at[t] EXCEPT !.op = o], flowTable),
             UNCHANGED flowTable, FreeInRing'
      PROVE  SoundInv'
  <2>1. at[t] \in [op : {"bump", "wrap", "set"}, rule : Rule, pos : Nat] /\ Inserting(t)
    BY <1>5, <1>9 DEF Writing, Inserting, At, Idle
  <2>2. [at[t] EXCEPT !.op = o] \in [op : {"bump", "wrap", "set"}, rule : Rule, pos : Nat]
    BY <2>1
  <2>3. [at[t] EXCEPT !.op = o] \in At
    BY <2>2 DEF At
  <2>4. at'[t] = [at[t] EXCEPT !.op = o] /\ \A u \in Threads \ {t} : ~Inserting(u)'
    BY <1>1, <1>9, <2>1, <2>3, OthersStay, OnlyInserter
  <2>5. at'[t].op = o /\ at'[t].rule = at[t].rule /\ at'[t].pos = at[t].pos
    BY <2>1, <2>4
  <2>6. StoredOnce'
    BY <1>2, <1>9 DEF StoredOnce
  <2>7. at[t].pos \in Slots /\ (at[t].pos # 0 =>
           \A k \in Ring \ {at[t].pos} : ~SameWindows(flowTable[k], at[t].rule))
    BY <1>2, <1>9 DEF OnlyWhereWritten, Nowhere
  <2>8. QED BY <1>4, <1>9, <2>4, <2>5, <2>6, <2>7
<1>10. CASE Bump(t)
  <2>1. Writing(t) /\ Inserting(t) /\ at[t].op = "bump"
    BY <1>10 DEF Bump, Writing, Inserting
  <2>2. GoOn(t, [at[t] EXCEPT !.op = "wrap"], flowTable) /\ UNCHANGED flowTable
        /\ flow_table_free_pos' = flow_table_free_pos + 1
    BY <1>10 DEF Bump
  <2>3. at'[t].op = "wrap"
    BY <1>5, <2>1, <2>2 DEF GoOn, At, Idle
  <2>4. flow_table_free_pos \in 1 .. RlsMax /\ flow_table_free_pos # RlsMax
    BY <1>2, <2>1 DEF FreeInRing, OneInserts, Inserting
  <2>5. FreeInRing'
    BY <2>2, <2>3, <2>4, RulesAssumption DEF FreeInRing
  <2>6. QED BY <1>9, <2>1, <2>2, <2>5
<1>11. CASE Wrap(t)
  <2>1. Writing(t)
    BY <1>11 DEF Wrap, Writing
  <2>2. GoOn(t, [at[t] EXCEPT !.op = "set"], flowTable) /\ UNCHANGED flowTable
    BY <1>11 DEF Wrap
  <2>3. flow_table_free_pos' = IF flow_table_free_pos >= RlsMax THEN 1 ELSE flow_table_free_pos
    BY <1>11 DEF Wrap, RingStart
  <2>4. FreeInRing'
    <3>1. flow_table_free_pos \in 1 .. RlsMax /\ RlsMax \in Nat /\ RlsMax >= 2
      BY <1>2, RulesAssumption DEF FreeInRing
    <3>2. flow_table_free_pos' \in 1 .. RlsMax /\ flow_table_free_pos' # RlsMax
      BY ONLY <2>3, <3>1
    <3>3. QED BY <3>2 DEF FreeInRing
  <2>5. QED BY <1>9, <2>1, <2>2, <2>4
<1>12. CASE Set(t)
  <2> DEFINE r == at[t].rule
             i == at[t].pos
  <2>1. Writing(t) /\ Inserting(t) /\ at[t].op = "set" /\ r \in Rule /\ i \in Slots
    BY <1>12, AtFields DEF Set, Writing, Inserting
  <2>2. SetSlot(i, r) /\ GoOn(t, Idle, flowTable') /\ UNCHANGED flow_table_free_pos
    BY <1>12 DEF Set
  <2>3. at'[t] = Idle /\ \A u \in Threads \ {t} : ~Inserting(u) /\ ~Inserting(u)'
    BY <1>1, <2>1, <2>2, OthersStay, OnlyInserter DEF At
  <2>4. FreeInRing'
    BY <1>2, <2>1, <2>2, <2>3 DEF FreeInRing, Inserting
  <2>5. \A k \in Slots : flowTable'[k] = IF k = i THEN r ELSE flowTable[k]
    BY <2>1, <2>2, RulesAreEntries, SlotWritten
  <2>6. StoredOnce'
    <3>1. i # 0 => \A k \in Ring \ {i} : ~SameWindows(flowTable[k], r)
      BY <1>2, <2>1 DEF OnlyWhereWritten, Nowhere
    <3> HIDE DEF r, i
    <3>2. QED BY <1>2, <2>5, <3>1 DEF StoredOnce, Ring, SameWindows, Blank
  <2>7. QED BY <1>4, <2>3, <2>4, <2>6 DEF Writing, Idle
<1>13. QED BY <1>6, <1>7, <1>8, <1>10, <1>11, <1>12

LEMMA InitSound == Init => SoundInv
<1> SUFFICES ASSUME Init PROVE SoundInv
  OBVIOUS
<1>1. \A t \in Threads : ~Inserting(t) /\ ~Writing(t)
  BY DEF Init, Inserting, Writing, Idle
<1>2. OneInserts /\ PassedDiffers /\ NewRuleNowhere /\ OnlyWhereWritten
  BY <1>1 DEF OneInserts, PassedDiffers, NewRuleNowhere, OnlyWhereWritten, Inserting
<1>3. FreeInRing
  BY RulesAssumption DEF Init, FreeInRing
<1>4. \A k \in Ring : flowTable[k] = NoRule
  BY DEF Init, Ring
<1>5. StoredOnce
  BY <1>4, RulesAreEntries DEF StoredOnce
<1>6. QED BY <1>2, <1>3, <1>5 DEF SoundInv

LEMMA StepSound == TypeOK /\ SoundInv /\ [Next]_vars => SoundInv'
<1> SUFFICES ASSUME TypeOK, SoundInv, [Next]_vars PROVE SoundInv'
  OBVIOUS
<1>1. TypeOK'
  BY StepTyped
<1>2. CASE Next
  BY <1>1, <1>2, InsertSound, LookupSound, RemovalSound DEF Next
<1>3. CASE UNCHANGED vars
  <2>1. UNCHANGED <<flowTable, flow_table_free_pos, at, overlapped, wrapped>>
    BY <1>3 DEF vars
  <2>2. \A k \in Slots : SameWindows(flowTable'[k], flowTable[k])
    BY <2>1 DEF SameWindows
  <2>3. QED BY <2>1, <2>2, ShrinkingSound
<1>4. QED BY <1>2, <1>3

(***************************************************************************)
(* Until both threads have inserted at the same time, no rule of the ring  *)
(* is stored twice and flow_table_free_pos stays in the ring, whatever     *)
(* else they do to the table at the same time.                             *)
(***************************************************************************)
THEOREM SoundTable == Spec => []TableSound
<1>1. Init => TypeOK /\ SoundInv
  BY InitTyped, InitSound
<1>2. TypeOK /\ SoundInv /\ [Next]_vars => (TypeOK /\ SoundInv)'
  BY StepTyped, StepSound
<1>3. TypeOK /\ SoundInv => TableSound
  BY DEF SoundInv, FreeInRing, StoredOnce, TableSound, Ring
<1>4. QED BY <1>1, <1>2, <1>3, PTL DEF Spec

------------------------------------------------------------------------------
(* A lookup finds what stays. *)

\* The thread that took flow_table_free_pos is the one that moves it on.
ClaimsFree ==
  \A t \in Threads : at[t].op = "bump" =>
     /\ at[t].pos = flow_table_free_pos /\ at[t].pos \in Ring
     /\ ~SameWindows(flowTable[at[t].pos], at[t].rule)

\* A lookup in its round j has the slot i still before it.
Ahead(i, j) == \E l \in Slots : l >= j /\ ActualFlowIndex(l) = i

\* An insertion is about to replace the rule in slot i by another.
Replaced(i) ==
  \E u \in Threads : Writing(u) /\ at[u].pos = i /\ ~SameWindows(flowTable[i], at[u].rule)

Finds(t) ==
  at[t].op = "lookup" =>
     \A i \in at[t].stayed :
        MatchRule(flowTable[i], at[t].packet) /\ (Ahead(i, at[t].j) \/ Replaced(i))

AsksRightly(t) == at[t].op = "ask" => at[t].missed = {}

(***************************************************************************)
(* AsksOnlyWithoutRule is a fact about the end of a lookup.  During it:    *)
(* what matches and stays is ahead, or about to be replaced.  When the     *)
(* free position moves, every slot of the ring is one round further, and   *)
(* the one that falls behind is the one that was claimed.                  *)
(***************************************************************************)
FoundInv ==
  ~overlapped => ClaimsFree /\ \A t \in Threads : Finds(t) /\ AsksRightly(t)

\* getActualFlowIndex, for the free position f
IndexAt(f, j) ==
  IF j = 0 THEN 0
  ELSE IF f - j = 0 THEN RlsMax - 1
  ELSE IF f - j < 0 THEN RlsMax - 1 + (f - j) ELSE f - j

LEMMA EverySlotHasIndex ==
  ASSUME NEW f \in 1 .. RlsMax, NEW i \in Slots
  PROVE  \E l \in Slots : l >= 0 /\ IndexAt(f, l) = i
<1>1. RlsMax \in Nat /\ RlsMax >= 2 /\ i \in 0 .. RlsMax - 1
  BY RulesAssumption DEF Slots
<1>2. CASE i = 0
  BY <1>1, <1>2 DEF IndexAt, Slots
<1>3. CASE i # 0 /\ i < f
  <2>1. f - i \in Slots /\ f - i # 0 /\ f - (f - i) = i
    BY <1>1, <1>3 DEF Slots
  <2>2. IndexAt(f, f - i) = i
    BY <1>1, <1>3, <2>1 DEF IndexAt
  <2>3. QED BY <1>1, <2>1, <2>2 DEF Slots
<1>4. CASE i # 0 /\ i >= f
  <2> DEFINE l == RlsMax - 1 - (i - f)
  <2>1. l \in Slots /\ l >= 0 /\ l # 0 /\ f - l = i - (RlsMax - 1)
    BY <1>1, <1>4 DEF Slots
  <2>2. IndexAt(f, l) = i
    BY <1>1, <1>4, <2>1 DEF IndexAt
  <2>3. QED BY <2>1, <2>2
<1>5. QED BY <1>1, <1>2, <1>3, <1>4

LEMMA IndexBumped ==
  ASSUME NEW f \in 1 .. RlsMax, f # RlsMax, NEW l \in Slots, NEW j \in Slots, l >= j
  PROVE  \/ IndexAt(f, l) = f
         \/ \E k \in Slots : k >= j /\ IndexAt(f + 1, k) = IndexAt(f, l)
<1>1. RlsMax \in Nat /\ RlsMax >= 2 /\ l \in 0 .. RlsMax - 1 /\ j \in 0 .. RlsMax - 1
  BY RulesAssumption DEF Slots
<1>2. CASE l = 0
  BY <1>2 DEF IndexAt
<1>3. CASE l # 0 /\ l = RlsMax - 1
  BY <1>1, <1>3 DEF IndexAt
<1>4. CASE l # 0 /\ l # RlsMax - 1
  <2>1. l + 1 \in Slots /\ l + 1 >= j /\ l + 1 # 0 /\ (f + 1) - (l + 1) = f - l
    BY <1>1, <1>4 DEF Slots
  <2>2. IndexAt(f + 1, l + 1) = IndexAt(f, l)
    BY <1>4, <2>1 DEF IndexAt
  <2>3. QED BY <2>1, <2>2
<1>5. QED BY <1>2, <1>3, <1>4

LEMMA IndexWrapped ==
  ASSUME NEW l \in Slots
  PROVE  IndexAt(1, l) = IndexAt(RlsMax, l)
<1>1. RlsMax \in Nat /\ RlsMax >= 2 /\ l \in 0 .. RlsMax - 1
  BY RulesAssumption DEF Slots
<1>2. QED BY <1>1 DEF IndexAt

\* A step of one thread, as a lookup of another sees it
LEMMA LookupSees ==
  ASSUME TypeOK, NEW t \in Threads, NEW a, NEW tab, GoOn(t, a, tab),
         NEW u \in Threads \ {t}, at[u].op = "lookup"
  PROVE  /\ at'[u].packet = at[u].packet /\ at'[u].j = at[u].j
         /\ at'[u].stayed = {i \in at[u].stayed : SameWindows(tab[i], flowTable[i])}
<1> DEFINE kept == {i \in at[u].stayed : SameWindows(tab[i], flowTable[i])}
<1>1. at'[u] = [at[u] EXCEPT !.stayed = kept]
  BY DEF GoOn
<1>2. at[u] \in [op : {"lookup"}, packet : Packets, j : Slots, stayed : SUBSET Slots]
  BY DEF TypeOK, At, Idle
<1> HIDE DEF kept
<1>3. QED BY <1>1, <1>2 DEF kept

\* The lookups of the others go on finding what they would find, if the table
\* and what is ahead are as the step leaves them.
LEMMA OthersFind ==
  ASSUME TypeOK, FoundInv, ~overlapped, NEW t \in Threads, NEW a \in At,
         GoOn(t, a, flowTable'),
         \A i \in Slots, j \in Slots :
            SameWindows(flowTable'[i], flowTable[i]) /\ (Ahead(i, j) \/ Replaced(i))
              => Ahead(i, j)' \/ Replaced(i)'
  PROVE  \A u \in Threads \ {t} : Finds(u)' /\ AsksRightly(u)'
<1>1. ASSUME NEW u \in Threads \ {t}, at'[u].op = "lookup", NEW i \in at'[u].stayed
      PROVE  (MatchRule(flowTable[i], at[u].packet) /\ (Ahead(i, at[u].j) \/ Replaced(i)))'
  <2>1. at[u].op = "lookup"
    BY <1>1, OthersStay
  <2>2. /\ at'[u].packet = at[u].packet /\ at'[u].j = at[u].j
        /\ i \in at[u].stayed /\ SameWindows(flowTable'[i], flowTable[i])
    BY <1>1, <2>1, LookupSees
  <2>3. MatchRule(flowTable[i], at[u].packet) /\ (Ahead(i, at[u].j) \/ Replaced(i))
    BY <2>1, <2>2 DEF FoundInv, Finds
  <2>4. i \in Slots /\ at[u].j \in Slots
    BY <2>1, <2>2, AtFields
  <2>5. (Ahead(i, at[u].j) \/ Replaced(i))'
    <3> DEFINE j == at[u].j
    <3>1. j \in Slots /\ at'[u].j = j
      BY <2>2, <2>4
    <3>2. Ahead(i, j) \/ Replaced(i)
      BY <2>3
    <3> HIDE DEF j
    <3>3. (\E l \in Slots : l >= j /\ ActualFlowIndex(l)' = i) \/ Replaced(i)'
      BY <2>2, <2>4, <3>1, <3>2 DEF Ahead
    <3>4. QED BY <3>1, <3>3 DEF Ahead
  <2>6. MatchRule(flowTable'[i], at'[u].packet)
    BY <2>2, <2>3 DEF MatchRule, SameWindows, Blank
  <2>7. QED BY <2>5, <2>6
<1>2. ASSUME NEW u \in Threads \ {t}, at'[u].op = "ask"
      PROVE  at'[u].missed = {}
  <2>1. at'[u] = at[u]
    BY <1>2, OthersStay
  <2>2. QED BY <1>2, <2>1 DEF FoundInv, AsksRightly
<1>3. QED BY <1>1, <1>2 DEF Finds, AsksRightly

\* A step that neither writes a rule nor moves the free position, and begins no
\* claim, leaves the others as they are.
LEMMA QuietStep ==
  ASSUME TypeOK, FoundInv, ~overlapped, NEW t \in Threads, NEW a \in At,
         GoOn(t, a, flowTable'), ~Writing(t), a.op # "bump",
         UNCHANGED flow_table_free_pos,
         \A i \in Slots : SameWindows(flowTable'[i], flowTable[i]) \/ Blank(flowTable'[i])
  PROVE  ClaimsFree' /\ \A u \in Threads \ {t} : Finds(u)' /\ AsksRightly(u)'
<1>1. \A u \in Threads \ {t} : Writing(u) \/ Writing(u)' => at'[u] = at[u] /\ at[u].op = at'[u].op
  BY OthersStay DEF Writing
<1>2. \A r \in Rule, i \in Slots : ~SameWindows(flowTable[i], r) => ~SameWindows(flowTable'[i], r)
  BY RulesAreEntries DEF SameWindows, Blank
<1>3. ClaimsFree'
  <2>1. SUFFICES ASSUME NEW u \in Threads, at'[u].op = "bump"
                 PROVE  /\ at'[u].pos = flow_table_free_pos' /\ at'[u].pos \in Ring
                        /\ ~SameWindows(flowTable'[at'[u].pos], at'[u].rule)
    BY DEF ClaimsFree
  <2>2. u # t
    BY <2>1, OthersStay
  <2>3. at'[u] = at[u] /\ at[u].op = "bump"
    BY <1>1, <2>1, <2>2 DEF Writing
  <2>4. /\ at[u].pos = flow_table_free_pos /\ at[u].pos \in Ring
        /\ ~SameWindows(flowTable[at[u].pos], at[u].rule)
    BY <2>3 DEF FoundInv, ClaimsFree
  <2>5. at[u].rule \in Rule
    BY <2>3, AtFields DEF Writing
  <2>6. QED BY <1>2, <2>3, <2>4, <2>5 DEF Ring
<1>4. ASSUME NEW i \in Slots, Replaced(i)
      PROVE  Replaced(i)'
  <2>1. PICK u \in Threads : /\ Writing(u) /\ at[u].pos = i
                             /\ ~SameWindows(flowTable[i], at[u].rule)
    BY <1>4 DEF Replaced
  <2>2. u # t /\ at[u].rule \in Rule
    BY <2>1, AtFields
  <2>3. at'[u] = at[u]
    BY <1>1, <2>1, <2>2
  <2>4. ~SameWindows(flowTable'[i], at'[u].rule) /\ Writing(u)' /\ at'[u].pos = i
    BY <1>2, <2>1, <2>2, <2>3 DEF Writing
  <2>5. QED BY <2>4 DEF Replaced
<1>5. \A i, j : Ahead(i, j) => Ahead(i, j)'
  BY DEF Ahead, ActualFlowIndex
<1>6. \A u \in Threads \ {t} : Finds(u)' /\ AsksRightly(u)'
  BY <1>4, <1>5, OthersFind
<1>7. QED BY <1>3, <1>6

\* A thread that neither looks up nor has just found nothing finds what it must.
LEMMA Elsewhere ==
  ASSUME TypeOK, NEW t \in Threads, NEW a \in At, NEW tab, GoOn(t, a, tab),
         a.op \notin {"lookup", "ask"}
  PROVE  Finds(t)' /\ AsksRightly(t)'
BY OthersStay DEF Finds, AsksRightly

LEMMA RemovalFound ==
  ASSUME TypeOK, FoundInv, ~overlapped,
         RemoveRuleIndex \/ StartUpdate \/ AgeSlot \/ BlankSlot
  PROVE  ClaimsFree' /\ \A u \in Threads : Finds(u)' /\ AsksRightly(u)'
<1>1. /\ UNCHANGED flow_table_free_pos
      /\ \A i \in Slots : SameWindows(flowTable'[i], flowTable[i]) \/ Blank(flowTable'[i])
  BY Removes
<1>2. PICK t \in Threads, a \in At :
        GoOn(t, a, flowTable') /\ ~Inserting(t) /\ a.op \in {"idle", "age", "blank"}
  BY Removes
<1>3. Finds(t)' /\ AsksRightly(t)'
  BY <1>2, Elsewhere
<1>4. ~Writing(t)
  BY <1>2 DEF Writing, Inserting
<1>5. ClaimsFree' /\ \A u \in Threads \ {t} : Finds(u)' /\ AsksRightly(u)'
  BY <1>1, <1>2, <1>4, QuietStep
<1>6. QED BY <1>3, <1>5

LEMMA LookupFound ==
  ASSUME TypeOK, SoundInv, FoundInv, ~overlapped, NEW t \in Threads,
         StartLookup(t) \/ Lookup(t) \/ ActOrAsk(t)
  PROVE  ClaimsFree' /\ \A u \in Threads : Finds(u)' /\ AsksRightly(u)'
<1>1. UNCHANGED <<flowTable, flow_table_free_pos>>
  BY DEF StartLookup, Lookup, ActOrAsk
<1>2. ~Writing(t)
  BY DEF StartLookup, Lookup, ActOrAsk, Writing, Idle
<1>3. ASSUME NEW a \in At, GoOn(t, a, flowTable), a.op # "bump"
      PROVE  /\ at'[t] = a
             /\ ClaimsFree' /\ \A u \in Threads \ {t} : Finds(u)' /\ AsksRightly(u)'
  <2>1. GoOn(t, a, flowTable')
    BY <1>1, <1>3
  <2>2. \A i \in Slots : SameWindows(flowTable'[i], flowTable[i])
    BY <1>1 DEF SameWindows
  <2>3. QED BY <1>1, <1>2, <1>3, <2>1, <2>2, OthersStay, QuietStep
<1>4. CASE StartLookup(t)
  <2>1. PICK p \in Packets :
          GoOn(t, [op |-> "lookup", packet |-> p, j |-> 0,
                   stayed |-> {i \in Slots : MatchRule(flowTable[i], p)}], flowTable)
    BY <1>4 DEF StartLookup
  <2> DEFINE hits == {i \in Slots : MatchRule(flowTable[i], p)}
             a == [op |-> "lookup", packet |-> p, j |-> 0, stayed |-> hits]
  <2>2. hits \in SUBSET Slots /\ \A i \in hits : MatchRule(flowTable[i], p)
    OBVIOUS
  <2>3. GoOn(t, a, flowTable)
    BY <2>1
  <2> HIDE DEF hits
  <2>4. a \in At
    BY <2>2, RulesAreEntries DEF At
  <2>5. at'[t] = a /\ ClaimsFree' /\ \A u \in Threads \ {t} : Finds(u)' /\ AsksRightly(u)'
    BY <1>3, <2>3, <2>4
  <2>6. \A i \in Slots : \E l \in Slots : l >= 0 /\ ActualFlowIndex(l) = i
    <3>1. flow_table_free_pos \in 1 .. RlsMax
      BY DEF SoundInv, FreeInRing
    <3>2. \A l : ActualFlowIndex(l) = IndexAt(flow_table_free_pos, l)
      BY DEF ActualFlowIndex, IndexAt
    <3>3. QED BY <3>1, <3>2, EverySlotHasIndex
  <2>7. \A i \in Slots : \E l \in Slots : l >= 0 /\ ActualFlowIndex(l)' = i
    BY <1>1, <2>6 DEF ActualFlowIndex
  <2>8. Finds(t)'
    <3>1. at'[t].packet = p /\ at'[t].j = 0 /\ at'[t].stayed = hits /\ at'[t].op = "lookup"
      BY <2>5
    <3>2. QED BY <1>1, <2>2, <2>7, <3>1 DEF Finds, Ahead
  <2>9. AsksRightly(t)'
    BY <2>5 DEF AsksRightly
  <2>10. QED BY <2>5, <2>8, <2>9
<1>5. CASE Lookup(t)
  <2> DEFINE p == at[t].packet
             j == at[t].j
             i == ActualFlowIndex(j)
  <2>1. /\ at[t] \in [op : {"lookup"}, packet : Packets, j : Slots, stayed : SUBSET Slots]
        /\ at[t].op = "lookup"
    BY <1>5 DEF Lookup, TypeOK, At, Idle
  <2>2. p \in Packets /\ j \in Slots /\ at[t].stayed \in SUBSET Slots /\ i \in Slots
    BY <1>5, <2>1 DEF Lookup
  <2>3. \A k \in at[t].stayed : MatchRule(flowTable[k], p) /\ (Ahead(k, j) \/ Replaced(k))
    BY <2>1 DEF FoundInv, Finds
  <2>4. CASE MatchRule(flowTable[i], p)
    <3>1. GoOn(t, [op |-> "act", packet |-> p, i |-> i], flowTable)
      BY <1>5, <2>4 DEF Lookup
    <3>2. [op |-> "act", packet |-> p, i |-> i] \in At
      BY <2>2 DEF At
    <3>3. ClaimsFree' /\ \A u \in Threads \ {t} : Finds(u)' /\ AsksRightly(u)'
      BY <1>3, <3>1, <3>2
    <3>4. Finds(t)' /\ AsksRightly(t)'
      BY <3>1, <3>2, Elsewhere
    <3>5. QED BY <3>3, <3>4
  \* The slot of this round holds none of what stays.
  <2>5. ASSUME ~MatchRule(flowTable[i], p), NEW k \in at[t].stayed, ~Replaced(k)
        PROVE  \E l \in Slots : l >= j /\ l # j /\ ActualFlowIndex(l) = k
    <3>1. k # i
      BY <2>3, <2>5
    <3>2. PICK l \in Slots : l >= j /\ ActualFlowIndex(l) = k
      BY <2>3, <2>5 DEF Ahead
    <3>3. QED BY <3>1, <3>2
  <2>6. CASE ~MatchRule(flowTable[i], p) /\ j < RlsMax - 1
    <3> DEFINE a == [at[t] EXCEPT !.j = j + 1]
    <3>1. GoOn(t, a, flowTable)
      BY <1>5, <2>6 DEF Lookup
    <3>2. j + 1 \in Slots /\ j \in Nat /\ \A l \in Slots : l >= j /\ l # j => l >= j + 1
      BY <2>2, <2>6, RulesAssumption DEF Slots
    <3>3. a \in [op : {"lookup"}, packet : Packets, j : Slots, stayed : SUBSET Slots]
          /\ a.packet = p /\ a.j = j + 1 /\ a.stayed = at[t].stayed
      BY <2>1, <3>2
    <3> HIDE DEF a
    <3>4. a \in At /\ a.op = "lookup"
      BY <3>3 DEF At
    <3>5. at'[t] = a /\ ClaimsFree' /\ \A u \in Threads \ {t} : Finds(u)' /\ AsksRightly(u)'
      BY <1>3, <3>1, <3>4
    <3>6. ASSUME NEW k \in at[t].stayed
          PROVE  MatchRule(flowTable'[k], p) /\
                 ((\E l \in Slots : l >= j + 1 /\ ActualFlowIndex(l)' = k) \/ Replaced(k)')
      <4>1. MatchRule(flowTable'[k], p)
        BY <1>1, <2>3
      <4>2. CASE Replaced(k)
        <5>1. PICK u \in Threads : /\ Writing(u) /\ at[u].pos = k
                                   /\ ~SameWindows(flowTable[k], at[u].rule)
          BY <4>2 DEF Replaced
        <5>2. u # t
          BY <1>2, <5>1
        <5>3. at'[u] = at[u]
          BY <3>1, <3>4, <5>1, <5>2, OthersStay DEF Writing
        <5>4. QED BY <1>1, <4>1, <5>1, <5>3 DEF Replaced, Writing
      <4>3. CASE ~Replaced(k)
        <5>1. \E l \in Slots : l >= j + 1 /\ ActualFlowIndex(l) = k
          BY <2>5, <2>6, <3>2, <4>3
        <5>2. \A l : ActualFlowIndex(l)' = ActualFlowIndex(l)
          BY <1>1 DEF ActualFlowIndex
        <5>3. QED BY <4>1, <5>1, <5>2
      <4>4. QED BY <4>2, <4>3
    <3>7. Finds(t)' /\ AsksRightly(t)'
      <4>1. at'[t].packet = p /\ at'[t].j = j + 1 /\ at'[t].stayed = at[t].stayed
            /\ at'[t].op = "lookup"
        BY <3>3, <3>4, <3>5
      <4> HIDE DEF p, j
      <4>2. QED BY <3>6, <4>1 DEF Finds, AsksRightly, Ahead
    <3>8. QED BY <3>5, <3>7
  <2>7. CASE ~MatchRule(flowTable[i], p) /\ ~(j < RlsMax - 1)
    <3> DEFINE gone == at[t].stayed \ Claimed
    <3>1. GoOn(t, [op |-> "ask", missed |-> gone], flowTable)
      BY <1>5, <2>7 DEF Lookup
    <3>2. \A l \in Slots : ~(l >= j /\ l # j)
      BY <2>2, <2>7, RulesAssumption DEF Slots
    <3>3. \A k \in at[t].stayed : k \in Claimed
      BY <2>5, <2>7, <3>2 DEF Replaced, Claimed, Writing
    <3>4. gone = {}
      BY <3>3
    <3>5. [op |-> "ask", missed |-> gone] \in At
      BY <3>4 DEF At
    <3> HIDE DEF gone
    <3>6. at'[t] = [op |-> "ask", missed |-> gone]
          /\ ClaimsFree' /\ \A u \in Threads \ {t} : Finds(u)' /\ AsksRightly(u)'
      BY <1>3, <3>1, <3>5
    <3>7. Finds(t)' /\ AsksRightly(t)'
      BY <3>4, <3>6 DEF Finds, AsksRightly
    <3>8. QED BY <3>6, <3>7
  <2>8. QED BY <2>4, <2>6, <2>7
<1>6. CASE ActOrAsk(t)
  <2>1. GoOn(t, Idle, flowTable) /\ Idle \in At /\ Idle.op = "idle"
    BY <1>6 DEF ActOrAsk, At, Idle
  <2>2. ClaimsFree' /\ \A u \in Threads \ {t} : Finds(u)' /\ AsksRightly(u)'
    BY <1>3, <2>1
  <2>3. Finds(t)' /\ AsksRightly(t)'
    BY <2>1, Elsewhere
  <2>4. QED BY <2>2, <2>3
<1>7. QED BY <1>4, <1>5, <1>6

LEMMA InsertFound ==
  ASSUME TypeOK, SoundInv, FoundInv, ~overlapped, ~overlapped', NEW t \in Threads,
         StartInsert(t) \/ Search(t) \/ Claim(t) \/ Bump(t) \/ Wrap(t) \/ Set(t)
  PROVE  ClaimsFree' /\ \A u \in Threads : Finds(u)' /\ AsksRightly(u)'
<1>1. /\ at \in [Threads -> At]
      /\ OneInserts /\ NewRuleNowhere /\ OnlyWhereWritten /\ FreeInRing
  BY DEF SoundInv, TypeOK
<1>2. ASSUME NEW a \in At, GoOn(t, a, flowTable'), a.op \notin {"lookup", "ask"}, ClaimsFree',
             \A i \in Slots, j \in Slots :
                SameWindows(flowTable'[i], flowTable[i]) /\ (Ahead(i, j) \/ Replaced(i))
                  => Ahead(i, j)' \/ Replaced(i)'
      PROVE  ClaimsFree' /\ \A u \in Threads : Finds(u)' /\ AsksRightly(u)'
  <2>1. Finds(t)' /\ AsksRightly(t)'
    BY <1>2, Elsewhere
  <2>2. \A u \in Threads \ {t} : Finds(u)' /\ AsksRightly(u)'
    BY <1>2, OthersFind
  <2>3. QED BY <1>2, <2>1, <2>2
<1>3. ASSUME NEW a \in At, GoOn(t, a, flowTable), a.op \in {"search", "claim", "set"}, ~Writing(t),
             UNCHANGED <<flowTable, flow_table_free_pos>>
      PROVE  ClaimsFree' /\ \A u \in Threads : Finds(u)' /\ AsksRightly(u)'
  <2>1. GoOn(t, a, flowTable') /\ \A i \in Slots : SameWindows(flowTable'[i], flowTable[i])
    BY <1>3 DEF SameWindows
  <2>2. ClaimsFree' /\ \A u \in Threads \ {t} : Finds(u)' /\ AsksRightly(u)'
    BY <1>3, <2>1, QuietStep
  <2>3. Finds(t)' /\ AsksRightly(t)'
    BY <1>3, Elsewhere
  <2>4. QED BY <2>2, <2>3
<1>4. CASE StartInsert(t)
  <2>1. PICK r \in Rule : GoOn(t, [op |-> "search", rule |-> r, i |-> 0], flowTable)
    BY <1>4 DEF StartInsert
  <2>2. [op |-> "search", rule |-> r, i |-> 0] \in At
    BY RulesAreEntries DEF At
  <2>3. ~Writing(t) /\ UNCHANGED <<flowTable, flow_table_free_pos>>
    BY <1>4 DEF StartInsert, Writing, Idle
  <2>4. QED BY <1>3, <2>1, <2>2, <2>3
<1>5. CASE Search(t)
  <2> DEFINE r == at[t].rule
             i == at[t].i
             a == IF SameWindows(flowTable[i], r) THEN [op |-> "set", rule |-> r, pos |-> i]
                  ELSE IF i < LastSlot THEN [at[t] EXCEPT !.i = i + 1]
                  ELSE [op |-> "claim", rule |-> r]
  <2>1. /\ at[t] \in [op : {"search"}, rule : Rule, i : Slots] /\ ~Writing(t)
        /\ UNCHANGED <<flowTable, flow_table_free_pos>> /\ GoOn(t, a, flowTable)
    BY <1>1, <1>5 DEF Search, At, Idle, Writing
  <2>2. i < LastSlot => i + 1 \in Slots
    BY <2>1, RulesAssumption DEF Slots, LastSlot
  <2>3. i < LastSlot => /\ [at[t] EXCEPT !.i = i + 1] \in [op : {"search"}, rule : Rule, i : Slots]
                        /\ [at[t] EXCEPT !.i = i + 1].op = "search"
    BY <2>1, <2>2
  <2>4. [op |-> "set", rule |-> r, pos |-> i] \in At /\ [op |-> "claim", rule |-> r] \in At
    BY <2>1 DEF At, Slots
  <2>5. a \in At /\ a.op \in {"search", "claim", "set"}
    BY <2>3, <2>4 DEF At
  <2> HIDE DEF a
  <2>6. QED BY <1>3, <2>1, <2>5
<1>6. ASSUME NEW a \in At, GoOn(t, a, flowTable'), UNCHANGED flowTable,
             Writing(t) => Writing(t)' /\ a.rule = at[t].rule /\ a.pos = at[t].pos,
             NEW i \in Slots, Replaced(i)
      PROVE  Replaced(i)'
  <2>1. PICK u \in Threads : /\ Writing(u) /\ at[u].pos = i
                             /\ ~SameWindows(flowTable[i], at[u].rule)
    BY <1>6 DEF Replaced
  <2>2. CASE u = t
    <3>1. at'[t] = a
      BY <1>6, OthersStay
    <3>2. QED BY <1>6, <2>1, <2>2, <3>1 DEF Replaced
  <2>3. CASE u # t
    <3>1. at'[u] = at[u]
      BY <1>6, <2>1, <2>3, OthersStay DEF Writing
    <3>2. QED BY <1>6, <2>1, <3>1 DEF Replaced, Writing
  <2>4. QED BY <2>2, <2>3
\* Nobody else is inserting while t is.
<1>7. ASSUME Inserting(t), NEW a \in At, NEW tab, GoOn(t, a, tab), a.op # "bump"
      PROVE  ClaimsFree'
  <2>1. at'[t] = a /\ \A u \in Threads \ {t} : at'[u].op # "bump"
    BY <1>1, <1>7, OthersStay DEF OneInserts, Inserting
  <2>2. QED BY <1>7, <2>1 DEF ClaimsFree
<1>8. CASE Claim(t)
  <2> DEFINE a == [op |-> "bump", rule |-> at[t].rule, pos |-> flow_table_free_pos]
  <2>1. at[t].op = "claim" /\ at[t].rule \in Rule /\ Inserting(t) /\ ~Writing(t)
    BY <1>8, AtFields DEF Claim, Inserting, Writing
  <2>2. UNCHANGED <<flowTable, flow_table_free_pos>> /\ GoOn(t, a, flowTable)
    BY <1>8 DEF Claim
  <2>3. a \in At
    BY <2>1 DEF At, TypeOK
  <2>4. at'[t] = a /\ \A u \in Threads \ {t} : at'[u].op # "bump"
    BY <1>1, <2>1, <2>2, <2>3, OthersStay DEF OneInserts, Inserting
  <2>5. flow_table_free_pos \in Ring
    <3>1. flow_table_free_pos # RlsMax /\ flow_table_free_pos \in 1 .. RlsMax
      BY <1>1, <2>1 DEF FreeInRing, OneInserts, Inserting
    <3>2. QED BY <3>1, RulesAssumption DEF Slots, Ring
  <2>6. ClaimsFree'
    <3>1. ~SameWindows(flowTable[flow_table_free_pos], at[t].rule)
      BY <1>1, <2>1, <2>5 DEF NewRuleNowhere, Nowhere
    <3>2. QED BY <2>2, <2>4, <2>5, <3>1 DEF ClaimsFree
  <2>7. \A i, j : Ahead(i, j) => Ahead(i, j)'
    BY <2>2 DEF Ahead, ActualFlowIndex
  <2>8. UNCHANGED flowTable /\ GoOn(t, a, flowTable') /\ a.op = "bump"
    BY <2>2
  <2> HIDE DEF a
  <2>9. \A i \in Slots : Replaced(i) => Replaced(i)'
    BY <1>6, <2>1, <2>3, <2>8
  <2>10. QED BY <1>2, <2>3, <2>6, <2>7, <2>8, <2>9
<1>9. ASSUME Writing(t), NEW o \in {"wrap", "set"}, GoOn(t, [at[t] EXCEPT !.op = o], flowTable),
             UNCHANGED flowTable,
             \A i \in Slots, j \in Slots : Ahead(i, j) => Ahead(i, j)' \/ Replaced(i)
      PROVE  ClaimsFree' /\ \A u \in Threads : Finds(u)' /\ AsksRightly(u)'
  <2> DEFINE a == [at[t] EXCEPT !.op = o]
  <2>1. at[t] \in [op : {"bump", "wrap", "set"}, rule : Rule, pos : Nat] /\ Inserting(t)
    BY <1>1, <1>9 DEF Writing, Inserting, At, Idle
  <2>2. a \in [op : {"bump", "wrap", "set"}, rule : Rule, pos : Nat]
        /\ a.op = o /\ a.rule = at[t].rule /\ a.pos = at[t].pos
    BY <2>1
  <2>3. GoOn(t, a, flowTable)
    BY <1>9
  <2> HIDE DEF a
  <2>4. a \in At
    BY <2>2 DEF At
  <2>5. at'[t] = a
    BY <2>3, <2>4, OthersStay
  <2>6. GoOn(t, a, flowTable')
    BY <1>9, <2>3
  <2>7. Writing(t)'
    BY <2>2, <2>5 DEF Writing
  <2>8. \A i \in Slots : Replaced(i) => Replaced(i)'
    BY <1>6, <1>9, <2>2, <2>4, <2>6, <2>7
  <2>9. ClaimsFree'
    BY <1>7, <2>1, <2>2, <2>3, <2>4
  <2>10. QED BY <1>2, <1>9, <2>2, <2>4, <2>6, <2>8, <2>9
<1>10. CASE Bump(t)
  <2> DEFINE f == flow_table_free_pos
  <2>1. Writing(t) /\ at[t].op = "bump" /\ Inserting(t)
    BY <1>10 DEF Bump, Writing, Inserting
  <2>2. GoOn(t, [at[t] EXCEPT !.op = "wrap"], flowTable) /\ UNCHANGED flowTable
        /\ flow_table_free_pos' = f + 1
    BY <1>10 DEF Bump
  <2>3. f \in 1 .. RlsMax /\ f # RlsMax
    BY <1>1, <2>1 DEF FreeInRing, OneInserts, Inserting
  <2>4. Replaced(f)
    <3>1. at[t].pos = f /\ ~SameWindows(flowTable[at[t].pos], at[t].rule)
      BY <2>1 DEF FoundInv, ClaimsFree
    <3>2. QED BY <2>1, <3>1 DEF Replaced
  <2>5. ASSUME NEW i \in Slots, NEW j \in Slots, Ahead(i, j)
        PROVE  Ahead(i, j)' \/ Replaced(i)
    <3>1. PICK l \in Slots : l >= j /\ ActualFlowIndex(l) = i
      BY <2>5 DEF Ahead
    <3>2. IndexAt(f, l) = i
      BY <3>1 DEF ActualFlowIndex, IndexAt
    <3>3. i = f \/ \E k \in Slots : k >= j /\ IndexAt(f + 1, k) = i
      <4> HIDE DEF f
      <4>1. QED BY <2>3, <3>1, <3>2, IndexBumped
    <3>4. \A k : ActualFlowIndex(k)' = IndexAt(f + 1, k)
      BY <2>2 DEF ActualFlowIndex, IndexAt
    <3>5. QED BY <2>4, <3>3, <3>4 DEF Ahead
  <2>6. QED BY <1>9, <2>1, <2>2, <2>5
<1>11. CASE Wrap(t)
  <2>1. Writing(t)
    BY <1>11 DEF Wrap, Writing
  <2>2. GoOn(t, [at[t] EXCEPT !.op = "set"], flowTable) /\ UNCHANGED flowTable
    BY <1>11 DEF Wrap
  <2>3. \A l \in Slots : ActualFlowIndex(l)' = ActualFlowIndex(l)
    <3>1. flow_table_free_pos \in 1 .. RlsMax /\ RlsMax \in Nat
      BY <1>1, RulesAssumption DEF FreeInRing
    <3>2. CASE flow_table_free_pos >= RlsMax
      <4>1. flow_table_free_pos = RlsMax /\ flow_table_free_pos' = 1
        BY <1>11, <3>1, <3>2 DEF Wrap, RingStart
      <4>2. \A l : /\ ActualFlowIndex(l) = IndexAt(RlsMax, l)
                   /\ ActualFlowIndex(l)' = IndexAt(1, l)
        BY <4>1 DEF ActualFlowIndex, IndexAt
      <4>3. QED BY <4>2, IndexWrapped
    <3>3. CASE ~(flow_table_free_pos >= RlsMax)
      BY <1>11, <3>3 DEF Wrap, ActualFlowIndex
    <3>4. QED BY <3>2, <3>3
  <2>4. \A i \in Slots, j \in Slots : Ahead(i, j) => Ahead(i, j)'
    BY <2>3 DEF Ahead
  <2>5. QED BY <1>9, <2>1, <2>2, <2>4
<1>12. CASE Set(t)
  <2> DEFINE r == at[t].rule
             i == at[t].pos
  <2>1. Writing(t) /\ Inserting(t) /\ at[t].op = "set" /\ r \in Rule /\ i \in Slots
    BY <1>12, AtFields DEF Set, Writing, Inserting
  <2>2. SetSlot(i, r) /\ GoOn(t, Idle, flowTable') /\ UNCHANGED flow_table_free_pos
    BY <1>12 DEF Set
  <2>3. Idle \in At /\ Idle.op = "idle"
    BY DEF At, Idle
  <2>4. \A k \in Slots : flowTable'[k] = IF k = i THEN r ELSE flowTable[k]
    BY <2>1, <2>2, RulesAreEntries, SlotWritten
  <2>5. ClaimsFree'
    BY <1>7, <2>1, <2>2, <2>3
  <2>6. \A k \in Slots : Replaced(k) => ~SameWindows(flowTable'[k], flowTable[k])
    <3>1. ASSUME NEW k \in Slots, Replaced(k)
          PROVE  ~SameWindows(flowTable'[k], flowTable[k])
      <4>1. PICK u \in Threads : /\ Writing(u) /\ at[u].pos = k
                                 /\ ~SameWindows(flowTable[k], at[u].rule)
        BY <3>1 DEF Replaced
      <4>2. u = t
        BY <1>1, <2>1, <4>1 DEF OneInserts, Writing, Inserting
      <4>3. QED BY <2>4, <4>1, <4>2 DEF SameWindows
    <3>2. QED BY <3>1
  <2>7. \A k, j : Ahead(k, j) => Ahead(k, j)'
    BY <2>2 DEF Ahead, ActualFlowIndex
  <2>8. QED BY <1>2, <2>2, <2>3, <2>5, <2>6, <2>7
<1>13. QED BY <1>4, <1>5, <1>8, <1>10, <1>11, <1>12

LEMMA InitFound == Init => FoundInv
<1> SUFFICES ASSUME Init PROVE FoundInv
  OBVIOUS
<1>1. \A t \in Threads : at[t].op = "idle"
  BY DEF Init, Idle
<1>2. QED BY <1>1 DEF FoundInv, ClaimsFree, Finds, AsksRightly

LEMMA StepFound ==
  ASSUME TypeOK, SoundInv, FoundInv, Next
  PROVE  FoundInv'
<1> SUFFICES ASSUME ~overlapped' PROVE ClaimsFree' /\ \A t \in Threads : Finds(t)' /\ AsksRightly(t)'
  BY DEF FoundInv
<1>1. ~overlapped
  BY DEF Next, StartInsert, Search, Claim, Bump, Wrap, Set, StartLookup, Lookup, ActOrAsk,
         RemoveRuleIndex, StartUpdate, AgeSlot, BlankSlot, TypeOK
<1>2. QED BY <1>1, InsertFound, LookupFound, RemovalFound DEF Next

(***************************************************************************)
(* Until both threads have inserted at the same time, the controller is    *)
(* asked only for a packet that no rule matched during the whole lookup,   *)
(* but for one that an insertion is replacing: that flow_table_free_pos    *)
(* and so the order of the slots moves under the lookup hides nothing.     *)
(***************************************************************************)
THEOREM FoundDespiteInsertion == Spec => []AsksOnlyWithoutRule
<1>1. Init => TypeOK /\ SoundInv /\ FoundInv
  BY InitTyped, InitSound, InitFound
<1>2. TypeOK /\ SoundInv /\ FoundInv /\ [Next]_vars => (TypeOK /\ SoundInv /\ FoundInv)'
  <2> SUFFICES ASSUME TypeOK, SoundInv, FoundInv, [Next]_vars
               PROVE  TypeOK' /\ SoundInv' /\ FoundInv'
    OBVIOUS
  <2>1. TypeOK' /\ SoundInv'
    BY StepTyped, StepSound
  <2>2. CASE Next
    BY <2>1, <2>2, StepFound
  <2>3. CASE UNCHANGED vars
    <3>1. UNCHANGED <<flowTable, flow_table_free_pos, at, overlapped>>
      BY <2>3 DEF vars
    <3>2. ClaimsFree' <=> ClaimsFree
      BY <3>1 DEF ClaimsFree
    <3>3. \A t \in Threads : (Finds(t)' <=> Finds(t)) /\ (AsksRightly(t)' <=> AsksRightly(t))
      BY <3>1 DEF Finds, AsksRightly, Ahead, ActualFlowIndex, Replaced, Writing
    <3>4. QED BY <2>1, <3>1, <3>2, <3>3 DEF FoundInv
  <2>4. QED BY <2>1, <2>2, <2>3
<1>3. FoundInv => AsksOnlyWithoutRule
  BY DEF FoundInv, AsksRightly, AsksOnlyWithoutRule
<1>4. QED BY <1>1, <1>2, <1>3, PTL DEF Spec

------------------------------------------------------------------------------
(* The actions are those of the rule that matched. *)

Unused == \A k \in Ring : k >= flow_table_free_pos => Blank(flowTable[k])

\* An insertion writes into a slot without a rule, or over its own rule.
WritesUnused(t) ==
  Writing(t) =>
    /\ Blank(flowTable[at[t].pos]) \/ SameWindows(flowTable[at[t].pos], at[t].rule)
    /\ IF at[t].op = "bump" THEN at[t].pos = flow_table_free_pos
       ELSE at[t].pos < flow_table_free_pos

\* The slot that matched is used, and what is about to be written to it is the
\* same rule.
ActsRight(t) ==
  at[t].op = "act" =>
    /\ at[t].i < flow_table_free_pos
    /\ Blank(flowTable[at[t].i]) \/ MatchRule(flowTable[at[t].i], at[t].packet)
    /\ \A u \in Threads : Writing(u) /\ at[u].pos = at[t].i =>
          SameWindows(flowTable[at[t].i], at[u].rule)

(***************************************************************************)
(* ActsByTheRuleMatched needs that a slot that matched is not written by   *)
(* another rule before its actions are read: until the ring wraps, a slot  *)
(* that is claimed has never held a rule, and so has not matched.          *)
(***************************************************************************)
ActInv ==
  ~overlapped /\ ~wrapped => Unused /\ \A t \in Threads : WritesUnused(t) /\ ActsRight(t)

LEMMA ActFields ==
  ASSUME TypeOK, SoundInv, ~overlapped, NEW t \in Threads
  PROVE  /\ at[t].op = "act" => at[t].i \in Slots /\ at[t].packet \in Packets
         /\ Writing(t) => at[t].pos \in Slots /\ at[t].rule \in Rule
         /\ flow_table_free_pos \in 1 .. RlsMax /\ flow_table_free_pos \in Nat
<1>1. at[t].op = "act" => at[t].i \in Slots /\ at[t].packet \in Packets
  BY DEF TypeOK, At, Idle
<1>2. Writing(t) => at[t].pos \in Slots /\ at[t].rule \in Rule
  BY AtFields DEF SoundInv, OnlyWhereWritten
<1>3. flow_table_free_pos \in 1 .. RlsMax /\ flow_table_free_pos \in Nat
  BY DEF SoundInv, FreeInRing, TypeOK
<1>4. QED BY <1>1, <1>2, <1>3

\* The other thread, at a step of t: the table loses rules, or gets the one t
\* writes; t goes on writing what it wrote, or begins to write its own rule or
\* the free slot.
LEMMA OtherActs ==
  ASSUME TypeOK, SoundInv, ActInv, ~overlapped, ~wrapped,
         NEW t \in Threads, NEW a \in At, GoOn(t, a, flowTable'),
         flow_table_free_pos' \in Nat, flow_table_free_pos' >= flow_table_free_pos,
         Writing(t) \/ flow_table_free_pos' = flow_table_free_pos,
         \A k \in Slots : \/ SameWindows(flowTable'[k], flowTable[k])
                          \/ Blank(flowTable'[k]) /\ ~Inserting(t)
                          \/ Writing(t) /\ at[t].pos = k /\ flowTable'[k] = at[t].rule,
         Writing(t)' => \/ Writing(t) /\ a.pos = at[t].pos /\ a.rule = at[t].rule
                        \/ SameWindows(flowTable'[a.pos], a.rule)
                        \/ a.pos >= flow_table_free_pos
  PROVE  \A u \in Threads \ {t} : WritesUnused(u)' /\ ActsRight(u)'
<1>1. /\ OneInserts /\ at'[t] = a
      /\ \A u \in Threads \ {t} : at'[u].op = at[u].op /\ (at[u].op # "lookup" => at'[u] = at[u])
  BY OthersStay DEF SoundInv
<1>2. ASSUME NEW u \in Threads \ {t}, Writing(u)'
      PROVE  WritesUnused(u)'
  <2>1. Writing(u) /\ at'[u] = at[u] /\ ~Inserting(t) /\ ~Writing(t)
    BY <1>1, <1>2 DEF Writing, OneInserts, Inserting
  <2>2. at[u].pos \in Slots /\ at[u].rule \in Rule
    BY <2>1, ActFields
  <2>3. /\ Blank(flowTable[at[u].pos]) \/ SameWindows(flowTable[at[u].pos], at[u].rule)
        /\ IF at[u].op = "bump" THEN at[u].pos = flow_table_free_pos
           ELSE at[u].pos < flow_table_free_pos
    BY <2>1 DEF ActInv, WritesUnused
  <2>4. SameWindows(flowTable'[at[u].pos], flowTable[at[u].pos]) \/ Blank(flowTable'[at[u].pos])
    BY <2>1, <2>2
  <2>5. Blank(flowTable'[at[u].pos]) \/ SameWindows(flowTable'[at[u].pos], at[u].rule)
    BY <2>3, <2>4 DEF SameWindows, Blank
  <2>6. flow_table_free_pos' = flow_table_free_pos
    BY <2>1
  <2>7. QED BY <2>1, <2>3, <2>5, <2>6 DEF WritesUnused
<1>3. ASSUME NEW u \in Threads \ {t}, at'[u].op = "act"
      PROVE  ActsRight(u)'
  <2> DEFINE i == at[u].i
  <2>1. at[u].op = "act" /\ at'[u] = at[u] /\ ~Writing(u)'
    BY <1>1, <1>3 DEF Writing
  <2>2. i \in Slots /\ flow_table_free_pos \in Nat
    BY <2>1, ActFields
  <2>3. /\ i < flow_table_free_pos
        /\ Blank(flowTable[i]) \/ MatchRule(flowTable[i], at[u].packet)
        /\ Writing(t) /\ at[t].pos = i => SameWindows(flowTable[i], at[t].rule)
    BY <2>1 DEF ActInv, ActsRight
  <2>4. i < flow_table_free_pos'
    <3>1. i \in Nat
      BY <2>2, RulesAssumption DEF Slots
    <3> HIDE DEF i
    <3>2. QED BY <2>2, <2>3, <3>1
  <2>5. SameWindows(flowTable'[i], flowTable[i]) \/ (Blank(flowTable'[i]) /\ ~Inserting(t))
    BY <2>2, <2>3 DEF SameWindows
  <2>6. Blank(flowTable'[i]) \/ MatchRule(flowTable'[i], at[u].packet)
    BY <2>3, <2>5 DEF SameWindows, Blank, MatchRule
  <2>7. ASSUME Writing(t)', a.pos = i
        PROVE  SameWindows(flowTable'[i], a.rule)
    <3>1. CASE Writing(t) /\ a.pos = at[t].pos /\ a.rule = at[t].rule
      <4>1. SameWindows(flowTable'[i], flowTable[i])
        BY <2>5, <3>1 DEF Writing, Inserting
      <4>2. QED BY <2>3, <2>7, <3>1, <4>1 DEF SameWindows
    <3>2. ~(a.pos >= flow_table_free_pos)
      <4>1. i \in Nat
        BY <2>2, RulesAssumption DEF Slots
      <4> HIDE DEF i
      <4>2. QED BY <2>2, <2>3, <2>7, <4>1
    <3>3. QED BY <2>7, <3>1, <3>2
  <2>8. \A w \in Threads : w = t \/ w = u
    BY DEF Threads
  <2>9. at'[u].i = i /\ at'[u].packet = at[u].packet /\ at'[t] = a
    BY <1>1, <2>1
  <2> HIDE DEF i
  <2>10. QED BY <2>1, <2>4, <2>6, <2>7, <2>8, <2>9 DEF ActsRight
<1>4. QED BY <1>2, <1>3 DEF WritesUnused, ActsRight

LEMMA RemovalActs ==
  ASSUME TypeOK, SoundInv, ActInv, ~overlapped, ~wrapped,
         RemoveRuleIndex \/ StartUpdate \/ AgeSlot \/ BlankSlot
  PROVE  Unused' /\ \A u \in Threads : WritesUnused(u)' /\ ActsRight(u)'
<1>1. /\ UNCHANGED flow_table_free_pos /\ flow_table_free_pos \in Nat
      /\ \A i \in Slots : SameWindows(flowTable'[i], flowTable[i]) \/ Blank(flowTable'[i])
  BY Removes DEF TypeOK
<1>2. PICK t \in Threads, a \in At :
        GoOn(t, a, flowTable') /\ ~Inserting(t) /\ a.op \in {"idle", "age", "blank"}
  BY Removes
<1>3. at'[t] = a
  BY <1>2, OthersStay
<1>4. Unused'
  BY <1>1 DEF ActInv, Unused, Ring, SameWindows, Blank
<1>5. WritesUnused(t)' /\ ActsRight(t)' /\ ~Writing(t)'
  BY <1>2, <1>3 DEF WritesUnused, ActsRight, Writing
<1>6. \A u \in Threads \ {t} : WritesUnused(u)' /\ ActsRight(u)'
  BY <1>1, <1>2, <1>5, OtherActs
<1>7. QED BY <1>4, <1>5, <1>6

LEMMA LookupActs ==
  ASSUME TypeOK, TypeOK', SoundInv, ActInv, ~overlapped, ~wrapped, NEW t \in Threads,
         StartLookup(t) \/ Lookup(t) \/ ActOrAsk(t)
  PROVE  Unused' /\ \A u \in Threads : WritesUnused(u)' /\ ActsRight(u)'
<1>1. UNCHANGED <<flowTable, flow_table_free_pos>> /\ flow_table_free_pos \in Nat
  BY DEF StartLookup, Lookup, ActOrAsk, TypeOK
<1>2. ~Writing(t) /\ ~Inserting(t)
  BY DEF StartLookup, Lookup, ActOrAsk, Writing, Inserting, Idle
<1>3. Unused /\ \A u \in Threads : WritesUnused(u) /\ ActsRight(u)
  BY DEF ActInv
<1>4. Unused'
  BY <1>1, <1>3 DEF Unused
<1>5. ASSUME NEW a, GoOn(t, a, flowTable), a.op \in {"lookup", "act", "ask", "idle"},
             a.op = "act" =>
               /\ a.i < flow_table_free_pos
               /\ MatchRule(flowTable[a.i], a.packet)
               /\ \A u \in Threads : Writing(u) /\ at[u].pos = a.i =>
                     SameWindows(flowTable[a.i], at[u].rule)
      PROVE  Unused' /\ \A u \in Threads : WritesUnused(u)' /\ ActsRight(u)'
  <2>1. at'[t] = a
    BY <1>5 DEF GoOn
  <2>2. a \in At
    BY <2>1 DEF TypeOK
  <2>3. \A u \in Threads : Writing(u)' => Writing(u) /\ at'[u] = at[u]
    BY <1>5, <2>1, <2>2, OthersStay DEF Writing
  <2>4. WritesUnused(t)' /\ ActsRight(t)' /\ ~Writing(t)'
    BY <1>1, <1>5, <2>1, <2>3 DEF WritesUnused, ActsRight, Writing
  <2>5. GoOn(t, a, flowTable') /\ \A k \in Slots : SameWindows(flowTable'[k], flowTable[k])
    BY <1>1, <1>5 DEF SameWindows
  <2>6. \A u \in Threads \ {t} : WritesUnused(u)' /\ ActsRight(u)'
    BY <1>1, <1>2, <2>2, <2>4, <2>5, OtherActs
  <2>7. QED BY <1>4, <2>4, <2>6
<1>6. CASE StartLookup(t)
  <2>1. PICK p \in Packets :
          GoOn(t, [op |-> "lookup", packet |-> p, j |-> 0,
                   stayed |-> {i \in Slots : MatchRule(flowTable[i], p)}], flowTable)
    BY <1>6 DEF StartLookup
  <2>2. QED BY <1>5, <2>1
<1>7. CASE Lookup(t)
  <2> DEFINE p == at[t].packet
             i == ActualFlowIndex(at[t].j)
             a == IF MatchRule(flowTable[i], p) THEN [op |-> "act", packet |-> p, i |-> i]
                  ELSE IF at[t].j < RlsMax - 1 THEN [at[t] EXCEPT !.j = @ + 1]
                  ELSE [op |-> "ask", missed |-> at[t].stayed \ Claimed]
  <2>1. i \in Slots /\ GoOn(t, a, flowTable)
    BY <1>7 DEF Lookup
  <2>2. at[t] \in [op : {"lookup"}, packet : Packets, j : Slots, stayed : SUBSET Slots]
    BY <1>7 DEF Lookup, TypeOK, At, Idle
  <2>3. [at[t] EXCEPT !.j = @ + 1].op = "lookup"
    BY <2>2
  <2>4. a.op \in {"lookup", "act", "ask", "idle"}
    BY <2>3
  <2>5. a.op = "act" => MatchRule(flowTable[i], p) /\ a.i = i /\ a.packet = p
    BY <2>3
  <2>6. ASSUME MatchRule(flowTable[i], p)
        PROVE  /\ i < flow_table_free_pos
               /\ \A u \in Threads : Writing(u) /\ at[u].pos = i =>
                     SameWindows(flowTable[i], at[u].rule)
    <3>1. ~Blank(flowTable[i])
      BY <2>6 DEF MatchRule
    <3>2. \A u \in Threads : Writing(u) /\ at[u].pos = i => SameWindows(flowTable[i], at[u].rule)
      BY <1>3, <3>1 DEF WritesUnused
    <3>3. flow_table_free_pos \in 1 .. RlsMax
      BY DEF SoundInv, FreeInRing
    <3>4. i # 0 => ~(i >= flow_table_free_pos)
      BY <1>3, <2>1, <3>1 DEF Unused, Ring
    <3>5. i \in Nat
      BY <2>1, RulesAssumption DEF Slots
    <3> HIDE DEF i
    <3>6. i < flow_table_free_pos
      BY <3>3, <3>4, <3>5, RulesAssumption
    <3>7. QED BY <3>2, <3>6
  <2> HIDE DEF a, i, p
  <2>7. QED BY <1>5, <2>1, <2>4, <2>5, <2>6
<1>8. CASE ActOrAsk(t)
  <2>1. GoOn(t, Idle, flowTable) /\ Idle.op = "idle"
    BY <1>8 DEF ActOrAsk, Idle
  <2>2. QED BY <1>5, <2>1
<1>9. QED BY <1>6, <1>7, <1>8

LEMMA InsertActs ==
  ASSUME TypeOK, SoundInv, ActInv, ~overlapped, ~wrapped, ~wrapped', NEW t \in Threads,
         StartInsert(t) \/ Search(t) \/ Claim(t) \/ Bump(t) \/ Wrap(t) \/ Set(t)
  PROVE  Unused' /\ \A u \in Threads : WritesUnused(u)' /\ ActsRight(u)'
<1>1. /\ at \in [Threads -> At] /\ FreeInRing /\ OneInserts
      /\ flow_table_free_pos \in 1 .. RlsMax /\ flow_table_free_pos \in Nat
  BY DEF SoundInv, FreeInRing, TypeOK
<1>2. Unused /\ \A u \in Threads : WritesUnused(u) /\ ActsRight(u)
  BY DEF ActInv
<1>3. ASSUME NEW a \in At, GoOn(t, a, flowTable'), a.op # "act", Unused',
             flow_table_free_pos' \in Nat, flow_table_free_pos' >= flow_table_free_pos,
             Writing(t) \/ flow_table_free_pos' = flow_table_free_pos,
             \A k \in Slots : \/ SameWindows(flowTable'[k], flowTable[k])
                              \/ Writing(t) /\ at[t].pos = k /\ flowTable'[k] = at[t].rule,
             a.op \in {"bump", "wrap", "set"} =>
               /\ \/ Writing(t) /\ a.pos = at[t].pos /\ a.rule = at[t].rule
                  \/ SameWindows(flowTable'[a.pos], a.rule)
                  \/ a.pos >= flow_table_free_pos
               /\ Blank(flowTable'[a.pos]) \/ SameWindows(flowTable'[a.pos], a.rule)
               /\ IF a.op = "bump" THEN a.pos = flow_table_free_pos'
                  ELSE a.pos < flow_table_free_pos'
      PROVE  Unused' /\ \A u \in Threads : WritesUnused(u)' /\ ActsRight(u)'
  <2>1. at'[t] = a
    BY <1>3, OthersStay
  <2>2. WritesUnused(t)' /\ ActsRight(t)'
    BY <1>3, <2>1 DEF WritesUnused, ActsRight, Writing
  <2>3. Writing(t)' => a.op \in {"bump", "wrap", "set"}
    BY <2>1 DEF Writing
  <2>4. \A u \in Threads \ {t} : WritesUnused(u)' /\ ActsRight(u)'
    BY <1>3, <2>3, OtherActs
  <2>5. QED BY <1>3, <2>2, <2>4
\* Steps that leave the table and the free position
<1>4. ASSUME UNCHANGED <<flowTable, flow_table_free_pos>>
      PROVE  /\ Unused'
             /\ flow_table_free_pos' \in Nat /\ flow_table_free_pos' >= flow_table_free_pos
             /\ flow_table_free_pos' = flow_table_free_pos
             /\ \A k \in Slots : SameWindows(flowTable'[k], flowTable[k])
  BY <1>1, <1>2, <1>4 DEF Unused, SameWindows
<1>5. CASE StartInsert(t)
  <2>1. PICK r \in Rule : GoOn(t, [op |-> "search", rule |-> r, i |-> 0], flowTable)
    BY <1>5 DEF StartInsert
  <2>2. [op |-> "search", rule |-> r, i |-> 0] \in At
    BY RulesAreEntries DEF At
  <2>3. UNCHANGED <<flowTable, flow_table_free_pos>>
    BY <1>5 DEF StartInsert
  <2>4. GoOn(t, [op |-> "search", rule |-> r, i |-> 0], flowTable')
    BY <2>1, <2>3
  <2>5. QED BY <1>3, <1>4, <2>2, <2>3, <2>4
<1>6. CASE Search(t)
  <2> DEFINE r == at[t].rule
             i == at[t].i
             next == IF i < LastSlot THEN [at[t] EXCEPT !.i = i + 1]
                     ELSE [op |-> "claim", rule |-> r]
  <2>1. /\ at[t] \in [op : {"search"}, rule : Rule, i : Slots]
        /\ UNCHANGED <<flowTable, flow_table_free_pos>>
        /\ GoOn(t, IF SameWindows(flowTable[i], r) THEN [op |-> "set", rule |-> r, pos |-> i]
                   ELSE next, flowTable)
    BY <1>1, <1>6 DEF Search, At, Idle
  <2>2. r \in Rule /\ i \in Slots
    BY <2>1
  <2>3. CASE SameWindows(flowTable[i], r)
    <3> DEFINE a == [op |-> "set", rule |-> r, pos |-> i]
    <3>1. a \in At
      BY <2>2 DEF At, Slots
    <3>2. GoOn(t, a, flowTable')
      BY <2>1, <2>3
    <3>3. SameWindows(flowTable'[i], r)
      BY <2>1, <2>3
    <3>4. i < flow_table_free_pos'
      <4>1. ~Blank(flowTable[i])
        BY <2>2, <2>3, RulesAreEntries DEF SameWindows, Blank
      <4>2. i # 0 => ~(i >= flow_table_free_pos)
        BY <1>2, <2>2, <4>1 DEF Unused, Ring
      <4>3. i \in Nat /\ flow_table_free_pos' = flow_table_free_pos
        BY <2>1, <2>2, RulesAssumption DEF Slots
      <4> HIDE DEF i
      <4>4. QED BY <1>1, <4>2, <4>3, RulesAssumption
    <3>5. a.op = "set" /\ a.pos = i /\ a.rule = r
      OBVIOUS
    <3> HIDE DEF a, i, r
    <3>6. QED BY <1>3, <1>4, <2>1, <3>1, <3>2, <3>3, <3>4, <3>5
  <2>4. CASE ~SameWindows(flowTable[i], r)
    <3>1. i < LastSlot => i + 1 \in Slots
      BY <2>1, RulesAssumption DEF Slots, LastSlot
    <3>2. i < LastSlot => /\ [at[t] EXCEPT !.i = i + 1] \in [op : {"search"}, rule : Rule, i : Slots]
                          /\ [at[t] EXCEPT !.i = i + 1].op = "search"
      BY <2>1, <3>1
    <3>3. next \in At /\ next.op \in {"search", "claim"}
      BY <2>2, <3>2 DEF At
    <3>4. GoOn(t, next, flowTable')
      BY <2>1, <2>4
    <3> HIDE DEF next
    <3>5. QED BY <1>3, <1>4, <2>1, <3>3, <3>4
  <2>5. QED BY <2>3, <2>4
<1>7. CASE Claim(t)
  <2> DEFINE a == [op |-> "bump", rule |-> at[t].rule, pos |-> flow_table_free_pos]
  <2>1. at[t].op = "claim" /\ at[t].rule \in Rule /\ Inserting(t)
    BY <1>7, AtFields DEF Claim, Inserting
  <2>2. UNCHANGED <<flowTable, flow_table_free_pos>> /\ GoOn(t, a, flowTable')
    BY <1>7 DEF Claim
  <2>3. a \in At
    BY <1>1, <2>1 DEF At
  <2>4. flow_table_free_pos \in Ring
    <3>1. \A u \in Threads : at[u].op # "wrap"
      BY <1>1, <2>1 DEF OneInserts, Inserting
    <3>2. flow_table_free_pos # RlsMax
      BY <1>1, <3>1 DEF FreeInRing
    <3>3. QED BY <1>1, <3>2, RulesAssumption DEF Slots, Ring
  <2>5. Blank(flowTable'[flow_table_free_pos])
    BY <1>1, <1>2, <2>2, <2>4 DEF Unused
  <2>6. a.op = "bump" /\ a.pos = flow_table_free_pos /\ a.pos >= flow_table_free_pos
    BY <1>1
  <2> HIDE DEF a
  <2>7. QED BY <1>3, <1>4, <2>2, <2>3, <2>5, <2>6
<1>8. ASSUME Writing(t), NEW o \in {"wrap", "set"}, GoOn(t, [at[t] EXCEPT !.op = o], flowTable),
             UNCHANGED flowTable, Unused', at[t].pos < flow_table_free_pos',
             flow_table_free_pos' \in Nat, flow_table_free_pos' >= flow_table_free_pos
      PROVE  Unused' /\ \A u \in Threads : WritesUnused(u)' /\ ActsRight(u)'
  <2> DEFINE a == [at[t] EXCEPT !.op = o]
  <2>1. at[t] \in [op : {"bump", "wrap", "set"}, rule : Rule, pos : Nat]
    BY <1>1, <1>8 DEF Writing, At, Idle
  <2>2. a \in [op : {"bump", "wrap", "set"}, rule : Rule, pos : Nat]
        /\ a.op = o /\ a.rule = at[t].rule /\ a.pos = at[t].pos
    BY <2>1
  <2>3. GoOn(t, a, flowTable')
    BY <1>8
  <2> HIDE DEF a
  <2>4. a \in At
    BY <2>2 DEF At
  <2>5. Blank(flowTable'[a.pos]) \/ SameWindows(flowTable'[a.pos], a.rule)
    BY <1>2, <1>8, <2>2 DEF WritesUnused
  <2>6. \A k \in Slots : SameWindows(flowTable'[k], flowTable[k])
    BY <1>8 DEF SameWindows
  <2>7. a.op # "act" /\ a.op # "bump"
    BY <2>2
  <2>8. QED BY <1>3, <1>8, <2>2, <2>3, <2>4, <2>5, <2>6, <2>7
<1>9. CASE Bump(t)
  <2>1. Writing(t) /\ at[t].op = "bump"
    BY <1>9 DEF Bump, Writing
  <2>2. GoOn(t, [at[t] EXCEPT !.op = "wrap"], flowTable) /\ UNCHANGED flowTable
        /\ flow_table_free_pos' = flow_table_free_pos + 1
    BY <1>9 DEF Bump
  <2>3. at[t].pos = flow_table_free_pos
    BY <1>2, <2>1 DEF WritesUnused
  <2>4. Unused'
    <3>1. \A k \in Ring : k >= flow_table_free_pos + 1 => k >= flow_table_free_pos
      BY <1>1, RulesAssumption DEF Ring, Slots
    <3>2. QED BY <1>2, <2>2, <3>1 DEF Unused
  <2>5. /\ at[t].pos < flow_table_free_pos' /\ flow_table_free_pos' \in Nat
        /\ flow_table_free_pos' >= flow_table_free_pos
    BY <1>1, <2>2, <2>3
  <2>6. QED BY <1>8, <2>1, <2>2, <2>4, <2>5
<1>10. CASE Wrap(t)
  <2>1. Writing(t) /\ at[t].op = "wrap"
    BY <1>10 DEF Wrap, Writing
  <2>2. GoOn(t, [at[t] EXCEPT !.op = "set"], flowTable)
        /\ UNCHANGED <<flowTable, flow_table_free_pos>>
    BY <1>10 DEF Wrap
  <2>3. at[t].pos < flow_table_free_pos'
    BY <1>2, <2>1, <2>2 DEF WritesUnused
  <2>4. QED BY <1>4, <1>8, <2>1, <2>2, <2>3
<1>11. CASE Set(t)
  <2> DEFINE r == at[t].rule
             i == at[t].pos
  <2>1. Writing(t) /\ at[t].op = "set" /\ r \in Rule /\ i \in Slots /\ i < flow_table_free_pos
    BY <1>2, <1>11, AtFields DEF Set, Writing, WritesUnused
  <2>2. SetSlot(i, r) /\ GoOn(t, Idle, flowTable') /\ UNCHANGED flow_table_free_pos
    BY <1>11 DEF Set
  <2>3. Idle \in At /\ Idle.op = "idle"
    BY DEF At, Idle
  <2>4. \A k \in Slots : flowTable'[k] = IF k = i THEN r ELSE flowTable[k]
    BY <2>1, <2>2, RulesAreEntries, SlotWritten
  <2>5. Unused'
    <3>1. ASSUME NEW k \in Ring, k >= flow_table_free_pos PROVE Blank(flowTable'[k])
      <4>1. k # i
        <5>1. k \in Nat /\ i \in Nat
          BY <2>1, RulesAssumption DEF Ring, Slots
        <5> HIDE DEF i
        <5>2. QED BY <1>1, <2>1, <3>1, <5>1
      <4>2. flowTable'[k] = flowTable[k]
        BY <2>4, <4>1 DEF Ring
      <4>3. QED BY <1>2, <3>1, <4>2 DEF Unused
    <3>2. QED BY <2>2, <3>1 DEF Unused
  <2>6. \A k \in Slots : \/ SameWindows(flowTable'[k], flowTable[k])
                         \/ Writing(t) /\ at[t].pos = k /\ flowTable'[k] = at[t].rule
    BY <2>1, <2>4 DEF SameWindows
  <2>7. flow_table_free_pos' \in Nat /\ flow_table_free_pos' >= flow_table_free_pos
    BY <1>1, <2>2
  <2>8. QED BY <1>3, <2>1, <2>2, <2>3, <2>5, <2>6, <2>7
<1>12. QED BY <1>5, <1>6, <1>7, <1>9, <1>10, <1>11

LEMMA InitActs == Init => ActInv
<1> SUFFICES ASSUME Init PROVE ActInv
  OBVIOUS
<1>1. \A t \in Threads : at[t].op = "idle"
  BY DEF Init, Idle
<1>2. \A k \in Ring : Blank(flowTable[k])
  BY RulesAreEntries DEF Init, Ring
<1>3. QED BY <1>1, <1>2 DEF ActInv, Unused, WritesUnused, ActsRight, Writing

LEMMA StepActs ==
  ASSUME TypeOK, TypeOK', SoundInv, ActInv, Next
  PROVE  ActInv'
<1> SUFFICES ASSUME ~overlapped', ~wrapped'
             PROVE  Unused' /\ \A t \in Threads : WritesUnused(t)' /\ ActsRight(t)'
  BY DEF ActInv
<1>1. ~overlapped /\ ~wrapped
  BY DEF Next, StartInsert, Search, Claim, Bump, Wrap, Set, StartLookup, Lookup, ActOrAsk,
         RemoveRuleIndex, StartUpdate, AgeSlot, BlankSlot, TypeOK
<1>2. QED BY <1>1, InsertActs, LookupActs, RemovalActs DEF Next

(***************************************************************************)
(* Until the ring wraps or both threads have inserted at the same time,    *)
(* the actions that are run are those of the rule that matched, or none if *)
(* it was blanked in between.                                              *)
(***************************************************************************)
THEOREM ActsAsMatched == Spec => []ActsByTheRuleMatched
<1>1. Init => TypeOK /\ SoundInv /\ ActInv
  BY InitTyped, InitSound, InitActs
<1>2. TypeOK /\ SoundInv /\ ActInv /\ [Next]_vars => (TypeOK /\ SoundInv /\ ActInv)'
  <2> SUFFICES ASSUME TypeOK, SoundInv, ActInv, [Next]_vars
               PROVE  TypeOK' /\ SoundInv' /\ ActInv'
    OBVIOUS
  <2>1. TypeOK' /\ SoundInv'
    BY StepTyped, StepSound
  <2>2. CASE Next
    BY <2>1, <2>2, StepActs
  <2>3. CASE UNCHANGED vars
    <3>1. UNCHANGED <<flowTable, flow_table_free_pos, at, overlapped, wrapped>>
      BY <2>3 DEF vars
    <3>2. Unused' <=> Unused
      BY <3>1 DEF Unused
    <3>3. \A t \in Threads : (WritesUnused(t)' <=> WritesUnused(t)) /\ (ActsRight(t)' <=> ActsRight(t))
      BY <3>1 DEF WritesUnused, ActsRight, Writing
    <3>4. QED BY <2>1, <3>1, <3>2, <3>3 DEF ActInv
  <2>4. QED BY <2>1, <2>2, <2>3
<1>3. ActInv => ActsByTheRuleMatched
  BY DEF ActInv, ActsRight, ActsByTheRuleMatched
<1>4. QED BY <1>1, <1>2, <1>3, PTL DEF Spec

==============================================================================
