--------------------------- MODULE FlowTableProofs ---------------------------
(***************************************************************************)
(* Theorems of FlowTable, for every size of the table, every set of rules  *)
(* and every match relation.                                               *)
(***************************************************************************)
EXTENDS FlowTable, WellFoundedInduction, TLAPS

\* Every non-empty set of naturals has a least element: the library's WFMin,
\* for a set.
LEMMA LeastElement ==
  ASSUME NEW S \in SUBSET Nat, S # {}
  PROVE  \E m \in S : \A k \in S : m <= k
<1> DEFINE Less == {ss \in Nat \X Nat : ss[1] < ss[2]}
<1>1. IsWellFoundedOn(Less, Nat)
  BY NatLessThanWellFounded DEF OpToRel
<1>2. \E x \in S : \A y \in S : ~(<<y, x>> \in Less)
  <2> HIDE DEF Less
  <2> QED BY <1>1, WFMin
<1>3. PICK m \in S : \A y \in S : ~(<<y, m>> \in Less)
  BY <1>2
<1>4. \A y \in S : y < m => <<y, m>> \in Less
  OBVIOUS
<1>5. \A y \in S : ~(y < m)
  BY <1>3, <1>4
<1> HIDE DEF Less
<1>6. QED
  BY <1>5

\* The tables a mote can hold, and the ring without a rule stored twice.
TableOK(t) == t \in [rules : [Slots -> Entry], free : 1 .. (RlsMax - 1)]

OnceOnly(t) ==
  \A i, k \in Slots \ {0} :
     i # k /\ ~Blank(t.rules[i]) => ~SameWindows(t.rules[i], t.rules[k])

\* RuleList reads the data of FlowRules as FlowTable does.
LEMMA SameData ==
  /\ ListOfRules!Slots = Slots
  /\ ListOfRules!Entry = Entry
  /\ ListOfRules!NoRule = NoRule
  /\ \A e, r : ListOfRules!SameWindows(e, r) = SameWindows(e, r)
  /\ \A e : ListOfRules!Blank(e) = Blank(e)
  /\ \A e : ListOfRules!Age(e) = Age(e)
  /\ \A w, a : ListOfRules!Fresh(w, a) = Fresh(w, a)
  /\ \A l, p : ListOfRules!FirstMatch(l, p) = FirstMatch(l, p)
BY DEF ListOfRules!Slots, Slots, ListOfRules!Entry, Entry, ListOfRules!NoRule, NoRule,
       ListOfRules!SameWindows, SameWindows, ListOfRules!Blank, Blank,
       ListOfRules!Age, Age, ListOfRules!Fresh, Fresh,
       ListOfRules!FirstMatch, FirstMatch, ListOfRules!MatchRule, MatchRule

------------------------------------------------------------------------------
(* The ring *)

\* getActualFlowIndex maps lookup positions to slots, position 0 alone to
\* slot 0.
LEMMA IndexType ==
  ASSUME NEW f \in 1 .. (RlsMax - 1), NEW j \in Slots
  PROVE  /\ GetActualFlowIndex(f, j) \in Slots
         /\ GetActualFlowIndex(f, j) = 0 <=> j = 0
BY RulesAssumption DEF GetActualFlowIndex, Slots

\* Two lookup positions never share a slot.
LEMMA IndexInjective ==
  ASSUME NEW f \in 1 .. (RlsMax - 1), NEW j \in Slots, NEW k \in Slots,
         GetActualFlowIndex(f, j) = GetActualFlowIndex(f, k)
  PROVE  j = k
BY RulesAssumption DEF GetActualFlowIndex, Slots

\* A lookup visits every slot: each is the image of a position.
THEOREM IndexSurjective ==
  ASSUME NEW f \in 1 .. (RlsMax - 1), NEW i \in Slots
  PROVE  \E j \in Slots : GetActualFlowIndex(f, j) = i
<1>1. CASE i = 0
  BY <1>1, RulesAssumption DEF GetActualFlowIndex, Slots
<1>2. CASE 0 < i /\ i < f
  <2>1. f - i \in Slots /\ GetActualFlowIndex(f, f - i) = i
    BY <1>2, RulesAssumption DEF GetActualFlowIndex, Slots
  <2>2. QED BY <2>1
<1>3. CASE 0 < i /\ ~(i < f)
  <2>1. /\ RlsMax - 1 + f - i \in Slots
        /\ GetActualFlowIndex(f, RlsMax - 1 + f - i) = i
    BY <1>3, RulesAssumption DEF GetActualFlowIndex, Slots
  <2>2. QED BY <2>1
<1>4. QED
  BY <1>1, <1>2, <1>3 DEF Slots

\* After the ring has been filled at f, the new rule is at position 1 and
\* every other rule one position further than before.
LEMMA IndexShift ==
  ASSUME NEW f \in 1 .. (RlsMax - 1), NEW g,
         g = IF f + 1 >= RlsMax THEN 1 ELSE f + 1
  PROVE  /\ g \in 1 .. (RlsMax - 1)
         /\ GetActualFlowIndex(g, 1) = f
         /\ \A j \in Slots : j >= 2 =>
               /\ GetActualFlowIndex(g, j) = GetActualFlowIndex(f, j - 1)
               /\ GetActualFlowIndex(g, j) # f
BY RulesAssumption DEF GetActualFlowIndex, Slots

------------------------------------------------------------------------------
(* Insertion *)

\* searchRule returns the lowest slot with the windows of the rule, or a
\* number past the table when there is none.
LEMMA SearchRuleResult ==
  ASSUME NEW t, TableOK(t), NEW r
  PROVE  LET pos == SearchRule(t, r)
         IN  \/ pos \in Slots /\ SameWindows(t.rules[pos], r)
             \/ pos = RlsMax + 1 /\ \A i \in Slots : ~SameWindows(t.rules[i], r)
<1> DEFINE same == {i \in Slots : SameWindows(t.rules[i], r)}
<1>1. CASE same = {}
  BY <1>1 DEF SearchRule
<1>2. CASE same # {}
  <2>1. same \in SUBSET Nat
    BY RulesAssumption DEF Slots
  <2>2. \E m \in same : \A k \in same : m <= k
    <3> HIDE DEF same
    <3> QED BY <1>2, <2>1, LeastElement
  <2>3. SearchRule(t, r) = CHOOSE i \in same : \A k \in same : i <= k
    BY <1>2 DEF SearchRule
  <2>4. SearchRule(t, r) \in same
    <3> HIDE DEF same
    <3> QED BY <2>2, <2>3
  <2>5. QED BY <2>4
<1>3. QED BY <1>1, <1>2

LEMMA FreshType ==
  ASSUME NEW w \in WindowLists, NEW a \in Actions
  PROVE  Fresh(w, a) \in Entry /\ ~Blank(Fresh(w, a)) /\ Fresh(w, a).win = w
BY RulesAssumption DEF Fresh, Entry, Blank

\* An insertion keeps the table well formed and the ring free of doubles.
LEMMA InsertKeeps ==
  ASSUME NEW t, TableOK(t), NEW w \in WindowLists, NEW a \in Actions
  PROVE  /\ TableOK(InsertRule(t, Fresh(w, a)))
         /\ OnceOnly(t) => OnceOnly(InsertRule(t, Fresh(w, a)))
<1> DEFINE r == Fresh(w, a)
           pos == SearchRule(t, r)
<1>0. r \in Entry /\ ~Blank(r)
  BY FreshType
<1>1. CASE pos \in Slots /\ SameWindows(t.rules[pos], r)
  <2>1. InsertRule(t, r) = [t EXCEPT !.rules[pos] = r]
    BY <1>1, RulesAssumption DEF InsertRule, Slots
  <2> HIDE DEF r, pos
  <2>2. TableOK([t EXCEPT !.rules[pos] = r])
    BY <1>0, <1>1 DEF TableOK
  <2>3. OnceOnly(t) => OnceOnly([t EXCEPT !.rules[pos] = r])
    BY <1>0, <1>1 DEF TableOK, OnceOnly, SameWindows, Blank
  <2>4. QED BY <2>1, <2>2, <2>3 DEF r
<1>2. CASE pos = RlsMax + 1 /\ \A i \in Slots : ~SameWindows(t.rules[i], r)
  <2> DEFINE g == IF t.free + 1 >= RlsMax THEN 1 ELSE t.free + 1
             u == [rules |-> [t.rules EXCEPT ![t.free] = r], free |-> g]
  <2>1. InsertRule(t, r) = u
    BY <1>2, RulesAssumption DEF InsertRule
  <2>2. g \in 1 .. (RlsMax - 1)
    BY RulesAssumption DEF TableOK
  <2>3. t.free \in Slots
    BY RulesAssumption DEF TableOK, Slots
  <2> HIDE DEF r, pos, g
  <2>4. TableOK(u)
    BY <1>0, <2>2, <2>3 DEF TableOK
  <2>5. OnceOnly(t) => OnceOnly(u)
    BY <1>0, <1>2, <2>3 DEF TableOK, OnceOnly, SameWindows, Blank
  <2>6. QED BY <2>1, <2>4, <2>5 DEF r
<1>3. QED
  BY <1>1, <1>2, SearchRuleResult

\* Writing one slot writes the one position that maps to it.
LEMMA SetSlot ==
  ASSUME NEW t, TableOK(t), NEW j \in Slots, NEW e
  PROVE  LookupOrder([rules |-> [t.rules EXCEPT ![GetActualFlowIndex(t.free, j)] = e],
                      free  |-> t.free])
            = [LookupOrder(t) EXCEPT ![j] = e]
<1> DEFINE f == t.free
           i == GetActualFlowIndex(f, j)
           l == LookupOrder(t)
<1>0. f \in 1 .. (RlsMax - 1)
  BY DEF TableOK
<1>1. l \in [Slots -> {l[k] : k \in Slots}]
       /\ \A k \in Slots : l[k] = t.rules[GetActualFlowIndex(f, k)]
  BY DEF LookupOrder
<1>2. \A k \in Slots : [t.rules EXCEPT ![i] = e][GetActualFlowIndex(f, k)]
                          = IF k = j THEN e ELSE l[k]
  <2> TAKE k \in Slots
  <2>1. GetActualFlowIndex(f, k) \in Slots /\ i \in Slots
    BY <1>0, IndexType
  <2>2. k # j => GetActualFlowIndex(f, k) # i
    BY <1>0, IndexInjective
  <2>3. QED
    <3> HIDE DEF l
    <3> QED BY <1>1, <2>1, <2>2 DEF TableOK
<1>3. LookupOrder([rules |-> [t.rules EXCEPT ![i] = e], free |-> f])
        = [k \in Slots |-> IF k = j THEN e ELSE l[k]]
  <2> HIDE DEF i, l
  <2> QED BY <1>2 DEF LookupOrder
<1>4. [l EXCEPT ![j] = e] = [k \in Slots |-> IF k = j THEN e ELSE l[k]]
  <2> HIDE DEF l
  <2> QED BY <1>1
<1>5. QED
  BY <1>3, <1>4

\* Seen through the lookup order, an insertion is an insertion of RuleList.
LEMMA InsertImplements ==
  ASSUME NEW t, TableOK(t), NEW w \in WindowLists, NEW a \in Actions
  PROVE  LookupOrder(InsertRule(t, Fresh(w, a)))
            \in ListOfRules!Insertions(LookupOrder(t), Fresh(w, a))
<1> DEFINE r == Fresh(w, a)
           pos == SearchRule(t, r)
           f == t.free
           l == LookupOrder(t)
<1>0. f \in 1 .. (RlsMax - 1)
  BY DEF TableOK
<1>a. \A j \in Slots : l[j] = t.rules[GetActualFlowIndex(f, j)]
  BY DEF LookupOrder
<1>1. CASE pos \in Slots /\ SameWindows(t.rules[pos], r)
  <2>1. InsertRule(t, r) = [t EXCEPT !.rules[pos] = r]
    BY <1>1, RulesAssumption DEF InsertRule, Slots
  <2>2. PICK j \in Slots : GetActualFlowIndex(f, j) = pos
    BY <1>0, <1>1, IndexSurjective
  <2>3. SameWindows(l[j], r)
    BY <1>1, <1>a, <2>2
  <2>4. LookupOrder(InsertRule(t, r)) = [l EXCEPT ![j] = r]
    <3>1. [t EXCEPT !.rules[pos] = r] = [rules |-> [t.rules EXCEPT ![pos] = r], free |-> f]
      BY DEF TableOK
    <3>2. LookupOrder([rules |-> [t.rules EXCEPT ![GetActualFlowIndex(t.free, j)] = r],
                       free  |-> t.free]) = [LookupOrder(t) EXCEPT ![j] = r]
      BY SetSlot
    <3> HIDE DEF pos, r
    <3>3. QED
      BY <2>1, <2>2, <3>1, <3>2
  <2>5. QED
    <3> HIDE DEF r, l
    <3>1. QED BY <2>3, <2>4, SameData DEF ListOfRules!Insertions, r, l
<1>2. CASE pos = RlsMax + 1 /\ \A i \in Slots : ~SameWindows(t.rules[i], r)
  <2> DEFINE g == IF f + 1 >= RlsMax THEN 1 ELSE f + 1
             u == [rules |-> [t.rules EXCEPT ![f] = r], free |-> g]
  <2>1. InsertRule(t, r) = u
    BY <1>2, RulesAssumption DEF InsertRule
  <2>2. \A j \in Slots : ~SameWindows(l[j], r)
    BY <1>0, <1>2, <1>a, IndexType
  <2>3. LookupOrder(u) = ListOfRules!Push(l, r)
    <3>1. \A j \in Slots : u.rules[GetActualFlowIndex(g, j)]
                = IF j = 0 THEN l[0] ELSE IF j = 1 THEN r ELSE l[j - 1]
      <4> TAKE j \in Slots
      <4>1. f \in Slots /\ 0 \in Slots /\ f # 0
        BY <1>0, RulesAssumption DEF Slots
      <4>2. CASE j = 0
        <5>1. GetActualFlowIndex(g, j) = 0 /\ GetActualFlowIndex(f, j) = 0
          BY <4>2 DEF GetActualFlowIndex
        <5>2. QED
          BY <1>a, <4>1, <4>2, <5>1 DEF TableOK
      <4>3. CASE j = 1
        <5>1. GetActualFlowIndex(g, j) = f
          BY <1>0, <4>3, IndexShift
        <5>2. QED
          BY <4>1, <4>3, <5>1 DEF TableOK
      <4>4. CASE j >= 2
        <5>1. /\ GetActualFlowIndex(g, j) = GetActualFlowIndex(f, j - 1)
              /\ GetActualFlowIndex(g, j) # f
          BY <1>0, <4>4, IndexShift
        <5>2. j - 1 \in Slots
          BY <4>4, RulesAssumption DEF Slots
        <5>3. GetActualFlowIndex(f, j - 1) \in Slots
          BY <1>0, <5>2, IndexType
        <5> HIDE DEF g, r, l
        <5>4. QED
          BY <1>a, <4>4, <5>1, <5>2, <5>3 DEF TableOK
      <4>5. QED
        BY <4>2, <4>3, <4>4, RulesAssumption DEF Slots
    <3> HIDE DEF g, r, l
    <3>2. QED
      BY <3>1, SameData DEF LookupOrder, ListOfRules!Push
  <2>4. QED
    <3> HIDE DEF r, l, u
    <3>1. QED BY <2>1, <2>2, <2>3, SameData DEF ListOfRules!Insertions, r, l
<1>3. QED
  BY <1>1, <1>2, SearchRuleResult

------------------------------------------------------------------------------
(* The invariant *)

TypeInv ==
  /\ TableOK(Table)
  /\ semaphore \in {0, 1}
  /\ rssiSink \in {0, Rssi}
  /\ decision \in Actions \cup {Ask, NoAction}

IInv == TypeInv /\ OnceOnly(Table)

LEMMA NoRuleType == NoRule \in Entry /\ Blank(NoRule)
BY RulesAssumption DEF NoRule, Entry, Blank

\* Ageing an entry keeps its windows or blanks it.
LEMMA AgeType ==
  ASSUME NEW e \in Entry
  PROVE  /\ Age(e) \in Entry
         /\ Blank(Age(e)) \/ Age(e).win = e.win
<1>1. CASE e.win \notin Aged \/ e.ttl = TtlPermanent
  BY <1>1 DEF Age
<1>2. CASE ~(e.win \notin Aged \/ e.ttl = TtlPermanent) /\ e.ttl >= TtlDecr
  <2>1. Age(e) = [e EXCEPT !.ttl = @ - TtlDecr]
    BY <1>2 DEF Age
  <2>2. e.ttl - TtlDecr \in 0 .. TtlPermanent
    BY <1>2, RulesAssumption DEF Entry
  <2>3. QED
    BY <2>1, <2>2 DEF Entry
<1>3. CASE ~(e.win \notin Aged \/ e.ttl = TtlPermanent) /\ ~(e.ttl >= TtlDecr)
  BY <1>3, NoRuleType DEF Age
<1>4. QED
  BY <1>1, <1>2, <1>3

\* A lookup answers with the actions of an entry or asks the controller.
LEMMA FirstMatchType ==
  ASSUME NEW l \in [Slots -> Entry], NEW p
  PROVE  FirstMatch(l, p) \in Actions \cup {Ask, NoAction}
<1> DEFINE hits == {j \in Slots : MatchRule(l[j], p)}
<1>1. CASE hits = {}
  BY <1>1 DEF FirstMatch
<1>2. CASE hits # {}
  <2>1. hits \in SUBSET Nat
    BY RulesAssumption DEF Slots
  <2>2. \E m \in hits : \A k \in hits : m <= k
    <3> HIDE DEF hits
    <3> QED BY <1>2, <2>1, LeastElement
  <2>3. PICK m \in hits : FirstMatch(l, p) = l[m].act
    <3>1. FirstMatch(l, p) = l[CHOOSE j \in hits : \A k \in hits : j <= k].act
      BY <1>2 DEF FirstMatch
    <3> HIDE DEF hits
    <3>2. QED BY <2>2, <3>1
  <2>4. QED
    BY <2>3 DEF Entry
<1>3. QED
  BY <1>1, <1>2

LEMMA InitInv == Init => IInv
<1> SUFFICES ASSUME Init PROVE IInv
  OBVIOUS
<1>1. [win |-> OwnWindows, act |-> SelfHop, ttl |-> TtlPermanent] \in Entry
  BY RulesAssumption, TableAssumption DEF Entry
<1>2. TableOK(Table)
  BY <1>1, NoRuleType, RulesAssumption DEF Init, TableOK, Table
<1>3. OnceOnly(Table)
  BY DEF Init, OnceOnly, Table, Blank, NoRule
<1>4. QED
  BY <1>2, <1>3 DEF Init, IInv, TypeInv

\* What a refresh makes of an entry.
LEMMA RefreshType ==
  ASSUME NEW x \in Entry, NEW w \in SinkWindows
  PROVE  /\ [x EXCEPT !.ttl = TtlMax, !.win = w] = [win |-> w, act |-> x.act, ttl |-> TtlMax]
         /\ [win |-> w, act |-> x.act, ttl |-> TtlMax] \in Entry
<1> DEFINE y == [x EXCEPT !.ttl = TtlMax]
<1>1. y = [win |-> x.win, act |-> x.act, ttl |-> TtlMax]
  BY DEF Entry
<1>2. [y EXCEPT !.win = w] = [win |-> w, act |-> x.act, ttl |-> TtlMax]
  <2> HIDE DEF y
  <2> QED BY <1>1
<1>3. [win |-> w, act |-> x.act, ttl |-> TtlMax] \in Entry
  BY RulesAssumption, TableAssumption DEF Entry
<1>4. QED
  BY <1>2, <1>3

\* An in-place change of slot 0 cannot disturb the ring.
LEMMA SlotZero ==
  ASSUME NEW t, TableOK(t), NEW e \in Entry
  PROVE  LET u == [rules |-> [t.rules EXCEPT ![0] = e], free |-> t.free]
         IN  /\ TableOK(u)
             /\ OnceOnly(t) => OnceOnly(u)
             /\ LookupOrder(u) = [LookupOrder(t) EXCEPT ![0] = e]
<1> DEFINE u == [rules |-> [t.rules EXCEPT ![0] = e], free |-> t.free]
<1>0. 0 \in Slots /\ GetActualFlowIndex(t.free, 0) = 0
  BY RulesAssumption DEF Slots, GetActualFlowIndex
<1>1. TableOK(u)
  BY DEF TableOK
<1>2. OnceOnly(t) => OnceOnly(u)
  BY <1>0 DEF TableOK, OnceOnly
<1>3. LookupOrder(u) = [LookupOrder(t) EXCEPT ![0] = e]
  BY <1>0, SetSlot
<1>4. QED
  BY <1>1, <1>2, <1>3

\* The invariant is inductive.
LEMMA NextInv == IInv /\ [Next]_vars => IInv'
<1> SUFFICES ASSUME IInv, [Next]_vars PROVE IInv'
  OBVIOUS
<1> USE DEF IInv, TypeInv
<1>1. ASSUME NEW w \in SinkWindows, NEW h \in Parents, AdoptParent(w, h)
      PROVE  IInv'
  <2>1. Fresh(w, h) \in Entry
    BY FreshType, TableAssumption, RulesAssumption
  <2>2. Table' = [rules |-> [Table.rules EXCEPT ![0] = Fresh(w, h)], free |-> Table.free]
    BY <1>1 DEF AdoptParent, Table
  <2>3. TableOK(Table') /\ OnceOnly(Table')
    BY <2>1, <2>2, SlotZero
  <2>4. QED
    BY <1>1, <2>3 DEF AdoptParent
<1>2. ASSUME NEW w \in SinkWindows, NEW h \in Parents, RefreshParent(w, h)
      PROVE  IInv'
  <2> DEFINE e == [win |-> w, act |-> h, ttl |-> TtlMax]
  <2>1. e \in Entry
    BY TableAssumption, RulesAssumption DEF Entry
  <2>2. Table' = [rules |-> [Table.rules EXCEPT ![0] = e], free |-> Table.free]
    <3>1. flowTable \in [Slots -> Entry] /\ 0 \in Slots
      BY RulesAssumption DEF TableOK, Table, Slots
    <3>2. e = [flowTable[0] EXCEPT !.ttl = TtlMax, !.win = w]
      BY <1>2, <3>1, RefreshType DEF RefreshParent
    <3>3. flowTable' = [flowTable EXCEPT ![0] = e]
      BY <1>2, <3>2 DEF RefreshParent
    <3> HIDE DEF e
    <3>4. QED
      BY <1>2, <3>3 DEF RefreshParent, Table
  <2>3. TableOK(Table') /\ OnceOnly(Table')
    BY <2>1, <2>2, SlotZero
  <2>4. QED
    BY <1>2, <2>3 DEF RefreshParent
<1>3. ASSUME NEW w \in WindowLists, NEW a \in Actions, RxResponse(w, a)
      PROVE  IInv'
  <2>1. Table' = InsertRule(Table, Fresh(w, a))
    BY <1>3, InsertKeeps DEF RxResponse, SetTable, Table, TableOK
  <2>2. TableOK(Table') /\ OnceOnly(Table')
    BY <2>1, InsertKeeps
  <2>3. QED
    BY <1>3, <2>2 DEF RxResponse
<1>4. ASSUME NEW w \in WindowLists, NEW a \in Actions, RxOpenPathEnd(w, a)
      PROVE  IInv'
  <2>1. Table' = InsertRule(Table, Fresh(w, a))
    BY <1>4, InsertKeeps DEF RxOpenPathEnd, SetTable, Table, TableOK
  <2>2. TableOK(Table') /\ OnceOnly(Table')
    BY <2>1, InsertKeeps
  <2>3. QED
    BY <1>4, <2>2 DEF RxOpenPathEnd
<1>5. ASSUME NEW w1 \in WindowLists, NEW w2 \in WindowLists,
             NEW a1 \in Actions, NEW a2 \in Actions, RxOpenPathInside(w1, a1, w2, a2)
      PROVE  IInv'
  <2> DEFINE mid == InsertRule(Table, Fresh(w1, a1))
  <2>1. TableOK(mid) /\ OnceOnly(mid)
    BY InsertKeeps
  <2>2. Table' = InsertRule(mid, Fresh(w2, a2))
    BY <1>5, <2>1, InsertKeeps DEF RxOpenPathInside, SetTable, Table, TableOK
  <2>3. TableOK(Table') /\ OnceOnly(Table')
    <3> HIDE DEF mid
    <3> QED BY <2>1, <2>2, InsertKeeps
  <2>4. QED
    BY <1>5, <2>3 DEF RxOpenPathInside
<1>6. ASSUME NEW k \in Slots, RemoveRuleIndex(k)
      PROVE  IInv'
  <2> DEFINE i == GetActualFlowIndex(flow_table_free_pos, IndexRead(k))
  <2>1. i \in Slots /\ flowTable' = [flowTable EXCEPT ![i] = NoRule]
    BY <1>6 DEF RemoveRuleIndex
  <2>2. flow_table_free_pos' = flow_table_free_pos
    BY <1>6 DEF RemoveRuleIndex
  <2> HIDE DEF i
  <2>3. TableOK(Table')
    BY <2>1, <2>2, NoRuleType DEF TableOK, Table
  <2>4. OnceOnly(Table')
    BY <2>1, <2>2, NoRuleType DEF TableOK, Table, OnceOnly, SameWindows, Blank
  <2>5. QED
    BY <1>6, <2>3, <2>4 DEF RemoveRuleIndex
<1>7. ASSUME UpdateTable
      PROVE  IInv'
  <2>1. \A i \in Slots : Age(flowTable[i]) \in Entry
                         /\ (Blank(Age(flowTable[i])) \/ Age(flowTable[i]).win = flowTable[i].win)
    BY AgeType DEF TableOK, Table
  <2>2. flowTable' = [i \in Slots |-> Age(flowTable[i])]
        /\ flow_table_free_pos' = flow_table_free_pos
    BY <1>7 DEF UpdateTable
  <2>3. TableOK(Table')
    BY <2>1, <2>2 DEF TableOK, Table
  <2>4. OnceOnly(Table')
    BY <2>1, <2>2 DEF TableOK, Table, OnceOnly, SameWindows, Blank
  <2>5. QED
    BY <1>7, <2>3, <2>4 DEF UpdateTable
<1>8. ASSUME NEW p \in Packets, RunFlowMatch(p)
      PROVE  IInv'
  <2>1. LookupOrder(Table) \in [Slots -> Entry]
    BY IndexType DEF TableOK, LookupOrder
  <2>2. Table' = Table
    BY <1>8 DEF RunFlowMatch, Table
  <2>3. QED
    BY <1>8, <2>1, <2>2, FirstMatchType DEF RunFlowMatch
<1>9. CASE UNCHANGED vars
  BY <1>9 DEF vars, Table
<1>10. QED
  BY <1>1, <1>2, <1>3, <1>4, <1>5, <1>6, <1>7, <1>8, <1>9 DEF Next

\* Every state of the table is well typed: free_pos stays inside the ring.
THEOREM TypeCorrect == Spec => []TypeOK
<1>1. IInv => TypeOK
  BY DEF IInv, TypeInv, TableOK, Table, TypeOK
<1>2. QED
  BY InitInv, NextInv, <1>1, PTL DEF Spec

\* NoRuleTwice: the ring never holds two rules with the same windows.
THEOREM RuleStoredOnce == Spec => []NoRuleTwice
<1>1. IInv => NoRuleTwice
  BY DEF IInv, OnceOnly, Table, NoRuleTwice
<1>2. QED
  BY InitInv, NextInv, <1>1, PTL DEF Spec

------------------------------------------------------------------------------
(* Refinement *)

LEMMA InitRefines == Init => ListOfRules!Init
<1> SUFFICES ASSUME Init PROVE ListOfRules!Init
  OBVIOUS
<1> DEFINE e == [win |-> OwnWindows, act |-> SelfHop, ttl |-> TtlPermanent]
<1>1. e \in Entry /\ ~Blank(e)
  BY RulesAssumption, TableAssumption DEF Entry, Blank
<1>2. LookupOrder(Table) = [j \in Slots |-> IF j = 0 THEN e ELSE NoRule]
  <2>1. \A j \in Slots : flowTable[GetActualFlowIndex(flow_table_free_pos, j)]
                           = IF j = 0 THEN e ELSE NoRule
    <3> TAKE j \in Slots
    <3>1. /\ GetActualFlowIndex(flow_table_free_pos, j) \in Slots
          /\ GetActualFlowIndex(flow_table_free_pos, j) = 0 <=> j = 0
      BY IndexType, RulesAssumption DEF Init
    <3>2. QED
      BY <3>1 DEF Init
  <2> HIDE DEF e
  <2>2. QED
    BY <2>1 DEF LookupOrder, Table
<1> HIDE DEF e
<1>3. QED
  BY <1>1, <1>2, SameData DEF Init, ListOfRules!Init

\* Every step of the table is a step of the list, or leaves it unchanged.
LEMMA NextRefines == IInv /\ [Next]_vars => [ListOfRules!Next]_(ListOfRules!vars)
<1> SUFFICES ASSUME IInv, [Next]_vars PROVE [ListOfRules!Next]_(ListOfRules!vars)
  OBVIOUS
<1> DEFINE l == LookupOrder(Table)
<1>0. TableOK(Table) /\ 0 \in Slots
  BY RulesAssumption DEF IInv, TypeInv, Slots
<1>t. Table.rules = flowTable /\ Table.free = flow_table_free_pos
  BY DEF Table
<1>1. ASSUME NEW w \in SinkWindows, NEW h \in Parents, AdoptParent(w, h)
      PROVE  ListOfRules!Next
  <2>1. Fresh(w, h) \in Entry
    BY FreshType, TableAssumption, RulesAssumption
  <2>2. Table' = [rules |-> [Table.rules EXCEPT ![0] = Fresh(w, h)], free |-> Table.free]
    BY <1>1 DEF AdoptParent, Table
  <2>3. l' = [l EXCEPT ![0] = Fresh(w, h)]
    BY <1>0, <2>1, <2>2, SlotZero
  <2>4. ListOfRules!SinkRule
    BY <1>1, <2>1, <2>3, SameData DEF AdoptParent, ListOfRules!SinkRule
  <2>5. QED
    BY <2>4 DEF ListOfRules!Next
<1>2. ASSUME NEW w \in SinkWindows, NEW h \in Parents, RefreshParent(w, h)
      PROVE  ListOfRules!Next
  <2> DEFINE e == [flowTable[0] EXCEPT !.ttl = TtlMax, !.win = w]
  <2>1. e \in Entry
    <3>1. flowTable[0] \in Entry
      BY <1>0, <1>t DEF TableOK
    <3>2. QED
      BY <3>1, RefreshType
  <2>2. Table' = [rules |-> [Table.rules EXCEPT ![0] = e], free |-> Table.free]
    BY <1>2 DEF RefreshParent, Table
  <2> HIDE DEF e
  <2>3. l' = [l EXCEPT ![0] = e]
    BY <1>0, <2>1, <2>2, SlotZero
  <2>4. ListOfRules!SinkRule
    BY <1>2, <2>1, <2>3, SameData DEF RefreshParent, ListOfRules!SinkRule
  <2>5. QED
    BY <2>4 DEF ListOfRules!Next
<1>3. ASSUME NEW w \in WindowLists, NEW a \in Actions,
             SetTable(InsertRule(Table, Fresh(w, a))), UNCHANGED decision
      PROVE  ListOfRules!Next
  <2>1. Table' = InsertRule(Table, Fresh(w, a))
    BY <1>0, <1>3, InsertKeeps DEF SetTable, Table, TableOK
  <2>2. l' \in ListOfRules!Insertions(l, Fresh(w, a))
    BY <1>0, <2>1, InsertImplements
  <2>3. ListOfRules!InsertOne
    BY <1>3, <2>2, SameData DEF ListOfRules!InsertOne
  <2>4. QED
    BY <2>3 DEF ListOfRules!Next
<1>4. ASSUME NEW w1 \in WindowLists, NEW w2 \in WindowLists,
             NEW a1 \in Actions, NEW a2 \in Actions, RxOpenPathInside(w1, a1, w2, a2)
      PROVE  ListOfRules!Next
  <2> DEFINE mid == InsertRule(Table, Fresh(w1, a1))
  <2>1. TableOK(mid) /\ LookupOrder(mid) \in ListOfRules!Insertions(l, Fresh(w1, a1))
    BY <1>0, InsertKeeps, InsertImplements
  <2>2. Table' = InsertRule(mid, Fresh(w2, a2))
    BY <1>4, <2>1, InsertKeeps DEF RxOpenPathInside, SetTable, Table, TableOK
  <2> HIDE DEF mid
  <2>3. l' \in ListOfRules!Insertions(LookupOrder(mid), Fresh(w2, a2))
    BY <2>1, <2>2, InsertImplements
  <2>4. ListOfRules!InsertTwo
    <3> HIDE DEF l
    <3>1. w1 \in WindowLists \ Aged /\ w2 \in WindowLists \ Aged /\ UNCHANGED decision
      BY <1>4 DEF RxOpenPathInside
    <3>2. QED
      BY <2>1, <2>3, <3>1, SameData DEF ListOfRules!InsertTwo, l
  <2>5. QED
    BY <2>4 DEF ListOfRules!Next
<1>5. ASSUME NEW k \in Slots, RemoveRuleIndex(k)
      PROVE  ListOfRules!Next
  <2> DEFINE i == GetActualFlowIndex(flow_table_free_pos, IndexRead(k))
  <2>1. /\ i \in Slots
        /\ flowTable' = [flowTable EXCEPT ![i] = NoRule]
        /\ flow_table_free_pos' = flow_table_free_pos
        /\ UNCHANGED decision
    BY <1>5 DEF RemoveRuleIndex
  <2> HIDE DEF i
  <2>2. PICK j \in Slots : GetActualFlowIndex(flow_table_free_pos, j) = i
    BY <1>0, <1>t, <2>1, IndexSurjective DEF TableOK
  <2>3. l' = [l EXCEPT ![j] = NoRule]
    <3>1. LookupOrder([rules |-> [Table.rules EXCEPT
                                    ![GetActualFlowIndex(Table.free, j)] = NoRule],
                       free  |-> Table.free]) = [l EXCEPT ![j] = NoRule]
      BY <1>0, SetSlot
    <3>2. Table' = [rules |-> [flowTable EXCEPT ![i] = NoRule], free |-> flow_table_free_pos]
      BY <2>1 DEF Table
    <3>3. QED
      BY <1>t, <2>2, <3>1, <3>2
  <2>4. ListOfRules!Remove
    BY <2>1, <2>3, SameData DEF ListOfRules!Remove
  <2>5. QED
    BY <2>4 DEF ListOfRules!Next
<1>6. ASSUME UpdateTable
      PROVE  ListOfRules!Next
  <2>1. \A j \in Slots : GetActualFlowIndex(flow_table_free_pos, j) \in Slots
    BY <1>0, <1>t, IndexType DEF TableOK
  <2>2. l' = [j \in Slots |-> Age(l[j])]
    BY <1>6, <1>t, <2>1 DEF UpdateTable, LookupOrder, Table
  <2>3. ListOfRules!AgeAll
    BY <1>6, <2>2, SameData DEF UpdateTable, ListOfRules!AgeAll
  <2>4. QED
    BY <2>3 DEF ListOfRules!Next
<1>7. ASSUME NEW p \in Packets, RunFlowMatch(p)
      PROVE  ListOfRules!Next
  <2>1. l' = l /\ decision' = FirstMatch(l, p)
    BY <1>7 DEF RunFlowMatch, Table
  <2>2. ListOfRules!Lookup
    BY <2>1, SameData DEF ListOfRules!Lookup
  <2>3. QED
    BY <2>2 DEF ListOfRules!Next
<1>8. CASE UNCHANGED vars
  BY <1>8 DEF vars, Table, ListOfRules!vars
<1>9. QED
  BY <1>1, <1>2, <1>3, <1>4, <1>5, <1>6, <1>7, <1>8
     DEF Next, RxResponse, RxOpenPathEnd

\* ImplementsRuleList: the ring of slots, seen through getActualFlowIndex,
\* behaves as the list of RuleList.
THEOREM RingImplementsList == Spec => ImplementsRuleList
<1>1. QED
  BY InitInv, NextInv, InitRefines, NextRefines, PTL
     DEF Spec, ImplementsRuleList, ListOfRules!Spec
------------------------------------------------------------------------------
(* Next hops *)

\* What NextHops reads the ring for: rule 0 is towards a sink or the mote
\* itself, or blank, and a rule that is not blank has actions.
SinkRule(e) == e.win \in SinkWindows \cup {OwnWindows, NoWindows}

Acts(e) == ~Blank(e) => e.act \in Actions

HopOK(t) == SinkRule(t.rules[0]) /\ \A i \in Slots : Acts(t.rules[i])

HopInv == IInv /\ HopOK(Table)

\* In a ring without doubles a destination has the actions of its one rule.
LEMMA HopIs ==
  ASSUME NEW t, TableOK(t), OnceOnly(t), NEW w \in Destinations
  PROVE  /\ \A i \in Slots \ {0} : t.rules[i].win = w => NextHop(t.rules)[w] = t.rules[i].act
         /\ (\A i \in Slots \ {0} : t.rules[i].win # w) => NextHop(t.rules)[w] = NoAction
<1> DEFINE at == {i \in Slots \ {0} : t.rules[i].win = w}
<1>1. NextHop(t.rules)[w] = IF at = {} THEN NoAction ELSE t.rules[CHOOSE i \in at : TRUE].act
  BY DEF NextHop
<1>2. ASSUME NEW i \in Slots \ {0}, t.rules[i].win = w
      PROVE  NextHop(t.rules)[w] = t.rules[i].act
  <2>1. w # NoWindows
    BY RulesAssumption DEF Destinations
  <2>2. \A k \in at : k = i
    BY <1>2, <2>1 DEF OnceOnly, SameWindows, Blank
  <2>3. i \in at
    BY <1>2
  <2>4. (CHOOSE k \in at : TRUE) = i
    <3> HIDE DEF at
    <3> QED BY <2>2, <2>3
  <2>5. QED BY <1>1, <2>3, <2>4
<1>3. ASSUME \A i \in Slots \ {0} : t.rules[i].win # w
      PROVE  NextHop(t.rules)[w] = NoAction
  <2>1. at = {}
    BY <1>3
  <2>2. QED BY <1>1, <2>1
<1>4. QED BY <1>2, <1>3

\* Writing a slot of the ring changes what is done for the destination written
\* and for the one written over.
LEMMA HopWritten ==
  ASSUME NEW t, TableOK(t), OnceOnly(t), NEW i \in Slots \ {0}, NEW e \in Entry,
         NEW u, TableOK(u), OnceOnly(u), u.rules = [t.rules EXCEPT ![i] = e],
         NEW w \in Destinations
  PROVE  NextHop(u.rules)[w] = IF e.win = w THEN e.act
                               ELSE IF t.rules[i].win = w THEN NoAction
                               ELSE NextHop(t.rules)[w]
<1> DEFINE Ring == Slots \ {0}
<1>1. \A k \in Ring : u.rules[k] = IF k = i THEN e ELSE t.rules[k]
  BY DEF TableOK
<1>2. \A k \in Ring : u.rules[k].win = w => NextHop(u.rules)[w] = u.rules[k].act
  BY HopIs
<1>3. (\A k \in Ring : u.rules[k].win # w) => NextHop(u.rules)[w] = NoAction
  BY HopIs
<1>4. \A k \in Ring : t.rules[k].win = w => NextHop(t.rules)[w] = t.rules[k].act
  BY HopIs
<1>5. (\A k \in Ring : t.rules[k].win # w) => NextHop(t.rules)[w] = NoAction
  BY HopIs
<1>6. \A k \in Ring : t.rules[i].win = w /\ t.rules[k].win = w => k = i
  BY RulesAssumption DEF OnceOnly, SameWindows, Blank, Destinations
<1> DEFINE old == t.rules
           new == u.rules
           hop == NextHop(new)[w]
           was == NextHop(old)[w]
<1>7. i \in Ring
  OBVIOUS
<1> HIDE DEF Ring, old, new, hop, was
<1>8. CASE e.win = w
  BY <1>1, <1>2, <1>7, <1>8
<1>9. CASE e.win # w /\ t.rules[i].win = w
  BY <1>1, <1>3, <1>6, <1>9
<1>10. CASE e.win # w /\ t.rules[i].win # w
  BY <1>1, <1>2, <1>3, <1>4, <1>5, <1>10
<1>11. QED BY <1>8, <1>9, <1>10

\* Slot 0 plays no part.
LEMMA HopOfRing ==
  ASSUME NEW t, TableOK(t), NEW e
  PROVE  NextHop([t.rules EXCEPT ![0] = e]) = NextHop(t.rules)
<1>1. \A i \in Slots \ {0} : [t.rules EXCEPT ![0] = e][i] = t.rules[i]
  BY DEF TableOK
<1> DEFINE u == [t.rules EXCEPT ![0] = e]
           At(r, w) == {i \in Slots \ {0} : r[i].win = w}
           Hop(r, w) == IF At(r, w) = {} THEN NoAction ELSE r[CHOOSE i \in At(r, w) : TRUE].act
<1>2. \A w : At(u, w) = At(t.rules, w) /\ At(u, w) \subseteq Slots \ {0}
  BY <1>1
<1>3. \A w : Hop(u, w) = Hop(t.rules, w)
  <2> TAKE w
  <2>1. CASE At(u, w) = {}
    BY <1>2, <2>1
  <2>2. CASE At(u, w) # {}
    <3> DEFINE i == CHOOSE k \in At(u, w) : TRUE
    <3>1. i \in At(u, w)
      BY <2>2
    <3>2. i \in Slots \ {0}
      BY <1>2, <3>1
    <3>3. u[i] = t.rules[i]
      BY <1>1, <3>2
    <3>4. At(u, w) = At(t.rules, w)
      BY <1>2
    <3> HIDE DEF At, u
    <3>5. QED BY <2>2, <3>3, <3>4
  <2>3. QED BY <2>1, <2>2
<1>4. \A r : NextHop(r) = [w \in Destinations |-> Hop(r, w)]
  BY DEF NextHop
<1> HIDE DEF Hop, u
<1>5. NextHop(u) = NextHop(t.rules)
  BY <1>3, <1>4
<1>6. QED BY <1>5 DEF u

LEMMA HopFunction ==
  ASSUME NEW rules
  PROVE  NextHop(rules) = [w \in Destinations |-> NextHop(rules)[w]]
<1> DEFINE Hop(w) == LET at == {i \in Slots \ {0} : rules[i].win = w}
                     IN  IF at = {} THEN NoAction ELSE rules[CHOOSE i \in at : TRUE].act
<1>1. NextHop(rules) = [w \in Destinations |-> Hop(w)]
  BY DEF NextHop
<1> HIDE DEF Hop
<1>2. QED BY <1>1

\* An insertion brings what it says for its destination, and forgets another one
\* at most, none if the destination was known.
LEMMA InsertHops ==
  ASSUME NEW t, TableOK(t), OnceOnly(t), HopOK(t), NEW w \in WindowLists, NEW a \in Actions
  PROVE  LET h == NextHop(t.rules)
             u == InsertRule(t, Fresh(w, a))
         IN  /\ HopOK(u)
             /\ w \in Destinations => NextHop(u.rules) \in HopTable!Installs(h, w, a)
             /\ w \notin Destinations =>
                  \/ NextHop(u.rules) = h
                  \/ \E v \in Destinations : NextHop(u.rules) = [h EXCEPT ![v] = NoAction]
<1> DEFINE r == Fresh(w, a)
           pos == SearchRule(t, r)
           u == InsertRule(t, r)
           h == NextHop(t.rules)
           g == NextHop(u.rules)
<1>1. r \in Entry /\ ~Blank(r) /\ r.win = w /\ r.act = a
  BY FreshType DEF Fresh
<1>2. TableOK(u) /\ OnceOnly(u)
  BY InsertKeeps
<1>3. 0 \in Slots /\ t.free \in Slots \ {0} /\ \A k \in Slots : t.rules[k] \in Entry
  BY RulesAssumption DEF TableOK, Slots
<1>4. h = [v \in Destinations |-> h[v]] /\ g = [v \in Destinations |-> g[v]]
  BY HopFunction
<1>5. CASE pos \in Slots /\ SameWindows(t.rules[pos], r)
  <2>1. u = [t EXCEPT !.rules[pos] = r]
    BY <1>5, RulesAssumption DEF InsertRule, Slots
  <2> HIDE DEF r, pos, u
  <2>2. u.rules = [t.rules EXCEPT ![pos] = r] /\ t.rules[pos].win = w
    BY <1>1, <1>5, <2>1 DEF TableOK, SameWindows
  <2>3. \A k \in Slots : u.rules[k] = IF k = pos THEN r ELSE t.rules[k]
    BY <2>2 DEF TableOK
  <2>4. HopOK(u)
    BY <1>1, <1>3, <2>2, <2>3 DEF HopOK, SinkRule, Acts
  <2>5. CASE pos = 0
    <3>1. w \notin Destinations
      BY <2>2, <2>5, RulesAssumption DEF HopOK, SinkRule, Destinations
    <3>2. u.rules = [t.rules EXCEPT ![0] = r]
      BY <2>2, <2>5
    <3>3. NextHop([t.rules EXCEPT ![0] = r]) = h
      BY HopOfRing
    <3>4. g = h
      BY <3>2, <3>3
    <3>5. QED BY <2>4, <3>1, <3>4 DEF u, r
  <2>6. CASE pos # 0
    <3>1. pos \in Slots \ {0}
      BY <1>5, <2>6
    <3>2. \A v \in Destinations : g[v] = IF v = w THEN a ELSE h[v]
      BY <1>1, <1>2, <2>2, <3>1, HopWritten
    <3> HIDE DEF g, h
    <3>3. w \in Destinations => g = [h EXCEPT ![w] = a]
      BY <1>4, <3>2
    <3>4. w \notin Destinations => g = h
      BY <1>4, <3>2
    <3>5. w \in Destinations => g \in HopTable!Installs(h, w, a)
      BY <3>3 DEF HopTable!Installs
    <3>6. QED BY <2>4, <3>4, <3>5 DEF u, r, g, h
  <2>7. QED BY <2>5, <2>6
<1>6. CASE pos = RlsMax + 1 /\ \A i \in Slots : ~SameWindows(t.rules[i], r)
  <2> DEFINE f == t.free
             x == t.rules[f].win
  <2>1. u.rules = [t.rules EXCEPT ![f] = r]
    BY <1>6, RulesAssumption DEF InsertRule
  <2> HIDE DEF r, pos, u
  <2>2. \A k \in Slots : t.rules[k].win # w
    BY <1>1, <1>6 DEF SameWindows
  <2>3. \A k \in Slots : u.rules[k] = IF k = f THEN r ELSE t.rules[k]
    BY <2>1 DEF TableOK
  <2>4. HopOK(u)
    BY <1>1, <1>3, <2>3 DEF HopOK, Acts
  <2>5. \A v \in Destinations : g[v] = IF v = w THEN a ELSE IF v = x THEN NoAction ELSE h[v]
    BY <1>1, <1>2, <1>3, <2>1, HopWritten
  <2>6. x # w /\ (w \in Destinations => h[w] = NoAction)
    BY <1>3, <2>2, HopIs
  <2> HIDE DEF g, h, x
  <2>7. w \in Destinations /\ x \in Destinations => g = [h EXCEPT ![w] = a, ![x] = NoAction]
    BY <1>4, <2>5, <2>6
  <2>8. w \in Destinations /\ x \notin Destinations => g = [h EXCEPT ![w] = a]
    BY <1>4, <2>5
  <2>9. w \notin Destinations /\ x \in Destinations => g = [h EXCEPT ![x] = NoAction]
    BY <1>4, <2>5
  <2>10. w \notin Destinations /\ x \notin Destinations => g = h
    BY <1>4, <2>5
  <2>11. w \in Destinations => g \in HopTable!Installs(h, w, a)
    BY <2>6, <2>7, <2>8 DEF HopTable!Installs
  <2>12. QED BY <2>4, <2>9, <2>10, <2>11 DEF u, r, g, h
<1>7. QED
  BY <1>5, <1>6, SearchRuleResult

LEMMA HopInit == Init => HopInv /\ HopTable!Init
<1> SUFFICES ASSUME Init PROVE HopInv /\ HopTable!Init
  OBVIOUS
<1>1. IInv
  BY InitInv
<1>2. /\ 0 \in Slots /\ flowTable[0].win = OwnWindows /\ flowTable[0].act \in Actions
      /\ \A i \in Slots \ {0} : flowTable[i] = NoRule
  BY RulesAssumption, TableAssumption DEF Init, Slots
<1>3. HopOK(Table)
  BY <1>2, NoRuleType DEF HopOK, SinkRule, Acts, Table
<1>4. \A w \in Destinations : NextHop(flowTable)[w] = NoAction
  <2>1. \A w \in Destinations, i \in Slots \ {0} : Table.rules[i].win # w
    BY <1>2, RulesAssumption DEF Table, NoRule, Destinations
  <2>2. QED BY <1>1, <2>1, HopIs DEF IInv, TypeInv, Table
<1>5. NextHop(flowTable) = [w \in Destinations |-> NoAction]
  BY <1>4 DEF NextHop
<1>6. QED BY <1>1, <1>3, <1>5 DEF HopInv, HopTable!Init

\* One step of the table, from slots to slots.
LEMMA HopStutters ==
  ASSUME HopInv, NEW e, SinkRule(e), Acts(e), flowTable' = [flowTable EXCEPT ![0] = e]
  PROVE  HopOK(Table)' /\ NextHop(flowTable)' = NextHop(flowTable)
<1>1. TableOK(Table) /\ HopOK(Table) /\ 0 \in Slots
  BY RulesAssumption DEF HopInv, IInv, TypeInv, Slots
<1>2. /\ flowTable'[0] = e
      /\ \A i \in Slots \ {0} : flowTable'[i] = flowTable[i]
  BY <1>1 DEF TableOK, Table
<1>3. HopOK(Table)'
  BY <1>1, <1>2 DEF HopOK, Table
<1>4. NextHop([Table.rules EXCEPT ![0] = e]) = NextHop(Table.rules)
  BY <1>1, HopOfRing
<1>5. QED BY <1>3, <1>4 DEF Table

\* Ageing keeps the actions of a rule, and blanks those with several windows only.
LEMMA AgeHop ==
  ASSUME NEW e \in Entry
  PROVE  /\ ~Blank(Age(e)) => Age(e).win = e.win /\ Age(e).act = e.act
         /\ e.win \notin Aged => Age(e) = e
         /\ SinkRule(e) => SinkRule(Age(e))
<1>1. CASE e.win \notin Aged \/ e.ttl = TtlPermanent
  BY <1>1 DEF Age
<1>2. CASE ~(e.win \notin Aged \/ e.ttl = TtlPermanent) /\ e.ttl >= TtlDecr
  <2>1. Age(e) = [e EXCEPT !.ttl = @ - TtlDecr]
    BY <1>2 DEF Age
  <2>2. Age(e).win = e.win /\ Age(e).act = e.act
    BY <2>1 DEF Entry
  <2>3. QED BY <1>2, <2>2 DEF SinkRule
<1>3. CASE ~(e.win \notin Aged \/ e.ttl = TtlPermanent) /\ ~(e.ttl >= TtlDecr)
  <2>1. Age(e) = NoRule
    BY <1>3 DEF Age
  <2>2. QED BY <1>3, <2>1 DEF NoRule, Blank, SinkRule
<1>4. QED BY <1>1, <1>2, <1>3

\* A rule taken out of the ring takes its destination with it.
LEMMA HopErased ==
  ASSUME HopInv, NEW i \in Slots \ {0}, flowTable' = [flowTable EXCEPT ![i] = NoRule],
         IInv', flow_table_free_pos' = flow_table_free_pos
  PROVE  /\ HopOK(Table)'
         /\ \/ NextHop(flowTable)' = NextHop(flowTable)
            \/ HopTable!Erase
<1> DEFINE h == NextHop(flowTable)
           g == NextHop(flowTable')
           x == flowTable[i].win
<1>1. /\ TableOK(Table) /\ OnceOnly(Table) /\ HopOK(Table) /\ 0 \in Slots
      /\ TableOK(Table') /\ OnceOnly(Table')
  BY RulesAssumption DEF HopInv, IInv, TypeInv, Slots, TableOK, OnceOnly
<1>2. \A k \in Slots : flowTable'[k] = IF k = i THEN NoRule ELSE flowTable[k]
  BY <1>1 DEF TableOK, Table
<1>3. HopOK(Table)'
  BY <1>1, <1>2, NoRuleType DEF HopOK, Table, Acts
<1>4. Table'.rules = [Table.rules EXCEPT ![i] = NoRule]
  BY DEF Table
<1>5. \A w \in Destinations : NextHop(Table'.rules)[w] =
           IF NoRule.win = w THEN NoRule.act
           ELSE IF Table.rules[i].win = w THEN NoAction ELSE NextHop(Table.rules)[w]
  BY <1>1, <1>4, NoRuleType, HopWritten
<1>6. \A w \in Destinations : g[w] = IF x = w THEN NoAction ELSE h[w]
  BY <1>5, RulesAssumption DEF Table, NoRule, Destinations
<1>7. h = [w \in Destinations |-> h[w]] /\ g = [w \in Destinations |-> g[w]]
  BY HopFunction
<1> HIDE DEF h, g, x
<1>8. CASE x \in Destinations
  <2>1. g = [h EXCEPT ![x] = NoAction]
    BY <1>6, <1>7, <1>8
  <2>2. HopTable!Erase
    BY <1>8, <2>1 DEF HopTable!Erase, h, g
  <2>3. QED BY <1>3, <2>2
<1>9. CASE x \notin Destinations
  <2>1. g = h
    BY <1>6, <1>7, <1>9
  <2>2. QED BY <1>3, <2>1 DEF h, g
<1>10. QED BY <1>8, <1>9

\* updateTable takes out rules with several windows only.
LEMMA HopsAge ==
  ASSUME HopInv, flowTable' = [i \in Slots |-> Age(flowTable[i])], IInv',
         flow_table_free_pos' = flow_table_free_pos
  PROVE  HopOK(Table)' /\ HopTable!AgeSome
<1> DEFINE h == NextHop(flowTable)
           g == NextHop(flowTable')
           F == {w \in Aged \cap Destinations : g[w] = NoAction}
<1>1. /\ TableOK(Table) /\ OnceOnly(Table) /\ HopOK(Table) /\ 0 \in Slots
      /\ TableOK(Table') /\ OnceOnly(Table')
      /\ \A i \in Slots : flowTable[i] \in Entry
  BY RulesAssumption DEF HopInv, IInv, TypeInv, Slots, TableOK, OnceOnly, Table
<1>2. \A i \in Slots : flowTable'[i] = Age(flowTable[i])
  OBVIOUS
<1>3. HopOK(Table)'
  <2>1. SinkRule(flowTable'[0])
    BY <1>1, <1>2, AgeHop DEF HopOK, Table
  <2>2. \A i \in Slots : Acts(flowTable'[i])
    <3> TAKE i \in Slots
    <3>1. Acts(flowTable[i])
      BY <1>1 DEF HopOK, Table
    <3>2. ~Blank(Age(flowTable[i])) =>
              Age(flowTable[i]).win = flowTable[i].win /\ Age(flowTable[i]).act = flowTable[i].act
      BY <1>1, AgeHop
    <3>3. QED BY <1>2, <3>1, <3>2 DEF Acts, Blank
  <2>3. QED BY <2>1, <2>2 DEF HopOK, Table
<1>4. ASSUME NEW w \in Destinations
      PROVE  g[w] = IF w \in F THEN NoAction ELSE h[w]
  <2>1. /\ \A i \in Slots \ {0} : flowTable[i].win = w => h[w] = flowTable[i].act
        /\ (\A i \in Slots \ {0} : flowTable[i].win # w) => h[w] = NoAction
    <3>1. /\ \A i \in Slots \ {0} : Table.rules[i].win = w => NextHop(Table.rules)[w] = Table.rules[i].act
          /\ (\A i \in Slots \ {0} : Table.rules[i].win # w) => NextHop(Table.rules)[w] = NoAction
      BY <1>1, HopIs
    <3>2. QED BY <3>1 DEF Table
  <2>2. /\ \A i \in Slots \ {0} : flowTable'[i].win = w => g[w] = flowTable'[i].act
        /\ (\A i \in Slots \ {0} : flowTable'[i].win # w) => g[w] = NoAction
    <3>1. /\ \A i \in Slots \ {0} : Table'.rules[i].win = w => NextHop(Table'.rules)[w] = Table'.rules[i].act
          /\ (\A i \in Slots \ {0} : Table'.rules[i].win # w) => NextHop(Table'.rules)[w] = NoAction
      BY <1>1, HopIs
    <3>2. QED BY <3>1 DEF Table
  <2>3. w # NoWindows
    BY RulesAssumption DEF Destinations
  <2> HIDE DEF h, g
  <2>4. \A i \in Slots \ {0} : flowTable'[i].win = w =>
             flowTable[i].win = w /\ flowTable'[i].act = flowTable[i].act
    BY <1>1, <1>2, <2>3, AgeHop DEF Blank
  <2>5. w \notin Aged => \A i \in Slots \ {0} : flowTable[i].win = w => flowTable'[i] = flowTable[i]
    BY <1>1, <1>2, AgeHop
  <2>6. CASE \E i \in Slots \ {0} : flowTable'[i].win = w
    BY <2>1, <2>2, <2>4, <2>6
  <2>7. CASE \A i \in Slots \ {0} : flowTable'[i].win # w
    BY <2>1, <2>2, <2>5, <2>7
  <2>8. QED BY <2>6, <2>7
<1>5. h = [w \in Destinations |-> h[w]] /\ g = [w \in Destinations |-> g[w]]
  BY HopFunction
<1>6. F \in SUBSET (Aged \cap Destinations)
  OBVIOUS
<1> HIDE DEF h, g, F
<1>7. g = [w \in Destinations |-> IF w \in F THEN NoAction ELSE h[w]]
  BY <1>4, <1>5
<1>8. HopTable!AgeSome
  BY <1>6, <1>7 DEF HopTable!AgeSome, h, g
<1>9. QED BY <1>3, <1>8

\* Every handler is a step of NextHops.
LEMMA HopNext == HopInv /\ [Next]_vars => HopInv' /\ [HopTable!Next]_(NextHop(flowTable))
<1> SUFFICES ASSUME HopInv, [Next]_vars
             PROVE  HopOK(Table)' /\ (NextHop(flowTable)' = NextHop(flowTable) \/ HopTable!Next)
  BY NextInv DEF HopInv
<1>1. /\ TableOK(Table) /\ OnceOnly(Table) /\ HopOK(Table) /\ IInv'
      /\ TableOK(Table') /\ flowTable = Table.rules /\ flowTable' = Table'.rules
  <2>1. IInv'
    BY NextInv DEF HopInv
  <2>2. TableOK(Table')
    BY <2>1 DEF IInv, TypeInv, TableOK
  <2>3. QED BY <2>1, <2>2 DEF HopInv, IInv, TypeInv, Table
<1>2. ASSUME NEW w \in SinkWindows, NEW a \in Parents, AdoptParent(w, a)
      PROVE  HopOK(Table)' /\ NextHop(flowTable)' = NextHop(flowTable)
  <2>1. flowTable' = [flowTable EXCEPT ![0] = Fresh(w, a)]
    BY <1>2 DEF AdoptParent
  <2>2. SinkRule(Fresh(w, a)) /\ Acts(Fresh(w, a))
    BY TableAssumption DEF SinkRule, Acts, Fresh
  <2>3. QED BY <2>1, <2>2, HopStutters
<1>3. ASSUME NEW w \in SinkWindows, NEW a \in Parents, RefreshParent(w, a)
      PROVE  HopOK(Table)' /\ NextHop(flowTable)' = NextHop(flowTable)
  <2> DEFINE e == [win |-> w, act |-> a, ttl |-> TtlMax]
  <2>1. flowTable[0] \in Entry /\ flowTable[0].act = a
    BY <1>1, <1>3, RulesAssumption DEF TableOK, Slots, RefreshParent
  <2>2. e = [flowTable[0] EXCEPT !.ttl = TtlMax, !.win = w]
    BY <2>1, RefreshType
  <2>3. flowTable' = [flowTable EXCEPT ![0] = e]
    BY <1>3, <2>2 DEF RefreshParent
  <2>4. SinkRule(e) /\ Acts(e)
    BY TableAssumption DEF SinkRule, Acts
  <2> HIDE DEF e
  <2>5. QED BY <2>3, <2>4, HopStutters
<1>4. ASSUME NEW w \in WindowLists, NEW a \in Actions, RxResponse(w, a) \/ RxOpenPathEnd(w, a)
      PROVE  HopOK(Table)' /\ (NextHop(flowTable)' = NextHop(flowTable) \/ HopTable!Next)
  <2> DEFINE u == InsertRule(Table, Fresh(w, a))
             h == NextHop(flowTable)
  <2>1. Table' = u
    BY <1>1, <1>4, InsertKeeps DEF RxResponse, RxOpenPathEnd, SetTable, Table, TableOK
  <2>2. /\ HopOK(u)
        /\ w \in Destinations => NextHop(u.rules) \in HopTable!Installs(h, w, a)
        /\ w \notin Destinations =>
             \/ NextHop(u.rules) = h
             \/ \E v \in Destinations : NextHop(u.rules) = [h EXCEPT ![v] = NoAction]
    BY <1>1, InsertHops
  <2> HIDE DEF u
  <2>3. HopOK(Table)'
    BY <2>1, <2>2 DEF HopOK
  <2>4. NextHop(flowTable)' = NextHop(u.rules)
    BY <1>1, <2>1
  <2>5. QED
    BY <2>2, <2>3, <2>4 DEF HopTable!Next, HopTable!InstallOne, HopTable!Erase
<1>5. ASSUME NEW w1 \in WindowLists, NEW w2 \in WindowLists,
             NEW a1 \in Actions, NEW a2 \in Actions, RxOpenPathInside(w1, a1, w2, a2)
      PROVE  HopOK(Table)' /\ HopTable!InstallTwo
  <2> DEFINE mid == InsertRule(Table, Fresh(w1, a1))
             u == InsertRule(mid, Fresh(w2, a2))
             h == NextHop(flowTable)
  <2>1. w1 # w2 /\ w1 \in Destinations /\ w2 \in Destinations
    BY <1>5, TableAssumption DEF RxOpenPathInside, Destinations
  <2>2. TableOK(mid) /\ OnceOnly(mid)
    BY <1>1, InsertKeeps
  <2>3. HopOK(mid) /\ NextHop(mid.rules) \in HopTable!Installs(h, w1, a1)
    BY <1>1, <2>1, InsertHops
  <2>4. Table' = u
    <3> HIDE DEF mid
    <3>1. TableOK(u)
      BY <2>2, InsertKeeps
    <3>2. QED BY <1>5, <3>1 DEF RxOpenPathInside, SetTable, Table, TableOK, mid
  <2> HIDE DEF mid
  <2>5. HopOK(u) /\ NextHop(u.rules) \in HopTable!Installs(NextHop(mid.rules), w2, a2)
    BY <2>1, <2>2, <2>3, InsertHops
  <2> HIDE DEF u
  <2>6. HopOK(Table)'
    BY <2>4, <2>5 DEF HopOK
  <2>7. NextHop(flowTable)' = NextHop(u.rules)
    BY <1>1, <2>4
  <2>8. QED BY <2>1, <2>3, <2>5, <2>6, <2>7 DEF HopTable!InstallTwo
<1>6. ASSUME NEW k \in Slots, RemoveRuleIndex(k)
      PROVE  HopOK(Table)' /\ (NextHop(flowTable)' = NextHop(flowTable) \/ HopTable!Erase)
  <2> DEFINE j == IndexRead(k)
             i == GetActualFlowIndex(flow_table_free_pos, j)
  <2>1. /\ j # 0 /\ i \in Slots /\ flowTable' = [flowTable EXCEPT ![i] = NoRule]
        /\ flow_table_free_pos' = flow_table_free_pos
    BY <1>6 DEF RemoveRuleIndex
  <2> HIDE DEF i
  <2>2. CASE i # 0
    BY <1>1, <2>1, <2>2, HopErased
  <2>3. CASE i = 0
    <3>1. SinkRule(NoRule) /\ Acts(NoRule)
      BY NoRuleType DEF SinkRule, Acts, NoRule
    <3>2. QED BY <2>1, <2>3, <3>1, HopStutters
  <2>4. QED BY <2>2, <2>3
<1>7. ASSUME UpdateTable
      PROVE  HopOK(Table)' /\ HopTable!AgeSome
  BY <1>1, <1>7, HopsAge DEF UpdateTable
<1>8. ASSUME UNCHANGED <<flowTable, flow_table_free_pos>>
      PROVE  HopOK(Table)' /\ NextHop(flowTable)' = NextHop(flowTable)
  BY <1>1, <1>8 DEF HopOK, Table
<1>9. ASSUME NEW p \in Packets, RunFlowMatch(p)
      PROVE  UNCHANGED <<flowTable, flow_table_free_pos>>
  BY <1>9 DEF RunFlowMatch
<1>10. CASE UNCHANGED vars
  BY <1>8, <1>10 DEF vars
<1>11. CASE Next
  BY <1>2, <1>3, <1>4, <1>5, <1>6, <1>7, <1>8, <1>9, <1>11 DEF Next, HopTable!Next
<1>12. QED BY <1>10, <1>11

\* A packet that no rule towards a sink matches is treated by a rule the ring has
\* for it, and taken to the controller only if it has none.
LEMMA LookupFindsHop == HopInv => FindsNextHop
<1> SUFFICES ASSUME HopInv, NEW p \in Packets,
                    \A w \in SinkWindows \cup {OwnWindows} : <<w, p>> \notin Matches
             PROVE  LET held == {w \in Destinations :
                                   <<w, p>> \in Matches /\ NextHop(flowTable)[w] # NoAction}
                    IN  FirstMatch(LookupOrder(Table), p) \in
                          (IF held = {} THEN {Ask} ELSE {NextHop(flowTable)[w] : w \in held})
  BY DEF FindsNextHop
<1> DEFINE h == NextHop(flowTable)
           held == {w \in Destinations : <<w, p>> \in Matches /\ h[w] # NoAction}
           l == LookupOrder(Table)
           hits == {j \in Slots : MatchRule(l[j], p)}
           At(j) == GetActualFlowIndex(flow_table_free_pos, j)
<1>1. /\ TableOK(Table) /\ OnceOnly(Table) /\ HopOK(Table) /\ Table.rules = flowTable
      /\ flow_table_free_pos \in 1 .. (RlsMax - 1) /\ 0 \in Slots
  BY RulesAssumption DEF HopInv, IInv, TypeInv, TableOK, Table, Slots
<1>2. \A j \in Slots : At(j) \in Slots /\ l[j] = flowTable[At(j)]
  BY <1>1, IndexType DEF LookupOrder, Table
<1>3. /\ \A w \in Destinations, i \in Slots \ {0} : flowTable[i].win = w => h[w] = flowTable[i].act
      /\ \A w \in Destinations :
           (\A i \in Slots \ {0} : flowTable[i].win # w) => h[w] = NoAction
  BY <1>1, HopIs
<1>4. ASSUME NEW i \in Slots, MatchRule(flowTable[i], p)
      PROVE  flowTable[i].win \in held /\ h[flowTable[i].win] = flowTable[i].act
  <2> DEFINE w == flowTable[i].win
  <2>1. <<w, p>> \in Matches /\ w # NoWindows
    BY <1>4 DEF MatchRule, Blank
  <2>2. w \in Destinations
    BY <2>1, RulesAssumption DEF Destinations
  <2>3. i # 0
    BY <1>1, <2>1, <2>2 DEF HopOK, SinkRule, Destinations
  <2>4. flowTable[i].act \in Actions
    BY <1>1, <2>1 DEF HopOK, Acts, Blank
  <2> HIDE DEF h
  <2>5. h[w] = flowTable[i].act
    BY <1>3, <2>2, <2>3
  <2>6. QED BY <2>1, <2>2, <2>4, <2>5, RulesAssumption
<1>5. CASE hits = {}
  <2>1. FirstMatch(l, p) = Ask
    BY <1>5 DEF FirstMatch
  <2>2. ASSUME NEW w \in held PROVE FALSE
    <3>1. PICK i \in Slots \ {0} : flowTable[i].win = w
      <4> HIDE DEF h
      <4> QED BY <1>3
    <3>2. PICK j \in Slots : At(j) = i
      BY <1>1, <3>1, IndexSurjective
    <3>3. MatchRule(l[j], p)
      BY <1>2, <3>1, <3>2, RulesAssumption DEF MatchRule, Blank, Destinations
    <3>4. QED BY <1>5, <3>3
  <2> HIDE DEF held, l, hits
  <2>3. QED BY <2>1, <2>2 DEF held, l
<1>6. CASE hits # {}
  <2>1. PICK m \in hits : FirstMatch(l, p) = l[m].act
    <3>1. hits \in SUBSET Nat
      BY RulesAssumption DEF Slots
    <3>2. \E m \in hits : \A k \in hits : m <= k
      <4> HIDE DEF hits
      <4> QED BY <1>6, <3>1, LeastElement
    <3>3. FirstMatch(l, p) = l[CHOOSE j \in hits : \A k \in hits : j <= k].act
      BY <1>6 DEF FirstMatch
    <3> HIDE DEF hits
    <3>4. QED BY <3>2, <3>3
  <2>2. At(m) \in Slots /\ MatchRule(flowTable[At(m)], p) /\ l[m] = flowTable[At(m)]
    BY <1>2
  <2> DEFINE w == flowTable[At(m)].win
  <2>3. w \in held /\ h[w] = FirstMatch(l, p)
    BY <1>4, <2>1, <2>2
  <2> HIDE DEF held, l, hits, w, h
  <2>4. QED BY <2>3 DEF held, l, h
<1>7. QED BY <1>5, <1>6

\* What PathSetup takes a table for is what it is: each step of it changes the
\* next hops as NextHops may, and a lookup finds them.
THEOREM RingImplementsHops == Spec => ImplementsNextHops
<1>1. QED
  BY HopInit, HopNext, LookupFindsHop, PTL DEF Spec, ImplementsNextHops, HopTable!Spec

==============================================================================
