-------------------------- MODULE ConfigQueryProofs --------------------------
(***************************************************************************)
(* Theorems of ConfigQuery, for any number of threads, motes and items and *)
(* whatever the times and delays are.                                      *)
(***************************************************************************)
EXTENDS ConfigQuery, FiniteSetTheorems, TLAPS

Values == SUBSET Int

Packets ==
  [from : Callers, mote : Motes, item : Items, value : Values, age : 0 .. MaxDelay,
   op : {"read", "answer", "set", "add", "remove"}]

Answers == [is : {"answer"}, mote : Motes, item : Items, value : Values]

Queries ==
  [pc : {"asleep", "found", "returned"}, mote : Motes, item : Items, left : Int,
   got : {NoAnswer, Null} \cup Answers, old : BOOLEAN, quiet : BOOLEAN, alone : BOOLEAN,
   inForce : SUBSET Values]

Types ==
  /\ held \in [Motes -> [Items -> Values]]
  /\ net \subseteq Packets
  /\ \A k \in DOMAIN cache : cache[k] \in [answer : Answers, age : 0 .. CacheTime]
  /\ caller \in [Callers -> {Idle} \cup Queries]
  /\ quiet \in [Motes -> [Items -> 0 .. Quiet]]

One(v) == \E n \in Int : v = {n}

\* How much there is of an item.
Sized(i, v) ==
  /\ i.kind \in {"timer", "byte"} => One(v)
  /\ i.kind = "accepted" => IsFiniteSet(v) /\ Cardinality(v) <= AcceptedMax

Sizes == \A m \in Motes, i \in Items : Sized(i, held[m][i])

\* A packet that writes is one that the item's set methods send.
FitsItem(x) ==
  /\ x.op = "set" => x.item.kind \in {"timer", "byte"} /\ One(x.value)
  /\ x.op = "add" => x.item.kind = "accepted" /\ One(x.value)
  /\ x.op = "remove" => x.item.kind \in {"accepted", "rule"}

WritesFit == \A x \in net : FitsItem(x)

\* An answer is kept under the key of the question it answers.
KeptUnderKey ==
  \A k \in DOMAIN cache : k = Key(cache[k].answer.mote, cache[k].answer.item)

Asking(c) == caller[c].pc \in {"asleep", "found"}

\* A thread that asks has no answer yet.
NothingYet == \A c \in Callers : Asking(c) => caller[c].got = NoAnswer

\* Of two threads that ask the same, neither is alone.
AloneMeansAlone ==
  \A c, d \in Callers :
     c # d /\ Asking(c) /\ Asks(d, caller[c].mote, caller[c].item) => ~caller[c].alone

\* What a thread alone has found stays there until it takes it, unless its time
\* was over.
FoundIsThere ==
  \A c \in Callers : caller[c].pc = "found" /\ caller[c].alone /\ ~caller[c].old =>
     Key(caller[c].mote, caller[c].item) \in DOMAIN cache \ Due

(***************************************************************************)
(* AnswersItsQuestion needs the keys of the map; NullOnlyIfShared needs to *)
(* know who else may take an answer between containsKey and remove.        *)
(***************************************************************************)
QueryInv ==
  /\ KeptUnderKey /\ NothingYet /\ AnswersItsQuestion
  /\ AloneMeansAlone /\ FoundIsThere /\ NullOnlyIfShared

IInv == Types /\ Sizes /\ WritesFit /\ QueryInv

------------------------------------------------------------------------------
(* The key and the values *)

\* Two items of motes have one key only if they are the same.
LEMMA KeyInjective ==
  ASSUME NEW m, NEW n, NEW i \in Items, NEW j \in Items, Key(m, i) = Key(n, j)
  PROVE  m = n /\ i = j
<1>1. i \in [kind : Kinds, n : Nat] /\ j \in [kind : Kinds, n : Nat]
  BY QueryAssumption
<1>2. m = n /\ ConfigId(i) = ConfigId(j)
      /\ (IF i.kind = "rule" THEN i.n ELSE 0) = (IF j.kind = "rule" THEN j.n ELSE 0)
  BY DEF Key
<1>3. i.kind = j.kind
  BY <1>2 DEF ConfigId
<1>4. i.n = j.n
  BY <1>2, <1>3 DEF ConfigId
<1>5. QED BY <1>1, <1>2, <1>3, <1>4

LEMMA RemainderIsInt ==
  ASSUME NEW x \in Int, NEW b \in Nat \ {0}
  PROVE  x % b \in Int /\ x \div b \in Int
OBVIOUS

LEMMA ByteSquare == ByteSize * ByteSize \in Nat \ {0}
BY QueryAssumption

LEMMA JoinedIsInt ==
  ASSUME NEW v \in Int
  PROVE  Joined(v) \in Int /\ Signed(v % ByteSize) \in Int
<1>1. v % ByteSize \in Int /\ v \div ByteSize \in Int
  BY RemainderIsInt, QueryAssumption
<1>2. \A b \in Int : Signed(b) \in Int
  BY QueryAssumption DEF Signed
<1>3. \A a, b \in Int : a * ByteSize + b \in Int
  BY QueryAssumption
<1>4. QED BY <1>1, <1>2, <1>3 DEF Joined

LEMMA ShownIsValue ==
  ASSUME NEW i \in Items, NEW v \in Values
  PROVE  Shown(i, v) \in Values
<1>1. i.kind \in Kinds
  BY QueryAssumption
<1>2. {x % (ByteSize * ByteSize) : x \in v} \in Values
  BY ByteSquare, RemainderIsInt DEF Values
<1>3. {x % ByteSize : x \in v} \in Values
  BY QueryAssumption, RemainderIsInt DEF Values
<1>4. {0} \in Values
  BY DEF Values
<1>5. QED BY <1>1, <1>2, <1>3, <1>4 DEF Shown, Kinds

\* A write that a mote carries out leaves it as much of the item as there may be.
LEMMA MarshalledIsSized ==
  ASSUME NEW x \in Packets, FitsItem(x), x.op \in {"set", "add", "remove"},
         NEW v \in Values, Sized(x.item, v)
  PROVE  Marshalled(x, v) \in Values /\ Sized(x.item, Marshalled(x, v))
<1>1. CASE x.op = "set" /\ x.item.kind = "timer"
  <2>1. PICK n \in Int : x.value = {n}
    BY <1>1 DEF FitsItem, One
  <2>2. Marshalled(x, v) = {Joined(n)}
    BY <1>1, <2>1 DEF Marshalled
  <2>3. QED BY <1>1, <2>2, JoinedIsInt DEF Values, Sized, One
<1>2. CASE x.op = "set" /\ x.item.kind = "byte"
  <2>1. PICK n \in Int : x.value = {n}
    BY <1>2 DEF FitsItem, One
  <2>2. Marshalled(x, v) = {Signed(n % ByteSize)}
    BY <1>2, <2>1 DEF Marshalled
  <2>3. QED BY <1>2, <2>2, JoinedIsInt DEF Values, Sized, One
<1>3. CASE x.op = "add"
  <2>1. PICK n \in Int : x.value = {n}
    BY <1>3 DEF FitsItem, One
  <2>2. x.item.kind = "accepted" /\ IsFiniteSet(v) /\ Cardinality(v) <= AcceptedMax
    BY <1>3 DEF FitsItem, Sized
  <2>3. Marshalled(x, v) = IF Cardinality(v) < AcceptedMax THEN v \cup {n} ELSE v
    BY <1>3, <2>1 DEF Marshalled
  <2>4. /\ IsFiniteSet(v \cup {n}) /\ Cardinality(v) \in Nat
        /\ Cardinality(v \cup {n}) \in {Cardinality(v), Cardinality(v) + 1}
    BY <2>2, FS_AddElement, FS_CardinalityType
  <2>5. QED BY <2>2, <2>3, <2>4, QueryAssumption DEF Values, Sized
<1>4. CASE x.op = "remove" /\ x.item.kind = "accepted"
  <2>1. IsFiniteSet(v) /\ Cardinality(v) <= AcceptedMax
    BY <1>4 DEF Sized
  <2>2. Marshalled(x, v) = v \ x.value
    BY <1>4 DEF Marshalled
  <2>3. IsFiniteSet(v \ x.value) /\ Cardinality(v \ x.value) <= Cardinality(v)
    BY <2>1, FS_Subset
  <2>4. Cardinality(v) \in Nat /\ Cardinality(v \ x.value) \in Nat
    BY <2>1, <2>3, FS_CardinalityType
  <2>5. AcceptedMax \in Nat
    BY QueryAssumption
  <2>6. Cardinality(v \ x.value) <= AcceptedMax
    BY <2>1, <2>3, <2>4, <2>5
  <2>7. v \ x.value \in Values
    BY DEF Values
  <2>8. QED BY <1>4, <2>2, <2>3, <2>6, <2>7 DEF Sized
<1>5. CASE x.op = "remove" /\ x.item.kind = "rule"
  <2>1. Marshalled(x, v) \in {{}, v}
    BY <1>5 DEF Marshalled
  <2>2. Marshalled(x, v) \in Values
    BY <2>1 DEF Values
  <2>3. x.item.kind \notin {"timer", "byte", "accepted"}
    BY <1>5
  <2>4. QED BY <2>2, <2>3 DEF Sized
<1>6. CASE x.op = "set"
  BY <1>1, <1>2, <1>6 DEF FitsItem
<1>7. CASE x.op = "remove"
  BY <1>4, <1>5, <1>7 DEF FitsItem
<1>8. QED BY <1>3, <1>6, <1>7

------------------------------------------------------------------------------
(* Steps that leave the threads where they are *)

\* Each thread that asks or has asked does so still.
SamePlace ==
  \A c \in Callers :
     /\ caller'[c].pc = caller[c].pc
     /\ caller[c].pc # "idle" =>
          /\ caller'[c].mote = caller[c].mote /\ caller'[c].item = caller[c].item
          /\ caller'[c].got = caller[c].got /\ caller'[c].alone = caller[c].alone
          /\ caller'[c].old = caller[c].old

LEMMA NothingTaken ==
  ASSUME QueryInv, KeptUnderKey', SamePlace, DOMAIN cache \ Due \subseteq (DOMAIN cache \ Due)'
  PROVE  QueryInv'
<1>1. AnswersItsQuestion'
  BY DEF QueryInv, AnswersItsQuestion, Got, Returned, SamePlace
<1>2. AloneMeansAlone'
  BY DEF QueryInv, AloneMeansAlone, Asking, Asks, SamePlace
<1>3. FoundIsThere'
  <2>1. ASSUME NEW c \in Callers, caller'[c].pc = "found", caller'[c].alone, ~caller'[c].old
        PROVE  Key(caller'[c].mote, caller'[c].item) \in (DOMAIN cache \ Due)'
    <3>1. /\ caller[c].pc = "found" /\ caller[c].alone /\ ~caller[c].old
          /\ caller'[c].mote = caller[c].mote /\ caller'[c].item = caller[c].item
      BY <2>1 DEF SamePlace
    <3>2. Key(caller[c].mote, caller[c].item) \in DOMAIN cache \ Due
      BY <3>1 DEF QueryInv, FoundIsThere
    <3>3. QED BY <3>1, <3>2
  <2>2. QED BY <2>1 DEF FoundIsThere
<1>4. NullOnlyIfShared'
  BY DEF QueryInv, NullOnlyIfShared, Got, Returned, SamePlace
<1>5. NothingYet'
  BY DEF QueryInv, NothingYet, Asking, SamePlace
<1>6. QED BY <1>1, <1>2, <1>3, <1>4, <1>5 DEF QueryInv

LEMMA ThreadsUnchanged ==
  ASSUME QueryInv, UNCHANGED <<caller, cache>>
  PROVE  QueryInv'
<1>1. SamePlace
  BY DEF SamePlace
<1>2. KeptUnderKey' /\ DOMAIN cache \ Due \subseteq (DOMAIN cache \ Due)'
  BY DEF QueryInv, KeptUnderKey, Due
<1>3. QED BY <1>1, <1>2, NothingTaken

\* A mote that changes what it holds leaves the threads where they are.
LEMMA HoldsKeeps ==
  ASSUME Types, Sizes, NEW m \in Motes, NEW i \in Items, NEW v \in Values, Sized(i, v),
         Holds(m, i, v)
  PROVE  /\ held' \in [Motes -> [Items -> Values]]
         /\ Sizes'
         /\ caller' \in [Callers -> {Idle} \cup Queries]
         /\ SamePlace
<1>1. held' = [held EXCEPT ![m][i] = v] /\ held \in [Motes -> [Items -> Values]]
  BY DEF Holds, Types
<1>2. held' \in [Motes -> [Items -> Values]]
  BY <1>1
<1>3. Sizes'
  <2> SUFFICES ASSUME NEW n \in Motes, NEW j \in Items PROVE Sized(j, held'[n][j])
    BY DEF Sizes
  <2>1. CASE n = m /\ j = i
    BY <1>1, <2>1
  <2>2. CASE ~(n = m /\ j = i)
    <3>1. held'[n][j] = held[n][j]
      BY <1>1, <2>2
    <3>2. QED BY <3>1 DEF Sizes
  <2>3. QED BY <2>1, <2>2
<1>4. ASSUME NEW c \in Callers
      PROVE  /\ caller'[c] \in {Idle} \cup Queries
             /\ caller'[c].pc = caller[c].pc
             /\ caller[c].pc # "idle" =>
                  /\ caller'[c].mote = caller[c].mote /\ caller'[c].item = caller[c].item
                  /\ caller'[c].got = caller[c].got /\ caller'[c].alone = caller[c].alone
                  /\ caller'[c].old = caller[c].old
  <2>1. CASE ~Asks(c, m, i)
    <3>1. caller'[c] = caller[c]
      BY <2>1 DEF Holds
    <3>2. QED BY <3>1 DEF Types
  <2>2. CASE Asks(c, m, i)
    <3>1. caller'[c] = [caller[c] EXCEPT !.inForce = @ \cup {Shown(i, v)}]
      BY <2>2 DEF Holds
    <3>2. caller[c] \in Queries
      BY <2>2 DEF Asks, Types, Idle
    <3>3. Shown(i, v) \in Values
      BY ShownIsValue
    <3>4. QED BY <3>1, <3>2, <3>3 DEF Queries
  <2>3. QED BY <2>1, <2>2
<1>5. caller' = [c \in Callers |-> caller'[c]]
  BY DEF Holds
<1>6. caller' \in [Callers -> {Idle} \cup Queries]
  BY <1>4, <1>5
<1>7. SamePlace
  BY <1>4 DEF SamePlace
<1>8. QED BY <1>2, <1>3, <1>6, <1>7

LEMMA WriteKeeps ==
  ASSUME IInv, NEW x \in net, Write(x)
  PROVE  IInv'
<1> DEFINE v == Marshalled(x, held[x.mote][x.item])
<1>1. x \in Packets /\ FitsItem(x) /\ x.op \in {"set", "add", "remove"}
  BY DEF IInv, Types, WritesFit, Write
<1>2. x.mote \in Motes /\ x.item \in Items
  BY <1>1 DEF Packets
<1>3. held[x.mote][x.item] \in Values /\ Sized(x.item, held[x.mote][x.item])
  BY <1>2 DEF IInv, Types, Sizes
<1>4. v \in Values /\ Sized(x.item, v)
  BY <1>1, <1>3, MarshalledIsSized
<1>5. Holds(x.mote, x.item, v)
  BY DEF Write
<1>6. /\ held' \in [Motes -> [Items -> Values]] /\ Sizes'
      /\ caller' \in [Callers -> {Idle} \cup Queries] /\ SamePlace
  <2> HIDE DEF v
  <2> QED BY <1>2, <1>4, <1>5, HoldsKeeps DEF IInv
<1>7. net' \subseteq net /\ UNCHANGED <<cache, quiet>>
  BY DEF Write
<1>8. Types'
  BY <1>6, <1>7 DEF IInv, Types
<1>9. WritesFit'
  BY <1>7 DEF IInv, WritesFit
<1>10. KeptUnderKey' /\ DOMAIN cache \ Due \subseteq (DOMAIN cache \ Due)'
  BY <1>7 DEF IInv, QueryInv, KeptUnderKey, Due
<1>11. QueryInv'
  BY <1>6, <1>7, <1>10, NothingTaken DEF IInv
<1>12. QED BY <1>6, <1>8, <1>9, <1>11 DEF IInv

LEMMA RuleChangesKeep ==
  ASSUME IInv, NEW m \in Motes, NEW i \in Items, RuleChanges(m, i)
  PROVE  IInv'
<1>1. i.kind = "rule" /\ UNCHANGED <<net, cache, quiet>>
  BY DEF RuleChanges
<1>2. PICK r \in {{}} \cup {{u} : u \in Rules} : Holds(m, i, r)
  BY DEF RuleChanges
<1>3. r \in Values /\ Sized(i, r)
  BY <1>1, QueryAssumption DEF Values, Sized
<1>4. /\ held' \in [Motes -> [Items -> Values]] /\ Sizes'
      /\ caller' \in [Callers -> {Idle} \cup Queries] /\ SamePlace
  BY <1>2, <1>3, HoldsKeeps DEF IInv
<1>5. Types' /\ WritesFit'
  BY <1>1, <1>4 DEF IInv, Types, WritesFit
<1>6. QueryInv'
  BY <1>1, <1>4, NothingTaken DEF IInv, QueryInv, KeptUnderKey, Due
<1>7. QED BY <1>4, <1>5, <1>6 DEF IInv

------------------------------------------------------------------------------
(* Packets *)

LEMMA SetKeeps ==
  ASSUME IInv, NEW c \in Callers, NEW m \in Motes, NEW i \in Items, Set(c, m, i)
  PROVE  IInv'
<1>1. PICK w \in Writes(i) : net' = net \cup {Packet(c, m, i, w[1], w[2])}
  BY DEF Set
<1>2. i.kind \in Kinds /\ Numbers \subseteq Int
  BY QueryAssumption
<1>3. /\ w[1] \in {"set", "add", "remove"} /\ w[2] \in Values
      /\ w[1] = "set" => i.kind \in {"timer", "byte"} /\ One(w[2])
      /\ w[1] = "add" => i.kind = "accepted" /\ One(w[2])
      /\ w[1] = "remove" => i.kind \in {"accepted", "rule"}
  BY <1>2 DEF Kinds, Writes, TimerWrites, ByteWrites, AcceptedWrites, RuleWrites, Values, One
<1> DEFINE p == Packet(c, m, i, w[1], w[2])
<1>4. p \in Packets /\ FitsItem(p)
  BY <1>3, QueryAssumption DEF Packet, Packets, FitsItem
<1>5. UNCHANGED <<held, cache, caller, quiet>> /\ net' = net \cup {p}
  BY <1>1 DEF Set
<1>6. Types' /\ Sizes' /\ WritesFit'
  <2> HIDE DEF p
  <2> QED BY <1>4, <1>5 DEF IInv, Types, Sizes, WritesFit
<1>7. QED BY <1>5, <1>6, ThreadsUnchanged DEF IInv

LEMMA AnswerKeeps ==
  ASSUME IInv, NEW x \in net, Answer(x)
  PROVE  IInv'
<1>1. x \in Packets
  BY DEF IInv, Types
<1>2. Shown(x.item, held[x.mote][x.item]) \in Values
  BY <1>1, ShownIsValue DEF Packets, IInv, Types
<1> DEFINE p == Packet(x.from, x.mote, x.item, "answer", Shown(x.item, held[x.mote][x.item]))
<1>3. p \in Packets /\ FitsItem(p)
  BY <1>1, <1>2, QueryAssumption DEF Packet, Packets, FitsItem
<1>4. UNCHANGED <<held, cache, caller, quiet>> /\ net' = (net \ {x}) \cup {p}
  BY DEF Answer
<1>5. Types' /\ Sizes' /\ WritesFit'
  <2> HIDE DEF p
  <2> QED BY <1>3, <1>4 DEF IInv, Types, Sizes, WritesFit
<1>6. QED BY <1>4, <1>5, ThreadsUnchanged DEF IInv

LEMMA LoseKeeps ==
  ASSUME IInv, NEW x \in net, Lose(x)
  PROVE  IInv'
<1>1. UNCHANGED <<held, cache, caller, quiet>> /\ net' \subseteq net
  BY DEF Lose
<1>2. Types' /\ Sizes' /\ WritesFit'
  BY <1>1 DEF IInv, Types, Sizes, WritesFit
<1>3. QED BY <1>1, <1>2, ThreadsUnchanged DEF IInv

LEMMA ReceiveKeeps ==
  ASSUME IInv, NEW x \in net, ReceiveAnswer(x)
  PROVE  IInv'
<1> DEFINE k == Key(x.mote, x.item)
           a == [is |-> "answer", mote |-> x.mote, item |-> x.item, value |-> x.value]
<1>1. x \in Packets /\ UNCHANGED <<held, caller, quiet>> /\ net' \subseteq net
  BY DEF IInv, Types, ReceiveAnswer
<1>2. cache' = [j \in DOMAIN cache \cup {k} |->
                  IF j = k THEN [answer |-> a, age |-> 0] ELSE cache[j]]
  BY DEF ReceiveAnswer
<1>3. a \in Answers /\ 0 \in 0 .. CacheTime /\ k = Key(a.mote, a.item)
  BY <1>1, QueryAssumption DEF Packets, Answers
<1>4. Types'
  <2>1. \A j \in DOMAIN cache' : cache'[j] \in [answer : Answers, age : 0 .. CacheTime]
    <3> HIDE DEF k, a
    <3> QED BY <1>2, <1>3 DEF IInv, Types
  <2>2. QED BY <1>1, <2>1 DEF IInv, Types
<1>5. Sizes' /\ WritesFit'
  BY <1>1 DEF IInv, Sizes, WritesFit
<1>6. KeptUnderKey'
  <2>1. ASSUME NEW j \in DOMAIN cache'
        PROVE  j = Key(cache'[j].answer.mote, cache'[j].answer.item)
    <3>1. CASE j = k
      <4>1. cache'[j].answer = a
        BY <1>2, <3>1
      <4>2. QED BY <1>3, <3>1, <4>1
    <3>2. CASE j # k
      <4>1. j \in DOMAIN cache /\ cache'[j] = cache[j]
        <5> HIDE DEF k, a
        <5> QED BY <1>2, <2>1, <3>2
      <4>2. QED BY <4>1 DEF IInv, QueryInv, KeptUnderKey
    <3>3. QED BY <3>1, <3>2
  <2>2. QED BY <2>1 DEF KeptUnderKey
<1>7. SamePlace
  BY <1>1 DEF SamePlace
<1>8. DOMAIN cache \ Due \subseteq (DOMAIN cache \ Due)'
  <2> SUFFICES ASSUME NEW j \in DOMAIN cache, cache[j].age # CacheTime
               PROVE  j \in DOMAIN cache' /\ cache'[j].age # CacheTime
    BY DEF Due
  <2>1. CASE j = k
    <3>1. cache'[j] = [answer |-> a, age |-> 0]
      BY <1>2, <2>1
    <3>2. CacheTime # 0
      BY QueryAssumption
    <3>3. QED BY <1>2, <3>1, <3>2
  <2>2. CASE j # k
    <3> HIDE DEF k, a
    <3> QED BY <1>2, <2>2
  <2>3. QED BY <2>1, <2>2
<1>9. QED BY <1>4, <1>5, <1>6, <1>7, <1>8, NothingTaken DEF IInv

------------------------------------------------------------------------------
(* The threads *)

LEMMA AskKeeps ==
  ASSUME IInv, NEW c \in Callers, NEW m \in Motes, NEW i \in Items, Ask(c, m, i)
  PROVE  IInv'
<1> DEFINE q == [pc |-> "asleep", mote |-> m, item |-> i, left |-> Timeout, got |-> NoAnswer,
                 old |-> FALSE, quiet |-> quiet[m][i] = Quiet, alone |-> \A e \in Callers : ~Asks(e, m, i),
                 inForce |-> {Shown(i, held[m][i])}]
           p == Packet(c, m, i, "read", {})
<1>1. /\ UNCHANGED <<held, cache>> /\ net' = net \cup {p}
      /\ quiet' = [quiet EXCEPT ![m][i] = 0]
      /\ caller' = [d \in Callers |-> IF d = c THEN q
                    ELSE IF Asks(d, m, i) THEN [caller[d] EXCEPT !.alone = FALSE] ELSE caller[d]]
      /\ caller[c].pc \in {"idle", "returned"}
  BY DEF Ask
<1>2. Shown(i, held[m][i]) \in Values
  BY ShownIsValue DEF IInv, Types
<1>3. q \in Queries
  <2>1. Timeout \in Int
    BY QueryAssumption
  <2>2. QED BY <1>2, <2>1 DEF Queries
<1>4. p \in Packets /\ FitsItem(p)
  BY QueryAssumption DEF Packet, Packets, FitsItem, Values
<1>5. caller'[c] = q
  <2> HIDE DEF q, p
  <2> QED BY <1>1
<1>6. ASSUME NEW d \in Callers, d # c
      PROVE  /\ caller'[d] \in {Idle} \cup Queries
             /\ caller'[d].pc = caller[d].pc
             /\ caller[d].pc # "idle" =>
                  /\ caller'[d].mote = caller[d].mote /\ caller'[d].item = caller[d].item
                  /\ caller'[d].got = caller[d].got /\ caller'[d].old = caller[d].old
                  /\ ~Asks(d, m, i) => caller'[d].alone = caller[d].alone
             /\ Asks(d, m, i) => ~caller'[d].alone
  <2>1. CASE Asks(d, m, i)
    <3>1. caller'[d] = [caller[d] EXCEPT !.alone = FALSE]
      <4> HIDE DEF q, p
      <4> QED BY <1>1, <1>6, <2>1
    <3>2. caller[d] \in Queries
      BY <2>1 DEF Asks, IInv, Types, Idle
    <3>3. QED BY <2>1, <3>1, <3>2 DEF Queries
  <2>2. CASE ~Asks(d, m, i)
    <3>1. caller'[d] = caller[d]
      <4> HIDE DEF q, p
      <4> QED BY <1>1, <1>6, <2>2
    <3>2. QED BY <2>2, <3>1 DEF IInv, Types
  <2>3. QED BY <2>1, <2>2
<1>7. Types'
  <2>1. 0 \in 0 .. Quiet
    BY QueryAssumption DEF Quiet
  <2>2. quiet' \in [Motes -> [Items -> 0 .. Quiet]]
    BY <1>1, <2>1 DEF IInv, Types
  <2>3. net' \subseteq Packets
    <3> HIDE DEF q, p
    <3> QED BY <1>1, <1>4 DEF IInv, Types
  <2>4. caller' \in [Callers -> {Idle} \cup Queries]
    <3> HIDE DEF q, p
    <3>1. \A d \in Callers : caller'[d] \in {Idle} \cup Queries
      BY <1>3, <1>5, <1>6
    <3>2. caller' = [d \in Callers |-> caller'[d]]
      BY <1>1
    <3>3. QED BY <3>1, <3>2
  <2>5. QED BY <1>1, <2>2, <2>3, <2>4 DEF IInv, Types
<1>8. Sizes' /\ WritesFit'
  <2> HIDE DEF q, p
  <2> QED BY <1>1, <1>4 DEF IInv, Sizes, WritesFit
<1>9. q.pc = "asleep" /\ q.mote = m /\ q.item = i /\ q.got = NoAnswer /\ q.alone = (\A e \in Callers : ~Asks(e, m, i))
  OBVIOUS
<1> HIDE DEF q, p
<1>10. KeptUnderKey' /\ AnswersItsQuestion' /\ NullOnlyIfShared'
  <2>1. KeptUnderKey'
    BY <1>1 DEF IInv, QueryInv, KeptUnderKey
  <2>2. AnswersItsQuestion'
    BY <1>5, <1>6, <1>9 DEF IInv, QueryInv, AnswersItsQuestion, Got, Returned
  <2>3. NullOnlyIfShared'
    <3>1. ASSUME NEW d \in Callers, caller'[d].pc = "returned", caller'[d].got.is = "null"
          PROVE  ~caller'[d].alone \/ caller'[d].old
      <4>1. d # c
        BY <1>5, <1>9, <3>1
      <4>2. caller[d].pc = "returned" /\ caller[d].got.is = "null" /\ ~Asks(d, m, i)
        BY <1>6, <3>1, <4>1 DEF Asks
      <4>3. ~caller[d].alone \/ caller[d].old
        BY <4>2 DEF IInv, QueryInv, NullOnlyIfShared, Got, Returned
      <4>4. QED BY <1>6, <4>1, <4>2, <4>3
    <3>2. QED BY <3>1 DEF NullOnlyIfShared, Got, Returned
  <2>4. QED BY <2>1, <2>2, <2>3
<1>11. AloneMeansAlone'
  <2>1. ASSUME NEW d \in Callers, NEW e \in Callers, d # e,
               caller'[d].pc \in {"asleep", "found"}, caller'[e].pc \in {"asleep", "found"},
               caller'[e].mote = caller'[d].mote, caller'[e].item = caller'[d].item
        PROVE  ~caller'[d].alone
    <3>1. CASE d = c
      <4>1. Asks(e, m, i)
        BY <1>5, <1>6, <1>9, <2>1, <3>1 DEF Asks
      <4>2. QED BY <1>5, <1>9, <3>1, <4>1
    <3>2. CASE d # c /\ e = c
      <4>1. Asks(d, m, i)
        BY <1>5, <1>6, <1>9, <2>1, <3>2 DEF Asks
      <4>2. QED BY <1>6, <3>2, <4>1
    <3>3. CASE d # c /\ e # c
      <4>1. caller[d].pc \in {"asleep", "found"} /\ Asks(e, caller[d].mote, caller[d].item)
        BY <1>6, <2>1, <3>3 DEF Asks
      <4>2. ~caller[d].alone
        BY <2>1, <4>1 DEF IInv, QueryInv, AloneMeansAlone, Asking
      <4>3. QED BY <1>6, <3>3, <4>1, <4>2
    <3>4. QED BY <3>1, <3>2, <3>3
  <2>2. QED BY <2>1 DEF AloneMeansAlone, Asking, Asks
<1>12. FoundIsThere'
  <2>1. ASSUME NEW d \in Callers, caller'[d].pc = "found", caller'[d].alone, ~caller'[d].old
        PROVE  Key(caller'[d].mote, caller'[d].item) \in (DOMAIN cache \ Due)'
    <3>1. d # c
      BY <1>5, <1>9, <2>1
    <3>2. ~Asks(d, m, i) /\ caller[d].pc = "found"
      BY <1>6, <2>1, <3>1
    <3>3. /\ caller[d].alone /\ ~caller[d].old
          /\ caller'[d].mote = caller[d].mote /\ caller'[d].item = caller[d].item
      BY <1>6, <2>1, <3>1, <3>2
    <3>4. (DOMAIN cache \ Due)' = DOMAIN cache \ Due
      BY <1>1 DEF Due
    <3>5. QED BY <3>2, <3>3, <3>4 DEF IInv, QueryInv, FoundIsThere
  <2>2. QED BY <2>1 DEF FoundIsThere
<1>13. NothingYet'
  BY <1>5, <1>6, <1>9 DEF IInv, QueryInv, NothingYet, Asking
<1>14. QED BY <1>7, <1>8, <1>10, <1>11, <1>12, <1>13 DEF IInv, QueryInv

LEMMA ContainsKeyKeeps ==
  ASSUME IInv, NEW c \in Callers, ContainsKey(c)
  PROVE  IInv'
<1> DEFINE k == Key(caller[c].mote, caller[c].item)
           pc == IF k \in DOMAIN cache THEN "found" ELSE "returned"
           due == k \in Due
<1>1. /\ UNCHANGED <<held, net, cache, quiet>> /\ caller[c].pc = "asleep"
      /\ caller' = [caller EXCEPT ![c].pc = pc, ![c].old = due]
  BY DEF ContainsKey
<1>2. caller \in [Callers -> {Idle} \cup Queries] /\ caller[c] \in Queries
  BY <1>1 DEF IInv, Types, Idle
<1>3. caller'[c] = [caller[c] EXCEPT !.pc = pc, !.old = due]
  BY <1>1, <1>2
<1>4. /\ caller'[c] \in Queries
      /\ caller'[c].pc = pc
      /\ caller'[c].mote = caller[c].mote /\ caller'[c].item = caller[c].item
      /\ caller'[c].got = caller[c].got /\ caller'[c].alone = caller[c].alone
      /\ caller'[c].old = due
  <2>1. pc \in {"found", "returned"} /\ due \in BOOLEAN
    OBVIOUS
  <2> HIDE DEF pc, due
  <2>2. QED BY <1>2, <1>3, <2>1 DEF Queries
<1>5. \A d \in Callers : d # c => caller'[d] = caller[d]
  BY <1>1, <1>2
<1>6. Types' /\ Sizes' /\ WritesFit'
  <2>1. caller' \in [Callers -> {Idle} \cup Queries]
    BY <1>1, <1>2, <1>4, <1>5
  <2>2. QED BY <1>1, <2>1 DEF IInv, Types, Sizes, WritesFit
<1>7. KeptUnderKey'
  BY <1>1 DEF IInv, QueryInv, KeptUnderKey
<1>8. AloneMeansAlone'
  <2> HIDE DEF pc, due
  <2>1. caller[c].pc = "asleep"
    BY <1>1
  <2>2. QED BY <1>4, <1>5, <2>1 DEF IInv, QueryInv, AloneMeansAlone, Asking, Asks
<1>9. FoundIsThere'
  <2>1. (DOMAIN cache \ Due)' = DOMAIN cache \ Due
    BY <1>1 DEF Due
  <2>2. QED BY <1>4, <1>5, <2>1 DEF IInv, QueryInv, FoundIsThere
<1>10. caller[c].got = NoAnswer /\ NothingYet'
  BY <1>1, <1>4, <1>5 DEF IInv, QueryInv, NothingYet, Asking
<1>11. AnswersItsQuestion' /\ NullOnlyIfShared'
  BY <1>4, <1>5, <1>10
     DEF IInv, QueryInv, AnswersItsQuestion, NullOnlyIfShared, Got, Returned, NoAnswer
<1>12. QED BY <1>6, <1>7, <1>8, <1>9, <1>10, <1>11 DEF IInv, QueryInv

LEMMA RemoveAnswerKeeps ==
  ASSUME IInv, NEW c \in Callers, RemoveAnswer(c)
  PROVE  IInv'
<1> DEFINE k == Key(caller[c].mote, caller[c].item)
           got == IF k \in DOMAIN cache THEN cache[k].answer ELSE Null
<1>1. /\ UNCHANGED <<held, net, quiet>> /\ caller[c].pc = "found"
      /\ caller' = [caller EXCEPT ![c].pc = "returned", ![c].got = got]
      /\ cache' = [j \in DOMAIN cache \ {k} |-> cache[j]]
  BY DEF RemoveAnswer, Without
<1>2. caller \in [Callers -> {Idle} \cup Queries] /\ caller[c] \in Queries
  BY <1>1 DEF IInv, Types, Idle
<1>3. got \in {Null} \cup Answers
  BY DEF IInv, Types
<1> HIDE DEF got
<1>4. caller'[c] = [caller[c] EXCEPT !.pc = "returned", !.got = got]
  BY <1>1, <1>2
<1>5. /\ caller'[c] \in Queries /\ caller'[c].pc = "returned" /\ caller'[c].got = got
      /\ caller'[c].mote = caller[c].mote /\ caller'[c].item = caller[c].item
      /\ caller'[c].alone = caller[c].alone /\ caller'[c].old = caller[c].old
  BY <1>2, <1>3, <1>4 DEF Queries
<1>6. \A d \in Callers : d # c => caller'[d] = caller[d]
  BY <1>1, <1>2
<1>7. \A j \in DOMAIN cache' : j \in DOMAIN cache /\ cache'[j] = cache[j]
  <2> HIDE DEF k
  <2> QED BY <1>1
<1>8. Types' /\ Sizes' /\ WritesFit'
  <2>1. caller' \in [Callers -> {Idle} \cup Queries]
    BY <1>1, <1>2, <1>5, <1>6
  <2>2. \A j \in DOMAIN cache' : cache'[j] \in [answer : Answers, age : 0 .. CacheTime]
    BY <1>7 DEF IInv, Types
  <2>3. QED BY <1>1, <2>1, <2>2 DEF IInv, Types, Sizes, WritesFit
<1>9. KeptUnderKey' /\ NothingYet' /\ AloneMeansAlone'
  <2>1. KeptUnderKey'
    BY <1>7 DEF IInv, QueryInv, KeptUnderKey
  <2>2. NothingYet'
    BY <1>5, <1>6 DEF IInv, QueryInv, NothingYet, Asking
  <2>3. AloneMeansAlone'
    BY <1>5, <1>6 DEF IInv, QueryInv, AloneMeansAlone, Asking, Asks
  <2>4. QED BY <2>1, <2>2, <2>3
<1>10. k \in DOMAIN cache => got.mote = caller[c].mote /\ got.item = caller[c].item
  <2> SUFFICES ASSUME k \in DOMAIN cache
               PROVE  got.mote = caller[c].mote /\ got.item = caller[c].item
    OBVIOUS
  <2>1. got = cache[k].answer
    BY DEF got
  <2>2. got \in Answers
    BY <2>1 DEF IInv, Types
  <2>3. k = Key(got.mote, got.item)
    BY <2>1 DEF IInv, QueryInv, KeptUnderKey
  <2>4. got.item \in Items /\ caller[c].item \in Items
    BY <1>2, <2>2 DEF Answers, Queries
  <2>5. QED BY <2>3, <2>4, KeyInjective
<1>11. AnswersItsQuestion'
  <2>1. got.is = "answer" => k \in DOMAIN cache
    BY DEF got, Null
  <2>2. QED BY <1>5, <1>6, <1>10, <2>1 DEF IInv, QueryInv, AnswersItsQuestion, Got, Returned
<1>12. NullOnlyIfShared'
  <2>1. got.is = "null" => ~caller[c].alone \/ caller[c].old
    <3>1. k \in DOMAIN cache => got \in Answers
      BY DEF got, IInv, Types
    <3>2. got.is = "null" => k \notin DOMAIN cache
      BY <3>1 DEF Answers
    <3>3. QED BY <1>1, <3>2 DEF IInv, QueryInv, FoundIsThere
  <2>2. QED BY <1>5, <1>6, <2>1 DEF IInv, QueryInv, NullOnlyIfShared, Got, Returned
<1>13. FoundIsThere'
  <2>1. ASSUME NEW d \in Callers, caller'[d].pc = "found", caller'[d].alone, ~caller'[d].old
        PROVE  Key(caller'[d].mote, caller'[d].item) \in (DOMAIN cache \ Due)'
    <3>1. d # c
      BY <1>5, <2>1
    <3>2. caller'[d] = caller[d]
      BY <1>6, <3>1
    <3>3. Key(caller[d].mote, caller[d].item) \in DOMAIN cache \ Due
      BY <2>1, <3>2 DEF IInv, QueryInv, FoundIsThere
    <3>4. ~Asks(c, caller[d].mote, caller[d].item)
      BY <2>1, <3>1, <3>2 DEF IInv, QueryInv, AloneMeansAlone, Asking
    <3>5. caller[c].mote # caller[d].mote \/ caller[c].item # caller[d].item
      BY <1>1, <3>4 DEF Asks
    <3>6. caller[d] \in Queries
      BY <2>1, <3>2 DEF IInv, Types, Idle
    <3>7. Key(caller[d].mote, caller[d].item) # k
      BY <1>2, <3>5, <3>6, KeyInjective DEF Queries
    <3>8. Key(caller[d].mote, caller[d].item) \in (DOMAIN cache \ Due)'
      <4> HIDE DEF k
      <4> QED BY <1>1, <3>3, <3>7 DEF Due
    <3>9. QED BY <3>2, <3>8
  <2>2. QED BY <2>1 DEF FoundIsThere
<1>14. QED BY <1>8, <1>9, <1>11, <1>12, <1>13 DEF IInv, QueryInv

------------------------------------------------------------------------------
(* Time *)

LEMMA TickKeeps ==
  ASSUME IInv, Tick
  PROVE  IInv'
<1>1. /\ held' = held
      /\ net' = {[x EXCEPT !.age = @ + 1] : x \in net}
      /\ cache' = [k \in DOMAIN cache |-> [cache[k] EXCEPT !.age = @ + 1]] /\ Due = {}
      /\ caller' = [c \in Callers |-> IF caller[c].pc = "asleep"
                                      THEN [caller[c] EXCEPT !.left = @ - 1] ELSE Idle]
  BY DEF Tick
<1>2. ASSUME NEW x \in net
      PROVE  [x EXCEPT !.age = @ + 1] \in Packets /\ FitsItem([x EXCEPT !.age = @ + 1])
  <2>1. x \in Packets /\ FitsItem(x) /\ x.age < MaxDelay /\ MaxDelay \in Nat
    BY <1>2, QueryAssumption DEF IInv, Types, WritesFit, Tick
  <2>2. x.age \in 0 .. MaxDelay
    BY <2>1 DEF Packets
  <2>3. x.age + 1 \in 0 .. MaxDelay
    BY <2>1, <2>2
  <2>4. QED BY <2>1, <2>3 DEF Packets, FitsItem
<1>3. ASSUME NEW k \in DOMAIN cache
      PROVE  /\ cache'[k].answer = cache[k].answer
             /\ cache'[k] \in [answer : Answers, age : 0 .. CacheTime]
  <2>1. cache[k] \in [answer : Answers, age : 0 .. CacheTime]
    BY DEF IInv, Types
  <2>2. cache'[k] = [cache[k] EXCEPT !.age = @ + 1] /\ cache[k].age # CacheTime
    BY <1>1 DEF Due
  <2>3. CacheTime \in Nat
    BY QueryAssumption
  <2>4. QED BY <2>1, <2>2, <2>3
<1>4. ASSUME NEW c \in Callers
      PROVE  \/ caller'[c] = Idle
             \/ /\ caller[c].pc = "asleep" /\ caller'[c] \in Queries
                /\ caller'[c].pc = "asleep" /\ caller'[c].got = caller[c].got
                /\ caller'[c].mote = caller[c].mote /\ caller'[c].item = caller[c].item
                /\ caller'[c].alone = caller[c].alone
  <2>1. CASE caller[c].pc = "asleep"
    <3>1. caller'[c] = [caller[c] EXCEPT !.left = @ - 1]
      BY <1>1, <2>1
    <3>2. caller[c] \in Queries
      BY <2>1 DEF IInv, Types, Idle
    <3>3. caller[c].left - 1 \in Int
      BY <3>2 DEF Queries
    <3>4. QED BY <2>1, <3>1, <3>2, <3>3 DEF Queries
  <2>2. CASE caller[c].pc # "asleep"
    BY <1>1, <2>2
  <2>3. QED BY <2>1, <2>2
<1>5. Types' /\ Sizes' /\ WritesFit'
  <2>1. net' \subseteq Packets /\ WritesFit'
    BY <1>1, <1>2 DEF WritesFit
  <2>2. \A k \in DOMAIN cache' : cache'[k] \in [answer : Answers, age : 0 .. CacheTime]
    BY <1>1, <1>3
  <2>3. caller' \in [Callers -> {Idle} \cup Queries]
    <3>1. \A c \in Callers : caller'[c] \in {Idle} \cup Queries
      BY <1>4
    <3>2. caller' = [c \in Callers |-> caller'[c]]
      BY <1>1
    <3>3. QED BY <3>1, <3>2
  <2>4. quiet' \in [Motes -> [Items -> 0 .. Quiet]]
    <3>1. Quiet \in Nat
      BY QueryAssumption DEF Quiet
    <3>2. \A m \in Motes, i \in Items :
             (IF quiet[m][i] = Quiet THEN Quiet ELSE quiet[m][i] + 1) \in 0 .. Quiet
      <4> SUFFICES ASSUME NEW m \in Motes, NEW i \in Items
                   PROVE  (IF quiet[m][i] = Quiet THEN Quiet ELSE quiet[m][i] + 1) \in 0 .. Quiet
        OBVIOUS
      <4>1. quiet[m][i] \in 0 .. Quiet
        BY DEF IInv, Types
      <4>2. QED BY <3>1, <4>1
    <3>3. quiet' = [m \in Motes |-> [i \in Items |->
                      IF quiet[m][i] = Quiet THEN Quiet ELSE quiet[m][i] + 1]]
      BY DEF Tick
    <3>4. QED BY <3>2, <3>3
  <2>5. QED BY <1>1, <2>1, <2>2, <2>3, <2>4 DEF IInv, Types, Sizes
<1>6. KeptUnderKey'
  BY <1>1, <1>3 DEF IInv, QueryInv, KeptUnderKey
<1>7. \A c \in Callers : caller'[c].pc \in {"idle", "asleep"}
  BY <1>4 DEF Idle
<1>8. AnswersItsQuestion' /\ NullOnlyIfShared' /\ FoundIsThere'
  BY <1>7 DEF AnswersItsQuestion, NullOnlyIfShared, FoundIsThere, Got, Returned
<1>9. NothingYet'
  BY <1>4 DEF IInv, QueryInv, NothingYet, Asking, Idle
<1>10. AloneMeansAlone'
  BY <1>4 DEF IInv, QueryInv, AloneMeansAlone, Asking, Asks, Idle
<1>11. QED BY <1>5, <1>6, <1>8, <1>9, <1>10 DEF IInv, QueryInv

LEMMA ExpireKeeps ==
  ASSUME IInv, NEW k \in DOMAIN cache, Expire(k)
  PROVE  IInv'
<1>1. /\ UNCHANGED <<held, net, caller, quiet>> /\ k \in Due
      /\ cache' = [j \in DOMAIN cache \ {k} |-> cache[j]]
  BY DEF Expire, Without
<1>2. \A j \in DOMAIN cache' : j \in DOMAIN cache /\ cache'[j] = cache[j]
  BY <1>1
<1>3. Types' /\ Sizes' /\ WritesFit' /\ KeptUnderKey'
  BY <1>1, <1>2 DEF IInv, Types, Sizes, WritesFit, QueryInv, KeptUnderKey
<1>4. SamePlace
  BY <1>1 DEF SamePlace
<1>5. DOMAIN cache \ Due \subseteq (DOMAIN cache \ Due)'
  BY <1>1, <1>2 DEF Due
<1>6. QED BY <1>3, <1>4, <1>5, NothingTaken DEF IInv

LEMMA Invariance == Spec => []IInv
<1>1. Init => IInv
  <2> SUFFICES ASSUME Init PROVE IInv
    OBVIOUS
  <2>1. ASSUME NEW m \in Motes, NEW i \in Items
        PROVE  held[m][i] \in Values /\ Sized(i, held[m][i])
    <3>1. i.kind \in Kinds /\ Default \in Int /\ OwnRule \in Int
      BY QueryAssumption
    <3>2. held[m][i] = CASE i.kind \in {"timer", "byte"} -> {Default}
                         [] i.kind = "rule" /\ i.n = 0 -> {OwnRule}
                         [] OTHER -> {}
      BY DEF Init
    <3>3. CASE i.kind \in {"timer", "byte"}
      <4>1. held[m][i] = {Default}
        BY <3>2, <3>3
      <4>2. QED BY <3>1, <3>3, <4>1 DEF Values, Sized, One
    <3>4. CASE i.kind = "accepted"
      <4>1. held[m][i] = {}
        BY <3>2, <3>4
      <4>2. IsFiniteSet({}) /\ Cardinality({}) = 0
        BY FS_EmptySet
      <4>3. AcceptedMax \in Nat
        BY QueryAssumption
      <4>4. QED BY <3>4, <4>1, <4>2, <4>3 DEF Values, Sized
    <3>5. CASE i.kind = "rule"
      <4>1. held[m][i] \in {{OwnRule}, {}}
        BY <3>2, <3>5
      <4>2. held[m][i] \in Values
        BY <3>1, <4>1 DEF Values
      <4>3. QED BY <3>5, <4>2 DEF Sized
    <3>6. QED BY <3>1, <3>3, <3>4, <3>5 DEF Kinds
  <2>2. held \in [Motes -> [Items -> Values]] /\ Sizes
    <3>1. Sizes
      BY <2>1 DEF Sizes
    <3>2. \A m \in Motes : held[m] = [i \in Items |-> held[m][i]]
      BY DEF Init
    <3>3. held = [m \in Motes |-> held[m]]
      BY DEF Init
    <3>4. QED BY <2>1, <3>1, <3>2, <3>3
  <2>3. Quiet \in 0 .. Quiet
    BY QueryAssumption DEF Quiet
  <2>4. Types
    <3>1. net \subseteq Packets /\ DOMAIN cache = {}
      BY DEF Init
    <3>2. caller \in [Callers -> {Idle} \cup Queries]
      BY DEF Init
    <3>3. quiet \in [Motes -> [Items -> 0 .. Quiet]]
      BY <2>3 DEF Init
    <3>4. QED BY <2>2, <3>1, <3>2, <3>3 DEF Types
  <2>5. WritesFit
    BY DEF Init, WritesFit
  <2>6. QueryInv
    BY DEF Init, Idle, QueryInv, KeptUnderKey, NothingYet, AnswersItsQuestion, AloneMeansAlone,
           FoundIsThere, NullOnlyIfShared, Asking, Asks, Got, Returned
  <2>7. QED BY <2>2, <2>4, <2>5, <2>6 DEF IInv
<1>2. IInv /\ [Next]_vars => IInv'
  <2> SUFFICES ASSUME IInv, [Next]_vars PROVE IInv'
    OBVIOUS
  <2>1. ASSUME NEW c \in Callers, ContainsKey(c) PROVE IInv'
    BY <2>1, ContainsKeyKeeps
  <2>2. ASSUME NEW c \in Callers, RemoveAnswer(c) PROVE IInv'
    BY <2>2, RemoveAnswerKeeps
  <2>3. ASSUME NEW c \in Callers, NEW m \in Motes, NEW i \in Items, Ask(c, m, i) PROVE IInv'
    BY <2>3, AskKeeps
  <2>4. ASSUME NEW c \in Callers, NEW m \in Motes, NEW i \in Items, Set(c, m, i) PROVE IInv'
    BY <2>4, SetKeeps
  <2>5. ASSUME NEW x \in net, Answer(x) PROVE IInv'
    BY <2>5, AnswerKeeps
  <2>6. ASSUME NEW x \in net, Write(x) PROVE IInv'
    BY <2>6, WriteKeeps
  <2>7. ASSUME NEW x \in net, ReceiveAnswer(x) PROVE IInv'
    BY <2>7, ReceiveKeeps
  <2>8. ASSUME NEW x \in net, Lose(x) PROVE IInv'
    BY <2>8, LoseKeeps
  <2>9. ASSUME NEW m \in Motes, NEW i \in Items, RuleChanges(m, i) PROVE IInv'
    BY <2>9, RuleChangesKeep
  <2>10. CASE Tick
    BY <2>10, TickKeeps
  <2>11. CASE UNCHANGED vars
    <3>1. Types' /\ Sizes' /\ WritesFit'
      BY <2>11 DEF vars, IInv, Types, Sizes, WritesFit
    <3>2. QED BY <2>11, <3>1, ThreadsUnchanged DEF vars, IInv
  <2>12. ASSUME NEW k \in DOMAIN cache, Expire(k) PROVE IInv'
    BY <2>12, ExpireKeeps
  <2>13. QED
    BY <2>1, <2>2, <2>3, <2>4, <2>5, <2>6, <2>7, <2>8, <2>9, <2>10, <2>11, <2>12 DEF Next
<1>3. QED BY <1>1, <1>2, PTL DEF Spec

------------------------------------------------------------------------------
(* The theorems *)

\* What a mote keeps stays of its type and size, whatever is written to it.
THEOREM TypeCorrect == Spec => []TypeOK
<1>1. IInv => TypeOK
  <2> SUFFICES ASSUME IInv PROVE TypeOK
    OBVIOUS
  <2>1. \A m \in Motes, i \in Items :
           /\ i.kind \in {"timer", "byte"} => Cardinality(held[m][i]) = 1
           /\ i.kind = "accepted" => Cardinality(held[m][i]) <= AcceptedMax
    <3> SUFFICES ASSUME NEW m \in Motes, NEW i \in Items
                 PROVE  /\ i.kind \in {"timer", "byte"} => Cardinality(held[m][i]) = 1
                        /\ i.kind = "accepted" => Cardinality(held[m][i]) <= AcceptedMax
      OBVIOUS
    <3>1. Sized(i, held[m][i])
      BY DEF IInv, Sizes
    <3>2. One(held[m][i]) => Cardinality(held[m][i]) = 1
      BY FS_Singleton DEF One
    <3>3. QED BY <3>1, <3>2 DEF Sized
  <2>2. QED BY <2>1 DEF IInv, Types, TypeOK, Packets, Values
<1>2. QED BY <1>1, Invariance, PTL

\* However late answers come and in whatever order, a thread that gets one gets
\* what it asked for of the mote it asked.
THEOREM RightAnswers == Spec => []AnswersItsQuestion
<1>1. IInv => AnswersItsQuestion
  BY DEF IInv, QueryInv
<1>2. QED BY <1>1, Invariance, PTL

\* Only threads that ask the same at the same time take answers from each other;
\* without them, what was found is gone only if its time was over.
THEOREM OnlySharedGone == Spec => []NullOnlyIfShared
<1>1. IInv => NullOnlyIfShared
  BY DEF IInv, QueryInv
<1>2. QED BY <1>1, Invariance, PTL

------------------------------------------------------------------------------
(* What a thread gets that asks after a quiet time *)

\* A thread that waits for an answer, and nobody had asked the same for long.
Expects(c) == Asking(c) /\ caller[c].quiet

Waited(c) == Timeout - caller[c].left

About(x, c) == x.mote = caller[c].mote /\ x.item = caller[c].item

\* How long a question or its answer may be on its way.
SinceAsked(x) ==
  /\ x.op = "read" => quiet[x.mote][x.item] <= x.age
  /\ x.op = "answer" => quiet[x.mote][x.item] <= x.age + MaxDelay

\* It is younger than the question of any thread that expects it.
FreshPacket(x) ==
  \A c \in Callers : Expects(c) /\ About(x, c) =>
     /\ x.op \in {"read", "answer"} => x.age <= Waited(c)
     /\ x.op = "answer" => x.value \in caller[c].inForce

KeptSinceAsked(e) == quiet[e.answer.mote][e.answer.item] <= e.age + 2 * MaxDelay

\* What lies in the map when a thread expects an answer is that, or gone before
\* the thread looks.
FreshEntry(e) ==
  \A c \in Callers : Expects(c) /\ About(e.answer, c) =>
     \/ e.answer.value \in caller[c].inForce /\ e.age <= Waited(c)
     \/ e.age > CacheTime - caller[c].left

KnowsHeld(c) ==
  Asking(c) => /\ caller[c].left \in 0 .. Timeout
               /\ Shown(caller[c].item, held[caller[c].mote][caller[c].item]) \in caller[c].inForce

FoundInTime(c) ==
  caller[c].pc = "found" => caller[c].left = 0 /\ (caller[c].quiet => ~caller[c].old)

GotFresh(c) ==
  Returned(c) /\ caller[c].quiet =>
     /\ Got(c, "answer") => caller[c].got.value \in caller[c].inForce
     /\ ~caller[c].old

ThreadFresh(c) == KnowsHeld(c) /\ FoundInTime(c) /\ GotFresh(c)

(***************************************************************************)
(* QuietMeansFresh rests on how old a packet and an answer in the map can  *)
(* be, given when the same was last asked for: after a quiet time there is *)
(* nothing on its way, and what lies in the map expires before the thread  *)
(* wakes.                                                                  *)
(***************************************************************************)
FreshInv ==
  /\ \A x \in net : SinceAsked(x) /\ FreshPacket(x)
  /\ \A k \in DOMAIN cache : KeptSinceAsked(cache[k]) /\ FreshEntry(cache[k])
  /\ \A c \in Callers : ThreadFresh(c)

\* A thread that expects an answer has done so before.
StillExpects(c) ==
  Expects(c)' =>
     /\ Expects(c)
     /\ caller'[c].mote = caller[c].mote /\ caller'[c].item = caller[c].item
     /\ caller'[c].left = caller[c].left /\ caller[c].inForce \subseteq caller'[c].inForce

LEMMA NothingStale ==
  ASSUME FreshInv, UNCHANGED quiet,
         \A c \in Callers : StillExpects(c) /\ ThreadFresh(c)',
         \A x \in net' : x \in net \/ (SinceAsked(x) /\ FreshPacket(x)),
         \A k \in DOMAIN cache' :
            \/ k \in DOMAIN cache /\ cache'[k] = cache[k]
            \/ KeptSinceAsked(cache'[k]) /\ FreshEntry(cache'[k])
  PROVE  FreshInv'
<1>1. \A x \in net' : SinceAsked(x) /\ FreshPacket(x)
  BY DEF FreshInv
<1>2. ASSUME NEW x \in net' PROVE SinceAsked(x)' /\ FreshPacket(x)'
  <2>1. SinceAsked(x)'
    BY <1>1 DEF SinceAsked
  <2>2. FreshPacket(x)'
    <3> SUFFICES ASSUME NEW c \in Callers, Expects(c)', About(x, c)'
                 PROVE  /\ x.op \in {"read", "answer"} => x.age <= Waited(c)'
                        /\ x.op = "answer" => x.value \in caller'[c].inForce
      BY DEF FreshPacket
    <3>1. StillExpects(c) /\ FreshPacket(x)
      BY <1>1
    <3>2. /\ Expects(c) /\ About(x, c) /\ Waited(c)' = Waited(c)
          /\ caller[c].inForce \subseteq caller'[c].inForce
      BY <3>1 DEF StillExpects, About, Waited
    <3>3. QED BY <3>1, <3>2 DEF FreshPacket
  <2>3. QED BY <2>1, <2>2
<1>3. ASSUME NEW k \in DOMAIN cache', NEW e, e = cache'[k]
      PROVE  KeptSinceAsked(e)' /\ FreshEntry(e)'
  <2>1. KeptSinceAsked(e) /\ FreshEntry(e)
    BY <1>3 DEF FreshInv
  <2>2. KeptSinceAsked(e)'
    BY <2>1 DEF KeptSinceAsked
  <2>3. FreshEntry(e)'
    <3> SUFFICES ASSUME NEW c \in Callers, Expects(c)', About(e.answer, c)'
                 PROVE  \/ e.answer.value \in caller'[c].inForce /\ e.age <= Waited(c)'
                        \/ e.age > CacheTime - caller'[c].left
      BY DEF FreshEntry
    <3>1. StillExpects(c)
      OBVIOUS
    <3>2. /\ Expects(c) /\ About(e.answer, c) /\ Waited(c)' = Waited(c)
          /\ caller[c].inForce \subseteq caller'[c].inForce /\ caller'[c].left = caller[c].left
      BY <3>1 DEF StillExpects, About, Waited
    <3>3. QED BY <2>1, <3>2 DEF FreshEntry
  <2>4. QED BY <2>2, <2>3
<1>4. \A k \in DOMAIN cache' : (KeptSinceAsked(cache[k]) /\ FreshEntry(cache[k]))'
  BY <1>3 DEF KeptSinceAsked, FreshEntry, About, Expects, Asking, Waited
<1>5. QED BY <1>2, <1>4 DEF FreshInv, SinceAsked, FreshPacket

LEMMA SameThreads ==
  ASSUME FreshInv, UNCHANGED <<caller, held>>
  PROVE  \A c \in Callers : StillExpects(c) /\ ThreadFresh(c)'
<1> SUFFICES ASSUME NEW c \in Callers PROVE StillExpects(c) /\ ThreadFresh(c)'
  OBVIOUS
<1>1. ThreadFresh(c)
  BY DEF FreshInv
<1>2. QED
  BY <1>1 DEF StillExpects, Expects, Asking, ThreadFresh, KnowsHeld, FoundInTime, GotFresh, Returned, Got

\* What a mote holds from now on is added to what the threads that wait may get.
LEMMA HeldIsInForce ==
  ASSUME IInv, FreshInv, NEW m \in Motes, NEW i \in Items, NEW v \in Values, Holds(m, i, v)
  PROVE  \A c \in Callers : StillExpects(c) /\ ThreadFresh(c)'
<1> SUFFICES ASSUME NEW c \in Callers PROVE StillExpects(c) /\ ThreadFresh(c)'
  OBVIOUS
<1>1. held' = [held EXCEPT ![m][i] = v] /\ held \in [Motes -> [Items -> Values]]
  BY DEF Holds, IInv, Types
<1>2. ThreadFresh(c) /\ caller[c] \in {Idle} \cup Queries
  BY DEF FreshInv, IInv, Types
<1>3. CASE Asks(c, m, i)
  <2>1. caller'[c] = [caller[c] EXCEPT !.inForce = @ \cup {Shown(i, v)}]
    BY <1>3 DEF Holds
  <2>2. caller[c] \in Queries /\ caller[c].mote = m /\ caller[c].item = i /\ Asking(c)
    BY <1>2, <1>3 DEF Asks, Asking, Idle
  <2>3. /\ caller'[c].pc = caller[c].pc /\ caller'[c].mote = m /\ caller'[c].item = i
        /\ caller'[c].left = caller[c].left /\ caller'[c].quiet = caller[c].quiet
        /\ caller'[c].old = caller[c].old
        /\ caller'[c].inForce = caller[c].inForce \cup {Shown(i, v)}
    BY <2>1, <2>2 DEF Queries
  <2>4. held'[m][i] = v
    BY <1>1
  <2>5. StillExpects(c)
    BY <2>2, <2>3 DEF StillExpects, Expects, Asking
  <2>6. KnowsHeld(c)'
    BY <1>2, <2>2, <2>3, <2>4 DEF ThreadFresh, KnowsHeld, Asking
  <2>7. FoundInTime(c)' /\ GotFresh(c)'
    BY <1>2, <2>2, <2>3 DEF ThreadFresh, FoundInTime, GotFresh, Returned, Asking
  <2>8. QED BY <2>5, <2>6, <2>7 DEF ThreadFresh
<1>4. CASE ~Asks(c, m, i)
  <2>1. caller'[c] = caller[c]
    BY <1>4 DEF Holds
  <2>2. StillExpects(c) /\ FoundInTime(c)' /\ GotFresh(c)'
    BY <1>2, <2>1 DEF StillExpects, Expects, Asking, ThreadFresh, FoundInTime, GotFresh, Returned, Got
  <2>3. KnowsHeld(c)'
    <3> SUFFICES ASSUME Asking(c)'
                 PROVE  /\ caller[c].left \in 0 .. Timeout
                        /\ Shown(caller[c].item, held'[caller[c].mote][caller[c].item]) \in caller[c].inForce
      BY <2>1 DEF KnowsHeld
    <3>1. Asking(c)
      BY <2>1 DEF Asking
    <3>2. caller[c].mote \in Motes /\ caller[c].item \in Items
          /\ ~(caller[c].mote = m /\ caller[c].item = i)
      BY <1>2, <1>4, <3>1 DEF Asking, Asks, Idle, Queries
    <3>3. held'[caller[c].mote][caller[c].item] = held[caller[c].mote][caller[c].item]
      BY <1>1, <3>2
    <3>4. QED BY <1>2, <3>1, <3>3 DEF ThreadFresh, KnowsHeld
  <2>4. QED BY <2>2, <2>3 DEF ThreadFresh
<1>5. QED BY <1>3, <1>4

LEMMA MotesFresh ==
  ASSUME IInv, FreshInv,
         \/ \E x \in net : Write(x)
         \/ \E m \in Motes, i \in Items : RuleChanges(m, i)
  PROVE  FreshInv'
<1>1. \E m \in Motes, i \in Items, v \in Values : Holds(m, i, v)
  <2>1. ASSUME NEW x \in net, Write(x)
        PROVE  \E m \in Motes, i \in Items, v \in Values : Holds(m, i, v)
    <3>1. x \in Packets /\ FitsItem(x) /\ x.op \in {"set", "add", "remove"}
      BY <2>1 DEF IInv, Types, WritesFit, Write
    <3>2. x.mote \in Motes /\ x.item \in Items
      BY <3>1 DEF Packets
    <3>3. held[x.mote][x.item] \in Values /\ Sized(x.item, held[x.mote][x.item])
      BY <3>2 DEF IInv, Types, Sizes
    <3>4. Marshalled(x, held[x.mote][x.item]) \in Values
      BY <3>1, <3>3, MarshalledIsSized
    <3>5. QED BY <2>1, <3>2, <3>4 DEF Write
  <2>2. ASSUME NEW m \in Motes, NEW i \in Items, RuleChanges(m, i)
        PROVE  \E v \in Values : Holds(m, i, v)
    <3>1. PICK r \in {{}} \cup {{u} : u \in Rules} : Holds(m, i, r)
      BY <2>2 DEF RuleChanges
    <3>2. r \in Values
      BY QueryAssumption DEF Values
    <3>3. QED BY <3>1, <3>2
  <2>3. QED BY <2>1, <2>2
<1>2. \A c \in Callers : StillExpects(c) /\ ThreadFresh(c)'
  BY <1>1, HeldIsInForce
<1>3. net' \subseteq net /\ UNCHANGED <<cache, quiet>>
  BY DEF Write, RuleChanges
<1>4. QED BY <1>2, <1>3, NothingStale

\* Packets that say nothing of what a mote holds, that are lost, and answers that expire.
LEMMA OthersFresh ==
  ASSUME IInv, FreshInv,
         \/ \E c \in Callers, m \in Motes, i \in Items : Set(c, m, i)
         \/ \E x \in net : Lose(x)
         \/ \E k \in DOMAIN cache : Expire(k)
  PROVE  FreshInv'
<1>1. UNCHANGED <<caller, held, quiet>>
  BY DEF Set, Lose, Expire
<1>2. \A x \in net' : x \in net \/ (SinceAsked(x) /\ FreshPacket(x))
  <2>1. ASSUME NEW c \in Callers, NEW m \in Motes, NEW i \in Items, Set(c, m, i), NEW x \in net'
        PROVE  x \in net \/ (SinceAsked(x) /\ FreshPacket(x))
    <3>1. PICK w \in Writes(i) : net' = net \cup {Packet(c, m, i, w[1], w[2])}
      BY <2>1 DEF Set
    <3>2. i.kind \in Kinds
      BY QueryAssumption
    <3>3. w[1] \in {"set", "add", "remove"}
      BY <3>2 DEF Kinds, Writes, TimerWrites, ByteWrites, AcceptedWrites, RuleWrites
    <3>4. x \in net \/ x.op \in {"set", "add", "remove"}
      BY <2>1, <3>1, <3>3 DEF Packet
    <3>5. QED BY <3>4 DEF SinceAsked, FreshPacket
  <2>2. ASSUME ~ \E c \in Callers, m \in Motes, i \in Items : Set(c, m, i)
        PROVE  net' \subseteq net
    BY <2>2 DEF Lose, Expire
  <2>3. QED BY <2>1, <2>2
<1>3. \A k \in DOMAIN cache' : k \in DOMAIN cache /\ cache'[k] = cache[k]
  BY DEF Set, Lose, Expire, Without
<1>4. QED BY <1>1, <1>2, <1>3, SameThreads, NothingStale

\* An answer is what the mote holds, and the threads that expect it know that.
LEMMA AnswerFresh ==
  ASSUME IInv, FreshInv, NEW x \in net, Answer(x)
  PROVE  FreshInv'
<1> DEFINE v == Shown(x.item, held[x.mote][x.item])
           p == Packet(x.from, x.mote, x.item, "answer", v)
<1>1. x \in Packets /\ x.op = "read" /\ SinceAsked(x) /\ FreshPacket(x)
  BY DEF IInv, Types, FreshInv, Answer
<1>2. UNCHANGED <<held, cache, caller, quiet>> /\ net' = (net \ {x}) \cup {p}
  BY DEF Answer
<1>3. p.op = "answer" /\ p.mote = x.mote /\ p.item = x.item /\ p.value = v /\ p.age = 0
  BY DEF Packet
<1> HIDE DEF p
<1>4. x.age \in 0 .. MaxDelay /\ x.mote \in Motes /\ x.item \in Items /\ MaxDelay \in Nat
  BY <1>1, QueryAssumption DEF Packets
<1>5. SinceAsked(p)
  <2>1. quiet[x.mote][x.item] \in 0 .. Quiet /\ Quiet \in Nat
    BY <1>4, QueryAssumption DEF IInv, Types, Quiet
  <2>2. quiet[x.mote][x.item] <= x.age
    BY <1>1 DEF SinceAsked
  <2>3. QED BY <1>3, <1>4, <2>1, <2>2 DEF SinceAsked
<1>6. FreshPacket(p)
  <2> SUFFICES ASSUME NEW c \in Callers, Expects(c), About(p, c)
               PROVE  p.age <= Waited(c) /\ p.value \in caller[c].inForce
    BY DEF FreshPacket
  <2>1. KnowsHeld(c) /\ caller[c].mote = x.mote /\ caller[c].item = x.item /\ Asking(c)
    BY <1>3 DEF FreshInv, ThreadFresh, Expects, About
  <2>2. caller[c].left \in 0 .. Timeout /\ v \in caller[c].inForce
    BY <2>1 DEF KnowsHeld
  <2>3. QED BY <1>3, <2>2, QueryAssumption DEF Waited
<1>7. QED BY <1>2, <1>5, <1>6, SameThreads, NothingStale

LEMMA ReceiveFresh ==
  ASSUME IInv, FreshInv, NEW x \in net, ReceiveAnswer(x)
  PROVE  FreshInv'
<1> DEFINE k == Key(x.mote, x.item)
           e == [answer |-> [is |-> "answer", mote |-> x.mote, item |-> x.item, value |-> x.value],
                 age |-> 0]
<1>1. x \in Packets /\ x.op = "answer" /\ SinceAsked(x) /\ FreshPacket(x)
  BY DEF IInv, Types, FreshInv, ReceiveAnswer
<1>2. /\ UNCHANGED <<held, caller, quiet>> /\ net' \subseteq net
      /\ cache' = [j \in DOMAIN cache \cup {k} |-> IF j = k THEN e ELSE cache[j]]
  BY DEF ReceiveAnswer
<1>3. e.age = 0 /\ e.answer.mote = x.mote /\ e.answer.item = x.item /\ e.answer.value = x.value
  OBVIOUS
<1> HIDE DEF e, k
<1>4. x.age \in 0 .. MaxDelay /\ x.mote \in Motes /\ x.item \in Items /\ MaxDelay \in Nat
  BY <1>1, QueryAssumption DEF Packets
<1>5. KeptSinceAsked(e)
  <2>1. quiet[x.mote][x.item] \in 0 .. Quiet /\ Quiet \in Nat
    BY <1>4, QueryAssumption DEF IInv, Types, Quiet
  <2>2. quiet[x.mote][x.item] <= x.age + MaxDelay
    BY <1>1 DEF SinceAsked
  <2>3. QED BY <1>3, <1>4, <2>1, <2>2 DEF KeptSinceAsked
<1>6. FreshEntry(e)
  <2> SUFFICES ASSUME NEW c \in Callers, Expects(c), About(e.answer, c)
               PROVE  e.answer.value \in caller[c].inForce /\ e.age <= Waited(c)
    BY DEF FreshEntry
  <2>1. About(x, c) /\ Asking(c) /\ KnowsHeld(c)
    BY <1>3 DEF FreshInv, ThreadFresh, Expects, About
  <2>2. caller[c].left \in 0 .. Timeout /\ x.value \in caller[c].inForce
    BY <1>1, <2>1 DEF KnowsHeld, FreshPacket
  <2>3. QED BY <1>3, <2>2, QueryAssumption DEF Waited
<1>7. \A j \in DOMAIN cache' : (j \in DOMAIN cache /\ cache'[j] = cache[j]) \/ cache'[j] = e
  BY <1>2
<1>8. QED BY <1>2, <1>5, <1>6, <1>7, SameThreads, NothingStale

\* The time of the question is over: what else was in the map has expired.
LEMMA ContainsKeyFresh ==
  ASSUME IInv, FreshInv, NEW c \in Callers, ContainsKey(c)
  PROVE  FreshInv'
<1> DEFINE k == Key(caller[c].mote, caller[c].item)
           pc == IF k \in DOMAIN cache THEN "found" ELSE "returned"
<1>1. /\ UNCHANGED <<held, net, cache, quiet>>
      /\ caller[c].pc = "asleep" /\ caller[c].left = 0
      /\ caller' = [caller EXCEPT ![c].pc = pc, ![c].old = k \in Due]
  BY DEF ContainsKey
<1>2. caller \in [Callers -> {Idle} \cup Queries] /\ caller[c] \in Queries
  BY <1>1 DEF IInv, Types, Idle
<1>3. ThreadFresh(c) /\ Asking(c) /\ pc \in {"found", "returned"}
  BY <1>1 DEF FreshInv, Asking
<1>4. caller[c].quiet => k \notin Due
  <2> SUFFICES ASSUME caller[c].quiet, k \in Due PROVE FALSE
    OBVIOUS
  <2>1. k \in DOMAIN cache /\ cache[k].age = CacheTime
    BY DEF Due
  <2>2. cache[k].answer \in Answers /\ k = Key(cache[k].answer.mote, cache[k].answer.item)
    BY <2>1 DEF IInv, Types, QueryInv, KeptUnderKey
  <2>3. About(cache[k].answer, c)
    BY <1>2, <2>2, KeyInjective DEF About, Answers, Queries
  <2>4. FreshEntry(cache[k]) /\ Expects(c)
    BY <1>3, <2>1 DEF FreshInv, Expects
  <2>5. cache[k].age <= Waited(c) \/ cache[k].age > CacheTime
    BY <1>1, <2>3, <2>4, QueryAssumption DEF FreshEntry
  <2>6. QED BY <1>1, <2>1, <2>5, QueryAssumption DEF Waited
<1> DEFINE due == k \in Due
<1>5. due \in BOOLEAN /\ (caller[c].quiet => ~due)
  BY <1>4
<1>6. caller'[c] = [caller[c] EXCEPT !.pc = pc, !.old = due]
  BY <1>1, <1>2
<1> HIDE DEF pc, due, k
<1>7. /\ caller'[c].pc = pc /\ caller'[c].old = due /\ caller'[c].quiet = caller[c].quiet
      /\ caller'[c].mote = caller[c].mote /\ caller'[c].item = caller[c].item
      /\ caller'[c].left = caller[c].left /\ caller'[c].inForce = caller[c].inForce
      /\ caller'[c].got = NoAnswer
  <2>1. caller[c].got = NoAnswer
    BY <1>3 DEF IInv, QueryInv, NothingYet
  <2>2. QED BY <1>2, <1>5, <1>6, <2>1 DEF Queries
<1>8. StillExpects(c)
  BY <1>3, <1>7 DEF StillExpects, Expects
<1>9. ThreadFresh(c)'
  <2>1. KnowsHeld(c)'
    BY <1>1, <1>3, <1>7 DEF ThreadFresh, KnowsHeld
  <2>2. FoundInTime(c)' /\ GotFresh(c)'
    BY <1>1, <1>5, <1>7 DEF FoundInTime, GotFresh, Got, NoAnswer
  <2>3. QED BY <2>1, <2>2 DEF ThreadFresh
<1>10. ASSUME NEW d \in Callers, d # c PROVE StillExpects(d) /\ ThreadFresh(d)'
  <2>1. caller'[d] = caller[d]
    BY <1>1, <1>2, <1>10
  <2>2. ThreadFresh(d)
    BY DEF FreshInv
  <2>3. QED
    BY <1>1, <2>1, <2>2
       DEF StillExpects, Expects, Asking, ThreadFresh, KnowsHeld, FoundInTime, GotFresh, Returned, Got
<1>11. \A d \in Callers : StillExpects(d) /\ ThreadFresh(d)'
  BY <1>8, <1>9, <1>10
<1>12. QED BY <1>1, <1>11, NothingStale

\* What is there then came since the question.
LEMMA RemoveAnswerFresh ==
  ASSUME IInv, FreshInv, NEW c \in Callers, RemoveAnswer(c)
  PROVE  FreshInv'
<1> DEFINE k == Key(caller[c].mote, caller[c].item)
           got == IF k \in DOMAIN cache THEN cache[k].answer ELSE Null
<1>1. /\ UNCHANGED <<held, net, quiet>> /\ caller[c].pc = "found"
      /\ caller' = [caller EXCEPT ![c].pc = "returned", ![c].got = got]
      /\ cache' = [j \in DOMAIN cache \ {k} |-> cache[j]]
  BY DEF RemoveAnswer, Without
<1>2. caller \in [Callers -> {Idle} \cup Queries] /\ caller[c] \in Queries
  BY <1>1 DEF IInv, Types, Idle
<1>3. got \in {Null} \cup Answers
  BY DEF IInv, Types
<1>4. ThreadFresh(c) /\ Asking(c) /\ caller[c].left = 0
  BY <1>1 DEF FreshInv, ThreadFresh, FoundInTime, Asking
<1>5. caller[c].quiet /\ got.is = "answer" => got.value \in caller[c].inForce
  <2> SUFFICES ASSUME caller[c].quiet, got.is = "answer" PROVE got.value \in caller[c].inForce
    OBVIOUS
  <2>1. k \in DOMAIN cache /\ got = cache[k].answer
    BY DEF Null
  <2>2. /\ cache[k] \in [answer : Answers, age : 0 .. CacheTime]
        /\ k = Key(cache[k].answer.mote, cache[k].answer.item)
    BY <2>1 DEF IInv, Types, QueryInv, KeptUnderKey
  <2>3. About(cache[k].answer, c)
    BY <1>2, <2>2, KeyInjective DEF About, Answers, Queries
  <2>4. FreshEntry(cache[k]) /\ Expects(c)
    BY <1>4, <2>1 DEF FreshInv, Expects
  <2>5. got.value \in caller[c].inForce \/ cache[k].age > CacheTime
    BY <1>4, <2>1, <2>3, <2>4, QueryAssumption DEF FreshEntry
  <2>6. QED BY <2>2, <2>5, QueryAssumption
<1> HIDE DEF got, k
<1>6. caller'[c] = [caller[c] EXCEPT !.pc = "returned", !.got = got]
  BY <1>1, <1>2
<1>7. /\ caller'[c].pc = "returned" /\ caller'[c].got = got
      /\ caller'[c].quiet = caller[c].quiet /\ caller'[c].old = caller[c].old
      /\ caller'[c].inForce = caller[c].inForce
  BY <1>2, <1>6 DEF Queries
<1>8. StillExpects(c) /\ KnowsHeld(c)' /\ FoundInTime(c)'
  BY <1>7 DEF StillExpects, Expects, Asking, KnowsHeld, FoundInTime
<1>9. GotFresh(c)'
  <2>1. caller[c].quiet => ~caller[c].old
    BY <1>1, <1>4 DEF ThreadFresh, FoundInTime
  <2>2. QED BY <1>5, <1>7, <2>1 DEF GotFresh, Got
<1>10. ASSUME NEW d \in Callers, d # c PROVE StillExpects(d) /\ ThreadFresh(d)'
  <2>1. caller'[d] = caller[d]
    BY <1>1, <1>2, <1>10
  <2>2. ThreadFresh(d)
    BY DEF FreshInv
  <2>3. QED
    BY <1>1, <2>1, <2>2
       DEF StillExpects, Expects, Asking, ThreadFresh, KnowsHeld, FoundInTime, GotFresh, Returned, Got
<1>11. \A d \in Callers : StillExpects(d) /\ ThreadFresh(d)'
  BY <1>8, <1>9, <1>10 DEF ThreadFresh
<1>12. \A j \in DOMAIN cache' : j \in DOMAIN cache /\ cache'[j] = cache[j]
  BY <1>1
<1>13. QED BY <1>1, <1>11, <1>12, NothingStale

\* After a quiet time nothing is on its way, and what is in the map is old.
LEMMA QuietAround ==
  ASSUME IInv, FreshInv, NEW m \in Motes, NEW i \in Items, quiet[m][i] = Quiet
  PROVE  /\ \A x \in net : x.mote = m /\ x.item = i => x.op \notin {"read", "answer"}
         /\ \A k \in DOMAIN cache : cache[k].answer.mote = m /\ cache[k].answer.item = i =>
               cache[k].age > CacheTime - Timeout
<1>1. MaxDelay \in Nat /\ CacheTime \in Nat /\ Timeout \in Nat /\ CacheTime > Timeout
  BY QueryAssumption
<1>2. ASSUME NEW x \in net, x.mote = m, x.item = i, x.op \in {"read", "answer"}
      PROVE  FALSE
  <2>1. x.age \in 0 .. MaxDelay /\ SinceAsked(x)
    BY DEF FreshInv, IInv, Types, Packets
  <2>2. Quiet <= x.age + MaxDelay
    BY <1>1, <1>2, <2>1 DEF SinceAsked, Quiet
  <2>3. QED BY <1>1, <2>1, <2>2 DEF Quiet
<1>3. ASSUME NEW k \in DOMAIN cache, cache[k].answer.mote = m, cache[k].answer.item = i
      PROVE  cache[k].age > CacheTime - Timeout
  <2>1. cache[k].age \in 0 .. CacheTime /\ KeptSinceAsked(cache[k])
    BY DEF FreshInv, IInv, Types
  <2>2. QED BY <1>1, <1>3, <2>1 DEF KeptSinceAsked, Quiet
<1>4. QED BY <1>2, <1>3

LEMMA AskFresh ==
  ASSUME IInv, FreshInv, NEW c \in Callers, NEW m \in Motes, NEW i \in Items, Ask(c, m, i)
  PROVE  FreshInv'
<1> DEFINE q == [pc |-> "asleep", mote |-> m, item |-> i, left |-> Timeout, got |-> NoAnswer,
                 old |-> FALSE, quiet |-> quiet[m][i] = Quiet, alone |-> \A e \in Callers : ~Asks(e, m, i),
                 inForce |-> {Shown(i, held[m][i])}]
           p == Packet(c, m, i, "read", {})
<1>1. /\ UNCHANGED <<held, cache>> /\ net' = net \cup {p}
      /\ quiet' = [quiet EXCEPT ![m][i] = 0]
      /\ caller' = [d \in Callers |-> IF d = c THEN q
                    ELSE IF Asks(d, m, i) THEN [caller[d] EXCEPT !.alone = FALSE] ELSE caller[d]]
  BY DEF Ask
<1>2. p.op = "read" /\ p.mote = m /\ p.item = i /\ p.age = 0
  BY DEF Packet
<1>3. /\ q.pc = "asleep" /\ q.mote = m /\ q.item = i /\ q.left = Timeout
      /\ q.quiet => quiet[m][i] = Quiet
      /\ Shown(i, held[m][i]) \in q.inForce
  OBVIOUS
<1> HIDE DEF p, q
<1>4. caller'[c] = q
  BY <1>1
<1>5. ASSUME NEW d \in Callers, d # c
      PROVE  /\ caller'[d].pc = caller[d].pc
             /\ caller[d].pc # "idle" =>
                  /\ caller'[d].mote = caller[d].mote /\ caller'[d].item = caller[d].item
                  /\ caller'[d].left = caller[d].left /\ caller'[d].got = caller[d].got
                  /\ caller'[d].old = caller[d].old /\ caller'[d].quiet = caller[d].quiet
                  /\ caller'[d].inForce = caller[d].inForce
  <2>1. caller[d] \in {Idle} \cup Queries
    BY DEF IInv, Types
  <2>2. CASE Asks(d, m, i)
    <3>1. caller'[d] = [caller[d] EXCEPT !.alone = FALSE]
      BY <1>1, <1>5, <2>2
    <3>2. caller[d] \in Queries
      BY <2>1, <2>2 DEF Asks, Idle
    <3>3. QED BY <3>1, <3>2 DEF Queries
  <2>3. CASE ~Asks(d, m, i)
    BY <1>1, <1>5, <2>3
  <2>4. QED BY <2>2, <2>3
<1>6. Timeout \in Nat /\ CacheTime \in Nat /\ MaxDelay \in Nat /\ Quiet \in Nat
  BY QueryAssumption DEF Quiet
<1>7. \A n \in Motes, j \in Items :
         quiet[n][j] \in Nat /\ quiet'[n][j] \in Nat /\ quiet'[n][j] <= quiet[n][j]
  <2>1. quiet \in [Motes -> [Items -> 0 .. Quiet]]
    BY DEF IInv, Types
  <2>2. QED BY <1>1, <1>6, <2>1
<1>8. ASSUME NEW d \in Callers PROVE ThreadFresh(d)'
  <2>1. CASE d = c
    <3>1. KnowsHeld(c)' /\ FoundInTime(c)' /\ GotFresh(c)'
      BY <1>1, <1>3, <1>4, <1>6 DEF KnowsHeld, FoundInTime, GotFresh, Returned
    <3>2. QED BY <2>1, <3>1 DEF ThreadFresh
  <2>2. CASE d # c
    <3>1. ThreadFresh(d)
      BY DEF FreshInv
    <3>2. KnowsHeld(d)'
      BY <1>1, <1>5, <2>2, <3>1 DEF ThreadFresh, KnowsHeld, Asking
    <3>3. FoundInTime(d)' /\ GotFresh(d)'
      BY <1>5, <2>2, <3>1 DEF ThreadFresh, FoundInTime, GotFresh, Got, Returned
    <3>4. QED BY <3>2, <3>3 DEF ThreadFresh
  <2>3. QED BY <2>1, <2>2
<1>9. ASSUME NEW d \in Callers, d # c, Expects(d)'
      PROVE  /\ Expects(d) /\ caller'[d].left = caller[d].left
             /\ caller'[d].mote = caller[d].mote /\ caller'[d].item = caller[d].item
             /\ caller'[d].inForce = caller[d].inForce
  BY <1>5, <1>9 DEF Expects, Asking
<1>10. ASSUME NEW x \in net' PROVE SinceAsked(x)' /\ FreshPacket(x)'
  <2>1. CASE x = p
    <3>1. SinceAsked(x)'
      BY <1>1, <1>2, <1>6, <2>1 DEF SinceAsked, IInv, Types
    <3>2. FreshPacket(x)'
      <4> SUFFICES ASSUME NEW d \in Callers, Asking(d)' PROVE x.age <= Waited(d)'
        BY <1>2, <2>1 DEF FreshPacket, Expects
      <4>1. caller'[d].left \in 0 .. Timeout
        BY <1>8 DEF ThreadFresh, KnowsHeld
      <4>2. QED BY <1>2, <1>6, <2>1, <4>1 DEF Waited
    <3>3. QED BY <3>1, <3>2
  <2>2. CASE x \in net
    <3>1. SinceAsked(x) /\ FreshPacket(x) /\ x \in Packets
      BY <2>2 DEF FreshInv, IInv, Types
    <3>2. x.age \in Nat /\ x.mote \in Motes /\ x.item \in Items
      BY <1>6, <3>1 DEF Packets
    <3>3. SinceAsked(x)'
      <4>1. quiet'[x.mote][x.item] <= quiet[x.mote][x.item]
            /\ quiet'[x.mote][x.item] \in Nat /\ quiet[x.mote][x.item] \in Nat
        BY <1>7, <3>2
      <4>2. QED BY <1>6, <3>1, <3>2, <4>1 DEF SinceAsked
    <3>4. FreshPacket(x)'
      <4> SUFFICES ASSUME NEW d \in Callers, Expects(d)', About(x, d)'
                   PROVE  /\ x.op \in {"read", "answer"} => x.age <= Waited(d)'
                          /\ x.op = "answer" => x.value \in caller'[d].inForce
        BY DEF FreshPacket
      <4>1. CASE d = c
        <5>1. x.mote = m /\ x.item = i /\ quiet[m][i] = Quiet
          BY <1>3, <1>4, <4>1 DEF About, Expects
        <5>2. QED BY <2>2, <5>1, QuietAround
      <4>2. CASE d # c
        <5>1. Expects(d) /\ About(x, d) /\ Waited(d)' = Waited(d) /\ caller'[d].inForce = caller[d].inForce
          BY <1>9, <4>2 DEF About, Waited
        <5>2. QED BY <3>1, <5>1 DEF FreshPacket
      <4>3. QED BY <4>1, <4>2
    <3>5. QED BY <3>3, <3>4
  <2>3. QED BY <1>1, <2>1, <2>2
<1>11. ASSUME NEW k \in DOMAIN cache', NEW e, e = cache[k]
       PROVE  KeptSinceAsked(e)' /\ FreshEntry(e)'
  <2>1. KeptSinceAsked(e) /\ FreshEntry(e) /\ e \in [answer : Answers, age : 0 .. CacheTime]
    BY <1>1, <1>11 DEF FreshInv, IInv, Types
  <2>2. KeptSinceAsked(e)'
    <3>1. e.answer.mote \in Motes /\ e.answer.item \in Items /\ e.age \in Nat
      BY <1>6, <2>1 DEF Answers
    <3>2. QED BY <1>6, <1>7, <2>1, <3>1 DEF KeptSinceAsked
  <2>3. FreshEntry(e)'
    <3> SUFFICES ASSUME NEW d \in Callers, Expects(d)', About(e.answer, d)'
                 PROVE  \/ e.answer.value \in caller'[d].inForce /\ e.age <= Waited(d)'
                        \/ e.age > CacheTime - caller'[d].left
      BY DEF FreshEntry
    <3>1. CASE d = c
      <4>1. /\ e.answer.mote = m /\ e.answer.item = i /\ quiet[m][i] = Quiet
            /\ caller'[c].left = Timeout
        BY <1>3, <1>4, <3>1 DEF About, Expects
      <4>2. k \in DOMAIN cache /\ e = cache[k]
        BY <1>1, <1>11
      <4>3. QED BY <3>1, <4>1, <4>2, QuietAround
    <3>2. CASE d # c
      <4>1. /\ Expects(d) /\ About(e.answer, d) /\ Waited(d)' = Waited(d)
            /\ caller'[d].inForce = caller[d].inForce /\ caller'[d].left = caller[d].left
        BY <1>9, <3>2 DEF About, Waited
      <4>2. QED BY <2>1, <4>1 DEF FreshEntry
    <3>3. QED BY <3>1, <3>2
  <2>4. QED BY <2>2, <2>3
<1>12. \A k \in DOMAIN cache' : (KeptSinceAsked(cache[k]) /\ FreshEntry(cache[k]))'
  BY <1>1, <1>11 DEF KeptSinceAsked, FreshEntry, About, Expects, Asking, Waited
<1>13. QED BY <1>8, <1>10, <1>12 DEF FreshInv, SinceAsked, FreshPacket

\* A tick makes packets, answers and questions older by the same.
LEMMA TickFresh ==
  ASSUME IInv, FreshInv, Tick
  PROVE  FreshInv'
<1>1. /\ held' = held
      /\ net' = {[x EXCEPT !.age = @ + 1] : x \in net}
      /\ cache' = [k \in DOMAIN cache |-> [cache[k] EXCEPT !.age = @ + 1]]
      /\ caller' = [c \in Callers |-> IF caller[c].pc = "asleep"
                                      THEN [caller[c] EXCEPT !.left = @ - 1] ELSE Idle]
      /\ \A c \in Callers : caller[c].pc = "asleep" => caller[c].left > 0
  BY DEF Tick
<1>2. Timeout \in Nat /\ CacheTime \in Nat /\ MaxDelay \in Nat /\ Quiet \in Nat
  BY QueryAssumption DEF Quiet
<1>3. \A m \in Motes, i \in Items :
         quiet[m][i] \in Nat /\ quiet'[m][i] \in Nat /\ quiet'[m][i] <= quiet[m][i] + 1
  <2> SUFFICES ASSUME NEW m \in Motes, NEW i \in Items
               PROVE  quiet[m][i] \in Nat /\ quiet'[m][i] \in Nat /\ quiet'[m][i] <= quiet[m][i] + 1
    OBVIOUS
  <2>1. quiet[m][i] \in 0 .. Quiet
    BY DEF IInv, Types
  <2>2. quiet'[m][i] = IF quiet[m][i] = Quiet THEN Quiet ELSE quiet[m][i] + 1
    BY DEF Tick
  <2>3. QED BY <1>2, <2>1, <2>2
<1>4. ASSUME NEW c \in Callers, Asking(c)'
      PROVE  /\ caller[c].pc = "asleep" /\ caller'[c].pc = "asleep"
             /\ caller[c].left \in 1 .. Timeout /\ caller'[c].left = caller[c].left - 1
             /\ caller'[c].mote = caller[c].mote /\ caller'[c].item = caller[c].item
             /\ caller'[c].quiet = caller[c].quiet /\ caller'[c].inForce = caller[c].inForce
  <2>1. caller[c].pc = "asleep" /\ caller'[c] = [caller[c] EXCEPT !.left = @ - 1]
    BY <1>1, <1>4 DEF Asking, Idle
  <2>2. caller[c] \in Queries /\ caller[c].left \in 0 .. Timeout /\ caller[c].left > 0
    BY <1>1, <2>1 DEF IInv, Types, Idle, FreshInv, ThreadFresh, KnowsHeld, Asking
  <2>3. QED BY <1>2, <2>1, <2>2 DEF Queries
<1>5. ASSUME NEW c \in Callers PROVE ThreadFresh(c)'
  <2>1. caller'[c].pc \in {"asleep", "idle"}
    <3>1. CASE Asking(c)'
      BY <1>4, <3>1
    <3>2. CASE ~Asking(c)'
      <4>1. CASE caller[c].pc = "asleep"
        <5>1. caller'[c] = [caller[c] EXCEPT !.left = @ - 1] /\ caller[c] \in Queries
          BY <1>1, <4>1 DEF IInv, Types, Idle
        <5>2. QED BY <4>1, <5>1 DEF Queries
      <4>2. CASE caller[c].pc # "asleep"
        BY <1>1, <4>2 DEF Idle
      <4>3. QED BY <4>1, <4>2
    <3>3. QED BY <3>1, <3>2
  <2>2. FoundInTime(c)' /\ GotFresh(c)'
    BY <2>1 DEF FoundInTime, GotFresh, Returned
  <2>3. KnowsHeld(c)'
    <3> SUFFICES ASSUME Asking(c)'
                 PROVE  /\ caller'[c].left \in 0 .. Timeout
                        /\ Shown(caller'[c].item, held[caller'[c].mote][caller'[c].item]) \in caller'[c].inForce
      BY <1>1 DEF KnowsHeld
    <3>1. KnowsHeld(c) /\ Asking(c)
      BY <1>4 DEF FreshInv, ThreadFresh, Asking
    <3>2. QED BY <1>2, <1>4, <3>1 DEF KnowsHeld
  <2>4. QED BY <2>2, <2>3 DEF ThreadFresh
<1>6. ASSUME NEW c \in Callers, Expects(c)'
      PROVE  /\ Expects(c) /\ caller'[c].left = caller[c].left - 1
             /\ caller[c].left \in 1 .. Timeout /\ Waited(c)' = Waited(c) + 1
             /\ caller'[c].mote = caller[c].mote /\ caller'[c].item = caller[c].item
             /\ caller'[c].inForce = caller[c].inForce
  <2>1. Asking(c)' /\ caller'[c].quiet
    BY <1>6 DEF Expects
  <2>2. QED BY <1>2, <1>4, <2>1 DEF Expects, Asking, Waited
<1>7. ASSUME NEW y \in net' PROVE SinceAsked(y)' /\ FreshPacket(y)'
  <2>1. PICK x \in net : y = [x EXCEPT !.age = @ + 1]
    BY <1>1
  <2>2. x \in Packets /\ SinceAsked(x) /\ FreshPacket(x)
    BY DEF FreshInv, IInv, Types
  <2>3. /\ x.age \in Nat /\ x.mote \in Motes /\ x.item \in Items /\ y.age = x.age + 1
        /\ y.op = x.op /\ y.mote = x.mote /\ y.item = x.item /\ y.value = x.value
    BY <1>2, <2>1, <2>2 DEF Packets
  <2>4. SinceAsked(y)'
    <3>1. /\ quiet'[x.mote][x.item] <= quiet[x.mote][x.item] + 1
          /\ quiet'[x.mote][x.item] \in Nat /\ quiet[x.mote][x.item] \in Nat
      BY <1>3, <2>3
    <3>2. QED BY <1>2, <2>2, <2>3, <3>1 DEF SinceAsked
  <2>5. FreshPacket(y)'
    <3> SUFFICES ASSUME NEW c \in Callers, Expects(c)', About(y, c)'
                 PROVE  /\ y.op \in {"read", "answer"} => y.age <= Waited(c)'
                        /\ y.op = "answer" => y.value \in caller'[c].inForce
      BY DEF FreshPacket
    <3>1. Expects(c) /\ About(x, c)
      BY <1>6, <2>3 DEF About
    <3>2. Waited(c)' = Waited(c) + 1 /\ Waited(c) \in Int /\ caller'[c].inForce = caller[c].inForce
      BY <1>2, <1>6 DEF Waited
    <3>3. QED BY <2>2, <2>3, <3>1, <3>2 DEF FreshPacket
  <2>6. QED BY <2>4, <2>5
<1>8. ASSUME NEW k \in DOMAIN cache', NEW e, e = cache'[k]
      PROVE  KeptSinceAsked(e)' /\ FreshEntry(e)'
  <2> DEFINE d == cache[k]
  <2>1. k \in DOMAIN cache /\ e = [d EXCEPT !.age = @ + 1]
    BY <1>1, <1>8
  <2>2. d \in [answer : Answers, age : 0 .. CacheTime] /\ KeptSinceAsked(d) /\ FreshEntry(d)
    BY <2>1 DEF FreshInv, IInv, Types
  <2> HIDE DEF d
  <2>3. e.answer = d.answer /\ e.age = d.age + 1 /\ d.age \in Nat /\ d.answer \in Answers
    BY <1>2, <2>1, <2>2
  <2>4. KeptSinceAsked(e)'
    <3>1. d.answer.mote \in Motes /\ d.answer.item \in Items
      BY <2>3 DEF Answers
    <3>2. QED BY <1>2, <1>3, <2>2, <2>3, <3>1 DEF KeptSinceAsked
  <2>5. FreshEntry(e)'
    <3> SUFFICES ASSUME NEW c \in Callers, Expects(c)', About(e.answer, c)'
                 PROVE  \/ e.answer.value \in caller'[c].inForce /\ e.age <= Waited(c)'
                        \/ e.age > CacheTime - caller'[c].left
      BY DEF FreshEntry
    <3>1. Expects(c) /\ About(d.answer, c)
      BY <1>6, <2>3 DEF About
    <3>2. /\ Waited(c)' = Waited(c) + 1 /\ Waited(c) \in Int
          /\ caller'[c].inForce = caller[c].inForce
          /\ caller'[c].left = caller[c].left - 1 /\ caller[c].left \in Nat
      BY <1>2, <1>6 DEF Waited
    <3>3. QED BY <1>2, <2>2, <2>3, <3>1, <3>2 DEF FreshEntry
  <2>6. QED BY <2>4, <2>5
<1>9. \A k \in DOMAIN cache' : (KeptSinceAsked(cache[k]) /\ FreshEntry(cache[k]))'
  BY <1>8 DEF KeptSinceAsked, FreshEntry, About, Expects, Asking, Waited
<1>10. QED BY <1>5, <1>7, <1>9 DEF FreshInv, SinceAsked, FreshPacket

(***************************************************************************)
(* After a quiet time a thread gets what the mote held while it waited:    *)
(* neither a late answer to an earlier question nor one that was kept, for *)
(* every number of threads, every delay below MaxDelay and every Timeout   *)
(* below CacheTime.                                                        *)
(***************************************************************************)
THEOREM FreshAnswers == Spec => []QuietMeansFresh
<1>1. Init => FreshInv
  BY DEF Init, Idle, FreshInv, ThreadFresh, KnowsHeld, FoundInTime, GotFresh, Asking, Returned
<1>2. IInv /\ FreshInv /\ [Next]_vars => FreshInv'
  <2> SUFFICES ASSUME IInv, FreshInv, [Next]_vars PROVE FreshInv'
    OBVIOUS
  <2>1. ASSUME NEW c \in Callers, ContainsKey(c) PROVE FreshInv'
    BY <2>1, ContainsKeyFresh
  <2>2. ASSUME NEW c \in Callers, RemoveAnswer(c) PROVE FreshInv'
    BY <2>2, RemoveAnswerFresh
  <2>3. ASSUME NEW c \in Callers, NEW m \in Motes, NEW i \in Items, Ask(c, m, i) PROVE FreshInv'
    BY <2>3, AskFresh
  <2>4. ASSUME NEW c \in Callers, NEW m \in Motes, NEW i \in Items, Set(c, m, i) PROVE FreshInv'
    BY <2>4, OthersFresh
  <2>5. ASSUME NEW x \in net, Answer(x) PROVE FreshInv'
    BY <2>5, AnswerFresh
  <2>6. ASSUME NEW x \in net, Write(x) PROVE FreshInv'
    BY <2>6, MotesFresh
  <2>7. ASSUME NEW x \in net, ReceiveAnswer(x) PROVE FreshInv'
    BY <2>7, ReceiveFresh
  <2>8. ASSUME NEW x \in net, Lose(x) PROVE FreshInv'
    BY <2>8, OthersFresh
  <2>9. ASSUME NEW m \in Motes, NEW i \in Items, RuleChanges(m, i) PROVE FreshInv'
    BY <2>9, MotesFresh
  <2>10. ASSUME NEW k \in DOMAIN cache, Expire(k) PROVE FreshInv'
    BY <2>10, OthersFresh
  <2>11. CASE Tick
    BY <2>11, TickFresh
  <2>12. CASE UNCHANGED vars
    BY <2>12, SameThreads, NothingStale DEF vars
  <2>13. QED
    BY <2>1, <2>2, <2>3, <2>4, <2>5, <2>6, <2>7, <2>8, <2>9, <2>10, <2>11, <2>12 DEF Next
<1>3. FreshInv => QuietMeansFresh
  BY DEF FreshInv, ThreadFresh, GotFresh, QuietMeansFresh
<1>4. QED BY <1>1, <1>2, <1>3, Invariance, PTL DEF Spec

==============================================================================
