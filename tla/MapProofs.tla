----------------------------- MODULE MapProofs ------------------------------
(***************************************************************************)
(* Theorems of NetworkMap, ReportedMap and RouteCache, for every finite    *)
(* network, every time-out and every resolution.                           *)
(***************************************************************************)
EXTENDS RouteCache, ReportedMap, FiniteSetTheorems, SequenceTheorems, NaturalsInduction, TLAPS

------------------------------------------------------------------------------
(* Lemmas about sequences without repetition *)

Injective(q) == \A i, j \in 1 .. Len(q) : q[i] = q[j] => i = j

LEMMA ToSetOfSeq ==
  ASSUME NEW S, NEW q \in Seq(S)
  PROVE  /\ ToSet(q) \subseteq S
         /\ \A x : x \in ToSet(q) <=> \E i \in 1 .. Len(q) : q[i] = x
BY DEF ToSet

\* SetToSeqs has the orders of a finite set, each without repetition.
LEMMA OrdersOfSet ==
  ASSUME NEW S, IsFiniteSet(S), NEW q \in SetToSeqs(S)
  PROVE  q \in Seq(S) /\ Injective(q) /\ ToSet(q) = S
<1> DEFINE D == 1 .. Cardinality(S)
<1>1. Cardinality(S) \in Nat
  BY FS_CardinalityType
<1>2. q \in [D -> S] /\ \A i, j \in D : i # j => q[i] # q[j]
  BY DEF SetToSeqs
<1>3. q \in Seq(S) /\ Len(q) = Cardinality(S) /\ DOMAIN q = D
  BY <1>1, <1>2
<1>4. Injective(q)
  BY <1>2, <1>3 DEF Injective
<1>5. q \in Injection(D, S)
  BY <1>2 DEF Injection, IsInjective
<1>6. Cardinality(D) = Cardinality(S)
  BY <1>1, FS_Interval
<1>7. q \in Surjection(D, S)
  <2> HIDE DEF D
  <2> QED BY <1>5, <1>6, FS_Injection
<1>8. ToSet(q) = S
  BY <1>3, <1>7 DEF ToSet, Surjection
<1>9. QED BY <1>3, <1>4, <1>8

\* A sequence without repetition is an order of the set of its elements.
LEMMA OrderOfElements ==
  ASSUME NEW S, NEW q \in Seq(S), Injective(q)
  PROVE  q \in SetToSeqs(ToSet(q)) /\ ToSet(q) \subseteq S
<1> DEFINE T == ToSet(q)
           D == 1 .. Len(q)
<1>1. Len(q) \in Nat /\ q \in [D -> T] /\ T \subseteq S
  BY DEF ToSet
<1>2. q \in Bijection(D, T)
  BY <1>1 DEF Bijection, Injection, Surjection, IsInjective, Injective, ToSet
<1>3. Cardinality(T) = Len(q)
  <2>1. ExistsBijection(D, T)
    BY <1>2 DEF ExistsBijection
  <2> HIDE DEF T
  <2> QED BY <1>1, <2>1, FS_CountingElements
<1>4. \A i, j \in D : i # j => q[i] # q[j]
  BY DEF Injective
<1> HIDE DEF T
<1>5. q \in SetToSeqs(T)
  BY <1>1, <1>3, <1>4 DEF SetToSeqs
<1>6. QED BY <1>1, <1>5 DEF T

\* SetToAllKPermutations has the sequences without repetition.
LEMMA AllOrders ==
  ASSUME NEW S, IsFiniteSet(S)
  PROVE  SetToAllKPermutations(S) = {q \in Seq(S) : Injective(q)}
<1>1. ASSUME NEW q \in SetToAllKPermutations(S) PROVE q \in Seq(S) /\ Injective(q)
  <2>1. PICK T \in SUBSET S : q \in SetToSeqs(T)
    BY DEF SetToAllKPermutations
  <2>2. IsFiniteSet(T)
    BY FS_Subset
  <2>3. q \in Seq(T) /\ Injective(q)
    BY <2>1, <2>2, OrdersOfSet
  <2>4. QED BY <2>3, SeqMonotonic
<1>2. ASSUME NEW q \in Seq(S), Injective(q) PROVE q \in SetToAllKPermutations(S)
  BY <1>2, OrderOfElements DEF SetToAllKPermutations
<1>3. QED BY <1>1, <1>2

\* Orders of two sets that have nothing in common, one after the other.
LEMMA Joined ==
  ASSUME NEW S, NEW p \in Seq(S), NEW q \in Seq(S), Injective(p), Injective(q),
         ToSet(p) \cap ToSet(q) = {}
  PROVE  p \o q \in Seq(S) /\ Injective(p \o q) /\ ToSet(p \o q) = ToSet(p) \cup ToSet(q)
<1>1. /\ p \o q \in Seq(S)
      /\ Len(p \o q) = Len(p) + Len(q)
      /\ Len(p) \in Nat /\ Len(q) \in Nat
      /\ \A i \in 1 .. Len(p) + Len(q) :
           (p \o q)[i] = IF i <= Len(p) THEN p[i] ELSE q[i - Len(p)]
  BY ConcatProperties
<1>2. \A i \in 1 .. Len(p), j \in 1 .. Len(q) : p[i] # q[j]
  BY DEF ToSet
<1>3. Injective(p \o q)
  <2> SUFFICES ASSUME NEW i \in 1 .. Len(p) + Len(q), NEW j \in 1 .. Len(p) + Len(q),
                      (p \o q)[i] = (p \o q)[j]
               PROVE  i = j
    BY <1>1 DEF Injective
  <2>1. CASE i <= Len(p) /\ j <= Len(p)
    BY <1>1, <2>1 DEF Injective
  <2>2. CASE i > Len(p) /\ j > Len(p)
    <3>1. i - Len(p) \in 1 .. Len(q) /\ j - Len(p) \in 1 .. Len(q)
      BY <1>1, <2>2
    <3>2. q[i - Len(p)] = q[j - Len(p)]
      BY <1>1, <2>2
    <3>3. QED BY <1>1, <3>1, <3>2 DEF Injective
  <2>3. CASE i <= Len(p) /\ j > Len(p)
    BY <1>1, <1>2, <2>3
  <2>4. CASE i > Len(p) /\ j <= Len(p)
    BY <1>1, <1>2, <2>4
  <2>5. QED BY <1>1, <2>1, <2>2, <2>3, <2>4
<1>4. ToSet(p \o q) = ToSet(p) \cup ToSet(q)
  <2>1. \A x : x \in ToSet(p \o q) <=> \E i \in 1 .. Len(p) + Len(q) : (p \o q)[i] = x
    <3>1. Len(p \o q) = Len(p) + Len(q) /\ p \o q \in Seq(S)
      BY <1>1
    <3>2. \A x : x \in ToSet(p \o q) <=> \E i \in 1 .. Len(p \o q) : (p \o q)[i] = x
      BY <3>1, ToSetOfSeq
    <3>3. QED BY <3>1, <3>2
  <2>2. ASSUME NEW i \in 1 .. Len(p) + Len(q)
        PROVE  (p \o q)[i] \in ToSet(p) \cup ToSet(q)
    BY <1>1 DEF ToSet
  <2>3. ASSUME NEW i \in 1 .. Len(p) PROVE p[i] \in ToSet(p \o q)
    <3>1. i \in 1 .. Len(p) + Len(q) /\ (p \o q)[i] = p[i]
      BY <1>1
    <3>2. QED BY <2>1, <3>1
  <2>4. ASSUME NEW i \in 1 .. Len(q) PROVE q[i] \in ToSet(p \o q)
    <3>1. i + Len(p) \in 1 .. Len(p) + Len(q) /\ (p \o q)[i + Len(p)] = q[i]
      BY <1>1
    <3>2. QED BY <2>1, <3>1
  <2>5. ToSet(p \o q) \subseteq ToSet(p) \cup ToSet(q)
    BY <2>1, <2>2
  <2>6. ToSet(p) \subseteq ToSet(p \o q) /\ ToSet(q) \subseteq ToSet(p \o q)
    BY <2>3, <2>4, ToSetOfSeq
  <2>7. QED BY <2>5, <2>6
<1>5. QED BY <1>1, <1>3, <1>4

------------------------------------------------------------------------------
(* The walk of checkConsistency over the array *)

LEMMA LeastElement ==
  ASSUME NEW S \in SUBSET Nat, S # {}
  PROVE  \E m \in S : \A k \in S : m <= k
<1> DEFINE Less == {ss \in Nat \X Nat : ss[1] < ss[2]}
<1>1. IsWellFoundedOn(Less, Nat)
  BY NatLessThanWellFounded DEF OpToRel
<1>2. \E x \in S : \A y \in S : ~(<<y, x>> \in Less)
  <2> HIDE DEF Less
  <2> QED BY <1>1, WFMin
<1>3. PICK m \in S : \A y \in S : ~(<<y, m>> \in Less)
  BY <1>2
<1>4. \A y \in S : y < m => <<y, m>> \in Less
  OBVIOUS
<1>5. \A y \in S : ~(y < m)
  BY <1>3, <1>4
<1> HIDE DEF Less
<1>6. QED
  BY <1>5

\* GraphStream's removal takes out the node at i, and no other.
LEMMA RemovalKeeps ==
  ASSUME NEW q \in Seq(Nodes), Injective(q), NEW i \in 1 .. Len(q)
  PROVE  /\ RemoveSwapped(q, i) \in Seq(Nodes) /\ Injective(RemoveSwapped(q, i))
         /\ ToSet(RemoveSwapped(q, i)) = ToSet(q) \ {q[i]}
<1> DEFINE l == Len(q)
           p == RemoveSwapped(q, i)
<1>1. l \in Nat \ {0} /\ q \in [1 .. l -> Nodes]
  OBVIOUS
<1>2. /\ p \in Seq(Nodes) /\ Len(p) = l - 1
      /\ \A k \in 1 .. (l - 1) : p[k] = IF k = i THEN q[l] ELSE q[k]
  <2>1. p = [k \in 1 .. (l - 1) |-> IF k = i THEN q[l] ELSE q[k]]
    BY DEF RemoveSwapped
  <2>2. p \in [1 .. (l - 1) -> Nodes]
    BY <1>1, <2>1
  <2>3. QED BY <1>1, <2>1, <2>2
<1>3. \A j, k \in 1 .. l : q[j] = q[k] => j = k
  BY DEF Injective
<1> HIDE DEF p
<1>4. Injective(p)
  BY <1>1, <1>2, <1>3 DEF Injective
<1>5. ASSUME NEW k \in 1 .. (l - 1) PROVE p[k] \in ToSet(q) \ {q[i]}
  <2>1. CASE k = i
    BY <1>1, <1>2, <1>3, <2>1 DEF ToSet
  <2>2. CASE k # i
    BY <1>1, <1>2, <1>3, <2>2 DEF ToSet
  <2>3. QED BY <2>1, <2>2
<1>6. \A k \in 1 .. l : k # i => \E j \in 1 .. (l - 1) : p[j] = q[k]
  <2>1. l \in Nat /\ i \in 1 .. l
    BY <1>1
  <2> HIDE DEF l
  <2> SUFFICES ASSUME NEW k \in 1 .. l, k # i PROVE \E j \in 1 .. (l - 1) : p[j] = q[k]
    OBVIOUS
  <2> DEFINE j == IF k = l THEN i ELSE k
  <2>2. j \in 1 .. (l - 1)
    BY <2>1
  <2>3. p[j] = q[k]
    BY <1>2, <2>2
  <2>4. QED BY <2>2, <2>3
<1>7. \A x : x \in ToSet(p) <=> \E j \in 1 .. (l - 1) : p[j] = x
  BY <1>2, ToSetOfSeq
<1>8. \A x : x \in ToSet(q) <=> \E j \in 1 .. l : q[j] = x
  BY ToSetOfSeq
<1>9. ToSet(p) = ToSet(q) \ {q[i]}
  <2>1. ToSet(p) \subseteq ToSet(q) \ {q[i]}
    BY <1>5, <1>7
  <2>2. ASSUME NEW x \in ToSet(q), x # q[i] PROVE x \in ToSet(p)
    <3>1. PICK k \in 1 .. l : q[k] = x
      BY <1>8
    <3>2. QED BY <1>6, <1>7, <2>2, <3>1
  <2>3. QED BY <2>1, <2>2
<1>10. QED BY <1>2, <1>4, <1>9 DEF p

\* The arrays a check may leave: nothing new, nothing twice, nobody alive gone.
Swept ==
  {q \in Seq(Nodes) :
     /\ Injective(q)
     /\ ToSet(q) \subseteq Known
     /\ \A n \in Known : IsAlive(n) => n \in ToSet(q)}

\* What the walk knows at a place: such an array, and whether it has changed.
Walked ==
  {w \in [nodes : Seq(Nodes), modified : BOOLEAN] :
     w.nodes \in Swept /\ (~w.modified => w.nodes = order)}

Visit(w, i) ==
  LET q == w.nodes
  IN  IF i <= Len(q) /\ ~IsAlive(q[i])
      THEN [nodes |-> RemoveSwapped(q, i), modified |-> TRUE] ELSE w

LEMMA VisitKeeps ==
  ASSUME NEW w \in Walked, NEW i \in Nat \ {0}
  PROVE  Visit(w, i) \in Walked
<1> DEFINE q == w.nodes
<1>1. q \in Swept
  BY DEF Walked
<1>2. CASE i <= Len(q) /\ ~IsAlive(q[i])
  <2>1. q \in Seq(Nodes) /\ Injective(q) /\ i \in 1 .. Len(q)
    BY <1>1, <1>2 DEF Swept
  <2>2. /\ RemoveSwapped(q, i) \in Seq(Nodes) /\ Injective(RemoveSwapped(q, i))
        /\ ToSet(RemoveSwapped(q, i)) = ToSet(q) \ {q[i]}
    BY <2>1, RemovalKeeps
  <2>3. RemoveSwapped(q, i) \in Swept
    BY <1>1, <1>2, <2>2 DEF Swept
  <2>4. Visit(w, i) = [nodes |-> RemoveSwapped(q, i), modified |-> TRUE]
    BY <1>2 DEF Visit
  <2>5. QED BY <2>2, <2>3, <2>4 DEF Walked
<1>3. CASE ~(i <= Len(q) /\ ~IsAlive(q[i]))
  BY <1>3 DEF Visit
<1>4. QED BY <1>2, <1>3

\* The walk: what is defined by recursion over the places exists, and every
\* array on the way is one a check may leave.
LEMMA SweepKeeps ==
  ASSUME order \in Seq(Nodes), Injective(order)
  PROVE  Sweep \in Walked
<1> DEFINE N == Len(order)
           Walks(n) == {f \in [0 .. n -> Walked] :
                          f[0] = NothingRemoved /\ \A i \in 1 .. n : f[i] = Visit(f[i - 1], i)}
           None == {n \in 0 .. N : Walks(n) = {}}
           walk == CHOOSE f : f = [i \in 0 .. N |-> IF i = 0 THEN NothingRemoved ELSE Visit(f[i - 1], i)]
           Bad == {i \in 0 .. N : walk[i] \notin Walked}
<1>1. N \in Nat
  OBVIOUS
<1>2. NothingRemoved \in Walked
  BY DEF Walked, Swept, Known, NothingRemoved
<1>3. None = {}
  <2> SUFFICES ASSUME None # {} PROVE FALSE
    OBVIOUS
  <2>1. PICK m \in None : \A k \in None : m <= k
    <3>1. None \in SUBSET Nat
      BY <1>1
    <3> HIDE DEF None
    <3>2. QED BY <3>1, LeastElement
  <2>2. m # 0
    <3>1. [i \in 0 .. 0 |-> NothingRemoved] \in Walks(0)
      BY <1>2
    <3>2. QED BY <3>1
  <2>3. m - 1 \in 0 .. N /\ m - 1 \notin None
    <3>1. m \in 0 .. N
      OBVIOUS
    <3> HIDE DEF Walks
    <3>2. m - 1 \in 0 .. N /\ ~(m <= m - 1)
      <4> HIDE DEF N
      <4> QED BY <1>1, <2>2, <3>1
    <3> HIDE DEF None
    <3>3. QED BY <2>1, <3>2
  <2>4. PICK f \in Walks(m - 1) : TRUE
    BY <2>3
  <2> DEFINE g == [i \in 0 .. m |-> IF i = m THEN Visit(f[m - 1], m) ELSE f[i]]
  <2>5. f \in [0 .. m - 1 -> Walked] /\ f[0] = NothingRemoved
        /\ \A i \in 1 .. m - 1 : f[i] = Visit(f[i - 1], i)
    OBVIOUS
  <2>6. Visit(f[m - 1], m) \in Walked
    BY <2>1, <2>2, <2>5, VisitKeeps
  <2>7. g \in [0 .. m -> Walked]
    BY <2>1, <2>2, <2>5, <2>6
  <2>8. g[0] = NothingRemoved /\ \A i \in 1 .. m : g[i] = Visit(g[i - 1], i)
    BY <2>1, <2>2, <2>5
  <2>9. g \in Walks(m)
    BY <2>7, <2>8
  <2>10. QED BY <2>1, <2>9
<1>4. PICK f \in Walks(N) : TRUE
  BY <1>1, <1>3
<1>5. f = [i \in 0 .. N |-> IF i = 0 THEN NothingRemoved ELSE Visit(f[i - 1], i)]
  <2>1. f \in [0 .. N -> Walked] /\ f[0] = NothingRemoved /\ \A i \in 1 .. N : f[i] = Visit(f[i - 1], i)
    OBVIOUS
  <2>2. QED BY <1>1, <2>1
<1>6. walk = [i \in 0 .. N |-> IF i = 0 THEN NothingRemoved ELSE Visit(walk[i - 1], i)]
  <2> HIDE DEF Walks, N
  <2> QED BY <1>5
<1> HIDE DEF walk
<1>7. Bad = {}
  <2> SUFFICES ASSUME Bad # {} PROVE FALSE
    OBVIOUS
  <2>1. PICK m \in Bad : \A k \in Bad : m <= k
    <3>1. Bad \in SUBSET Nat
      BY <1>1
    <3> HIDE DEF Bad
    <3>2. QED BY <3>1, LeastElement
  <2>2. m # 0
    BY <1>1, <1>2, <1>6
  <2>3. m - 1 \in 0 .. N /\ walk[m - 1] \in Walked
    BY <1>1, <2>1, <2>2
  <2>4. walk[m] = Visit(walk[m - 1], m)
    BY <1>6, <2>1, <2>2
  <2>5. QED BY <2>1, <2>2, <2>3, <2>4, VisitKeeps
<1>8. walk[N] \in Walked
  BY <1>1, <1>7
<1>9. Sweep = walk[N]
  BY DEF Sweep, walk, Visit
<1>10. QED BY <1>8, <1>9

\* An array that was changed is one whose change is known.
LEMMA KeptIsSwept ==
  ASSUME order \in Seq(Nodes), Injective(order)
  PROVE  Kept \in Swept /\ (~CheckConsistency.modified => Kept = order)
<1>1. NothingRemoved \in Walked
  BY DEF Walked, Swept, Known, NothingRemoved
<1>2. CheckConsistency \in Walked
  BY <1>1, SweepKeeps DEF CheckConsistency
<1>3. QED BY <1>2 DEF Kept, Walked

------------------------------------------------------------------------------
(* The map is well formed *)

Perms == SetToAllKPermutations(Nodes)

LEMMA PermsAre == Perms = {q \in Seq(Nodes) : Injective(q)}
BY AllOrders, MapAssumption DEF Perms

LEMMA ReportType ==
  ASSUME NEW n, NEW r \in Report(n)
  PROVE  /\ DOMAIN r \subseteq Nodes /\ n \notin DOMAIN r
         /\ \A o \in DOMAIN r : r[o] \in Lengths
<1>1. PICK S \in SUBSET {o \in Nodes \ silent : <<o, n>> \in Link} : r \in [S -> Lengths]
  BY DEF Report
<1>2. QED BY <1>1, MapAssumption

\* The array after a report: what the check kept, the sender, and the
\* neighbours not known before, each once.
LEMMA OrderAfterReport ==
  ASSUME MapTypeOK, NEW n \in Nodes, NEW r \in Report(n), UpdateMap(n, r)
  PROVE  /\ order' \in Seq(Nodes) /\ Injective(order')
         /\ Known' = ToSet(Kept) \cup {n} \cup DOMAIN r
         /\ Kept \in Swept
<1> DEFINE kept == Kept
           there == ToSet(kept)
           new == DOMAIN r \ (there \cup {n})
           base == IF n \in there THEN kept ELSE Append(kept, n)
<1>1. order \in Seq(Nodes) /\ Injective(order)
  BY PermsAre DEF MapTypeOK, Perms
<1>2. kept \in Swept /\ kept \in Seq(Nodes) /\ Injective(kept)
  BY <1>1, KeptIsSwept DEF Swept
<1>3. DOMAIN r \subseteq Nodes
  BY ReportType
<1>4. PICK added \in SetToSeqs(new) : order' = base \o added
  BY DEF UpdateMap, Kept
<1>5. added \in Seq(new) /\ Injective(added) /\ ToSet(added) = new
  <2>1. IsFiniteSet(new)
    BY <1>3, MapAssumption, FS_Subset
  <2> HIDE DEF new
  <2>2. QED BY <2>1, OrdersOfSet
<1>6. base \in Seq(Nodes) /\ Injective(base) /\ ToSet(base) = there \cup {n}
  <2>1. CASE n \in there
    BY <1>2, <2>1
  <2>2. CASE n \notin there
    <3>1. <<n>> \in Seq(Nodes) /\ Injective(<<n>>) /\ ToSet(<<n>>) = {n}
      BY DEF Injective, ToSet
    <3>2. Append(kept, n) = kept \o <<n>>
      BY <1>2, AppendIsConcat
    <3>3. ToSet(kept) \cap ToSet(<<n>>) = {}
      BY <2>2, <3>1
    <3> HIDE DEF kept
    <3>4. /\ kept \o <<n>> \in Seq(Nodes) /\ Injective(kept \o <<n>>)
          /\ ToSet(kept \o <<n>>) = ToSet(kept) \cup ToSet(<<n>>)
      BY <1>2, <3>1, <3>3, Joined
    <3>5. QED BY <2>2, <3>1, <3>2, <3>4
  <2>3. QED BY <2>1, <2>2
<1>7. added \in Seq(Nodes) /\ ToSet(base) \cap ToSet(added) = {}
  BY <1>3, <1>5, <1>6, SeqMonotonic
<1>8. /\ order' \in Seq(Nodes) /\ Injective(order')
      /\ ToSet(order') = there \cup {n} \cup new
  <2> HIDE DEF base, new, there
  <2> QED BY <1>4, <1>5, <1>6, <1>7, Joined
<1>9. Known' = ToSet(order')
  BY DEF Known
<1>10. QED BY <1>2, <1>8, <1>9

\* The edges that a check leaves are those between the nodes it leaves.
LEMMA EdgesKept ==
  ASSUME MapTypeOK, NEW there
  PROVE  LET g == Without(Known \ there)
         IN  /\ DOMAIN g = {e \in DOMAIN length : e[1] \in there /\ e[2] \in there}
             /\ \A e \in DOMAIN g : g[e] = length[e]
<1>1. \A e \in DOMAIN length : e[1] \in Known /\ e[2] \in Known
  BY DEF MapTypeOK
<1>2. QED BY <1>1 DEF Without, Restrict

\* The edges after a report of n.
LEMMA EdgesAfterReport ==
  ASSUME MapTypeOK, NEW n \in Nodes, NEW r \in Report(n), UpdateMap(n, r)
  PROVE  LET there == ToSet(Kept)
         IN  /\ \A e : e \in DOMAIN length' <=>
                  \/ e \in DOMAIN length /\ e[1] \in there /\ e[2] \in there /\ e[2] # n
                  \/ \E o \in DOMAIN r : e = <<o, n>>
             /\ \A e \in DOMAIN length' : e[2] # n => length'[e] = length[e]
             /\ \A o \in DOMAIN r :
                  \/ length'[<<o, n>>] = r[o]
                  \/ /\ <<o, n>> \in DOMAIN length
                     /\ length'[<<o, n>>] = length[<<o, n>>]
                     /\ Abs(length[<<o, n>>] - r[o]) <= RssiResolution
<1> DEFINE there == ToSet(Kept)
           g == Without(Known \ there)
           D == {e \in DOMAIN g : e[2] # n} \cup {<<o, n>> : o \in DOMAIN r}
<1>1. length' = UpdatedEdges(g, n, r)
  BY DEF UpdateMap, Kept
<1>2. /\ DOMAIN g = {e \in DOMAIN length : e[1] \in there /\ e[2] \in there}
      /\ \A e \in DOMAIN g : g[e] = length[e]
  BY EdgesKept
<1> HIDE DEF g, there
<1>3. length' = [e \in D |-> IF e[2] = n THEN NewLength(g, e, r[e[1]]) ELSE g[e]]
  BY <1>1 DEF UpdatedEdges
<1>4. \A e : e \in DOMAIN length' <=>
         \/ e \in DOMAIN length /\ e[1] \in there /\ e[2] \in there /\ e[2] # n
         \/ \E o \in DOMAIN r : e = <<o, n>>
  BY <1>2, <1>3
<1>5. \A e \in DOMAIN length' : e[2] # n => length'[e] = length[e]
  BY <1>2, <1>3
<1>6. ASSUME NEW o \in DOMAIN r
      PROVE  \/ length'[<<o, n>>] = r[o]
             \/ /\ <<o, n>> \in DOMAIN length
                /\ length'[<<o, n>>] = length[<<o, n>>]
                /\ Abs(length[<<o, n>>] - r[o]) <= RssiResolution
  <2>1. length'[<<o, n>>] = NewLength(g, <<o, n>>, r[o])
    BY <1>3
  <2>2. QED BY <1>2, <2>1 DEF NewLength
<1>7. QED BY <1>4, <1>5, <1>6 DEF there

LEMMA MapTypeAfterReport ==
  ASSUME MapTypeOK, NEW n \in Nodes, NEW r \in Report(n), UpdateMap(n, r)
  PROVE  MapTypeOK'
<1> DEFINE there == ToSet(Kept)
<1>1. /\ order' \in Seq(Nodes) /\ Injective(order')
      /\ Known' = there \cup {n} \cup DOMAIN r
  BY OrderAfterReport
<1>2. order' \in SetToAllKPermutations(Nodes)
  BY <1>1, PermsAre DEF Perms
<1>3. /\ \A e : e \in DOMAIN length' <=>
            \/ e \in DOMAIN length /\ e[1] \in there /\ e[2] \in there /\ e[2] # n
            \/ \E o \in DOMAIN r : e = <<o, n>>
      /\ \A e \in DOMAIN length' : e[2] # n => length'[e] = length[e]
      /\ \A o \in DOMAIN r :
           \/ length'[<<o, n>>] = r[o]
           \/ <<o, n>> \in DOMAIN length /\ length'[<<o, n>>] = length[<<o, n>>]
  BY EdgesAfterReport
<1>4. DOMAIN length \subseteq Known \X Known /\ \A e \in DOMAIN length : length[e] \in Lengths
  BY DEF MapTypeOK
<1>5. DOMAIN length' \subseteq Known' \X Known'
  <2> HIDE DEF there
  <2> QED BY <1>1, <1>3, <1>4
<1>6. \A e \in DOMAIN length' : length'[e] \in Lengths
  <2> HIDE DEF there
  <2>1. \A o \in DOMAIN r : r[o] \in Lengths
    BY ReportType
  <2>2. QED BY <1>3, <1>4, <2>1
<1>7. age' \in [Nodes -> 0 .. Timeout] /\ sinceCheck' \in 0 .. (Timeout + 1)
  <2>1. age' = [k \in Nodes |-> IF k \in there \ {n} THEN age[k] ELSE 0]
    BY DEF UpdateMap, Kept
  <2>2. sinceCheck' = IF CheckDue THEN 0 ELSE sinceCheck
    BY DEF UpdateMap, Kept
  <2> HIDE DEF there
  <2>3. QED BY <2>1, <2>2, MapAssumption DEF MapTypeOK
<1>8. modification' \in 0 .. (LongRange - 1)
  <2>1. modification' \in {modification, (modification + 1) % LongRange}
    BY DEF UpdateMap, Kept
  <2>2. QED BY <2>1, MapAssumption DEF MapTypeOK
<1>9. silent' \in SUBSET Mortal
  BY DEF UpdateMap, MapTypeOK
<1>10. QED BY <1>2, <1>5, <1>6, <1>7, <1>8, <1>9 DEF MapTypeOK

LEMMA MapTypeAround ==
  ASSUME MapTypeOK, Tick \/ (\E n \in Mortal : FallSilent(n)) \/ UNCHANGED mapVars
  PROVE  MapTypeOK'
<1>1. CASE Tick
  <2>1. UNCHANGED <<order, length, modification, silent>>
    BY <1>1 DEF Tick
  <2>2. age' \in [Nodes -> 0 .. Timeout] /\ sinceCheck' \in 0 .. (Timeout + 1)
    BY <1>1, MapAssumption DEF Tick, MapTypeOK
  <2>3. QED BY <2>1, <2>2 DEF MapTypeOK, Known
<1>2. CASE \E n \in Mortal : FallSilent(n)
  BY <1>2 DEF FallSilent, MapTypeOK, Known
<1>3. CASE UNCHANGED mapVars
  BY <1>3 DEF mapVars, MapTypeOK, Known
<1>4. QED BY <1>1, <1>2, <1>3

LEMMA MapTypeInit == MapInit => MapTypeOK
<1> SUFFICES ASSUME MapInit PROVE MapTypeOK
  OBVIOUS
<1>1. <<>> \in Seq(Nodes) /\ Injective(<<>>)
  BY DEF Injective
<1>2. order \in SetToAllKPermutations(Nodes)
  BY <1>1, PermsAre DEF MapInit, Perms
<1>3. DOMAIN length = {}
  BY DEF MapInit
<1>4. QED BY <1>2, <1>3, MapAssumption DEF MapInit, MapTypeOK

------------------------------------------------------------------------------
(* The map beside the reports *)

\* An edge has one length.
LengthFunction == length = [e \in DOMAIN length |-> length[e]]

MapInv == MapTypeOK /\ LengthFunction

\* What a report does to the map, as far as the theorems below need it.
LEMMA ReportChanges ==
  ASSUME MapInv, NEW n \in Nodes, NEW r \in Report(n), UpdateMap(n, r)
  PROVE  /\ MapInv'
         /\ Known' # Known \/ length' # length => modification' = (modification + 1) % LongRange
         /\ modification' \in {modification, (modification + 1) % LongRange}
         /\ \A k \in Known : IsAlive(k) => k \in Known'
<1> DEFINE kept == Kept
           there == ToSet(kept)
           g == Without(Known \ there)
           edges == UpdatedEdges(g, n, r)
<1>1. MapTypeOK'
  BY MapTypeAfterReport DEF MapInv
<1>2. length' = edges
  BY DEF UpdateMap, Kept
<1>3. LengthFunction'
  <2> HIDE DEF g
  <2> QED BY <1>2 DEF LengthFunction, UpdatedEdges
<1>4. modification' = IF Modified(CheckConsistency, g, n, r)
                      THEN (modification + 1) % LongRange ELSE modification
  BY DEF UpdateMap, Kept
<1>5. kept \in Swept /\ Known' = there \cup {n} \cup DOMAIN r
  BY OrderAfterReport DEF MapInv
<1>6. ASSUME ~Modified(CheckConsistency, g, n, r) PROVE length' = length /\ Known' = Known
  <2>1. /\ ~CheckConsistency.modified /\ n \in there
        /\ \A o \in DOMAIN r : ~NeighbourModifies(g, n, o, r[o])
        /\ OldEdges(g, n, r) = {}
    <3> HIDE DEF g
    <3> QED BY <1>6 DEF Modified, Kept
  <2>2. there = Known
    <3>1. kept = order
      BY <2>1, KeptIsSwept, PermsAre DEF MapInv, MapTypeOK, Perms
    <3>2. QED BY <3>1 DEF Known
  <2>3. g = length
    <3>1. {e \in DOMAIN length : e[1] \notin {} /\ e[2] \notin {}} = DOMAIN length
      OBVIOUS
    <3>2. g = [e \in DOMAIN length |-> length[e]]
      BY <2>2, <3>1 DEF Without, Restrict
    <3>3. QED BY <3>2 DEF MapInv, LengthFunction
  <2>4. /\ \A o \in DOMAIN r : /\ <<o, n>> \in DOMAIN length
                              /\ ~(Abs(length[<<o, n>>] - r[o]) > RssiResolution)
        /\ \A e \in DOMAIN length : e[2] = n => e[1] \in DOMAIN r
    <3> HIDE DEF g
    <3>1. \A o \in DOMAIN r : ~NeighbourModifies(length, n, o, r[o])
      BY <2>1, <2>3
    <3>2. OldEdges(length, n, r) = {}
      BY <2>1, <2>3
    <3>3. \A e \in DOMAIN length : e[2] = n => e[1] \in DOMAIN r
      BY <3>2 DEF OldEdges
    <3>4. QED BY <3>1, <3>3 DEF NeighbourModifies
  <2>5. edges = length
    <3>1. DOMAIN length \subseteq Known \X Known
      BY DEF MapInv, MapTypeOK
    <3>2. {e \in DOMAIN length : e[2] # n} \cup {<<o, n>> : o \in DOMAIN r} = DOMAIN length
      BY <2>4, <3>1
    <3>3. \A e \in DOMAIN length : e[2] = n => NewLength(length, e, r[e[1]]) = length[e]
      <4> SUFFICES ASSUME NEW e \in DOMAIN length, e[2] = n
                   PROVE  NewLength(length, e, r[e[1]]) = length[e]
        OBVIOUS
      <4>1. e = <<e[1], n>> /\ e[1] \in DOMAIN r
        BY <2>4, <3>1
      <4>2. ~(Abs(length[e] - r[e[1]]) > RssiResolution)
        BY <2>4, <4>1
      <4>3. length[e] \in Int /\ r[e[1]] \in Int /\ RssiResolution \in Int
        <5>1. length[e] \in Lengths
          BY DEF MapInv, MapTypeOK
        <5>2. r[e[1]] \in Lengths
          <6> HIDE DEF g, edges
          <6> QED BY <4>1, ReportType
        <5>3. Lengths \subseteq Int /\ RssiResolution \in Int
          BY MapAssumption
        <5>4. QED BY <5>1, <5>2, <5>3
      <4>4. QED BY <4>2, <4>3 DEF NewLength, Abs
    <3>4. UpdatedEdges(length, n, r) = [e \in DOMAIN length |-> length[e]]
      BY <3>2, <3>3 DEF UpdatedEdges
    <3> HIDE DEF g
    <3>5. QED BY <2>3, <3>4 DEF MapInv, LengthFunction
  <2>6. length' = length
    BY <1>2, <2>5
  <2>7. DOMAIN r \subseteq Known
    <3>1. DOMAIN length \subseteq Known \X Known
      BY DEF MapInv, MapTypeOK
    <3>2. QED BY <2>4, <3>1
  <2>8. QED BY <1>5, <2>1, <2>2, <2>6, <2>7
<1>7. \A k \in Known : IsAlive(k) => k \in Known'
  BY <1>5 DEF Swept
<1> HIDE DEF kept, there, g, edges
<1>8. QED BY <1>1, <1>3, <1>4, <1>6, <1>7 DEF MapInv

LEMMA AroundChanges ==
  ASSUME MapInv, Tick \/ (\E n \in Mortal : FallSilent(n)) \/ UNCHANGED mapVars
  PROVE  MapInv' /\ UNCHANGED <<order, length, modification>>
<1>1. UNCHANGED <<order, length, modification>>
  BY DEF Tick, FallSilent, mapVars
<1>2. MapTypeOK'
  BY MapTypeAround DEF MapInv
<1>3. QED BY <1>1, <1>2 DEF MapInv, LengthFunction

LEMMA MapInvInit == MapInit => MapInv
<1> SUFFICES ASSUME MapInit PROVE MapInv
  OBVIOUS
<1>1. length = [e \in DOMAIN length |-> length[e]]
  BY DEF MapInit
<1>2. QED BY <1>1, MapTypeInit DEF MapInv, LengthFunction

LEMMA CounterMoves == modification \in 0 .. (LongRange - 1) => (modification + 1) % LongRange # modification
<1> SUFFICES ASSUME modification \in 0 .. (LongRange - 1)
             PROVE  (modification + 1) % LongRange # modification
  OBVIOUS
<1>1. CASE modification + 1 < LongRange
  BY <1>1, MapAssumption
<1>2. CASE modification + 1 = LongRange
  <2>1. (modification + 1) % LongRange = 0
    BY <1>2, MapAssumption
  <2>2. QED BY <1>2, <2>1, MapAssumption
<1>3. QED BY <1>1, <1>2, MapAssumption

\* The steps of the map: the counter moves with every change, and nobody
\* alive is lost.
MapStep ==
  /\ Known' # Known \/ length' # length => modification' # modification
  /\ \A k \in Known : IsAlive(k) => k \in Known'

LEMMA ReportIsMapStep ==
  ASSUME MapInv, RxReport
  PROVE  MapInv' /\ MapStep
<1>1. PICK n \in Nodes \ silent : \E r \in Report(n) : UpdateMap(n, r)
  BY DEF RxReport
<1>2. PICK r \in Report(n) : UpdateMap(n, r)
  BY <1>1
<1>3. /\ MapInv'
      /\ Known' # Known \/ length' # length => modification' = (modification + 1) % LongRange
      /\ \A k \in Known : IsAlive(k) => k \in Known'
  BY <1>2, ReportChanges
<1>4. (modification + 1) % LongRange # modification
  BY CounterMoves DEF MapInv, MapTypeOK
<1>5. QED BY <1>3, <1>4 DEF MapStep

LEMMA AroundIsMapStep ==
  ASSUME MapInv, Tick \/ (\E n \in Mortal : FallSilent(n)) \/ UNCHANGED mapVars
  PROVE  MapInv' /\ MapStep
BY AroundChanges DEF MapStep, Known

\* The reports the history holds.
HeardOK == heard \in [Nodes -> UNION {[S -> Lengths] : S \in SUBSET Nodes}]

RInv == MapInv /\ HeardOK /\ MapFollowsReports

RNext == RReport \/ RTick \/ RFallSilent

\* The edges into the sender are those of its report, and what the others had
\* reported loses exactly the nodes the check took out.
LEMMA FollowsReport ==
  ASSUME RInv, NEW n \in Nodes, NEW r \in Report(n), UpdateMap(n, r),
         heard' = [k \in Nodes |-> IF k = n THEN r ELSE Remembered(ToSet(Kept), k)]
  PROVE  HeardOK' /\ MapFollowsReports'
<1> DEFINE there == ToSet(Kept)
<1>1. /\ DOMAIN r \subseteq Nodes
      /\ r \in UNION {[S -> Lengths] : S \in SUBSET Nodes}
      /\ \A o \in DOMAIN r : r[o] \in Lengths
  BY DEF Report
<1>2. /\ \A e : e \in DOMAIN length' <=>
            \/ e \in DOMAIN length /\ e[1] \in there /\ e[2] \in there /\ e[2] # n
            \/ \E o \in DOMAIN r : e = <<o, n>>
      /\ \A e \in DOMAIN length' : e[2] # n => length'[e] = length[e]
      /\ \A o \in DOMAIN r :
           \/ length'[<<o, n>>] = r[o]
           \/ /\ <<o, n>> \in DOMAIN length
              /\ length'[<<o, n>>] = length[<<o, n>>]
              /\ Abs(length[<<o, n>>] - r[o]) <= RssiResolution
  BY EdgesAfterReport DEF RInv, MapInv
<1>3. HeardOK /\ MapFollowsReports
  BY DEF RInv
<1> HIDE DEF there
<1>4. \A k \in Nodes \ {n} :
         /\ k \in there => heard'[k] = [o \in DOMAIN heard[k] \cap there |-> heard[k][o]]
         /\ k \notin there => heard'[k] = <<>>
  BY DEF Remembered, Restrict, there
<1>5. heard'[n] = r
  OBVIOUS
<1>6. ASSUME NEW k \in Nodes \ {n}
      PROVE  heard'[k] \in UNION {[S -> Lengths] : S \in SUBSET Nodes}
  <2>1. PICK S \in SUBSET Nodes : heard[k] \in [S -> Lengths]
    BY <1>3 DEF HeardOK
  <2>2. CASE k \in there
    <3>1. DOMAIN heard[k] = S /\ \A o \in S : heard[k][o] \in Lengths
      BY <2>1
    <3>2. heard'[k] = [o \in S \cap there |-> heard[k][o]]
      BY <1>4, <2>2, <3>1
    <3>3. heard'[k] \in [S \cap there -> Lengths]
      BY <3>1, <3>2
    <3>4. S \cap there \in SUBSET Nodes
      OBVIOUS
    <3>5. QED BY <3>3, <3>4
  <2>3. CASE k \notin there
    <3>1. heard'[k] = <<>>
      BY <1>4, <2>3
    <3>2. <<>> \in [{} -> Lengths]
      OBVIOUS
    <3>3. QED BY <3>1, <3>2
  <2>4. QED BY <2>2, <2>3
<1>7. HeardOK'
  BY <1>1, <1>5, <1>6 DEF HeardOK
<1>8. /\ Entering(length', n) = DOMAIN r
      /\ \A o \in DOMAIN r : Abs(length'[<<o, n>>] - r[o]) <= RssiResolution
  <2>1. \A o \in Nodes : <<o, n>> \in DOMAIN length' <=> o \in DOMAIN r
    BY <1>2
  <2>2. ASSUME NEW o \in DOMAIN r PROVE Abs(length'[<<o, n>>] - r[o]) <= RssiResolution
    <3>1. r[o] \in Nat
      BY <1>1, MapAssumption
    <3>2. Abs(r[o] - r[o]) <= RssiResolution
      BY <3>1, MapAssumption DEF Abs
    <3>3. QED BY <1>2, <3>2
  <2>3. QED BY <1>1, <2>1, <2>2 DEF Entering
<1>9. ASSUME NEW k \in Nodes \ {n}
      PROVE  /\ Entering(length', k) = DOMAIN heard'[k]
             /\ \A o \in DOMAIN heard'[k] : Abs(length'[<<o, k>>] - heard'[k][o]) <= RssiResolution
  <2>1. /\ Entering(length, k) = DOMAIN heard[k]
        /\ \A o \in DOMAIN heard[k] : Abs(length[<<o, k>>] - heard[k][o]) <= RssiResolution
    BY <1>3 DEF MapFollowsReports
  <2>2. \A o \in Nodes : <<o, k>> \in DOMAIN length' <=>
            <<o, k>> \in DOMAIN length /\ o \in there /\ k \in there
    BY <1>2
  <2>3. \A o \in Nodes : o \in DOMAIN heard[k] <=> <<o, k>> \in DOMAIN length
    BY <2>1 DEF Entering
  <2>4. DOMAIN heard[k] \subseteq Nodes
    BY <1>3 DEF HeardOK
  <2>5. DOMAIN heard'[k] = IF k \in there THEN DOMAIN heard[k] \cap there ELSE {}
    <3>1. k \in there => DOMAIN heard'[k] = DOMAIN heard[k] \cap there
      BY <1>4
    <3>2. k \notin there => heard'[k] = <<>>
      BY <1>4
    <3>3. QED BY <3>1, <3>2
  <2>6. Entering(length', k) = DOMAIN heard'[k]
    BY <2>2, <2>3, <2>4, <2>5 DEF Entering
  <2>7. ASSUME NEW o \in DOMAIN heard'[k]
        PROVE  Abs(length'[<<o, k>>] - heard'[k][o]) <= RssiResolution
    <3>1. k \in there /\ o \in DOMAIN heard[k] /\ o \in there /\ o \in Nodes
      BY <2>4, <2>5
    <3>2. heard'[k][o] = heard[k][o]
      BY <1>4, <3>1
    <3>3. length'[<<o, k>>] = length[<<o, k>>]
      BY <1>2, <2>2, <2>3, <3>1
    <3>4. QED BY <2>1, <3>1, <3>2, <3>3
  <2>8. QED BY <2>6, <2>7
<1>10. MapFollowsReports'
  <2> SUFFICES ASSUME NEW k \in Nodes
               PROVE  /\ Entering(length', k) = DOMAIN heard'[k]
                      /\ \A o \in DOMAIN heard'[k] :
                            Abs(length'[<<o, k>>] - heard'[k][o]) <= RssiResolution
    BY DEF MapFollowsReports, Entering
  <2>1. CASE k = n
    BY <1>5, <1>8, <2>1
  <2>2. CASE k # n
    BY <1>9, <2>2
  <2>3. QED BY <2>1, <2>2
<1>11. QED BY <1>7, <1>10

LEMMA RStep ==
  ASSUME RInv, RNext \/ UNCHANGED reportedVars
  PROVE  RInv' /\ MapStep
<1>1. CASE RReport
  <2>1. PICK n \in Nodes \ silent : \E r \in Report(n) :
          /\ UpdateMap(n, r)
          /\ heard' = [k \in Nodes |-> IF k = n THEN r ELSE Remembered(ToSet(Kept), k)]
    BY <1>1 DEF RReport
  <2>2. PICK r \in Report(n) :
          /\ UpdateMap(n, r)
          /\ heard' = [k \in Nodes |-> IF k = n THEN r ELSE Remembered(ToSet(Kept), k)]
    BY <2>1
  <2>3. RxReport
    BY <2>2 DEF RxReport
  <2>4. MapInv' /\ MapStep
    BY <2>3, ReportIsMapStep DEF RInv
  <2>5. HeardOK' /\ MapFollowsReports'
    BY <2>2, FollowsReport
  <2>6. QED BY <2>4, <2>5 DEF RInv
<1>2. CASE RTick \/ RFallSilent \/ UNCHANGED reportedVars
  <2>1. Tick \/ (\E n \in Mortal : FallSilent(n)) \/ UNCHANGED mapVars
    BY <1>2 DEF RTick, RFallSilent, reportedVars
  <2>2. MapInv' /\ MapStep /\ length' = length
    BY <2>1, AroundIsMapStep, AroundChanges DEF RInv
  <2>3. heard' = heard
    BY <1>2 DEF RTick, RFallSilent, reportedVars
  <2>4. QED BY <2>2, <2>3 DEF RInv, HeardOK, MapFollowsReports, Entering
<1>3. QED BY <1>1, <1>2 DEF RNext

LEMMA RInvariance == RSpec => []RInv /\ [][MapStep]_mapVars
<1>1. RInit => RInv
  <2> SUFFICES ASSUME RInit PROVE RInv
    OBVIOUS
  <2>1. MapInv
    BY MapInvInit DEF RInit
  <2>2. length = <<>> /\ heard = [n \in Nodes |-> <<>>]
    BY DEF RInit, MapInit
  <2>3. HeardOK
    <3>1. <<>> \in [{} -> Lengths]
      OBVIOUS
    <3>2. QED BY <2>2, <3>1 DEF HeardOK
  <2>4. MapFollowsReports
    BY <2>2 DEF MapFollowsReports, Entering
  <2>5. QED BY <2>1, <2>3, <2>4 DEF RInv
<1>2. RInv /\ [RReport \/ RTick \/ RFallSilent]_reportedVars => RInv'
  BY RStep DEF RNext
<1>3. RInv /\ [RReport \/ RTick \/ RFallSilent]_reportedVars => [MapStep]_mapVars
  BY RStep DEF RNext
<1>4. QED BY <1>1, <1>2, <1>3, PTL DEF RSpec

------------------------------------------------------------------------------
(* The theorems on the map *)

\* The map keeps its form: an array without a node twice, and edges between its
\* nodes only, whatever the check removes.
THEOREM MapType == RSpec => []MapTypeOK
<1>1. RInv => MapTypeOK
  BY DEF RInv, MapInv
<1>2. QED BY <1>1, RInvariance, PTL

\* The map is what the nodes last reported, within the resolution.
THEOREM MapFollows == RSpec => []MapFollowsReports
<1>1. RInv => MapFollowsReports
  BY DEF RInv
<1>2. QED BY <1>1, RInvariance, PTL

\* lastModification moves with every change of the map.
THEOREM ChangesCounted == RSpec => EveryChangeCounted
<1>1. [MapStep]_mapVars =>
        [Known' # Known \/ length' # length => modification' # modification]_mapVars
  BY DEF MapStep
<1>2. QED BY <1>1, RInvariance, PTL DEF EveryChangeCounted

\* The check takes out no node that was seen in time.
THEOREM LiveNodesStay == RSpec => LiveNodesKept
<1>1. [MapStep]_mapVars => [\A n \in Known : IsAlive(n) => n \in Known']_mapVars
  BY DEF MapStep
<1>2. QED BY <1>1, RInvariance, PTL DEF LiveNodesKept

------------------------------------------------------------------------------
(* The cache of routes *)

(***************************************************************************)
(* CacheCoherent is not inductive alone: that a match of lastModification  *)
(* means an unchanged map needs the counter never to come back to a value  *)
(* it has had.                                                             *)
(***************************************************************************)
CounterOrder ==
  /\ modification \in 0 .. (LongRange - 1)
  /\ lastModification # NoModification => lastModification \in 0 .. modification

\* The types of what the controller keeps.
CacheTypes ==
  /\ DOMAIN results \subseteq Nodes
  /\ \A d \in DOMAIN results : results[d] \in Perms
  /\ DOMAIN computed \subseteq Edge
  /\ lastSource \in Nodes \cup {NoNode}
  /\ opened \in Perms

CacheInv == MapInv /\ CounterOrder /\ CacheTypes /\ CacheCoherent /\ OpenedIsShortest

\* No node is kept when there is no path.
LEMMA ShortestPathType ==
  ASSUME NEW g, NEW n, NEW d
  PROVE  ShortestPaths(g, n, d) \subseteq Perms
<1>1. <<>> \in Perms
  BY PermsAre DEF Injective
<1>2. Paths(g, n, d) \subseteq Perms
  BY DEF Paths, Perms
<1>3. QED BY <1>1, <1>2 DEF ShortestPaths

\* A path chosen for a request is a shortest one of the map as it is, whether
\* it was kept or computed.
LEMMA ChosenPath ==
  ASSUME CacheInv, NEW n \in Nodes, NEW d \in Nodes,
         NEW path \in IF d \in DOMAIN KeptResults(n) THEN {KeptResults(n)[d]}
                      ELSE ShortestPaths(IF Stale(n) THEN length ELSE computed, n, d)
  PROVE  path \in ShortestPaths(length, n, d)
<1>1. CASE Stale(n)
  <2>1. KeptResults(n) = <<>>
    BY <1>1 DEF KeptResults
  <2>2. d \notin DOMAIN KeptResults(n)
    BY <2>1
  <2>3. QED BY <1>1, <2>2
<1>2. CASE ~Stale(n)
  <2>1. KeptResults(n) = results /\ lastSource = n /\ lastModification = modification
    BY <1>2 DEF KeptResults, Stale
  <2>2. /\ computed = length
        /\ \A k \in DOMAIN results : results[k] \in ShortestPaths(length, n, k)
    BY <2>1 DEF CacheInv, CacheCoherent
  <2>3. QED BY <1>2, <2>1, <2>2
<1>3. QED BY <1>1, <1>2

LEMMA RequestKeeps ==
  ASSUME CacheInv, NEW n \in Nodes, NEW d \in Nodes, RoutingRequest(n, d)
  PROVE  CacheInv'
<1> DEFINE kept == KeptResults(n)
           g == IF Stale(n) THEN length ELSE computed
<1>1. PICK path \in IF d \in DOMAIN kept THEN {kept[d]} ELSE ShortestPaths(g, n, d) :
        /\ results' = [k \in DOMAIN kept \cup {d} |-> IF k = d THEN path ELSE kept[k]]
        /\ computed' = g
        /\ opened' = IF Len(path) > 1 THEN path ELSE <<>>
  BY DEF RoutingRequest
<1>2. path \in ShortestPaths(length, n, d)
  BY ChosenPath
<1>3. g = length
  BY DEF Stale, CacheInv, CacheCoherent
<1>4. lastSource' = n /\ lastModification' = modification
  BY DEF RoutingRequest, Stale
<1>5. length' = length /\ modification' = modification
  BY DEF RoutingRequest, mapVars
<1>6. \A k \in DOMAIN kept : kept[k] \in ShortestPaths(length, n, k)
  <2>1. CASE Stale(n)
    BY <2>1 DEF KeptResults
  <2>2. CASE ~Stale(n)
    BY <2>2 DEF KeptResults, Stale, CacheInv, CacheCoherent
  <2>3. QED BY <2>1, <2>2
<1>7. \A k \in DOMAIN results' : results'[k] \in ShortestPaths(length, n, k)
  <2> HIDE DEF kept, g
  <2> QED BY <1>1, <1>2, <1>6
<1>8. CacheCoherent'
  BY <1>1, <1>3, <1>4, <1>5, <1>7 DEF CacheCoherent
<1>9. OpenedIsShortest'
  BY <1>1, <1>2, <1>4, <1>5 DEF OpenedIsShortest
<1>10. CounterOrder'
  BY <1>4, <1>5 DEF CacheInv, CounterOrder
<1>11. CacheTypes'
  <2>1. path \in Perms /\ <<>> \in Perms
    BY <1>2, ShortestPathType, PermsAre DEF Injective
  <2>2. DOMAIN kept \subseteq Nodes /\ \A k \in DOMAIN kept : kept[k] \in Perms
    BY DEF KeptResults, CacheInv, CacheTypes
  <2>3. DOMAIN length \subseteq Edge
    <3>1. Known \subseteq Nodes
      BY PermsAre, ToSetOfSeq DEF CacheInv, MapInv, MapTypeOK, Perms, Known
    <3>2. QED BY <3>1 DEF CacheInv, MapInv, MapTypeOK, Edge
  <2>4. results' = [k \in DOMAIN kept \cup {d} |-> IF k = d THEN path ELSE kept[k]]
    BY <1>1
  <2>5. DOMAIN results' \subseteq Nodes /\ \A k \in DOMAIN results' : results'[k] \in Perms
    <3> HIDE DEF kept
    <3> QED BY <2>1, <2>2, <2>4
  <2>6. computed' = length /\ opened' \in {path, <<>>}
    BY <1>1, <1>3
  <2>7. QED BY <1>4, <2>1, <2>3, <2>5, <2>6 DEF CacheTypes, Perms
<1>12. MapInv'
  <2>1. UNCHANGED mapVars
    BY DEF RoutingRequest
  <2>2. QED BY <2>1, AroundChanges DEF CacheInv
<1>13. QED BY <1>8, <1>9, <1>10, <1>11, <1>12 DEF CacheInv

LEMMA ReportKeeps ==
  ASSUME CacheInv, HandleReport
  PROVE  CacheInv'
<1>1. PICK n \in Nodes \ silent : \E r \in Report(n) : UpdateMap(n, r)
  BY DEF HandleReport, RxReport
<1>2. PICK r \in Report(n) : UpdateMap(n, r)
  BY <1>1
<1>3. /\ MapInv'
      /\ modification' = modification => length' = length
      /\ modification' \in {modification, modification + 1}
      /\ modification + 1 < LongRange
  <2>1. /\ MapInv'
        /\ length' # length => modification' = (modification + 1) % LongRange
        /\ modification' \in {modification, (modification + 1) % LongRange}
    BY <1>2, ReportChanges DEF CacheInv
  <2>2. modification + 1 < LongRange
    BY DEF HandleReport
  <2>3. (modification + 1) % LongRange = modification + 1
    BY <2>2, MapAssumption DEF CacheInv, CounterOrder
  <2>4. QED BY <2>1, <2>2, <2>3, MapAssumption DEF CacheInv, CounterOrder
<1>4. UNCHANGED <<results, computed, lastSource, lastModification>> /\ opened' = <<>>
  BY DEF HandleReport
<1>5. CounterOrder'
  BY <1>3, <1>4, MapAssumption DEF CacheInv, CounterOrder
<1>6. CacheCoherent'
  <2> SUFFICES ASSUME lastModification = modification'
               PROVE  /\ computed = length'
                      /\ \A d \in DOMAIN results :
                            results[d] \in ShortestPaths(length', lastSource, d)
    BY <1>4 DEF CacheCoherent
  <2>1. lastModification # NoModification
    BY <1>5, CacheAssumption DEF CounterOrder
  <2>2. modification' = modification
    BY <1>3, <2>1 DEF CacheInv, CounterOrder
  <2>3. QED BY <1>3, <2>2 DEF CacheInv, CacheCoherent
<1>7. OpenedIsShortest'
  BY <1>4 DEF OpenedIsShortest
<1>8. CacheTypes'
  <2>1. <<>> \in Perms
    BY PermsAre DEF Injective
  <2>2. QED BY <1>4, <2>1 DEF CacheInv, CacheTypes, Perms
<1>9. QED BY <1>3, <1>5, <1>6, <1>7, <1>8 DEF CacheInv

LEMMA CacheInvariance == Spec => []CacheInv
<1>1. Init => CacheInv
  <2>1. Init => CounterOrder /\ MapInv
    BY MapAssumption, CacheAssumption, MapInvInit DEF Init, MapInit, CacheInit, CounterOrder
  <2>2. Init => CacheCoherent /\ OpenedIsShortest
    BY MapAssumption, CacheAssumption
       DEF Init, MapInit, CacheInit, CacheCoherent, OpenedIsShortest
  <2>3. Init => CacheTypes
    <3>1. <<>> \in Perms
      BY PermsAre DEF Injective
    <3>2. QED BY <3>1 DEF Init, CacheInit, CacheTypes
  <2>4. QED BY <2>1, <2>2, <2>3 DEF CacheInv
<1>2. CacheInv /\ [Next]_vars => CacheInv'
  <2> SUFFICES ASSUME CacheInv, [Next]_vars PROVE CacheInv'
    OBVIOUS
  <2>1. ASSUME NEW n \in Nodes, NEW d \in Nodes, RoutingRequest(n, d) PROVE CacheInv'
    BY <2>1, RequestKeeps
  <2>2. CASE HandleReport
    BY <2>2, ReportKeeps
  <2>3. ASSUME Tick \/ (\E n \in Mortal : FallSilent(n)) \/ UNCHANGED mapVars,
               UNCHANGED cacheVars
        PROVE  CacheInv'
    <3>1. MapInv' /\ UNCHANGED <<length, modification>>
      BY <2>3, AroundChanges DEF CacheInv
    <3>2. CacheTypes' /\ CounterOrder'
      BY <2>3, <3>1 DEF cacheVars, CacheInv, CacheTypes, CounterOrder, Perms
    <3>3. CacheCoherent' /\ OpenedIsShortest'
      BY <2>3, <3>1 DEF cacheVars, CacheInv, CacheCoherent, OpenedIsShortest
    <3>4. QED BY <3>1, <3>2, <3>3 DEF CacheInv
  <2>4. CASE Around
    BY <2>3, <2>4 DEF Around
  <2>5. CASE UNCHANGED vars
    BY <2>3, <2>5 DEF vars
  <2>6. QED BY <2>1, <2>2, <2>4, <2>5 DEF Next
<1>3. QED BY <1>1, <1>2, PTL DEF Spec

------------------------------------------------------------------------------
(* The theorems on the cache *)

\* Every variable of the cache has its type.
THEOREM CacheType == Spec => []TypeOK
<1>1. ASSUME CacheInv PROVE TypeOK
  <2>1. MapTypeOK /\ CacheTypes
    BY <1>1 DEF CacheInv, MapInv
  <2>2. lastModification \in 0 .. (LongRange - 1) \cup {NoModification}
    BY <1>1, MapAssumption DEF CacheInv, CounterOrder
  <2>3. QED BY <2>1, <2>2 DEF CacheTypes, TypeOK, Perms
<1>2. QED BY <1>1, CacheInvariance, PTL

\* What the controller keeps is right whenever it would be used: a match of
\* lastModification does mean that the map has not changed since.
THEOREM CacheIsCoherent == Spec => []CacheCoherent
<1>1. CacheInv => CacheCoherent
  BY DEF CacheInv
<1>2. QED BY <1>1, CacheInvariance, PTL

\* Every path opened in the network is a shortest one of the map at that moment.
THEOREM OpenedPaths == Spec => []OpenedIsShortest
<1>1. CacheInv => OpenedIsShortest
  BY DEF CacheInv
<1>2. QED BY <1>1, CacheInvariance, PTL

==============================================================================
