-------------------------- MODULE RouteDesignerProofs --------------------------
(* What is proved of RouteDesigner, for any plugins, steps, stored routes,    *)
(* patterns and number of edits.                                             *)
EXTENDS RouteDesigner, FiniteSetTheorems, WellFoundedInduction, TLAPS

--------------------------------------------------------------------------------
(* Sets of numbers. *)

\* A set of numbers that is not empty has a least member.
LEMMA LeastMember ==
  ASSUME NEW T \in SUBSET Nat, T # {}
  PROVE  \E x \in T : \A y \in T : x <= y
<1> DEFINE R == {ss \in Nat \X Nat : ss[1] < ss[2]}
<1>1. IsWellFoundedOn(R, Nat)
  BY NatLessThanWellFounded DEF OpToRel
<1>2. \A x, y \in Nat : y < x => <<y, x>> \in R
  OBVIOUS
<1> HIDE DEF R
<1>3. PICK x \in T : \A y \in T : <<y, x>> \notin R
  BY <1>1, WFMin
<1>4. ASSUME NEW y \in T PROVE x <= y
  <2>1. x \in Nat /\ y \in Nat /\ ~(y < x)
    BY <1>2, <1>3
  <2> QED BY <2>1
<1> QED BY <1>4

\* Finitely many numbers have a bound.
LEMMA Bounded ==
  ASSUME NEW n \in Nat, NEW f \in [1..n -> Nat]
  PROVE  \E b \in Nat : \A i \in 1..n : f[i] <= b
<1> DEFINE Has(m) == \E b \in Nat : \A i \in 1..m : f[i] <= b
           Bad == {m \in 0..n : ~Has(m)}
<1>1. SUFFICES ASSUME ~Has(n) PROVE FALSE
  OBVIOUS
<1>2. Has(0)
  OBVIOUS
<1> HIDE DEF Has
<1>3. PICK m \in Bad : \A k \in Bad : m <= k
  <2>1. Bad \in SUBSET Nat /\ n \in Bad
    BY <1>1
  <2> HIDE DEF Bad
  <2> QED BY <2>1, LeastMember
<1>4. m \in 1..n /\ ~Has(m) /\ Has(m - 1)
  <2>1. m \in 0..n /\ ~Has(m)
    BY <1>3
  <2>2. m # 0
    BY <2>1, <1>2
  <2>3. m - 1 \in 0..n /\ ~(m <= m - 1)
    BY <2>1, <2>2
  <2>4. m - 1 \notin Bad
    BY <2>3, <1>3
  <2> QED BY <2>1, <2>2, <2>3, <2>4
<1> USE DEF Has
<1>5. PICK b \in Nat : \A i \in 1..(m - 1) : f[i] <= b
  BY <1>4
<1>6. m \in 1..n /\ f[m] \in Nat
  BY <1>4
<1>7. PICK c \in Nat : c >= b /\ c >= f[m]
  <2>1. CASE b >= f[m]
    BY <2>1
  <2>2. CASE b < f[m]
    BY <2>2, <1>6
  <2> QED BY <2>1, <2>2, <1>6
<1>8. \A i \in 1..m : f[i] <= c
  <2> SUFFICES ASSUME NEW i \in 1..m PROVE f[i] <= c
    OBVIOUS
  <2>1. i \in 1..n /\ f[i] \in Nat
    OBVIOUS
  <2>2. CASE i = m
    BY <2>2, <1>7
  <2>3. CASE i # m
    <3>1. i \in 1..(m - 1)
      BY <2>3
    <3> QED BY <3>1, <2>1, <1>5, <1>7
  <2> QED BY <2>2, <2>3
<1> QED BY <1>8, <1>4

\* Max finds the greatest member of a set that is bounded.
LEMMA MaxFacts ==
  ASSUME NEW S \in SUBSET Nat, S # {}, NEW b \in Nat, \A x \in S : x <= b
  PROVE  Max(S) \in S /\ \A x \in S : x <= Max(S)
<1> DEFINE B == {c \in Nat : \A x \in S : x <= c}
<1>1. PICK c \in B : \A d \in B : c <= d
  <2>1. B \in SUBSET Nat /\ B # {}
    OBVIOUS
  <2> QED BY <2>1, LeastMember
<1>2. c \in S
  <2> SUFFICES ASSUME c \notin S PROVE FALSE
    OBVIOUS
  <2>1. \A x \in S : x \in Nat /\ x <= c /\ x # c
    OBVIOUS
  <2>2. c \in Nat /\ c > 0
    <3>1. PICK x \in S : x \in Nat /\ x <= c /\ x # c
      BY <2>1
    <3>2. c \in Nat
      BY <1>1
    <3> QED BY <3>1, <3>2
  <2>3. c - 1 \in Nat /\ \A x \in S : x <= c - 1
    BY <2>1, <2>2
  <2> QED BY <2>2, <2>3, <1>1
<1>3. \E x \in S : \A y \in S : x >= y
  BY <1>2
<1> QED BY <1>3 DEF Max

LEMMA MinFacts ==
  ASSUME NEW S \in SUBSET Nat, S # {}
  PROVE  Min(S) \in S /\ \A x \in S : Min(S) <= x
BY LeastMember DEF Min

--------------------------------------------------------------------------------
(* Lists of positions. *)

\* What Sorted is given: a strict order.
Order(S, before) ==
    /\ before \in [S -> SUBSET S]
    /\ \A i \in S : i \notin before[i]
    /\ \A i, j \in S : i = j \/ i \in before[j] \/ j \in before[i]
    /\ \A i, j \in S : j \in before[i] => before[j] \subseteq before[i]

LEMMA SortedFacts ==
  ASSUME NEW S, IsFiniteSet(S), NEW before, Order(S, before)
  PROVE  /\ Cardinality(S) \in Nat
         /\ Sorted(S, before) \in [1..Cardinality(S) -> S]
         /\ \A i \in S : \E n \in 1..Cardinality(S) : Sorted(S, before)[n] = i
         /\ \A m, n \in 1..Cardinality(S) :
               m < n <=> Sorted(S, before)[m] \in before[Sorted(S, before)[n]]
<1> DEFINE N == Cardinality(S)
           rank == [i \in S |-> Cardinality(before[i]) + 1]
<1>1. N \in Nat /\ IsFiniteSet(1..N) /\ Cardinality(1..N) = N
  BY FS_CardinalityType, FS_Interval
<1>2. \A i, j \in S : j \in before[i] => rank[j] < rank[i]
  <2> SUFFICES ASSUME NEW i \in S, NEW j \in S, j \in before[i] PROVE rank[j] < rank[i]
    OBVIOUS
  <2>1. before[j] \subseteq before[i] /\ before[j] # before[i] /\ before[i] \subseteq S
    BY DEF Order
  <2>2. IsFiniteSet(before[i])
    BY <2>1, FS_Subset
  <2>3. /\ Cardinality(before[i]) \in Nat /\ Cardinality(before[j]) \in Nat
        /\ Cardinality(before[j]) < Cardinality(before[i])
    BY <2>1, <2>2, FS_Subset, FS_CardinalityType
  <2> QED BY <2>3
<1>3. rank \in [S -> 1..N]
  <2> SUFFICES ASSUME NEW i \in S PROVE Cardinality(before[i]) + 1 \in 1..N
    OBVIOUS
  <2>1. before[i] \subseteq S /\ before[i] # S
    BY DEF Order
  <2>2. Cardinality(before[i]) \in Nat /\ Cardinality(before[i]) < N
    BY <2>1, <1>1, FS_Subset, FS_CardinalityType
  <2> QED BY <2>2, <1>1
<1>4. \A i, j \in S : rank[i] = rank[j] => i = j
  BY <1>1, <1>2, <1>3 DEF Order
<1>5. \A n \in 1..N : \E i \in S : rank[i] = n
  <2>1. rank \in Injection(S, 1..N)
    BY <1>3, <1>4 DEF Injection, IsInjective
  <2>2. rank \in Surjection(S, 1..N)
    BY <2>1, <1>1, FS_Injection
  <2> QED BY <2>2 DEF Surjection
<1>6. \A n \in 1..N : Sorted(S, before)[n] \in S /\ rank[Sorted(S, before)[n]] = n
  <2> SUFFICES ASSUME NEW n \in 1..N
               PROVE  Sorted(S, before)[n] \in S /\ rank[Sorted(S, before)[n]] = n
    OBVIOUS
  <2>1. PICK i \in S : rank[i] = n
    BY <1>5
  <2>2. IsFiniteSet(before[i]) /\ Cardinality(before[i]) \in Nat
    BY FS_Subset, FS_CardinalityType DEF Order
  <2>3. \E j \in S : Cardinality(before[j]) = n - 1
    BY <2>1, <2>2, <1>1
  <2>4. Sorted(S, before)[n] \in S /\ Cardinality(before[Sorted(S, before)[n]]) = n - 1
    BY <2>3 DEF Sorted
  <2> QED BY <2>4, <1>1
<1> HIDE DEF rank
<1>7. Sorted(S, before) \in [1..N -> S]
  BY <1>6 DEF Sorted
<1>8. ASSUME NEW i \in S PROVE \E n \in 1..N : Sorted(S, before)[n] = i
  BY <1>3, <1>4, <1>6
<1>9. ASSUME NEW m \in 1..N, NEW n \in 1..N
      PROVE  m < n <=> Sorted(S, before)[m] \in before[Sorted(S, before)[n]]
  <2> DEFINE x == Sorted(S, before)[m]
             y == Sorted(S, before)[n]
  <2>1. x \in S /\ y \in S /\ rank[x] = m /\ rank[y] = n
    BY <1>6
  <2> HIDE DEF x, y
  <2>2. x \in before[y] => m < n
    BY <2>1, <1>2
  <2>3. y \in before[x] => n < m
    BY <2>1, <1>2
  <2>4. x = y => m = n
    BY <2>1
  <2>5. x = y \/ x \in before[y] \/ y \in before[x]
    BY <2>1 DEF Order
  <2>6. m < n <=> x \in before[y]
    BY <2>2, <2>3, <2>4, <2>5, <1>1
  <2> QED BY <2>6 DEF x, y
<1> QED BY <1>1, <1>7, <1>8, <1>9

--------------------------------------------------------------------------------
(* Lists of plugins. *)

\* Lists are functions on 1..n.
LEMMA ListIs ==
  ASSUME NEW s, s \in Seq(ToSet(s))
  PROVE  /\ Len(s) \in Nat /\ DOMAIN s = 1..Len(s) /\ s = [i \in 1..Len(s) |-> s[i]]
         /\ IsFiniteSet(DOMAIN s)
<1>1. Len(s) \in Nat /\ DOMAIN s = 1..Len(s) /\ s = [i \in 1..Len(s) |-> s[i]]
  OBVIOUS
<1>2. IsFiniteSet(1..Len(s))
  <2>1. 1 \in Int /\ Len(s) \in Int
    BY <1>1
  <2> HIDE <1>1
  <2> QED BY <2>1, FS_Interval
<1> QED BY <1>1, <1>2

LEMMA ListMake ==
  ASSUME NEW n \in Nat, NEW s, s = [i \in 1..n |-> s[i]]
  PROVE  s \in Seq(ToSet(s)) /\ Len(s) = n /\ DOMAIN s = 1..n
<1>1. DOMAIN s = 1..n /\ s \in [1..n -> ToSet(s)]
  BY DEF ToSet
<1> QED BY <1>1

\* What IsIndex says.
LEMMA IndexIs ==
  ASSUME NEW f
  PROVE  IsIndex(f) <=> /\ f = [s \in DOMAIN f |-> f[s]]
                        /\ DOMAIN f \subseteq Steps
                        /\ \A s \in DOMAIN f : f[s] \in Nat
<1>1. ASSUME f = [s \in DOMAIN f |-> f[s]], DOMAIN f \subseteq Steps, \A s \in DOMAIN f : f[s] \in Nat
      PROVE  IsIndex(f)
  <2>1. f \in [DOMAIN f -> Nat]
    BY <1>1
  <2> QED BY <2>1, <1>1 DEF IsIndex
<1>2. ASSUME IsIndex(f)
      PROVE  f = [s \in DOMAIN f |-> f[s]] /\ DOMAIN f \subseteq Steps /\ \A s \in DOMAIN f : f[s] \in Nat
  BY <1>2 DEF IsIndex
<1> QED BY <1>1, <1>2

LEMMA EmptyIndex == IsIndex(Empty) /\ Empty # None /\ DOMAIN Empty = {}
<1>1. DOMAIN Empty = {} /\ IsIndex(Empty)
  BY IndexIs DEF Empty
<1> QED BY <1>1, RoutesAssumption

LEMMA NodeStepsType ==
  ASSUME NEW p \in Plugins
  PROVE  NodeSteps(p) \subseteq StepsOf[p] /\ StepsOf[p] \subseteq Steps
BY DesignerAssumption DEF NodeSteps

\* Lists of nodes that all have an index.
Complete(seq) == IsNodes(seq) /\ \A i \in DOMAIN seq : IsIndex(seq[i].index)

\* One more than the last index of a step is a number.
LEMMA FirstFreeType ==
  ASSUME NEW seq, Complete(seq), NEW step
  PROVE  FirstFree(seq, step) \in Nat
<1> DEFINE f == [i \in 1..Len(seq) |->
                   IF step \in DOMAIN seq[i].index THEN seq[i].index[step] + 1 ELSE 0]
           U == {0} \cup {n + 1 : n \in Used(seq, step)}
<1>1. Len(seq) \in Nat /\ DOMAIN seq = 1..Len(seq)
  BY ListIs DEF Complete, IsNodes
<1>2. \A i \in 1..Len(seq) : step \in DOMAIN seq[i].index => seq[i].index[step] \in Nat
  BY <1>1, IndexIs DEF Complete
<1>3. f \in [1..Len(seq) -> Nat]
  BY <1>2
<1>4. PICK b \in Nat : \A i \in 1..Len(seq) : f[i] <= b
  BY <1>1, <1>3, Bounded
<1>5. \A x \in U : x \in Nat /\ x <= b
  BY <1>1, <1>2, <1>4 DEF Used
<1>6. Max(U) \in U
  <2>1. U \in SUBSET Nat /\ U # {}
    BY <1>5
  <2> HIDE DEF U
  <2> QED BY <2>1, <1>5, MaxFacts
<1> QED BY <1>5, <1>6 DEF FirstFree

\* How many come before.
LEMMA CountType ==
  ASSUME NEW s, s \in Seq(ToSet(s)), NEW P \in SUBSET DOMAIN s
  PROVE  IsFiniteSet(P) /\ Cardinality(P) \in Nat
BY ListIs, FS_Subset, FS_CardinalityType

\* withPluginIndexes completes the indexes and leaves those that are complete.
LEMMA WithPluginIndexesFacts ==
  ASSUME NEW seq, Complete(seq)
  PROVE  /\ Complete(WithPluginIndexes(seq))
         /\ Len(WithPluginIndexes(seq)) = Len(seq)
         /\ \A i \in DOMAIN seq :
               /\ WithPluginIndexes(seq)[i].plugin = seq[i].plugin
               /\ WithPluginIndexes(seq)[i].nodeId = seq[i].nodeId
               /\ NodeSteps(seq[i].plugin) \subseteq DOMAIN WithPluginIndexes(seq)[i].index
               /\ NodeSteps(seq[i].plugin) \subseteq DOMAIN seq[i].index
                     => WithPluginIndexes(seq)[i].index = seq[i].index
<1> DEFINE W == WithPluginIndexes(seq)
           new(i) == [s \in DOMAIN seq[i].index \cup NodeSteps(seq[i].plugin) |->
                        IF s \in DOMAIN seq[i].index THEN seq[i].index[s]
                        ELSE FirstFree(seq, s) + Cardinality({j \in Lacks(seq, s) : j < i})]
<1>1. Len(seq) \in Nat /\ DOMAIN seq = 1..Len(seq) /\ seq \in Seq(ToSet(seq))
  BY ListIs DEF Complete, IsNodes
<1>2. \A i \in DOMAIN seq :
         /\ seq[i] \in [plugin : Plugins, nodeId : Plugins \X Nat, index : {seq[i].index}]
         /\ IsIndex(seq[i].index)
  BY DEF Complete, IsNodes
<1>3. W = [i \in 1..Len(seq) |-> [seq[i] EXCEPT !.index = new(i)]]
  BY <1>1 DEF WithPluginIndexes
<1>4. \A i \in DOMAIN seq :
         W[i] = [plugin |-> seq[i].plugin, nodeId |-> seq[i].nodeId, index |-> new(i)]
  BY <1>1, <1>2, <1>3
<1>5. W \in Seq(ToSet(W)) /\ Len(W) = Len(seq) /\ DOMAIN W = DOMAIN seq
  <2>1. W = [i \in 1..Len(seq) |-> W[i]]
    BY <1>3
  <2> HIDE DEF W
  <2> QED BY <2>1, <1>1, ListMake
<1>6. ASSUME NEW i \in DOMAIN seq
      PROVE  /\ IsIndex(new(i))
             /\ NodeSteps(seq[i].plugin) \subseteq DOMAIN new(i)
             /\ NodeSteps(seq[i].plugin) \subseteq DOMAIN seq[i].index => new(i) = seq[i].index
  <2>1. /\ seq[i].index = [s \in DOMAIN seq[i].index |-> seq[i].index[s]]
        /\ DOMAIN seq[i].index \subseteq Steps
        /\ \A s \in DOMAIN seq[i].index : seq[i].index[s] \in Nat
    BY <1>2, IndexIs
  <2>2. NodeSteps(seq[i].plugin) \subseteq Steps
    BY <1>2, NodeStepsType
  <2>3. \A s : Cardinality({j \in Lacks(seq, s) : j < i}) \in Nat
    <3> SUFFICES ASSUME NEW s PROVE Cardinality({j \in Lacks(seq, s) : j < i}) \in Nat
      OBVIOUS
    <3>1. {j \in Lacks(seq, s) : j < i} \in SUBSET DOMAIN seq
      BY DEF Lacks
    <3> QED BY <3>1, <1>1, CountType
  <2>4. \A s : FirstFree(seq, s) \in Nat
    BY FirstFreeType
  <2>5. \A s \in DOMAIN new(i) : new(i)[s] \in Nat
    BY <2>1, <2>3, <2>4
  <2>6. DOMAIN new(i) \subseteq Steps /\ new(i) = [s \in DOMAIN new(i) |-> new(i)[s]]
    BY <2>1, <2>2
  <2>7. IsIndex(new(i))
    BY <2>5, <2>6, IndexIs
  <2>8. NodeSteps(seq[i].plugin) \subseteq DOMAIN seq[i].index => new(i) = seq[i].index
    <3> SUFFICES ASSUME NodeSteps(seq[i].plugin) \subseteq DOMAIN seq[i].index
                 PROVE  new(i) = seq[i].index
      OBVIOUS
    <3>1. new(i) = [s \in DOMAIN seq[i].index |-> seq[i].index[s]]
      OBVIOUS
    <3> QED BY <3>1, <2>1
  <2> QED BY <2>7, <2>8
<1> HIDE DEF new
<1>7. Complete(W)
  BY <1>2, <1>4, <1>5, <1>6 DEF Complete, IsNodes
<1> QED BY <1>4, <1>5, <1>6, <1>7

--------------------------------------------------------------------------------
(* Sorting. *)

\* Positions in their own order.
LEMMA InOrderFacts ==
  ASSUME NEW P \in SUBSET Nat, IsFiniteSet(P)
  PROVE  /\ Cardinality(P) \in Nat /\ InOrder(P) \in [1..Cardinality(P) -> P]
         /\ \A i \in P : \E n \in 1..Cardinality(P) : InOrder(P)[n] = i
         /\ \A m, n \in 1..Cardinality(P) : m < n <=> InOrder(P)[m] < InOrder(P)[n]
<1> DEFINE before == [i \in P |-> {j \in P : j < i}]
<1>1. before \in [P -> SUBSET P]
  OBVIOUS
<1>2. \A i, j \in P : j \in before[i] <=> j < i
  OBVIOUS
<1>3. InOrder(P) = Sorted(P, before)
  BY Zenon DEF InOrder
<1> HIDE DEF before
<1>5. Order(P, before)
  <2>1. \A i, j \in P : i \in Nat /\ j \in Nat
    OBVIOUS
  <2>2. \A i, j \in P : j \in before[i] => before[j] \subseteq before[i]
    <3> SUFFICES ASSUME NEW i \in P, NEW j \in P, j < i, NEW x \in before[j]
                 PROVE  x \in before[i]
      BY <1>2
    <3>1. x \in P /\ x < j
      BY <1>1, <1>2
    <3>2. x \in Nat /\ j \in Nat /\ i \in Nat
      BY <2>1, <3>1
    <3>3. x < i
      BY <3>1, <3>2
    <3> QED BY <1>2, <3>1, <3>3
  <2> QED BY <1>1, <1>2, <2>1, <2>2 DEF Order
<1>4. /\ Cardinality(P) \in Nat
      /\ Sorted(P, before) \in [1..Cardinality(P) -> P]
      /\ \A i \in P : \E n \in 1..Cardinality(P) : Sorted(P, before)[n] = i
      /\ \A m, n \in 1..Cardinality(P) :
            m < n <=> Sorted(P, before)[m] \in before[Sorted(P, before)[n]]
  BY <1>5, SortedFacts
<1> QED BY <1>2, <1>3, <1>4

\* Positions by their index.
LEMMA ByIndexFacts ==
  ASSUME NEW P \in SUBSET Nat, IsFiniteSet(P), NEW seq, NEW step,
         \A i \in P : seq[i].index[step] \in Nat
  PROVE  /\ Cardinality(P) \in Nat /\ ByIndex(seq, P, step) \in [1..Cardinality(P) -> P]
         /\ \A i \in P : \E n \in 1..Cardinality(P) : ByIndex(seq, P, step)[n] = i
         /\ \A m, n \in 1..Cardinality(P) :
               m < n <=> Comes(seq, step, ByIndex(seq, P, step)[m], ByIndex(seq, P, step)[n])
<1> DEFINE before == [i \in P |-> {j \in P : Comes(seq, step, j, i)}]
<1>1. \A i, j \in P : j \in before[i] <=> Comes(seq, step, j, i)
  OBVIOUS
<1>2. \A i \in P : before[i] \subseteq P
  OBVIOUS
<1>3. ByIndex(seq, P, step) = Sorted(P, before)
  BY DEF ByIndex
<1>4. before \in [P -> SUBSET P]
  OBVIOUS
<1> HIDE DEF before
<1>5. Order(P, before)
  <2>1. \A i \in P : ~Comes(seq, step, i, i)
    BY DEF Comes
  <2>2. \A i, j \in P : i = j \/ Comes(seq, step, i, j) \/ Comes(seq, step, j, i)
    BY DEF Comes
  <2>3. \A i, j, k \in P : Comes(seq, step, k, j) /\ Comes(seq, step, j, i) => Comes(seq, step, k, i)
    BY DEF Comes
  <2> QED BY <1>1, <1>2, <1>4, <2>1, <2>2, <2>3 DEF Order
<1>6. /\ Cardinality(P) \in Nat
      /\ Sorted(P, before) \in [1..Cardinality(P) -> P]
      /\ \A i \in P : \E n \in 1..Cardinality(P) : Sorted(P, before)[n] = i
      /\ \A m, n \in 1..Cardinality(P) :
            m < n <=> Sorted(P, before)[m] \in before[Sorted(P, before)[n]]
  BY <1>5, SortedFacts
<1> QED BY <1>1, <1>3, <1>6

\* Positions in the order in which the page shows them.
LEMMA ByShownFacts ==
  ASSUME NEW P \in SUBSET Nat, IsFiniteSet(P), NEW seq, NEW step,
         \A i \in P : seq[i].index[step] \in Nat
  PROVE  /\ Cardinality(P) \in Nat /\ ByShown(seq, P, step) \in [1..Cardinality(P) -> P]
         /\ \A i \in P : \E n \in 1..Cardinality(P) : ByShown(seq, P, step)[n] = i
         /\ \A m, n \in 1..Cardinality(P) :
               m < n <=> ShownBefore(seq, step, ByShown(seq, P, step)[m], ByShown(seq, P, step)[n])
<1> DEFINE before == [i \in P |-> {j \in P : ShownBefore(seq, step, j, i)}]
<1>1. before \in [P -> SUBSET P] /\ \A i, j \in P : j \in before[i] <=> ShownBefore(seq, step, j, i)
  OBVIOUS
<1> HIDE DEF before
<1>2. Order(P, before)
  <2>1. \A i \in P : ~ShownBefore(seq, step, i, i)
    <3> SUFFICES ASSUME NEW i \in P PROVE ~ShownBefore(seq, step, i, i)
      OBVIOUS
    <3>1. i \in Nat /\ seq[i].index[step] \in Nat
      OBVIOUS
    <3>2. ~(i < i) /\ ~(seq[i].index[step] < seq[i].index[step])
      BY <3>1
    <3> QED BY <3>2 DEF ShownBefore
  <2>2. \A i, j \in P : i = j \/ ShownBefore(seq, step, i, j) \/ ShownBefore(seq, step, j, i)
    <3> SUFFICES ASSUME NEW i \in P, NEW j \in P, i # j
                 PROVE  ShownBefore(seq, step, i, j) \/ ShownBefore(seq, step, j, i)
      OBVIOUS
    <3> DEFINE x == seq[i].index[step]
               y == seq[j].index[step]
    <3>1. i \in Nat /\ j \in Nat /\ x \in Nat /\ y \in Nat
      OBVIOUS
    <3>2. i < j \/ j < i
      BY <3>1
    <3> HIDE DEF x, y
    <3>3. x < y \/ y < x \/ x = y
      BY <3>1
    <3>4. \/ x < y \/ (x = y /\ IF step = Response THEN j < i ELSE i < j)
          \/ y < x \/ (y = x /\ IF step = Response THEN i < j ELSE j < i)
      BY <3>2, <3>3
    <3> QED BY <3>4 DEF ShownBefore, x, y
  <2>3. ASSUME NEW i \in P, NEW j \in P, NEW k \in P,
               ShownBefore(seq, step, k, j), ShownBefore(seq, step, j, i)
        PROVE  ShownBefore(seq, step, k, i)
    <3> DEFINE x(n) == seq[n].index[step]
    <3>1. i \in Nat /\ j \in Nat /\ k \in Nat /\ x(i) \in Nat /\ x(j) \in Nat /\ x(k) \in Nat
      OBVIOUS
    <3>2. /\ x(k) < x(j) \/ (x(k) = x(j) /\ IF step = Response THEN j < k ELSE k < j)
          /\ x(j) < x(i) \/ (x(j) = x(i) /\ IF step = Response THEN i < j ELSE j < i)
      BY <2>3 DEF ShownBefore
    <3> HIDE DEF x
    <3>3. x(k) < x(i) \/ (x(k) = x(i) /\ IF step = Response THEN i < k ELSE k < i)
      <4>1. CASE step = Response
        BY <3>1, <3>2, <4>1
      <4>2. CASE step # Response
        BY <3>1, <3>2, <4>2
      <4> QED BY <4>1, <4>2
    <3> QED BY <3>3 DEF ShownBefore, x
  <2> QED BY <1>1, <2>1, <2>2, <2>3 DEF Order
<1>3. /\ Cardinality(P) \in Nat
      /\ Sorted(P, before) \in [1..Cardinality(P) -> P]
      /\ \A i \in P : \E n \in 1..Cardinality(P) : Sorted(P, before)[n] = i
      /\ \A m, n \in 1..Cardinality(P) :
            m < n <=> Sorted(P, before)[m] \in before[Sorted(P, before)[n]]
  BY <1>2, SortedFacts
<1>4. \A m, n \in 1..Cardinality(P) :
         m < n <=> ShownBefore(seq, step, Sorted(P, before)[m], Sorted(P, before)[n])
  BY <1>1, <1>3
<1>5. ByShown(seq, P, step) = Sorted(P, before)
  BY DEF ByShown, before
<1> QED BY <1>3, <1>4, <1>5

\* filter keeps elements of the list.
LEMMA KeepFacts ==
  ASSUME NEW seq, seq \in Seq(ToSet(seq)), NEW P \in SUBSET DOMAIN seq
  PROVE  /\ Keep(seq, P) \in Seq(ToSet(Keep(seq, P)))
         /\ DOMAIN Keep(seq, P) = DOMAIN InOrder(P)
         /\ \A n \in DOMAIN InOrder(P) :
               InOrder(P)[n] \in P /\ Keep(seq, P)[n] = seq[InOrder(P)[n]]
<1>1. P \in SUBSET Nat /\ IsFiniteSet(P)
  BY ListIs, CountType
<1>2. Cardinality(P) \in Nat /\ InOrder(P) \in [1..Cardinality(P) -> P]
  BY <1>1, InOrderFacts
<1>3. Keep(seq, P) = [n \in 1..Cardinality(P) |-> seq[InOrder(P)[n]]]
  BY <1>2 DEF Keep
<1>4. Keep(seq, P) \in Seq(ToSet(Keep(seq, P)))
  <2>1. Keep(seq, P) = [n \in 1..Cardinality(P) |-> Keep(seq, P)[n]]
    BY <1>3
  <2> QED BY <2>1, <1>2, ListMake
<1> QED BY <1>2, <1>3, <1>4

\* nodes.find.
LEMMA IndexInFacts ==
  ASSUME NEW seq, seq \in Seq(ToSet(seq)), NEW j \in DOMAIN seq
  PROVE  \E k \in DOMAIN seq : /\ seq[k].nodeId = seq[j].nodeId
                               /\ IndexIn(seq, seq[j].nodeId) = seq[k].index
<1> DEFINE I == {i \in 1..Len(seq) : seq[i].nodeId = seq[j].nodeId}
<1>1. I \in SUBSET Nat /\ j \in I /\ I \subseteq DOMAIN seq
  BY ListIs
<1>2. Min(I) \in I
  <2> HIDE DEF I
  <2> QED BY <1>1, MinFacts
<1>3. IndexIn(seq, seq[j].nodeId) = seq[Min(I)].index
  BY <1>1 DEF IndexIn, SelectInSeq
<1> QED BY <1>1, <1>2, <1>3

--------------------------------------------------------------------------------
(* Types, and the route against the nodes. *)

\* Two lists of the same plugins under the same identifiers.
Alike(seq, other) ==
    /\ Len(seq) = Len(other)
    /\ \A i \in DOMAIN other : seq[i].nodeId = other[i].nodeId /\ seq[i].plugin = other[i].plugin

\* Nodes as the page has them.
ShownNodes(seq) ==
    /\ Complete(seq)
    /\ \A i \in DOMAIN seq : NodeSteps(seq[i].plugin) \subseteq DOMAIN seq[i].index

TypeInv == TypeOK /\ Mirror

LEMMA TypeInvIs ==
  TypeInv <=> /\ IsRoute(stored) /\ IsNodes(route) /\ ShownNodes(nodes)
              /\ edits \in 0..MaxEdits /\ churned \in BOOLEAN
              /\ Alike(route, nodes)
BY RoutesAssumption DEF TypeInv, TypeOK, Mirror, ShownNodes, Complete, IsNodes, Alike

\* The identifier of a loaded plugin.
LEMMA LoadedIdType ==
  ASSUME NEW seq, IsRoute(seq), NEW i \in DOMAIN seq
  PROVE  LoadedId(seq, i) \in Plugins \X Nat
<1> DEFINE B == {j \in Same(seq, seq[i].plugin) : j < i}
<1>1. B \in SUBSET DOMAIN seq
  BY DEF Same
<1>2. Cardinality(B) \in Nat
  BY <1>1, CountType DEF IsRoute
<1>3. seq[i].plugin \in Plugins
  BY DEF IsRoute
<1> HIDE DEF B
<1>4. <<seq[i].plugin, IF B = {} THEN 0 ELSE Cardinality(B) + 1>> \in Plugins \X Nat
  BY <1>2, <1>3
<1> QED BY <1>4 DEF LoadedId, B

\* What loadData makes of a stored route.
LEMMA LoadFacts ==
  ASSUME NEW seq, IsRoute(seq)
  PROVE  /\ IsNodes(LoadedRoute(seq)) /\ ShownNodes(LoadedNodes(seq))
         /\ Alike(LoadedRoute(seq), LoadedNodes(seq))
         /\ DOMAIN LoadedNodes(seq) = DOMAIN seq /\ DOMAIN LoadedRoute(seq) = DOMAIN seq
         /\ \A i \in DOMAIN seq :
               /\ LoadedNodes(seq)[i].plugin = seq[i].plugin
               /\ LoadedNodes(seq)[i].nodeId = LoadedId(seq, i)
               /\ LoadedRoute(seq)[i].index = seq[i].index
               /\ NodeSteps(seq[i].plugin) \subseteq
                     DOMAIN (IF seq[i].plugin \in Known THEN IndexOf(seq[i]) ELSE Empty)
                  => LoadedNodes(seq)[i].index
                     = IF seq[i].plugin \in Known THEN IndexOf(seq[i]) ELSE Empty
<1> DEFINE index(i) == IF seq[i].plugin \in Known THEN IndexOf(seq[i]) ELSE Empty
           L == [i \in DOMAIN seq |->
                   [plugin |-> seq[i].plugin, nodeId |-> LoadedId(seq, i), index |-> index(i)]]
           R == LoadedRoute(seq)
<1>1. Len(seq) \in Nat /\ DOMAIN seq = 1..Len(seq)
  BY ListIs DEF IsRoute
<1>2. \A i \in DOMAIN seq : /\ seq[i].plugin \in Plugins
                            /\ LoadedId(seq, i) \in Plugins \X Nat
                            /\ IsIndex(index(i))
                            /\ seq[i].index = None \/ IsIndex(seq[i].index)
  BY LoadedIdType, EmptyIndex DEF IsRoute, IndexOf
<1>3. L \in Seq(ToSet(L)) /\ Len(L) = Len(seq) /\ DOMAIN L = 1..Len(seq)
  <2>1. L = [i \in 1..Len(seq) |-> L[i]]
    BY <1>1
  <2> HIDE DEF L
  <2> QED BY <2>1, <1>1, ListMake
<1>4. \A i \in DOMAIN seq :
        L[i] = [plugin |-> seq[i].plugin, nodeId |-> LoadedId(seq, i), index |-> index(i)]
  OBVIOUS
<1> HIDE DEF index
<1>5. Complete(L)
  <2> HIDE DEF L
  <2> QED BY <1>1, <1>2, <1>3, <1>4 DEF Complete, IsNodes
<1>6. LoadedNodes(seq) = WithPluginIndexes(L)
  BY DEF LoadedNodes, index
<1> HIDE DEF L
<1>7. /\ Complete(LoadedNodes(seq)) /\ Len(LoadedNodes(seq)) = Len(seq)
      /\ \A i \in DOMAIN seq :
            /\ LoadedNodes(seq)[i].plugin = seq[i].plugin
            /\ LoadedNodes(seq)[i].nodeId = LoadedId(seq, i)
            /\ NodeSteps(seq[i].plugin) \subseteq DOMAIN LoadedNodes(seq)[i].index
            /\ NodeSteps(seq[i].plugin) \subseteq DOMAIN index(i)
                  => LoadedNodes(seq)[i].index = index(i)
  BY <1>1, <1>3, <1>4, <1>5, <1>6, WithPluginIndexesFacts
<1>8. DOMAIN LoadedNodes(seq) = DOMAIN seq
  BY <1>1, <1>7, ListIs DEF Complete, IsNodes
<1>9. R \in Seq(ToSet(R)) /\ Len(R) = Len(seq) /\ DOMAIN R = DOMAIN seq
  <2>1. R = [i \in 1..Len(seq) |-> R[i]]
    BY <1>1 DEF LoadedRoute
  <2> HIDE DEF R
  <2> QED BY <2>1, <1>1, ListMake
<1>10. \A i \in DOMAIN seq :
          R[i] = [plugin |-> seq[i].plugin, nodeId |-> LoadedId(seq, i), index |-> seq[i].index]
  BY DEF LoadedRoute
<1> HIDE DEF R
<1>11. IsNodes(R)
  BY <1>2, <1>9, <1>10 DEF IsNodes
<1>14. \A i \in DOMAIN seq : /\ R[i].plugin = seq[i].plugin
                             /\ R[i].nodeId = LoadedId(seq, i)
                             /\ R[i].index = seq[i].index
  BY DEF LoadedRoute, R
<1>12. Alike(R, LoadedNodes(seq))
  BY <1>7, <1>8, <1>9, <1>14 DEF Alike
<1>13. ShownNodes(LoadedNodes(seq))
  BY <1>7, <1>8 DEF ShownNodes
<1> QED BY <1>7, <1>8, <1>9, <1>11, <1>12, <1>13, <1>14 DEF R, index

\* The route and the nodes of the page.
Page(r, n) == IsNodes(r) /\ ShownNodes(n) /\ Alike(r, n)

\* A node more.
LEMMA AppendFacts ==
  ASSUME NEW s, IsNodes(s), NEW node, IsIndex(node.index),
         node \in [plugin : Plugins, nodeId : Plugins \X Nat, index : {node.index}]
  PROVE  /\ IsNodes(Append(s, node))
         /\ Len(s) \in Nat /\ DOMAIN s = 1..Len(s)
         /\ Len(Append(s, node)) = Len(s) + 1 /\ DOMAIN Append(s, node) = 1..(Len(s) + 1)
         /\ \A i \in 1..Len(s) : Append(s, node)[i] = s[i]
         /\ Append(s, node)[Len(s) + 1] = node
<1> DEFINE a == Append(s, node)
<1>1. Len(s) \in Nat /\ DOMAIN s = 1..Len(s)
  BY ListIs DEF IsNodes
<1>2. /\ a = [i \in 1..(Len(s) + 1) |-> IF i = Len(s) + 1 THEN node ELSE s[i]]
      /\ Len(a) = Len(s) + 1
  <2>1. s \in Seq(ToSet(s) \cup {node}) /\ node \in ToSet(s) \cup {node}
    BY DEF IsNodes
  <2> DEFINE T == ToSet(s) \cup {node}
  <2> HIDE DEF T
  <2>2. s \in Seq(T) /\ node \in T
    BY <2>1 DEF T
  <2>3. a \in Seq(T) /\ Len(a) = Len(s) + 1
    BY <2>2
  <2>4. \A i \in 1..(Len(s) + 1) : a[i] = IF i = Len(s) + 1 THEN node ELSE s[i]
    BY <2>2
  <2> HIDE DEF a
  <2>5. DOMAIN a = 1..(Len(s) + 1) /\ a = [i \in DOMAIN a |-> a[i]]
    BY <2>3
  <2> QED BY <2>3, <2>4, <2>5
<1>3. a \in Seq(ToSet(a)) /\ DOMAIN a = 1..(Len(s) + 1)
  <2>1. a = [i \in 1..(Len(s) + 1) |-> a[i]] /\ Len(s) + 1 \in Nat
    BY <1>1, <1>2
  <2> HIDE DEF a
  <2> QED BY <2>1, ListMake
<1>4. (\A i \in 1..Len(s) : a[i] = s[i]) /\ a[Len(s) + 1] = node
  BY <1>1, <1>2
<1> HIDE DEF a
<1>5. IsNodes(a)
  <2> SUFFICES ASSUME NEW i \in DOMAIN a
               PROVE  /\ a[i] \in [plugin : Plugins, nodeId : Plugins \X Nat, index : {a[i].index}]
                      /\ a[i].index = None \/ IsIndex(a[i].index)
    BY <1>3 DEF IsNodes
  <2>1. CASE i = Len(s) + 1
    BY <2>1, <1>4
  <2>2. CASE i \in 1..Len(s)
    BY <2>2, <1>1, <1>4 DEF IsNodes
  <2> QED BY <2>1, <2>2, <1>1, <1>3
<1> QED BY <1>1, <1>2, <1>3, <1>4, <1>5 DEF a

\* What addNode does: the same node at the end of both lists.
LEMMA AddFacts ==
  ASSUME TypeInv, NEW p \in Known, AddNode(p)
  PROVE  /\ Page(route', nodes')
         /\ Len(nodes) \in Nat /\ DOMAIN nodes = 1..Len(nodes) /\ DOMAIN nodes' = 1..(Len(nodes) + 1)
         /\ \A i \in 1..Len(nodes) : nodes'[i] = nodes[i] /\ route'[i] = route[i]
         /\ nodes'[Len(nodes) + 1].plugin = p /\ nodes'[Len(nodes) + 1].nodeId = NewId(p)
         /\ route'[Len(nodes) + 1] = nodes'[Len(nodes) + 1]
<1> DEFINE node == [plugin |-> p, nodeId |-> NewId(p), index |-> NewIndex(p)]
<1>1. IsNodes(route) /\ ShownNodes(nodes) /\ Complete(nodes) /\ IsNodes(nodes) /\ Alike(route, nodes)
  BY TypeInvIs DEF ShownNodes, Complete
<1>2. p \in Plugins /\ NodeSteps(p) = StepsOf[p] /\ StepsOf[p] \subseteq Steps
  BY DesignerAssumption, NodeStepsType DEF NodeSteps
<1>3. IsIndex(NewIndex(p)) /\ DOMAIN NewIndex(p) = StepsOf[p]
  <2>1. \A s \in StepsOf[p] : FirstFree(nodes, s) \in Nat
    BY <1>1, FirstFreeType
  <2>2. NewIndex(p) \in [StepsOf[p] -> Nat]
    BY <2>1 DEF NewIndex
  <2> QED BY <2>2, <1>2 DEF IsIndex
<1>4. NewId(p) \in Plugins \X Nat
  <2>1. Cardinality(Same(nodes, p)) \in Nat
    <3>1. Same(nodes, p) \in SUBSET DOMAIN nodes
      BY DEF Same
    <3> QED BY <3>1, <1>1, CountType DEF IsNodes
  <2> QED BY <2>1, <1>2 DEF NewId
<1>5. /\ node \in [plugin : Plugins, nodeId : Plugins \X Nat, index : {node.index}]
      /\ node.index = NewIndex(p) /\ node.plugin = p /\ node.nodeId = NewId(p)
  BY <1>2, <1>4
<1>6. route' = Append(route, node) /\ nodes' = Append(nodes, node)
  BY DEF AddNode
<1> HIDE DEF node
<1>7. /\ IsNodes(nodes')
      /\ Len(nodes) \in Nat /\ DOMAIN nodes = 1..Len(nodes)
      /\ Len(nodes') = Len(nodes) + 1 /\ DOMAIN nodes' = 1..(Len(nodes) + 1)
      /\ \A i \in 1..Len(nodes) : nodes'[i] = nodes[i]
      /\ nodes'[Len(nodes) + 1] = node
  BY <1>1, <1>3, <1>5, <1>6, AppendFacts
<1>8. /\ IsNodes(route')
      /\ Len(route') = Len(route) + 1
      /\ \A i \in 1..Len(route) : route'[i] = route[i]
      /\ route'[Len(route) + 1] = node
  BY <1>1, <1>3, <1>5, <1>6, AppendFacts
<1>9. \A i \in DOMAIN nodes' : i \in DOMAIN nodes \/ i = Len(nodes) + 1
  BY <1>7
<1>10. ShownNodes(nodes')
  BY <1>1, <1>2, <1>3, <1>5, <1>7, <1>9 DEF ShownNodes, Complete
<1>11. Alike(route', nodes')
  BY <1>1, <1>7, <1>8, <1>9 DEF Alike
<1>12. Len(route) = Len(nodes)
  BY <1>1 DEF Alike
<1> QED BY <1>5, <1>7, <1>8, <1>10, <1>11, <1>12 DEF Page

\* The route and the nodes lose the same positions.
LEMMA OthersAlike ==
  ASSUME TypeInv, NEW i \in DOMAIN nodes
  PROVE  /\ Others(route, nodes[i].nodeId) = Others(nodes, nodes[i].nodeId)
         /\ Others(nodes, nodes[i].nodeId) \in SUBSET DOMAIN nodes
         /\ DOMAIN route = DOMAIN nodes
<1>1. DOMAIN route = DOMAIN nodes
  BY TypeInvIs, ListIs DEF IsNodes, ShownNodes, Complete, Alike
<1> QED BY <1>1, TypeInvIs DEF Others, Alike

\* What removeNode does: both lists keep the same positions.
LEMMA RemoveFacts ==
  ASSUME TypeInv, NEW i \in DOMAIN nodes, RemoveNode(i)
  PROVE  /\ Page(route', nodes')
         /\ \E at \in [DOMAIN nodes' -> DOMAIN nodes] :
               /\ \A n \in DOMAIN nodes' : /\ nodes[at[n]].nodeId # nodes[i].nodeId
                                          /\ nodes'[n] = nodes[at[n]] /\ route'[n] = route[at[n]]
               /\ \A j \in DOMAIN nodes : nodes[j].nodeId # nodes[i].nodeId
                                             => \E n \in DOMAIN nodes' : at[n] = j
<1> DEFINE P == Others(nodes, nodes[i].nodeId)
<1>1. IsNodes(route) /\ ShownNodes(nodes) /\ Complete(nodes) /\ IsNodes(nodes) /\ Alike(route, nodes)
  BY TypeInvIs DEF ShownNodes, Complete
<1>2. P \in SUBSET DOMAIN nodes /\ P \in SUBSET DOMAIN route /\ DOMAIN route = DOMAIN nodes
  BY OthersAlike
<1>3. nodes' = Keep(nodes, P) /\ route' = Keep(route, P)
  BY OthersAlike DEF RemoveNode
<1> HIDE DEF P
<1>4. /\ nodes' \in Seq(ToSet(nodes')) /\ DOMAIN nodes' = DOMAIN InOrder(P)
      /\ \A n \in DOMAIN InOrder(P) : InOrder(P)[n] \in P /\ nodes'[n] = nodes[InOrder(P)[n]]
  BY <1>1, <1>2, <1>3, KeepFacts DEF IsNodes
<1>5. /\ route' \in Seq(ToSet(route')) /\ DOMAIN route' = DOMAIN InOrder(P)
      /\ \A n \in DOMAIN InOrder(P) : InOrder(P)[n] \in P /\ route'[n] = route[InOrder(P)[n]]
  BY <1>1, <1>2, <1>3, KeepFacts DEF IsNodes
<1>6. Len(route') = Len(nodes')
  BY <1>4, <1>5, ListIs
<1>7. IsNodes(route')
  BY <1>1, <1>2, <1>5 DEF IsNodes
<1>8. ShownNodes(nodes')
  BY <1>1, <1>2, <1>4 DEF IsNodes, ShownNodes, Complete
<1>9. Alike(route', nodes')
  BY <1>1, <1>2, <1>4, <1>5, <1>6 DEF Alike
<1>10. /\ InOrder(P) \in [DOMAIN nodes' -> P]
       /\ \A j \in P : \E n \in DOMAIN nodes' : InOrder(P)[n] = j
  <2>1. P \in SUBSET Nat /\ IsFiniteSet(P)
    BY <1>1, <1>2, ListIs, CountType DEF IsNodes
  <2>2. /\ InOrder(P) \in [1..Cardinality(P) -> P]
        /\ \A j \in P : \E n \in 1..Cardinality(P) : InOrder(P)[n] = j
    BY <2>1, InOrderFacts
  <2> QED BY <2>2, <1>4
<1>11. InOrder(P) \in [DOMAIN nodes' -> DOMAIN nodes]
  BY <1>2, <1>10
<1>12. \A j \in DOMAIN nodes : j \in P <=> nodes[j].nodeId # nodes[i].nodeId
  BY DEF P, Others
<1> QED BY <1>2, <1>4, <1>5, <1>7, <1>8, <1>9, <1>10, <1>11, <1>12 DEF Page

LEMMA ClearPage ==
  ASSUME ClearPlugins
  PROVE  Page(route', nodes')
<1>1. <<>> \in Seq(ToSet(<<>>)) /\ DOMAIN <<>> = {} /\ Len(<<>>) = 0
  BY DEF ToSet
<1> QED BY <1>1 DEF ClearPlugins, Page, ShownNodes, Complete, IsNodes, Alike

\* What setNodes does: the same new nodes in both lists.
LEMMA SetFacts ==
  ASSUME TypeInv, NEW ps \in Patterns, SetNodes(ps)
  PROVE  /\ Page(route', nodes') /\ route' = nodes'
         /\ \A i \in DOMAIN nodes' : /\ nodes'[i].nodeId[1] = nodes'[i].plugin
                                     /\ nodes'[i].plugin \notin Known => nodes'[i].index = Empty
<1> DEFINE b == [i \in DOMAIN ps |-> [plugin |-> ps[i].plugin, nodeId |-> NewId(ps[i].plugin),
                                      index |-> IndexOf(ps[i])]]
<1>1. /\ Len(ps) \in Nat /\ DOMAIN ps = 1..Len(ps)
      /\ \A i \in DOMAIN ps : /\ ps[i].plugin \in Plugins /\ ps[i].plugin \in Known
                              /\ IsIndex(IndexOf(ps[i]))
  <2>1. /\ ps \in Seq(ToSet(ps))
        /\ \A i \in DOMAIN ps : /\ ps[i] \in [plugin : Plugins, index : {ps[i].index}]
                                /\ ps[i].index = None \/ IsIndex(ps[i].index)
                                /\ ps[i].plugin \in Known
    BY RoutesAssumption DEF IsRoute
  <2>2. \A i \in DOMAIN ps : IsIndex(IndexOf(ps[i]))
    BY <2>1, EmptyIndex DEF IndexOf
  <2>3. ASSUME NEW i \in DOMAIN ps PROVE ps[i].plugin \in Plugins
    BY <2>1, DesignerAssumption
  <2> QED BY <2>1, <2>2, <2>3, ListIs
<1>2. \A p \in Plugins : NewId(p) \in Plugins \X Nat
  <2> SUFFICES ASSUME NEW p \in Plugins PROVE NewId(p) \in Plugins \X Nat
    OBVIOUS
  <2>1. Same(nodes, p) \in SUBSET DOMAIN nodes
    BY DEF Same
  <2>2. Cardinality(Same(nodes, p)) \in Nat
    BY <2>1, TypeInvIs, CountType DEF ShownNodes, Complete, IsNodes
  <2> QED BY <2>2 DEF NewId
<1>3. b \in Seq(ToSet(b)) /\ DOMAIN b = DOMAIN ps
  <2>1. b = [i \in 1..Len(ps) |-> b[i]]
    BY <1>1
  <2> HIDE DEF b
  <2> QED BY <2>1, <1>1, ListMake
<1>4. \A i \in DOMAIN ps :
         b[i] = [plugin |-> ps[i].plugin, nodeId |-> NewId(ps[i].plugin), index |-> IndexOf(ps[i])]
  OBVIOUS
<1>5. nodes' = WithPluginIndexes(b) /\ route' = WithPluginIndexes(b)
  BY DEF SetNodes
<1> HIDE DEF b
<1>6. Complete(b)
  <2>1. ASSUME NEW i \in DOMAIN b
        PROVE  /\ b[i] \in [plugin : Plugins, nodeId : Plugins \X Nat, index : {b[i].index}]
               /\ IsIndex(b[i].index)
    BY <1>1, <1>2, <1>3, <1>4
  <2> QED BY <1>3, <2>1 DEF Complete, IsNodes
<1>7. /\ Complete(nodes') /\ Len(nodes') = Len(b)
      /\ \A i \in DOMAIN b : /\ nodes'[i].plugin = b[i].plugin /\ nodes'[i].nodeId = b[i].nodeId
                             /\ NodeSteps(b[i].plugin) \subseteq DOMAIN nodes'[i].index
                             /\ NodeSteps(b[i].plugin) = {} => nodes'[i].index = b[i].index
  BY <1>5, <1>6, WithPluginIndexesFacts
<1>8. DOMAIN nodes' = DOMAIN b
  BY <1>6, <1>7, ListIs DEF Complete, IsNodes
<1>9. ShownNodes(nodes')
  BY <1>7, <1>8 DEF ShownNodes
<1>10. \A i \in DOMAIN b : /\ b[i].nodeId = <<b[i].plugin, Cardinality(Same(nodes, b[i].plugin)) + 1>>
                           /\ b[i].plugin \in Known
  BY <1>1, <1>3, <1>4 DEF NewId
<1>11. \A i \in DOMAIN nodes' : /\ nodes'[i].nodeId[1] = nodes'[i].plugin
                                /\ nodes'[i].plugin \notin Known => nodes'[i].index = Empty
  BY <1>7, <1>8, <1>10
<1>12. Page(route', nodes')
  BY <1>5, <1>9 DEF Page, ShownNodes, Complete, Alike
<1>13. route' = nodes'
  BY <1>5
<1> QED BY <1>11, <1>12, <1>13

\* The nodes of a step have an index for it.
LEMMA IndexedFacts ==
  ASSUME NEW seq, Complete(seq), NEW step
  PROVE  /\ Indexed(seq, step) = {i \in DOMAIN seq : step \in DOMAIN seq[i].index}
         /\ Indexed(seq, step) \in SUBSET Nat /\ IsFiniteSet(Indexed(seq, step))
         /\ \A i \in Indexed(seq, step) : seq[i].index[step] \in Nat
<1> DEFINE P == Indexed(seq, step)
<1>1. P = {i \in DOMAIN seq : step \in DOMAIN seq[i].index}
  <2>1. \A i \in DOMAIN seq : IndexOf(seq[i]) = seq[i].index
    BY RoutesAssumption DEF Complete, IndexOf
  <2> QED BY <2>1 DEF Indexed
<1>2. P \in SUBSET Nat /\ IsFiniteSet(P)
  <2>1. seq \in Seq(ToSet(seq)) /\ P \in SUBSET DOMAIN seq
    BY <1>1 DEF Complete, IsNodes
  <2> HIDE DEF P
  <2> QED BY <2>1, ListIs, CountType
<1>3. \A i \in P : seq[i].index[step] \in Nat
  BY <1>1, IndexIs DEF Complete
<1> QED BY <1>1, <1>2, <1>3

\* swap takes its nodes from those of the step.
LEMMA RankedFacts ==
  ASSUME NEW seq, Complete(seq), NEW step
  PROVE  \A n \in DOMAIN Ranked(seq, step) : Ranked(seq, step)[n] \in Indexed(seq, step)
<1> DEFINE P == Indexed(seq, step)
<1>1. P \in SUBSET Nat /\ IsFiniteSet(P) /\ \A i \in P : seq[i].index[step] \in Nat
  BY IndexedFacts
<1> HIDE DEF P
<1>2. ByIndex(seq, P, step) \in [1..Cardinality(P) -> P]
  BY <1>1, ByIndexFacts
<1> QED BY <1>2 DEF Ranked, P

\* The page shows each node of a step, by index.
LEMMA ShownFacts ==
  ASSUME NEW seq, Complete(seq), NEW step
  PROVE  /\ \A n \in DOMAIN Shown(seq, step) : n \in Nat /\ Shown(seq, step)[n] \in Indexed(seq, step)
         /\ \A i \in Indexed(seq, step) : \E n \in DOMAIN Shown(seq, step) : Shown(seq, step)[n] = i
         /\ \A m, n \in DOMAIN Shown(seq, step) :
               m < n <=> ShownBefore(seq, step, Shown(seq, step)[m], Shown(seq, step)[n])
<1> DEFINE P == Indexed(seq, step)
           l == ByShown(seq, P, step)
<1>1. P \in SUBSET Nat /\ IsFiniteSet(P) /\ \A i \in P : seq[i].index[step] \in Nat
  BY IndexedFacts
<1>2. Shown(seq, step) = l
  BY DEF Shown
<1> HIDE DEF P
<1>3. /\ Cardinality(P) \in Nat /\ l \in [1..Cardinality(P) -> P]
      /\ \A i \in P : \E n \in 1..Cardinality(P) : l[n] = i
      /\ \A m, n \in 1..Cardinality(P) : m < n <=> ShownBefore(seq, step, l[m], l[n])
  BY <1>1, ByShownFacts
<1> HIDE DEF l
<1>4. DOMAIN l = 1..Cardinality(P) /\ \A n \in DOMAIN l : l[n] \in P
  BY <1>3
<1> QED BY <1>2, <1>3, <1>4 DEF P

\* A new number for a step gives an index.
LEMMA IndexChange ==
  ASSUME NEW f, IsIndex(f), NEW step \in Steps, NEW n \in Nat
  PROVE  IsIndex(Put(f, step, n)) /\ DOMAIN Put(f, step, n) = DOMAIN f \cup {step}
<1> DEFINE g == Put(f, step, n)
<1>1. /\ DOMAIN g = DOMAIN f \cup {step} /\ g = [s \in DOMAIN g |-> g[s]]
      /\ \A s \in DOMAIN g : g[s] \in Nat
  <2>1. g = [s \in DOMAIN f \cup {step} |-> IF s = step THEN n ELSE f[s]]
    BY DEF Put
  <2> HIDE DEF g
  <2>2. DOMAIN g = DOMAIN f \cup {step} /\ g = [s \in DOMAIN g |-> g[s]]
    BY <2>1
  <2>3. ASSUME NEW s \in DOMAIN g PROVE g[s] \in Nat
    <3>1. s \in DOMAIN f => f[s] \in Nat
      BY IndexIs
    <3>2. CASE s = step
      BY <2>1, <3>2
    <3>3. CASE s # step
      <4>1. s \in DOMAIN f /\ g[s] = f[s]
        BY <2>1, <3>3
      <4> QED BY <3>1, <4>1
    <3> QED BY <3>2, <3>3
  <2> QED BY <2>2, <2>3
<1> HIDE DEF g
<1>2. IsIndex(g)
  BY <1>1, IndexIs
<1> QED BY <1>1, <1>2 DEF g

\* The nodes that trade their indexes both have one for the step.
LEMMA NeighboursAreShown ==
  ASSUME TypeInv, NEW i \in DOMAIN nodes, NEW step \in Steps, NEW up \in BOOLEAN
  PROVE  \A k \in Neighbours(i, step, up) : k \in DOMAIN nodes /\ step \in DOMAIN nodes[k].index
<1>1. Complete(nodes)
  BY TypeInvIs DEF ShownNodes
<1>2. \A n \in DOMAIN Ranked(nodes, step) : Ranked(nodes, step)[n] \in Indexed(nodes, step)
  BY <1>1, RankedFacts
<1>3. Indexed(nodes, step) = {j \in DOMAIN nodes : step \in DOMAIN nodes[j].index}
  BY <1>1, IndexedFacts
<1>4. \A k \in Neighbours(i, step, up) : \E n \in DOMAIN Ranked(nodes, step) : k = Ranked(nodes, step)[n]
  BY DEF Neighbours
<1> QED BY <1>2, <1>3, <1>4

LEMMA TradedFacts ==
  ASSUME TypeInv, NEW i \in DOMAIN nodes, NEW k \in DOMAIN nodes, NEW step \in Steps,
         step \in DOMAIN nodes[i].index, step \in DOMAIN nodes[k].index
  PROVE  /\ ShownNodes(Traded(i, k, step)) /\ DOMAIN Traded(i, k, step) = DOMAIN nodes
         /\ \A j \in DOMAIN nodes : /\ Traded(i, k, step)[j].plugin = nodes[j].plugin
                                    /\ Traded(i, k, step)[j].nodeId = nodes[j].nodeId
                                    /\ DOMAIN nodes[j].index \subseteq DOMAIN Traded(i, k, step)[j].index
                                    /\ \/ Traded(i, k, step)[j] = nodes[j]
                                       \/ nodes[j].nodeId = nodes[i].nodeId
                                       \/ nodes[j].nodeId = nodes[k].nodeId
<1> DEFINE t == Traded(i, k, step)
           value(j) == IF nodes[j].nodeId = nodes[i].nodeId THEN nodes[k].index[step]
                       ELSE nodes[i].index[step]
           moves(j) == nodes[j].nodeId = nodes[i].nodeId \/ nodes[j].nodeId = nodes[k].nodeId
<1>1. /\ ShownNodes(nodes) /\ nodes \in Seq(ToSet(nodes))
      /\ \A j \in DOMAIN nodes :
            /\ nodes[j] \in [plugin : Plugins, nodeId : Plugins \X Nat, index : {nodes[j].index}]
            /\ IsIndex(nodes[j].index)
  BY TypeInvIs DEF ShownNodes, Complete, IsNodes
<1>2. Len(nodes) \in Nat /\ DOMAIN nodes = 1..Len(nodes)
  BY <1>1, ListIs
<1>3. nodes[i].index[step] \in Nat /\ nodes[k].index[step] \in Nat
  BY <1>1, IndexIs
<1>4. t = [j \in DOMAIN nodes |->
             IF moves(j) THEN [nodes[j] EXCEPT !.index = Put(nodes[j].index, step, value(j))]
             ELSE nodes[j]]
  BY DEF Traded
<1>5. DOMAIN t = DOMAIN nodes /\ t \in Seq(ToSet(t))
  <2>1. t = [j \in 1..Len(nodes) |-> t[j]]
    BY <1>2, <1>4
  <2> HIDE DEF t
  <2> QED BY <2>1, <1>2, ListMake
<1>6. ASSUME NEW j \in DOMAIN nodes
      PROVE  /\ t[j] \in [plugin : Plugins, nodeId : Plugins \X Nat, index : {t[j].index}]
             /\ IsIndex(t[j].index) /\ DOMAIN nodes[j].index \subseteq DOMAIN t[j].index
             /\ t[j].plugin = nodes[j].plugin /\ t[j].nodeId = nodes[j].nodeId
             /\ t[j] = nodes[j] \/ moves(j)
  <2>1. CASE moves(j)
    <3> DEFINE index == Put(nodes[j].index, step, value(j))
    <3>1. value(j) \in Nat
      BY <1>3
    <3>2. IsIndex(index) /\ DOMAIN nodes[j].index \subseteq DOMAIN index
      <4> HIDE DEF value
      <4>1. IsIndex(nodes[j].index)
        BY <1>1
      <4>2. IsIndex(index) /\ DOMAIN index = DOMAIN nodes[j].index \cup {step}
        BY <3>1, <4>1, IndexChange
      <4> HIDE DEF index
      <4> QED BY <4>2
    <3>3. t[j] = [nodes[j] EXCEPT !.index = index]
      BY <1>4, <2>1
    <3> HIDE DEF index, t
    <3>4. t[j] = [plugin |-> nodes[j].plugin, nodeId |-> nodes[j].nodeId, index |-> index]
      BY <1>1, <3>3
    <3> QED BY <1>1, <2>1, <3>2, <3>4
  <2>2. CASE ~moves(j)
    BY <1>1, <1>4, <2>2
  <2> QED BY <2>1, <2>2
<1> HIDE DEF t
<1>7. ShownNodes(t)
  BY <1>1, <1>5, <1>6 DEF ShownNodes, Complete, IsNodes
<1> QED BY <1>5, <1>6, <1>7 DEF t

\* What swap does to the nodes, and to the route.
LEMMA SwapFacts ==
  ASSUME TypeInv, NEW i \in DOMAIN nodes, NEW step \in Steps, NEW up \in BOOLEAN, Swap(i, step, up)
  PROVE  /\ ShownNodes(nodes') /\ DOMAIN nodes' = DOMAIN nodes
         /\ \A j \in DOMAIN nodes : nodes'[j].plugin = nodes[j].plugin /\ nodes'[j].nodeId = nodes[j].nodeId
         /\ \A j \in DOMAIN nodes :
               \/ nodes'[j] = nodes[j]
               \/ \E k \in DOMAIN nodes : nodes[k].nodeId = nodes[j].nodeId /\ step \in DOMAIN nodes[k].index
         /\ IsNodes(route') /\ DOMAIN route' = DOMAIN nodes
         /\ \A j \in DOMAIN nodes :
               /\ route'[j].plugin = nodes[j].plugin /\ route'[j].nodeId = nodes[j].nodeId
               /\ \E k \in DOMAIN nodes : /\ nodes[k].nodeId = nodes[j].nodeId
                                          /\ route'[j].index = nodes'[k].index
<1>1. /\ Alike(route, nodes) /\ route \in Seq(ToSet(route))
      /\ \A j \in DOMAIN route :
           route[j] \in [plugin : Plugins, nodeId : Plugins \X Nat, index : {route[j].index}]
      /\ DOMAIN route = DOMAIN nodes
  BY TypeInvIs, ListIs DEF ShownNodes, Complete, IsNodes, Alike
<1>2. PICK k \in DOMAIN nodes : step \in DOMAIN nodes[k].index /\ nodes' = Traded(i, k, step)
  BY NeighboursAreShown DEF Swap
<1>3. /\ ShownNodes(nodes') /\ DOMAIN nodes' = DOMAIN nodes
      /\ \A j \in DOMAIN nodes :
            /\ nodes'[j].plugin = nodes[j].plugin /\ nodes'[j].nodeId = nodes[j].nodeId
            /\ \/ nodes'[j] = nodes[j]
               \/ nodes[j].nodeId = nodes[i].nodeId
               \/ nodes[j].nodeId = nodes[k].nodeId
  BY <1>2, TradedFacts DEF Swap
<1>10. \A j \in DOMAIN nodes :
          \/ nodes'[j] = nodes[j]
          \/ \E m \in DOMAIN nodes : nodes[m].nodeId = nodes[j].nodeId /\ step \in DOMAIN nodes[m].index
  BY <1>2, <1>3 DEF Swap
<1>4. route' = [j \in DOMAIN route |->
                  [route[j] EXCEPT !.index = IndexIn(nodes', route[j].nodeId)]]
  BY DEF Swap
<1>5. route' \in Seq(ToSet(route')) /\ DOMAIN route' = DOMAIN nodes
  <2>1. Len(route) \in Nat /\ route' = [j \in 1..Len(route) |-> route'[j]] /\ DOMAIN route = 1..Len(route)
    BY <1>1, <1>4, ListIs
  <2> QED BY <1>1, <2>1, ListMake
<1>6. ASSUME NEW j \in DOMAIN nodes
      PROVE  /\ route'[j] = [plugin |-> nodes[j].plugin, nodeId |-> nodes[j].nodeId,
                             index |-> IndexIn(nodes', nodes'[j].nodeId)]
             /\ nodes[j].plugin \in Plugins /\ nodes[j].nodeId \in Plugins \X Nat
  <2>1. route[j].plugin = nodes[j].plugin /\ route[j].nodeId = nodes[j].nodeId /\ nodes'[j].nodeId = nodes[j].nodeId
    BY <1>1, <1>3 DEF Alike
  <2>2. route[j] = [plugin |-> route[j].plugin, nodeId |-> route[j].nodeId, index |-> route[j].index]
    BY <1>1
  <2> QED BY <1>1, <1>4, <2>1, <2>2
<1>7. ASSUME NEW j \in DOMAIN nodes
      PROVE  \E m \in DOMAIN nodes : /\ nodes[m].nodeId = nodes[j].nodeId
                                     /\ IndexIn(nodes', nodes'[j].nodeId) = nodes'[m].index
                                     /\ IsIndex(nodes'[m].index)
  <2>1. nodes' \in Seq(ToSet(nodes')) /\ \A m \in DOMAIN nodes : IsIndex(nodes'[m].index)
    BY <1>3 DEF ShownNodes, Complete, IsNodes
  <2>2. PICK m \in DOMAIN nodes' : /\ nodes'[m].nodeId = nodes'[j].nodeId
                                   /\ IndexIn(nodes', nodes'[j].nodeId) = nodes'[m].index
    BY <1>3, <2>1, IndexInFacts
  <2> QED BY <1>3, <2>1, <2>2
<1>8. ASSUME NEW j \in DOMAIN nodes
      PROVE  /\ route'[j] \in [plugin : Plugins, nodeId : Plugins \X Nat, index : {route'[j].index}]
             /\ route'[j].plugin = nodes[j].plugin /\ route'[j].nodeId = nodes[j].nodeId
             /\ route'[j].index = IndexIn(nodes', nodes'[j].nodeId)
  <2> DEFINE f == IndexIn(nodes', nodes'[j].nodeId)
             r == route'[j]
  <2>1. r = [plugin |-> nodes[j].plugin, nodeId |-> nodes[j].nodeId, index |-> f]
    BY <1>6
  <2>2. nodes[j].plugin \in Plugins /\ nodes[j].nodeId \in Plugins \X Nat
    BY <1>6
  <2> HIDE DEF f, r
  <2>3. /\ r \in [plugin : Plugins, nodeId : Plugins \X Nat, index : {r.index}]
        /\ r.plugin = nodes[j].plugin /\ r.nodeId = nodes[j].nodeId /\ r.index = f
    BY <2>1, <2>2
  <2> QED BY <2>3 DEF f, r
<1>9. IsNodes(route')
  <2> SUFFICES ASSUME NEW j \in DOMAIN nodes PROVE IsIndex(route'[j].index)
    BY <1>5, <1>8 DEF IsNodes
  <2> QED BY <1>7, <1>8
<1>11. \A j \in DOMAIN nodes :
          /\ route'[j].plugin = nodes[j].plugin /\ route'[j].nodeId = nodes[j].nodeId
          /\ \E m \in DOMAIN nodes : /\ nodes[m].nodeId = nodes[j].nodeId
                                     /\ route'[j].index = nodes'[m].index
  BY <1>7, <1>8
<1> QED BY <1>3, <1>5, <1>9, <1>10, <1>11

LEMMA SwapPage ==
  ASSUME TypeInv, NEW i \in DOMAIN nodes, NEW step \in Steps, NEW up \in BOOLEAN, Swap(i, step, up)
  PROVE  Page(route', nodes')
<1>1. /\ ShownNodes(nodes') /\ IsNodes(route') /\ DOMAIN nodes' = DOMAIN nodes /\ DOMAIN route' = DOMAIN nodes
      /\ \A j \in DOMAIN nodes : nodes'[j].plugin = nodes[j].plugin /\ nodes'[j].nodeId = nodes[j].nodeId
      /\ \A j \in DOMAIN nodes : route'[j].plugin = nodes[j].plugin /\ route'[j].nodeId = nodes[j].nodeId
  BY SwapFacts
<1>2. Len(route') = Len(nodes')
  BY <1>1, ListIs DEF ShownNodes, Complete, IsNodes
<1> QED BY <1>1, <1>2 DEF Page, Alike

\* What is saved.
LEMMA ToSaveFacts ==
  ASSUME TypeInv
  PROVE  /\ IsRoute(ToSave) /\ DOMAIN ToSave = DOMAIN nodes /\ DOMAIN route = DOMAIN nodes
         /\ \A j \in DOMAIN nodes :
               /\ ToSave[j].plugin = nodes[j].plugin
               /\ \/ route[j].index # None /\ ToSave[j].index = route[j].index
                  \/ /\ route[j].index = None
                     /\ \E k \in DOMAIN nodes : /\ nodes[k].nodeId = nodes[j].nodeId
                                                /\ ToSave[j].index = nodes[k].index
<1>1. /\ Alike(route, nodes) /\ IsNodes(route) /\ ShownNodes(nodes)
      /\ DOMAIN route = DOMAIN nodes
  BY TypeInvIs, ListIs DEF ShownNodes, Complete, IsNodes, Alike
<1>2. Len(route) \in Nat /\ DOMAIN route = 1..Len(route)
  BY <1>1, ListIs DEF IsNodes
<1>3. ToSave \in Seq(ToSet(ToSave)) /\ DOMAIN ToSave = DOMAIN nodes
  <2>1. ToSave = [j \in 1..Len(route) |-> ToSave[j]]
    BY <1>2 DEF ToSave
  <2> QED BY <1>1, <1>2, <2>1, ListMake
<1>4. ASSUME NEW j \in DOMAIN nodes
      PROVE  /\ ToSave[j] \in [plugin : Plugins, index : {ToSave[j].index}]
             /\ IsIndex(ToSave[j].index)
             /\ ToSave[j].plugin = nodes[j].plugin
             /\ \/ route[j].index # None /\ ToSave[j].index = route[j].index
                \/ /\ route[j].index = None
                   /\ \E k \in DOMAIN nodes : /\ nodes[k].nodeId = nodes[j].nodeId
                                              /\ ToSave[j].index = nodes[k].index
  <2>1. /\ route[j].plugin = nodes[j].plugin /\ route[j].nodeId = nodes[j].nodeId
        /\ route[j].plugin \in Plugins /\ (route[j].index = None \/ IsIndex(route[j].index))
    BY <1>1 DEF Alike, IsNodes
  <2>2. ToSave[j] = [plugin |-> route[j].plugin,
                     index  |-> IF route[j].index # None THEN route[j].index
                                ELSE IndexIn(nodes, route[j].nodeId)]
    BY <1>1 DEF ToSave
  <2>3. PICK k \in DOMAIN nodes : /\ nodes[k].nodeId = nodes[j].nodeId
                                  /\ IndexIn(nodes, nodes[j].nodeId) = nodes[k].index
                                  /\ IsIndex(nodes[k].index)
    BY <1>1, IndexInFacts DEF ShownNodes, Complete, IsNodes
  <2> QED BY <2>1, <2>2, <2>3
<1>5. IsRoute(ToSave)
  BY <1>3, <1>4 DEF IsRoute
<1> QED BY <1>1, <1>3, <1>4, <1>5

LEMMA TypeStep ==
  ASSUME TypeInv, [Next]_vars
  PROVE  TypeInv'
<1>1. ASSUME IsRoute(stored'), Page(route', nodes'), edits' \in 0..MaxEdits, churned' \in BOOLEAN
      PROVE  TypeInv'
  BY <1>1, RoutesAssumption
     DEF Page, TypeInv, TypeOK, Mirror, ShownNodes, Complete, IsNodes, Alike
<1>2. IsRoute(stored) /\ Page(route, nodes) /\ edits \in 0..MaxEdits /\ churned \in BOOLEAN
  BY TypeInvIs DEF Page
<1>3. CASE Edit
  <2>1. edits' \in 0..MaxEdits /\ stored' = stored
    BY <1>2, <1>3, DesignerAssumption DEF Edit
  <2>2. Page(route', nodes') /\ churned' \in BOOLEAN
    <3>1. CASE ClearPlugins
      BY <3>1, ClearPage DEF ClearPlugins
    <3>2. CASE \E p \in Known : AddNode(p)
      BY <1>2, <3>2, AddFacts DEF AddNode
    <3>3. CASE \E ps \in Patterns : SetNodes(ps)
      BY <3>3, SetFacts DEF SetNodes
    <3>4. CASE \E i \in DOMAIN nodes : RemoveNode(i)
      BY <3>4, RemoveFacts DEF RemoveNode
    <3>5. CASE \E i \in DOMAIN nodes : \E step \in Steps, up \in BOOLEAN : Swap(i, step, up)
      BY <1>2, <3>5, SwapPage DEF Swap
    <3> QED BY <1>3, <3>1, <3>2, <3>3, <3>4, <3>5 DEF Edit
  <2> QED BY <1>1, <1>2, <2>1, <2>2
<1>4. CASE Load
  BY <1>1, <1>2, <1>4, LoadFacts DEF Load, Page
<1>5. CASE SaveRoute
  BY <1>1, <1>2, <1>5, ToSaveFacts DEF SaveRoute
<1>6. CASE UNCHANGED vars
  BY <1>1, <1>2, <1>6 DEF vars
<1> QED BY <1>3, <1>4, <1>5, <1>6 DEF Next

LEMMA TypeHolds == Spec => []TypeInv
<1>1. Init => TypeInv
  <2> SUFFICES ASSUME Init PROVE TypeInv
    OBVIOUS
  <2>1. IsRoute(stored)
    BY RoutesAssumption DEF Init
  <2>2. route = LoadedRoute(stored) /\ nodes = LoadedNodes(stored) /\ edits = 0 /\ churned = FALSE
    BY DEF Init
  <2>3. 0 \in 0..MaxEdits
    BY DesignerAssumption
  <2> QED BY <2>1, <2>2, <2>3, LoadFacts, TypeInvIs
<1>2. TypeInv /\ [Next]_vars => TypeInv'
  BY TypeStep
<1> QED BY <1>1, <1>2, PTL DEF Spec

\* Every reachable state has its type: the route, the nodes and the stored route
\* are lists of plugins with indexes of the steps, and every node has one for each
\* of its steps.
THEOREM DesignerTypeCorrect == Spec => []TypeOK
<1>1. TypeInv => TypeOK
  BY DEF TypeInv
<1> QED BY <1>1, TypeHolds, PTL

\* The route that would be saved has the plugins that are shown, one for one.
THEOREM MirrorsTheRoute == Spec => []Mirror
<1>1. TypeInv => Mirror
  BY DEF TypeInv
<1> QED BY <1>1, TypeHolds, PTL

--------------------------------------------------------------------------------
(* Identifiers. *)

\* The nodes of the same plugin that come before a node.
Earlier(seq, i) == {j \in Same(seq, seq[i].plugin) : j < i}

\* A number for each node of a plugin, by how many come before it.
Numbered(seq) ==
    \A i \in DOMAIN seq :
        \/ seq[i].nodeId = <<seq[i].plugin, Cardinality(Earlier(seq, i)) + 1>>
        \/ Cardinality(Earlier(seq, i)) = 0 /\ seq[i].nodeId = <<seq[i].plugin, 0>>

IdInv ==
    /\ \A i \in DOMAIN nodes : nodes[i].nodeId[1] = nodes[i].plugin
    /\ ~churned => Numbered(nodes)

LEMMA EarlierType ==
  ASSUME NEW seq, seq \in Seq(ToSet(seq)), NEW i \in DOMAIN seq
  PROVE  IsFiniteSet(Earlier(seq, i)) /\ Cardinality(Earlier(seq, i)) \in Nat
<1>1. Earlier(seq, i) \in SUBSET DOMAIN seq
  BY DEF Earlier, Same
<1> QED BY <1>1, CountType

\* Of two nodes of a plugin the later one has more before it.
LEMMA EarlierGrows ==
  ASSUME NEW seq, seq \in Seq(ToSet(seq)), NEW i \in DOMAIN seq, NEW j \in DOMAIN seq,
         i < j, seq[i].plugin = seq[j].plugin
  PROVE  Cardinality(Earlier(seq, i)) < Cardinality(Earlier(seq, j))
<1> DEFINE A == Earlier(seq, i)
           B == Earlier(seq, j)
<1>1. i \in Nat /\ j \in Nat /\ DOMAIN seq \subseteq Nat
  BY ListIs
<1>2. A \subseteq B /\ i \in B /\ i \notin A
  BY <1>1 DEF Earlier, Same
<1>3. IsFiniteSet(B) /\ Cardinality(B) \in Nat /\ Cardinality(A) \in Nat
  BY EarlierType
<1> HIDE DEF A, B
<1>4. Cardinality(A) <= Cardinality(B) /\ Cardinality(A) # Cardinality(B)
  <2>1. A # B
    BY <1>2
  <2> QED BY <1>2, <1>3, <2>1, FS_Subset
<1>5. Cardinality(A) < Cardinality(B)
  BY <1>3, <1>4
<1> QED BY <1>5 DEF A, B

\* Numbered nodes have different identifiers.
LEMMA NumberedApart ==
  ASSUME NEW seq, seq \in Seq(ToSet(seq)), Numbered(seq), NEW i \in DOMAIN seq, NEW j \in DOMAIN seq,
         seq[i].nodeId = seq[j].nodeId
  PROVE  i = j
<1>1. ASSUME NEW k \in DOMAIN seq, NEW m \in DOMAIN seq, k < m PROVE seq[k].nodeId # seq[m].nodeId
  <2> DEFINE a == Cardinality(Earlier(seq, k))
             b == Cardinality(Earlier(seq, m))
  <2>1. a \in Nat /\ b \in Nat
    BY EarlierType
  <2>2. seq[k].plugin = seq[m].plugin => a < b
    BY <1>1, EarlierGrows
  <2>3. /\ seq[k].nodeId = <<seq[k].plugin, a + 1>> \/ (a = 0 /\ seq[k].nodeId = <<seq[k].plugin, 0>>)
        /\ seq[m].nodeId = <<seq[m].plugin, b + 1>> \/ (b = 0 /\ seq[m].nodeId = <<seq[m].plugin, 0>>)
    BY DEF Numbered
  <2> HIDE DEF a, b
  <2> QED BY <2>1, <2>2, <2>3
<1>2. i \in Nat /\ j \in Nat
  BY ListIs
<1> QED BY <1>1, <1>2

LEMMA LoadedNumbered ==
  ASSUME NEW seq, IsRoute(seq)
  PROVE  /\ Numbered(LoadedNodes(seq))
         /\ \A i \in DOMAIN LoadedNodes(seq) :
               LoadedNodes(seq)[i].nodeId[1] = LoadedNodes(seq)[i].plugin
<1> DEFINE L == LoadedNodes(seq)
<1>1. /\ DOMAIN L = DOMAIN seq
      /\ \A i \in DOMAIN seq : L[i].plugin = seq[i].plugin /\ L[i].nodeId = LoadedId(seq, i)
  BY LoadFacts
<1> HIDE DEF L
<1>2. ASSUME NEW i \in DOMAIN seq
      PROVE  /\ \/ L[i].nodeId = <<L[i].plugin, Cardinality(Earlier(L, i)) + 1>>
                \/ Cardinality(Earlier(L, i)) = 0 /\ L[i].nodeId = <<L[i].plugin, 0>>
             /\ L[i].nodeId[1] = L[i].plugin
  <2>1. Earlier(L, i) = Earlier(seq, i)
    BY <1>1 DEF Earlier, Same
  <2>2. L[i].nodeId = <<L[i].plugin, IF Earlier(L, i) = {} THEN 0 ELSE Cardinality(Earlier(L, i)) + 1>>
    BY <1>1, <2>1 DEF LoadedId, Earlier
  <2> QED BY <2>2, FS_EmptySet
<1> QED BY <1>1, <1>2 DEF Numbered, L

LEMMA AddNumbered ==
  ASSUME TypeInv, NEW p \in Known, AddNode(p)
  PROVE  /\ Numbered(nodes) => Numbered(nodes')
         /\ (\A i \in DOMAIN nodes : nodes[i].nodeId[1] = nodes[i].plugin)
            => \A i \in DOMAIN nodes' : nodes'[i].nodeId[1] = nodes'[i].plugin
<1> DEFINE n == Len(nodes)
<1>1. /\ n \in Nat /\ DOMAIN nodes = 1..n /\ DOMAIN nodes' = 1..(n + 1)
      /\ \A i \in 1..n : nodes'[i] = nodes[i]
      /\ nodes'[n + 1].plugin = p /\ nodes'[n + 1].nodeId = NewId(p)
  BY AddFacts
<1> HIDE DEF n
<1>2. \A i \in 1..n : Earlier(nodes', i) = Earlier(nodes, i)
  BY <1>1 DEF Earlier, Same
<1>3. Earlier(nodes', n + 1) = Same(nodes, p)
  BY <1>1 DEF Earlier, Same
<1>4. nodes'[n + 1].nodeId = <<p, Cardinality(Earlier(nodes', n + 1)) + 1>>
  BY <1>1, <1>3 DEF NewId
<1>5. \A i \in 1..(n + 1) : i \in 1..n \/ i = n + 1
  BY <1>1
<1>6. Numbered(nodes) => Numbered(nodes')
  BY <1>1, <1>2, <1>4, <1>5 DEF Numbered
<1>7. nodes'[n + 1].nodeId[1] = p
  BY <1>4
<1> QED BY <1>1, <1>5, <1>6, <1>7

\* Identifiers name plugins, and are numbered until nodes are removed or replaced.
LEMMA IdStep ==
  ASSUME TypeInv, IdInv, [Next]_vars
  PROVE  IdInv'
<1>1. CASE Edit
  <2>1. CASE ClearPlugins
    BY <2>1 DEF ClearPlugins, IdInv
  <2>2. CASE \E p \in Known : AddNode(p)
    BY <2>2, AddNumbered DEF AddNode, IdInv
  <2>3. CASE \E ps \in Patterns : SetNodes(ps)
    BY <2>3, SetFacts DEF SetNodes, IdInv
  <2>4. ASSUME NEW i \in DOMAIN nodes, RemoveNode(i) PROVE IdInv'
    <3>1. PICK at \in [DOMAIN nodes' -> DOMAIN nodes] : \A n \in DOMAIN nodes' : nodes'[n] = nodes[at[n]]
      BY <2>4, RemoveFacts
    <3> QED BY <2>4, <3>1 DEF RemoveNode, IdInv
  <2>5. ASSUME NEW i \in DOMAIN nodes, NEW step \in Steps, NEW up \in BOOLEAN, Swap(i, step, up)
        PROVE  IdInv'
    <3>1. /\ DOMAIN nodes' = DOMAIN nodes /\ churned' = churned
          /\ \A j \in DOMAIN nodes : nodes'[j].plugin = nodes[j].plugin /\ nodes'[j].nodeId = nodes[j].nodeId
      BY <2>5, SwapFacts DEF Swap
    <3>2. \A j \in DOMAIN nodes : Earlier(nodes', j) = Earlier(nodes, j)
      BY <3>1 DEF Earlier, Same
    <3> QED BY <3>1, <3>2 DEF IdInv, Numbered
  <2> QED BY <1>1, <2>1, <2>2, <2>3, <2>4, <2>5 DEF Edit
<1>2. CASE Load
  <2>1. nodes' = LoadedNodes(stored) /\ IsRoute(stored)
    BY <1>2, TypeInvIs DEF Load
  <2> QED BY <2>1, LoadedNumbered DEF IdInv
<1>3. CASE UNCHANGED <<nodes, churned>>
  BY <1>3 DEF IdInv, Numbered, Earlier, Same
<1> QED BY <1>1, <1>2, <1>3 DEF Next, SaveRoute, vars

LEMMA IdHolds == Spec => []IdInv
<1>1. Init => IdInv
  <2> SUFFICES ASSUME Init PROVE IdInv
    OBVIOUS
  <2>1. nodes = LoadedNodes(stored) /\ IsRoute(stored)
    BY RoutesAssumption DEF Init
  <2> QED BY <2>1, LoadedNumbered DEF IdInv
<1>2. TypeInv /\ IdInv /\ [Next]_vars => IdInv'
  BY IdStep
<1> QED BY <1>1, <1>2, TypeHolds, PTL DEF Spec

\* No two nodes have the same identifier until a plugin is removed or the plugins are
\* replaced: generateInternalNodeId and generateNewInternalNodeId do not meet.
THEOREM DistinctIds == Spec => []DistinctUntilChurned
<1>1. TypeInv /\ IdInv => DistinctUntilChurned
  <2> SUFFICES ASSUME TypeInv, IdInv, ~churned, NEW i \in DOMAIN nodes, NEW j \in DOMAIN nodes,
                      nodes[i].nodeId = nodes[j].nodeId
               PROVE  i = j
    BY DEF DistinctUntilChurned
  <2>1. nodes \in Seq(ToSet(nodes)) /\ Numbered(nodes)
    BY TypeInvIs DEF IdInv, ShownNodes, Complete, IsNodes
  <2> QED BY <2>1, NumberedApart
<1> QED BY <1>1, TypeHolds, IdHolds, PTL

--------------------------------------------------------------------------------
(* Indexes of the route and of the nodes. *)

\* Another node has the identifier of this one.
Twin(i) == \E j \in DOMAIN nodes : j # i /\ nodes[j].nodeId = nodes[i].nodeId

\* The route has an index for each step of the plugin.
Settled(i) == /\ nodes[i].plugin \in Known
              /\ route[i].index # None
              /\ StepsOf[nodes[i].plugin] \subseteq DOMAIN route[i].index

\* An unknown plugin has no index on the page.  What the route has is what the node
\* has, unless it lacks a step or another node has the same identifier.
Match(i) ==
    /\ nodes[i].plugin \notin Known => nodes[i].index = Empty
    /\ Settled(i) => route[i].index = nodes[i].index \/ Twin(i)

MatchInv == \A i \in DOMAIN nodes : Match(i)

LEMMA LoadMatch ==
  ASSUME NEW seq, IsRoute(seq), NEW i \in DOMAIN LoadedNodes(seq)
  PROVE  /\ LoadedNodes(seq)[i].plugin \notin Known => LoadedNodes(seq)[i].index = Empty
         /\ /\ LoadedNodes(seq)[i].plugin \in Known
            /\ LoadedRoute(seq)[i].index # None
            /\ StepsOf[LoadedNodes(seq)[i].plugin] \subseteq DOMAIN LoadedRoute(seq)[i].index
            => LoadedRoute(seq)[i].index = LoadedNodes(seq)[i].index
BY LoadFacts DEF NodeSteps, IndexOf

LEMMA MatchStep ==
  ASSUME TypeInv, IdInv, MatchInv, [Next]_vars
  PROVE  MatchInv'
<1>1. ASSUME NEW p \in Known, AddNode(p) PROVE MatchInv'
  <2>1. PICK n \in Nat :
           /\ DOMAIN nodes = 1..n /\ DOMAIN nodes' = 1..(n + 1)
           /\ \A i \in 1..n : nodes'[i] = nodes[i] /\ route'[i] = route[i]
           /\ nodes'[n + 1].plugin = p /\ route'[n + 1] = nodes'[n + 1]
    BY <1>1, AddFacts
  <2>2. \A i \in 1..n : Match(i) /\ (Twin(i) => Twin(i)') /\ (Settled(i)' <=> Settled(i))
    BY <2>1 DEF MatchInv, Twin, Settled
  <2>3. \A i \in 1..n : Match(i)'
    BY <2>1, <2>2 DEF Match
  <2>4. Match(n + 1)'
    BY <2>1 DEF Match
  <2>5. \A i \in 1..(n + 1) : i \in 1..n \/ i = n + 1
    BY <2>1
  <2> QED BY <2>1, <2>3, <2>4, <2>5 DEF MatchInv
<1>2. ASSUME NEW i \in DOMAIN nodes, RemoveNode(i) PROVE MatchInv'
  <2>1. PICK at \in [DOMAIN nodes' -> DOMAIN nodes] :
           /\ \A n \in DOMAIN nodes' : /\ nodes[at[n]].nodeId # nodes[i].nodeId
                                       /\ nodes'[n] = nodes[at[n]] /\ route'[n] = route[at[n]]
           /\ \A j \in DOMAIN nodes : nodes[j].nodeId # nodes[i].nodeId
                                         => \E n \in DOMAIN nodes' : at[n] = j
    BY <1>2, RemoveFacts
  <2> SUFFICES ASSUME NEW n \in DOMAIN nodes' PROVE Match(n)'
    BY DEF MatchInv
  <2>2. /\ Match(at[n]) /\ at[n] \in DOMAIN nodes
        /\ nodes'[n] = nodes[at[n]] /\ route'[n] = route[at[n]] /\ nodes[at[n]].nodeId # nodes[i].nodeId
    BY <2>1 DEF MatchInv
  <2>3. Twin(at[n]) => Twin(n)'
    <3> SUFFICES ASSUME NEW j \in DOMAIN nodes, j # at[n], nodes[j].nodeId = nodes[at[n]].nodeId
                 PROVE  Twin(n)'
      BY DEF Twin
    <3>1. PICK m \in DOMAIN nodes' : at[m] = j
      BY <2>1, <2>2
    <3> QED BY <2>1, <2>2, <3>1 DEF Twin
  <2> QED BY <2>2, <2>3 DEF Match, Settled
<1>3. ASSUME NEW i \in DOMAIN nodes, NEW step \in Steps, NEW up \in BOOLEAN, Swap(i, step, up)
      PROVE  MatchInv'
  <2>1. /\ DOMAIN nodes' = DOMAIN nodes
        /\ \A j \in DOMAIN nodes :
              /\ nodes'[j].plugin = nodes[j].plugin /\ nodes'[j].nodeId = nodes[j].nodeId
              /\ \/ nodes'[j] = nodes[j]
                 \/ \E k \in DOMAIN nodes : nodes[k].nodeId = nodes[j].nodeId /\ step \in DOMAIN nodes[k].index
              /\ \E k \in DOMAIN nodes : /\ nodes[k].nodeId = nodes[j].nodeId
                                         /\ route'[j].index = nodes'[k].index
    BY <1>3, SwapFacts
  <2> SUFFICES ASSUME NEW j \in DOMAIN nodes PROVE Match(j)'
    BY <2>1 DEF MatchInv
  <2>2. nodes'[j].plugin \notin Known => nodes'[j].index = Empty
    <3> SUFFICES ASSUME nodes[j].plugin \notin Known PROVE nodes'[j].index = Empty
      BY <2>1
    <3>1. nodes[j].index = Empty
      BY DEF MatchInv, Match
    <3>2. ASSUME NEW k \in DOMAIN nodes, nodes[k].nodeId = nodes[j].nodeId
          PROVE  step \notin DOMAIN nodes[k].index
      <4>1. nodes[k].plugin = nodes[j].plugin
        BY <3>2 DEF IdInv
      <4>2. nodes[k].index = Empty
        BY <4>1 DEF MatchInv, Match
      <4> QED BY <4>2, EmptyIndex
    <3> QED BY <2>1, <3>1, <3>2
  <2>3. route'[j].index = nodes'[j].index \/ Twin(j)'
    BY <2>1 DEF Twin
  <2> QED BY <2>2, <2>3 DEF Match
<1>4. CASE Edit
  <2>1. CASE ClearPlugins
    BY <2>1 DEF ClearPlugins, MatchInv
  <2>2. CASE \E ps \in Patterns : SetNodes(ps)
    BY <2>2, SetFacts DEF MatchInv, Match
  <2> QED BY <1>1, <1>2, <1>3, <1>4, <2>1, <2>2 DEF Edit
<1>5. CASE Load
  <2>1. nodes' = LoadedNodes(stored) /\ route' = LoadedRoute(stored) /\ IsRoute(stored)
    BY <1>5, TypeInvIs DEF Load
  <2> QED BY <2>1, LoadMatch DEF MatchInv, Match, Settled
<1>6. CASE UNCHANGED <<nodes, route>>
  BY <1>6 DEF MatchInv, Match, Settled, Twin
<1> QED BY <1>4, <1>5, <1>6 DEF Next, SaveRoute, vars

LEMMA MatchHolds == Spec => []MatchInv
<1>1. Init => MatchInv
  <2> SUFFICES ASSUME Init PROVE MatchInv
    OBVIOUS
  <2>1. nodes = LoadedNodes(stored) /\ route = LoadedRoute(stored) /\ IsRoute(stored)
    BY RoutesAssumption DEF Init
  <2> QED BY <2>1, LoadMatch DEF MatchInv, Match, Settled
<1>2. TypeInv /\ IdInv /\ MatchInv /\ [Next]_vars => MatchInv'
  BY MatchStep
<1> QED BY <1>1, <1>2, TypeHolds, IdHolds, PTL DEF Spec

--------------------------------------------------------------------------------
(* Plugins that the UI has no form for. *)

\* A plugin of the stored route is where it was, and one that is unknown has its index or
\* an empty one.
Kept(seq, i) ==
    /\ i \in DOMAIN nodes
    /\ nodes[i].plugin = seq[i].plugin
    /\ seq[i].plugin \notin Known => IndexOf(route[i]) \in {IndexOf(seq[i]), Empty}

KeptInv == ~churned => \A i \in DOMAIN stored : Kept(stored, i)

LEMMA KeptStep ==
  ASSUME TypeInv, IdInv, MatchInv, KeptInv, [Next]_vars
  PROVE  KeptInv'
<1>1. ASSUME NEW p \in Known, AddNode(p), stored' = stored PROVE KeptInv'
  <2>1. PICK n \in Nat : /\ DOMAIN nodes = 1..n /\ DOMAIN nodes' = 1..(n + 1)
                         /\ \A i \in 1..n : nodes'[i] = nodes[i] /\ route'[i] = route[i]
    BY <1>1, AddFacts
  <2>2. churned' = churned
    BY <1>1 DEF AddNode
  <2> SUFFICES ASSUME ~churned, NEW i \in DOMAIN stored PROVE Kept(stored, i)'
    BY <1>1, <2>2 DEF KeptInv
  <2>3. Kept(stored, i)
    BY DEF KeptInv
  <2>4. i \in 1..n /\ i \in 1..(n + 1) /\ nodes'[i] = nodes[i] /\ IndexOf(route'[i]) = IndexOf(route[i])
    BY <2>1, <2>3 DEF Kept
  <2> QED BY <1>1, <2>1, <2>3, <2>4 DEF Kept, IndexOf
<1>2. ASSUME NEW k \in DOMAIN nodes, NEW step \in Steps, NEW up \in BOOLEAN, Swap(k, step, up),
             stored' = stored
      PROVE  KeptInv'
  <2>1. /\ DOMAIN nodes' = DOMAIN nodes
        /\ \A j \in DOMAIN nodes :
              /\ nodes'[j].plugin = nodes[j].plugin
              /\ \E m \in DOMAIN nodes : /\ nodes[m].nodeId = nodes[j].nodeId
                                         /\ route'[j].index = nodes'[m].index
    BY <1>2, SwapFacts
  <2>2. churned' = churned
    BY <1>2 DEF Swap
  <2>3. MatchInv'
    BY MatchStep
  <2> SUFFICES ASSUME ~churned, NEW i \in DOMAIN stored PROVE Kept(stored, i)'
    BY <1>2, <2>2 DEF KeptInv
  <2>4. i \in DOMAIN nodes /\ nodes[i].plugin = stored[i].plugin
    BY DEF KeptInv, Kept
  <2>5. ASSUME stored[i].plugin \notin Known PROVE IndexOf(route'[i]) = Empty
    <3>1. PICK m \in DOMAIN nodes : /\ nodes[m].nodeId = nodes[i].nodeId
                                    /\ route'[i].index = nodes'[m].index
      BY <2>1, <2>4
    <3>2. nodes'[m].plugin = stored[i].plugin
      BY <2>1, <2>4, <3>1 DEF IdInv
    <3>3. nodes'[m].index = Empty
      BY <2>1, <2>3, <2>5, <3>2 DEF MatchInv, Match
    <3> QED BY <3>1, <3>3, EmptyIndex DEF IndexOf
  <2> QED BY <1>2, <2>1, <2>4, <2>5 DEF Kept, IndexOf
<1>3. CASE Edit
  <2>1. ASSUME churned' = TRUE PROVE KeptInv'
    BY <2>1 DEF KeptInv
  <2>2. CASE ClearPlugins \/ (\E ps \in Patterns : SetNodes(ps)) \/ \E i \in DOMAIN nodes : RemoveNode(i)
    BY <2>1, <2>2 DEF ClearPlugins, SetNodes, RemoveNode
  <2> QED BY <1>1, <1>2, <1>3, <2>2 DEF Edit
<1>4. CASE Load
  <2>1. stored' = stored /\ route' = LoadedRoute(stored) /\ nodes' = LoadedNodes(stored)
    BY <1>4 DEF Load
  <2> SUFFICES ASSUME NEW i \in DOMAIN stored PROVE Kept(stored, i)'
    BY <2>1 DEF KeptInv
  <2>2. /\ i \in DOMAIN nodes' /\ nodes'[i].plugin = stored[i].plugin
        /\ route'[i].index = stored[i].index
    BY <2>1, TypeInvIs, LoadFacts
  <2> QED BY <2>1, <2>2 DEF Kept, IndexOf
<1>5. CASE SaveRoute
  <2>1. stored' = ToSave /\ route' = route /\ nodes' = nodes
    BY <1>5 DEF SaveRoute
  <2> SUFFICES ASSUME NEW i \in DOMAIN ToSave PROVE Kept(stored, i)'
    BY <2>1 DEF KeptInv
  <2>2. /\ i \in DOMAIN nodes /\ nodes[i].plugin = ToSave[i].plugin
        /\ route[i].index = None \/ ToSave[i].index = route[i].index
    BY ToSaveFacts
  <2>3. IndexOf(route[i]) \in {IndexOf(ToSave[i]), Empty}
    BY <2>2 DEF IndexOf
  <2> HIDE DEF ToSave
  <2> QED BY <2>1, <2>2, <2>3 DEF Kept, IndexOf
<1>6. CASE UNCHANGED vars
  BY <1>6 DEF vars, KeptInv, Kept, IndexOf
<1> QED BY <1>3, <1>4, <1>5, <1>6 DEF Next

\* A plugin that the UI does not know is saved with the index that it had, or with none, never
\* with that of a plugin that was moved: loadData gives its node no index, so that it is in no step.
THEOREM UnknownStays == Spec => []UnknownKeepsItsPlace
<1>1. Init => KeptInv
  <2> SUFFICES ASSUME Init, NEW i \in DOMAIN stored PROVE Kept(stored, i)
    BY DEF KeptInv
  <2>1. nodes = LoadedNodes(stored) /\ route = LoadedRoute(stored) /\ IsRoute(stored)
    BY RoutesAssumption DEF Init
  <2>2. /\ i \in DOMAIN nodes /\ nodes[i].plugin = stored[i].plugin
        /\ route[i].index = stored[i].index
    BY <2>1, LoadFacts
  <2> QED BY <2>2 DEF Kept, IndexOf
<1>2. TypeInv /\ IdInv /\ MatchInv /\ KeptInv /\ [Next]_vars => KeptInv'
  BY KeptStep
<1>3. TypeInv /\ IdInv /\ MatchInv /\ KeptInv => UnknownKeepsItsPlace
  <2> SUFFICES ASSUME TypeInv, IdInv, MatchInv, KeptInv, ~churned, NEW i \in DOMAIN stored,
                      stored[i].plugin \notin Known
               PROVE  IndexOf(ToSave[i]) \in {IndexOf(stored[i]), Empty}
    BY DEF UnknownKeepsItsPlace
  <2>1. /\ i \in DOMAIN nodes /\ nodes[i].plugin = stored[i].plugin
        /\ IndexOf(route[i]) \in {IndexOf(stored[i]), Empty}
    BY DEF KeptInv, Kept
  <2>2. CASE route[i].index # None /\ ToSave[i].index = route[i].index
    <3>1. IndexOf(ToSave[i]) = IndexOf(route[i])
      BY <2>2 DEF IndexOf
    <3> QED BY <2>1, <3>1
  <2>3. CASE \E k \in DOMAIN nodes : nodes[k].nodeId = nodes[i].nodeId /\ ToSave[i].index = nodes[k].index
    <3>1. PICK k \in DOMAIN nodes : nodes[k].nodeId = nodes[i].nodeId /\ ToSave[i].index = nodes[k].index
      BY <2>3
    <3>2. nodes[k].index = Empty
      BY <2>1, <3>1 DEF IdInv, MatchInv, Match
    <3> HIDE DEF ToSave
    <3>3. IndexOf(ToSave[i]) = Empty
      BY <3>1, <3>2, EmptyIndex DEF IndexOf
    <3> QED BY <3>3
  <2> QED BY <2>1, <2>2, <2>3, ToSaveFacts
<1> QED BY <1>1, <1>2, <1>3, TypeHolds, IdHolds, MatchHolds, PTL DEF Spec

--------------------------------------------------------------------------------
(* Order. *)

\* Saved and loaded again, the nodes have the indexes that they had.
LEMMA SavedIndexes ==
  ASSUME TypeInv, MatchInv, Whole, Distinct, NEW i \in DOMAIN nodes, nodes[i].plugin \in Known
  PROVE  ToSave[i].index = nodes[i].index
<1>1. ~Twin(i)
  BY DEF Twin, Distinct
<1>2. CASE route[i].index = None
  <2>1. PICK k \in DOMAIN nodes : nodes[k].nodeId = nodes[i].nodeId /\ ToSave[i].index = nodes[k].index
    BY <1>2, ToSaveFacts
  <2> QED BY <2>1 DEF Distinct
<1>3. CASE route[i].index # None
  <2>1. ToSave[i].index = route[i].index
    BY <1>3, ToSaveFacts
  <2>2. Settled(i)
    BY <1>3, ToSaveFacts, TypeInvIs DEF Whole, Settled, Alike
  <2> QED BY <1>1, <2>1, <2>2 DEF MatchInv, Match
<1> QED BY <1>2, <1>3

LEMMA LoadedIndexes ==
  ASSUME TypeInv, MatchInv, Whole, Distinct
  PROVE  /\ DOMAIN LoadedNodes(ToSave) = DOMAIN nodes
         /\ \A i \in DOMAIN nodes : LoadedNodes(ToSave)[i].index = nodes[i].index
         /\ Complete(LoadedNodes(ToSave))
<1>1. IsRoute(ToSave) /\ DOMAIN ToSave = DOMAIN nodes
  BY ToSaveFacts
<1>2. DOMAIN LoadedNodes(ToSave) = DOMAIN nodes /\ Complete(LoadedNodes(ToSave))
  BY <1>1, LoadFacts DEF ShownNodes
<1>3. ASSUME NEW i \in DOMAIN nodes PROVE LoadedNodes(ToSave)[i].index = nodes[i].index
  <2> DEFINE index == IF ToSave[i].plugin \in Known THEN IndexOf(ToSave[i]) ELSE Empty
  <2>1. ToSave[i].plugin = nodes[i].plugin
    BY ToSaveFacts
  <2>2. NodeSteps(nodes[i].plugin) \subseteq DOMAIN nodes[i].index /\ IsIndex(nodes[i].index)
    BY TypeInvIs DEF ShownNodes, Complete
  <2>3. index = nodes[i].index
    <3>1. CASE nodes[i].plugin \in Known
      <4>1. ToSave[i].index = nodes[i].index /\ nodes[i].index # None
        BY <2>2, <3>1, SavedIndexes, RoutesAssumption
      <4> QED BY <2>1, <3>1, <4>1 DEF IndexOf
    <3>2. CASE nodes[i].plugin \notin Known
      BY <2>1, <3>2 DEF MatchInv, Match
    <3> QED BY <3>1, <3>2
  <2>4. NodeSteps(ToSave[i].plugin) \subseteq DOMAIN index => LoadedNodes(ToSave)[i].index = index
    BY <1>1, LoadFacts
  <2> HIDE DEF index
  <2> QED BY <2>1, <2>2, <2>3, <2>4
<1> QED BY <1>2, <1>3

\* Lists with the same indexes are shown in the same order.
LEMMA SameShown ==
  ASSUME NEW seq, NEW other, Complete(seq), Complete(other), DOMAIN seq = DOMAIN other,
         \A i \in DOMAIN seq : seq[i].index = other[i].index, NEW step
  PROVE  Shown(seq, step) = Shown(other, step)
<1> DEFINE P == Indexed(seq, step)
<1>1. P = {i \in DOMAIN seq : step \in DOMAIN seq[i].index} /\ P = Indexed(other, step)
  <2>1. P = {i \in DOMAIN seq : step \in DOMAIN seq[i].index}
    BY IndexedFacts
  <2>2. Indexed(other, step) = {i \in DOMAIN other : step \in DOMAIN other[i].index}
    BY IndexedFacts
  <2> QED BY <2>1, <2>2
<1> HIDE DEF P
<1>2. \A i, j \in P : ShownBefore(seq, step, j, i) <=> ShownBefore(other, step, j, i)
  BY <1>1 DEF ShownBefore
<1>3. [i \in P |-> {j \in P : ShownBefore(seq, step, j, i)}]
         = [i \in P |-> {j \in P : ShownBefore(other, step, j, i)}]
  BY <1>2
<1> QED BY <1>1, <1>3 DEF Shown, ByShown, P

\* Saved and opened again, the page shows the same plugins in the same order, unless
\* a saved plugin had an index for some of its steps or two nodes the same identifier.
THEOREM ReloadsInOrder == Spec => []ReloadsAsShown
<1>1. TypeInv /\ MatchInv => ReloadsAsShown
  <2> SUFFICES ASSUME TypeInv, MatchInv, Whole, Distinct, NEW step \in Steps
               PROVE  Shown(LoadedNodes(ToSave), step) = Shown(nodes, step)
    BY DEF ReloadsAsShown
  <2>1. Complete(nodes)
    BY TypeInvIs DEF ShownNodes
  <2> QED BY <2>1, LoadedIndexes, SameShown
<1> QED BY <1>1, TypeHolds, MatchHolds, PTL

\* Of two lists one after the other, what is in one of them only keeps its order.
LEMMA AfterFacts ==
  ASSUME NEW A \in Seq(Nat), NEW B \in Seq(Nat), NEW i, NEW j
  PROVE  /\ A \o B \in Seq(Nat) /\ ToSet(A \o B) = ToSet(A) \cup ToSet(B)
         /\ {i, j} \cap ToSet(B) = {} => (Precedes(A \o B, i, j) <=> Precedes(A, i, j))
         /\ {i, j} \cap ToSet(A) = {} => (Precedes(A \o B, i, j) <=> Precedes(B, i, j))
<1> DEFINE C == A \o B
           a == Len(A)
           b == Len(B)
<1>1. /\ C \in Seq(Nat) /\ a \in Nat /\ b \in Nat
      /\ DOMAIN A = 1..a /\ DOMAIN B = 1..b /\ DOMAIN C = 1..(a + b)
      /\ \A n \in 1..a : C[n] = A[n]
      /\ \A n \in 1..b : C[a + n] = B[n]
  OBVIOUS
<1> HIDE DEF a, b, C
<1>2. ASSUME NEW n \in DOMAIN C PROVE n \in DOMAIN A \/ (n - a \in DOMAIN B /\ C[n] = B[n - a])
  <2>1. CASE n <= a
    BY <1>1, <2>1
  <2>2. CASE n > a
    <3>1. n - a \in 1..b /\ a + (n - a) = n
      BY <1>1, <2>2
    <3> QED BY <1>1, <3>1
  <2> QED BY <1>1, <2>1, <2>2
<1>3. ASSUME NEW n \in DOMAIN A PROVE n \in DOMAIN C /\ C[n] = A[n]
  BY <1>1
<1>4. ASSUME NEW n \in DOMAIN B PROVE a + n \in DOMAIN C /\ C[a + n] = B[n]
  BY <1>1
<1>5. ToSet(C) = ToSet(A) \cup ToSet(B)
  BY <1>2, <1>3, <1>4 DEF ToSet
<1>6. ASSUME {i, j} \cap ToSet(B) = {} PROVE Precedes(C, i, j) <=> Precedes(A, i, j)
  <2>1. \A n \in DOMAIN B : B[n] # i /\ B[n] # j
    BY <1>6 DEF ToSet
  <2>2. \A n \in DOMAIN C : C[n] = i \/ C[n] = j => n \in DOMAIN A
    BY <1>2, <2>1
  <2> QED BY <1>3, <2>2 DEF Precedes
<1>7. ASSUME {i, j} \cap ToSet(A) = {} PROVE Precedes(C, i, j) <=> Precedes(B, i, j)
  <2>1. \A n \in DOMAIN A : A[n] # i /\ A[n] # j
    BY <1>7 DEF ToSet
  <2>2. \A n \in DOMAIN C : C[n] = i \/ C[n] = j => n - a \in DOMAIN B /\ C[n] = B[n - a]
    BY <1>2, <1>3, <2>1
  <2>3. ASSUME Precedes(C, i, j) PROVE Precedes(B, i, j)
    <3>1. PICK m \in DOMAIN C, n \in DOMAIN C : m < n /\ C[m] = i /\ C[n] = j
      BY <2>3 DEF Precedes
    <3>2. m - a \in DOMAIN B /\ n - a \in DOMAIN B /\ B[m - a] = i /\ B[n - a] = j
      BY <2>2, <3>1
    <3>3. m - a < n - a
      BY <1>1, <3>1
    <3> QED BY <3>2, <3>3 DEF Precedes
  <2>4. ASSUME Precedes(B, i, j) PROVE Precedes(C, i, j)
    <3>1. PICK m \in DOMAIN B, n \in DOMAIN B : m < n /\ B[m] = i /\ B[n] = j
      BY <2>4 DEF Precedes
    <3>2. a + m < a + n
      BY <1>1, <3>1
    <3> QED BY <1>4, <3>1, <3>2 DEF Precedes
  <2> QED BY <2>3, <2>4
<1> QED BY <1>1, <1>5, <1>6, <1>7 DEF C

\* A list of the members of P in the order of a step.
Ordered(list, P, seq, step) ==
    /\ list \in Seq(Nat) /\ ToSet(list) = P
    /\ \A m, n \in DOMAIN list : m < n <=> Comes(seq, step, list[m], list[n])

LEMMA OrderedPrecedes ==
  ASSUME NEW list, NEW P, NEW seq, NEW step, Ordered(list, P, seq, step), NEW i \in P, NEW j \in P
  PROVE  Precedes(list, i, j) <=> Comes(seq, step, i, j)
BY DEF Ordered, Precedes, ToSet

\* A list that has each member of P, and nothing else.
LEMMA ListOf ==
  ASSUME NEW n \in Nat, NEW P \in SUBSET Nat, NEW l \in [1..n -> P], \A i \in P : \E m \in 1..n : l[m] = i
  PROVE  l \in Seq(Nat) /\ ToSet(l) = P /\ DOMAIN l = 1..n
<1>1. l \in [1..n -> Nat] /\ DOMAIN l = 1..n
  OBVIOUS
<1>2. l \in Seq(Nat)
  BY <1>1
<1>3. \A i : i \in ToSet(l) <=> i \in P
  BY <1>1 DEF ToSet
<1> QED BY <1>1, <1>2, <1>3

\* The lists of the engine.
LEMMA EngineLists ==
  ASSUME NEW seq, seq \in Seq(ToSet(seq)), NEW P \in SUBSET DOMAIN seq, NEW step
  PROVE  /\ InOrder(P) \in Seq(Nat) /\ ToSet(InOrder(P)) = P
         /\ (\A i \in P : seq[i].index[step] \in Nat) => Ordered(ByIndex(seq, P, step), P, seq, step)
<1>1. P \in SUBSET Nat /\ IsFiniteSet(P)
  BY ListIs, CountType
<1>2. InOrder(P) \in Seq(Nat) /\ ToSet(InOrder(P)) = P
  <2>1. /\ Cardinality(P) \in Nat /\ InOrder(P) \in [1..Cardinality(P) -> P]
        /\ \A i \in P : \E n \in 1..Cardinality(P) : InOrder(P)[n] = i
    BY <1>1, InOrderFacts
  <2> QED BY <1>1, <2>1, ListOf
<1>3. ASSUME \A i \in P : seq[i].index[step] \in Nat
      PROVE  Ordered(ByIndex(seq, P, step), P, seq, step)
  <2> DEFINE l == ByIndex(seq, P, step)
  <2>1. /\ Cardinality(P) \in Nat /\ l \in [1..Cardinality(P) -> P]
        /\ \A i \in P : \E n \in 1..Cardinality(P) : l[n] = i
        /\ \A m, n \in 1..Cardinality(P) : m < n <=> Comes(seq, step, l[m], l[n])
    BY <1>1, <1>3, ByIndexFacts
  <2> HIDE DEF l
  <2>2. l \in Seq(Nat) /\ ToSet(l) = P /\ DOMAIN l = 1..Cardinality(P)
    BY <1>1, <2>1, ListOf
  <2>3. Ordered(l, P, seq, step)
    BY <2>1, <2>2 DEF Ordered
  <2> QED BY <2>3 DEF l
<1> QED BY <1>2, <1>3

\* The engine runs the plugins that have an index for a step in the order of the step,
\* the plugins of the response if none of them is one of the request.
LEMMA RunsInOrder ==
  ASSUME NEW seq, IsRoute(seq), NEW step \in Steps,
         step = Response => For(seq, Request) \cap For(seq, Response) = {}
  PROVE  LET X == For(seq, step) \cap Indexed(seq, step)
         IN  /\ X \subseteq ToSet(Runs(seq, step))
             /\ \A i, j \in X : Precedes(Runs(seq, step), i, j) <=> Comes(seq, step, i, j)
<1> DEFINE X == For(seq, step) \cap Indexed(seq, step)
<1>1. seq \in Seq(ToSet(seq)) /\ \A s : For(seq, s) \in SUBSET DOMAIN seq
  BY DEF IsRoute, For
<1>2. ASSUME NEW s, NEW i \in Indexed(seq, s) PROVE seq[i].index[s] \in Nat
  <2>1. i \in DOMAIN seq /\ s \in DOMAIN IndexOf(seq[i])
    BY <1>2 DEF Indexed
  <2>2. seq[i].index # None /\ IndexOf(seq[i]) = seq[i].index
    BY <2>1, EmptyIndex DEF IndexOf
  <2>3. IsIndex(seq[i].index)
    BY <2>1, <2>2 DEF IsRoute
  <2> QED BY <2>1, <2>2, <2>3, IndexIs
<1>3. ASSUME NEW s, NEW P \in SUBSET DOMAIN seq, P \subseteq Indexed(seq, s)
      PROVE  Ordered(ByIndex(seq, P, s), P, seq, s)
  BY <1>1, <1>2, <1>3, EngineLists
<1>4. X \in SUBSET DOMAIN seq
  BY <1>1
<1>5. Ordered(ByIndex(seq, X, step), X, seq, step)
  BY <1>3, <1>4
<1> SUFFICES ASSUME NEW i \in X, NEW j \in X
             PROVE  /\ i \in ToSet(Runs(seq, step))
                    /\ Precedes(Runs(seq, step), i, j) <=> Comes(seq, step, i, j)
  OBVIOUS
<1>6. CASE step \notin {Request, Response}
  <2> DEFINE A == ByIndex(seq, X, step)
             Q == For(seq, step) \ X
             B == InOrder(Q)
  <2>1. Runs(seq, step) = A \o B
    BY <1>6 DEF Runs, Listed
  <2>2. B \in Seq(Nat) /\ ToSet(B) = Q
    <3>1. Q \in SUBSET DOMAIN seq
      BY <1>1
    <3> HIDE DEF Q
    <3> QED BY <1>1, <3>1, EngineLists
  <2>3. Ordered(A, X, seq, step)
    BY <1>5
  <2>4. {i, j} \cap Q = {}
    OBVIOUS
  <2> HIDE DEF A, B, Q, X
  <2>5. A \in Seq(Nat) /\ ToSet(A) = X
    BY <2>3 DEF Ordered
  <2>6. ToSet(A \o B) = X \cup Q /\ (Precedes(A \o B, i, j) <=> Precedes(A, i, j))
    BY <2>2, <2>4, <2>5, AfterFacts
  <2> QED BY <2>1, <2>3, <2>6, OrderedPrecedes
<1>7. CASE step \in {Request, Response}
  <2> DEFINE first  == For(seq, Request) \cap Indexed(seq, Request)
             second == (For(seq, Response) \cap Indexed(seq, Response)) \ first
             third  == (For(seq, Request) \cup For(seq, Response))
                          \ (Indexed(seq, Request) \cup Indexed(seq, Response))
             A == ByIndex(seq, first, Request)
             B == ByIndex(seq, second, Response)
             C == InOrder(third)
  <2>1. Runs(seq, step) = (A \o B) \o C
    BY <1>7 DEF Runs, Transformers
  <2>2. /\ first \in SUBSET DOMAIN seq /\ second \in SUBSET DOMAIN seq /\ third \in SUBSET DOMAIN seq
        /\ first \subseteq Indexed(seq, Request) /\ second \subseteq Indexed(seq, Response)
    BY <1>1
  <2>3. {i, j} \cap third = {}
    BY <1>7
  <2>4. IF step = Request THEN X = first ELSE X = second /\ {i, j} \cap first = {}
    BY <1>7
  <2>5. first \cap second = {}
    OBVIOUS
  <2> HIDE DEF X, first, second, third
  <2>6. Ordered(A, first, seq, Request) /\ Ordered(B, second, seq, Response)
    BY <1>3, <2>2
  <2>7. C \in Seq(Nat) /\ ToSet(C) = third
    BY <1>1, <2>2, EngineLists
  <2> HIDE DEF A, B, C
  <2>8. A \in Seq(Nat) /\ ToSet(A) = first /\ B \in Seq(Nat) /\ ToSet(B) = second
    BY <2>6 DEF Ordered
  <2>9. A \o B \in Seq(Nat) /\ ToSet(A \o B) = first \cup second
    BY <2>8, AfterFacts
  <2>10. /\ ToSet((A \o B) \o C) = first \cup second \cup third
         /\ Precedes((A \o B) \o C, i, j) <=> Precedes(A \o B, i, j)
    BY <2>3, <2>7, <2>9, AfterFacts
  <2>11. CASE step = Request
    <3>1. X = first /\ {i, j} \cap second = {}
      BY <2>4, <2>5, <2>11
    <3>2. Precedes(A \o B, i, j) <=> Precedes(A, i, j)
      BY <2>8, <3>1, AfterFacts
    <3>3. Precedes(A, i, j) <=> Comes(seq, step, i, j)
      BY <2>6, <2>11, <3>1, OrderedPrecedes
    <3> QED BY <2>1, <2>10, <3>1, <3>2, <3>3
  <2>12. CASE step # Request
    <3>1. X = second /\ {i, j} \cap first = {} /\ step = Response
      BY <1>7, <2>4, <2>12
    <3>2. Precedes(A \o B, i, j) <=> Precedes(B, i, j)
      BY <2>8, <3>1, AfterFacts
    <3>3. Precedes(B, i, j) <=> Comes(seq, step, i, j)
      BY <2>6, <3>1, OrderedPrecedes
    <3> QED BY <2>1, <2>10, <3>1, <3>2, <3>3
  <2> QED BY <2>11, <2>12
<1> QED BY <1>6, <1>7

\* Saved as it is, the route runs the plugins of a step that the page has a form for in the
\* order in which the page shows them, on the same two conditions, and those with the same
\* index in the response in the opposite order; in the response when no plugin is one of the
\* request too.
THEOREM RunsInTheOrderShown == Spec => []RunsAsShown
<1>1. TypeInv /\ MatchInv => RunsAsShown
  <2> SUFFICES ASSUME TypeInv, MatchInv, Whole, Distinct, NEW step \in Steps,
                      step = Response => For(route, Request) \cap For(route, Response) = {}
               PROVE  /\ KnownFor(route, step)
                            \subseteq ToSet(Runs(ToSave, step)) \cap ToSet(Shown(nodes, step))
                      /\ \A i, j \in KnownFor(route, step) : ShownToRun(i, j, step)
    BY DEF RunsAsShown
  <2> DEFINE K == KnownFor(route, step)
             runs  == Runs(ToSave, step)
             shown == Shown(nodes, step)
  <2>1. /\ IsRoute(ToSave) /\ DOMAIN ToSave = DOMAIN nodes /\ DOMAIN route = DOMAIN nodes
        /\ \A i \in DOMAIN nodes : ToSave[i].plugin = nodes[i].plugin
        /\ \A i \in DOMAIN nodes : route[i].plugin = nodes[i].plugin
    BY ToSaveFacts, TypeInvIs DEF Alike
  <2>2. \A s : For(ToSave, s) = For(route, s)
    BY <2>1 DEF For
  <2>3. Complete(nodes)
    BY TypeInvIs DEF ShownNodes
  <2>4. ASSUME NEW i \in K
        PROVE  /\ i \in DOMAIN nodes /\ i \in For(ToSave, step)
               /\ ToSave[i].index = nodes[i].index /\ nodes[i].index # None
               /\ step \in DOMAIN nodes[i].index
    <3>1. i \in DOMAIN nodes /\ i \in For(ToSave, step) /\ nodes[i].plugin \in Known /\ step \in StepsOf[nodes[i].plugin]
      BY <2>1, <2>2, <2>4 DEF KnownFor, For
    <3>2. step \in DOMAIN nodes[i].index /\ IsIndex(nodes[i].index)
      BY <3>1, TypeInvIs DEF ShownNodes, Complete, NodeSteps
    <3> QED BY <3>1, <3>2, SavedIndexes, RoutesAssumption
  <2>5. K \subseteq For(ToSave, step) \cap Indexed(ToSave, step) /\ K \subseteq Indexed(nodes, step)
    BY <2>1, <2>4 DEF Indexed, IndexOf
  <2>6. /\ K \subseteq ToSet(runs)
        /\ \A i, j \in K : Precedes(runs, i, j) <=> Comes(ToSave, step, i, j)
    <3>1. step = Response => For(ToSave, Request) \cap For(ToSave, Response) = {}
      BY <2>2
    <3> HIDE DEF K
    <3> QED BY <2>1, <2>5, <3>1, RunsInOrder
  <2>7. /\ K \subseteq ToSet(shown)
        /\ \A i, j \in K : Precedes(shown, i, j) <=> ShownBefore(nodes, step, i, j)
    <3>1. /\ \A n \in DOMAIN shown : shown[n] \in Indexed(nodes, step)
          /\ \A i \in Indexed(nodes, step) : \E n \in DOMAIN shown : shown[n] = i
          /\ \A m, n \in DOMAIN shown : m < n <=> ShownBefore(nodes, step, shown[m], shown[n])
      BY <2>3, ShownFacts
    <3> HIDE DEF K, shown
    <3> QED BY <2>5, <3>1 DEF ToSet, Precedes
  <2>8. ASSUME NEW i \in K, NEW j \in K
        PROVE  /\ Comes(ToSave, step, i, j) <=> Comes(nodes, step, i, j)
               /\ Comes(nodes, step, i, j)
                     <=> IF step = Response /\ nodes[i].index[step] = nodes[j].index[step]
                         THEN ShownBefore(nodes, step, j, i) ELSE ShownBefore(nodes, step, i, j)
    <3>1. Comes(ToSave, step, i, j) <=> Comes(nodes, step, i, j)
      BY <2>4, <2>8 DEF Comes
    <3>2. nodes[i].index[step] \in Nat /\ nodes[j].index[step] \in Nat
      BY <2>3, <2>5, <2>8, IndexedFacts
    <3> HIDE DEF K
    <3> QED BY <3>1, <3>2 DEF Comes, ShownBefore
  <2> HIDE DEF K, runs, shown
  <2>9. ASSUME NEW i \in K, NEW j \in K PROVE ShownToRun(i, j, step)
    <3>1. Precedes(runs, i, j) <=> Comes(nodes, step, i, j)
      BY <2>6, <2>8, <2>9
    <3>2. /\ Precedes(shown, i, j) <=> ShownBefore(nodes, step, i, j)
          /\ Precedes(shown, j, i) <=> ShownBefore(nodes, step, j, i)
      BY <2>7, <2>9
    <3>3. Precedes(runs, i, j)
             <=> IF step = Response /\ nodes[i].index[step] = nodes[j].index[step]
                 THEN Precedes(shown, j, i) ELSE Precedes(shown, i, j)
      BY <2>8, <2>9, <3>1, <3>2
    <3> QED BY <3>3 DEF ShownToRun, runs, shown
  <2> QED BY <2>6, <2>7, <2>9 DEF K, runs, shown
<1> QED BY <1>1, TypeHolds, MatchHolds, PTL
================================================================================
