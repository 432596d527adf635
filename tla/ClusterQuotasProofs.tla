--------------------------- MODULE ClusterQuotasProofs ---------------------------
(***************************************************************************)
(* Proofs about ClusterQuotas, for every set of counters, threads and      *)
(* requests and every number of attempts: types are respected, and no push *)
(* loses a call on an apikey or a route.                                   *)
(***************************************************************************)
EXTENDS ClusterQuotas, FiniteSetTheorems, TLAPS

\* The initial state has the right types.
LEMMA TypeInit == Init => TypeOK
<1>1. Zero \in [Keys -> Nat]
  BY DEF Zero
<1>2. 0 \in 0..Times /\ 0 \in 0..MaxCalls /\ 0 \in 0..MaxFailures
  BY QuotasAssumption
<1>3. Init => /\ items \in [Requests -> [Keys -> Nat]]
              /\ open \in [Requests -> BOOLEAN]
  BY <1>1 DEF Init
<1> QED
  BY <1>1, <1>2, <1>3 DEF Init, TypeOK

\* Every step keeps them.
LEMMA TypeStep == TypeOK /\ [Next]_vars => TypeOK'
<1> SUFFICES ASSUME TypeOK, [Next]_vars PROVE TypeOK'
  OBVIOUS
<1> USE QuotasAssumption DEF TypeOK
<1>1. ASSUME NEW t \in Threads, NEW k \in Keys, Register(t, k) PROVE TypeOK'
  BY <1>1 DEF Register, pushVars, oldVars, requestVars, swapVars
<1>2. ASSUME NEW t \in Threads, LookUp(t) PROVE TypeOK'
  <2>1. CASE key[t] \in present
    BY <1>2, <2>1 DEF LookUp, mapVars, pushVars, oldVars, requestVars, swapVars
  <2>2. CASE key[t] \notin present
    <3>1. key[t] \in Keys
      OBVIOUS
    <3>2. made' = Plus(made, key[t], 1) /\ late' \in {late, Plus(late, key[t], 1)}
      BY <1>2, <2>2 DEF LookUp, Counted
    <3>3. made' \in [Keys -> Nat]
      BY <3>1, <3>2 DEF Plus
    <3>4. late' \in [Keys -> Nat]
      BY <3>1, <3>2 DEF Plus
    <3>5. pc' \in [Threads -> {"idle", "look", "add"}] /\ crossed' \in [Threads -> BOOLEAN]
      BY <1>2, <2>2 DEF LookUp, Counted
    <3> QED
      BY <1>2, <2>2, <3>3, <3>4, <3>5 DEF LookUp, mapVars, pushVars, oldVars, requestVars, swapVars
  <2> QED
    BY <2>1, <2>2
<1>3. ASSUME NEW t \in Threads, Add(t) PROVE TypeOK'
  <2>1. made' \in [Keys -> Nat] /\ late' \in [Keys -> Nat]
    BY <1>3 DEF Add, Counted, Plus
  <2>2. pc' \in [Threads -> {"idle", "look", "add"}] /\ crossed' \in [Threads -> BOOLEAN]
    BY <1>3 DEF Add, Counted
  <2>3. cur' \in [Keys -> Nat] /\ old' \in [Keys -> Nat]
    BY <1>3 DEF Add, Plus
  <2> QED
    BY <1>3, <2>1, <2>2, <2>3 DEF Add, pushVars, requestVars, swapVars
<1>4. CASE StartPush
  BY <1>4 DEF StartPush, Zero, requestVars
<1>5. CASE HandleOk
  BY <1>5 DEF HandleOk, EndPush, Zero, mapVars, requestVars, swapVars
<1>6. CASE HandleFailure
  BY <1>6 DEF HandleFailure, mapVars, oldVars, requestVars, threadVars, swapVars
<1>7. CASE GiveUp
  <2>1. cur' \in [Keys -> Nat] /\ old' \in [Keys -> Nat]
    BY <1>7 DEF GiveUp, EndPush, Zero
  <2>2. present' \subseteq Keys /\ oldKeys' \subseteq Keys
    BY <1>7 DEF GiveUp, EndPush
  <2>3. ref' \in [Threads -> {"cur", "old", "gone"}]
    BY <1>7 DEF GiveUp, EndPush
  <2> QED
    BY <1>7, <2>1, <2>2, <2>3 DEF GiveUp, EndPush, requestVars, swapVars
<1>8. ASSUME NEW r \in Requests, Attempt(r) PROVE TypeOK'
  BY <1>8 DEF Attempt, mapVars, oldVars, threadVars, swapVars
<1>9. ASSUME NEW r \in Requests, NEW k \in Keys, Apply(r, k) PROVE TypeOK'
  BY <1>9 DEF Apply, Plus, mapVars, pushVars, oldVars, threadVars, swapVars
<1>10. ASSUME NEW r \in Requests, Done(r) PROVE TypeOK'
  BY <1>10 DEF Done, mapVars, oldVars, threadVars, swapVars
<1>11. ASSUME NEW r \in Requests, Break(r) PROVE TypeOK'
  BY <1>11 DEF Break, mapVars, oldVars, requestVars, threadVars, swapVars
<1>12. ASSUME NEW r \in Requests, Close(r) PROVE TypeOK'
  BY <1>12 DEF Close, Zero, mapVars, pushVars, oldVars, threadVars, swapVars
<1>13. CASE UNCHANGED vars
  BY <1>13 DEF vars, mapVars, pushVars, oldVars, requestVars, threadVars, swapVars
<1> QED
  BY <1>1, <1>2, <1>3, <1>4, <1>5, <1>6, <1>7, <1>8, <1>9, <1>10, <1>11, <1>12, <1>13
     DEF Next, ThreadStep, RequestStep

\* Counters, flags and the steps of the threads stay in their ranges.
THEOREM QuotasTypeCorrect == Spec => []TypeOK
BY TypeInit, TypeStep, PTL DEF Spec

--------------------------------------------------------------------------------
\* An attempt is awaited by the push in progress only, and only one that is
\* awaited has an answer.
Awaited ==
    /\ waiting # None => pushing
    /\ answer # "none" => waiting # None

\* Where the calls on k are.  Without a push, the leader and the current map have
\* them.  During one, what the leader had and the map held when it was swapped,
\* with what was counted since; the old map never shrinks, the leader never
\* forgets, and what is left of the stream in flight completes what was swapped.
Account(k) ==
    /\ ~pushing => made[k] <= total[k] + cur[k] + late[k]
    /\ pushing => /\ made[k] <= base[k] + atSwap[k] + cur[k] + late[k]
                  /\ atSwap[k] <= old[k]
                  /\ base[k] <= total[k]
    /\ waiting # None /\ answer = "none" =>
            base[k] + atSwap[k] <= total[k] + items[waiting][k]
    /\ answer = "ok" => base[k] + atSwap[k] <= total[k]

\* An increment that met no swap counts in the current map.
Uncrossed == \A t \in Threads : ~crossed[t] =>
    /\ pc[t] = "look" => key[t] \in present
    /\ pc[t] = "add" => ref[t] = "cur"

Accounts == Awaited /\ Uncrossed /\ \A k \in Restored : Account(k)

\* Nothing is counted at first.
LEMMA AccountsInit == Init => Accounts
BY QuotasAssumption DEF Init, Accounts, Awaited, Uncrossed, Account, Zero

\* Only a swap takes the current map away from a thread.
LEMMA UncrossedStep == TypeOK /\ Uncrossed /\ [Next]_vars => Uncrossed'
<1> SUFFICES ASSUME TypeOK, Uncrossed, [Next]_vars PROVE Uncrossed'
  OBVIOUS
<1> USE DEF Uncrossed, TypeOK
<1>1. CASE UNCHANGED <<threadVars, crossed>> /\ present \subseteq present'
  BY <1>1 DEF threadVars
<1>2. ASSUME NEW t \in Threads, ThreadStep(t) PROVE Uncrossed'
  <2>1. ASSUME NEW k \in Keys, Register(t, k) PROVE Uncrossed'
    BY <2>1 DEF Register
  <2>2. CASE LookUp(t)
    BY <2>2 DEF LookUp, Counted, mapVars
  <2>3. CASE Add(t)
    BY <2>3 DEF Add, Counted
  <2> QED
    BY <1>2, <2>1, <2>2, <2>3 DEF ThreadStep
<1>3. CASE StartPush
  BY <1>3 DEF StartPush
<1>4. CASE HandleOk \/ GiveUp
  BY <1>4 DEF HandleOk, GiveUp, EndPush, mapVars
<1>5. CASE HandleFailure
  BY <1>1, <1>5 DEF HandleFailure, mapVars
<1>6. ASSUME NEW r \in Requests, RequestStep(r) PROVE Uncrossed'
  BY <1>1, <1>6 DEF RequestStep, Attempt, Apply, Done, Break, Close, mapVars
<1>7. CASE UNCHANGED vars
  BY <1>1, <1>7 DEF vars, mapVars
<1> QED
  BY <1>2, <1>3, <1>4, <1>5, <1>6, <1>7 DEF Next

\* Every step keeps the account of each counter.
LEMMA AccountsStep == TypeOK /\ Accounts /\ [Next]_vars => Accounts'
<1> SUFFICES ASSUME TypeOK, Accounts, [Next]_vars
             PROVE  Awaited' /\ \A k \in Restored : Account(k)'
  BY UncrossedStep DEF Accounts
<1> USE QuotasAssumption DEF TypeOK, Accounts, Awaited
<1>1. ASSUME NEW t \in Threads, NEW k \in Keys, Register(t, k)
      PROVE  Awaited' /\ \A j \in Restored : Account(j)'
  BY <1>1 DEF Account, Register, pushVars, oldVars, requestVars, swapVars
<1>2. ASSUME NEW t \in Threads, LookUp(t) PROVE Awaited' /\ \A k \in Restored : Account(k)'
  <2>1. CASE key[t] \in present
    BY <1>2, <2>1 DEF Account, LookUp, mapVars, pushVars, oldVars, requestVars, swapVars
  <2>2. CASE key[t] \notin present
    <3>1. crossed[t]
      BY <1>2, <2>2 DEF LookUp, Uncrossed
    <3>2. made' = Plus(made, key[t], 1) /\ late' = Plus(late, key[t], 1)
      BY <1>2, <2>2, <3>1 DEF LookUp, Counted
    <3> QED
      BY <1>2, <3>2 DEF Account, LookUp, Plus, mapVars, pushVars, oldVars, requestVars, swapVars
  <2> QED
    BY <2>1, <2>2
<1>3. ASSUME NEW t \in Threads, Add(t) PROVE Awaited' /\ \A k \in Restored : Account(k)'
  <2>1. UNCHANGED <<pushing, waiting, answer, items, total, base, atSwap>>
    BY <1>3 DEF Add, pushVars, requestVars, swapVars
  <2>2. ASSUME NEW k \in Restored
        PROVE  /\ made'[k] + cur[k] + late[k] <= made[k] + cur'[k] + late'[k]
               /\ old[k] <= old'[k]
    <3>1. made' = Plus(made, key[t], 1) /\ (~crossed[t] => ref[t] = "cur")
      BY <1>3 DEF Add, Counted, Uncrossed
    <3>2. \/ cur' = Plus(cur, key[t], 1) /\ late' \in {late, Plus(late, key[t], 1)}
          \/ cur' = cur /\ late' = Plus(late, key[t], 1)
      BY <1>3, <3>1 DEF Add, Counted
    <3>3. old' \in {old, Plus(old, key[t], 1)}
      BY <1>3 DEF Add
    <3> QED
      BY <3>1, <3>2, <3>3 DEF Plus
  <2>3. made' \in [Keys -> Nat] /\ cur' \in [Keys -> Nat] /\ late' \in [Keys -> Nat] /\ old' \in [Keys -> Nat]
    BY TypeStep
  <2> HIDE DEF Accounts
  <2>4. \A k \in Restored : Account(k)
    BY DEF Accounts
  <2> QED
    BY <2>1, <2>2, <2>3, <2>4 DEF Account, Accounts
<1>4. CASE StartPush
  BY <1>4 DEF Account, StartPush, Zero, requestVars
<1>5. CASE HandleOk
  BY <1>5 DEF Account, HandleOk, EndPush, Zero, mapVars, requestVars, swapVars
<1>6. CASE HandleFailure
  BY <1>6 DEF Account, HandleFailure, mapVars, oldVars, requestVars, threadVars, swapVars
<1>7. CASE GiveUp
  BY <1>7 DEF Account, GiveUp, EndPush, Zero, requestVars, swapVars
<1>8. ASSUME NEW r \in Requests, Attempt(r) PROVE Awaited' /\ \A k \in Restored : Account(k)'
  BY <1>8 DEF Account, Attempt, mapVars, oldVars, threadVars, swapVars
<1>9. ASSUME NEW r \in Requests, NEW k \in Keys, Apply(r, k)
      PROVE  Awaited' /\ \A j \in Restored : Account(j)'
  BY <1>9 DEF Account, Apply, Plus, mapVars, pushVars, oldVars, threadVars, swapVars
<1>10. ASSUME NEW r \in Requests, Done(r) PROVE Awaited' /\ \A k \in Restored : Account(k)'
  BY <1>10 DEF Account, Done, mapVars, oldVars, threadVars, swapVars
<1>11. ASSUME NEW r \in Requests, Break(r) PROVE Awaited' /\ \A k \in Restored : Account(k)'
  BY <1>11 DEF Account, Break, mapVars, oldVars, requestVars, threadVars, swapVars
<1>12. ASSUME NEW r \in Requests, Close(r) PROVE Awaited' /\ \A k \in Restored : Account(k)'
  BY <1>12 DEF Account, Close, Zero, mapVars, pushVars, oldVars, threadVars, swapVars
<1>13. CASE UNCHANGED vars
  BY <1>13 DEF Account, vars, mapVars, pushVars, oldVars, requestVars, threadVars, swapVars
<1> QED
  BY <1>1, <1>2, <1>3, <1>4, <1>5, <1>6, <1>7, <1>8, <1>9, <1>10, <1>11, <1>12, <1>13
     DEF Next, ThreadStep, RequestStep

\* Every call on an apikey or a route that was not in progress when a push swapped
\* the map stays accounted for, however many attempts fail and however late.
THEOREM NothingLost == Spec => []NoLoss
<1>1. TypeOK /\ Accounts => NoLoss
  <2> SUFFICES ASSUME TypeOK, Accounts, NEW k \in Restored
               PROVE made[k] <= total[k] + cur[k] + old[k] + late[k]
    BY DEF NoLoss
  <2>1. Account(k)
    BY DEF Accounts
  <2> QED
    BY <2>1, QuotasAssumption DEF Account, TypeOK
<1> QED
  BY <1>1, TypeInit, TypeStep, AccountsInit, AccountsStep, PTL DEF Spec

--------------------------------------------------------------------------------
(* How much may be counted twice.  Every call on k is somewhere on its way to *)
(* the leader, once for each time it may still be counted: in the messages of *)
(* the requests, in the current map, in the old one while it waits to be      *)
(* sent.  Only an attempt that failed sends the old map again.                *)

\* The calls on k in the messages it of the requests that are not applied yet,
\* numbered within their message; those of one message, those of the others.
Pending(it, k) == {p \in Requests \X Nat : 1 <= p[2] /\ p[2] <= it[p[1]][k]}
Message(r, n)  == {r} \X (1..n)
Others(it, r, k) == {p \in Pending(it, k) : p[1] # r}

\* What the old map will send without another failure.
Unsent(k) == IF pushing /\ waiting = None THEN old[k] ELSE 0

\* m calls, f failed attempts.
Allowed(m, f) == m * (1 + f)

Inflation(k) ==
    /\ IsFiniteSet(Pending(items, k))
    /\ cur[k] + old[k] <= made[k]
    /\ total[k] + Cardinality(Pending(items, k)) + cur[k] + Unsent(k) <= Allowed(made[k], failures)

InflationInv ==
    /\ Awaited
    /\ \A r \in Requests : ~open[r] => items[r] = Zero
    /\ \A k \in Keys : Inflation(k)

\* A call more, a failure more.
LEMMA AllowedFacts ==
  ASSUME NEW m \in Nat, NEW f \in Nat
  PROVE  /\ Allowed(m, f) \in Nat
         /\ Allowed(m + 1, f) = Allowed(m, f) + 1 + f
         /\ Allowed(m, f + 1) = Allowed(m, f) + m
BY DEF Allowed

\* A message of n calls has n calls.
LEMMA MessageFacts ==
  ASSUME NEW r, NEW n \in Nat
  PROVE  IsFiniteSet(Message(r, n)) /\ Cardinality(Message(r, n)) = n
<1>1. IsFiniteSet({r}) /\ Cardinality({r}) = 1
  BY FS_Singleton
<1>2. IsFiniteSet(1..n) /\ Cardinality(1..n) = n
  BY FS_Interval
<1>3. /\ IsFiniteSet({r} \X (1..n))
      /\ Cardinality({r} \X (1..n)) = Cardinality({r}) * Cardinality(1..n)
  BY <1>1, <1>2, FS_Product
<1> QED
  BY <1>1, <1>2, <1>3 DEF Message

\* The calls on their way are those of one message and those of the others.
LEMMA PendingSplit ==
  ASSUME NEW it \in [Requests -> [Keys -> Nat]], NEW r \in Requests, NEW k \in Keys,
         IsFiniteSet(Others(it, r, k))
  PROVE  /\ IsFiniteSet(Pending(it, k))
         /\ Cardinality(Pending(it, k)) = Cardinality(Others(it, r, k)) + it[r][k]
<1>1. Pending(it, k) = Others(it, r, k) \cup Message(r, it[r][k])
  BY DEF Pending, Others, Message
<1>2. Others(it, r, k) \cap Message(r, it[r][k]) = {}
  BY DEF Others, Message
<1>3. IsFiniteSet(Message(r, it[r][k])) /\ Cardinality(Message(r, it[r][k])) = it[r][k]
  BY MessageFacts
<1>4. Cardinality(Others(it, r, k)) \in Nat /\ Cardinality({}) = 0 /\ it[r][k] \in Nat
  BY FS_CardinalityType, FS_EmptySet
<1>5. /\ IsFiniteSet(Others(it, r, k) \cup Message(r, it[r][k]))
      /\ Cardinality(Others(it, r, k) \cup Message(r, it[r][k])) =
            Cardinality(Others(it, r, k)) + Cardinality(Message(r, it[r][k]))
               - Cardinality(Others(it, r, k) \cap Message(r, it[r][k]))
  BY <1>3, FS_Union
<1>6. /\ IsFiniteSet(Pending(it, k))
      /\ Cardinality(Pending(it, k)) =
            Cardinality(Others(it, r, k)) + it[r][k] - Cardinality({})
  BY <1>1, <1>2, <1>3, <1>5, Zenon
<1> QED
  BY <1>4, <1>6

\* The message of one request changes, from n calls on k to m.
LEMMA PendingChange ==
  ASSUME NEW it \in [Requests -> [Keys -> Nat]], NEW jt \in [Requests -> [Keys -> Nat]],
         NEW r \in Requests, NEW k \in Keys, IsFiniteSet(Pending(it, k)),
         \A q \in Requests \ {r} : jt[q][k] = it[q][k]
  PROVE  /\ IsFiniteSet(Pending(jt, k))
         /\ Cardinality(Pending(it, k)) \in Nat /\ Cardinality(Pending(jt, k)) \in Nat
         /\ Cardinality(Pending(jt, k)) + it[r][k] = Cardinality(Pending(it, k)) + jt[r][k]
<1>1. Others(jt, r, k) = Others(it, r, k)
  BY DEF Others, Pending
<1>2. IsFiniteSet(Others(it, r, k))
  BY FS_Subset DEF Others
<1>3. Cardinality(Others(it, r, k)) \in Nat
  BY <1>2, FS_CardinalityType
<1> QED
  BY <1>1, <1>2, <1>3, PendingSplit

\* No call is made or sent at first.
LEMMA InflationInit == Init => InflationInv
<1> SUFFICES ASSUME Init PROVE InflationInv
  OBVIOUS
<1>1. Awaited /\ \A r \in Requests : items[r] = Zero
  BY DEF Init, Awaited
<1>2. ASSUME NEW k \in Keys PROVE Inflation(k)
  <2>1. Pending(items, k) = {}
    BY DEF Init, Pending, Zero
  <2>2. /\ total[k] = 0 /\ cur[k] = 0 /\ old[k] = 0 /\ made[k] = 0 /\ failures = 0 /\ ~pushing
    BY DEF Init, Zero
  <2> QED
    BY <2>1, <2>2, FS_EmptySet DEF Inflation, Unsent, Allowed
<1> QED
  BY <1>1, <1>2 DEF InflationInv

\* The steps that send nothing: per counter, what the maps lose may be dropped,
\* what they gain was just made.
LEMMA InflationCounts ==
  ASSUME TypeOK, TypeOK', InflationInv, NEW k \in Keys,
         UNCHANGED <<items, total, failures>>,
         \E n \in {0, 1} :
            /\ made'[k] = made[k] + n
            /\ cur'[k] + old'[k] <= cur[k] + old[k] + n
            /\ cur'[k] + Unsent(k)' <= cur[k] + Unsent(k) + n
  PROVE  Inflation(k)'
<1> DEFINE c == Cardinality(Pending(items, k))
<1>1. c \in Nat
  BY FS_CardinalityType DEF InflationInv, Inflation
<1>2. /\ made[k] \in Nat /\ cur[k] \in Nat /\ old[k] \in Nat /\ total[k] \in Nat /\ failures \in Nat
      /\ cur'[k] \in Nat /\ old'[k] \in Nat /\ Unsent(k) \in Nat /\ Unsent(k)' \in Nat
  BY QuotasAssumption DEF TypeOK, Unsent
<1>3. /\ cur[k] + old[k] <= made[k]
      /\ total[k] + c + cur[k] + Unsent(k) <= Allowed(made[k], failures)
  BY DEF InflationInv, Inflation
<1>4. PICK n \in {0, 1} :
         /\ made'[k] = made[k] + n
         /\ cur'[k] + old'[k] <= cur[k] + old[k] + n
         /\ cur'[k] + Unsent(k)' <= cur[k] + Unsent(k) + n
  OBVIOUS
<1>5. Allowed(made[k], failures) \in Nat
  BY <1>2, AllowedFacts
<1>6. /\ Allowed(made'[k], failures) \in Nat
      /\ Allowed(made[k], failures) + n <= Allowed(made'[k], failures)
  <2>1. CASE n = 0
    <3>1. made'[k] = made[k]
      BY <1>2, <1>4, <2>1
    <3> QED
      BY <1>5, <2>1, <3>1
  <2>2. CASE n = 1
    <3>1. made'[k] = made[k] + 1
      BY <1>4, <2>2
    <3>2. Allowed(made[k] + 1, failures) = Allowed(made[k], failures) + 1 + failures
      BY <1>2, AllowedFacts
    <3> QED
      BY <1>2, <1>5, <2>2, <3>1, <3>2
  <2> QED
    BY <2>1, <2>2
<1> HIDE DEF c
<1>7. cur'[k] + old'[k] <= made'[k]
  BY <1>2, <1>3, <1>4
<1>8. total[k] + c + cur'[k] + Unsent(k)' <= Allowed(made'[k], failures)
  BY <1>1, <1>2, <1>3, <1>4, <1>5, <1>6
<1>9. IsFiniteSet(Pending(items, k))
  BY DEF InflationInv, Inflation
<1> QED
  BY <1>7, <1>8, <1>9 DEF Inflation, c

\* The steps that move calls of one request: the leader applies them, the old
\* map is sent, the rest of a stream is dropped.
LEMMA InflationMoves ==
  ASSUME TypeOK, TypeOK', InflationInv, NEW k \in Keys, NEW r \in Requests,
         UNCHANGED <<cur, old, made, failures>>,
         \A q \in Requests \ {r} : items'[q] = items[q],
         total'[k] + items'[r][k] + Unsent(k)' <= total[k] + items[r][k] + Unsent(k)
  PROVE  Inflation(k)'
<1> DEFINE c == Cardinality(Pending(items, k))
           d == Cardinality(Pending(items', k))
<1>1. items \in [Requests -> [Keys -> Nat]] /\ items' \in [Requests -> [Keys -> Nat]]
  BY DEF TypeOK
<1>2. IsFiniteSet(Pending(items, k))
  BY DEF InflationInv, Inflation
<1>3. /\ IsFiniteSet(Pending(items', k)) /\ c \in Nat /\ d \in Nat
      /\ d + items[r][k] = c + items'[r][k]
  BY <1>1, <1>2, PendingChange
<1>4. /\ made[k] \in Nat /\ cur[k] \in Nat /\ old[k] \in Nat /\ failures \in Nat
      /\ total[k] \in Nat /\ total'[k] \in Nat /\ Unsent(k) \in Nat /\ Unsent(k)' \in Nat
      /\ items[r][k] \in Nat /\ items'[r][k] \in Nat
  BY QuotasAssumption DEF TypeOK, Unsent
<1>5. /\ cur[k] + old[k] <= made[k]
      /\ total[k] + c + cur[k] + Unsent(k) <= Allowed(made[k], failures)
  BY DEF InflationInv, Inflation
<1>6. Allowed(made[k], failures) \in Nat
  BY <1>4, AllowedFacts
<1> HIDE DEF c, d
<1>7. total'[k] + d + cur[k] + Unsent(k)' <= Allowed(made[k], failures)
  BY <1>3, <1>4, <1>5, <1>6
<1> QED
  BY <1>3, <1>5, <1>7 DEF Inflation, d

\* An attempt fails: the old map may be sent once more.
LEMMA InflationFails ==
  ASSUME TypeOK, InflationInv, HandleFailure, NEW k \in Keys
  PROVE  Inflation(k)'
<1> DEFINE c == Cardinality(Pending(items, k))
<1>1. c \in Nat /\ IsFiniteSet(Pending(items, k))
  BY FS_CardinalityType DEF InflationInv, Inflation
<1>2. /\ made[k] \in Nat /\ cur[k] \in Nat /\ old[k] \in Nat /\ total[k] \in Nat /\ failures \in Nat
  BY QuotasAssumption DEF TypeOK
<1>3. Unsent(k) = 0 /\ Unsent(k)' \in {0, old[k]}
  BY DEF HandleFailure, Unsent, oldVars
<1>4. /\ cur[k] + old[k] <= made[k]
      /\ total[k] + c + cur[k] <= Allowed(made[k], failures)
  BY <1>1, <1>2, <1>3 DEF InflationInv, Inflation
<1>5. /\ failures' = failures + 1
      /\ UNCHANGED <<items, total, made, cur, old>>
  BY DEF HandleFailure, mapVars, oldVars, requestVars
<1>6. /\ Allowed(made[k], failures) \in Nat
      /\ Allowed(made[k], failures + 1) = Allowed(made[k], failures) + made[k]
  BY <1>2, AllowedFacts
<1> HIDE DEF c
<1>7. total[k] + c + cur[k] + Unsent(k)' <= Allowed(made[k], failures + 1)
  BY <1>1, <1>2, <1>3, <1>4, <1>6
<1> QED
  BY <1>1, <1>4, <1>5, <1>7 DEF Inflation, c

\* Every step keeps the account of what may be counted twice.
LEMMA InflationStep == TypeOK /\ InflationInv /\ [Next]_vars => InflationInv'
<1> SUFFICES ASSUME TypeOK, InflationInv, [Next]_vars PROVE InflationInv'
  OBVIOUS
<1>0. TypeOK'
  BY TypeStep
<1> USE <1>0
<1>1. ASSUME NEW t \in Threads, ThreadStep(t) PROVE InflationInv'
  <2>1. UNCHANGED <<items, open, total, failures, pushing, waiting, answer>>
    BY <1>1 DEF ThreadStep, Register, LookUp, Add, Counted, pushVars, requestVars
  <2>2. ASSUME NEW k \in Keys PROVE Inflation(k)'
    <3>1. \E n \in {0, 1} : /\ made'[k] = made[k] + n
                            /\ cur'[k] + old'[k] <= cur[k] + old[k] + n
                            /\ cur'[k] + Unsent(k)' <= cur[k] + Unsent(k) + n
      <4>1. ASSUME NEW j \in Keys, Register(t, j) PROVE UNCHANGED <<made, cur, old>>
        BY <4>1 DEF Register, oldVars
      <4>2. CASE LookUp(t)
        <5>1. /\ UNCHANGED <<cur, old>>
              /\ made' = made \/ made' = Plus(made, key[t], 1)
          BY <4>2 DEF LookUp, Counted, mapVars, oldVars
        <5> QED
          BY <2>1, <5>1 DEF TypeOK, Plus, Unsent
      <4>3. CASE Add(t)
        <5>1. CASE key[t] = k
          BY <2>1, <4>3, <5>1 DEF Add, Counted, TypeOK, Plus, Unsent
        <5>2. CASE key[t] # k
          BY <2>1, <4>3, <5>2 DEF Add, Counted, TypeOK, Plus, Unsent
        <5> QED
          BY <5>1, <5>2
      <4>4. CASE UNCHANGED <<made, cur, old>>
        BY <2>1, <4>4 DEF TypeOK, Unsent
      <4> QED
        BY <1>1, <4>1, <4>2, <4>3, <4>4 DEF ThreadStep
    <3> QED
      BY <2>1, <3>1, InflationCounts
  <2> QED
    BY <2>1, <2>2 DEF InflationInv, Awaited
<1>2. CASE StartPush
  <2>1. /\ UNCHANGED <<items, open, total, failures, made, waiting, answer>> /\ pushing'
    BY <1>2 DEF StartPush, requestVars
  <2>2. ASSUME NEW k \in Keys PROVE Inflation(k)'
    <3>1. cur'[k] = 0 /\ old'[k] = cur[k] /\ ~pushing
      BY <1>2 DEF StartPush, Zero
    <3>2. made'[k] = made[k] + 0 /\ cur'[k] + old'[k] <= cur[k] + old[k] + 0
          /\ cur'[k] + Unsent(k)' <= cur[k] + Unsent(k) + 0
      BY <2>1, <3>1 DEF Unsent, TypeOK
    <3> QED
      BY <2>1, <3>2, InflationCounts
  <2> QED
    BY <2>1, <2>2 DEF InflationInv, Awaited
<1>3. CASE HandleOk \/ GiveUp
  <2>1. /\ UNCHANGED <<items, open, total, failures, made>>
        /\ ~pushing' /\ waiting' = None /\ answer' = "none"
    BY <1>3 DEF HandleOk, GiveUp, EndPush, requestVars
  <2>2. ASSUME NEW k \in Keys PROVE Inflation(k)'
    <3>1. old'[k] = 0 /\ Unsent(k)' = 0
      BY <1>3, <2>1 DEF HandleOk, GiveUp, EndPush, Zero, Unsent
    <3>2. cur'[k] = cur[k] \/ (Unsent(k) = old[k] /\ cur'[k] = cur[k] + old[k])
      BY <1>3 DEF HandleOk, GiveUp, mapVars, Unsent
    <3>3. made'[k] = made[k] + 0 /\ cur'[k] + old'[k] <= cur[k] + old[k] + 0
          /\ cur'[k] + Unsent(k)' <= cur[k] + Unsent(k) + 0
      BY <2>1, <3>1, <3>2 DEF TypeOK, Unsent
    <3> QED
      BY <2>1, <3>3, InflationCounts
  <2> QED
    BY <2>1, <2>2 DEF InflationInv, Awaited
<1>4. CASE HandleFailure
  <2>1. UNCHANGED <<items, open>> /\ waiting' = None /\ answer' = "none"
    BY <1>4 DEF HandleFailure, requestVars
  <2> QED
    BY <1>4, <2>1, InflationFails DEF InflationInv, Awaited
<1>5. ASSUME NEW r \in Requests, RequestStep(r) PROVE InflationInv'
  <2>1. /\ UNCHANGED <<cur, old, made, failures, pushing>>
        /\ \A q \in Requests \ {r} : items'[q] = items[q] /\ open'[q] = open[q]
    BY <1>5 DEF RequestStep, Attempt, Done, Break, Close, Apply, TypeOK,
       mapVars, pushVars, oldVars, requestVars
  <2>2. Awaited' /\ (~open'[r] => items'[r] = Zero)
    <3> USE DEF InflationInv, Awaited, TypeOK
    <3>1. CASE Attempt(r)
      BY <3>1, QuotasAssumption DEF Attempt
    <3>2. CASE Done(r)
      <4>1. items'[r] = Zero
        BY <3>2 DEF Done, Zero
      <4> QED
        BY <3>2, <4>1, QuotasAssumption DEF Done
    <3>3. CASE Break(r)
      BY <3>3, QuotasAssumption DEF Break, requestVars
    <3>4. CASE Close(r)
      BY <3>4 DEF Close, pushVars
    <3>5. ASSUME NEW j \in Keys, Apply(r, j) PROVE Awaited' /\ (~open'[r] => items'[r] = Zero)
      BY <3>5 DEF Apply, pushVars
    <3> QED
      BY <1>5, <3>1, <3>2, <3>3, <3>4, <3>5 DEF RequestStep
  <2>3. ASSUME NEW k \in Keys PROVE Inflation(k)'
    <3>1. total'[k] + items'[r][k] + Unsent(k)' <= total[k] + items[r][k] + Unsent(k)
      <4> USE DEF TypeOK
      <4>0. Unsent(k) \in Nat
        BY DEF Unsent
      <4>1. CASE Attempt(r)
        <5>1. total' = total /\ Unsent(k) = old[k] /\ Unsent(k)' = 0 /\ items'[r] = old
          BY <4>1, QuotasAssumption DEF Attempt, Unsent
        <5> QED
          BY <5>1
      <4>2. CASE Done(r) \/ Break(r)
        <5>1. total' = total /\ items' = items /\ Unsent(k)' = Unsent(k)
          BY <4>2 DEF Done, Break, Unsent, oldVars, requestVars
        <5> QED
          BY <4>0, <5>1
      <4>3. CASE Close(r)
        <5>1. total' = total /\ items'[r][k] = 0 /\ Unsent(k)' = Unsent(k)
          BY <4>3 DEF Close, Unsent, Zero, oldVars, pushVars
        <5> QED
          BY <4>0, <5>1
      <4>4. ASSUME NEW j \in Keys, Apply(r, j)
            PROVE  total'[k] + items'[r][k] + Unsent(k)' <= total[k] + items[r][k] + Unsent(k)
        <5>1. Unsent(k)' = Unsent(k)
          BY <4>4 DEF Apply, Unsent, oldVars, pushVars
        <5>2. CASE j = k
          <6>1. total'[k] = total[k] + items[r][k] /\ items'[r][k] = 0
            BY <4>4, <5>2 DEF Apply, Plus
          <6> QED
            BY <4>0, <5>1, <6>1
        <5>3. CASE j # k
          <6>1. total'[k] = total[k] /\ items'[r][k] = items[r][k]
            BY <4>4, <5>3 DEF Apply, Plus
          <6> QED
            BY <4>0, <5>1, <6>1
        <5> QED
          BY <5>2, <5>3
      <4> QED
        BY <1>5, <4>1, <4>2, <4>3, <4>4 DEF RequestStep
    <3> QED
      BY <2>1, <3>1, InflationMoves
  <2> QED
    BY <2>1, <2>2, <2>3 DEF InflationInv
<1>6. CASE UNCHANGED vars
  BY <1>6 DEF vars, mapVars, pushVars, oldVars, requestVars, InflationInv, Awaited, Inflation, Unsent
<1> QED
  BY <1>1, <1>2, <1>3, <1>4, <1>5, <1>6 DEF Next

\* A call is counted at the leader at most once more for each attempt that failed,
\* whatever requests are still open, broken or abandoned.
THEOREM InflationIsBounded == Spec => []InflationBounded
<1>1. TypeOK /\ InflationInv => InflationBounded
  <2> SUFFICES ASSUME TypeOK, InflationInv, NEW k \in Keys
               PROVE  total[k] <= made[k] * (1 + failures)
    BY DEF InflationBounded
  <2>1. Cardinality(Pending(items, k)) \in Nat
    BY FS_CardinalityType DEF InflationInv, Inflation
  <2>2. total[k] + Cardinality(Pending(items, k)) + cur[k] + Unsent(k) <= Allowed(made[k], failures)
    BY DEF InflationInv, Inflation
  <2>3. /\ made[k] \in Nat /\ cur[k] \in Nat /\ total[k] \in Nat /\ failures \in Nat /\ Unsent(k) \in Nat
    BY QuotasAssumption DEF TypeOK, Unsent
  <2>4. Allowed(made[k], failures) \in Nat
    BY <2>3, AllowedFacts
  <2>5. total[k] <= Allowed(made[k], failures)
    BY <2>1, <2>2, <2>3, <2>4
  <2> QED
    BY <2>5 DEF Allowed
<1> QED
  BY <1>1, TypeInit, TypeStep, InflationInit, InflationStep, PTL DEF Spec
================================================================================
