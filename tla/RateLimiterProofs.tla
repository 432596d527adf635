--------------------------- MODULE RateLimiterProofs ---------------------------
(***************************************************************************)
(* Proofs about RateLimiter, for every number of threads, counters and     *)
(* limits: types are respected, no counter holds a call that was turned    *)
(* away, the calls above a limit are at most those in flight when the      *)
(* store adds at once, and a counter is left without an expiration only by *)
(* a failure or by the sweep.                                              *)
(***************************************************************************)
EXTENDS RateLimiter, FiniteSetTheorems, TLAPS

Visiting == {"put", "ttl", "expire"}

\* Where the threads stand agrees with what they visit; only the memory is read
\* before it is written, and swept, one counter at a time.
Control ==
    /\ \A t \in Threads :
          /\ key[t] # None <=> at[t] \in Visiting
          /\ at[t] \in {"count", "put"} => job[t] = "count"
          /\ at[t] = "reset" => job[t] = "reset"
          /\ at[t] = "idle" => todo[t] = {}
          /\ at[t] \in Visiting => key[t] \notin todo[t]
          /\ at[t] = "put" => store = "memory"
    /\ IF sweep = None THEN ~removed ELSE store = "memory"

TypeInv == TypeOK /\ Control

\* The initial state has the right types.
LEMMA TypeInit == Init => TypeInv
<1> SUFFICES ASSUME Init PROVE TypeOK /\ Control
  BY DEF TypeInv
<1> USE LimiterAssumption DEF Init
<1>1. store \in {"redis", "memory"} /\ sweep \in Counters \cup {None} /\ removed \in BOOLEAN
  OBVIOUS
<1>2. value \in [Counters -> Nat \cup {None}] /\ key \in [Threads -> Counters \cup {None}]
  OBVIOUS
<1> QED
  BY <1>1, <1>2 DEF TypeOK, Control, Visiting

\* A counter holds a natural number.
LEMMA ValueType == TypeOK => \A k \in Counters : Value(k) \in Nat
BY DEF TypeOK, Value

\* Every step keeps the types.
LEMMA TypeStep == TypeInv /\ [Next]_vars => TypeInv'
<1> SUFFICES ASSUME TypeInv, [Next]_vars PROVE TypeInv'
  OBVIOUS
<1> USE LimiterAssumption DEF TypeInv, TypeOK, Control, Visiting
<1>1. ASSUME NEW t \in Threads, Begin(t) PROVE TypeInv'
  BY <1>1 DEF Begin, storeVars, history
<1>2. ASSUME NEW t \in Threads, NEW k \in Counters, Read(t, k) PROVE TypeInv'
  BY <1>2 DEF Read, Turn, storeVars, bounds
<1>3. ASSUME NEW t \in Threads, NEW k \in Counters, Count(t, k) PROVE TypeInv'
  BY <1>3, ValueType DEF Count, Turn, bounds
<1>4. ASSUME NEW t \in Threads, Put(t) PROVE TypeInv'
  BY <1>4 DEF Put, bounds
<1>5. ASSUME NEW t \in Threads, CheckTtl(t) PROVE TypeInv'
  BY <1>5 DEF CheckTtl, GoesOn, storeVars, bounds, history
<1>6. ASSUME NEW t \in Threads, Expire(t) PROVE TypeInv'
  BY <1>6 DEF Expire, GoesOn, bounds
<1>7. ASSUME NEW t \in Threads, Fail(t) PROVE TypeInv'
  BY <1>7 DEF Fail, GivesUp, SkipsCounter, Recovers, LosesTtl, GoesOn, Turn, storeVars
<1>8. ASSUME NEW t \in Threads, BeginReset(t) PROVE TypeInv'
  BY <1>8 DEF BeginReset, storeVars, history
<1>9. ASSUME NEW t \in Threads, NEW k \in Counters, Zero(t, k) PROVE TypeInv'
  BY <1>9 DEF Zero, Turn, bounds
<1>10. ASSUME NEW t \in Threads, Quotas(t) PROVE TypeInv'
  BY <1>10 DEF Quotas, storeVars, history
<1>11. ASSUME NEW k \in Counters, TimeOut(k) PROVE TypeInv'
  BY <1>11 DEF TimeOut, threadVars, bounds
<1>12. ASSUME NEW k \in Counters, Sweep(k) PROVE TypeInv'
  <2>1. CASE SweepFinds(k)
    BY <2>1 DEF SweepFinds, threadVars, bounds, history
  <2>2. CASE SweepValue(k)
    BY <2>2 DEF SweepValue, threadVars, bounds
  <2>3. CASE SweepExpiry(k)
    BY <2>3 DEF SweepExpiry, threadVars, bounds, history
  <2> QED
    BY <1>12, <2>1, <2>2, <2>3 DEF Sweep
<1>13. CASE UNCHANGED vars
  BY <1>13 DEF vars, storeVars, threadVars, bounds, history
<1> HIDE DEF TypeInv, TypeOK, Control, Visiting
<1> QED
  BY <1>1, <1>2, <1>3, <1>4, <1>5, <1>6, <1>7, <1>8, <1>9, <1>10, <1>11, <1>12, <1>13
     DEF Next, Step

\* Threads and counters stay in their ranges.
THEOREM LimiterTypeCorrect == Spec => []TypeOK
<1>1. TypeInv => TypeOK
  BY DEF TypeInv
<1> QED
  BY <1>1, TypeInit, TypeStep, PTL DEF Spec

--------------------------------------------------------------------------------
\* An expiration that is given while the sweep removes the old one is lost, and
\* a counter that nobody visits has an expiration, or lost it, or will lose it.
Kept(k) ==
    /\ sweep = k /\ expiry[k] = "live" => k \in lost
    /\ sweep = k /\ removed /\ value[k] # None /\ Left(k) => k \in lost
    /\ value[k] # None /\ expiry[k] = "none" /\ Left(k) => k \in lost

AllKept == \A k \in Counters : Kept(k)

\* Nothing is in the store at first.
LEMMA KeptInit == Init => AllKept
BY LimiterAssumption DEF Init, AllKept, Kept

\* Every step keeps them.
LEMMA KeptStep == TypeInv /\ AllKept /\ [Next]_vars => AllKept'
<1> SUFFICES ASSUME TypeInv, AllKept, [Next]_vars, NEW j \in Counters PROVE Kept(j)'
  BY DEF AllKept
<1> USE LimiterAssumption DEF TypeInv, TypeOK, Control, Visiting, AllKept, Kept, Left
<1>1. ASSUME NEW t \in Threads, Begin(t) PROVE Kept(j)'
  BY <1>1 DEF Begin, storeVars, history
<1>2. ASSUME NEW t \in Threads, NEW k \in Counters, Read(t, k) PROVE Kept(j)'
  BY <1>2 DEF Read, storeVars
<1>3. ASSUME NEW t \in Threads, NEW k \in Counters, Count(t, k) PROVE Kept(j)'
  BY <1>3 DEF Count
<1>4. ASSUME NEW t \in Threads, Put(t) PROVE Kept(j)'
  BY <1>4 DEF Put
<1>5. ASSUME NEW t \in Threads, CheckTtl(t) PROVE Kept(j)'
  BY <1>5 DEF CheckTtl, GoesOn, NoTtl, storeVars, history
<1>6. ASSUME NEW t \in Threads, Expire(t) PROVE Kept(j)'
  BY <1>6 DEF Expire, GoesOn
<1>7. ASSUME NEW t \in Threads, Fail(t) PROVE Kept(j)'
  BY <1>7 DEF Fail, GivesUp, SkipsCounter, Recovers, LosesTtl, GoesOn, Turn, NoTtl, storeVars
<1>8. ASSUME NEW t \in Threads, BeginReset(t) PROVE Kept(j)'
  BY <1>8 DEF BeginReset, storeVars, history
<1>9. ASSUME NEW t \in Threads, NEW k \in Counters, Zero(t, k) PROVE Kept(j)'
  BY <1>9 DEF Zero
<1>10. ASSUME NEW t \in Threads, Quotas(t) PROVE Kept(j)'
  BY <1>10 DEF Quotas, storeVars, history
<1>11. ASSUME NEW k \in Counters, TimeOut(k) PROVE Kept(j)'
  BY <1>11 DEF TimeOut, threadVars
<1>12. ASSUME NEW k \in Counters, Sweep(k) PROVE Kept(j)'
  <2>1. CASE SweepFinds(k)
    BY <2>1 DEF SweepFinds, threadVars, history
  <2>2. CASE SweepValue(k)
    BY <2>2 DEF SweepValue, threadVars
  <2>3. CASE SweepExpiry(k)
    BY <2>3 DEF SweepExpiry, threadVars, history
  <2> QED
    BY <1>12, <2>1, <2>2, <2>3 DEF Sweep
<1>13. CASE UNCHANGED vars
  BY <1>13 DEF vars, storeVars, threadVars, history
<1> HIDE DEF TypeInv, TypeOK, Control, Visiting, AllKept, Kept, Left
<1> QED
  BY <1>1, <1>2, <1>3, <1>4, <1>5, <1>6, <1>7, <1>8, <1>9, <1>10, <1>11, <1>12, <1>13
     DEF Next, Step

\* incrby, pttl, expire: a counter that nobody is about to give an expiration has
\* one, unless Redis failed or the sweep removed it with the old one.
THEOREM EndlessIsLost == Spec => []EndlessOnlyIfLost
<1>1. AllKept => EndlessOnlyIfLost
  BY DEF AllKept, Kept, EndlessOnlyIfLost
<1> QED
  BY <1>1, TypeInit, TypeStep, KeptInit, KeptStep, PTL DEF Spec
--------------------------------------------------------------------------------
\* A subset has no more elements, and one more or one less when one is added or
\* taken away.
LEMMA CardinalityOfThreads ==
  ASSUME NEW S \in SUBSET Threads, NEW T \in SUBSET Threads, NEW t \in Threads
  PROVE  /\ Cardinality(S) \in Nat
         /\ Cardinality(S) <= Cardinality(Threads)
         /\ T \subseteq S => Cardinality(T) <= Cardinality(S)
         /\ T \subseteq S \cup {t} => Cardinality(T) <= Cardinality(S) + 1
         /\ t \in S /\ T \subseteq S \ {t} => Cardinality(T) <= Cardinality(S) - 1
<1>1. IsFiniteSet(Threads) /\ IsFiniteSet(S) /\ IsFiniteSet(T)
  BY LimiterAssumption, FS_Subset
<1>2. Cardinality(S) \in Nat /\ Cardinality(S) <= Cardinality(Threads) /\ Cardinality(T) \in Nat
  BY <1>1, FS_Subset, FS_CardinalityType
<1>3. T \subseteq S => Cardinality(T) <= Cardinality(S)
  BY <1>1, FS_Subset
<1>4. ASSUME T \subseteq S \cup {t} PROVE Cardinality(T) <= Cardinality(S) + 1
  <2>1. IsFiniteSet(S \cup {t}) /\ Cardinality(S \cup {t}) \in {Cardinality(S), Cardinality(S) + 1}
    BY <1>1, FS_AddElement
  <2> QED
    BY <1>2, <1>4, <2>1, FS_Subset
<1>5. ASSUME t \in S, T \subseteq S \ {t} PROVE Cardinality(T) <= Cardinality(S) - 1
  <2>1. IsFiniteSet(S \ {t}) /\ Cardinality(S \ {t}) = Cardinality(S) - 1
    BY <1>1, <1>5, FS_RemoveElement
  <2> QED
    BY <1>2, <1>5, <2>1, FS_Subset
<1> QED
  BY <1>2, <1>3, <1>4, <1>5

--------------------------------------------------------------------------------
\* The thread will still count its call on the counter.
Due(t, k) == at[t] \in {"count", "put", "ttl", "expire"} /\ job[t] = "count" /\ k \in todo[t]

\* The threads that the counter accepted and that did not count themselves yet.
InFlight(k) == {t \in Threads : (at[t] = "check" /\ k \notin todo[t]) \/ Due(t, k)}

\* When the store adds at once, nothing is lost, and what is in flight was
\* accepted when one more call was within the limit.
Within(k) ==
    store = "redis" =>
        /\ passed[k] = Value(k)
        /\ passed[k] + Cardinality(InFlight(k)) <= Limit[k] + Cardinality(Threads) - 1

AllWithin == \A k \in Counters : Within(k)

\* Nothing is in flight at first, and there is a thread.
LEMMA WithinInit == Init => AllWithin
<1> SUFFICES ASSUME Init, NEW k \in Counters PROVE Within(k)
  BY DEF AllWithin
<1>1. InFlight(k) = {} /\ Cardinality(InFlight(k)) = 0
  BY FS_EmptySet DEF Init, InFlight, Due
<1>2. PICK t \in Threads : TRUE
  BY LimiterAssumption
<1>3. Cardinality(Threads) \in Nat /\ Cardinality(Threads) # 0
  BY <1>2, LimiterAssumption, FS_EmptySet, FS_CardinalityType
<1>4. passed[k] = 0 /\ Value(k) = 0 /\ Limit[k] \in Nat
  BY LimiterAssumption DEF Init, Value
<1> QED
  BY <1>1, <1>3, <1>4 DEF Within

\* A step that neither counts on a counter nor accepts for it.
LEMMA WithinKept ==
  ASSUME TypeInv, AllWithin, NEW k \in Counters, store' = store,
         InFlight(k)' \subseteq InFlight(k),
         \/ passed'[k] = passed[k] /\ Value(k)' = Value(k)
         \/ passed'[k] = 0 /\ Value(k)' = 0
  PROVE  Within(k)'
<1>1. PICK t \in Threads : TRUE
  BY LimiterAssumption
<1>2. InFlight(k) \in SUBSET Threads /\ InFlight(k)' \in SUBSET Threads
  BY DEF InFlight
<1>3. /\ Cardinality(InFlight(k)') <= Cardinality(InFlight(k))
      /\ Cardinality(InFlight(k)') \in Nat /\ Cardinality(InFlight(k)) \in Nat
      /\ Cardinality(Threads) \in Nat
  BY <1>1, <1>2, CardinalityOfThreads, LimiterAssumption, FS_CardinalityType
<1>4. passed[k] \in Nat /\ Value(k) \in Nat /\ Limit[k] \in Nat
  BY ValueType, LimiterAssumption DEF TypeInv, TypeOK
<1> QED
  BY <1>3, <1>4 DEF AllWithin, Within

\* Every step keeps it.
LEMMA WithinStep == TypeInv /\ AllWithin /\ [Next]_vars => AllWithin'
<1> SUFFICES ASSUME TypeInv, AllWithin, [Next]_vars, NEW j \in Counters PROVE Within(j)'
  BY DEF AllWithin
<1> USE LimiterAssumption DEF TypeInv, TypeOK, Control, Visiting
<1>0. /\ InFlight(j) \in SUBSET Threads /\ InFlight(j)' \in SUBSET Threads
      /\ Value(j) \in Nat /\ passed[j] \in Nat /\ Limit[j] \in Nat /\ Cardinality(Threads) \in Nat
  BY ValueType, FS_CardinalityType DEF InFlight
<1>1. ASSUME NEW t \in Threads, Begin(t) PROVE Within(j)'
  BY <1>1, WithinKept DEF Begin, storeVars, history, InFlight, Due, Value
<1>2. ASSUME NEW t \in Threads, NEW k \in Counters, Read(t, k) PROVE Within(j)'
  <2>1. store' = store /\ passed' = passed /\ Value(j)' = Value(j)
    BY <1>2 DEF Read, storeVars, Value
  <2>2. CASE ~AcceptsMore(k) \/ j # k
    <3>1. InFlight(j)' \subseteq InFlight(j)
      BY <1>2, <2>2 DEF Read, Turn, InFlight, Due
    <3> QED
      BY <2>1, <3>1, WithinKept
  <2>3. CASE AcceptsMore(k) /\ j = k
    <3>1. Cardinality(InFlight(j)') \in Nat /\ Cardinality(InFlight(j)') <= Cardinality(Threads)
      BY <1>0, CardinalityOfThreads
    <3>2. Value(j) + 1 <= Limit[j]
      BY <2>3 DEF AcceptsMore
    <3> QED
      BY <1>0, <2>1, <3>1, <3>2 DEF AllWithin, Within
  <2> QED
    BY <2>2, <2>3
<1>3. ASSUME NEW t \in Threads, NEW k \in Counters, Count(t, k) PROVE Within(j)'
  <2>1. CASE store = "memory" \/ j # k
    <3>1. InFlight(j)' \subseteq InFlight(j) /\ passed'[j] = passed[j] /\ Value(j)' = Value(j)
      BY <1>3, <2>1 DEF Count, Turn, InFlight, Due, Value
    <3> QED
      BY <1>3, <3>1, WithinKept DEF Count
  <2>2. CASE store = "redis" /\ j = k
    <3>1. t \in InFlight(j) /\ InFlight(j)' \subseteq InFlight(j) \ {t}
      BY <1>3, <2>2 DEF Count, Turn, InFlight, Due
    <3>2. /\ Cardinality(InFlight(j)') <= Cardinality(InFlight(j)) - 1
          /\ Cardinality(InFlight(j)) \in Nat /\ Cardinality(InFlight(j)') \in Nat
      BY <1>0, <3>1, CardinalityOfThreads
    <3>3. passed'[j] = passed[j] + 1 /\ value'[j] = Value(j) + 1
      BY <1>3, <2>2 DEF Count
    <3>4. Value(j)' = Value(j) + 1
      BY <1>0, <3>3 DEF Value
    <3> QED
      BY <1>0, <2>2, <3>2, <3>3, <3>4 DEF AllWithin, Within
  <2> QED
    BY <2>1, <2>2
<1>4. ASSUME NEW t \in Threads, Put(t) PROVE Within(j)'
  BY <1>4 DEF Put, Within
<1>5. ASSUME NEW t \in Threads, CheckTtl(t) PROVE Within(j)'
  BY <1>5, WithinKept DEF CheckTtl, GoesOn, storeVars, history, InFlight, Due, Value
<1>6. ASSUME NEW t \in Threads, Expire(t) PROVE Within(j)'
  BY <1>6, WithinKept DEF Expire, GoesOn, InFlight, Due, Value
<1>7. ASSUME NEW t \in Threads, Fail(t) PROVE Within(j)'
  BY <1>7, WithinKept DEF Fail, GivesUp, SkipsCounter, Recovers, GoesOn, Turn, storeVars, InFlight, Due, Value
<1>8. ASSUME NEW t \in Threads, BeginReset(t) PROVE Within(j)'
  BY <1>8, WithinKept DEF BeginReset, storeVars, history, InFlight, Due, Value
<1>9. ASSUME NEW t \in Threads, NEW k \in Counters, Zero(t, k) PROVE Within(j)'
  BY <1>9, WithinKept DEF Zero, InFlight, Due, Value
<1>10. ASSUME NEW t \in Threads, Quotas(t) PROVE Within(j)'
  BY <1>10, WithinKept DEF Quotas, storeVars, history, InFlight, Due, Value
<1>11. ASSUME NEW k \in Counters, TimeOut(k) PROVE Within(j)'
  BY <1>11, WithinKept DEF TimeOut, threadVars, InFlight, Due, Value
<1>12. ASSUME NEW k \in Counters, Sweep(k) PROVE Within(j)'
  BY <1>12 DEF Sweep, SweepFinds, SweepValue, SweepExpiry, Within
<1>13. CASE UNCHANGED vars
  BY <1>13, WithinKept DEF vars, storeVars, threadVars, history, InFlight, Due, Value
<1> HIDE DEF TypeInv, TypeOK, Control, Visiting
<1> QED
  BY <1>1, <1>2, <1>3, <1>4, <1>5, <1>6, <1>7, <1>8, <1>9, <1>10, <1>11, <1>12, <1>13
     DEF Next, Step

\* check before incrementCounters: when the store adds at once, the calls that go
\* through above a limit are among those in flight when it was reached.
THEOREM RedisOvershoot == Spec => []OvershootOnRedis
<1>1. TypeInv /\ AllWithin => OvershootOnRedis
  <2> SUFFICES ASSUME TypeInv, AllWithin, store = "redis", NEW k \in Counters
               PROVE  passed[k] <= Limit[k] + Cardinality(Threads) - 1
    BY DEF OvershootOnRedis
  <2>1. PICK t \in Threads : TRUE
    BY LimiterAssumption
  <2>2. Cardinality(InFlight(k)) \in Nat /\ Cardinality(Threads) \in Nat
    BY <2>1, CardinalityOfThreads, LimiterAssumption, FS_CardinalityType DEF InFlight
  <2>3. passed[k] \in Nat /\ Limit[k] \in Nat
    BY LimiterAssumption DEF TypeInv, TypeOK
  <2> QED
    BY <2>2, <2>3 DEF AllWithin, Within
<1> QED
  BY <1>1, TypeInit, TypeStep, WithinInit, WithinStep, PTL DEF Spec

--------------------------------------------------------------------------------
\* The threads that were let through and that the counter does not show yet.
Owing(k) == {t \in Threads : Due(t, k) \/ (at[t] = "put" /\ key[t] = k)}

\* What a counter holds, or will hold once a thread has put what it read, and the
\* calls that it does not show yet are all calls that were let through.
Counted(k) ==
    /\ Value(k) + Cardinality(Owing(k)) <= admitted
    /\ \A t \in Threads :
          at[t] = "put" /\ key[t] = k => seen[t] + Cardinality(Owing(k)) <= admitted

AllCounted == \A k \in Counters : Counted(k)

\* Nobody was let through at first.
LEMMA CountedInit == Init => AllCounted
<1> SUFFICES ASSUME Init, NEW k \in Counters PROVE Counted(k)
  BY DEF AllCounted
<1>1. Owing(k) = {} /\ Cardinality(Owing(k)) = 0
  BY FS_EmptySet DEF Init, Owing, Due
<1> QED
  BY <1>1, LimiterAssumption DEF Init, Value, Counted

\* A step that shows no more calls and lets none through.
LEMMA CountedKept ==
  ASSUME TypeInv, AllCounted, NEW k \in Counters, admitted' = admitted, Owing(k)' \subseteq Owing(k),
         Value(k)' = Value(k) \/ Value(k)' = 0,
         \A t \in Threads : at'[t] = "put" /\ key'[t] = k =>
             \/ at[t] = "put" /\ key[t] = k /\ seen'[t] = seen[t]
             \/ seen'[t] = Value(k)
  PROVE  Counted(k)'
<1>1. PICK t \in Threads : TRUE
  BY LimiterAssumption
<1>2. Owing(k) \in SUBSET Threads /\ Owing(k)' \in SUBSET Threads
  BY DEF Owing
<1>3. /\ Cardinality(Owing(k)') <= Cardinality(Owing(k))
      /\ Cardinality(Owing(k)') \in Nat /\ Cardinality(Owing(k)) \in Nat
  BY <1>1, <1>2, CardinalityOfThreads
<1>4. Value(k) \in Nat /\ admitted \in Nat /\ seen \in [Threads -> Nat]
  BY ValueType DEF TypeInv, TypeOK
<1>5. Value(k)' + Cardinality(Owing(k)') <= admitted'
  BY <1>3, <1>4 DEF AllCounted, Counted
<1>6. ASSUME NEW u \in Threads, at'[u] = "put" /\ key'[u] = k
      PROVE  seen'[u] + Cardinality(Owing(k)') <= admitted'
  BY <1>3, <1>4, <1>6 DEF AllCounted, Counted
<1> QED
  BY <1>5, <1>6 DEF Counted

\* Every step keeps it.
LEMMA CountedStep == TypeInv /\ AllCounted /\ [Next]_vars => AllCounted'
<1> SUFFICES ASSUME TypeInv, AllCounted, [Next]_vars, NEW j \in Counters PROVE Counted(j)'
  BY DEF AllCounted
<1> USE LimiterAssumption DEF TypeInv, TypeOK, Control, Visiting
<1>0. /\ Owing(j) \in SUBSET Threads /\ Owing(j)' \in SUBSET Threads
      /\ Value(j) \in Nat
  BY ValueType DEF Owing
<1>1. ASSUME NEW t \in Threads, Begin(t) PROVE Counted(j)'
  BY <1>1, CountedKept DEF Begin, storeVars, history, Owing, Due, Value
<1>2. ASSUME NEW t \in Threads, NEW k \in Counters, Read(t, k) PROVE Counted(j)'
  <2>1. Value(j)' = Value(j) /\ seen' = seen /\ key' = key
    BY <1>2 DEF Read, storeVars, Value
  <2>2. CASE admitted' = admitted
    <3>1. Owing(j)' \subseteq Owing(j)
      BY <1>2, <2>2 DEF Read, Turn, Owing, Due
    <3>2. \A u \in Threads : at'[u] = "put" => at[u] = "put"
      BY <1>2 DEF Read
    <3> QED
      BY <2>1, <2>2, <3>1, <3>2, CountedKept
  <2>3. CASE admitted' = admitted + 1
    <3>1. Owing(j)' \subseteq Owing(j) \cup {t}
      BY <1>2, <2>3 DEF Read, Turn, Owing, Due
    <3>2. /\ Cardinality(Owing(j)') <= Cardinality(Owing(j)) + 1
          /\ Cardinality(Owing(j)') \in Nat /\ Cardinality(Owing(j)) \in Nat
      BY <1>0, <3>1, CardinalityOfThreads
    <3>3. \A u \in Threads : at'[u] = "put" => at[u] = "put"
      BY <1>2 DEF Read
    <3> QED
      BY <1>0, <2>1, <2>3, <3>2, <3>3 DEF AllCounted, Counted
  <2> QED
    BY <1>2, <2>2, <2>3 DEF Read
<1>3. ASSUME NEW t \in Threads, NEW k \in Counters, Count(t, k) PROVE Counted(j)'
  <2>1. CASE store = "memory" \/ j # k
    <3>1. Owing(j)' \subseteq Owing(j) /\ Value(j)' = Value(j) /\ admitted' = admitted
      BY <1>3, <2>1 DEF Count, Turn, Owing, Due, Value
    <3>2. ASSUME NEW u \in Threads, at'[u] = "put" /\ key'[u] = j
          PROVE  \/ at[u] = "put" /\ key[u] = j /\ seen'[u] = seen[u]
                 \/ seen'[u] = Value(j)
      BY <1>3, <3>2 DEF Count
    <3> QED
      BY <3>1, <3>2, CountedKept
  <2>2. CASE store = "redis" /\ j = k
    <3>1. t \in Owing(j) /\ Owing(j)' \subseteq Owing(j) \ {t}
      BY <1>3, <2>2 DEF Count, Turn, Owing, Due
    <3>2. /\ Cardinality(Owing(j)') <= Cardinality(Owing(j)) - 1
          /\ Cardinality(Owing(j)) \in Nat /\ Cardinality(Owing(j)') \in Nat
      BY <1>0, <3>1, CardinalityOfThreads
    <3>3. admitted' = admitted /\ value'[j] = Value(j) + 1
      BY <1>3, <2>2 DEF Count
    <3>4. Value(j)' = Value(j) + 1
      BY <1>0, <3>3 DEF Value
    <3>5. \A u \in Threads : at'[u] # "put"
      BY <1>3, <2>2 DEF Count
    <3> QED
      BY <1>0, <3>2, <3>3, <3>4, <3>5 DEF AllCounted, Counted
  <2> QED
    BY <2>1, <2>2
<1>4. ASSUME NEW t \in Threads, Put(t) PROVE Counted(j)'
  <2>1. CASE j # key[t]
    BY <1>4, <2>1, CountedKept DEF Put, Owing, Due, Value
  <2>2. CASE j = key[t]
    <3>1. t \in Owing(j) /\ Owing(j)' \subseteq Owing(j) \ {t}
      BY <1>4, <2>2 DEF Put, Owing, Due
    <3>2. /\ Cardinality(Owing(j)') <= Cardinality(Owing(j)) - 1
          /\ Cardinality(Owing(j)) \in Nat /\ Cardinality(Owing(j)') \in Nat
      BY <1>0, <3>1, CardinalityOfThreads
    <3>3. admitted' = admitted /\ value'[j] = seen[t] + 1 /\ seen[t] \in Nat
      BY <1>4, <2>2 DEF Put
    <3>4. Value(j)' = seen[t] + 1
      BY <3>3 DEF Value
    <3>5. seen[t] + Cardinality(Owing(j)) <= admitted
      BY <1>4, <2>2 DEF Put, AllCounted, Counted
    <3>6. Value(j)' + Cardinality(Owing(j)') <= admitted'
      BY <3>2, <3>3, <3>4, <3>5
    <3>7. ASSUME NEW u \in Threads, at'[u] = "put" /\ key'[u] = j
          PROVE  seen'[u] + Cardinality(Owing(j)') <= admitted'
      <4>1. at[u] = "put" /\ key[u] = j /\ seen'[u] = seen[u]
        BY <1>4, <3>7 DEF Put
      <4> QED
        BY <3>2, <3>3, <4>1 DEF AllCounted, Counted
    <3> QED
      BY <3>6, <3>7 DEF Counted
  <2> QED
    BY <2>1, <2>2
<1>5. ASSUME NEW t \in Threads, CheckTtl(t) PROVE Counted(j)'
  BY <1>5, CountedKept DEF CheckTtl, GoesOn, storeVars, history, Owing, Due, Value
<1>6. ASSUME NEW t \in Threads, Expire(t) PROVE Counted(j)'
  BY <1>6, CountedKept DEF Expire, GoesOn, Owing, Due, Value
<1>7. ASSUME NEW t \in Threads, Fail(t) PROVE Counted(j)'
  BY <1>7, CountedKept DEF Fail, GivesUp, SkipsCounter, Recovers, GoesOn, Turn, storeVars, Owing, Due, Value
<1>8. ASSUME NEW t \in Threads, BeginReset(t) PROVE Counted(j)'
  BY <1>8, CountedKept DEF BeginReset, storeVars, history, Owing, Due, Value
<1>9. ASSUME NEW t \in Threads, NEW k \in Counters, Zero(t, k) PROVE Counted(j)'
  BY <1>9, CountedKept DEF Zero, Owing, Due, Value
<1>10. ASSUME NEW t \in Threads, Quotas(t) PROVE Counted(j)'
  BY <1>10, CountedKept DEF Quotas, storeVars, history, Owing, Due, Value
<1>11. ASSUME NEW k \in Counters, TimeOut(k) PROVE Counted(j)'
  BY <1>11, CountedKept DEF TimeOut, threadVars, Owing, Due, Value
<1>12. ASSUME NEW k \in Counters, Sweep(k) PROVE Counted(j)'
  BY <1>12, CountedKept
     DEF Sweep, SweepFinds, SweepValue, SweepExpiry, threadVars, history, Owing, Due, Value
<1>13. CASE UNCHANGED vars
  BY <1>13, CountedKept DEF vars, storeVars, threadVars, history, Owing, Due, Value
<1> HIDE DEF TypeInv, TypeOK, Control, Visiting
<1> QED
  BY <1>1, <1>2, <1>3, <1>4, <1>5, <1>6, <1>7, <1>8, <1>9, <1>10, <1>11, <1>12, <1>13
     DEF Next, Step

\* checkAndIncrement: whatever two writes lose and a window hands to the next, a
\* counter never holds a call that was turned away.
THEOREM NeverOvercounted == Spec => []NeverOvercounts
<1>1. TypeInv /\ AllCounted => NeverOvercounts
  <2> SUFFICES ASSUME TypeInv, AllCounted, NEW k \in Counters PROVE Value(k) <= admitted
    BY DEF NeverOvercounts
  <2>1. PICK t \in Threads : TRUE
    BY LimiterAssumption
  <2>2. Cardinality(Owing(k)) \in Nat
    BY <2>1, CardinalityOfThreads DEF Owing
  <2>3. Value(k) \in Nat /\ admitted \in Nat
    BY ValueType DEF TypeInv, TypeOK
  <2> QED
    BY <2>2, <2>3 DEF AllCounted, Counted
<1> QED
  BY <1>1, TypeInit, TypeStep, CountedInit, CountedStep, PTL DEF Spec
================================================================================
