------------------------------ MODULE RateLimiter ------------------------------
(***************************************************************************)
(* The counters of a key: trait ThrottlingStrategy of                      *)
(* otoroshi/app/next/plugins/rateLimiting.scala, as LegacyThrottling-      *)
(* Strategy and DistributedRedisThrottlingStrategy use it, over the two    *)
(* kinds of stores it runs on: Redis, which expires a counter by itself    *)
(* and adds to it at once, and SwappableInMemoryRedis, which reads a       *)
(* counter and then writes it, and whose sweep removes what expired.       *)
(*                                                                         *)
(* A call reads every counter, and is turned away, or counts itself on     *)
(* each of them and gives an expiration to those that have none.  Calls    *)
(* run on many threads, and so do the requests of the admin API.  Time is  *)
(* not counted: an expiration that is live may be over at any moment.      *)
(*                                                                         *)
(* The counters of a call are visited one after the other, as they are in   *)
(* memory; Redis is sent the commands for all of them together.             *)
(* Left out: the counter of all the calls, which has neither a limit nor   *)
(* an expiration, and what a call is told about the quotas.                *)
(***************************************************************************)
EXTENDS Integers, FiniteSets

CONSTANTS
    Threads,      \* what serves a call or a request of the admin API
    Counters,     \* of the window, the day, the month
    Window,       \* the one of the window
    Order,        \* the order in which they are visited
    Limit,        \* AllowedQuota
    Stores,       \* kinds of stores considered: "redis", "memory"
    None,         \* no value
    MaxCalls,     \* bound: calls
    MaxOthers,    \* bound: requests of the admin API
    MaxFailures   \* bound: commands that Redis does not answer

ASSUME LimiterAssumption ==
    /\ IsFiniteSet(Threads) /\ Threads # {}
    /\ Window \in Counters
    /\ Order \in [Counters -> Nat]
    /\ Limit \in [Counters -> Nat]
    /\ Stores \subseteq {"redis", "memory"}
    /\ None \notin Nat \cup Counters
    /\ MaxCalls \in Nat /\ MaxOthers \in Nat /\ MaxFailures \in Nat

VARIABLES
    store,      \* the kind of the store
    value,      \* the counters in the store
    expiry,     \* their expirations: "none", "live", or "expired" and not yet swept
    sweep,      \* the counter that the sweep found expired and removes, or None
    removed,    \* is its value removed already, and its expiration next?
    at,         \* where a thread stands
    job,        \* what it counts or resets for
    todo,       \* the counters that it did not visit yet
    key,        \* the one that it visits, or None
    seen,       \* the value that incrby read
    calls,      \* so far
    others,     \* requests of the admin API so far
    failures,   \* commands that Redis did not answer so far
    admitted,   \* history: calls that were not turned away
    passed,     \* history: calls counted on a counter since it was removed or reset
    lost        \* history: counters whose expiration was not set because Redis failed,
                \* or was set while the sweep removed the old one

storeVars  == <<store, value, expiry, sweep, removed>>
threadVars == <<at, job, todo, key, seen>>
bounds     == <<calls, others, failures>>
history    == <<admitted, passed, lost>>
vars       == <<storeVars, threadVars, bounds, history>>

Value(k) == IF value[k] = None THEN 0 ELSE value[k]

Init ==
    /\ store \in Stores
    /\ value = [k \in Counters |-> None]
    /\ expiry = [k \in Counters |-> "none"]
    /\ sweep = None /\ removed = FALSE
    /\ at = [t \in Threads |-> "idle"]
    /\ job = [t \in Threads |-> "count"]
    /\ todo = [t \in Threads |-> {}]
    /\ key = [t \in Threads |-> None]
    /\ seen = [t \in Threads |-> 0]
    /\ calls = 0 /\ others = 0 /\ failures = 0
    /\ admitted = 0
    /\ passed = [k \in Counters |-> 0]
    /\ lost = {}

-------------------------------------------------------------------------------
(* checkAndIncrement: check, then incrementCounters. *)

Begin(t) ==
    /\ at[t] = "idle"
    /\ calls < MaxCalls
    /\ calls' = calls + 1
    /\ at' = [at EXCEPT ![t] = "check"]
    /\ todo' = [todo EXCEPT ![t] = Counters]
    /\ UNCHANGED <<storeVars, job, key, seen, others, failures, history>>

(* The counter that a thread visits next. *)
Turn(t, k) == k \in todo[t] /\ \A j \in todo[t] : Order[k] <= Order[j]

\* Mutant: the question that is asked of a counter already incremented.
AcceptsMore_Within(k) == Value(k) <= Limit[k]

(* Quota.acceptsMore(1) *)
AcceptsMore(k) == Value(k) + 1 <= Limit[k]

\* Mutant: a call is counted, and turned away afterwards.
Read_CountsAll(t, k) ==
    /\ at[t] = "check"
    /\ Turn(t, k)
    /\ \/ /\ AcceptsMore(k)
          /\ todo[t] # {k}
          /\ todo' = [todo EXCEPT ![t] = @ \ {k}]
          /\ UNCHANGED <<at, job, admitted>>
       \/ /\ ~AcceptsMore(k) \/ todo[t] = {k}
          /\ at' = [at EXCEPT ![t] = "count"]
          /\ job' = [job EXCEPT ![t] = "count"]
          /\ todo' = [todo EXCEPT ![t] = Counters]
          /\ admitted' = IF AcceptsMore(k) THEN admitted + 1 ELSE admitted
    /\ UNCHANGED <<storeVars, key, seen, bounds, passed, lost>>

(* check: a counter is read.  A full one turns the call away, whatever the     *)
(* others say; when all of them accept the call it goes on to count itself.   *)
Read(t, k) ==
    /\ at[t] = "check"
    /\ Turn(t, k)
    /\ \/ /\ ~AcceptsMore(k)
          /\ at' = [at EXCEPT ![t] = "idle"]
          /\ todo' = [todo EXCEPT ![t] = {}]
          /\ UNCHANGED <<job, admitted>>
       \/ /\ AcceptsMore(k)
          /\ todo[t] # {k}
          /\ todo' = [todo EXCEPT ![t] = @ \ {k}]
          /\ UNCHANGED <<at, job, admitted>>
       \/ /\ AcceptsMore(k)
          /\ todo[t] = {k}
          /\ at' = [at EXCEPT ![t] = "count"]
          /\ job' = [job EXCEPT ![t] = "count"]
          /\ todo' = [todo EXCEPT ![t] = Counters]
          /\ admitted' = admitted + 1
    /\ UNCHANGED <<storeVars, key, seen, bounds, passed, lost>>

(* incrby: Redis adds, the memory is read first. *)
Count(t, k) ==
    /\ at[t] = "count"
    /\ Turn(t, k)
    /\ todo' = [todo EXCEPT ![t] = @ \ {k}]
    /\ key' = [key EXCEPT ![t] = k]
    /\ \/ /\ store = "redis"
          /\ value' = [value EXCEPT ![k] = Value(k) + 1]
          /\ passed' = [passed EXCEPT ![k] = @ + 1]
          /\ at' = [at EXCEPT ![t] = "ttl"]
          /\ UNCHANGED seen
       \/ /\ store = "memory"
          /\ seen' = [seen EXCEPT ![t] = Value(k)]
          /\ at' = [at EXCEPT ![t] = "put"]
          /\ UNCHANGED <<value, passed>>
    /\ UNCHANGED <<store, expiry, sweep, removed, job, bounds, admitted, lost>>

(* incrby of SwappableInMemoryRedis: store.put *)
Put(t) ==
    /\ at[t] = "put"
    /\ value' = [value EXCEPT ![key[t]] = seen[t] + 1]
    /\ passed' = [passed EXCEPT ![key[t]] = @ + 1]
    /\ at' = [at EXCEPT ![t] = "ttl"]
    /\ seen' = [seen EXCEPT ![t] = 0]
    /\ UNCHANGED <<store, expiry, sweep, removed, job, todo, key, bounds, admitted, lost>>

(* The next counter, if there is one. *)
GoesOn(t) ==
    /\ at' = [at EXCEPT ![t] = IF todo[t] = {} THEN "idle" ELSE job[t]]
    /\ key' = [key EXCEPT ![t] = None]

\* Mutant: what expired and was not swept yet still has an expiration.
NoTtl_Expired(k) ==
    IF store = "redis" THEN value[k] # None /\ expiry[k] = "none"
                       ELSE expiry[k] = "none"

(* pttl = -1: in memory also for what expired, and for what does not exist. *)
NoTtl(k) ==
    IF store = "redis" THEN value[k] # None /\ expiry[k] = "none"
                       ELSE expiry[k] # "live"

CheckTtl(t) ==
    /\ at[t] = "ttl"
    /\ IF NoTtl(key[t]) THEN at' = [at EXCEPT ![t] = "expire"] /\ UNCHANGED key ELSE GoesOn(t)
    /\ UNCHANGED <<storeVars, job, todo, seen, bounds, history>>

(* expire: Redis refuses it for a counter that is gone. *)
Expire(t) ==
    /\ at[t] = "expire"
    /\ IF store = "redis" /\ value[key[t]] = None
       THEN UNCHANGED <<expiry, lost>>
       ELSE /\ expiry' = [expiry EXCEPT ![key[t]] = "live"]
            /\ lost' = IF sweep = key[t] THEN lost \cup {key[t]}
                                     ELSE lost \ {key[t]}
    /\ GoesOn(t)
    /\ UNCHANGED <<store, value, sweep, removed, job, todo, seen, bounds, admitted, passed>>

(* A counter left without the expiration that it was about to be given. *)
LosesTtl(t) ==
    lost' = IF at[t] \in {"ttl", "expire"} /\ NoTtl(key[t]) THEN lost \cup {key[t]} ELSE lost

(* What is left of a call or of a request is not done: the commands of check   *)
(* and of reset wait for each other, and the instance may have stopped.       *)
GivesUp(t) ==
    /\ at' = [at EXCEPT ![t] = "idle"]
    /\ todo' = [todo EXCEPT ![t] = {}]
    /\ key' = [key EXCEPT ![t] = None]
    /\ LosesTtl(t)

(* incrementCounters: the other counters, whose commands are sent already, are *)
(* counted all the same.                                                      *)
SkipsCounter(t) ==
    \/ \E k \in Counters :
          /\ at[t] = "count" /\ Turn(t, k)
          /\ todo' = [todo EXCEPT ![t] = @ \ {k}]
          /\ at' = [at EXCEPT ![t] = IF todo[t] = {k} THEN "idle" ELSE "count"]
          /\ UNCHANGED <<key, lost>>
    \/ /\ at[t] \in {"ttl", "expire"} /\ job[t] = "count"
       /\ GoesOn(t)
       /\ LosesTtl(t)
       /\ UNCHANGED todo

(* reset: an expiration that cannot be read is set. *)
Recovers(t) ==
    /\ at[t] = "ttl" /\ job[t] = "reset" /\ key[t] # Window
    /\ at' = [at EXCEPT ![t] = "expire"]
    /\ UNCHANGED <<todo, key, lost>>

(* A command that Redis does not answer. *)
Fail(t) ==
    /\ store = "redis"
    /\ at[t] # "idle"
    /\ failures < MaxFailures
    /\ failures' = failures + 1
    /\ GivesUp(t) \/ SkipsCounter(t) \/ Recovers(t)
    /\ UNCHANGED <<storeVars, job, seen, calls, others, admitted, passed>>

-------------------------------------------------------------------------------
(* The admin API. *)

(* reset *)
BeginReset(t) ==
    /\ at[t] = "idle"
    /\ others < MaxOthers
    /\ others' = others + 1
    /\ at' = [at EXCEPT ![t] = "reset"]
    /\ job' = [job EXCEPT ![t] = "reset"]
    /\ todo' = [todo EXCEPT ![t] = Counters]
    /\ UNCHANGED <<storeVars, key, seen, calls, failures, history>>

\* Mutant: a reset gives back the limit.
Zero_GivesBack(t, k) ==
    /\ at[t] = "reset"
    /\ Turn(t, k)
    /\ todo' = [todo EXCEPT ![t] = @ \ {k}]
    /\ key' = [key EXCEPT ![t] = k]
    /\ at' = [at EXCEPT ![t] = "ttl"]
    /\ value' = [value EXCEPT ![k] = Value(k) - Limit[k]]
    /\ UNCHANGED <<store, expiry, passed, sweep, removed, job, seen, bounds, admitted, lost>>

(* reset: the counters are set to 0, but for the one of the window, and their   *)
(* expirations looked at.  SET drops an expiration in Redis and keeps it in    *)
(* memory.                                                                    *)
Zero(t, k) ==
    /\ at[t] = "reset"
    /\ Turn(t, k)
    /\ todo' = [todo EXCEPT ![t] = @ \ {k}]
    /\ key' = [key EXCEPT ![t] = k]
    /\ at' = [at EXCEPT ![t] = "ttl"]
    /\ IF k = Window
       THEN UNCHANGED <<value, expiry, passed>>
       ELSE /\ value' = [value EXCEPT ![k] = 0]
            /\ passed' = [passed EXCEPT ![k] = 0]
            /\ expiry' = IF store = "redis" THEN [expiry EXCEPT ![k] = "none"] ELSE expiry
    /\ UNCHANGED <<store, sweep, removed, job, seen, bounds, admitted, lost>>

(* quotas: they are read, and the window is given an expiration. *)
Quotas(t) ==
    /\ at[t] = "idle"
    /\ others < MaxOthers
    /\ others' = others + 1
    /\ at' = [at EXCEPT ![t] = "ttl"]
    /\ key' = [key EXCEPT ![t] = Window]
    /\ UNCHANGED <<storeVars, job, todo, seen, calls, failures, history>>

-------------------------------------------------------------------------------
(* The end of a window. *)

TimeOut(k) ==
    /\ expiry[k] = "live"
    /\ \/ /\ store = "redis"
          /\ value' = [value EXCEPT ![k] = None]
          /\ expiry' = [expiry EXCEPT ![k] = "none"]
          /\ passed' = [passed EXCEPT ![k] = 0]
       \/ /\ store = "memory"
          /\ expiry' = [expiry EXCEPT ![k] = "expired"]
          /\ UNCHANGED <<value, passed>>
    /\ UNCHANGED <<store, sweep, removed, threadVars, bounds, admitted, lost>>

\* Mutant: the sweep never goes past the counter of the window.
SweepFinds_First(k) ==
    /\ store = "memory"
    /\ sweep = None
    /\ k = Window
    /\ expiry[k] = "expired"
    /\ sweep' = k
    /\ UNCHANGED <<store, value, expiry, removed, threadVars, bounds, history>>

(* The sweep of SwappableInMemoryRedis: an entry of the expirations is read,    *)
(* and then the key removed from the store and from the expirations.          *)
SweepFinds(k) ==
    /\ store = "memory"
    /\ sweep = None
    /\ expiry[k] = "expired"
    /\ sweep' = k
    /\ UNCHANGED <<store, value, expiry, removed, threadVars, bounds, history>>

SweepValue(k) ==
    /\ sweep = k
    /\ ~removed
    /\ removed' = TRUE
    /\ value' = [value EXCEPT ![k] = None]
    /\ passed' = [passed EXCEPT ![k] = 0]
    /\ UNCHANGED <<store, expiry, sweep, threadVars, bounds, admitted, lost>>

SweepExpiry(k) ==
    /\ sweep = k
    /\ removed
    /\ sweep' = None
    /\ removed' = FALSE
    /\ expiry' = [expiry EXCEPT ![k] = "none"]
    /\ UNCHANGED <<store, value, threadVars, bounds, history>>

Sweep(k) == SweepFinds(k) \/ SweepValue(k) \/ SweepExpiry(k)

Step(t) ==
    \/ \E k \in Counters : Read(t, k) \/ Count(t, k) \/ Zero(t, k)
    \/ Put(t) \/ CheckTtl(t) \/ Expire(t)

Next ==
    \/ \E t \in Threads : Begin(t) \/ BeginReset(t) \/ Quotas(t) \/ Step(t) \/ Fail(t)
    \/ \E k \in Counters : TimeOut(k) \/ Sweep(k)

(* Threads run, time passes, and the sweep is run again and again. *)
Fairness ==
    /\ \A t \in Threads : WF_vars(Step(t))
    /\ \A k \in Counters : WF_vars(TimeOut(k)) /\ WF_vars(Sweep(k))

Spec     == Init /\ [][Next]_vars
FairSpec == Spec /\ Fairness

-------------------------------------------------------------------------------
(* Types. *)
TypeOK ==
    /\ store \in {"redis", "memory"}
    /\ value \in [Counters -> Nat \cup {None}]
    /\ expiry \in [Counters -> {"none", "live", "expired"}]
    /\ sweep \in Counters \cup {None} /\ removed \in BOOLEAN
    /\ at \in [Threads -> {"idle", "check", "count", "put", "reset", "ttl", "expire"}]
    /\ job \in [Threads -> {"count", "reset"}]
    /\ todo \in [Threads -> SUBSET Counters]
    /\ key \in [Threads -> Counters \cup {None}]
    /\ seen \in [Threads -> Nat]
    /\ calls \in Nat /\ others \in Nat /\ failures \in Nat
    /\ admitted \in Nat
    /\ passed \in [Counters -> Nat]
    /\ lost \subseteq Counters

(* checkAndIncrement: whatever is lost between two writes and carried over      *)
(* from a window to the next, no counter ever holds more calls than were let   *)
(* through: a call that was turned away is never counted.                      *)
NeverOvercounts == \A k \in Counters : Value(k) <= admitted

(* check before incrementCounters: the calls that go through above a limit are *)
(* among those that were in flight when it was reached, if the store adds at   *)
(* once.                                                                      *)
OvershootOnRedis ==
    store = "redis" =>
        \A k \in Counters : passed[k] <= Limit[k] + Cardinality(Threads) - 1

(* No thread is about to look at the expiration of the counter. *)
Left(k) == \A t \in Threads : key[t] # k

(* incrby, pttl, expire against the sweep and against commands that fail: a     *)
(* counter that nobody is about to give an expiration has one.  Without one,   *)
(* a full counter would turn away every call, and so never be given any.  It   *)
(* exists only if Redis failed to answer, or if the sweep removed, with the    *)
(* old expiration, one that was given meanwhile.                              *)
EndlessOnlyIfLost ==
    \A k \in Counters :
        value[k] # None /\ expiry[k] = "none" /\ Left(k) => k \in lost

(* A counter at its limit is reset by the end of its window. *)
WindowEnds ==
    \A k \in Counters :
        Value(k) >= Limit[k] /\ Value(k) > 0 ~> Value(k) = 0 \/ k \in lost

(* checkAndIncrement, comment: "the overshoot is bounded by how many calls are  *)
(* in flight", whatever the store.                                            *)
OvershootInFlight ==
    \A k \in Counters : passed[k] <= Limit[k] + Cardinality(Threads)
================================================================================
