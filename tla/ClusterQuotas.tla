------------------------------ MODULE ClusterQuotas ------------------------------
(***************************************************************************)
(* How a worker reports the calls it counted to the leaders, over http:    *)
(* ClusterAgent.incrementApi/incrementService/incrementCustomQuota and     *)
(* pushQuotas of otoroshi/app/cluster/cluster.scala, the Retry it uses     *)
(* (gateway/circuitbreakers.scala), and ClusterController.updateState on   *)
(* the leader.                                                             *)
(*                                                                         *)
(* Request threads of the worker look their counter up in the map that     *)
(* quotaIncrs holds, then add to it; every two seconds the push swaps the  *)
(* map for an empty one and sends what the old map counts, as one stream   *)
(* of messages that the leader applies one by one.  The stream may break,  *)
(* its answer may come late or never, and an attempt the worker gave up on *)
(* may still be running at the leader when the next one starts.            *)
(***************************************************************************)
EXTENDS Naturals

CONSTANTS
    Keys,         \* counters of quotaIncrs: an apikey, a route, a custom quota
    Restored,     \* those that a failed push puts back: ApikeyCallIncr, RouteCallIncr
    Threads,      \* request threads of the worker
    Requests,     \* bound: http requests that may be open at the leader
    None,         \* no request is awaited
    Times,        \* worker.quotas.retries: attempts of one push
    MaxCalls,     \* bound: increments started
    MaxFailures   \* bound: attempts that fail for the worker

ASSUME QuotasAssumption ==
    /\ Restored \subseteq Keys
    /\ None \notin Requests
    /\ Times \in Nat /\ MaxCalls \in Nat /\ MaxFailures \in Nat

VARIABLES
    present,    \* the keys of the current map
    cur,        \* the counts of the current map, 0 for a key that is absent
    pushing,    \* isPushingQuotas
    oldKeys,    \* the keys of oldQuotasIncr, the map a push in progress sends
    old,        \* its counts
    tries,      \* attempts left to Retry
    waiting,    \* the request whose answer pushQuotas awaits
    answer,     \* its answer: "none" yet, "ok", or "error"
    open,       \* requests the leader is still working on
    items,      \* messages of a request that are not applied yet
    total,      \* what the leader counted
    pc, key, ref,  \* a thread: its step, its counter, the map its entry is in
    \* history, read by no action:
    calls,      \* increments started
    made,       \* increments finished
    crossed,    \* threads whose increment was in progress when a push swapped the map
    late,       \* finished increments that were in progress at such a swap
    failures,   \* attempts that failed for the worker
    base,       \* total when the push in progress swapped the map
    atSwap      \* cur when the push in progress swapped the map

threadVars  == <<pc, key, ref>>
mapVars     == <<present, cur>>
oldVars     == <<oldKeys, old>>
pushVars    == <<pushing, tries, waiting, answer>>
requestVars == <<open, items>>
swapVars    == <<base, atSwap>>
vars == <<mapVars, pushVars, oldVars, requestVars, total, threadVars,
          calls, made, crossed, late, failures, swapVars>>

Zero == [k \in Keys |-> 0]

TypeOK ==
    /\ present \subseteq Keys /\ oldKeys \subseteq Keys
    /\ cur \in [Keys -> Nat] /\ old \in [Keys -> Nat]
    /\ pushing \in BOOLEAN /\ tries \in 0..Times
    /\ waiting \in Requests \cup {None}
    /\ answer \in {"none", "ok", "error"}
    /\ open \in [Requests -> BOOLEAN] /\ items \in [Requests -> [Keys -> Nat]]
    /\ total \in [Keys -> Nat]
    /\ pc \in [Threads -> {"idle", "look", "add"}]
    /\ key \in [Threads -> Keys]
    /\ ref \in [Threads -> {"cur", "old", "gone"}]
    /\ calls \in 0..MaxCalls /\ failures \in 0..MaxFailures
    /\ made \in [Keys -> Nat] /\ late \in [Keys -> Nat]
    /\ crossed \in [Threads -> BOOLEAN]
    /\ base \in [Keys -> Nat] /\ atSwap \in [Keys -> Nat]

Init ==
    /\ present = {} /\ cur = Zero /\ oldKeys = {} /\ old = Zero
    /\ pushing = FALSE /\ tries = 0 /\ waiting = None /\ answer = "none"
    /\ open = [r \in Requests |-> FALSE] /\ items = [r \in Requests |-> Zero]
    /\ total = Zero
    /\ pc = [t \in Threads |-> "idle"]
    /\ key \in [Threads -> Keys]
    /\ ref = [t \in Threads |-> "gone"]
    /\ calls = 0 /\ failures = 0
    /\ crossed = [t \in Threads |-> FALSE]
    /\ made = Zero /\ late = Zero /\ base = Zero /\ atSwap = Zero

Plus(f, k, n) == [f EXCEPT ![k] = @ + n]

\* The increment of a thread ends.
Counted(t) ==
    /\ pc' = [pc EXCEPT ![t] = "idle"]
    /\ made' = Plus(made, key[t], 1)
    /\ late' = IF crossed[t] THEN Plus(late, key[t], 1) ELSE late
    /\ crossed' = [crossed EXCEPT ![t] = FALSE]

--------------------------------------------------------------------------------
(* Request threads: putIfAbsent, then a second lookup, then the addition. *)

Register(t, k) ==
    /\ pc[t] = "idle"
    /\ calls < MaxCalls
    /\ calls' = calls + 1
    /\ present' = present \cup {k}
    /\ pc' = [pc EXCEPT ![t] = "look"]
    /\ key' = [key EXCEPT ![t] = k]
    /\ UNCHANGED <<cur, pushVars, oldVars, requestVars, total, ref, made, crossed, late, failures, swapVars>>

\* getQuotaIncr: without an entry, the map was swapped and nothing is counted.
LookUp(t) ==
    /\ pc[t] = "look"
    /\ \/ /\ key[t] \in present
          /\ pc' = [pc EXCEPT ![t] = "add"]
          /\ ref' = [ref EXCEPT ![t] = "cur"]
          /\ UNCHANGED <<made, crossed, late>>
       \/ /\ key[t] \notin present
          /\ Counted(t)
          /\ UNCHANGED ref
    /\ UNCHANGED <<mapVars, pushVars, oldVars, requestVars, total, key, calls, failures, swapVars>>

\* addAndGet on the entry that was found, whatever map it is in by now.
Add(t) ==
    /\ pc[t] = "add"
    /\ Counted(t)
    /\ ref' = [ref EXCEPT ![t] = "gone"]
    /\ cur' = IF ref[t] = "cur" THEN Plus(cur, key[t], 1) ELSE cur
    /\ old' = IF ref[t] = "old" THEN Plus(old, key[t], 1) ELSE old
    /\ UNCHANGED <<present, pushVars, oldKeys, requestVars, total, key, calls, failures, swapVars>>

--------------------------------------------------------------------------------
(* pushQuotas. *)

\* Mutant: the retries come on top of the first attempt.
StartPushOneMore ==
    /\ ~pushing
    /\ pushing' = TRUE
    /\ tries' = Times + 1
    /\ oldKeys' = present /\ present' = {}
    /\ old' = cur /\ cur' = Zero
    /\ ref' = [t \in Threads |-> IF ref[t] = "cur" THEN "old" ELSE ref[t]]
    /\ base' = total /\ atSwap' = cur
    /\ crossed' = [t \in Threads |-> pc[t] # "idle"]
    /\ UNCHANGED <<waiting, answer, requestVars, total, pc, key, calls, made, late, failures>>

\* The swap: a thread that holds an entry of the current map keeps it.
StartPush ==
    /\ ~pushing
    /\ pushing' = TRUE
    /\ tries' = Times
    /\ oldKeys' = present /\ present' = {}
    /\ old' = cur /\ cur' = Zero
    /\ ref' = [t \in Threads |-> IF ref[t] = "cur" THEN "old" ELSE ref[t]]
    /\ base' = total /\ atSwap' = cur
    /\ crossed' = [t \in Threads |-> pc[t] # "idle"]
    /\ UNCHANGED <<waiting, answer, requestVars, total, pc, key, calls, made, late, failures>>

\* One attempt of Retry: the counts are read again each time.
Attempt(r) ==
    /\ pushing /\ waiting = None /\ tries > 0
    /\ ~open[r]
    /\ waiting' = r
    /\ open' = [open EXCEPT ![r] = TRUE]
    /\ items' = [items EXCEPT ![r] = old]
    /\ UNCHANGED <<mapVars, pushing, tries, answer, oldVars, total, threadVars,
                   calls, made, crossed, late, failures, swapVars>>

\* Mutant: isPushingQuotas is not released.
EndPushKeepsFlag ==
    /\ waiting' = None /\ answer' = "none"
    /\ oldKeys' = {} /\ old' = Zero
    /\ ref' = [t \in Threads |-> IF ref[t] = "old" THEN "gone" ELSE ref[t]]
    /\ UNCHANGED pushing

\* The old map is dropped; threads that hold one of its entries count for nothing.
EndPush ==
    /\ pushing' = FALSE
    /\ waiting' = None /\ answer' = "none"
    /\ oldKeys' = {} /\ old' = Zero
    /\ ref' = [t \in Threads |-> IF ref[t] = "old" THEN "gone" ELSE ref[t]]

\* Mutant: the counts are put back after a push that succeeded as well.
HandleOkRestores ==
    /\ waiting # None /\ answer = "ok"
    /\ cur' = [k \in Keys |-> cur[k] + old[k]]
    /\ present' = present \cup oldKeys
    /\ EndPush
    /\ UNCHANGED <<tries, requestVars, total, pc, key, calls, made, crossed, late, failures, swapVars>>

HandleOk ==
    /\ waiting # None /\ answer = "ok"
    /\ EndPush
    /\ UNCHANGED <<mapVars, tries, requestVars, total, pc, key, calls, made, crossed, late, failures, swapVars>>

\* A status other than 200, a broken stream, an answer that is late or lost.
HandleFailure ==
    /\ waiting # None /\ tries > 0
    /\ failures < MaxFailures
    /\ failures' = failures + 1
    /\ tries' = tries - 1
    /\ waiting' = None /\ answer' = "none"
    /\ UNCHANGED <<mapVars, pushing, oldVars, requestVars, total, threadVars,
                   calls, made, crossed, late, swapVars>>

\* Mutant: the old entry replaces the one counted meanwhile.
GiveUpReplaces ==
    /\ pushing /\ waiting = None /\ tries = 0
    /\ cur' = [k \in Keys |-> IF k \in Restored \cap oldKeys THEN old[k] ELSE cur[k]]
    /\ present' = present \cup (Restored \cap oldKeys)
    /\ EndPush
    /\ UNCHANGED <<tries, requestVars, total, pc, key, calls, made, crossed, late, failures, swapVars>>

\* recover: the counts of apikeys and routes go back to the current map, those
\* of custom quotas and throttlings do not.
GiveUp ==
    /\ pushing /\ waiting = None /\ tries = 0
    /\ cur' = [k \in Keys |-> IF k \in Restored THEN cur[k] + old[k] ELSE cur[k]]
    /\ present' = present \cup (Restored \cap oldKeys)
    /\ EndPush
    /\ UNCHANGED <<tries, requestVars, total, pc, key, calls, made, crossed, late, failures, swapVars>>

--------------------------------------------------------------------------------
(* The leader: ClusterController.updateState. *)

Apply(r, k) ==
    /\ open[r] /\ items[r][k] > 0
    /\ total' = Plus(total, k, items[r][k])
    /\ items' = [items EXCEPT ![r][k] = 0]
    /\ UNCHANGED <<mapVars, pushVars, oldVars, open, threadVars,
                   calls, made, crossed, late, failures, swapVars>>

\* The whole stream is applied: 200, if somebody still waits for it.
Done(r) ==
    /\ open[r] /\ \A k \in Keys : items[r][k] = 0
    /\ waiting = r => answer = "none"
    /\ open' = [open EXCEPT ![r] = FALSE]
    /\ answer' = IF waiting = r THEN "ok" ELSE answer
    /\ UNCHANGED <<mapVars, pushing, tries, waiting, oldVars, items, total, threadVars,
                   calls, made, crossed, late, failures, swapVars>>

\* The stream fails: 500, while messages already taken are still being applied.
Break(r) ==
    /\ open[r] /\ waiting = r /\ answer = "none"
    /\ failures < MaxFailures
    /\ answer' = "error"
    /\ UNCHANGED <<mapVars, pushing, tries, waiting, oldVars, requestVars, total, threadVars,
                   calls, made, crossed, late, failures, swapVars>>

\* What is left of a stream that failed, or that nobody waits for, is dropped.
Close(r) ==
    /\ open[r] /\ (waiting = r => answer = "error")
    /\ open' = [open EXCEPT ![r] = FALSE]
    /\ items' = [items EXCEPT ![r] = Zero]
    /\ UNCHANGED <<mapVars, pushVars, oldVars, total, threadVars,
                   calls, made, crossed, late, failures, swapVars>>

--------------------------------------------------------------------------------
ThreadStep(t) == (\E k \in Keys : Register(t, k)) \/ LookUp(t) \/ Add(t)
RequestStep(r) ==
    \/ Attempt(r) \/ Done(r) \/ Break(r) \/ Close(r)
    \/ \E k \in Keys : Apply(r, k)

Next ==
    \/ \E t \in Threads : ThreadStep(t)
    \/ StartPush \/ HandleOk \/ HandleFailure \/ GiveUp
    \/ \E r \in Requests : RequestStep(r)

Spec == Init /\ [][Next]_vars

\* The push is scheduled every pushEvery, Retry always goes on, the leader works
\* through a request and closes it; that calls come or attempts fail is not assumed.
Fairness ==
    /\ WF_vars(StartPush) /\ WF_vars(HandleOk) /\ WF_vars(GiveUp)
    /\ WF_vars(answer = "error" /\ HandleFailure)
    /\ WF_vars(\E r \in Requests : Attempt(r))
    /\ \A r \in Requests : WF_vars(Done(r) \/ \E k \in Keys : Apply(r, k))
    /\ \A t \in Threads : WF_vars(LookUp(t) \/ Add(t))

FairSpec == Spec /\ Fairness

--------------------------------------------------------------------------------
(* Properties. *)

\* Every call on an apikey or a route that was not in progress when a push swapped
\* the map is accounted for, by what the leader has and by the two maps, whatever
\* fails and however often.  One that was may be counted in a map that is not read
\* any more.
NoLoss ==
    \A k \in Restored : made[k] <= total[k] + cur[k] + old[k] + late[k]

\* A call is counted at most once more for each attempt that failed: retries may
\* repeat what the leader had applied, a restored count is sent again, but a push
\* that succeeds sends nothing twice.
InflationBounded ==
    \A k \in Keys : total[k] <= made[k] * (1 + failures)

\* Calls on apikeys and routes reach the leader, once attempts stop failing.
EventualDelivery ==
    \A k \in Restored, n \in 1..MaxCalls :
        made[k] = n ~> total[k] + late[k] >= n
================================================================================
