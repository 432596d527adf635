------------------------------ MODULE ClusterState ------------------------------
(***************************************************************************)
(* How the leaders' state reaches a worker over http: cacheState of        *)
(* ClusterLeaderAgent, readState of ClusterController, pollState of        *)
(* ClusterAgent and the swap of SwappableInMemoryRedis.                    *)
(*                                                                         *)
(* Every few seconds a leader exports the shared datastore, key by key,    *)
(* and publishes the result in variables that are assigned one after the   *)
(* other: the body, its date, its count and its digest.  The request of a  *)
(* worker reads them one by one too.  The worker checks what it received   *)
(* against the count and the digest and installs it, either by replacing   *)
(* its memory or by changing it in place, key by key.                      *)
(*                                                                         *)
(* A digest is modelled by the content it was computed from.  The count    *)
(* comes from the same lines and rejects nothing that the digest accepts:  *)
(* it is left out.                                                         *)
(***************************************************************************)
EXTENDS Naturals

CONSTANTS
    Leaders,
    Keys,         \* keys of the datastore that workers are sent
    Runs,         \* cacheState runs of one leader that may overlap
    Strategies,   \* how a worker may be configured to swap its memory
    Times,        \* worker.state.retries: attempts of one poll
    NoDigest,     \* "--", the digest before the first one
    MaxWrites,    \* bound: writes to the datastore
    MaxFailures   \* bound: failures, restarts and states that grow old

Content == [Keys -> 0..MaxWrites]
Empty   == [k \in Keys |-> 0]
Live(c) == {k \in Keys : c[k] # 0}
Digests == Content \cup {NoDigest}

ASSUME StateAssumption ==
    /\ Runs # {}
    /\ Strategies \subseteq {"modern", "replace", "merge"}
    /\ Times \in Nat \ {0} /\ MaxWrites \in Nat /\ MaxFailures \in Nat
    /\ NoDigest \notin Content

VARIABLES
    db,         \* the datastore: the number of the write that set a key, 0 if none
    writes,     \* writes so far
    caching,    \* ClusterLeaderAgent.caching
    runs,       \* cacheState runs in progress
    cachedRef, cachedAt, cacheDigest,  \* what a leader publishes
    polling,    \* isPollingState
    tries,      \* attempts left to Retry
    poll,       \* the attempt in progress
    store,      \* the worker's memory: the keys that the leaders own
    todo,       \* keys that a merge in progress still has to visit
    strategy,   \* "modern", or the legacy store's swapStrategy: "replace", "merge"
    \* history, read by no action:
    failures,   \* failures so far
    source,     \* the export whose digest came with the state installed last
    floor,      \* per key, the oldest write the worker may still show
    overtook    \* a run had published while one that started before it had not

dbVars     == <<db, writes>>
cacheVars  == <<cachedRef, cachedAt, cacheDigest>>
pollVars   == <<polling, tries, poll>>
storeVars  == <<store, todo, strategy, source, floor>>
vars == <<dbVars, caching, runs, cacheVars, pollVars, storeVars, failures, overtook>>

\* A run; ahead (history) are the runs that started before and publish still.
Run  == [phase: {"idle", "export", "ref", "at", "digest"}, keys: SUBSET Keys, got: Content,
         ahead: SUBSET Runs]
Poll == [phase: {"idle", "body", "digest", "from", "receive", "check", "merge"},
         leader: Leaders, body: Content, digest: Digests, fresh: BOOLEAN, sent: Content]

TypeOK ==
    /\ db \in Content /\ writes \in 0..MaxWrites
    /\ caching \in [Leaders -> BOOLEAN]
    /\ runs \in [Leaders -> [Runs -> Run]]
    /\ cachedRef \in [Leaders -> Content]
    /\ cachedAt \in [Leaders -> {"fresh", "old"}]
    /\ cacheDigest \in [Leaders -> Digests]
    /\ polling \in BOOLEAN /\ tries \in 0..Times
    /\ poll \in Poll
    /\ store \in Content /\ todo \subseteq Keys /\ strategy \in Strategies
    /\ failures \in 0..MaxFailures
    /\ source \in Digests /\ floor \in [Keys -> Nat] /\ overtook \in BOOLEAN

NoRun == [phase |-> "idle", keys |-> {}, got |-> Empty, ahead |-> {}]
NoPoll(l) == [phase |-> "idle", leader |-> l, body |-> Empty, digest |-> NoDigest,
              fresh |-> FALSE, sent |-> Empty]

Init ==
    /\ db = Empty /\ writes = 0
    /\ caching = [l \in Leaders |-> FALSE]
    /\ runs = [l \in Leaders |-> [r \in Runs |-> NoRun]]
    /\ cachedRef = [l \in Leaders |-> Empty]
    /\ cachedAt = [l \in Leaders |-> "old"]
    /\ cacheDigest = [l \in Leaders |-> NoDigest]
    /\ polling = FALSE /\ tries = 0
    /\ \E l \in Leaders : poll = NoPoll(l)
    /\ store = Empty /\ todo = {} /\ strategy \in Strategies
    /\ failures = 0 /\ source = Empty /\ floor = Empty /\ overtook = FALSE

Fails == failures < MaxFailures /\ failures' = failures + 1

--------------------------------------------------------------------------------
(* The datastore: an entity is created, updated or deleted. *)

Write(k) ==
    /\ writes < MaxWrites
    /\ writes' = writes + 1
    /\ \E v \in {writes + 1, 0} : v # db[k] /\ db' = [db EXCEPT ![k] = v]
    /\ UNCHANGED <<caching, runs, cacheVars, pollVars, storeVars, failures, overtook>>

--------------------------------------------------------------------------------
(* A leader: cacheState. *)

\* The runs of a leader that have released the flag and not finished publishing.
Publishing(l) == {r \in Runs : runs[l][r].phase \in {"ref", "at", "digest"}}

Started(l) == [phase |-> "export", keys |-> Live(db), got |-> Empty, ahead |-> Publishing(l)]

\* Mutant: the flag is read but never taken.
StartCacheUnguarded(l, r) ==
    /\ runs[l][r].phase = "idle"
    /\ runs' = [runs EXCEPT ![l][r] = Started(l)]
    /\ UNCHANGED <<dbVars, caching, cacheVars, pollVars, storeVars, failures, overtook>>

\* rawExport lists the keys, then reads them one at a time.
StartCache(l, r) ==
    /\ ~caching[l]
    /\ caching' = [caching EXCEPT ![l] = TRUE]
    /\ runs[l][r].phase = "idle"
    /\ runs' = [runs EXCEPT ![l][r] = Started(l)]
    /\ UNCHANGED <<dbVars, cacheVars, pollVars, storeVars, failures, overtook>>

ExportKey(l, r, k) ==
    /\ runs[l][r].phase = "export"
    /\ k \in runs[l][r].keys
    /\ runs' = [runs EXCEPT ![l][r].keys = @ \ {k}, ![l][r].got[k] = db[k]]
    /\ UNCHANGED <<dbVars, caching, cacheVars, pollVars, storeVars, failures, overtook>>

\* The flag is released before anything is published, or when the export fails.
EndExport(l, r) ==
    /\ runs[l][r].phase = "export"
    /\ caching' = [caching EXCEPT ![l] = FALSE]
    /\ \/ /\ runs[l][r].keys = {}
          /\ runs' = [runs EXCEPT ![l][r].phase = "ref"]
          /\ UNCHANGED failures
       \/ /\ Fails
          /\ runs' = [runs EXCEPT ![l][r] = NoRun]
    /\ UNCHANGED <<dbVars, cacheVars, pollVars, storeVars, overtook>>

\* A run has published.
Finished(l, r) ==
    [runs EXCEPT ![l] = [q \in Runs |->
        IF q = r THEN NoRun ELSE [runs[l][q] EXCEPT !.ahead = @ \ {r}]]]

\* Three assignments, one step each; other runs may start and publish in between.
Publish(l, r) ==
    /\ \/ /\ runs[l][r].phase = "ref"
          /\ cachedRef' = [cachedRef EXCEPT ![l] = runs[l][r].got]
          /\ runs' = [runs EXCEPT ![l][r].phase = "at"]
          /\ UNCHANGED <<cachedAt, cacheDigest, overtook>>
       \/ /\ runs[l][r].phase = "at"
          /\ cachedAt' = [cachedAt EXCEPT ![l] = "fresh"]
          /\ runs' = [runs EXCEPT ![l][r].phase = "digest"]
          /\ UNCHANGED <<cachedRef, cacheDigest, overtook>>
       \/ /\ runs[l][r].phase = "digest"
          /\ cacheDigest' = [cacheDigest EXCEPT ![l] = runs[l][r].got]
          /\ runs' = Finished(l, r)
          /\ overtook' = (overtook \/ runs[l][r].ahead # {})
          /\ UNCHANGED <<cachedRef, cachedAt>>
    /\ UNCHANGED <<dbVars, caching, pollVars, storeVars, failures>>

\* dataStaleAfter passes without a new cache.
GrowOld(l) ==
    /\ cachedAt[l] = "fresh"
    /\ Fails
    /\ cachedAt' = [cachedAt EXCEPT ![l] = "old"]
    /\ UNCHANGED <<dbVars, caching, runs, cachedRef, cacheDigest, pollVars, storeVars, overtook>>

RestartLeader(l) ==
    /\ Fails
    /\ caching' = [caching EXCEPT ![l] = FALSE]
    /\ runs' = [runs EXCEPT ![l] = [r \in Runs |-> NoRun]]
    /\ cachedRef' = [cachedRef EXCEPT ![l] = Empty]
    /\ cachedAt' = [cachedAt EXCEPT ![l] = "old"]
    /\ cacheDigest' = [cacheDigest EXCEPT ![l] = NoDigest]
    /\ UNCHANGED <<dbVars, pollVars, storeVars, overtook>>

--------------------------------------------------------------------------------
(* The worker: pollState. *)

\* Mutant: the retries come on top of the first attempt.
StartPollOneMore ==
    /\ ~polling
    /\ polling' = TRUE
    /\ tries' = Times + 1
    /\ UNCHANGED <<dbVars, caching, runs, cacheVars, poll, storeVars, failures, overtook>>

StartPoll ==
    /\ ~polling
    /\ polling' = TRUE
    /\ tries' = Times
    /\ UNCHANGED <<dbVars, caching, runs, cacheVars, poll, storeVars, failures, overtook>>

\* otoroshiUrl goes round the leaders.
Attempt(l) ==
    /\ polling /\ tries > 0
    /\ poll.phase = "idle"
    /\ poll' = [NoPoll(l) EXCEPT !.phase = "body"]
    /\ UNCHANGED <<dbVars, caching, runs, cacheVars, polling, tries, storeVars, failures, overtook>>

\* readState evaluates the entity first, then the headers in this order.
ReadState ==
    /\ \/ /\ poll.phase = "body"
          /\ poll' = [poll EXCEPT !.phase = "digest", !.body = cachedRef[poll.leader]]
       \/ /\ poll.phase = "digest"
          /\ poll' = [poll EXCEPT !.phase = "from", !.digest = cacheDigest[poll.leader]]
       \/ /\ poll.phase = "from"
          /\ poll' = [poll EXCEPT !.phase = "receive", !.fresh = (cachedAt[poll.leader] = "fresh")]
    /\ UNCHANGED <<dbVars, caching, runs, cacheVars, polling, tries, storeVars, failures, overtook>>

\* The lines of the body; a stream may also end too early.
Receive ==
    /\ poll.phase = "receive" /\ poll.fresh
    /\ \/ poll' = [poll EXCEPT !.phase = "check", !.sent = poll.body] /\ UNCHANGED failures
       \/ /\ Fails
          /\ \E lost \in SUBSET Live(poll.body) \ {{}} :
                poll' = [poll EXCEPT !.phase = "check",
                                     !.sent = [k \in Keys |-> IF k \in lost THEN 0 ELSE poll.body[k]]]
    /\ UNCHANGED <<dbVars, caching, runs, cacheVars, polling, tries, storeVars, overtook>>

\* Mutant: the count and the digest are not compared.
ValidAlways == TRUE

\* The count and the digest of the lines received are those of the headers.
Valid == poll.sent = poll.digest

\* Mutant: the last attempt that fails does not end the poll.
FailAttemptForever ==
    /\ \/ poll.phase = "receive" /\ ~poll.fresh /\ UNCHANGED failures
       \/ poll.phase = "check" /\ ~Valid /\ UNCHANGED failures
       \/ poll.phase \notin {"idle", "merge"} /\ Fails
    /\ poll' = NoPoll(poll.leader)
    /\ tries' = tries - 1
    /\ UNCHANGED <<dbVars, caching, runs, cacheVars, polling, storeVars, overtook>>

\* A state that is too old, one that does not match its headers, any other
\* failure: Retry goes on while attempts are left.
FailAttempt ==
    /\ \/ poll.phase = "receive" /\ ~poll.fresh /\ UNCHANGED failures
       \/ poll.phase = "check" /\ ~Valid /\ UNCHANGED failures
       \/ poll.phase \notin {"idle", "merge"} /\ Fails
    /\ poll' = NoPoll(poll.leader)
    /\ tries' = tries - 1
    /\ polling' = (tries > 1)
    /\ UNCHANGED <<dbVars, caching, runs, cacheVars, storeVars, overtook>>

\* The oldest write of each key that may be shown after the memory becomes s.
Raise(s) == [k \in Keys |->
    IF s[k] > floor[k] THEN s[k]
    ELSE IF s[k] = 0 /\ store[k] # 0 THEN store[k] + 1
    ELSE floor[k]]

EndPoll == polling' = FALSE /\ poll' = NoPoll(poll.leader)

\* Replace: a new memory.
Replace ==
    /\ strategy = "replace"
    /\ store' = poll.sent
    /\ floor' = Raise(poll.sent)
    /\ EndPoll
    /\ UNCHANGED todo

\* Mutant: the memory is emptied before it is filled.
StartMergeClears ==
    /\ strategy # "replace"
    /\ todo' = Keys
    /\ poll' = [poll EXCEPT !.phase = "merge"]
    /\ store' = Empty
    /\ floor' = Raise(Empty)
    /\ UNCHANGED polling

\* Merge, and the modern store: the memory is changed in place.
StartMerge ==
    /\ strategy # "replace"
    /\ todo' = Keys
    /\ poll' = [poll EXCEPT !.phase = "merge"]
    /\ UNCHANGED <<polling, store, floor>>

\* An empty state is accepted and ignored.
Install ==
    /\ poll.phase = "check" /\ Valid
    /\ \/ /\ Live(poll.sent) = {}
          /\ EndPoll
          /\ UNCHANGED storeVars
       \/ /\ Live(poll.sent) # {}
          /\ source' = poll.digest
          /\ Replace \/ StartMerge
          /\ UNCHANGED strategy
    /\ UNCHANGED <<dbVars, caching, runs, cacheVars, tries, failures, overtook>>

\* The legacy merge removes the keys that the new state lacks, then puts its
\* keys; the modern store puts first and removes afterwards.
RemovesFirst(k) == poll.sent[k] # 0 => \A j \in todo : poll.sent[j] # 0
PutsFirst(k) == poll.sent[k] = 0 => \A j \in todo : poll.sent[j] = 0
InOrder(k) == IF strategy = "merge" THEN RemovesFirst(k) ELSE PutsFirst(k)

\* Mutant: nothing is removed.
MergeKeyKeepsMissing(k) ==
    /\ poll.phase = "merge"
    /\ k \in todo
    /\ store' = [store EXCEPT ![k] = IF poll.sent[k] # 0 THEN poll.sent[k] ELSE @]
    /\ floor' = Raise(store')
    /\ todo' = todo \ {k}
    /\ IF todo = {k} THEN EndPoll ELSE UNCHANGED <<polling, poll>>
    /\ UNCHANGED <<dbVars, caching, runs, cacheVars, tries, strategy, source, failures, overtook>>

\* A key is removed or put.
MergeKey(k) ==
    /\ poll.phase = "merge"
    /\ k \in todo
    /\ InOrder(k)
    /\ store' = [store EXCEPT ![k] = poll.sent[k]]
    /\ floor' = Raise(store')
    /\ todo' = todo \ {k}
    /\ IF todo = {k} THEN EndPoll ELSE UNCHANGED <<polling, poll>>
    /\ UNCHANGED <<dbVars, caching, runs, cacheVars, tries, strategy, source, failures, overtook>>

RestartWorker ==
    /\ Fails
    /\ polling' = FALSE /\ tries' = 0 /\ poll' = NoPoll(poll.leader)
    /\ store' = Empty /\ todo' = {}
    /\ source' = Empty /\ floor' = Empty
    /\ UNCHANGED <<dbVars, caching, runs, cacheVars, strategy, overtook>>

--------------------------------------------------------------------------------
CacheStep(l, r) == EndExport(l, r) \/ Publish(l, r) \/ \E k \in Keys : ExportKey(l, r, k)
PollStep == ReadState \/ Receive \/ FailAttempt \/ Install \/ \E k \in Keys : MergeKey(k)

Next ==
    \/ \E k \in Keys : Write(k)
    \/ \E l \in Leaders, r \in Runs : StartCache(l, r) \/ CacheStep(l, r)
    \/ \E l \in Leaders : GrowOld(l) \/ RestartLeader(l)
    \/ StartPoll \/ \E l \in Leaders : Attempt(l)
    \/ PollStep \/ RestartWorker

Spec == Init /\ [][Next]_vars

\* Both schedulers run at a fixed rate, an export and an attempt end.
Fairness ==
    /\ \A l \in Leaders :
          /\ WF_vars(\E r \in Runs : StartCache(l, r))
          /\ \A r \in Runs : WF_vars(CacheStep(l, r))
    /\ WF_vars(StartPoll) /\ WF_vars(\E l \in Leaders : Attempt(l)) /\ WF_vars(PollStep)

FairSpec == Spec /\ Fairness

--------------------------------------------------------------------------------
(* Properties. *)

\* What the worker serves from is one complete export of a leader: never the part
\* of a stream that broke, never a body with the digest of another, never what
\* both a merge and the state before it left, except while it walks the keys.
Whole == todo = {} => store = source

\* A worker never goes back: a key it showed is not replaced by an older write,
\* and a deleted one does not come back, as long as its leaders are one.  caching is
\* released before anything is published, so runs overlap; only a run that was
\* overtaken, by one that started later and published first, can take it back.
NoRegress == ~overtook => \A k \in Keys : store[k] # 0 => store[k] >= floor[k]

\* Requests are served while a state is installed key by key: a key disappears
\* only when the state that is being installed lacks it, so an entity that both
\* states have is there all the time.
NoGap == [][\A k \in Keys : store[k] # 0 /\ store'[k] = 0 => source'[k] = 0]_vars

\* Once writes and failures stop, the worker ends up with the datastore's state
\* and keeps it; a datastore without a key is never propagated.
EventuallyFresh == <>[](store = db \/ Live(db) = {})
================================================================================
