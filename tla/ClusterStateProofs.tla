--------------------------- MODULE ClusterStateProofs ---------------------------
(***************************************************************************)
(* Proofs about ClusterState, for every set of leaders, keys and runs,     *)
(* every strategy and every number of attempts, writes and failures.       *)
(***************************************************************************)
EXTENDS ClusterState, TLAPS

\* An attempt in progress is one of those that Retry has left, a walk of the
\* memory belongs to the poll that received the state.
PollInv ==
    /\ poll.phase # "idle" => polling /\ tries > 0
    /\ todo # {} => poll.phase = "merge"

TypeInv == TypeOK /\ PollInv

\* What an absent export and an absent attempt are made of.
LEMMA EmptyTypes ==
    /\ Empty \in Content
    /\ NoDigest \in Digests /\ Content \subseteq Digests
    /\ NoRun \in Run
    /\ \A l \in Leaders : NoPoll(l) \in Poll
<1>1. Empty \in Content
  BY StateAssumption DEF Empty, Content
<1>2. NoDigest \in Digests /\ Content \subseteq Digests
  BY DEF Digests
<1> QED
  BY <1>1, <1>2 DEF NoRun, Run, NoPoll, Poll

\* Nothing is cached, polled or installed at first.
LEMMA TypeInit == Init => TypeInv
<1> SUFFICES ASSUME Init PROVE TypeInv
  OBVIOUS
<1>1. runs \in [Leaders -> [Runs -> Run]] /\ poll \in Poll
  BY EmptyTypes DEF Init
<1>2. db \in Content /\ store \in Content /\ cachedRef \in [Leaders -> Content]
  BY EmptyTypes DEF Init
<1>3. source \in Digests /\ cacheDigest \in [Leaders -> Digests]
  BY EmptyTypes DEF Init
<1>4. floor \in [Keys -> Nat]
  BY DEF Init, Empty
<1>5. writes \in 0..MaxWrites /\ tries \in 0..Times /\ failures \in 0..MaxFailures
  BY StateAssumption DEF Init
<1>6. poll.phase = "idle"
  BY DEF Init, NoPoll
<1> QED
  BY <1>1, <1>2, <1>3, <1>4, <1>5, <1>6 DEF Init, TypeInv, TypeOK, PollInv

\* The raised floor is one, whatever the memory becomes.
LEMMA RaiseType ==
  ASSUME TypeOK, NEW s \in Content
  PROVE  Raise(s) \in [Keys -> Nat]
BY StateAssumption DEF TypeOK, Content, Raise

\* A failure is counted, and the count is bounded.
LEMMA FailsType == TypeOK /\ Fails => failures' \in 0..MaxFailures
BY StateAssumption DEF TypeOK, Fails

\* What a leader does.
LEMMA LeaderType ==
  ASSUME TypeInv, NEW l \in Leaders, NEW r \in Runs,
         StartCache(l, r) \/ CacheStep(l, r)
  PROVE  TypeInv'
<1> USE EmptyTypes DEF TypeInv, TypeOK, PollInv, dbVars, cacheVars, pollVars, storeVars
<1>1. runs[l][r] \in Run /\ runs[l][r].got \in Content /\ runs[l][r].keys \subseteq Keys
  BY DEF Run
<1>2. CASE StartCache(l, r)
  <2>1. Live(db) \subseteq Keys /\ Publishing(l) \subseteq Runs
    BY DEF Live, Publishing
  <2>2. Started(l) \in Run
    BY <2>1 DEF Run, Started
  <2> HIDE DEF Run
  <2> QED BY <1>2, <2>2 DEF StartCache
<1>3. ASSUME NEW k \in Keys, ExportKey(l, r, k) PROVE TypeInv'
  <2>1. [runs[l][r] EXCEPT !.keys = @ \ {k}, !.got[k] = db[k]] \in Run
    BY <1>1 DEF Run, Content
  <2>2. runs' \in [Leaders -> [Runs -> Run]]
    BY <1>3, <2>1 DEF ExportKey
  <2> QED BY <1>3, <2>2 DEF ExportKey
<1>4. CASE EndExport(l, r)
  <2>1. [runs[l][r] EXCEPT !.phase = "ref"] \in Run
    BY <1>1 DEF Run
  <2>2. [runs EXCEPT ![l][r].phase = "ref"] \in [Leaders -> [Runs -> Run]]
    BY <2>1
  <2>3. [runs EXCEPT ![l][r] = NoRun] \in [Leaders -> [Runs -> Run]]
    OBVIOUS
  <2>4. failures' \in 0..MaxFailures /\ caching' \in [Leaders -> BOOLEAN]
    BY <1>4, FailsType DEF EndExport
  <2> QED BY <1>4, <2>2, <2>3, <2>4 DEF EndExport
<1>5. CASE Publish(l, r)
  <2>1. ASSUME NEW p \in {"at", "digest"}
        PROVE  [runs EXCEPT ![l][r].phase = p] \in [Leaders -> [Runs -> Run]]
    <3>1. [runs[l][r] EXCEPT !.phase = p] \in Run
      BY <1>1 DEF Run
    <3> QED BY <3>1
  <2>2. Finished(l, r) \in [Leaders -> [Runs -> Run]]
    <3>1. ASSUME NEW q \in Runs PROVE [runs[l][q] EXCEPT !.ahead = @ \ {r}] \in Run
      <4>1. runs[l][q] \in Run
        OBVIOUS
      <4> QED BY <4>1 DEF Run
    <3> QED BY <3>1 DEF Finished
  <2>3. runs' \in [Leaders -> [Runs -> Run]]
    BY <1>5, <2>1, <2>2 DEF Publish
  <2>4. cachedRef' \in [Leaders -> Content] /\ cachedAt' \in [Leaders -> {"fresh", "old"}]
    BY <1>1, <1>5 DEF Publish
  <2>5. cacheDigest' \in [Leaders -> Digests]
    BY <1>1, <1>5 DEF Publish
  <2>6. overtook' \in BOOLEAN
    BY <1>5 DEF Publish
  <2> QED BY <1>5, <2>3, <2>4, <2>5, <2>6 DEF Publish
<1> QED BY <1>2, <1>3, <1>4, <1>5 DEF CacheStep

\* What time and restarts do to a leader.
LEMMA RestType ==
  ASSUME TypeInv, NEW l \in Leaders, GrowOld(l) \/ RestartLeader(l)
  PROVE  TypeInv'
<1> USE EmptyTypes DEF TypeInv, TypeOK, PollInv, dbVars, cacheVars, pollVars, storeVars
<1>1. CASE GrowOld(l)
  BY <1>1, FailsType DEF GrowOld
<1>2. CASE RestartLeader(l)
  <2>1. failures' \in 0..MaxFailures
    BY <1>2, FailsType DEF RestartLeader
  <2>2. runs' \in [Leaders -> [Runs -> Run]] /\ cachedRef' \in [Leaders -> Content]
        /\ cacheDigest' \in [Leaders -> Digests] /\ cachedAt' \in [Leaders -> {"fresh", "old"}]
        /\ caching' \in [Leaders -> BOOLEAN]
    BY <1>2 DEF RestartLeader
  <2> QED BY <1>2, <2>1, <2>2 DEF RestartLeader
<1> QED BY <1>1, <1>2

\* What the worker does.
LEMMA WorkerType ==
  ASSUME TypeInv,
         \/ StartPoll \/ \E l \in Leaders : Attempt(l)
         \/ PollStep \/ RestartWorker
  PROVE  TypeInv'
<1> USE EmptyTypes, StateAssumption DEF TypeInv, TypeOK, PollInv, dbVars, cacheVars, pollVars, storeVars
<1>1. \A l \in Leaders : NoPoll(l).phase = "idle"
  BY DEF NoPoll
<1>2. poll.leader \in Leaders /\ poll.body \in Content /\ poll.sent \in Content /\ poll.digest \in Digests
  BY DEF Poll
<1>3. CASE StartPoll
  BY <1>3 DEF StartPoll
<1>4. ASSUME NEW l \in Leaders, Attempt(l) PROVE TypeInv'
  <2>1. poll' \in Poll /\ poll'.phase = "body"
    BY <1>4 DEF Attempt, NoPoll, Poll
  <2> QED BY <1>4, <2>1 DEF Attempt
<1>5. CASE ReadState
  <2>1. poll' \in Poll /\ poll'.phase \in {"digest", "from", "receive"}
    <3>1. cachedRef[poll.leader] \in Content /\ cacheDigest[poll.leader] \in Digests
      BY <1>2
    <3>2. (cachedAt[poll.leader] = "fresh") \in BOOLEAN
      OBVIOUS
    <3>3. \A b \in Content : [poll EXCEPT !.phase = "digest", !.body = b] \in Poll
      BY DEF Poll
    <3>4. \A d \in Digests : [poll EXCEPT !.phase = "from", !.digest = d] \in Poll
      BY DEF Poll
    <3>5. \A f \in BOOLEAN : [poll EXCEPT !.phase = "receive", !.fresh = f] \in Poll
      BY DEF Poll
    <3>6. poll'.phase \in {"digest", "from", "receive"}
      BY <1>5 DEF ReadState, Poll
    <3> QED BY <1>5, <3>1, <3>2, <3>3, <3>4, <3>5, <3>6 DEF ReadState
  <2>2. poll.phase \in {"body", "digest", "from"}
    BY <1>5 DEF ReadState
  <2> QED BY <1>5, <2>1, <2>2 DEF ReadState
<1>6. CASE Receive
  <2>1. \A lost \in SUBSET Keys : [k \in Keys |-> IF k \in lost THEN 0 ELSE poll.body[k]] \in Content
    BY <1>2 DEF Content
  <2>2. poll' \in Poll /\ poll'.phase = "check"
    <3>1. \A c \in Content : /\ [poll EXCEPT !.phase = "check", !.sent = c] \in Poll
                             /\ [poll EXCEPT !.phase = "check", !.sent = c].phase = "check"
      BY DEF Poll
    <3>2. Live(poll.body) \subseteq Keys
      BY DEF Live
    <3>3. \E c \in Content : poll' = [poll EXCEPT !.phase = "check", !.sent = c]
      <4>1. CASE poll' = [poll EXCEPT !.phase = "check", !.sent = poll.body]
        BY <1>2, <4>1
      <4>2. ASSUME NEW lost \in SUBSET Live(poll.body),
                   poll' = [poll EXCEPT !.phase = "check",
                               !.sent = [k \in Keys |-> IF k \in lost THEN 0 ELSE poll.body[k]]]
            PROVE  \E c \in Content : poll' = [poll EXCEPT !.phase = "check", !.sent = c]
        BY <2>1, <3>2, <4>2
      <4> QED BY <1>6, <4>1, <4>2 DEF Receive
    <3> QED BY <3>1, <3>3
  <2>3. failures' \in 0..MaxFailures
    BY <1>6, FailsType DEF Receive
  <2> QED BY <1>6, <2>2, <2>3 DEF Receive
<1>7. CASE FailAttempt
  <2>1. poll.phase \notin {"idle", "merge"} /\ failures' \in 0..MaxFailures
    BY <1>7, FailsType DEF FailAttempt
  <2>2. tries' \in 0..Times
    BY <1>7, <2>1 DEF FailAttempt
  <2> QED BY <1>1, <1>2, <1>7, <2>1, <2>2 DEF FailAttempt
<1>8. CASE Install
  <2>1. poll.phase = "check" /\ todo = {}
    BY <1>8 DEF Install
  <2>2. CASE Live(poll.sent) = {}
    BY <1>1, <1>2, <1>8, <2>1, <2>2 DEF Install, EndPoll
  <2>3. CASE Live(poll.sent) # {} /\ Replace
    BY <1>1, <1>2, <1>8, <2>1, <2>3, RaiseType DEF Install, Replace, EndPoll
  <2>4. CASE Live(poll.sent) # {} /\ StartMerge
    <3>1. poll' \in Poll /\ poll'.phase = "merge"
      BY <2>4 DEF StartMerge, Poll
    <3> QED BY <1>2, <1>8, <2>1, <2>4, <3>1 DEF Install, StartMerge
  <2> QED BY <1>8, <2>2, <2>3, <2>4 DEF Install
<1>9. ASSUME NEW k \in Keys, MergeKey(k) PROVE TypeInv'
  <2>1. store' \in Content
    BY <1>2, <1>9 DEF MergeKey, Content
  <2>2. floor' \in [Keys -> Nat]
    BY <1>9, <2>1, RaiseType DEF MergeKey
  <2>3. CASE todo = {k}
    <3>1. poll' \in Poll /\ poll'.phase = "idle" /\ polling' = FALSE /\ todo' = {}
      BY <1>1, <1>2, <1>9, <2>3 DEF MergeKey, EndPoll
    <3> QED BY <1>9, <2>1, <2>2, <3>1 DEF MergeKey
  <2>4. CASE todo # {k}
    BY <1>9, <2>1, <2>2, <2>4 DEF MergeKey
  <2> QED BY <2>3, <2>4
<1>10. CASE RestartWorker
  <2>1. floor' \in [Keys -> Nat]
    BY <1>10 DEF RestartWorker, Empty
  <2>2. failures' \in 0..MaxFailures
    BY <1>10, FailsType DEF RestartWorker
  <2>3. poll' \in Poll /\ poll'.phase = "idle"
    BY <1>1, <1>2, <1>10 DEF RestartWorker
  <2>4. tries' \in 0..Times /\ store' \in Content /\ source' \in Digests
    BY <1>10 DEF RestartWorker
  <2>5. TypeOK'
    BY <1>10, <2>1, <2>2, <2>3, <2>4 DEF RestartWorker
  <2> QED BY <1>10, <2>3, <2>5 DEF RestartWorker
<1> QED BY <1>3, <1>4, <1>5, <1>6, <1>7, <1>8, <1>9, <1>10 DEF PollStep

\* Every step keeps the types, the writes of the datastore included.
LEMMA TypeStep == TypeInv /\ [Next]_vars => TypeInv'
<1> SUFFICES ASSUME TypeInv, [Next]_vars PROVE TypeInv'
  OBVIOUS
<1>1. ASSUME NEW k \in Keys, Write(k) PROVE TypeInv'
  <2> USE DEF TypeInv, TypeOK, PollInv, cacheVars, pollVars, storeVars
  <2>1. writes' \in 0..MaxWrites /\ db' \in Content
    BY <1>1, StateAssumption DEF Write, Content
  <2> QED BY <1>1, <2>1 DEF Write
<1>2. CASE UNCHANGED vars
  BY <1>2 DEF TypeInv, TypeOK, PollInv, vars, dbVars, cacheVars, pollVars, storeVars
<1>3. CASE \E l \in Leaders, r \in Runs : StartCache(l, r) \/ CacheStep(l, r)
  BY <1>3, LeaderType
<1>4. CASE \E l \in Leaders : GrowOld(l) \/ RestartLeader(l)
  BY <1>4, RestType
<1>5. CASE StartPoll \/ (\E l \in Leaders : Attempt(l)) \/ PollStep \/ RestartWorker
  BY <1>5, WorkerType
<1> QED BY <1>1, <1>2, <1>3, <1>4, <1>5 DEF Next

\* Every state the model reaches is well typed: an attempt is never made without
\* a poll, the attempts never exceed worker.state.retries, a walk of the memory
\* always belongs to the poll that received the state.
THEOREM TypeCorrect == Spec => [](TypeOK /\ PollInv)
<1>1. Init => TypeInv
  BY TypeInit
<1>2. TypeInv /\ [Next]_vars => TypeInv'
  BY TypeStep
<1> QED BY <1>1, <1>2, PTL DEF Spec, TypeInv

--------------------------------------------------------------------------------
(* The state the worker serves. *)

\* While it walks the keys, the worker has what it received, whole, and the keys
\* it visited are as the received state has them; otherwise it serves the export
\* whose digest it checked.
WholeInv ==
    /\ poll.phase = "merge" =>
          /\ source = poll.sent
          /\ todo # {}
          /\ \A k \in Keys \ todo : store[k] = poll.sent[k]
    /\ poll.phase # "merge" => store = source

\* A worker that starts serves the empty state and polls nothing.
LEMMA WholeInit == Init => WholeInv
<1> SUFFICES ASSUME Init PROVE WholeInv
  OBVIOUS
<1>1. PICK l \in Leaders : poll = NoPoll(l)
  BY DEF Init
<1>2. poll.phase = "idle" /\ store = Empty /\ source = Empty
  BY <1>1 DEF Init, NoPoll
<1> QED BY <1>2 DEF WholeInv

\* What the datastore, the leaders and the requests do leaves all of it alone.
LEMMA WholeFrame ==
  ASSUME WholeInv, UNCHANGED <<poll, store, todo, source>>
  PROVE  WholeInv'
BY DEF WholeInv

\* The steps that only move an attempt, on either side of the merge.
LEMMA WholeAttempt ==
  ASSUME WholeInv, UNCHANGED <<store, todo, source>>,
         poll.phase # "merge", poll'.phase # "merge"
  PROVE  WholeInv'
BY DEF WholeInv

\* A complete and valid state is installed at once, or its walk begins.
LEMMA WholeInstall ==
  ASSUME TypeInv, WholeInv, Install
  PROVE  WholeInv'
<1>1. poll.phase = "check" /\ poll.sent = poll.digest
  BY DEF Install, Valid
<1>2. NoPoll(poll.leader).phase = "idle"
  BY DEF NoPoll
<1>3. CASE Live(poll.sent) = {} /\ EndPoll /\ UNCHANGED storeVars
  BY <1>1, <1>2, <1>3, WholeAttempt DEF EndPoll, storeVars
<1>4. CASE Live(poll.sent) # {} /\ source' = poll.digest /\ Replace
  BY <1>1, <1>2, <1>4 DEF Replace, EndPoll, WholeInv
<1>5. CASE Live(poll.sent) # {} /\ source' = poll.digest /\ StartMerge
  <2>1. Keys # {}
    BY <1>5 DEF Live
  <2>2. poll'.phase = "merge" /\ poll'.sent = poll.sent
    BY <1>5 DEF StartMerge, TypeInv, TypeOK, Poll
  <2> QED BY <1>1, <1>5, <2>1, <2>2 DEF StartMerge, WholeInv
<1> QED BY <1>3, <1>4, <1>5 DEF Install

\* A visited key is as the received state has it; after the last one all are.
LEMMA WholeMergeKey ==
  ASSUME TypeInv, WholeInv, NEW k \in Keys, MergeKey(k)
  PROVE  WholeInv' /\ source' = poll.sent /\ store' = [store EXCEPT ![k] = source'[k]]
<1>1. /\ poll.phase = "merge" /\ source = poll.sent
      /\ \A j \in Keys \ todo : store[j] = poll.sent[j]
      /\ store' = [store EXCEPT ![k] = poll.sent[k]]
      /\ todo' = todo \ {k} /\ UNCHANGED source
  BY DEF MergeKey, WholeInv
<1>2. store \in Content /\ poll.sent \in Content
  BY DEF TypeInv, TypeOK, Poll
<1>3. \A j \in Keys \ todo' : store'[j] = poll.sent[j]
  BY <1>1, <1>2 DEF Content
<1>4. CASE todo = {k}
  <2>1. \A j \in Keys : store'[j] = poll.sent[j]
    BY <1>1, <1>3, <1>4
  <2>2. store' = poll.sent
    BY <1>1, <1>2, <2>1 DEF Content
  <2>3. poll'.phase = "idle"
    BY <1>4 DEF MergeKey, EndPoll, NoPoll
  <2> QED BY <1>1, <2>2, <2>3 DEF WholeInv
<1>5. CASE todo # {k}
  <2>1. UNCHANGED poll
    BY <1>5 DEF MergeKey
  <2>2. todo' # {}
    BY <1>1, <1>5 DEF WholeInv
  <2> QED BY <1>1, <1>3, <2>1, <2>2 DEF WholeInv
<1> QED BY <1>4, <1>5

\* The steps of the worker that reach neither its memory nor a walk.
LEMMA AttemptFrame ==
  ASSUME TypeInv, \/ StartPoll \/ (\E l \in Leaders : Attempt(l))
                  \/ ReadState \/ Receive \/ FailAttempt
  PROVE  /\ UNCHANGED <<store, todo, source, floor>>
         /\ UNCHANGED poll \/ (poll.phase # "merge" /\ poll'.phase # "merge")
<1> USE DEF TypeInv, TypeOK, Poll, NoPoll, storeVars, pollVars
<1>1. CASE StartPoll
  BY <1>1 DEF StartPoll
<1>2. CASE \E l \in Leaders : Attempt(l)
  BY <1>2 DEF Attempt
<1>3. CASE ReadState
  BY <1>3 DEF ReadState
<1>4. CASE Receive
  BY <1>4 DEF Receive
<1>5. CASE FailAttempt
  BY <1>5 DEF FailAttempt
<1> QED BY <1>1, <1>2, <1>3, <1>4, <1>5

\* The steps of the datastore and of the leaders.
LEMMA LeaderFrame ==
  ASSUME \/ \E k \in Keys : Write(k)
         \/ \E l \in Leaders, r \in Runs : StartCache(l, r) \/ CacheStep(l, r)
         \/ \E l \in Leaders : GrowOld(l) \/ RestartLeader(l)
  PROVE  UNCHANGED <<pollVars, storeVars>>
<1>1. CASE \E k \in Keys : Write(k)
  BY <1>1 DEF Write
<1>2. ASSUME NEW l \in Leaders, NEW r \in Runs, StartCache(l, r) \/ CacheStep(l, r)
      PROVE  UNCHANGED <<pollVars, storeVars>>
  <2>1. CASE Publish(l, r)
    BY <2>1 DEF Publish
  <2> QED BY <1>2, <2>1 DEF StartCache, CacheStep, EndExport, ExportKey
<1>3. CASE \E l \in Leaders : GrowOld(l) \/ RestartLeader(l)
  BY <1>3 DEF GrowOld, RestartLeader
<1> QED BY <1>1, <1>2, <1>3

\* Every step keeps the worker's memory whole.
LEMMA WholeStep == TypeInv /\ WholeInv /\ [Next]_vars => WholeInv'
<1> SUFFICES ASSUME TypeInv, WholeInv, [Next]_vars PROVE WholeInv'
  OBVIOUS
<1>1. CASE UNCHANGED <<pollVars, storeVars>>
  BY <1>1, WholeFrame DEF pollVars, storeVars
<1>2. CASE \/ StartPoll \/ (\E l \in Leaders : Attempt(l))
           \/ ReadState \/ Receive \/ FailAttempt
  BY <1>2, AttemptFrame, WholeAttempt, WholeFrame
<1>3. CASE Install
  BY <1>3, WholeInstall
<1>4. CASE \E k \in Keys : MergeKey(k)
  BY <1>4, WholeMergeKey
<1>5. CASE RestartWorker
  BY <1>5 DEF RestartWorker, NoPoll, WholeInv
<1>6. CASE UNCHANGED vars
  BY <1>1, <1>6 DEF vars
<1> QED BY <1>1, <1>2, <1>3, <1>4, <1>5, <1>6, LeaderFrame DEF Next, PollStep

\* What the worker serves from is always one complete export of a leader.
THEOREM ServesWholeStates == Spec => []Whole
<1>1. Init => TypeInv /\ WholeInv
  BY TypeInit, WholeInit
<1>2. TypeInv /\ WholeInv /\ [Next]_vars => (TypeInv /\ WholeInv)'
  BY TypeStep, WholeStep
<1>3. TypeInv /\ WholeInv => Whole
  BY DEF WholeInv, Whole
<1> QED BY <1>1, <1>2, <1>3, PTL DEF Spec

\* No key disappears while a state that has it is being installed.
THEOREM KeysNeverDropOut == Spec => NoGap
<1>1. Init => TypeInv /\ WholeInv
  BY TypeInit, WholeInit
<1>2. TypeInv /\ WholeInv /\ [Next]_vars => (TypeInv /\ WholeInv)'
  BY TypeStep, WholeStep
<1>3. TypeInv /\ WholeInv /\ [Next]_vars
      => [\A k \in Keys : store[k] # 0 /\ store'[k] = 0 => source'[k] = 0]_vars
  <2> SUFFICES ASSUME TypeInv, WholeInv, [Next]_vars,
                      NEW k \in Keys, store[k] # 0, store'[k] = 0
               PROVE  source'[k] = 0
    OBVIOUS
  <2>1. ~UNCHANGED store
    OBVIOUS
  <2>2. CASE Install
    BY <2>1, <2>2 DEF Install, Valid, Replace, StartMerge, storeVars
  <2>3. ASSUME NEW j \in Keys, MergeKey(j) PROVE source'[k] = 0
    <3>1. store' = [store EXCEPT ![j] = source'[j]] /\ store \in Content
      BY <2>3, WholeMergeKey DEF TypeInv, TypeOK
    <3> QED BY <3>1 DEF Content
  <2>4. CASE RestartWorker
    BY <2>4 DEF RestartWorker, Empty
  <2> QED BY <2>1, <2>2, <2>3, <2>4, AttemptFrame, LeaderFrame DEF Next, PollStep, vars, storeVars
<1> QED BY <1>1, <1>2, <1>3, PTL DEF Spec, NoGap

--------------------------------------------------------------------------------
(* A worker never goes back. *)

\* The workers have one leader to poll.
SoleLeader == \A l, m \in Leaders : l = m

\* The flag keeps the exports of a leader apart.  Runs that publish overlap, and are
\* ordered by the moment they started.
RunInv == \A l \in Leaders, r \in Runs :
    /\ runs[l][r].phase = "export" => caching[l]
    /\ runs[l][r].phase \in {"ref", "at", "digest"} => runs[l][r].keys = {}
    /\ runs[l][r].ahead \subseteq Publishing(l)
    /\ \A q \in Runs \ {r} :
          /\ runs[l][r].phase # "export" \/ runs[l][q].phase # "export"
          /\ \/ runs[l][r].phase = "idle" \/ runs[l][q].phase = "idle"
             \/ q \in runs[l][r].ahead \/ r \in runs[l][q].ahead

\* A walk installs a state that was compared with its digest.
SentInv == poll.phase = "merge" => poll.sent = poll.digest

\* A write of a key goes through these places, the farthest from the datastore
\* first: the memory of the worker (0), the digest its poll was given (1), the
\* published digest (2), the runs that read the key (3) and the datastore (4).
Place == (0..4) \X Runs

Value(x, k) ==
    IF x[1] = 0 THEN store[k]
    ELSE IF x[1] = 1 THEN poll.digest[k]
    ELSE IF x[1] = 2 THEN cacheDigest[poll.leader][k]
    ELSE IF x[1] = 3 THEN runs[poll.leader][x[2]].got[k]
    ELSE db[k]

\* The places that hold something of the key.
Taken(x, k) ==
    /\ x[1] = 1 => poll.digest # NoDigest
    /\ x[1] = 2 => cacheDigest[poll.leader] # NoDigest
    /\ x[1] = 3 => /\ runs[poll.leader][x[2]].phase # "idle"
                   /\ k \notin runs[poll.leader][x[2]].keys

\* Two runs hold what they read in the order they started.
Before(x, y) ==
    \/ x[1] < y[1]
    \/ x[1] = y[1] /\ (x[1] = 3 => x[2] = y[2] \/ x[2] \in runs[poll.leader][y[2]].ahead)

\* What three places hold, the farthest from the datastore first: a write is not
\* followed by an older one, nor by itself once the key was deleted.
Chain(x, y, z) ==
    /\ y # 0 => y >= x
    /\ z # 0 => z >= x /\ z >= y
    /\ y = 0 /\ z # 0 => z > x

\* What one place holds, after n writes, with the floor f of the key.
Held(v, f, n) == v \in 0..n /\ (v # 0 => v >= f)

\* All of them.
Chained(k) == \A x, y, z \in Place :
    Taken(x, k) /\ Taken(y, k) /\ Taken(z, k) /\ Before(x, y) /\ Before(y, z)
        => Chain(Value(x, k), Value(y, k), Value(z, k))

Line(k) ==
    /\ floor[k] \in 0..(writes + 1)
    /\ \A x \in Place : Taken(x, k) => Held(Value(x, k), floor[k], writes)
    /\ Chained(k)

LineInv == ~overtook => \A k \in Keys : Line(k)

\* The flag is taken before an export starts and released when it has ended.
LEMMA RunStep == TypeInv /\ RunInv /\ [Next]_vars => RunInv'
<1> SUFFICES ASSUME TypeInv, RunInv, [Next]_vars PROVE RunInv'
  OBVIOUS
<1> USE DEF RunInv, Publishing
<1>0. /\ runs \in [Leaders -> [Runs -> Run]] /\ caching \in [Leaders -> BOOLEAN]
      /\ \A l \in Leaders, r \in Runs : runs[l][r] \in Run
  BY DEF TypeInv, TypeOK
<1>1. CASE UNCHANGED <<caching, runs>>
  BY <1>1
<1>2. ASSUME NEW l \in Leaders, NEW r \in Runs, StartCache(l, r) PROVE RunInv'
  <2>1. /\ runs[l][r].phase = "idle" /\ ~caching[l]
        /\ caching' = [caching EXCEPT ![l] = TRUE]
        /\ runs' = [runs EXCEPT ![l][r] = Started(l)]
    BY <1>2 DEF StartCache
  <2>2. Started(l).phase = "export" /\ Started(l).ahead = Publishing(l)
    BY DEF Started
  <2>3. \A m \in Leaders, q \in Runs : m # l \/ q # r => runs'[m][q] = runs[m][q]
    BY <1>0, <2>1
  <2>4. runs'[l][r].phase = "export" /\ runs'[l][r].ahead = Publishing(l)
    BY <1>0, <2>1, <2>2
  <2>5. \A m \in Leaders : Publishing(m)' = Publishing(m)
    BY <2>1, <2>3, <2>4
  <2>6. \A q \in Runs : runs[l][q].phase # "export"
    BY <2>1
  <2>7. \A q \in Runs : runs[l][q].phase = "idle" \/ q \in Publishing(l)
    BY <1>0, <2>6 DEF Run
  <2> HIDE DEF Publishing
  <2>8. ASSUME NEW m \in Leaders, m # l PROVE runs'[m] = runs[m] /\ caching'[m] = caching[m]
    BY <1>0, <2>1, <2>8
  <2>9. ASSUME NEW m \in Leaders, NEW p \in Runs
        PROVE  /\ runs'[m][p].phase = "export" => caching'[m]
               /\ runs'[m][p].phase \in {"ref", "at", "digest"} => runs'[m][p].keys = {}
               /\ runs'[m][p].ahead \subseteq Publishing(m)
    BY <1>0, <2>1, <2>3, <2>4, <2>8
  <2>10. ASSUME NEW m \in Leaders, NEW p \in Runs, NEW q \in Runs \ {p}
         PROVE  /\ runs'[m][p].phase # "export" \/ runs'[m][q].phase # "export"
                /\ \/ runs'[m][p].phase = "idle" \/ runs'[m][q].phase = "idle"
                   \/ q \in runs'[m][p].ahead \/ p \in runs'[m][q].ahead
    BY <2>3, <2>4, <2>6, <2>7
  <2> QED BY <2>5, <2>9, <2>10
<1>3. ASSUME NEW l \in Leaders, NEW r \in Runs, NEW k \in Keys, ExportKey(l, r, k) PROVE RunInv'
  <2>1. runs[l][r].phase = "export" /\ UNCHANGED caching
    BY <1>3 DEF ExportKey
  <2>2. \A m \in Leaders, q \in Runs : /\ runs'[m][q].phase = runs[m][q].phase
                                       /\ runs'[m][q].ahead = runs[m][q].ahead
    BY <1>0, <1>3 DEF ExportKey, Run
  <2>3. \A m \in Leaders, q \in Runs : m # l \/ q # r => runs'[m][q] = runs[m][q]
    BY <1>0, <1>3 DEF ExportKey
  <2> QED BY <2>1, <2>2, <2>3
<1>4. ASSUME NEW l \in Leaders, NEW r \in Runs, EndExport(l, r) PROVE RunInv'
  <2>1. /\ runs[l][r].phase = "export" /\ caching' = [caching EXCEPT ![l] = FALSE]
        /\ \A q \in Runs \ {r} : runs[l][q].phase # "export"
        /\ \A q \in Runs : r \notin runs[l][q].ahead
    BY <1>0, <1>4 DEF EndExport
  <2>2. \A m \in Leaders, q \in Runs : m # l \/ q # r => runs'[m][q] = runs[m][q]
    BY <1>0, <1>4 DEF EndExport
  <2>3. \/ runs'[l][r].phase = "ref" /\ runs'[l][r].keys = {} /\ runs'[l][r].ahead = runs[l][r].ahead
        \/ runs'[l][r].phase = "idle" /\ runs'[l][r].ahead = {}
    <3>1. CASE runs[l][r].keys = {} /\ runs' = [runs EXCEPT ![l][r].phase = "ref"]
      BY <1>0, <3>1 DEF Run
    <3>2. CASE runs' = [runs EXCEPT ![l][r] = NoRun]
      BY <1>0, <3>2 DEF NoRun
    <3> QED BY <1>4, <3>1, <3>2 DEF EndExport
  <2>4. \A m \in Leaders \ {l} : runs'[m] = runs[m] /\ caching'[m] = caching[m]
    BY <1>0, <1>4 DEF EndExport
  <2>5. Publishing(l) \subseteq Publishing(l)'
    BY <2>1, <2>2
  <2> QED BY <1>0, <2>1, <2>2, <2>3, <2>4, <2>5
<1>5. ASSUME NEW l \in Leaders, NEW r \in Runs, Publish(l, r) PROVE RunInv'
  <2>1. /\ runs[l][r].phase \in {"ref", "at", "digest"} /\ UNCHANGED caching
    BY <1>0, <1>5 DEF Publish
  <2>2. \A m \in Leaders \ {l} : runs'[m] = runs[m]
    BY <1>0, <1>5 DEF Publish, Finished
  <2>3. ASSUME NEW p \in {"at", "digest"}, runs' = [runs EXCEPT ![l][r].phase = p] PROVE RunInv'
    <3>1. /\ \A m \in Leaders, q \in Runs : m # l \/ q # r => runs'[m][q] = runs[m][q]
          /\ runs'[l][r].phase = p /\ runs'[l][r].keys = runs[l][r].keys
          /\ runs'[l][r].ahead = runs[l][r].ahead
      BY <1>0, <2>3 DEF Run
    <3> QED BY <2>1, <2>2, <3>1
  <2>4. CASE runs' = Finished(l, r)
    <3>1. runs'[l][r].phase = "idle" /\ runs'[l][r].ahead = {}
      BY <1>0, <2>4 DEF Finished, NoRun
    <3>2. \A q \in Runs \ {r} : /\ runs'[l][q].phase = runs[l][q].phase
                                /\ runs'[l][q].keys = runs[l][q].keys
                                /\ runs'[l][q].ahead = runs[l][q].ahead \ {r}
      BY <1>0, <2>4 DEF Finished, Run
    <3>3. Publishing(l)' = Publishing(l) \ {r}
      BY <3>1, <3>2
    <3> QED BY <2>1, <2>2, <3>1, <3>2, <3>3
  <2> QED BY <1>5, <2>3, <2>4 DEF Publish
<1>6. ASSUME NEW l \in Leaders, RestartLeader(l) PROVE RunInv'
  <2>1. \A q \in Runs : runs'[l][q].phase = "idle" /\ runs'[l][q].ahead = {}
    BY <1>0, <1>6 DEF RestartLeader, NoRun
  <2>2. \A m \in Leaders \ {l} : runs'[m] = runs[m] /\ caching'[m] = caching[m]
    BY <1>0, <1>6 DEF RestartLeader
  <2> QED BY <2>1, <2>2
<1>7. CASE UNCHANGED vars
  BY <1>1, <1>7 DEF vars
<1>8. CASE (\E l \in Leaders : GrowOld(l)) \/ \E k \in Keys : Write(k)
  BY <1>1, <1>8 DEF GrowOld, Write
<1>9. CASE StartPoll \/ (\E l \in Leaders : Attempt(l)) \/ PollStep \/ RestartWorker
  <2>1. UNCHANGED <<caching, runs>>
    BY <1>9 DEF StartPoll, Attempt, PollStep, ReadState, Receive, FailAttempt, Install, MergeKey,
       RestartWorker
  <2> QED BY <1>1, <2>1
<1> QED BY <1>2, <1>3, <1>4, <1>5, <1>6, <1>7, <1>8, <1>9 DEF Next, CacheStep

\* What is walked is what was compared.
LEMMA SentStep == TypeInv /\ SentInv /\ [Next]_vars => SentInv'
<1> SUFFICES ASSUME TypeInv, SentInv, [Next]_vars PROVE SentInv'
  OBVIOUS
<1>1. CASE UNCHANGED poll \/ poll'.phase # "merge"
  BY <1>1 DEF SentInv
<1>2. CASE Install
  <2>1. NoPoll(poll.leader).phase = "idle"
    BY DEF NoPoll
  <2>2. CASE EndPoll
    BY <1>1, <2>1, <2>2 DEF EndPoll
  <2>3. CASE StartMerge
    <3>1. poll'.sent = poll.sent /\ poll'.digest = poll.digest
      BY <2>3 DEF StartMerge, TypeInv, TypeOK, Poll
    <3> QED BY <1>2, <3>1 DEF Install, Valid, SentInv
  <2> QED BY <1>2, <2>2, <2>3 DEF Install, Replace
<1>3. CASE \E k \in Keys : MergeKey(k)
  <2>1. NoPoll(poll.leader).phase = "idle"
    BY DEF NoPoll
  <2> QED BY <1>1, <1>3, <2>1 DEF MergeKey, EndPoll
<1>4. CASE RestartWorker
  BY <1>4 DEF RestartWorker, NoPoll, SentInv
<1>5. CASE UNCHANGED <<pollVars, storeVars>>
  BY <1>1, <1>5 DEF pollVars
<1>6. CASE UNCHANGED vars
  BY <1>5, <1>6 DEF vars
<1>7. CASE \/ StartPoll \/ (\E l \in Leaders : Attempt(l))
           \/ ReadState \/ Receive \/ FailAttempt
  BY <1>1, <1>7, AttemptFrame
<1> QED BY <1>2, <1>3, <1>4, <1>5, <1>6, <1>7, LeaderFrame DEF Next, PollStep



\* Places that take over what other places held, in an order that those had, break
\* no line.
LEMMA ChainMoves ==
  ASSUME NEW k \in Keys, Chained(k), NEW from \in [Place -> Place],
         \A x \in Place : Taken(x, k)' => Taken(from[x], k) /\ Value(x, k)' = Value(from[x], k),
         \A x, y \in Place : Taken(x, k)' /\ Taken(y, k)' /\ Before(x, y)' => Before(from[x], from[y])
  PROVE  Chained(k)'
<1> SUFFICES ASSUME NEW x \in Place, NEW y \in Place, NEW z \in Place,
                    Taken(x, k)', Taken(y, k)', Taken(z, k)', Before(x, y)', Before(y, z)'
             PROVE  Chain(Value(x, k)', Value(y, k)', Value(z, k)')
  BY DEF Chained
<1>1. Before(from[x], from[y]) /\ Before(from[y], from[z])
  OBVIOUS
<1>2. /\ from[x] \in Place /\ from[y] \in Place /\ from[z] \in Place
      /\ Taken(from[x], k) /\ Taken(from[y], k) /\ Taken(from[z], k)
      /\ Value(x, k)' = Value(from[x], k) /\ Value(y, k)' = Value(from[y], k)
      /\ Value(z, k)' = Value(from[z], k)
  OBVIOUS
<1> QED BY <1>1, <1>2 DEF Chained

LEMMA LineMoves ==
  ASSUME NEW k \in Keys, Line(k), floor'[k] = floor[k], writes' = writes,
         NEW from \in [Place -> Place],
         \A x \in Place : Taken(x, k)' => Taken(from[x], k) /\ Value(x, k)' = Value(from[x], k),
         \A x, y \in Place : Taken(x, k)' /\ Taken(y, k)' /\ Before(x, y)' => Before(from[x], from[y])
  PROVE  Line(k)'
<1>1. Chained(k)'
  BY ChainMoves DEF Line
<1>2. ASSUME NEW x \in Place, Taken(x, k)' PROVE Held(Value(x, k)', floor[k], writes)
  <2>1. from[x] \in Place /\ Taken(from[x], k) /\ Value(x, k)' = Value(from[x], k)
    BY <1>2
  <2> QED BY <2>1 DEF Line
<1> QED BY <1>1, <1>2 DEF Line

\* A place of each kind, and what it is made of.
LEMMA Places ==
  /\ \A x \in Place : x[1] \in 0..4 /\ x[2] \in Runs /\ x = <<x[1], x[2]>>
  /\ \A n \in 0..4, r \in Runs : <<n, r>> \in Place
BY DEF Place

\* A run starts, reads a key, goes on or ends without publishing its digest.
LEMMA LineRun ==
  ASSUME NEW k \in Keys, Line(k), UNCHANGED <<store, floor, poll, cacheDigest, db, writes>>,
         NEW r \in Runs,
         \A q \in Runs \ {r} : runs'[poll.leader][q] = runs[poll.leader][q],
         Taken(<<3, r>>, k)' =>
             \/ /\ Taken(<<3, r>>, k)
                /\ runs'[poll.leader][r].got[k] = runs[poll.leader][r].got[k]
                /\ runs'[poll.leader][r].ahead = runs[poll.leader][r].ahead
             \/ /\ runs'[poll.leader][r].got[k] = db[k]
                /\ \A q \in Runs : r \notin runs'[poll.leader][q].ahead
  PROVE  Line(k)'
<1> DEFINE new == /\ runs'[poll.leader][r].got[k] = db[k]
                  /\ \A q \in Runs : r \notin runs'[poll.leader][q].ahead
           from == [x \in Place |-> IF x = <<3, r>> /\ new THEN <<4, r>> ELSE x]
<1>1. from \in [Place -> Place]
  BY Places
<1>2. ASSUME NEW x \in Place, Taken(x, k)'
      PROVE  Taken(from[x], k) /\ Value(x, k)' = Value(from[x], k)
  <2>1. CASE x = <<3, r>> /\ new
    BY <2>1, Places DEF Taken, Value
  <2>2. CASE x = <<3, r>> /\ ~new
    BY <1>2, <2>2, Places DEF Taken, Value
  <2>3. CASE x # <<3, r>>
    <3>1. from[x] = x /\ (x[1] = 3 => x[2] \in Runs \ {r})
      BY <2>3, Places
    <3> QED BY <1>2, <3>1 DEF Taken, Value
  <2> QED BY <2>1, <2>2, <2>3
<1>3. ASSUME NEW x \in Place, NEW y \in Place, Taken(x, k)', Taken(y, k)', Before(x, y)'
      PROVE  Before(from[x], from[y])
  <2>1. ASSUME NEW z \in Place, ~(z = <<3, r>> /\ new) PROVE from[z] = z
    BY <2>1
  <2>2. CASE x = <<3, r>> /\ new
    <3>1. y = <<3, r>> \/ y[1] = 4
      BY <1>3, <2>2, Places DEF Before
    <3> QED BY <2>1, <2>2, <3>1, Places DEF Before
  <2>3. CASE ~(x = <<3, r>> /\ new) /\ y = <<3, r>> /\ new
    <3>1. x[1] \in 0..3
      BY <1>3, <2>3, Places DEF Before
    <3> QED BY <2>1, <2>3, <3>1, Places DEF Before
  <2>4. CASE ~(x = <<3, r>> /\ new) /\ ~(y = <<3, r>> /\ new)
    <3>1. from[x] = x /\ from[y] = y
      BY <2>1, <2>4
    <3>2. CASE y = <<3, r>>
      <4>1. runs'[poll.leader][r].ahead = runs[poll.leader][r].ahead
        BY <1>3, <2>4, <3>2
      <4> QED BY <1>3, <3>1, <3>2, <4>1, Places DEF Before
    <3>3. CASE y # <<3, r>>
      <4>1. y[1] = 3 => runs'[poll.leader][y[2]] = runs[poll.leader][y[2]]
        BY <3>3, Places
      <4> QED BY <1>3, <3>1, <4>1 DEF Before
    <3> QED BY <3>2, <3>3
  <2> QED BY <2>2, <2>3, <2>4
<1> HIDE DEF from
<1> QED BY <1>1, <1>2, <1>3, LineMoves

\* The steps of a run, up to the assignment of the digest.
LEMMA LineExport ==
  ASSUME SoleLeader, TypeInv, RunInv, LineInv, NEW l \in Leaders, NEW r \in Runs,
         \/ StartCache(l, r) \/ EndExport(l, r) \/ \E k \in Keys : ExportKey(l, r, k)
         \/ Publish(l, r) /\ runs[l][r].phase # "digest"
  PROVE  LineInv'
<1>0. /\ poll.leader = l /\ runs \in [Leaders -> [Runs -> Run]] /\ runs[l][r] \in Run
      /\ db \in Content
  BY DEF TypeInv, TypeOK, Poll, SoleLeader
<1>1. UNCHANGED <<store, floor, poll, cacheDigest, db, writes, overtook>>
  <2>1. CASE StartCache(l, r) \/ EndExport(l, r)
    BY <2>1 DEF StartCache, EndExport, dbVars, cacheVars, pollVars, storeVars
  <2>2. CASE \E k \in Keys : ExportKey(l, r, k)
    BY <2>2 DEF ExportKey, dbVars, cacheVars, pollVars, storeVars
  <2>3. CASE Publish(l, r) /\ runs[l][r].phase # "digest"
    BY <2>3 DEF Publish, dbVars, cacheVars, pollVars, storeVars
  <2> QED BY <2>1, <2>2, <2>3
<1>2. \A q \in Runs \ {r} : runs'[l][q] = runs[l][q]
  <2>1. CASE StartCache(l, r) \/ EndExport(l, r)
    BY <1>0, <2>1 DEF StartCache, EndExport
  <2>2. CASE \E k \in Keys : ExportKey(l, r, k)
    BY <1>0, <2>2 DEF ExportKey
  <2>3. CASE Publish(l, r) /\ runs[l][r].phase # "digest"
    BY <1>0, <2>3 DEF Publish
  <2> QED BY <2>1, <2>2, <2>3
<1> SUFFICES ASSUME ~overtook, NEW k \in Keys PROVE Line(k)'
  BY <1>1 DEF LineInv
<1> DEFINE same == /\ Taken(<<3, r>>, k)
                   /\ runs'[l][r].got[k] = runs[l][r].got[k]
                   /\ runs'[l][r].ahead = runs[l][r].ahead
           new == /\ runs'[l][r].got[k] = db[k]
                  /\ \A q \in Runs : r \notin runs'[l][q].ahead
<1>3. ASSUME Taken(<<3, r>>, k)' PROVE same \/ new
  <2>1. runs'[l][r].phase # "idle" /\ k \notin runs'[l][r].keys
    BY <1>0, <1>1, <1>3 DEF Taken
  <2>2. CASE StartCache(l, r)
    <3>1. runs'[l][r] = Started(l) /\ runs[l][r].phase = "idle"
      BY <1>0, <2>2 DEF StartCache
    <3>2. runs'[l][r].got[k] = 0 /\ db[k] = 0
      BY <2>1, <3>1 DEF Started, Empty, Live
    <3>3. r \notin Publishing(l)
      BY <3>1 DEF Publishing
    <3>4. \A q \in Runs : r \notin runs'[l][q].ahead
      BY <1>2, <3>1, <3>3 DEF Started, RunInv
    <3> QED BY <3>2, <3>4
  <2>3. ASSUME NEW j \in Keys, ExportKey(l, r, j) PROVE same \/ new
    <3>1. /\ runs[l][r].phase = "export"
          /\ runs'[l][r] = [runs[l][r] EXCEPT !.keys = @ \ {j}, !.got[j] = db[j]]
      BY <1>0, <2>3 DEF ExportKey
    <3>2. /\ runs'[l][r].keys = runs[l][r].keys \ {j} /\ runs'[l][r].ahead = runs[l][r].ahead
          /\ runs'[l][r].got = [runs[l][r].got EXCEPT ![j] = db[j]]
          /\ runs[l][r].got \in Content
      BY <1>0, <3>1 DEF Run
    <3>3. CASE k = j
      <4>1. runs'[l][r].got[k] = db[k]
        BY <3>2, <3>3 DEF Content
      <4>2. \A q \in Runs : r \notin runs'[l][q].ahead
        BY <1>2, <3>1, <3>2 DEF RunInv, Publishing
      <4> QED BY <4>1, <4>2
    <3>4. CASE k # j
      BY <1>0, <2>1, <3>1, <3>2, <3>4 DEF Content, Taken
    <3> QED BY <3>3, <3>4
  <2>4. ASSUME NEW p \in {"ref", "at", "digest"}, runs[l][r].phase # "idle",
               runs' = [runs EXCEPT ![l][r].phase = p]
        PROVE  same
    <3>1. /\ runs'[l][r].keys = runs[l][r].keys /\ runs'[l][r].got = runs[l][r].got
          /\ runs'[l][r].ahead = runs[l][r].ahead
      BY <1>0, <2>4 DEF Run
    <3> QED BY <1>0, <2>1, <2>4, <3>1 DEF Taken
  <2>5. ~(runs' = [runs EXCEPT ![l][r] = NoRun])
    BY <1>0, <2>1 DEF NoRun
  <2>6. CASE EndExport(l, r)
    BY <2>4, <2>5, <2>6 DEF EndExport
  <2>7. CASE Publish(l, r) /\ runs[l][r].phase # "digest"
    BY <2>4, <2>7 DEF Publish
  <2> QED BY <2>2, <2>3, <2>6, <2>7
<1>4. Line(k)
  BY DEF LineInv
<1> QED BY <1>0, <1>1, <1>2, <1>3, <1>4, LineRun

\* The digest is assigned: the cache takes over what the run read, and no run that
\* started earlier has still to publish.
LEMMA LinePublish ==
  ASSUME SoleLeader, TypeInv, RunInv, LineInv, NEW l \in Leaders, NEW r \in Runs,
         Publish(l, r), runs[l][r].phase = "digest"
  PROVE  LineInv'
<1>0. /\ poll.leader = l /\ runs \in [Leaders -> [Runs -> Run]]
      /\ \A q \in Runs : runs[l][q] \in Run
      /\ cacheDigest \in [Leaders -> Digests] /\ NoDigest \notin Content
  BY StateAssumption DEF TypeInv, TypeOK, Poll, SoleLeader
<1>1. /\ UNCHANGED <<store, floor, poll, db, writes>>
      /\ cacheDigest' = [cacheDigest EXCEPT ![l] = runs[l][r].got]
      /\ runs' = Finished(l, r) /\ overtook' = (overtook \/ runs[l][r].ahead # {})
  BY DEF Publish, dbVars, cacheVars, pollVars, storeVars
<1> SUFFICES ASSUME ~overtook, runs[l][r].ahead = {}, NEW k \in Keys PROVE Line(k)'
  BY <1>1 DEF LineInv
<1> DEFINE from == [x \in Place |-> IF x[1] = 2 THEN <<3, r>> ELSE x]
<1>2. from \in [Place -> Place]
  BY Places
<1>3. /\ runs'[l][r].phase = "idle"
      /\ \A q \in Runs \ {r} :
            /\ runs'[l][q].phase = runs[l][q].phase /\ runs'[l][q].keys = runs[l][q].keys
            /\ runs'[l][q].got = runs[l][q].got /\ runs'[l][q].ahead \subseteq runs[l][q].ahead
  BY <1>0, <1>1 DEF Finished, NoRun, Run
<1>4. /\ runs[l][r].keys = {} /\ cacheDigest'[l] = runs[l][r].got
      /\ \A q \in Runs \ {r} : runs[l][q].phase # "idle" => r \in runs[l][q].ahead
  BY <1>0, <1>1 DEF RunInv
<1>5. ASSUME NEW x \in Place, Taken(x, k)'
      PROVE  Taken(from[x], k) /\ Value(x, k)' = Value(from[x], k)
  <2>1. CASE x[1] = 2
    BY <1>0, <1>1, <1>4, <2>1, Places DEF Taken, Value
  <2>2. CASE x[1] = 3
    <3>1. x[2] \in Runs \ {r}
      BY <1>0, <1>1, <1>3, <1>5, <2>2, Places DEF Taken
    <3> QED BY <1>0, <1>1, <1>3, <1>5, <2>2, <3>1 DEF Taken, Value
  <2>3. CASE x[1] \notin {2, 3}
    BY <1>1, <1>5, <2>3 DEF Taken, Value
  <2> QED BY <2>1, <2>2, <2>3
<1>6. ASSUME NEW x \in Place, NEW y \in Place, Taken(x, k)', Taken(y, k)', Before(x, y)'
      PROVE  Before(from[x], from[y])
  <2>1. ASSUME NEW z \in Place, z[1] = 3, Taken(z, k)'
        PROVE  z[2] \in Runs \ {r} /\ runs[l][z[2]].phase # "idle"
    BY <1>0, <1>1, <1>3, <2>1, Places DEF Taken
  <2>2. CASE x[1] = 2 /\ y[1] = 3
    BY <1>0, <1>4, <1>6, <2>1, <2>2, Places DEF Before
  <2>3. CASE x[1] = 3 /\ y[1] = 3
    BY <1>0, <1>1, <1>3, <1>6, <2>1, <2>3, Places DEF Before
  <2>4. CASE x[1] = 2 /\ y[1] # 3
    BY <1>6, <2>4, Places DEF Before
  <2>5. CASE x[1] # 2 /\ ~(x[1] = 3 /\ y[1] = 3)
    BY <1>6, <2>5, Places DEF Before
  <2> QED BY <2>2, <2>3, <2>4, <2>5
<1>7. Line(k)
  BY DEF LineInv
<1> HIDE DEF from
<1> QED BY <1>1, <1>2, <1>5, <1>6, <1>7, LineMoves

\* A leader that restarts has no cache and no run: the datastore is what is left.
LEMMA LineRestartLeader ==
  ASSUME SoleLeader, TypeInv, LineInv, NEW l \in Leaders, RestartLeader(l)
  PROVE  LineInv'
<1>0. /\ poll.leader = l /\ runs \in [Leaders -> [Runs -> Run]]
      /\ cacheDigest \in [Leaders -> Digests]
  BY DEF TypeInv, TypeOK, Poll, SoleLeader
<1>1. /\ UNCHANGED <<store, floor, poll, db, writes, overtook>>
      /\ cacheDigest'[l] = NoDigest
      /\ \A q \in Runs : runs'[l][q].phase = "idle"
  BY <1>0 DEF RestartLeader, NoRun, dbVars, pollVars, storeVars
<1> SUFFICES ASSUME ~overtook, NEW k \in Keys PROVE Line(k)'
  BY <1>1 DEF LineInv
<1> DEFINE from == [x \in Place |-> x]
<1>2. \A x \in Place : Taken(x, k)' => x[1] \notin {2, 3} /\ x[2] \in Runs
  BY <1>0, <1>1, Places DEF Taken
<1>3. \A x \in Place : Taken(x, k)' => Taken(from[x], k) /\ Value(x, k)' = Value(from[x], k)
  BY <1>1, <1>2 DEF Taken, Value
<1>4. \A x, y \in Place : Taken(x, k)' /\ Taken(y, k)' /\ Before(x, y)' => Before(from[x], from[y])
  BY <1>2 DEF Before
<1>5. Line(k) /\ from \in [Place -> Place]
  BY DEF LineInv
<1> HIDE DEF from
<1> QED BY <1>1, <1>3, <1>4, <1>5, LineMoves

\* The datastore changes one key; what the other places hold of it is older.
LEMMA LineDatastore ==
  ASSUME TypeInv, LineInv, NEW j \in Keys, Write(j)
  PROVE  LineInv'
<1>0. /\ writes \in Nat /\ writes' = writes + 1 /\ db \in Content
      /\ UNCHANGED <<store, floor, poll, cacheDigest, runs, overtook>>
  BY StateAssumption DEF TypeInv, TypeOK, Write, cacheVars, pollVars, storeVars
<1>1. PICK v \in {writes + 1, 0} : db' = [db EXCEPT ![j] = v]
  BY DEF Write
<1> SUFFICES ASSUME ~overtook, NEW k \in Keys PROVE Line(k)'
  BY <1>0 DEF LineInv
<1>2. Line(k)
  BY DEF LineInv
<1>3. \A x \in Place : Taken(x, k)' <=> Taken(x, k)
  BY <1>0 DEF Taken
<1>4. \A x, y \in Place : Before(x, y)' <=> Before(x, y)
  BY <1>0 DEF Before
<1>5. \A x \in Place : Taken(x, k) =>
         \/ Value(x, k)' = Value(x, k)
         \/ x[1] = 4 /\ Value(x, k)' = v
  BY <1>0, <1>1, Places DEF Value, Content
<1>6. ASSUME NEW x \in Place, Taken(x, k)' PROVE Held(Value(x, k)', floor[k], writes + 1)
  <2>1. Held(Value(x, k), floor[k], writes) /\ floor[k] \in 0..(writes + 1)
    BY <1>2, <1>3, <1>6 DEF Line
  <2> QED BY <1>0, <1>3, <1>5, <1>6, <2>1 DEF Held
<1>7. ASSUME NEW x \in Place, NEW y \in Place, NEW z \in Place,
             Taken(x, k)', Taken(y, k)', Taken(z, k)', Before(x, y)', Before(y, z)'
      PROVE  Chain(Value(x, k)', Value(y, k)', Value(z, k)')
  <2>1. Taken(x, k) /\ Taken(y, k) /\ Taken(z, k) /\ Before(x, y) /\ Before(y, z)
    BY <1>3, <1>4, <1>7
  <2>2. /\ Chain(Value(x, k), Value(y, k), Value(z, k))
        /\ Value(x, k) \in 0..writes /\ Value(y, k) \in 0..writes /\ Value(z, k) \in 0..writes
    BY <1>2, <2>1 DEF Line, Chained, Held
  <2>3. Before(x, x)
    BY DEF Before
  <2>4. Chain(Value(x, k), Value(x, k), Value(y, k))
    BY <1>2, <2>1, <2>3 DEF Line, Chained
  <2>5. (x[1] = 4 => y[1] = 4) /\ (y[1] = 4 => z[1] = 4)
    BY <2>1, Places DEF Before
  <2>6. \A p \in Place : p[1] = 4 => Value(p, k)' = db'[k]
    BY DEF Value
  <2>7. CASE Value(z, k)' = Value(z, k) /\ Value(y, k)' = Value(y, k) /\ Value(x, k)' = Value(x, k)
    BY <2>2, <2>7
  <2>8. CASE ~(Value(z, k)' = Value(z, k) /\ Value(y, k)' = Value(y, k) /\ Value(x, k)' = Value(x, k))
    <3>1. z[1] = 4 /\ Value(z, k)' = v
      BY <1>5, <2>1, <2>5, <2>6, <2>8
    <3>2. /\ (Value(x, k)' = v /\ Value(y, k)' = v) \/ Value(x, k)' = Value(x, k)
          /\ Value(y, k)' = v \/ Value(y, k)' = Value(y, k)
      BY <1>5, <2>1, <2>5, <2>6, <3>1
    <3> QED BY <1>0, <2>2, <2>4, <3>1, <3>2 DEF Chain
  <2> QED BY <2>7, <2>8
<1>8. floor'[k] \in 0..(writes' + 1)
  BY <1>0, <1>2 DEF Line
<1> QED BY <1>0, <1>6, <1>7, <1>8 DEF Line, Chained

\* A poll is given the digest, keeps it or loses it.
LEMMA LinePoll ==
  ASSUME LineInv, UNCHANGED <<store, floor, runs, cacheDigest, db, writes, overtook>>,
         poll'.leader = poll.leader,
         poll'.digest \in {poll.digest, NoDigest, cacheDigest[poll.leader]}
  PROVE  LineInv'
<1> SUFFICES ASSUME ~overtook, NEW k \in Keys PROVE Line(k)'
  BY DEF LineInv
<1> DEFINE from == [x \in Place |-> IF x[1] = 1 /\ poll'.digest # poll.digest THEN <<2, x[2]>> ELSE x]
<1>1. from \in [Place -> Place]
  BY Places
<1>2. ASSUME NEW x \in Place, Taken(x, k)'
      PROVE  Taken(from[x], k) /\ Value(x, k)' = Value(from[x], k)
  <2>1. CASE x[1] = 1 /\ poll'.digest # poll.digest
    BY <1>2, <2>1, Places DEF Taken, Value
  <2>2. CASE ~(x[1] = 1 /\ poll'.digest # poll.digest)
    BY <1>2, <2>2 DEF Taken, Value
  <2> QED BY <2>1, <2>2
<1>3. \A x, y \in Place : Taken(x, k)' /\ Taken(y, k)' /\ Before(x, y)' => Before(from[x], from[y])
  BY Places DEF Before
<1>4. Line(k)
  BY DEF LineInv
<1> HIDE DEF from
<1> QED BY <1>1, <1>2, <1>3, <1>4, LineMoves

\* What the floor of a key becomes when its value t replaces s.
Raised(s, t, f) == IF t > f THEN t ELSE IF t = 0 /\ s # 0 THEN s + 1 ELSE f

\* The memory takes over a key of the state that has the digest, or keeps its own:
\* what is nearer to the datastore respects the raised floor.
LEMMA LineShow ==
  ASSUME NEW n \in Nat, NEW s, NEW t, NEW v, NEW f \in 0..(n + 1),
         Held(s, f, n), Held(t, f, n), Held(v, f, n), Chain(s, t, v), Chain(s, v, v), Chain(t, v, v),
         NEW u \in {s, t}
  PROVE  Raised(s, u, f) \in 0..(n + 1) /\ Held(v, Raised(s, u, f), n) /\ Held(u, Raised(s, u, f), n)
BY DEF Raised, Held, Chain

\* The memory takes keys of the state that has the digest, and the poll may end.
LEMMA LineInstall ==
  ASSUME TypeInv, LineInv, UNCHANGED <<runs, cacheDigest, db, writes, overtook>>,
         poll'.leader = poll.leader, poll'.digest \in {poll.digest, NoDigest},
         poll.digest \in Content, floor' = Raise(store'),
         \A k \in Keys : store'[k] \in {store[k], poll.digest[k]}
  PROVE  LineInv'
<1>0. writes \in Nat /\ poll.digest # NoDigest
  BY StateAssumption DEF TypeInv, TypeOK
<1> SUFFICES ASSUME ~overtook, NEW k \in Keys PROVE Line(k)'
  BY DEF LineInv
<1> DEFINE from == [x \in Place |->
               IF x[1] = 0 /\ store'[k] # store[k] THEN <<1, x[2]>> ELSE x]
<1>1. Line(k)
  BY DEF LineInv
<1>2. from \in [Place -> Place]
  BY Places
<1>3. ASSUME NEW x \in Place, Taken(x, k)'
      PROVE  Taken(from[x], k) /\ Value(x, k)' = Value(from[x], k)
  <2>1. CASE x[1] = 0 /\ store'[k] # store[k]
    BY <1>0, <2>1, Places DEF Taken, Value
  <2>2. CASE ~(x[1] = 0 /\ store'[k] # store[k])
    BY <1>3, <2>2 DEF Taken, Value
  <2> QED BY <2>1, <2>2
<1>4. \A x, y \in Place : Taken(x, k)' /\ Taken(y, k)' /\ Before(x, y)' => Before(from[x], from[y])
  BY Places DEF Before
<1>5. Chained(k)'
  <2> HIDE DEF from
  <2> QED BY <1>1, <1>2, <1>3, <1>4, ChainMoves DEF Line
<1>6. floor'[k] = Raised(store[k], store'[k], floor[k])
  BY DEF Raise, Raised
<1>7. ASSUME NEW x \in Place, Taken(x, k)'
      PROVE  floor'[k] \in 0..(writes + 1) /\ Held(Value(x, k)', floor'[k], writes)
  <2> DEFINE m == <<0, x[2]>>
             a == <<1, x[2]>>
  <2>1. m \in Place /\ a \in Place /\ Taken(m, k) /\ Taken(a, k)
    BY <1>0, Places DEF Taken
  <2>2. Value(m, k) = store[k] /\ Value(a, k) = poll.digest[k]
    BY DEF Value
  <2>3. Before(m, m) /\ Before(m, a) /\ Before(a, a) /\ Before(x, x)
    BY DEF Before
  <2>4. CASE x[1] = 0
    <3>1. /\ Held(store[k], floor[k], writes) /\ Held(poll.digest[k], floor[k], writes)
          /\ Chain(store[k], poll.digest[k], poll.digest[k]) /\ Chain(store[k], store[k], store[k])
      BY <1>1, <2>1, <2>2, <2>3 DEF Line, Chained
    <3>2. Value(x, k)' = store'[k] /\ floor[k] \in 0..(writes + 1)
      BY <1>1, <2>4 DEF Value, Line
    <3>3. store'[k] \in {store[k], poll.digest[k]}
      OBVIOUS
    <3> HIDE DEF m, a, from
    <3> QED BY <1>0, <1>6, <3>1, <3>2, <3>3 DEF Raised, Held, Chain
  <2>5. CASE x[1] # 0
    <3>1. Taken(x, k) /\ Value(x, k)' = Value(x, k)
      <4>1. from[x] = x
        BY <2>5
      <4> HIDE DEF from
      <4> QED BY <1>3, <1>7, <4>1
    <3>2. Before(m, x) /\ Before(a, x)
      BY <2>5, Places DEF Before
    <3>3. /\ Held(store[k], floor[k], writes) /\ Held(poll.digest[k], floor[k], writes)
          /\ Held(Value(x, k), floor[k], writes) /\ floor[k] \in 0..(writes + 1)
      BY <1>1, <2>1, <2>2, <3>1 DEF Line
    <3>4. /\ Chain(store[k], poll.digest[k], Value(x, k))
          /\ Chain(store[k], Value(x, k), Value(x, k))
          /\ Chain(poll.digest[k], Value(x, k), Value(x, k))
      BY <1>1, <2>1, <2>2, <2>3, <3>1, <3>2 DEF Line, Chained
    <3>5. store'[k] \in {store[k], poll.digest[k]}
      OBVIOUS
    <3> HIDE DEF m, a, from
    <3> QED BY <1>0, <1>6, <3>1, <3>3, <3>4, <3>5, LineShow
  <2> QED BY <2>4, <2>5
<1>8. floor'[k] \in 0..(writes + 1)
  <2>1. PICK r \in Runs : TRUE
    BY StateAssumption
  <2>2. <<0, r>> \in Place /\ Taken(<<0, r>>, k)'
    BY Places DEF Taken
  <2> QED BY <1>7, <2>2
<1> QED BY <1>5, <1>7, <1>8 DEF Line

\* The memory is lost with the worker, and its poll.
LEMMA LineRestartWorker ==
  ASSUME TypeInv, LineInv, RestartWorker
  PROVE  LineInv'
<1>1. /\ UNCHANGED <<runs, cacheDigest, db, writes, overtook>> /\ writes \in Nat
      /\ poll'.leader = poll.leader /\ poll'.digest = NoDigest
      /\ \A k \in Keys : store'[k] = 0 /\ floor'[k] = 0
  BY StateAssumption DEF RestartWorker, NoPoll, Empty, TypeInv, TypeOK, dbVars, cacheVars
<1> SUFFICES ASSUME ~overtook, NEW k \in Keys PROVE Line(k)'
  BY <1>1 DEF LineInv
<1>2. Line(k)
  BY DEF LineInv
<1>3. ASSUME NEW x \in Place, Taken(x, k)'
      PROVE  IF x[1] = 0 THEN Value(x, k)' = 0 ELSE Taken(x, k) /\ Value(x, k)' = Value(x, k)
  <2>1. x[1] # 1
    BY <1>1, <1>3 DEF Taken
  <2> QED BY <1>1, <1>3, <2>1 DEF Taken, Value
<1>4. ASSUME NEW x \in Place, Taken(x, k)' PROVE Held(Value(x, k)', 0, writes)
  <2>1. x[1] # 0 => Held(Value(x, k), floor[k], writes)
    BY <1>2, <1>3, <1>4 DEF Line
  <2> QED BY <1>1, <1>3, <1>4, <2>1 DEF Held
<1>5. ASSUME NEW x \in Place, NEW y \in Place, NEW z \in Place,
             Taken(x, k)', Taken(y, k)', Taken(z, k)', Before(x, y)', Before(y, z)'
      PROVE  Chain(Value(x, k)', Value(y, k)', Value(z, k)')
  <2>1. Before(x, y) /\ Before(y, z) /\ Before(y, y)
    BY <1>1, <1>5 DEF Before
  <2>2. CASE x[1] # 0
    <3>1. y[1] # 0 /\ z[1] # 0
      BY <2>1, <2>2, Places DEF Before
    <3>2. /\ Taken(x, k) /\ Value(x, k)' = Value(x, k) /\ Taken(y, k) /\ Value(y, k)' = Value(y, k)
          /\ Taken(z, k) /\ Value(z, k)' = Value(z, k)
      BY <1>3, <1>5, <2>2, <3>1
    <3> QED BY <1>2, <2>1, <3>2 DEF Line, Chained
  <2>3. CASE x[1] = 0 /\ y[1] # 0
    <3>1. z[1] # 0
      BY <2>1, <2>3, Places DEF Before
    <3>2. /\ Value(x, k)' = 0 /\ Taken(y, k) /\ Value(y, k)' = Value(y, k)
          /\ Taken(z, k) /\ Value(z, k)' = Value(z, k)
      BY <1>3, <1>5, <2>3, <3>1
    <3>3. Chain(Value(y, k), Value(y, k), Value(z, k))
      BY <1>2, <2>1, <3>2 DEF Line, Chained
    <3>4. Value(y, k) \in Nat /\ Value(z, k) \in Nat
      BY <1>1, <1>4, <1>5, <3>2 DEF Held
    <3> QED BY <3>2, <3>3, <3>4 DEF Chain
  <2>4. CASE x[1] = 0 /\ y[1] = 0
    <3>1. Value(x, k)' = 0 /\ Value(y, k)' = 0 /\ Value(z, k)' \in Nat
      BY <1>1, <1>3, <1>4, <1>5, <2>4 DEF Held
    <3> QED BY <3>1 DEF Chain
  <2> QED BY <2>2, <2>3, <2>4
<1> QED BY <1>1, <1>4, <1>5 DEF Line, Chained

\* What the worker does to the line.
LEMMA LineWorker ==
  ASSUME SoleLeader, TypeInv, SentInv, LineInv,
         \/ StartPoll \/ (\E l \in Leaders : Attempt(l))
         \/ PollStep \/ RestartWorker
  PROVE  LineInv'
<1> USE DEF dbVars, cacheVars, pollVars, storeVars
<1>0. /\ poll \in Poll /\ poll.leader \in Leaders /\ store \in Content
      /\ NoPoll(poll.leader).leader = poll.leader /\ NoPoll(poll.leader).digest = NoDigest
  BY DEF TypeInv, TypeOK, Poll, NoPoll
<1>1. CASE \/ StartPoll \/ (\E l \in Leaders : Attempt(l))
           \/ ReadState \/ Receive \/ FailAttempt
  <2>1. UNCHANGED <<store, floor, runs, cacheDigest, db, writes, overtook>>
    BY <1>1 DEF StartPoll, Attempt, ReadState, Receive, FailAttempt
  <2>2. /\ poll'.leader = poll.leader
        /\ poll'.digest \in {poll.digest, NoDigest, cacheDigest[poll.leader]}
    <3>1. CASE StartPoll
      BY <3>1 DEF StartPoll
    <3>2. CASE \E l \in Leaders : Attempt(l)
      BY <1>0, <3>2 DEF Attempt, NoPoll, SoleLeader
    <3>3. CASE ReadState
      BY <1>0, <3>3 DEF ReadState, Poll
    <3>4. CASE Receive
      BY <1>0, <3>4 DEF Receive, Poll
    <3>5. CASE FailAttempt
      BY <1>0, <3>5 DEF FailAttempt
    <3> QED BY <1>1, <3>1, <3>2, <3>3, <3>4, <3>5
  <2> QED BY <2>1, <2>2, LinePoll
<1>2. CASE Install
  <2>1. poll.sent = poll.digest /\ poll.sent \in Content
    BY <1>0, <1>2 DEF Install, Valid, Poll
  <2>2. UNCHANGED <<runs, cacheDigest, db, writes, overtook>>
    BY <1>2 DEF Install
  <2>3. CASE EndPoll /\ UNCHANGED storeVars
    BY <1>0, <2>2, <2>3, LinePoll DEF EndPoll
  <2>4. CASE Replace
    BY <1>0, <2>1, <2>2, <2>4, LineInstall DEF Replace, EndPoll
  <2>5. CASE StartMerge
    <3>1. poll'.leader = poll.leader /\ poll'.digest = poll.digest
      BY <1>0, <2>5 DEF StartMerge, Poll
    <3> QED BY <2>2, <2>5, <3>1, LinePoll DEF StartMerge
  <2> QED BY <1>2, <2>3, <2>4, <2>5 DEF Install
<1>3. ASSUME NEW k \in Keys, MergeKey(k) PROVE LineInv'
  <2>1. poll.sent = poll.digest /\ poll.sent \in Content
    BY <1>0, <1>3 DEF MergeKey, SentInv, Poll
  <2>2. UNCHANGED <<runs, cacheDigest, db, writes, overtook>> /\ floor' = Raise(store')
    BY <1>3 DEF MergeKey
  <2>3. poll'.leader = poll.leader /\ poll'.digest \in {poll.digest, NoDigest}
    BY <1>0, <1>3 DEF MergeKey, EndPoll
  <2>4. \A j \in Keys : store'[j] \in {store[j], poll.digest[j]}
    BY <1>0, <1>3, <2>1 DEF MergeKey, Content
  <2> QED BY <2>1, <2>2, <2>3, <2>4, LineInstall
<1> QED BY <1>1, <1>2, <1>3, LineRestartWorker DEF PollStep

\* Every step keeps the line.
LEMMA LineStep == SoleLeader /\ TypeInv /\ RunInv /\ SentInv /\ LineInv /\ [Next]_vars => LineInv'
<1> SUFFICES ASSUME SoleLeader, TypeInv, RunInv, SentInv, LineInv, [Next]_vars PROVE LineInv'
  OBVIOUS
<1>1. CASE UNCHANGED <<store, floor, runs, cacheDigest, poll, db, writes, overtook>>
  BY <1>1, LinePoll
<1>2. CASE UNCHANGED vars
  BY <1>1, <1>2 DEF vars, dbVars, cacheVars, pollVars, storeVars
<1>3. ASSUME NEW l \in Leaders, GrowOld(l) PROVE LineInv'
  BY <1>1, <1>3 DEF GrowOld, dbVars, pollVars, storeVars
<1>4. ASSUME NEW l \in Leaders, NEW r \in Runs, StartCache(l, r) \/ CacheStep(l, r) PROVE LineInv'
  BY <1>4, LineExport, LinePublish DEF CacheStep
<1>5. CASE \E k \in Keys : Write(k)
  BY <1>5, LineDatastore
<1>6. CASE \E l \in Leaders : RestartLeader(l)
  BY <1>6, LineRestartLeader
<1> QED BY <1>2, <1>3, <1>4, <1>5, <1>6, LineWorker DEF Next

\* The line of a system that starts is empty.
LEMMA LineInit == Init => RunInv /\ SentInv /\ LineInv
<1> SUFFICES ASSUME Init PROVE RunInv /\ SentInv /\ LineInv
  OBVIOUS
<1>1. PICK l \in Leaders : poll = NoPoll(l)
  BY DEF Init
<1>2. /\ poll.phase = "idle" /\ poll.leader = l /\ poll.digest = NoDigest
      /\ cacheDigest[l] = NoDigest
      /\ \A m \in Leaders, r \in Runs : runs[m][r].phase = "idle" /\ runs[m][r].ahead = {}
  BY <1>1 DEF Init, NoPoll, NoRun
<1>3. RunInv /\ SentInv
  BY <1>2 DEF RunInv, SentInv
<1>4. ASSUME NEW k \in Keys PROVE Line(k)
  <2>1. store[k] = 0 /\ db[k] = 0 /\ floor[k] = 0 /\ writes = 0
    BY DEF Init, Empty
  <2>2. \A x \in Place : Taken(x, k) => Value(x, k) = 0
    BY <1>2, <2>1, Places DEF Taken, Value
  <2> QED BY <2>1, <2>2 DEF Line, Chained, Chain, Held
<1> QED BY <1>3, <1>4 DEF LineInv

\* With one leader, a worker never shows an older write of a key than it showed, nor
\* the key it saw deleted, however the leader's runs overlap, until one publishes
\* after a run that started later has done so.
THEOREM NeverGoesBack == SoleLeader => (Spec => []NoRegress)
<1> SUFFICES ASSUME SoleLeader PROVE Spec => []NoRegress
  OBVIOUS
<1> DEFINE Inv == TypeInv /\ RunInv /\ SentInv /\ LineInv
<1>1. Init => Inv
  BY TypeInit, LineInit
<1>2. Inv /\ [Next]_vars => Inv'
  BY TypeStep, RunStep, SentStep, LineStep
<1>3. Inv => NoRegress
  <2> SUFFICES ASSUME LineInv, ~overtook, NEW k \in Keys PROVE store[k] # 0 => store[k] >= floor[k]
    BY DEF NoRegress
  <2>1. PICK r \in Runs : TRUE
    BY StateAssumption
  <2>2. <<0, r>> \in Place /\ Taken(<<0, r>>, k) /\ Value(<<0, r>>, k) = store[k]
    BY Places DEF Taken, Value
  <2> QED BY <2>2 DEF LineInv, Line, Held
<1> QED BY <1>1, <1>2, <1>3, PTL DEF Spec
================================================================================
