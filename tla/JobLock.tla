-------------------------------- MODULE JobLock --------------------------------
(***************************************************************************)
(* The cluster-wide job lock of otoroshi/app/script/job.scala.             *)
(*                                                                         *)
(* Every Otoroshi instance has a JobManager that scans its registered jobs *)
(* every second.  A job declared OneInstancePerOtoroshiCluster is started  *)
(* under a lock kept in the shared datastore: one key per job, whose value *)
(* is a random token of the RegisteredJobContext that took it, and whose   *)
(* time to live (30 s) the JobManager refreshes every 10 s.                *)
(*                                                                         *)
(* One job is modelled, with every context (<<node, generation>>) that its *)
(* registrations and replacements create.  A context stands for its own    *)
(* random token.  A datastore call is asynchronous: it executes at the     *)
(* store in one step, and the callback that looks at the answer is another *)
(* step whenever that callback touches the memory of the instance.         *)
(***************************************************************************)
EXTENDS Naturals, FiniteSets

CONSTANTS
    Nodes,          \* Otoroshi instances that share the datastore
    Mode,           \* [Nodes -> {"Off", "Leader", "Worker"}], the cluster mode
    Instantiation,  \* where the job runs: JobInstantiation
    Kind,           \* JobKind of the job
    MaxGen,         \* bound: contexts an instance may create for the job
    GenBound,       \* bound: those that each instance does
    Fibers,         \* scans of one context that may be in flight together
    MaxTimers,      \* bound: armed timers of a context that nothing names
    MaxRunning,     \* bound: executions of the job in progress per context
    NoValue,        \* the absent value of the key
    AtomicSetnx,    \* the driver sets value and TTL in one command (Lettuce)
    NoDelay,        \* the job has no initial delay (the default)
    Slow,           \* the calls that may take longer than the 30 s of the TTL
    Stops,          \* jobs are stopped "never", when "quiet", or at "any" time
    Crashes         \* instances may die

Gens == 1..MaxGen
Ctx  == Nodes \X Gens
Node(c) == c[1]

ASSUME JobLockAssumption ==
    /\ Mode \in [Nodes -> {"Off", "Leader", "Worker"}]
    /\ Instantiation \in {"Cluster", "Instance", "WorkerInstance", "LeaderInstance"}
    /\ Kind \in {"Autonomous", "ScheduledOnce", "ScheduledEvery", "Cron"}
    /\ GenBound \in [Nodes -> 1..MaxGen]
    /\ MaxGen \in Nat \ {0} /\ MaxTimers \in Nat \ {0} /\ MaxRunning \in Nat \ {0}
    /\ NoValue \notin Nodes \X (1..MaxGen)
    /\ {AtomicSetnx, NoDelay, Crashes} \subseteq BOOLEAN
    /\ Slow \subseteq {"acquire", "renew", "release"}
    /\ Stops \in {"never", "quiet", "any"}

VARIABLES
    up,         \* state of each instance: "off" -> "up" -> "dead"
    jobs,       \* generation of the registered context, 0 when there is none
    made,       \* generations created so far
    regLock,    \* JobManager.registeredLocks for the job's key
    stopped,    \* RegisteredJobContext.stopped
    ranOnce,    \* RegisteredJobContext.ranOnce
    ref,        \* RegisteredJobContext.ref: the timer it names, armed or fired,
                \* "late" when that timer had fired before ref was set to it
    orphans,    \* armed timers that ref was set away from
    running,    \* executions of jobRun in progress
    acq,        \* scans in flight: acquireClusterWideLock, then run
    renewal,    \* updateLocks call in flight, per token
    release,    \* releaseLock call in flight
    detector,   \* StalledJobsDetector run in flight, per instance
    lockVal,    \* the datastore: value of the lock key
    lockTtl,    \* the datastore: whether the key has a time to live
    dropped     \* history: an unregisterLock threw a registered lock away

jobVars   == <<jobs, made, stopped>>
runVars   == <<ranOnce, ref, orphans, running>>
lockVars  == <<regLock, dropped>>
asyncVars == <<acq, renewal, release, detector>>
storeVars == <<lockVal, lockTtl>>
vars == <<up, jobVars, lockVars, runVars, asyncVars, storeVars>>

\* The last three: the timer is scheduled and ref not set yet, by a run without
\* delay, with one, and without delay once its timer has fired.
AcqPhase == {"idle", "get", "setnx", "pexpire", "chk", "mine", "other", "now", "later", "ran"}

TypeOK ==
    /\ up \in [Nodes -> {"off", "up", "dead"}]
    /\ jobs \in [Nodes -> 0..MaxGen]
    /\ made \in [Nodes -> 0..MaxGen]
    /\ regLock \in [Nodes -> Ctx \cup {NoValue}]
    /\ stopped \in [Ctx -> BOOLEAN]
    /\ ranOnce \in [Ctx -> BOOLEAN]
    /\ ref \in [Ctx -> {"none", "armed", "fired", "late"}]
    /\ orphans \in [Ctx -> 0..MaxTimers]
    /\ running \in [Ctx -> 0..MaxRunning]
    /\ acq \in [Ctx -> [Fibers -> AcqPhase]]
    /\ renewal \in [Ctx -> {"idle", "get", "set"}]
    /\ release \in [Ctx -> {"idle", "get", "del"}]
    /\ detector \in [Nodes -> {"idle", "del"}]
    /\ lockVal \in Ctx \cup {NoValue}
    /\ lockTtl \in BOOLEAN
    /\ dropped \in BOOLEAN

Init ==
    /\ up = [n \in Nodes |-> "off"]
    /\ jobs = [n \in Nodes |-> 0]
    /\ made = [n \in Nodes |-> 0]
    /\ regLock = [n \in Nodes |-> NoValue]
    /\ stopped = [c \in Ctx |-> FALSE]
    /\ ranOnce = [c \in Ctx |-> FALSE]
    /\ ref = [c \in Ctx |-> "none"]
    /\ orphans = [c \in Ctx |-> 0]
    /\ running = [c \in Ctx |-> 0]
    /\ acq = [c \in Ctx |-> [f \in Fibers |-> "idle"]]
    /\ renewal = [c \in Ctx |-> "idle"]
    /\ release = [c \in Ctx |-> "idle"]
    /\ detector = [n \in Nodes |-> "idle"]
    /\ lockVal = NoValue
    /\ lockTtl = FALSE
    /\ dropped = FALSE

IsUp(n) == up[n] = "up"

--------------------------------------------------------------------------------
(* Where a job may run, tryToRunOnCurrentInstance. *)

Placement(n) ==
    CASE Instantiation = "Instance" -> "direct"
      [] Instantiation = "WorkerInstance" /\ Mode[n] \in {"Off", "Worker"} -> "direct"
      [] Instantiation = "LeaderInstance" /\ Mode[n] \in {"Off", "Leader"} -> "direct"
      [] Instantiation = "Cluster" /\ Mode[n] \in {"Off", "Leader"} -> "lock"
      [] OTHER -> "nowhere"

--------------------------------------------------------------------------------
(* Scheduling: startNext and run, then the timer that run armed.             *)

RunsOnlyOnce == Kind \in {"Autonomous", "ScheduledOnce"}

\* startNext calls run unless the kind runs once and did.  run schedules the
\* timer and only then, on the thread of the scan, puts it in ref.  A first run
\* has no delay by default, a positive delay outlasts what is left of run.
StartNext(c) ==
    IF RunsOnlyOnce /\ ranOnce[c] THEN "idle"
    ELSE IF NoDelay /\ ~ranOnce[c] /\ Kind # "Cron" THEN "now" ELSE "later"

\* ref is about to name something else: an armed timer it named goes on unnamed.
Unnamed(c) ==
    /\ ref[c] = "armed" => orphans[c] < MaxTimers
    /\ orphans' = [orphans EXCEPT ![c] = IF ref[c] = "armed" THEN @ + 1 ELSE @]

\* The end of run: ref is set to the timer, which may have fired by then.
SetRef(c, f) ==
    /\ IsUp(Node(c))
    /\ acq[c][f] \in {"now", "later", "ran"}
    /\ acq' = [acq EXCEPT ![c][f] = "idle"]
    /\ Unnamed(c)
    /\ ref' = [ref EXCEPT ![c] = IF acq[c][f] = "ran" THEN "late" ELSE "armed"]
    /\ ranOnce' = [ranOnce EXCEPT ![c] = TRUE]
    /\ UNCHANGED <<up, jobVars, lockVars, running, renewal, release, detector, storeVars>>

\* A timer fires: the one ref names, one that nothing names, or one scheduled
\* without delay whose run has not set ref yet.
Fire(c) ==
    /\ IsUp(Node(c))
    /\ running[c] < MaxRunning
    /\ \/ /\ ref[c] = "armed"
          /\ ref' = [ref EXCEPT ![c] = "fired"]
          /\ UNCHANGED <<orphans, acq>>
       \/ /\ orphans[c] > 0
          /\ orphans' = [orphans EXCEPT ![c] = @ - 1]
          /\ UNCHANGED <<ref, acq>>
       \/ \E f \in Fibers :
             /\ acq[c][f] = "now"
             /\ acq' = [acq EXCEPT ![c][f] = "ran"]
             /\ UNCHANGED <<ref, orphans>>
    /\ running' = [running EXCEPT ![c] = IF stopped[c] THEN @ ELSE @ + 1]
    /\ UNCHANGED <<up, jobVars, lockVars, ranOnce, renewal, release, detector, storeVars>>

\* Mutant: ref is not cleared at the end of an execution.
JobEndsKeepsRef(c) ==
    /\ IsUp(Node(c))
    /\ running[c] > 0
    /\ running' = [running EXCEPT ![c] = @ - 1]
    /\ stopped' = [stopped EXCEPT ![c] = @ \/ Kind = "ScheduledOnce"]
    /\ UNCHANGED <<up, jobs, made, lockVars, ranOnce, ref, orphans, asyncVars, storeVars>>

\* jobRunHook completes or fails: ref is cleared, and a job that runs once
\* runs its stop hook, which marks the context stopped.
JobEnds(c) ==
    /\ IsUp(Node(c))
    /\ running[c] > 0
    /\ running' = [running EXCEPT ![c] = @ - 1]
    /\ Unnamed(c)
    /\ ref' = [ref EXCEPT ![c] = "none"]
    /\ stopped' = [stopped EXCEPT ![c] = @ \/ Kind = "ScheduledOnce"]
    /\ UNCHANGED <<up, jobs, made, lockVars, ranOnce, asyncVars, storeVars>>

--------------------------------------------------------------------------------
(* Acquiring the lock. *)

\* scanRegisteredJobs -> startIfPossible -> tryToRunOnCurrentInstance.  When
\* the instance holds a registered lock the job starts without asking the store.
Scan(n) ==
    /\ IsUp(n)
    /\ jobs[n] # 0
    /\ LET c == <<n, jobs[n]>> IN
       /\ ref[c] = "none"
       /\ Placement(n) # "nowhere"
       /\ \E f \in Fibers :
             /\ acq[c][f] = "idle"
             /\ acq' = [acq EXCEPT ![c][f] =
                           IF Placement(n) = "lock" /\ regLock[n] = NoValue
                           THEN "get" ELSE StartNext(c)]
    /\ UNCHANGED <<up, jobVars, lockVars, runVars, renewal, release, detector, storeVars>>

\* What a callback of acquireClusterWideLock will do with the value read.
Seen(c) == IF lockVal = c THEN "mine" ELSE "other"

\* The first get: without a value, internalsetLock follows within a second.
ExecGet(c, f) ==
    /\ acq[c][f] = "get"
    /\ acq' = [acq EXCEPT ![c][f] = IF lockVal = NoValue THEN "setnx" ELSE Seen(c)]
    /\ UNCHANGED <<up, jobVars, lockVars, runVars, renewal, release, detector, storeVars>>

\* The answers of a dead instance reach nobody.
Answer(c, phase) == IF IsUp(Node(c)) THEN phase ELSE "idle"

\* Mutant: a set in the place of the setnx.
ExecSetnxAsSet(c, f) ==
    /\ acq[c][f] = "setnx"
    /\ lockVal' = c
    /\ lockTtl' = AtomicSetnx
    /\ acq' = [acq EXCEPT ![c][f] = Answer(c, IF AtomicSetnx THEN "chk" ELSE "pexpire")]
    /\ UNCHANGED <<up, jobVars, lockVars, runVars, renewal, release, detector>>

\* setnx.  A driver without SET NX PX sends a second command for the TTL.
ExecSetnx(c, f) ==
    /\ acq[c][f] = "setnx"
    /\ IF lockVal = NoValue
       THEN /\ lockVal' = c
            /\ lockTtl' = AtomicSetnx
            /\ acq' = [acq EXCEPT ![c][f] = Answer(c, IF AtomicSetnx THEN "chk" ELSE "pexpire")]
       ELSE /\ acq' = [acq EXCEPT ![c][f] = Answer(c, "other")]
            /\ UNCHANGED storeVars
    /\ UNCHANGED <<up, jobVars, lockVars, runVars, renewal, release, detector>>

ExecPexpire(c, f) ==
    /\ acq[c][f] = "pexpire"
    /\ lockTtl' = (lockVal # NoValue)
    /\ acq' = [acq EXCEPT ![c][f] = Answer(c, "chk")]
    /\ UNCHANGED <<up, jobVars, lockVars, runVars, renewal, release, detector, lockVal>>

\* The get that confirms a successful setnx.
ExecCheck(c, f) ==
    /\ acq[c][f] = "chk"
    /\ acq' = [acq EXCEPT ![c][f] = Seen(c)]
    /\ UNCHANGED <<up, jobVars, lockVars, runVars, renewal, release, detector, storeVars>>

\* Mutant: the instance is registered in the place of its token.
HandleMineRegistersNode(c, f) ==
    /\ IsUp(Node(c))
    /\ acq[c][f] = "mine"
    /\ acq' = [acq EXCEPT ![c][f] = StartNext(c)]
    /\ regLock' = [regLock EXCEPT ![Node(c)] = IF @ = NoValue THEN Node(c) ELSE @]
    /\ UNCHANGED <<up, jobVars, dropped, runVars, renewal, release, detector, storeVars>>

\* registerLock (putIfAbsent), then the job itself: startNext and run.
HandleMine(c, f) ==
    /\ IsUp(Node(c))
    /\ acq[c][f] = "mine"
    /\ acq' = [acq EXCEPT ![c][f] = StartNext(c)]
    /\ regLock' = [regLock EXCEPT ![Node(c)] = IF @ = NoValue THEN c ELSE @]
    /\ UNCHANGED <<up, jobVars, dropped, runVars, renewal, release, detector, storeVars>>

\* Mutant: the job is started although another instance holds the lock.
HandleOtherStarts(c, f) ==
    /\ IsUp(Node(c))
    /\ acq[c][f] = "other"
    /\ acq' = [acq EXCEPT ![c][f] = StartNext(c)]
    /\ regLock' = [regLock EXCEPT ![Node(c)] = NoValue]
    /\ dropped' = (dropped \/ regLock[Node(c)] # NoValue)
    /\ UNCHANGED <<up, jobVars, runVars, renewal, release, detector, storeVars>>

\* unregisterLock removes the entry of the job whoever's value it holds, also the
\* one that another scan of the instance registered meanwhile.
HandleOther(c, f) ==
    /\ IsUp(Node(c))
    /\ acq[c][f] = "other"
    /\ acq' = [acq EXCEPT ![c][f] = "idle"]
    /\ regLock' = [regLock EXCEPT ![Node(c)] = NoValue]
    /\ dropped' = (dropped \/ regLock[Node(c)] # NoValue)
    /\ UNCHANGED <<up, jobVars, runVars, renewal, release, detector, storeVars>>

Acquisition(c, f) ==
    \/ ExecGet(c, f) \/ ExecSetnx(c, f) \/ ExecPexpire(c, f)
    \/ ExecCheck(c, f) \/ HandleMine(c, f) \/ HandleOther(c, f)

--------------------------------------------------------------------------------
(* Renewing it: updateLocks reads the key, then writes it back with a TTL. *)

UpdateLocks(n) ==
    /\ IsUp(n)
    /\ regLock[n] # NoValue
    /\ renewal[regLock[n]] = "idle"
    /\ renewal' = [renewal EXCEPT ![regLock[n]] = "get"]
    /\ UNCHANGED <<up, jobVars, lockVars, runVars, acq, release, detector, storeVars>>

ExecRenewGet(c) ==
    /\ renewal[c] = "get"
    /\ renewal' = [renewal EXCEPT ![c] = IF lockVal = c THEN "set" ELSE "idle"]
    /\ UNCHANGED <<up, jobVars, lockVars, runVars, acq, release, detector, storeVars>>

ExecRenewSet(c) ==
    /\ renewal[c] = "set"
    /\ renewal' = [renewal EXCEPT ![c] = "idle"]
    /\ lockVal' = c
    /\ lockTtl' = TRUE
    /\ UNCHANGED <<up, jobVars, lockVars, runVars, acq, release, detector>>

--------------------------------------------------------------------------------
(* Stopping a job: RegisteredJobContext.stop, unregisterJob, replaceJob. *)

\* Mutant: stop forgets to unregister the lock.
StopContextKeepsLock(c) ==
    /\ stopped' = [stopped EXCEPT ![c] = TRUE]
    /\ ref' = [ref EXCEPT ![c] = "none"]
    /\ UNCHANGED regLock
    /\ release' = [release EXCEPT ![c] = "get"]

\* The timer that ref names is cancelled.
StopContext(c) ==
    /\ stopped' = [stopped EXCEPT ![c] = TRUE]
    /\ ref' = [ref EXCEPT ![c] = "none"]
    /\ regLock' = [regLock EXCEPT ![Node(c)] = NoValue]
    /\ release' = [release EXCEPT ![c] = "get"]

\* Nothing in the code waits for the calls in flight: "quiet" is a restriction
\* on the environment, "any" is what the code accepts.
MayStop(n) ==
    \/ Stops = "any"
    \/ /\ Stops = "quiet"
       /\ jobs[n] # 0 =>
             LET c == <<n, jobs[n]>> IN
             /\ renewal[c] = "idle"
             /\ \A f \in Fibers : acq[c][f] = "idle"

UnregisterJob(n) ==
    /\ MayStop(n)
    /\ IsUp(n)
    /\ jobs[n] # 0
    /\ StopContext(<<n, jobs[n]>>)
    /\ jobs' = [jobs EXCEPT ![n] = 0]
    /\ UNCHANGED <<up, made, dropped, ranOnce, orphans, running, acq, renewal, detector, storeVars>>

\* registerJob creates a fresh context, hence a fresh token.
RegisterNext(n) ==
    /\ made[n] < GenBound[n]
    /\ made' = [made EXCEPT ![n] = @ + 1]
    /\ jobs' = [jobs EXCEPT ![n] = made[n] + 1]

ReplaceJob(n) ==
    /\ MayStop(n)
    /\ IsUp(n)
    /\ RegisterNext(n)
    /\ IF jobs[n] # 0
       THEN StopContext(<<n, jobs[n]>>)
       ELSE UNCHANGED <<stopped, ref, regLock, release>>
    /\ UNCHANGED <<up, dropped, ranOnce, orphans, running, acq, renewal, detector, storeVars>>

\* releaseLock: a get, then a del when the value was this context's.
ExecReleaseGet(c) ==
    /\ release[c] = "get"
    /\ release' = [release EXCEPT ![c] = IF lockVal = c THEN "del" ELSE "idle"]
    /\ UNCHANGED <<up, jobVars, lockVars, runVars, acq, renewal, detector, storeVars>>

ExecReleaseDel(c) ==
    /\ release[c] = "del"
    /\ release' = [release EXCEPT ![c] = "idle"]
    /\ lockVal' = NoValue
    /\ lockTtl' = FALSE
    /\ UNCHANGED <<up, jobVars, lockVars, runVars, acq, renewal, detector>>

--------------------------------------------------------------------------------
(* StalledJobsDetector: a lock key without TTL (pttl = -1) is deleted. *)

Detects(n) == Mode[n] \in {"Off", "Leader"}

\* Mutant: the answer for a missing key (-2) is taken for the one of a key without TTL.
ExecPttlMissing(n) ==
    /\ IsUp(n)
    /\ Detects(n)
    /\ detector[n] = "idle"
    /\ lockVal = NoValue
    /\ detector' = [detector EXCEPT ![n] = "del"]
    /\ UNCHANGED <<up, jobVars, lockVars, runVars, acq, renewal, release, storeVars>>

\* keys, then the pttl of the job's key.  A key that keys does not list, or whose
\* pttl is not -1, is left alone, so only what pttl finds makes a difference.
ExecPttl(n) ==
    /\ IsUp(n)
    /\ Detects(n)
    /\ detector[n] = "idle"
    /\ lockVal # NoValue /\ ~lockTtl
    /\ detector' = [detector EXCEPT ![n] = "del"]
    /\ UNCHANGED <<up, jobVars, lockVars, runVars, acq, renewal, release, storeVars>>

ExecStalledDel(n) ==
    /\ detector[n] = "del"
    /\ detector' = [detector EXCEPT ![n] = "idle"]
    /\ lockVal' = NoValue
    /\ lockTtl' = FALSE
    /\ UNCHANGED <<up, jobVars, lockVars, runVars, acq, renewal, release>>

--------------------------------------------------------------------------------
(* The instances and the clock of the store. *)

Boot(n) ==
    /\ up[n] = "off"
    /\ up' = [up EXCEPT ![n] = "up"]
    /\ RegisterNext(n)
    /\ UNCHANGED <<stopped, lockVars, runVars, asyncVars, storeVars>>

\* All memory is lost; a write already sent may still reach the store.
Writes == {"setnx", "pexpire", "set", "del"}
Lost(n, keep, c, phase) ==
    IF Node(c) # n \/ (keep /\ phase \in Writes) THEN phase ELSE "idle"

Crash(n) ==
    /\ Crashes
    /\ IsUp(n)
    /\ up' = [up EXCEPT ![n] = "dead"]
    /\ jobs' = [jobs EXCEPT ![n] = 0]
    /\ regLock' = [regLock EXCEPT ![n] = NoValue]
    /\ orphans' = [c \in Ctx |-> IF Node(c) = n THEN 0 ELSE orphans[c]]
    /\ running' = [c \in Ctx |-> IF Node(c) = n THEN 0 ELSE running[c]]
    /\ ref' = [c \in Ctx |-> IF Node(c) = n THEN "none" ELSE ref[c]]
    /\ \E keep \in BOOLEAN :
          /\ acq' = [c \in Ctx |-> [f \in Fibers |-> Lost(n, keep, c, acq[c][f])]]
          /\ renewal' = [c \in Ctx |-> Lost(n, keep, c, renewal[c])]
          /\ release' = [c \in Ctx |-> Lost(n, keep, c, release[c])]
    /\ detector' = [detector EXCEPT ![n] = "idle"]
    /\ UNCHANGED <<made, stopped, dropped, ranOnce, storeVars>>

\* A call that is not slow has its answer handled within the 30 s of the TTL.  So
\* the key does not expire while an instance that registered its value is there
\* to renew it every 10 s, nor between a read and the write or the callback that
\* the read decided.
Due ==
    \/ /\ "renew" \notin Slow
       /\ \/ \E n \in Nodes : IsUp(n) /\ regLock[n] = lockVal
          \/ \E c \in Ctx : renewal[c] = "set"
    \/ "release" \notin Slow /\ \E c \in Ctx : release[c] = "del"
    \/ /\ "acquire" \notin Slow
       /\ \E c \in Ctx, f \in Fibers : acq[c][f] \in {"pexpire", "chk", "mine"}

Expire ==
    /\ lockVal # NoValue
    /\ lockTtl
    /\ ~Due
    /\ lockVal' = NoValue
    /\ lockTtl' = FALSE
    /\ UNCHANGED <<up, jobVars, lockVars, runVars, asyncVars>>

--------------------------------------------------------------------------------
ContextStep(c) ==
    \/ Fire(c) \/ JobEnds(c)
    \/ \E f \in Fibers : Acquisition(c, f) \/ SetRef(c, f)
    \/ ExecRenewGet(c) \/ ExecRenewSet(c)
    \/ ExecReleaseGet(c) \/ ExecReleaseDel(c)

NodeStep(n) ==
    \/ Boot(n) \/ Scan(n) \/ UpdateLocks(n)
    \/ ExecPttl(n) \/ ExecStalledDel(n)
    \/ UnregisterJob(n) \/ ReplaceJob(n) \/ Crash(n)

Next ==
    \/ \E c \in Ctx : ContextStep(c)
    \/ \E n \in Nodes : NodeStep(n)
    \/ Expire

Spec == Init /\ [][Next]_vars

\* The schedulers of the JobManager, the callbacks and the store's clock all
\* keep running; starting, stopping and crashing an instance are choices.
Fairness ==
    /\ \A c \in Ctx :
          /\ WF_vars(Fire(c)) /\ WF_vars(JobEnds(c))
          /\ \A f \in Fibers : WF_vars(Acquisition(c, f)) /\ WF_vars(SetRef(c, f))
          /\ WF_vars(ExecRenewGet(c) \/ ExecRenewSet(c))
          /\ WF_vars(ExecReleaseGet(c) \/ ExecReleaseDel(c))
    /\ \A n \in Nodes :
          /\ WF_vars(Scan(n)) /\ WF_vars(UpdateLocks(n))
          /\ WF_vars(ExecPttl(n) \/ ExecStalledDel(n))
    /\ WF_vars(Expire)

FairSpec == Spec /\ Fairness
--------------------------------------------------------------------------------
(* What the lock is for. *)

\* Two instances never both believe that they hold the lock of the job: the
\* registeredLocks maps of the JobManagers agree on one holder.
LockMutex ==
    \A m, n \in Nodes : regLock[m] # NoValue /\ regLock[n] # NoValue => m = n

\* An instance that believes it holds the lock is the one the datastore names,
\* so updateLocks finds its own value and the renewal is never skipped.
RegisteredIsStored ==
    \A n \in Nodes : regLock[n] # NoValue => lockVal = regLock[n]

\* A job that runs under the lock never runs on two instances at a time
\* (JobInstantiation.OneInstancePerOtoroshiCluster), executions that were in
\* progress when their context was stopped left aside: stop does not wait.
RunsOn(n) == \E c \in Ctx : Node(c) = n /\ running[c] > 0 /\ ~stopped[c]
RunMutex == \A m, n \in Nodes : RunsOn(m) /\ RunsOn(n) => m = n

\* The one thing that makes a job run twice while every call is in time and stops
\* meet no call: a scan that lost throws away, in unregisterLock, the lock that
\* another scan of its instance registered.
SingleExecution == dropped \/ RunMutex

\* A value left in the datastore by an instance that died is always removed, by
\* its TTL or, when it has none, by StalledJobsDetector.
DeadLockFreed ==
    \A c \in Ctx :
        lockVal = c /\ up[Node(c)] = "dead"
        ~> lockVal # c \/ \A n \in Nodes : ~(IsUp(n) /\ Detects(n))

\* Nothing will clear ref any more, and the scan skips the job: the timer fired,
\* and its execution ended, before ref named it.
Stuck(c) ==
    /\ IsUp(Node(c)) /\ jobs[Node(c)] = c[2]
    /\ ref[c] = "late" /\ running[c] = 0 /\ orphans[c] = 0
    /\ \A f \in Fibers : acq[c][f] = "idle"

\* A job with an interval is run again and again as long as an instance that may
\* run it stays up, unless StalledJobsDetector meets the lock between its setnx
\* and its pexpire over and over.
RunsEveryInterval ==
    \A n \in Nodes :
        /\ <>[](IsUp(n) /\ Placement(n) = "lock")
        /\ <>[][\A m \in Nodes : ~ExecStalledDel(m)]_vars
        => []<>(\E c \in Ctx : running[c] > 0)

\* Failover: whatever crashes leave in the datastore, that is so; what remains is
\* an instance whose ref keeps a timer that fired before it was set there.
Failover == <>[](\A c \in Ctx : ~Stuck(c)) => RunsEveryInterval

\* The lock implements the abstract promise until a registered lock is thrown
\* away: the holder is the instance with a registered lock, and the active ones
\* run the job for a context not stopped.
Holder ==
    IF ~dropped /\ \E n \in Nodes : regLock[n] # NoValue
    THEN CHOOSE n \in Nodes : regLock[n] # NoValue
    ELSE NoValue
Active == {n \in Nodes : ~dropped /\ RunsOn(n)}
Abstract == INSTANCE ClusterMutex WITH Nobody <- NoValue, holder <- Holder, active <- Active
ImplementsMutex == Abstract!Spec
================================================================================
