------------------------------ MODULE JobLockProofs ------------------------------
(***************************************************************************)
(* Proofs about JobLock, for every set of instances and every bound.       *)
(***************************************************************************)
EXTENDS JobLock, TLAPS

\* The conditions under which the lock is safe: a driver that sets value and TTL
\* in one command, calls faster than the TTL, stops that find no call in flight.
SafeSetting == AtomicSetnx /\ Slow = {} /\ Stops \in {"never", "quiet"}

\* The context registered with the JobManager of n.
IsCurrent(c) == jobs[Node(c)] = c[2]

\* Generations are created in order, and an instance registers only those.
GenInv ==
    \A n \in Nodes : jobs[n] <= made[n] /\ (up[n] = "off" => made[n] = 0)

\* A registered lock is the current context's, and the store agrees.
RegInv ==
    \A n \in Nodes :
        regLock[n] # NoValue =>
            /\ up[n] = "up"
            /\ lockVal = regLock[n]
            /\ Node(regLock[n]) = n
            /\ IsCurrent(regLock[n])

\* Calls in flight belong to the current context, or to an instance that died
\* after sending them; what they read is still so.
AcqInv ==
    \A c \in Ctx, f \in Fibers :
        /\ acq[c][f] # "idle" /\ up[Node(c)] # "dead" => IsCurrent(c)
        /\ acq[c][f] # "idle" /\ up[Node(c)] = "dead" => acq[c][f] = "setnx"
        /\ acq[c][f] = "mine" => lockVal = c
        /\ acq[c][f] # "pexpire"

RenewInv ==
    \A c \in Ctx :
        /\ renewal[c] # "idle" /\ up[Node(c)] # "dead" => IsCurrent(c)
        /\ renewal[c] = "set" => lockVal = c

\* A context that is releasing is not current any more and has nothing else
\* in flight.
ReleaseInv ==
    \A c \in Ctx :
        /\ release[c] # "idle" =>
              /\ ~IsCurrent(c)
              /\ c[2] <= made[Node(c)]
              /\ renewal[c] = "idle"
              /\ \A f \in Fibers : acq[c][f] = "idle"
        /\ release[c] = "del" => lockVal = c

\* The key always has a TTL, so the detector never deletes it.
TtlInv ==
    /\ lockVal # NoValue => lockTtl
    /\ \A n \in Nodes : detector[n] # "del"

LockInv ==
    GenInv /\ RegInv /\ AcqInv /\ RenewInv /\ ReleaseInv /\ TtlInv

--------------------------------------------------------------------------------
(* The type invariant. *)

\* What the proofs need to know of contexts.
LEMMA CtxFacts ==
    /\ \A c \in Ctx : Node(c) \in Nodes /\ c[2] \in Gens /\ c = <<Node(c), c[2]>>
    /\ \A n \in Nodes, g \in Gens : /\ <<n, g>> \in Ctx
                                    /\ Node(<<n, g>>) = n
                                    /\ <<n, g>>[2] = g
    /\ NoValue \notin Ctx
BY JobLockAssumption DEF Ctx, Node, Gens

\* The state in which the instances are not started yet has the right types.
LEMMA TypeInit == Init => TypeOK
<1> SUFFICES ASSUME Init PROVE TypeOK
  OBVIOUS
<1> USE JobLockAssumption DEF Init
<1>1. up \in [Nodes -> {"off", "up", "dead"}] /\ stopped \in [Ctx -> BOOLEAN] OBVIOUS
<1>2. jobs \in [Nodes -> 0..MaxGen] /\ made \in [Nodes -> 0..MaxGen] OBVIOUS
<1>3. orphans \in [Ctx -> 0..MaxTimers] OBVIOUS
<1>4. acq \in [Ctx -> [Fibers -> AcqPhase]] BY DEF AcqPhase
<1>5. {lockTtl, dropped} \subseteq BOOLEAN /\ lockVal \in Ctx \cup {NoValue} OBVIOUS
<1> QED BY <1>1, <1>2, <1>3, <1>4, <1>5 DEF TypeOK

\* Where startNext leaves the scan that called it.
LEMMA StartNextType == \A c : StartNext(c) \in {"idle", "now", "later"}
BY DEF StartNext

\* A timer left without a name is counted, within the bound.
LEMMA UnnamedType ==
  ASSUME TypeOK, NEW c \in Ctx, Unnamed(c)
  PROVE  orphans' \in [Ctx -> 0..MaxTimers]
<1>1. ref[c] = "armed" => orphans[c] + 1 \in 0..MaxTimers
  BY JobLockAssumption DEF Unnamed, TypeOK
<1> QED BY <1>1 DEF Unnamed, TypeOK

\* Every operation of the JobManager and of the datastore keeps them.
LEMMA TypeStep == TypeOK /\ [Next]_vars => TypeOK'
<1> SUFFICES ASSUME TypeOK, [Next]_vars PROVE TypeOK'
  OBVIOUS
<1> USE JobLockAssumption, CtxFacts
<1> USE DEF TypeOK, jobVars, lockVars, runVars, asyncVars, storeVars
<1>1. ASSUME NEW c \in Ctx, ContextStep(c) PROVE TypeOK'
  <2>1. CASE Fire(c)
    <3>1. running' \in [Ctx -> 0..MaxRunning]
      <4>1. running' = [running EXCEPT ![c] = IF stopped[c] THEN @ ELSE @ + 1]
        BY <2>1 DEF Fire
      <4>2. running[c] + 1 \in 0..MaxRunning /\ running[c] \in 0..MaxRunning
        BY <2>1 DEF Fire
      <4> QED BY <4>1, <4>2
    <3>2. /\ ref' \in [Ctx -> {"none", "armed", "fired", "late"}]
          /\ orphans' \in [Ctx -> 0..MaxTimers]
          /\ acq' \in [Ctx -> [Fibers -> AcqPhase]]
      <4>1. CASE ref' = [ref EXCEPT ![c] = "fired"] /\ UNCHANGED <<orphans, acq>>
        BY <4>1
      <4>2. CASE orphans[c] > 0 /\ orphans' = [orphans EXCEPT ![c] = @ - 1] /\ UNCHANGED <<ref, acq>>
        BY <4>2
      <4>3. ASSUME NEW f \in Fibers, acq' = [acq EXCEPT ![c][f] = "ran"], UNCHANGED <<ref, orphans>>
            PROVE  /\ ref' \in [Ctx -> {"none", "armed", "fired", "late"}]
                   /\ orphans' \in [Ctx -> 0..MaxTimers]
                   /\ acq' \in [Ctx -> [Fibers -> AcqPhase]]
        BY <4>3 DEF AcqPhase
      <4>4. \/ ref' = [ref EXCEPT ![c] = "fired"] /\ UNCHANGED <<orphans, acq>>
            \/ orphans[c] > 0 /\ orphans' = [orphans EXCEPT ![c] = @ - 1] /\ UNCHANGED <<ref, acq>>
            \/ \E f \in Fibers : acq' = [acq EXCEPT ![c][f] = "ran"] /\ UNCHANGED <<ref, orphans>>
        BY <2>1, Zenon DEF Fire
      <4>5. CASE \E f \in Fibers : acq' = [acq EXCEPT ![c][f] = "ran"] /\ UNCHANGED <<ref, orphans>>
        BY <4>3, <4>5, Zenon
      <4> QED BY <4>1, <4>2, <4>4, <4>5, Zenon
    <3> QED BY <2>1, <3>1, <3>2 DEF Fire
  <2>2. CASE JobEnds(c)
    BY <2>2, UnnamedType DEF JobEnds
  <2>3. ASSUME NEW f \in Fibers, Acquisition(c, f) PROVE TypeOK'
    <3>1. CASE ExecGet(c, f)
      BY <3>1 DEF ExecGet, Seen, AcqPhase
    <3>2. CASE ExecSetnx(c, f)
      <4>1. /\ lockVal' \in {lockVal, c}
            /\ lockTtl' \in {lockTtl, AtomicSetnx}
            /\ \E phase \in AcqPhase : acq' = [acq EXCEPT ![c][f] = phase]
        BY <3>2, Zenon DEF ExecSetnx, Answer, AcqPhase
      <4>2. lockTtl' \in BOOLEAN
        BY <4>1, Zenon
      <4> QED BY <3>2, <4>1, <4>2 DEF ExecSetnx
    <3>3. CASE ExecPexpire(c, f)
      BY <3>3 DEF ExecPexpire, Answer, AcqPhase
    <3>4. CASE ExecCheck(c, f)
      BY <3>4 DEF ExecCheck, Seen, AcqPhase
    <3>5. CASE HandleMine(c, f)
      <4>1. StartNext(c) \in AcqPhase
        BY StartNextType DEF AcqPhase
      <4> QED BY <3>5, <4>1 DEF HandleMine
    <3>6. CASE HandleOther(c, f)
      <4>1. dropped' \in BOOLEAN
        BY <3>6, Zenon DEF HandleOther
      <4> QED BY <3>6, <4>1 DEF HandleOther, AcqPhase
    <3> QED BY <2>3, <3>1, <3>2, <3>3, <3>4, <3>5, <3>6 DEF Acquisition
  <2>4. CASE ExecRenewGet(c)
    BY <2>4 DEF ExecRenewGet
  <2>5. CASE ExecRenewSet(c)
    BY <2>5 DEF ExecRenewSet
  <2>6. CASE ExecReleaseGet(c)
    BY <2>6 DEF ExecReleaseGet
  <2>7. CASE ExecReleaseDel(c)
    BY <2>7 DEF ExecReleaseDel
  <2>8. ASSUME NEW f \in Fibers, SetRef(c, f) PROVE TypeOK'
    <3>1. \E named \in {"late", "armed"} : ref' = [ref EXCEPT ![c] = named]
      BY <2>8 DEF SetRef
    <3> QED BY <2>8, <3>1, UnnamedType DEF SetRef, AcqPhase
  <2> QED BY <1>1, <2>1, <2>2, <2>3, <2>4, <2>5, <2>6, <2>7, <2>8 DEF ContextStep
<1>2. ASSUME NEW n \in Nodes, NodeStep(n) PROVE TypeOK'
  <2>1. CASE Boot(n)
    BY <2>1 DEF Boot, RegisterNext
  <2>2. CASE Scan(n)
    <3> DEFINE c == <<n, jobs[n]>>
    <3>1. c \in Ctx
      BY <2>2 DEF Scan, Gens
    <3>2. StartNext(c) \in AcqPhase
      BY StartNextType DEF AcqPhase
    <3>3. PICK f \in Fibers, phase \in AcqPhase : acq' = [acq EXCEPT ![c][f] = phase]
      BY <2>2, <3>2, Zenon DEF Scan, AcqPhase
    <3> QED BY <2>2, <3>1, <3>3 DEF Scan
  <2>3. CASE UpdateLocks(n)
    BY <2>3 DEF UpdateLocks
  <2>4. CASE ExecPttl(n) \/ ExecStalledDel(n)
    <3>1. CASE ExecPttl(n)
      BY <3>1 DEF ExecPttl
    <3>2. CASE ExecStalledDel(n)
      BY <3>2 DEF ExecStalledDel
    <3> QED BY <2>4, <3>1, <3>2
  <2>5. ASSUME NEW c \in Ctx, StopContext(c)
        PROVE /\ stopped' \in [Ctx -> BOOLEAN]
              /\ ref' \in [Ctx -> {"none", "armed", "fired", "late"}]
              /\ regLock' \in [Nodes -> Ctx \cup {NoValue}]
              /\ release' \in [Ctx -> {"idle", "get", "del"}]
    BY <2>5 DEF StopContext
  <2>6. jobs[n] # 0 => <<n, jobs[n]>> \in Ctx
    BY DEF Gens
  <2>7. CASE UnregisterJob(n)
    BY <2>5, <2>6, <2>7 DEF UnregisterJob
  <2>8. CASE ReplaceJob(n)
    BY <2>5, <2>6, <2>8 DEF ReplaceJob, RegisterNext
  <2>9. CASE Crash(n)
    BY <2>9 DEF Crash, Lost, AcqPhase, Writes
  <2> QED BY <1>2, <2>1, <2>2, <2>3, <2>4, <2>7, <2>8, <2>9 DEF NodeStep
<1>3. CASE Expire
  BY <1>3 DEF Expire
<1>4. CASE UNCHANGED vars
  BY <1>4 DEF vars
<1> QED BY <1>1, <1>2, <1>3, <1>4 DEF Next

\* Spec => []TypeOK: maps, flags, timers and calls in flight stay in their ranges.
THEOREM TypeCorrect == Spec => []TypeOK
<1> QED BY TypeInit, TypeStep, PTL DEF Spec

--------------------------------------------------------------------------------
(* One holder.  The steps that can disturb LockInv are taken one by one; what *)
(* makes it hold is that a value read as its own stays so until the write or  *)
(* the callback it decides, and that only a context that is not current and   *)
(* has nothing else in flight deletes its key.                                *)

FrameVars == <<up, jobs, made, regLock, acq, renewal, release, detector, lockVal, lockTtl>>

\* Scheduling and executing the job does not touch the lock.
LEMMA LockFrame == LockInv /\ UNCHANGED FrameVars => LockInv'
BY DEF FrameVars, LockInv, GenInv, RegInv, AcqInv, RenewInv, ReleaseInv, TtlInv, IsCurrent

\* Nobody has asked for the lock at first.
LEMMA LockInit == Init => LockInv
BY CtxFacts DEF Init, LockInv, GenInv, RegInv, AcqInv, RenewInv, ReleaseInv, TtlInv

\* acquireClusterWideLock, one datastore call or callback at a time.
LEMMA LockAcquisition ==
  ASSUME SafeSetting, TypeOK, LockInv, NEW c \in Ctx, NEW f \in Fibers, Acquisition(c, f)
  PROVE  LockInv'
<1> USE CtxFacts DEF SafeSetting, TypeOK, jobVars, lockVars, storeVars, runVars
<1> USE DEF LockInv, GenInv, RegInv, AcqInv, RenewInv, ReleaseInv, TtlInv, IsCurrent
<1>1. CASE ExecGet(c, f)
  BY <1>1 DEF ExecGet, Seen
<1>2. CASE ExecSetnx(c, f)
  <2>1. CASE lockVal = NoValue
    <3>1. lockVal' = c /\ lockTtl' = AtomicSetnx /\ AtomicSetnx
      BY <1>2, <2>1, Zenon DEF ExecSetnx
    <3>2. acq' = [acq EXCEPT ![c][f] = IF IsUp(Node(c)) THEN "chk" ELSE "idle"]
      BY <1>2, <2>1, <3>1, Zenon DEF ExecSetnx, Answer
    <3>3. lockTtl'
      BY <3>1, Zenon
    <3> QED BY <1>2, <2>1, <3>1, <3>2, <3>3 DEF ExecSetnx, IsUp
  <2>2. CASE lockVal # NoValue
    <3>1. /\ lockVal' = lockVal /\ lockTtl' = lockTtl
          /\ acq' = [acq EXCEPT ![c][f] = IF IsUp(Node(c)) THEN "other" ELSE "idle"]
      BY <1>2, <2>2, Zenon DEF ExecSetnx, Answer
    <3> QED BY <1>2, <3>1 DEF ExecSetnx, IsUp
  <2> QED BY <2>1, <2>2
<1>3. CASE ExecPexpire(c, f)
  BY <1>3 DEF ExecPexpire
<1>4. CASE ExecCheck(c, f)
  BY <1>4 DEF ExecCheck, Seen
<1>5. CASE HandleMine(c, f)
  <2>1. PICK phase \in {"idle", "now", "later"} : acq' = [acq EXCEPT ![c][f] = phase]
    BY <1>5, StartNextType, Zenon DEF HandleMine
  <2> QED BY <1>5, <2>1 DEF HandleMine, IsUp
<1>6. CASE HandleOther(c, f)
  BY <1>6 DEF HandleOther, IsUp
<1> QED BY <1>1, <1>2, <1>3, <1>4, <1>5, <1>6 DEF Acquisition

\* What a context does on its own: timers, renewals and releases in flight.
LEMMA LockContextStep ==
  ASSUME SafeSetting, TypeOK, LockInv, NEW c \in Ctx, ContextStep(c)
  PROVE  LockInv'
<1>1. CASE JobEnds(c)
  BY <1>1, LockFrame DEF JobEnds, FrameVars, lockVars, asyncVars, storeVars
<1>2. ASSUME NEW f \in Fibers, Acquisition(c, f) PROVE LockInv'
  BY <1>2, LockAcquisition
<1> USE CtxFacts DEF TypeOK, jobVars, lockVars, storeVars, runVars
<1> USE DEF LockInv, GenInv, RegInv, AcqInv, RenewInv, ReleaseInv, TtlInv, IsCurrent
<1>3. CASE ExecRenewGet(c)
  BY <1>3 DEF ExecRenewGet
<1>4. CASE ExecRenewSet(c)
  BY <1>4 DEF ExecRenewSet
<1>5. CASE ExecReleaseGet(c)
  BY <1>5 DEF ExecReleaseGet
<1>6. CASE ExecReleaseDel(c)
  BY <1>6 DEF ExecReleaseDel
<1>7. CASE Fire(c)
  <2>1. UNCHANGED <<up, jobs, made, regLock, renewal, release, detector, lockVal, lockTtl>>
    BY <1>7 DEF Fire
  <2>2. CASE UNCHANGED acq
    BY <2>1, <2>2, LockFrame DEF FrameVars
  <2>3. ASSUME NEW f \in Fibers, acq[c][f] = "now", acq' = [acq EXCEPT ![c][f] = "ran"]
        PROVE  LockInv'
    BY <2>1, <2>3
  <2> QED BY <1>7, <2>2, <2>3 DEF Fire
<1>8. ASSUME NEW f \in Fibers, SetRef(c, f) PROVE LockInv'
  BY <1>8 DEF SetRef
<1> QED BY <1>1, <1>2, <1>3, <1>4, <1>5, <1>6, <1>7, <1>8 DEF ContextStep

\* What the JobManager of an instance does: scans, renewals, stops and crashes.
LEMMA LockNodeStep ==
  ASSUME SafeSetting, TypeOK, LockInv, NEW n \in Nodes, NodeStep(n)
  PROVE  LockInv'
<1> USE CtxFacts, JobLockAssumption DEF TypeOK, jobVars, lockVars, storeVars, runVars, asyncVars
<1> USE DEF LockInv, GenInv, RegInv, AcqInv, RenewInv, ReleaseInv, TtlInv, IsCurrent
<1>1. CASE Boot(n)
  BY <1>1 DEF Boot, RegisterNext, Gens
<1>2. CASE Scan(n)
  <2> DEFINE c == <<n, jobs[n]>>
  <2>1. c \in Ctx /\ Node(c) = n /\ c[2] = jobs[n] /\ up[n] = "up"
    BY <1>2 DEF Scan, IsUp, Gens
  <2>2. PICK f \in Fibers, phase \in {"get", "idle", "now", "later"} :
           acq' = [acq EXCEPT ![c][f] = phase]
    <3>1. StartNext(c) \in {"get", "idle", "now", "later"}
      BY StartNextType
    <3>2. PICK f \in Fibers :
             acq' = [acq EXCEPT ![c][f] =
                       IF Placement(n) = "lock" /\ regLock[n] = NoValue THEN "get" ELSE StartNext(c)]
      BY <1>2, Zenon DEF Scan
    <3>3. CASE Placement(n) = "lock" /\ regLock[n] = NoValue
      BY <3>2, <3>3
    <3>4. CASE ~(Placement(n) = "lock" /\ regLock[n] = NoValue)
      BY <3>1, <3>2, <3>4, Zenon
    <3> QED BY <3>3, <3>4
  <2>3. UNCHANGED <<up, jobs, made, regLock, renewal, release, detector, storeVars>>
    BY <1>2 DEF Scan
  <2> HIDE DEF c
  <2> QED BY <2>1, <2>2, <2>3
<1>3. CASE UpdateLocks(n)
  BY <1>3 DEF UpdateLocks, IsUp
<1>4. CASE ExecPttl(n)
  BY <1>4 DEF ExecPttl
<1>5. CASE ExecStalledDel(n)
  BY <1>5 DEF ExecStalledDel
<1>6. ASSUME NEW c \in Ctx, c = <<n, jobs[n]>>,
             up[n] = "up", jobs[n] # 0, MayStop(n), StopContext(<<n, jobs[n]>>),
             UNCHANGED <<up, acq, renewal, detector, storeVars>>,
             \/ jobs' = [jobs EXCEPT ![n] = 0] /\ made' = made
             \/ RegisterNext(n)
      PROVE  LockInv'
  <2>1. c \in Ctx /\ Node(c) = n /\ c[2] = jobs[n] /\ c[2] \in 1..MaxGen
    BY <1>6 DEF Gens
  <2>2. renewal[c] = "idle" /\ \A f \in Fibers : acq[c][f] = "idle"
    BY <1>6 DEF MayStop, SafeSetting
  <2>3. regLock' = [regLock EXCEPT ![n] = NoValue] /\ release' = [release EXCEPT ![c] = "get"]
    BY <1>6, <2>1 DEF StopContext
  <2>4. /\ jobs' \in [Nodes -> 0..MaxGen] /\ made' \in [Nodes -> 0..MaxGen]
        /\ made[n] <= made'[n] /\ jobs'[n] # jobs[n] /\ jobs'[n] <= made'[n]
        /\ jobs'[n] = 0 \/ jobs'[n] > made[n]
        /\ \A m \in Nodes \ {n} : jobs'[m] = jobs[m] /\ made'[m] = made[m]
    <3>1. CASE jobs' = [jobs EXCEPT ![n] = 0] /\ made' = made
      BY <1>6, <3>1
    <3>2. CASE RegisterNext(n)
      BY <3>2 DEF RegisterNext
    <3> QED BY <1>6, <3>1, <3>2
  <2>5. \A d \in Ctx : Node(d) = n /\ d # c => d[2] # jobs[n]
    BY <1>6
  <2>6. GenInv' /\ TtlInv'
    <3>1. UNCHANGED <<up, detector, lockVal, lockTtl>> /\ up[n] = "up"
      BY <1>6
    <3>2. ASSUME NEW m \in Nodes PROVE jobs'[m] <= made'[m] /\ (up[m] = "off" => made'[m] = 0)
      <4>1. CASE m = n
        BY <2>4, <3>1, <4>1
      <4>2. CASE m # n
        <5>1. jobs'[m] = jobs[m] /\ made'[m] = made[m]
          BY <2>4, <4>2
        <5> QED BY <5>1
      <4> QED BY <4>1, <4>2
    <3> QED BY <3>1, <3>2
  <2>7. RegInv'
    BY <1>6, <2>1, <2>3, <2>4
  <2>8. AcqInv' /\ RenewInv'
    <3>1. \A d \in Ctx : Node(d) = n => renewal[d] = "idle" /\ \A f \in Fibers : acq[d][f] = "idle"
      <4>1. ASSUME NEW d \in Ctx, Node(d) = n, d # c
            PROVE  renewal[d] = "idle" /\ \A f \in Fibers : acq[d][f] = "idle"
        <5>1. ~IsCurrent(d) /\ up[Node(d)] # "dead"
          BY <1>6, <2>5, <4>1
        <5> QED BY <5>1
      <4> QED BY <2>2, <4>1
    <3>2. \A d \in Ctx : Node(d) # n => IsCurrent(d)' = IsCurrent(d)
      BY <2>4
    <3>3. AcqInv'
      BY <1>6, <3>1, <3>2
    <3>4. RenewInv'
      BY <1>6, <3>1, <3>2
    <3> QED BY <3>3, <3>4
  <2>9. ReleaseInv'
    <3>1. ASSUME NEW d \in Ctx, release'[d] # "idle", d # c
          PROVE  ~IsCurrent(d)' /\ d[2] <= made'[Node(d)]
      <4>1. ~IsCurrent(d) /\ d[2] <= made[Node(d)] /\ d[2] \in 1..MaxGen
        BY <2>1, <2>3, <3>1 DEF Gens
      <4>2. CASE Node(d) = n
        <5>1. jobs'[n] # d[2] /\ d[2] <= made'[n]
          BY <2>4, <4>1, <4>2
        <5> QED BY <4>2, <5>1
      <4>3. CASE Node(d) # n
        <5>1. jobs'[Node(d)] = jobs[Node(d)] /\ made'[Node(d)] = made[Node(d)]
          BY <2>4, <4>3
        <5> QED BY <4>1, <5>1
      <4> QED BY <4>2, <4>3
    <3>2. ~IsCurrent(c)' /\ c[2] <= made'[Node(c)]
      <4>1. jobs'[n] # c[2] /\ c[2] <= made[n] /\ made[n] <= made'[n]
        BY <2>1, <2>4
      <4>2. c[2] \in Nat /\ made[n] \in Nat /\ made'[n] \in Nat
        BY <2>1, <2>4
      <4>3. c[2] <= made'[n]
        BY <4>1, <4>2
      <4> QED BY <2>1, <4>1, <4>3
    <3>3. \A d \in Ctx : d # c => release'[d] = release[d]
      BY <2>1, <2>3
    <3>4. ASSUME NEW d \in Ctx, release'[d] # "idle"
          PROVE  renewal'[d] = "idle" /\ \A f \in Fibers : acq'[d][f] = "idle"
      <4>1. renewal' = renewal /\ acq' = acq
        BY <1>6
      <4>2. CASE d = c
        BY <2>2, <4>1, <4>2
      <4>3. CASE d # c
        BY <3>3, <3>4, <4>1, <4>3
      <4> QED BY <4>2, <4>3
    <3>5. ASSUME NEW d \in Ctx, release'[d] = "del" PROVE lockVal' = d
      BY <1>6, <2>3, <3>3, <3>5
    <3>6. \A d \in Ctx : release'[d] # "idle" => ~IsCurrent(d)' /\ d[2] <= made'[Node(d)]
      BY <3>1, <3>2
    <3> HIDE DEF IsCurrent
    <3> QED BY <3>4, <3>5, <3>6
  <2> QED BY <2>6, <2>7, <2>8, <2>9
<1>7. CASE UnregisterJob(n)
  <2>1. <<n, jobs[n]>> \in Ctx
    BY <1>7 DEF UnregisterJob, Gens
  <2> QED BY <1>6, <1>7, <2>1 DEF UnregisterJob, IsUp
<1>8. CASE ReplaceJob(n)
  <2>1. CASE jobs[n] = 0
    BY <1>8, <2>1 DEF ReplaceJob, RegisterNext, IsUp, Gens
  <2>2. CASE jobs[n] # 0
    <3>1. <<n, jobs[n]>> \in Ctx
      BY <2>2 DEF Gens
    <3> QED BY <1>6, <1>8, <2>2, <3>1 DEF ReplaceJob, IsUp
  <2> QED BY <2>1, <2>2
<1>9. CASE Crash(n)
  <2>1. /\ up[n] = "up" /\ up' = [up EXCEPT ![n] = "dead"]
        /\ jobs' = [jobs EXCEPT ![n] = 0]
        /\ regLock' = [regLock EXCEPT ![n] = NoValue]
        /\ UNCHANGED <<made, storeVars>>
        /\ \A m \in Nodes : detector'[m] \in {"idle", detector[m]}
    BY <1>9 DEF Crash, IsUp
  <2>2. \A c \in Ctx, f \in Fibers :
           /\ acq'[c][f] \in {"idle", acq[c][f]}
           /\ Node(c) # n => acq'[c][f] = acq[c][f]
           /\ Node(c) = n => acq'[c][f] \in {"idle"} \cup Writes
    BY <1>9 DEF Crash, Lost
  <2>3. \A c \in Ctx : renewal'[c] \in {"idle", renewal[c]} /\ release'[c] \in {"idle", release[c]}
    BY <1>9 DEF Crash, Lost
  <2>4. GenInv' /\ RegInv' /\ TtlInv'
    BY <2>1
  <2>5. AcqInv'
    <3>1. ASSUME NEW c \in Ctx, NEW f \in Fibers, Node(c) = n
          PROVE  acq'[c][f] \in {"idle", "setnx"}
      <4>1. acq[c][f] \in AcqPhase \ {"pexpire"}
        OBVIOUS
      <4>2. acq'[c][f] \in {"idle", acq[c][f]} /\ acq'[c][f] \in {"idle"} \cup Writes
        BY <2>2, <3>1
      <4> QED BY <4>1, <4>2 DEF Writes, AcqPhase
    <3>2. ASSUME NEW c \in Ctx, NEW f \in Fibers, Node(c) # n
          PROVE  acq'[c][f] = acq[c][f] /\ up'[Node(c)] = up[Node(c)] /\ IsCurrent(c)' = IsCurrent(c)
      BY <2>1, <2>2, <3>2
    <3> QED BY <2>1, <3>1, <3>2
  <2>6. RenewInv'
    BY <2>1, <2>3
  <2>7. ReleaseInv'
    BY <2>1, <2>2, <2>3 DEF Gens
  <2> QED BY <2>4, <2>5, <2>6, <2>7
<1> QED BY <1>1, <1>2, <1>3, <1>4, <1>5, <1>7, <1>8, <1>9 DEF NodeStep

\* Every step keeps the lock's invariant, the expiration of the key included.
LEMMA LockStep == SafeSetting /\ TypeOK /\ LockInv /\ [Next]_vars => LockInv'
<1> SUFFICES ASSUME SafeSetting, TypeOK, LockInv, [Next]_vars PROVE LockInv'
  OBVIOUS
<1>1. CASE Expire
  BY <1>1, CtxFacts DEF Expire, Due, SafeSetting, jobVars, lockVars, asyncVars, LockInv, GenInv, RegInv,
     AcqInv, RenewInv, ReleaseInv, TtlInv, IsCurrent, IsUp
<1>2. CASE UNCHANGED vars
  BY <1>2, LockFrame DEF vars, FrameVars, jobVars, lockVars, asyncVars, storeVars
<1> QED BY <1>1, <1>2, LockContextStep, LockNodeStep DEF Next

\* In a safe setting the registered locks of all the instances agree with the
\* datastore at all times: a renewal never finds the value of somebody else.
THEOREM RegisteredAgrees == SafeSetting => (Spec => []RegisteredIsStored)
<1> SUFFICES ASSUME SafeSetting PROVE Spec => []RegisteredIsStored
  OBVIOUS
<1>1. Init => TypeOK /\ LockInv
  BY TypeInit, LockInit
<1>2. TypeOK /\ LockInv /\ [Next]_vars => (TypeOK /\ LockInv)'
  BY TypeStep, LockStep
<1>3. TypeOK /\ LockInv => RegisteredIsStored
  BY DEF LockInv, RegInv, RegisteredIsStored
<1> QED BY <1>1, <1>2, <1>3, PTL DEF Spec

\* Hence the lock excludes: no two instances hold it at the same time.
THEOREM MutualExclusion == SafeSetting => (Spec => []LockMutex)
<1> SUFFICES ASSUME SafeSetting PROVE Spec => []LockMutex
  OBVIOUS
<1>1. Init => TypeOK /\ LockInv
  BY TypeInit, LockInit
<1>2. TypeOK /\ LockInv /\ [Next]_vars => (TypeOK /\ LockInv)'
  BY TypeStep, LockStep
<1>3. TypeOK /\ LockInv => LockMutex
  BY DEF TypeOK, LockInv, RegInv, LockMutex
<1> QED BY <1>1, <1>2, <1>3, PTL DEF Spec

--------------------------------------------------------------------------------
(* One execution.  The lock is one thing, what the instances run is another:  *)
(* an execution starts from a callback or from the registered lock, and goes  *)
(* on without it.                                                             *)

\* The lock is what decides where the job runs.
ClusterSetting == SafeSetting /\ Instantiation = "Cluster"

\* An execution of c is in progress, or a timer is there to start one.
Busy(c) ==
    \/ running[c] > 0 \/ orphans[c] > 0 \/ ref[c] = "armed"
    \/ \E f \in Fibers : acq[c][f] \in {"now", "later"}

\* Until a registered lock is thrown away, what still counts belongs to the
\* context whose lock is registered.
WorkInv == ~dropped => \A c \in Ctx : Busy(c) /\ ~stopped[c] => regLock[Node(c)] = c

\* Steps after which nobody works who did not, or works without its lock.
LEMMA WorkLess ==
  ASSUME WorkInv, dropped => dropped',
         \A c \in Ctx : Busy(c)' /\ ~stopped'[c] =>
            Busy(c) /\ ~stopped[c] /\ regLock'[Node(c)] = regLock[Node(c)]
  PROVE  WorkInv'
BY DEF WorkInv

\* What does not touch them.
LEMMA WorkFrame ==
  ASSUME WorkInv, UNCHANGED <<acq, regLock, dropped, ref, orphans, running, stopped>>
  PROVE  WorkInv'
BY DEF WorkInv, Busy

\* Scans that arm no timer make nobody busy.
LEMMA WorkIdle ==
  ASSUME UNCHANGED <<ref, orphans, running>>,
         \A c \in Ctx, f \in Fibers :
            acq'[c][f] \in {"now", "later"} => acq'[c][f] = acq[c][f]
  PROVE  \A c \in Ctx : Busy(c)' => Busy(c)
BY DEF Busy

\* A scan that starts the job makes its own context busy, and no other.
LEMMA WorkStart ==
  ASSUME TypeOK, NEW c \in Ctx, NEW f \in Fibers, acq' = [acq EXCEPT ![c][f] = StartNext(c)],
         UNCHANGED <<ref, orphans, running>>
  PROVE  \A d \in Ctx : d # c => (Busy(d)' <=> Busy(d))
<1>1. \A d \in Ctx : d # c => acq'[d] = acq[d]
  BY DEF TypeOK
<1> QED BY <1>1 DEF Busy

\* An acquisition starts the job under the lock it registered, or drops a lock.
LEMMA WorkAcquisition ==
  ASSUME ClusterSetting, TypeOK, LockInv, WorkInv,
         NEW c \in Ctx, NEW f \in Fibers, Acquisition(c, f)
  PROVE  WorkInv'
<1>1. CASE ExecGet(c, f) \/ ExecSetnx(c, f) \/ ExecPexpire(c, f) \/ ExecCheck(c, f)
  <2>1. UNCHANGED <<regLock, dropped, ref, orphans, running, stopped>>
    BY <1>1 DEF ExecGet, ExecSetnx, ExecPexpire, ExecCheck, jobVars, lockVars, runVars
  <2>2. \A d \in Ctx, e \in Fibers :
           acq'[d][e] \in {"now", "later"} => acq'[d][e] = acq[d][e]
    <3>1. CASE ExecGet(c, f)
      BY <3>1 DEF ExecGet, Seen, TypeOK
    <3>2. CASE ExecSetnx(c, f)
      <4>1. \E phase \in {"chk", "pexpire", "other", "idle"} : acq' = [acq EXCEPT ![c][f] = phase]
        BY <3>2, Zenon DEF ExecSetnx, Answer
      <4> QED BY <4>1 DEF TypeOK
    <3>3. CASE ExecPexpire(c, f)
      BY <3>3 DEF ExecPexpire, Answer, TypeOK
    <3>4. CASE ExecCheck(c, f)
      BY <3>4 DEF ExecCheck, Seen, TypeOK
    <3> QED BY <1>1, <3>1, <3>2, <3>3, <3>4
  <2>3. \A d \in Ctx : Busy(d)' => Busy(d)
    BY <2>1, <2>2, WorkIdle
  <2> QED BY <2>1, <2>3, WorkLess
<1>2. CASE HandleMine(c, f)
  <2>1. /\ acq[c][f] = "mine" /\ acq' = [acq EXCEPT ![c][f] = StartNext(c)]
        /\ regLock' = [regLock EXCEPT ![Node(c)] = IF @ = NoValue THEN c ELSE @]
        /\ UNCHANGED <<dropped, ref, orphans, running, stopped>>
    BY <1>2 DEF HandleMine, jobVars, runVars
  <2>2. regLock[Node(c)] \in {NoValue, c}
    BY <2>1, CtxFacts DEF LockInv, AcqInv, RegInv
  <2>3. regLock' = [regLock EXCEPT ![Node(c)] = c]
    BY <2>1, <2>2
  <2>4. ASSUME NEW d \in Ctx, ~dropped, Busy(d)' /\ ~stopped[d] PROVE regLock'[Node(d)] = d
    <3>1. CASE d = c
      BY <2>3, <3>1, CtxFacts DEF TypeOK
    <3>2. CASE d # c
      <4>1. regLock[Node(d)] = d
        BY <2>1, <2>4, <3>2, WorkStart DEF WorkInv
      <4>2. Node(d) # Node(c)
        BY <2>2, <3>2, <4>1, CtxFacts
      <4> QED BY <2>3, <4>1, <4>2, CtxFacts DEF TypeOK
    <3> QED BY <3>1, <3>2
  <2> QED BY <2>1, <2>4 DEF WorkInv
<1>3. CASE HandleOther(c, f)
  <2>1. /\ acq' = [acq EXCEPT ![c][f] = "idle"] /\ UNCHANGED <<ref, orphans, running, stopped>>
        /\ regLock' = [regLock EXCEPT ![Node(c)] = NoValue]
        /\ dropped' = (dropped \/ regLock[Node(c)] # NoValue)
    BY <1>3 DEF HandleOther, jobVars, runVars
  <2>2. CASE regLock[Node(c)] # NoValue
    <3>1. dropped'
      BY <2>1, <2>2, Zenon
    <3> QED BY <3>1 DEF WorkInv
  <2>3. CASE regLock[Node(c)] = NoValue
    <3>1. regLock' = regLock
      BY <2>1, <2>3 DEF TypeOK
    <3>2. dropped => dropped'
      BY <2>1, Zenon
    <3>3. \A d \in Ctx, e \in Fibers :
             acq'[d][e] \in {"now", "later"} => acq'[d][e] = acq[d][e]
      BY <2>1 DEF TypeOK
    <3>4. \A d \in Ctx : Busy(d)' => Busy(d)
      BY <2>1, <3>3, WorkIdle
    <3> QED BY <2>1, <3>1, <3>2, <3>4, WorkLess
  <2> QED BY <2>2, <2>3
<1> QED BY <1>1, <1>2, <1>3 DEF Acquisition

\* A context's own steps: a timer that fires was armed, an execution that ends
\* was in progress, a ref that is set names a timer already scheduled.
LEMMA WorkContextStep ==
  ASSUME ClusterSetting, TypeOK, LockInv, WorkInv, NEW c \in Ctx, ContextStep(c)
  PROVE  WorkInv'
<1>1. CASE Fire(c)
  <2>1. UNCHANGED <<regLock, dropped, stopped>>
    BY <1>1 DEF Fire, jobVars, lockVars
  <2>2. Busy(c)
    BY <1>1 DEF Fire, Busy
  <2>3. \A d \in Ctx : d # c => (Busy(d)' <=> Busy(d))
    BY <1>1 DEF Fire, Busy, TypeOK
  <2> QED BY <2>1, <2>2, <2>3, WorkLess
<1>2. CASE JobEnds(c)
  <2>1. /\ UNCHANGED <<regLock, dropped>>
        /\ stopped[c] => stopped'[c]
        /\ \A d \in Ctx : d # c => stopped'[d] = stopped[d]
    BY <1>2 DEF JobEnds, lockVars, TypeOK
  <2>2. Busy(c)
    BY <1>2 DEF JobEnds, Busy
  <2>3. \A d \in Ctx : d # c => (Busy(d)' <=> Busy(d))
    <3>1. acq' = acq
      BY <1>2 DEF JobEnds, asyncVars
    <3>2. \A d \in Ctx : d # c => running'[d] = running[d] /\ ref'[d] = ref[d]
      <4>1. running' = [running EXCEPT ![c] = @ - 1] /\ ref' = [ref EXCEPT ![c] = "none"]
        BY <1>2 DEF JobEnds
      <4> QED BY <4>1 DEF TypeOK
    <3>3. \A d \in Ctx : d # c => orphans'[d] = orphans[d]
      BY <1>2 DEF JobEnds, Unnamed, TypeOK
    <3> QED BY <3>1, <3>2, <3>3 DEF Busy
  <2>4. ASSUME NEW d \in Ctx, Busy(d)' /\ ~stopped'[d]
        PROVE  Busy(d) /\ ~stopped[d] /\ regLock'[Node(d)] = regLock[Node(d)]
    <3>1. CASE d = c
      BY <2>1, <2>2, <2>4, <3>1
    <3>2. CASE d # c
      BY <2>1, <2>3, <2>4, <3>2
    <3> QED BY <3>1, <3>2
  <2>5. dropped => dropped'
    BY <2>1
  <2> QED BY <2>4, <2>5, WorkLess, Zenon
<1>3. ASSUME NEW f \in Fibers, SetRef(c, f) PROVE WorkInv'
  <2>1. UNCHANGED <<regLock, dropped, running, stopped>>
    BY <1>3 DEF SetRef, jobVars, lockVars
  <2>2. \A d \in Ctx : d # c => (Busy(d)' <=> Busy(d))
    BY <1>3 DEF SetRef, Unnamed, Busy, TypeOK
  <2>3. Busy(c)' => Busy(c)
    <3>1. CASE acq[c][f] \in {"now", "later"}
      BY <3>1 DEF Busy
    <3>2. CASE acq[c][f] = "ran" /\ ref[c] # "armed"
      <4>1. ref'[c] = "late" /\ orphans'[c] = orphans[c]
        BY <1>3, <3>2 DEF SetRef, Unnamed, TypeOK
      <4>2. \A g \in Fibers : acq'[c][g] \in {"idle", acq[c][g]}
        BY <1>3 DEF SetRef, TypeOK
      <4> QED BY <2>1, <4>1, <4>2 DEF Busy
    <3>3. CASE ref[c] = "armed"
      BY <3>3 DEF Busy
    <3> QED BY <1>3, <3>1, <3>2, <3>3 DEF SetRef
  <2> QED BY <2>1, <2>2, <2>3, WorkLess
<1>4. CASE ExecRenewGet(c) \/ ExecRenewSet(c) \/ ExecReleaseGet(c) \/ ExecReleaseDel(c)
  <2>1. UNCHANGED <<acq, regLock, dropped, ref, orphans, running, stopped>>
    BY <1>4 DEF ExecRenewGet, ExecRenewSet, ExecReleaseGet, ExecReleaseDel, jobVars, lockVars, runVars
  <2> QED BY <2>1, WorkFrame
<1> QED BY <1>1, <1>2, <1>3, <1>4, WorkAcquisition DEF ContextStep

\* Stopping the current context takes the lock from it, and nothing else counts.
LEMMA WorkStop ==
  ASSUME TypeOK, LockInv, WorkInv, NEW c \in Ctx, StopContext(c), IsCurrent(c),
         UNCHANGED <<acq, dropped, orphans, running>>
  PROVE  /\ WorkInv'
         /\ ~dropped => \A d \in Ctx : Node(d) = Node(c) => ~(running[d] > 0 /\ ~stopped'[d])
         /\ \A d \in Ctx : Node(d) # Node(c) => stopped'[d] = stopped[d]
<1>1. /\ stopped' = [stopped EXCEPT ![c] = TRUE]
      /\ regLock' = [regLock EXCEPT ![Node(c)] = NoValue]
      /\ ref' = [ref EXCEPT ![c] = "none"]
  BY DEF StopContext
<1>2. \A d \in Ctx : d # c => (Busy(d)' <=> Busy(d)) /\ stopped'[d] = stopped[d]
  BY <1>1 DEF Busy, TypeOK
<1>3. stopped'[c]
  BY <1>1, Zenon DEF TypeOK
<1>4. ASSUME NEW d \in Ctx, ~dropped, Busy(d), ~stopped[d], Node(d) = Node(c) PROVE d = c
  <2>1. regLock[Node(d)] = d
    BY <1>4 DEF WorkInv
  <2>2. IsCurrent(d)
    BY <2>1, CtxFacts DEF LockInv, RegInv
  <2>3. d[2] = c[2]
    BY <1>4, <2>2 DEF IsCurrent
  <2>4. c = <<Node(c), c[2]>> /\ d = <<Node(d), d[2]>>
    BY CtxFacts
  <2> QED BY <1>4, <2>3, <2>4
<1>5. ASSUME NEW d \in Ctx, ~dropped, Busy(d)' /\ ~stopped'[d] PROVE regLock'[Node(d)] = d
  <2>1. d # c /\ Busy(d) /\ ~stopped[d]
    BY <1>2, <1>3, <1>5
  <2>2. Node(d) # Node(c) /\ regLock[Node(d)] = d
    BY <1>4, <1>5, <2>1 DEF WorkInv
  <2> QED BY <1>1, <2>2, CtxFacts DEF TypeOK
<1>6. ASSUME NEW d \in Ctx, ~dropped, Node(d) = Node(c) PROVE ~(running[d] > 0 /\ ~stopped'[d])
  BY <1>2, <1>3, <1>4, <1>6 DEF Busy
<1>7. \A d \in Ctx : Node(d) # Node(c) => stopped'[d] = stopped[d]
  BY <1>2
<1>8. WorkInv'
  BY <1>5 DEF WorkInv
<1> QED BY <1>6, <1>7, <1>8

\* What the JobManager does, and the death of its instance.
LEMMA WorkNodeStep ==
  ASSUME ClusterSetting, TypeOK, LockInv, WorkInv, NEW n \in Nodes, NodeStep(n)
  PROVE  WorkInv'
<1>1. CASE Boot(n) \/ UpdateLocks(n) \/  ExecPttl(n) \/ ExecStalledDel(n)
  <2>1. UNCHANGED <<acq, regLock, dropped, ref, orphans, running, stopped>>
    BY <1>1 DEF Boot, UpdateLocks, ExecPttl, ExecStalledDel, jobVars, lockVars, runVars, asyncVars
  <2> QED BY <2>1, WorkFrame
<1>2. CASE Scan(n)
  <2> DEFINE c == <<n, jobs[n]>>
  <2>1. /\ c \in Ctx /\ Node(c) = n /\ IsCurrent(c)
        /\ UNCHANGED <<regLock, dropped, ref, orphans, running, stopped>>
    BY <1>2, CtxFacts DEF Scan, Gens, IsCurrent, jobVars, lockVars, runVars, TypeOK
  <2>2. Placement(n) # "direct" /\ Placement(n) \in {"direct", "lock", "nowhere"}
    BY DEF Placement, ClusterSetting
  <2>3. PICK f \in Fibers :
           acq' = [acq EXCEPT ![c][f] =
                     IF Placement(n) = "lock" /\ regLock[n] = NoValue THEN "get" ELSE StartNext(c)]
    BY <1>2, Zenon DEF Scan
  <2>4. Placement(n) = "lock"
    BY <1>2, <2>2 DEF Scan
  <2>5. CASE regLock[n] = NoValue
    <3>1. acq' = [acq EXCEPT ![c][f] = "get"]
      BY <2>3, <2>4, <2>5
    <3> HIDE DEF c
    <3>2. \A d \in Ctx : Busy(d)' => Busy(d)
      <4>1. \A d \in Ctx, e \in Fibers :
               acq'[d][e] \in {"now", "later"} => acq'[d][e] = acq[d][e]
        BY <2>1, <3>1 DEF TypeOK
      <4> QED BY <2>1, <4>1, WorkIdle
    <3> QED BY <2>1, <3>2, WorkLess
  <2>6. CASE regLock[n] # NoValue
    <3>1. acq' = [acq EXCEPT ![c][f] = StartNext(c)]
      BY <2>3, <2>6
    <3>2. regLock[n] \in Ctx /\ Node(regLock[n]) = n /\ IsCurrent(regLock[n])
      BY <2>6 DEF LockInv, RegInv, TypeOK
    <3>3. regLock[n] = c
      BY <3>2, CtxFacts DEF IsCurrent
    <3> HIDE DEF c
    <3>4. \A d \in Ctx : d # c => (Busy(d)' <=> Busy(d))
      BY <2>1, <3>1, WorkStart
    <3> QED BY <2>1, <3>3, <3>4 DEF WorkInv
  <2> QED BY <2>5, <2>6
<1>3. ASSUME jobs[n] # 0 PROVE <<n, jobs[n]>> \in Ctx /\ IsCurrent(<<n, jobs[n]>>)
  BY <1>3, CtxFacts DEF Gens, IsCurrent, TypeOK
<1>4. CASE UnregisterJob(n)
  BY <1>3, <1>4, WorkStop DEF UnregisterJob
<1>5. CASE ReplaceJob(n)
  BY <1>3, <1>5, WorkStop, WorkFrame DEF ReplaceJob
<1>6. CASE Crash(n)
  <2>1. /\ regLock' = [regLock EXCEPT ![n] = NoValue] /\ UNCHANGED <<dropped, stopped>>
        /\ \A c \in Ctx : IF Node(c) = n
                          THEN orphans'[c] = 0 /\ running'[c] = 0 /\ ref'[c] = "none"
                          ELSE orphans'[c] = orphans[c] /\ running'[c] = running[c] /\ ref'[c] = ref[c]
    BY <1>6 DEF Crash
  <2>2. \A c \in Ctx, f \in Fibers :
           /\ acq'[c][f] \in {"idle", acq[c][f]}
           /\ Node(c) = n => acq'[c][f] \notin {"now", "later"}
    BY <1>6 DEF Crash, Lost, Writes
  <2>3. ASSUME NEW c \in Ctx, Busy(c)' PROVE Busy(c) /\ Node(c) # n
    BY <2>1, <2>2, <2>3 DEF Busy
  <2>4. \A c \in Ctx : Node(c) # n => regLock'[Node(c)] = regLock[Node(c)]
    BY <2>1, CtxFacts DEF TypeOK
  <2> QED BY <2>1, <2>3, <2>4, WorkLess
<1> QED BY <1>1, <1>2, <1>4, <1>5, <1>6 DEF NodeStep

\* Every step keeps the work under the registered lock.
LEMMA WorkStep == ClusterSetting /\ TypeOK /\ LockInv /\ WorkInv /\ [Next]_vars => WorkInv'
<1> SUFFICES ASSUME ClusterSetting, TypeOK, LockInv, WorkInv, [Next]_vars PROVE WorkInv'
  OBVIOUS
<1>1. CASE UNCHANGED vars
  BY <1>1, WorkFrame DEF vars, jobVars, lockVars, runVars, asyncVars
<1>2. CASE Expire
  BY <1>2, WorkFrame DEF Expire, jobVars, lockVars, runVars, asyncVars
<1> QED BY <1>1, <1>2, WorkContextStep, WorkNodeStep DEF Next

LEMMA WorkInit == Init => WorkInv
BY CtxFacts DEF Init, WorkInv, Busy

\* A job that takes the lock never runs on two instances, whatever scans overlap
\* and instances crash, unless unregisterLock threw a registered lock away.
THEOREM OneExecution == ClusterSetting => (Spec => []SingleExecution)
<1> SUFFICES ASSUME ClusterSetting PROVE Spec => []SingleExecution
  OBVIOUS
<1> DEFINE Inv == TypeOK /\ LockInv /\ WorkInv
<1>1. Init => Inv
  BY TypeInit, LockInit, WorkInit
<1>2. Inv /\ [Next]_vars => Inv'
  BY TypeStep, LockStep, WorkStep DEF ClusterSetting
<1>3. Inv => SingleExecution
  <2> SUFFICES ASSUME Inv, ~dropped, NEW m \in Nodes, NEW n \in Nodes, RunsOn(m), RunsOn(n) PROVE m = n
    BY DEF SingleExecution, RunMutex
  <2>1. PICK c \in Ctx : regLock[m] = c
    BY DEF RunsOn, WorkInv, Busy
  <2>2. PICK d \in Ctx : regLock[n] = d
    BY DEF RunsOn, WorkInv, Busy
  <2>3. lockVal = c /\ lockVal = d /\ Node(c) = m /\ Node(d) = n
    BY <2>1, <2>2, CtxFacts DEF LockInv, RegInv
  <2> QED BY <2>3
<1> QED BY <1>1, <1>2, <1>3, PTL DEF Spec

--------------------------------------------------------------------------------
(* The lock implements the promise of ClusterMutex.  The holder is the        *)
(* instance with a registered lock, so registering takes the job, stopping a  *)
(* context or losing the instance or the registered lock leaves it, a timer   *)
(* that fires starts an execution and its end finishes it; the rest is        *)
(* invisible, and so is everything once a registered lock was thrown away.    *)

\* The holder that a registeredLocks map of every instance names.
HolderOf(lock) ==
    IF \E n \in Nodes : lock[n] # NoValue
    THEN CHOOSE n \in Nodes : lock[n] # NoValue
    ELSE NoValue

\* When one instance at most has a registered lock, it is the holder.
LEMMA HolderFacts ==
  ASSUME NEW lock, \A m, n \in Nodes : lock[m] # NoValue /\ lock[n] # NoValue => m = n
  PROVE  /\ \A n \in Nodes : lock[n] # NoValue => HolderOf(lock) = n
         /\ (\A n \in Nodes : lock[n] = NoValue) => HolderOf(lock) = NoValue
BY DEF HolderOf

\* Until a lock is thrown away the holder is read off the registered locks.
LEMMA HolderIs ==
  /\ ~dropped => Holder = HolderOf(regLock)
  /\ ~dropped' => Holder' = HolderOf(regLock')
  /\ dropped => Holder = NoValue /\ Active = {}
  /\ dropped' => Holder' = NoValue /\ Active' = {}
BY DEF Holder, HolderOf, Active

\* Where executions still count, and what one that does not run on n counts.
LEMMA ActiveFacts ==
  /\ ~dropped => \A n \in Nodes : n \in Active <=> RunsOn(n)
  /\ ~dropped' => \A n \in Nodes : n \in Active' <=> RunsOn(n)'
  /\ Active \subseteq Nodes /\ Active' \subseteq Nodes
BY DEF Active

\* Steps that change neither the registered locks nor the executions.
LEMMA AbstractStutter ==
  ASSUME UNCHANGED <<regLock, running, stopped>>, ~dropped, ~dropped'
  PROVE  UNCHANGED Abstract!vars
<1>1. Holder' = Holder
  BY HolderIs
<1>2. Active' = Active
  BY ActiveFacts DEF RunsOn
<1> QED BY <1>1, <1>2 DEF Abstract!vars

\* Executions that count run where the lock is registered.
LEMMA WorkWhere ==
  ASSUME WorkInv, ~dropped, NEW n \in Nodes, RunsOn(n)
  PROVE  regLock[n] # NoValue
BY CtxFacts DEF RunsOn, WorkInv, Busy

\* An instance that loses its registered lock leaves, if it had one.
LEMMA AbstractLeave ==
  ASSUME TypeOK, LockMutex, WorkInv, NEW n \in Nodes, ~dropped, ~dropped',
         regLock' = [regLock EXCEPT ![n] = NoValue],
         \A c \in Ctx : Node(c) = n => ~(running'[c] > 0 /\ ~stopped'[c]),
         \A c \in Ctx : Node(c) # n => running'[c] = running[c] /\ stopped'[c] = stopped[c]
  PROVE  Abstract!Leave(n) \/ UNCHANGED Abstract!vars
<1>1. Holder = HolderOf(regLock) /\ Holder' = HolderOf(regLock')
  BY HolderIs
<1>2. \A m \in Nodes : regLock'[m] = (IF m = n THEN NoValue ELSE regLock[m])
  BY DEF TypeOK
<1>3. n \notin Active' /\ \A m \in Nodes \ {n} : m \in Active' <=> m \in Active
  BY ActiveFacts DEF RunsOn
<1>4. CASE regLock[n] # NoValue
  <2>1. \A m \in Nodes : regLock'[m] = NoValue
    BY <1>2, <1>4 DEF LockMutex
  <2>2. Holder = n /\ Holder' = NoValue
    BY <1>1, <1>4, <2>1, HolderFacts DEF LockMutex
  <2>3. Active' = Active \ {n}
    BY <1>3, ActiveFacts
  <2> QED BY <2>2, <2>3 DEF Abstract!Leave
<1>5. CASE regLock[n] = NoValue
  <2>1. regLock' = regLock
    BY <1>5 DEF TypeOK
  <2>2. n \notin Active
    BY <1>5, ActiveFacts, WorkWhere
  <2>3. Active' = Active
    BY <1>3, <2>2, ActiveFacts
  <2> QED BY <1>1, <2>1, <2>3 DEF Abstract!vars
<1> QED BY <1>4, <1>5

\* The lock that a scan throws away: its instance leaves.
LEMMA AbstractDrop ==
  ASSUME LockInv, WorkInv, LockMutex, NEW n \in Nodes, regLock[n] # NoValue, ~dropped, dropped'
  PROVE  Abstract!Leave(n)
<1>1. Holder = n /\ Holder' = NoValue /\ Active' = {}
  BY HolderIs, HolderFacts DEF LockMutex
<1>2. Active \subseteq {n}
  BY ActiveFacts, WorkWhere DEF LockMutex
<1> QED BY <1>1, <1>2 DEF Abstract!Leave

\* Only an unregisterLock throws a lock away.
LEMMA DroppedStays ==
  ASSUME [Next]_vars, ~\E c \in Ctx, f \in Fibers : HandleOther(c, f)
  PROVE  dropped' = dropped
<1> USE DEF jobVars, lockVars, runVars, asyncVars, storeVars
<1>1. ASSUME NEW c \in Ctx, ContextStep(c) PROVE dropped' = dropped
  <2>1. ASSUME NEW f \in Fibers, Acquisition(c, f) \/ SetRef(c, f) PROVE dropped' = dropped
    BY <2>1 DEF Acquisition, ExecGet, ExecSetnx, ExecPexpire, ExecCheck, HandleMine, SetRef
  <2> QED BY <1>1, <2>1 DEF ContextStep, Fire, JobEnds, ExecRenewGet, ExecRenewSet,
             ExecReleaseGet, ExecReleaseDel
<1>2. ASSUME NEW n \in Nodes, NodeStep(n) PROVE dropped' = dropped
  BY <1>2 DEF NodeStep, Boot, Scan, UpdateLocks, ExecPttl, ExecStalledDel,
     UnregisterJob, ReplaceJob, Crash
<1> QED BY <1>1, <1>2 DEF Next, Expire, vars

\* Before a registered lock is thrown away, every step is one of the abstract
\* steps, or none.
LEMMA AbstractStep ==
  ASSUME ClusterSetting, TypeOK, LockInv, WorkInv, LockMutex, [Next]_vars, ~dropped, ~dropped'
  PROVE  [Abstract!Next]_Abstract!vars
<1> USE CtxFacts
<1>0. Holder = HolderOf(regLock) /\ Holder' = HolderOf(regLock')
  BY HolderIs
<1>1. ASSUME NEW c \in Ctx, NEW f \in Fibers, HandleMine(c, f)
      PROVE  Abstract!Take(Node(c)) \/ UNCHANGED Abstract!vars
  <2>1. /\ acq[c][f] = "mine"
        /\ UNCHANGED <<dropped, running, stopped>>
        /\ regLock' = [regLock EXCEPT ![Node(c)] = IF @ = NoValue THEN c ELSE @]
    BY <1>1 DEF HandleMine, jobVars, runVars
  <2>2. lockVal = c
    BY <2>1 DEF LockInv, AcqInv
  <2>3. CASE regLock[Node(c)] # NoValue
    <3>1. regLock' = regLock
      BY <2>1, <2>3 DEF TypeOK
    <3> QED BY <2>1, <3>1, AbstractStutter
  <2>4. CASE regLock[Node(c)] = NoValue
    <3>1. \A n \in Nodes : regLock[n] = NoValue
      BY <2>2, <2>4 DEF LockInv, RegInv
    <3>2. regLock'[Node(c)] = c /\ \A n \in Nodes : n # Node(c) => regLock'[n] = NoValue
      BY <2>1, <3>1 DEF TypeOK
    <3>3. Holder = NoValue
      BY <1>0, <3>1, HolderFacts
    <3>4. Holder' = Node(c)
      BY <1>0, <3>2, HolderFacts
    <3>5. Active' = Active
      BY <2>1 DEF Active, RunsOn
    <3> QED BY <3>3, <3>4, <3>5 DEF Abstract!Take
  <2> QED BY <2>3, <2>4
<1>2. ASSUME NEW c \in Ctx, NEW f \in Fibers,
             \/ ExecGet(c, f) \/ ExecSetnx(c, f) \/ ExecPexpire(c, f) \/ ExecCheck(c, f)
             \/ HandleOther(c, f) \/ SetRef(c, f)
      PROVE  UNCHANGED Abstract!vars
  <2>1. UNCHANGED <<running, stopped>>
    BY <1>2 DEF ExecGet, ExecSetnx, ExecPexpire, ExecCheck, HandleOther, SetRef,
       jobVars, lockVars, runVars
  <2>2. CASE HandleOther(c, f)
    <3>1. regLock[Node(c)] = NoValue
      BY <2>2, Zenon DEF HandleOther
    <3>2. regLock' = regLock
      BY <2>2, <3>1 DEF HandleOther, TypeOK
    <3> QED BY <2>1, <3>2, AbstractStutter
  <2>3. CASE ~HandleOther(c, f)
    <3>1. regLock' = regLock
      BY <1>2, <2>3 DEF ExecGet, ExecSetnx, ExecPexpire, ExecCheck, SetRef, lockVars
    <3> QED BY <2>1, <3>1, AbstractStutter
  <2> QED BY <2>2, <2>3
<1>3. ASSUME NEW c \in Ctx, Fire(c) PROVE Abstract!Start(Node(c)) \/ UNCHANGED Abstract!vars
  <2>1. /\ UNCHANGED <<regLock, dropped, stopped>> /\ Busy(c)
        /\ running' = [running EXCEPT ![c] = IF stopped[c] THEN @ ELSE @ + 1]
    BY <1>3 DEF Fire, Busy, jobVars, lockVars
  <2>2. CASE stopped[c]
    <3>1. running' = running
      BY <2>1, <2>2 DEF TypeOK
    <3> QED BY <2>1, <3>1, AbstractStutter
  <2>3. CASE ~stopped[c]
    <3>1. regLock[Node(c)] = c
      BY <2>1, <2>3 DEF WorkInv
    <3>2. Holder = Node(c) /\ Holder' = Holder
      BY <1>0, <2>1, <3>1, HolderFacts DEF LockMutex
    <3>3. running'[c] > 0 /\ \A d \in Ctx : d # c => running'[d] = running[d]
      BY <2>1, <2>3, JobLockAssumption DEF TypeOK
    <3>4. Node(c) \in Active' /\ \A n \in Nodes : n # Node(c) => (n \in Active' <=> n \in Active)
      BY <2>1, <2>3, <3>3, ActiveFacts DEF RunsOn
    <3>5. Active' = Active \cup {Node(c)}
      BY <3>4, ActiveFacts
    <3> QED BY <3>2, <3>5 DEF Abstract!Start
  <2> QED BY <2>2, <2>3
<1>4. ASSUME NEW c \in Ctx, JobEnds(c) PROVE Abstract!Finish(Node(c)) \/ UNCHANGED Abstract!vars
  <2>1. /\ UNCHANGED regLock /\ running[c] > 0
        /\ \A d \in Ctx : d # c => running'[d] = running[d] /\ stopped'[d] = stopped[d]
        /\ stopped[c] => stopped'[c]
    BY <1>4 DEF JobEnds, lockVars, TypeOK
  <2>2. Holder' = Holder
    BY <1>0, <2>1
  <2>3. \A n \in Nodes : n # Node(c) => (n \in Active' <=> n \in Active)
    BY <2>1, ActiveFacts DEF RunsOn
  <2>4. Node(c) \in Active' => Node(c) \in Active
    BY <2>1, ActiveFacts DEF RunsOn
  <2>5. Active' = Active \/ Active' = Active \ {Node(c)}
    BY <2>3, <2>4, ActiveFacts
  <2> QED BY <2>2, <2>5 DEF Abstract!Finish, Abstract!vars
<1>5. ASSUME NEW c \in Ctx, ExecRenewGet(c) \/ ExecRenewSet(c) \/ ExecReleaseGet(c) \/ ExecReleaseDel(c)
      PROVE  UNCHANGED Abstract!vars
  BY <1>5, AbstractStutter DEF ExecRenewGet, ExecRenewSet, ExecReleaseGet, ExecReleaseDel,
     jobVars, lockVars, runVars
<1>6. ASSUME NEW n \in Nodes, NodeStep(n) PROVE Abstract!Leave(n) \/ UNCHANGED Abstract!vars
  <2>1. CASE \/ Boot(n) \/ Scan(n) \/ UpdateLocks(n) \/  ExecPttl(n) \/ ExecStalledDel(n)
             \/ ReplaceJob(n) /\ jobs[n] = 0
    <3>1. UNCHANGED <<regLock, dropped, running, stopped>>
      BY <2>1 DEF Boot, Scan, UpdateLocks, ExecPttl, ExecStalledDel,
         ReplaceJob, jobVars, lockVars, runVars
    <3> QED BY <3>1, AbstractStutter
  <2>2. CASE UnregisterJob(n) \/ (ReplaceJob(n) /\ jobs[n] # 0)
    <3> DEFINE c == <<n, jobs[n]>>
    <3>1. /\ jobs[n] # 0 /\ StopContext(c) /\ UNCHANGED <<acq, dropped, orphans, running>>
      BY <2>2 DEF UnregisterJob, ReplaceJob
    <3>2. c \in Ctx /\ IsCurrent(c) /\ Node(c) = n
      BY <3>1 DEF Gens, IsCurrent, TypeOK
    <3> HIDE DEF c
    <3>3. /\ \A d \in Ctx : Node(d) = n => ~(running[d] > 0 /\ ~stopped'[d])
          /\ \A d \in Ctx : Node(d) # n => stopped'[d] = stopped[d]
      BY <3>1, <3>2, WorkStop
    <3>4. regLock' = [regLock EXCEPT ![n] = NoValue]
      BY <3>1, <3>2 DEF StopContext
    <3> QED BY <3>1, <3>3, <3>4, AbstractLeave
  <2>3. CASE Crash(n)
    <3>1. /\ regLock' = [regLock EXCEPT ![n] = NoValue] /\ stopped' = stopped
          /\ \A c \in Ctx : running'[c] = (IF Node(c) = n THEN 0 ELSE running[c])
      BY <2>3 DEF Crash
    <3>2. \A c \in Ctx : Node(c) = n => ~(running'[c] > 0 /\ ~stopped'[c])
      BY <3>1
    <3>3. \A c \in Ctx : Node(c) # n => running'[c] = running[c] /\ stopped'[c] = stopped[c]
      BY <3>1
    <3> QED BY <3>1, <3>2, <3>3, AbstractLeave
  <2> QED BY <1>6, <2>1, <2>2, <2>3 DEF NodeStep
<1>7. CASE Expire
  BY <1>7, AbstractStutter DEF Expire, jobVars, lockVars, runVars
<1>8. CASE UNCHANGED vars
  BY <1>8, AbstractStutter DEF vars, jobVars, lockVars, runVars
<1>9. ASSUME NEW c \in Ctx, ContextStep(c) PROVE [Abstract!Next]_Abstract!vars
  BY <1>1, <1>2, <1>3, <1>4, <1>5, <1>9 DEF ContextStep, Acquisition, Abstract!Next
<1>10. ASSUME NEW n \in Nodes, NodeStep(n) PROVE [Abstract!Next]_Abstract!vars
  BY <1>6, <1>10 DEF Abstract!Next
<1> QED BY <1>7, <1>8, <1>9, <1>10 DEF Next

\* Nobody holds or runs the job at first.
LEMMA AbstractInit == Init => Abstract!Init
<1> SUFFICES ASSUME Init PROVE Holder = NoValue /\ Active = {}
  BY DEF Abstract!Init
<1> QED BY CtxFacts DEF Init, Holder, Active, RunsOn

\* The lock in the datastore keeps the promise of
\* JobInstantiation.OneInstancePerOtoroshiCluster, however many scans overlap,
\* until one of them throws away the lock that another registered.
THEOREM LockImplementsMutex == ClusterSetting => (Spec => ImplementsMutex)
<1> SUFFICES ASSUME ClusterSetting PROVE Spec => ImplementsMutex
  OBVIOUS
<1> DEFINE Inv == TypeOK /\ LockInv /\ WorkInv
<1>1. Init => Inv
  BY TypeInit, LockInit, WorkInit
<1>2. Inv /\ [Next]_vars => Inv'
  BY TypeStep, LockStep, WorkStep DEF ClusterSetting
<1>3. Inv => LockMutex
  BY DEF TypeOK, LockInv, RegInv, LockMutex
<1>4. Inv /\ [Next]_vars => [Abstract!Next]_Abstract!vars
  <2> SUFFICES ASSUME Inv, [Next]_vars PROVE [Abstract!Next]_Abstract!vars
    OBVIOUS
  <2>1. CASE dropped = dropped' /\ dropped
    BY <2>1, HolderIs, Zenon DEF Abstract!vars
  <2>2. CASE ~dropped /\ ~dropped'
    BY <1>3, <2>2, AbstractStep
  <2>3. ASSUME NEW c \in Ctx, NEW f \in Fibers, HandleOther(c, f), dropped'
        PROVE  [Abstract!Next]_Abstract!vars
    <3>1. dropped' = (dropped \/ regLock[Node(c)] # NoValue)
      BY <2>3 DEF HandleOther
    <3>2. CASE dropped
      BY <2>3, <3>2, HolderIs, Zenon DEF Abstract!vars
    <3>3. CASE ~dropped
      BY <1>3, <2>3, <3>1, <3>3, AbstractDrop, CtxFacts, Zenon DEF Abstract!Next
    <3> QED BY <3>2, <3>3
  <2>4. CASE \E c \in Ctx, f \in Fibers : HandleOther(c, f)
    <3>1. dropped => dropped'
      BY <2>4, Zenon DEF HandleOther
    <3> QED BY <2>2, <2>3, <2>4, <3>1
  <2>5. CASE ~\E c \in Ctx, f \in Fibers : HandleOther(c, f)
    BY <2>1, <2>2, <2>5, DroppedStays
  <2> QED BY <2>4, <2>5
<1> QED BY <1>1, <1>2, <1>4, AbstractInit, PTL DEF Spec, ImplementsMutex, Abstract!Spec
================================================================================
