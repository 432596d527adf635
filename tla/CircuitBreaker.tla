----------------------------- MODULE CircuitBreaker -----------------------------
(***************************************************************************)
(* How a request reaches a backend: Timeout.failAfter, Retry and           *)
(* ServiceDescriptorCircuitBreaker (chooseTargetNg, callGenNg) of          *)
(* otoroshi/app/gateway/circuitbreakers.scala, as callTarget of            *)
(* next/proxy/engine.scala uses them.                                      *)
(*                                                                         *)
(* The attempts of a request follow one another; those of two requests     *)
(* interleave, and look at the same map of breakers, one breaker per host. *)
(* Whoever waits may give up before the work is over: a call that timed    *)
(* out goes on at the backend and may still read the body of the request,  *)
(* and the retries of a request that was answered by the global timeout    *)
(* are not cancelled.                                                      *)
(*                                                                         *)
(* Left out: the load balancing strategy, which is any choice within the   *)
(* group, the targets whose predicate does not match, and a target set by  *)
(* a plugin, which is called through a breaker of its own.                 *)
(***************************************************************************)
EXTENDS Naturals, FiniteSetsExt

CONSTANTS
    Requests,
    Hosts,        \* hosts of the targets of one route
    Primary,      \* those that are not backups
    Weight,       \* how many times a host stands in the list to choose from
    Retries,      \* clientConfig.retries
    MaxErrors,    \* clientConfig.maxErrors
    None,         \* no breaker, no host, no answer
    MaxChanges    \* bound: resets, new configurations and health checks

ASSUME BreakerAssumption ==
    /\ Primary \subseteq Hosts
    /\ Weight \in [Hosts -> Nat \ {0}]
    /\ Retries \in Nat
    /\ MaxErrors \in Nat \ {0}
    /\ MaxChanges \in Nat
    /\ None \notin Hosts \cup {"response", "timeout", "error"}

VARIABLES
    breakers,   \* the map: the breaker of a host, or None
    badHealth,  \* hosts that the health check disabled
    version,    \* version of the client configuration of the route
    at,         \* where a request stands in callGenNg
    times,      \* attempts left to Retry, the one in progress included
    config,     \* the version of the configuration that a request carries
    target,     \* the host chosen for the attempt
    answer,     \* what the promise of failAfter was completed with
    calls,      \* calls at a backend that their request waits for
    body,       \* of a request: "read" is bodyAlreadyConsumed, "exposed" is not yet
                \* read but within reach of a call that timed out and still runs
    changes     \* resets, new configurations and health checks so far

requestVars == <<at, times, config, target, answer>>
vars == <<breakers, badHealth, version, requestVars, calls, body, changes>>

(* An attempt builds at most one breaker, to which it gives its name. *)
Attempts == Requests \X (1 .. Retries)

Steps   == {"new", "attempt", "lookup", "build", "call", "calling", "done"}
Answers == {None, "response", "timeout", "error"}

NewBreaker(k, v) == [id |-> k, state |-> "closed", fails |-> 0, probing |-> FALSE, config |-> v]

(* The number that f of Retry.retry is called with. *)
AttemptOf(r) == <<r, Retries - times[r] + 1>>

-------------------------------------------------------------------------------
(* The circuit breaker of Pekko.  A call reports its end to the state that  *)
(* let it through: the late end of a call of the closed breaker counts only  *)
(* if the breaker is closed again.                                           *)

LetsThrough(b) == b.state = "closed" \/ (b.state = "half" /\ ~b.probing)

Entered(b) == IF b.state = "half" THEN [b EXCEPT !.probing = TRUE] ELSE b

Succeeded(b, via) ==
    IF via = "half" THEN [b EXCEPT !.state = "closed", !.probing = FALSE]
                    ELSE [b EXCEPT !.fails = 0]

Failed(b, via) ==
    IF via = "half" THEN [b EXCEPT !.state = "open", !.probing = FALSE]
    ELSE IF b.state # "closed" THEN b
    ELSE IF b.fails + 1 = MaxErrors THEN [b EXCEPT !.state = "open", !.fails = 0]
    ELSE [b EXCEPT !.fails = @ + 1]

(* The end of a call.  Nobody sees a breaker that is no longer in the map. *)
Reports(c, ok) ==
    breakers' = [h \in Hosts |->
        IF breakers[h] # None /\ breakers[h].id = c.breaker
        THEN IF ok THEN Succeeded(breakers[h], c.via) ELSE Failed(breakers[h], c.via)
        ELSE breakers[h]]

(* resetTimeout after it opened, a breaker lets one call through. *)
HalfOpen(h) ==
    /\ breakers[h] # None
    /\ breakers[h].state = "open"
    /\ breakers' = [breakers EXCEPT ![h].state = "half"]
    /\ UNCHANGED <<badHealth, version, requestVars, calls, body, changes>>

-------------------------------------------------------------------------------
(* The ends of an attempt, seen by Retry. *)

\* Mutant: a failed attempt fails the promise at once, and is retried.
AttemptFails_Answers(r) ==
    /\ times' = [times EXCEPT ![r] = @ - 1]
    /\ at' = [at EXCEPT ![r] = "attempt"]
    /\ answer' = [answer EXCEPT ![r] = IF @ = None THEN "error" ELSE @]

(* onComplete Failure: retryPromise again, at once or after the delay. *)
AttemptFails(r) ==
    /\ times' = [times EXCEPT ![r] = @ - 1]
    /\ at' = [at EXCEPT ![r] = "attempt"]
    /\ UNCHANGED answer

(* The promise of Retry completes; failAfter passes it on if it is first. *)
Completes(r, a) ==
    /\ at' = [at EXCEPT ![r] = "done"]
    /\ answer' = [answer EXCEPT ![r] = IF @ = None THEN a ELSE @]
    /\ body' = [body EXCEPT ![r] = "over"]
    /\ UNCHANGED times

-------------------------------------------------------------------------------
Init ==
    /\ breakers = [h \in Hosts |-> None]
    /\ badHealth = {}
    /\ version = 0
    /\ at = [r \in Requests |-> "new"]
    /\ times = [r \in Requests |-> Retries]
    /\ config = [r \in Requests |-> 0]
    /\ target = [r \in Requests |-> None]
    /\ answer = [r \in Requests |-> None]
    /\ calls = {}
    /\ body = [r \in Requests |-> "kept"]
    /\ changes = 0

(* callTarget: the timer of failAfter starts, then Retry.retry. *)
Arrive(r) ==
    /\ at[r] = "new"
    /\ at' = [at EXCEPT ![r] = "attempt"]
    /\ config' = [config EXCEPT ![r] = version]
    /\ UNCHANGED <<breakers, badHealth, version, times, target, answer,
                   calls, body, changes>>

(* The timer of failAfter: it completes the promise, and stops nothing. *)
GlobalTimeout(r) ==
    /\ at[r] # "new"
    /\ answer[r] = None
    /\ answer' = [answer EXCEPT ![r] = "timeout"]
    /\ UNCHANGED <<breakers, badHealth, version, at, times, config, target,
                   calls, body, changes>>

IsOpen(h) == breakers[h] # None /\ breakers[h].state = "open"

Eligible == {h \in Hosts : h \notin badHealth /\ ~IsOpen(h)}

(* The backups come after as many attempts as there are eligible primary     *)
(* targets, each counted as many times as it weighs.                         *)
Group(attempt) ==
    LET primaries == Eligible \cap Primary
        backups   == Eligible \ Primary
    IN  IF \/ backups = {}
           \/ primaries # {} /\ attempt <= MapThenSumSet(LAMBDA h : Weight[h], primaries)
        THEN primaries
        ELSE backups

\* Mutant: the consumed body is looked at before the attempts that are left.
Attempt_BodyFirst(r) ==
    /\ at[r] = "attempt"
    /\ \/ /\ body[r] = "read"
          /\ AttemptFails(r)
          /\ UNCHANGED <<target, body>>
       \/ body[r] # "read" /\ times[r] = 0 /\ Completes(r, "error") /\ UNCHANGED target
       \/ /\ body[r] # "read"
          /\ times[r] > 0
          /\ \E h \in Group(AttemptOf(r)[2]) : target' = [target EXCEPT ![r] = h]
          /\ at' = [at EXCEPT ![r] = "lookup"]
          /\ UNCHANGED <<times, answer, body>>
    /\ UNCHANGED <<breakers, badHealth, version, config, calls, changes>>

(* retryPromise gives up when no attempt is left.  The attempt fails when an  *)
(* earlier one consumed the body or when no target is left to choose from,    *)
(* and else chooseTargetNg selects one.                                       *)
Attempt(r) ==
    /\ at[r] = "attempt"
    /\ \/ times[r] = 0 /\ Completes(r, "error") /\ UNCHANGED target
       \/ /\ times[r] > 0
          /\ body[r] = "read" \/ Eligible = {}
          /\ AttemptFails(r)
          /\ UNCHANGED <<target, body>>
       \/ /\ times[r] > 0
          /\ body[r] # "read"
          /\ \E h \in Group(AttemptOf(r)[2]) : target' = [target EXCEPT ![r] = h]
          /\ at' = [at EXCEPT ![r] = "lookup"]
          /\ UNCHANGED <<times, answer, body>>
    /\ UNCHANGED <<breakers, badHealth, version, config, calls, changes>>

\* Mutant: the breaker is compared with the configuration of the route as it is now.
NeedsBreaker_CurrentConfig(r) ==
    LET b == breakers[target[r]]
    IN  b = None \/ b.config # version

(* Is the breaker of the host missing, or built from another configuration? *)
NeedsBreaker(r) ==
    LET b == breakers[target[r]]
    IN  b = None \/ b.config # config[r]

Lookup(r) ==
    /\ at[r] = "lookup"
    /\ at' = [at EXCEPT ![r] = IF NeedsBreaker(r) THEN "build" ELSE "call"]
    /\ UNCHANGED <<breakers, badHealth, version, times, config, target, answer,
                   calls, body, changes>>

(* buildBreaker: the new breaker is put whatever the map holds by now. *)
Build(r) ==
    /\ at[r] = "build"
    /\ breakers' = [breakers EXCEPT ![target[r]] = NewBreaker(AttemptOf(r), config[r])]
    /\ at' = [at EXCEPT ![r] = "call"]
    /\ UNCHANGED <<badHealth, version, times, config, target, answer, calls, body,
                   changes>>

\* Mutant: the exception of breakers.apply does not fail the promise.
Call_Swallowed(r) ==
    LET b == breakers[target[r]]
    IN  /\ at[r] = "call"
        /\ \/ b = None /\ at' = [at EXCEPT ![r] = "done"]
              /\ UNCHANGED <<times, answer, body, breakers, calls>>
           \/ b # None /\ ~LetsThrough(b) /\ AttemptFails(r) /\ UNCHANGED <<breakers, calls, body>>
           \/ /\ b # None
              /\ LetsThrough(b)
              /\ breakers' = [breakers EXCEPT ![target[r]] = Entered(b)]
              /\ calls' = calls \cup {[id |-> AttemptOf(r), breaker |-> b.id, via |-> b.state]}
              /\ at' = [at EXCEPT ![r] = "calling"]
              /\ UNCHANGED <<times, answer, body>>
        /\ target' = [target EXCEPT ![r] = None]
        /\ UNCHANGED <<badHealth, version, config, changes>>

(* breakers.apply throws when a reset emptied the map in between, which       *)
(* retryPromise turns into the failure of the request, whatever is left.      *)
(* Else withCircuitBreaker starts the call, or refuses it.                    *)
Call(r) ==
    LET b == breakers[target[r]]
    IN  /\ at[r] = "call"
        /\ \/ b = None /\ Completes(r, "error") /\ UNCHANGED <<breakers, calls>>
           \/ b # None /\ ~LetsThrough(b) /\ AttemptFails(r) /\ UNCHANGED <<breakers, calls, body>>
           \/ /\ b # None
              /\ LetsThrough(b)
              /\ breakers' = [breakers EXCEPT ![target[r]] = Entered(b)]
              /\ calls' = calls \cup {[id |-> AttemptOf(r), breaker |-> b.id, via |-> b.state]}
              /\ at' = [at EXCEPT ![r] = "calling"]
              /\ UNCHANGED <<times, answer, body>>
        /\ target' = [target EXCEPT ![r] = None]
        /\ UNCHANGED <<badHealth, version, config, changes>>

(* A backend reads the body of a request, maybe after the call timed out. *)
Consume(r) ==
    /\ at[r] = "calling" \/ body[r] = "exposed"
    /\ body' = [body EXCEPT ![r] = "read"]
    /\ UNCHANGED <<breakers, badHealth, version, requestVars, calls, changes>>

(* The backend answers, or the connection fails. *)
CallEnds(c, ok) ==
    /\ calls' = calls \ {c}
    /\ Reports(c, ok)
    /\ IF ok THEN Completes(c.id[1], "response") ELSE AttemptFails(c.id[1]) /\ UNCHANGED body
    /\ UNCHANGED <<badHealth, version, config, target, changes>>

\* Mutant: the call that timed out is still awaited.
CallTimeout_KeepsWaiting(c) ==
    /\ Reports(c, FALSE)
    /\ AttemptFails(c.id[1])
    /\ UNCHANGED <<badHealth, version, config, target, body, calls, changes>>

(* callTimeout: a failure for the breaker and for Retry.  The call goes on;   *)
(* its end changes nothing, so it is left as if it ran forever.               *)
CallTimeout(c) ==
    LET r == c.id[1]
    IN  /\ calls' = calls \ {c}
        /\ Reports(c, FALSE)
        /\ AttemptFails(r)
        /\ body' = [body EXCEPT ![r] = IF @ = "kept" THEN "exposed" ELSE @]
        /\ UNCHANGED <<badHealth, version, config, target, changes>>

(* resetCircuitBreakersFor, from the admin UI. *)
Reset ==
    /\ breakers' = [h \in Hosts |-> None]
    /\ UNCHANGED <<badHealth, version>>

(* A new client configuration of the route; a request keeps the one it has. *)
Update ==
    /\ version' = version + 1
    /\ UNCHANGED <<breakers, badHealth>>

(* The health check: a target goes in or out when its answer comes, and the  *)
(* reload of the cache empties the set before it fills it again.             *)
HealthAnswer(h) ==
    /\ badHealth' \in {badHealth \cup {h}, badHealth \ {h}}
    /\ UNCHANGED <<breakers, version>>

HealthClear ==
    /\ badHealth' = {}
    /\ UNCHANGED <<breakers, version>>

Change ==
    /\ changes < MaxChanges
    /\ changes' = changes + 1
    /\ Reset \/ Update \/ HealthClear \/ \E h \in Hosts : HealthAnswer(h)
    /\ UNCHANGED <<requestVars, calls, body>>

RequestStep(r) ==
    Attempt(r) \/ Lookup(r) \/ Build(r) \/ Call(r)

Next ==
    \/ \E r \in Requests : Arrive(r) \/ GlobalTimeout(r) \/ RequestStep(r) \/ Consume(r)
    \/ \E c \in calls : CallTimeout(c) \/ \E ok \in BOOLEAN : CallEnds(c, ok)
    \/ \E h \in Hosts : HalfOpen(h)
    \/ Change

(* Threads run and the timers of calls fire.  Nothing is asked of the        *)
(* backends, nor of the global timer.                                        *)
Fairness ==
    \A r \in Requests :
        /\ WF_vars(RequestStep(r))
        /\ WF_vars(\E c \in calls : c.id[1] = r /\ CallTimeout(c))

Spec     == Init /\ [][Next]_vars
FairSpec == Spec /\ Fairness

-------------------------------------------------------------------------------
Breaker == [id : Attempts, state : {"closed", "open", "half"}, fails : Nat,
            probing : BOOLEAN, config : Nat]

Waited == [id : Attempts, breaker : Attempts, via : {"closed", "half"}]

(* Types. *)
TypeOK ==
    /\ breakers \in [Hosts -> Breaker \cup {None}]
    /\ badHealth \subseteq Hosts
    /\ version \in Nat
    /\ at \in [Requests -> Steps]
    /\ times \in [Requests -> 0 .. Retries]
    /\ config \in [Requests -> Nat]
    /\ target \in [Requests -> Hosts \cup {None}]
    /\ answer \in [Requests -> Answers]
    /\ calls \subseteq Waited
    /\ body \in [Requests -> {"kept", "exposed", "read", "over"}]
    /\ changes \in Nat

(* callGenNg: whatever times out, a request waits for one call at most, that  *)
(* of its current attempt, and for one whenever it is in an attempt.          *)
OneAwaitedCall ==
    /\ \A c \in calls : at[c.id[1]] = "calling" /\ c.id = AttemptOf(c.id[1])
    /\ \A r \in Requests : at[r] = "calling" => \E c \in calls : c.id[1] = r
    /\ \A c, d \in calls : c.id = d.id => c = d

(* Retry and failAfter: the client reads an error only once no attempt of its *)
(* request is left and no call can still answer it, a response only once the  *)
(* attempt that made it was the last; only the global timeout is answered     *)
(* while attempts go on.                                                      *)
AnsweredAtTheEnd ==
    \A r \in Requests :
        /\ answer[r] \in {"response", "error"} => at[r] = "done"
        /\ at[r] = "done" => answer[r] # None

(* A breaker that is replaced was built by another request. *)
ReplacesOthersOnly ==
    \A h \in Hosts :
        breakers[h] # None /\ breakers'[h] # None /\ breakers'[h].id # breakers[h].id
        => breakers'[h].id[1] # breakers[h].id[1]

(* chooseTargetNg: two requests that find no breaker both build one, and the  *)
(* second wipes out what the first one counted; so do two requests with       *)
(* different configurations.  But a request never wipes out the breaker that  *)
(* it built itself: its failed attempts are not forgotten by its own retries. *)
KeepsItsOwn == [][ReplacesOthersOnly]_vars

(* A request is answered even if the global timer never fires and backends    *)
(* never answer: every attempt ends by the timeout of its call, and there are *)
(* finitely many.                                                             *)
EventuallyAnswered ==
    \A r \in Requests : at[r] = "attempt" ~> answer[r] # None

(* docs/topics/circuit-breaker.md on globalTimeout: no attempt starts once    *)
(* the request was answered by the global timeout, even if retries remain.    *)
NoAttemptAfterTimeout ==
    [][\A r \in Requests :
         answer[r] = "timeout" => ~ \E c \in calls' \ calls : c.id[1] = r]_vars
================================================================================
