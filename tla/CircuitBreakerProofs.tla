-------------------------- MODULE CircuitBreakerProofs --------------------------
(***************************************************************************)
(* Proofs about CircuitBreaker, for every number of requests, hosts and    *)
(* retries, every weight and every threshold: types are respected, a       *)
(* request waits for one call at most, it is answered when no attempt is   *)
(* left, and it never replaces the breaker that it built.                  *)
(***************************************************************************)
EXTENDS CircuitBreaker, TLAPS

\* The steps of an attempt, and those during which its host is chosen.
InAttempt == {"lookup", "build", "call", "calling"}
Chosen    == {"lookup", "build", "call"}

\* An attempt in progress is one of those that are left and has its host; the
\* call in progress is that of the attempt.
Control ==
    /\ \A r \in Requests : at[r] \in InAttempt => times[r] > 0
    /\ \A r \in Requests : at[r] \in Chosen => target[r] \in Hosts
    /\ OneAwaitedCall

TypeInv == TypeOK /\ Control

\* The number of an attempt in progress is one of those that Retry counts.
LEMMA AttemptType ==
  TypeInv => \A r \in Requests : at[r] \in InAttempt => AttemptOf(r) \in Attempts
BY BreakerAssumption DEF TypeInv, TypeOK, Control, InAttempt, AttemptOf, Attempts

\* A target is one of the hosts of the route.
LEMMA GroupOfHosts == \A n \in Nat : Group(n) \subseteq Hosts
BY DEF Group, Eligible

\* A breaker stays one when a call enters it or ends.
LEMMA BreakerType ==
  ASSUME NEW b \in Breaker, NEW via \in {"closed", "half"}
  PROVE  Entered(b) \in Breaker /\ Succeeded(b, via) \in Breaker /\ Failed(b, via) \in Breaker
<1> USE DEF Breaker
<1>1. Entered(b) \in Breaker
  BY DEF Entered
<1>2. Succeeded(b, via) \in Breaker
  BY DEF Succeeded
<1>3. Failed(b, via) \in Breaker
  <2>1. [b EXCEPT !.state = "open", !.probing = FALSE] \in Breaker
    OBVIOUS
  <2>2. [b EXCEPT !.state = "open", !.fails = 0] \in Breaker
    OBVIOUS
  <2>3. [b EXCEPT !.fails = @ + 1] \in Breaker
    OBVIOUS
  <2> QED
    BY <2>1, <2>2, <2>3 DEF Failed
<1> QED
  BY <1>1, <1>2, <1>3

\* The end of a call leaves breakers in the map, of the same name and configuration.
LEMMA ReportsType ==
  ASSUME TypeInv, NEW c \in calls, NEW ok \in BOOLEAN, Reports(c, ok)
  PROVE  /\ breakers' \in [Hosts -> Breaker \cup {None}]
         /\ \A h \in Hosts :
              /\ breakers[h] = None => breakers'[h] = None
              /\ breakers[h] # None => /\ breakers'[h].id = breakers[h].id
                                       /\ breakers'[h].config = breakers[h].config
<1>1. c.via \in {"closed", "half"}
  BY DEF TypeInv, TypeOK, Waited
<1>2. ASSUME NEW h \in Hosts PROVE breakers[h] # None => breakers[h] \in Breaker
  BY DEF TypeInv, TypeOK
<1>3. ASSUME NEW h \in Hosts
      PROVE  breakers'[h] \in {breakers[h], Succeeded(breakers[h], c.via), Failed(breakers[h], c.via)}
  BY <1>3 DEF Reports
<1>4. ASSUME NEW h \in Hosts PROVE breakers'[h] \in Breaker \cup {None}
  BY <1>1, <1>2, <1>4, BreakerType DEF Reports, TypeInv, TypeOK
<1>5. ASSUME NEW b \in Breaker
      PROVE  /\ Succeeded(b, c.via).id = b.id /\ Succeeded(b, c.via).config = b.config
             /\ Failed(b, c.via).id = b.id /\ Failed(b, c.via).config = b.config
  BY <1>5 DEF Succeeded, Failed, Breaker
<1>6. ASSUME NEW h \in Hosts
      PROVE  /\ breakers[h] = None => breakers'[h] = None
             /\ breakers[h] # None => /\ breakers'[h].id = breakers[h].id
                                      /\ breakers'[h].config = breakers[h].config
  BY <1>2, <1>3, <1>5 DEF Reports
<1> QED
  BY <1>4, <1>6 DEF Reports

\* The initial state has the right types, and nothing is in progress.
LEMMA TypeInit == Init => TypeInv
BY BreakerAssumption
   DEF Init, TypeInv, TypeOK, Control, OneAwaitedCall, InAttempt, Chosen, Steps, Answers
\* The call that a request waits for belongs to its attempt.
LEMMA CallType ==
  ASSUME TypeInv, NEW c \in calls
  PROVE  /\ c \in Waited /\ c.id[1] \in Requests
         /\ at[c.id[1]] = "calling" /\ times[c.id[1]] > 0
BY DEF TypeInv, TypeOK, Control, OneAwaitedCall, Waited, Attempts, InAttempt

\* A failed attempt takes one from those that are left.
LEMMA FailureType ==
  ASSUME TypeInv, NEW r \in Requests, times[r] > 0, AttemptFails(r)
  PROVE  times' \in [Requests -> 0 .. Retries] /\ at' \in [Requests -> Steps] /\ answer' = answer
<1>1. times[r] - 1 \in 0 .. Retries
  BY BreakerAssumption DEF TypeInv, TypeOK
<1> QED
  BY <1>1 DEF TypeInv, TypeOK, AttemptFails, Steps

\* The end of an attempt, after which the request waits for no call.
LEMMA AttemptEnds ==
  ASSUME TypeInv, NEW r \in Requests, NEW s \in {"attempt", "done"},
         at' = [at EXCEPT ![r] = s],
         times' \in {times, [times EXCEPT ![r] = @ - 1]},
         target' \in {target, [target EXCEPT ![r] = None]},
         calls' \subseteq {c \in calls : c.id[1] # r},
         \A c \in calls : c.id[1] # r => c \in calls'
  PROVE  Control'
<1> USE DEF TypeInv, TypeOK, Control, InAttempt, Chosen
<1>1. \A q \in Requests : at'[q] \in InAttempt => q # r /\ times'[q] > 0
  OBVIOUS
<1>2. \A q \in Requests : at'[q] \in Chosen => target'[q] \in Hosts
  OBVIOUS
<1>3. ASSUME NEW c \in calls' PROVE at'[c.id[1]] = "calling" /\ c.id = AttemptOf(c.id[1])'
  <2>1. c \in calls /\ c.id[1] # r /\ c.id[1] \in Requests
    BY CallType
  <2> QED
    BY <2>1 DEF OneAwaitedCall, AttemptOf
<1>4. ASSUME NEW q \in Requests, at'[q] = "calling" PROVE \E c \in calls' : c.id[1] = q
  BY <1>4 DEF OneAwaitedCall
<1>5. \A c, d \in calls' : c.id = d.id => c = d
  BY DEF OneAwaitedCall
<1> QED
  BY <1>1, <1>2, <1>3, <1>4, <1>5 DEF OneAwaitedCall

\* A step that changes neither the attempt nor the calls of another request.
LEMMA AttemptGoesOn ==
  ASSUME TypeInv, NEW r \in Requests, NEW s \in {"attempt", "lookup", "build", "call"},
         at[r] \in {"new", "attempt", "lookup", "build"},
         at' = [at EXCEPT ![r] = s],
         s = "attempt" \/ (times[r] > 0 /\ target'[r] \in Hosts),
         \A q \in Requests : q # r => target'[q] = target[q],
         UNCHANGED <<times, calls>>
  PROVE  Control'
<1> USE DEF TypeInv, TypeOK, Control, InAttempt, Chosen
<1>1. \A q \in Requests : at'[q] \in InAttempt => times'[q] > 0
  OBVIOUS
<1>2. \A q \in Requests : at'[q] \in Chosen => target'[q] \in Hosts
  OBVIOUS
<1>3. ASSUME NEW c \in calls PROVE at'[c.id[1]] = "calling" /\ c.id = AttemptOf(c.id[1])'
  BY CallType DEF OneAwaitedCall, AttemptOf
<1>4. ASSUME NEW q \in Requests, at'[q] = "calling" PROVE \E c \in calls : c.id[1] = q
  BY <1>4 DEF OneAwaitedCall
<1> QED
  BY <1>1, <1>2, <1>3, <1>4 DEF OneAwaitedCall

\* Every step keeps the types.
LEMMA TypeStep == TypeInv /\ [Next]_vars => TypeInv'
<1> SUFFICES ASSUME TypeInv, [Next]_vars PROVE TypeInv'
  OBVIOUS
<1> USE BreakerAssumption
<1>1. ASSUME NEW r \in Requests, Arrive(r) PROVE TypeInv'
  BY <1>1, AttemptGoesOn DEF Arrive, TypeInv, TypeOK, Steps
<1>2. ASSUME NEW r \in Requests, GlobalTimeout(r) PROVE TypeInv'
  BY <1>2 DEF GlobalTimeout, TypeInv, TypeOK, Answers, Control, OneAwaitedCall, AttemptOf
<1>3. ASSUME NEW r \in Requests, Attempt(r) PROVE TypeInv'
  <2>0. /\ at[r] = "attempt" /\ \A c \in calls : c.id[1] # r
        /\ UNCHANGED <<breakers, badHealth, version, config, calls, changes>>
    BY <1>3, CallType DEF Attempt
  <2>1. ASSUME Completes(r, "error"), UNCHANGED target PROVE TypeInv'
    BY <2>0, <2>1, AttemptEnds DEF Completes, TypeInv, TypeOK, Steps, Answers
  <2>2. ASSUME times[r] > 0, AttemptFails(r), UNCHANGED <<target, body>> PROVE TypeInv'
    <3>1. Control'
      BY <2>0, <2>2, AttemptEnds DEF AttemptFails
    <3> QED
      BY <2>0, <2>2, <3>1, FailureType DEF TypeInv, TypeOK
  <2>3. ASSUME times[r] > 0, NEW h \in Hosts, target' = [target EXCEPT ![r] = h],
               at' = [at EXCEPT ![r] = "lookup"], UNCHANGED <<times, answer, body>>
        PROVE  TypeInv'
    BY <2>0, <2>3, AttemptGoesOn DEF TypeInv, TypeOK, Steps
  <2>4. \A h \in Group(AttemptOf(r)[2]) : h \in Hosts
    BY DEF Group, Eligible
  <2> QED
    BY <1>3, <2>1, <2>2, <2>3, <2>4 DEF Attempt
<1>4. ASSUME NEW r \in Requests, Lookup(r) PROVE TypeInv'
  BY <1>4, AttemptGoesOn DEF Lookup, TypeInv, TypeOK, Control, Steps, InAttempt, Chosen
<1>5. ASSUME NEW r \in Requests, Build(r) PROVE TypeInv'
  <2>1. NewBreaker(AttemptOf(r), config[r]) \in Breaker
    BY <1>5, AttemptType DEF Build, NewBreaker, Breaker, InAttempt, TypeInv, TypeOK
  <2> QED
    BY <1>5, <2>1, AttemptGoesOn DEF Build, TypeInv, TypeOK, Control, Steps, InAttempt, Chosen
<1>6. ASSUME NEW r \in Requests, Call(r) PROVE TypeInv'
  <2> DEFINE b == breakers[target[r]]
             c == [id |-> AttemptOf(r), breaker |-> b.id, via |-> b.state]
  <2>0. at[r] = "call" /\ times[r] > 0 /\ \A d \in calls : d.id[1] # r
    BY <1>6, CallType DEF Call, TypeInv, Control, InAttempt
  <2>1. CASE b = None
    BY <1>6, <2>0, <2>1, AttemptEnds DEF Call, Completes, TypeInv, TypeOK, Steps, Answers
  <2>2. CASE b # None /\ ~LetsThrough(b)
    <3>1. /\ AttemptFails(r) /\ target' = [target EXCEPT ![r] = None]
          /\ UNCHANGED <<breakers, calls, body, badHealth, version, config, changes>>
      BY <1>6, <2>2 DEF Call
    <3>2. Control'
      BY <2>0, <3>1, AttemptEnds DEF AttemptFails
    <3> QED
      BY <2>0, <3>1, <3>2, FailureType DEF TypeInv, TypeOK
  <2>3. CASE b # None /\ LetsThrough(b)
    <3>1. target[r] \in Hosts /\ b \in Breaker
      BY <1>6, <2>3 DEF Call, TypeInv, TypeOK, Control, Chosen
    <3>2. b.state \in {"closed", "half"} /\ b.id \in Attempts /\ Entered(b) \in Breaker
      BY <2>3, <3>1, BreakerType DEF LetsThrough, Breaker
    <3>3. AttemptOf(r) \in Attempts
      BY <1>6, AttemptType DEF Call, InAttempt
    <3>4. c \in Waited /\ c.id[1] = r /\ c.id = AttemptOf(r)
      BY <3>2, <3>3 DEF Waited, AttemptOf
    <3>5. /\ breakers' = [breakers EXCEPT ![target[r]] = Entered(b)]
          /\ calls' = calls \cup {c}
          /\ at' = [at EXCEPT ![r] = "calling"]
          /\ target' = [target EXCEPT ![r] = None]
          /\ UNCHANGED <<times, answer, body, badHealth, version, config, changes>>
      BY <1>6, <2>3 DEF Call
    <3>6. TypeOK'
      BY <3>1, <3>2, <3>4, <3>5 DEF TypeInv, TypeOK, Steps
    <3>7. \A d \in calls' : at'[d.id[1]] = "calling" /\ d.id = AttemptOf(d.id[1])'
      BY <3>4, <3>5, CallType DEF TypeInv, TypeOK, Control, OneAwaitedCall, AttemptOf
    <3>8. \A q \in Requests : at'[q] = "calling" => \E d \in calls' : d.id[1] = q
      BY <3>4, <3>5 DEF TypeInv, TypeOK, Control, OneAwaitedCall
    <3>9. \A d, e \in calls' : d.id = e.id => d = e
      BY <2>0, <3>4, <3>5 DEF TypeInv, Control, OneAwaitedCall
    <3>10. /\ \A q \in Requests : at'[q] \in InAttempt => times'[q] > 0
           /\ \A q \in Requests : at'[q] \in Chosen => target'[q] \in Hosts
      BY <2>0, <3>5 DEF TypeInv, TypeOK, Control, InAttempt, Chosen
    <3> QED
      BY <3>6, <3>7, <3>8, <3>9, <3>10 DEF TypeInv, Control, OneAwaitedCall
  <2> QED
    BY <2>1, <2>2, <2>3
<1>7. ASSUME NEW r \in Requests, Consume(r) PROVE TypeInv'
  BY <1>7 DEF Consume, requestVars, TypeInv, TypeOK, Control, OneAwaitedCall, AttemptOf
<1>8. ASSUME NEW c \in calls PROVE \A d \in calls : d.id[1] = c.id[1] => d = c
  BY DEF TypeInv, Control, OneAwaitedCall
<1>9. ASSUME NEW c \in calls, CallTimeout(c) PROVE TypeInv'
  <2>1. breakers' \in [Hosts -> Breaker \cup {None}]
    BY <1>9, ReportsType DEF CallTimeout
  <2>2. Control'
    BY <1>8, <1>9, CallType, AttemptEnds DEF CallTimeout, AttemptFails
  <2> QED
    BY <1>9, <2>1, <2>2, CallType DEF CallTimeout, AttemptFails, TypeInv, TypeOK, Steps
<1>10. ASSUME NEW c \in calls, NEW ok \in BOOLEAN, CallEnds(c, ok) PROVE TypeInv'
  <2>1. breakers' \in [Hosts -> Breaker \cup {None}]
    BY <1>10, ReportsType DEF CallEnds
  <2>2. Control'
    BY <1>8, <1>10, CallType, AttemptEnds DEF CallEnds, Completes, AttemptFails
  <2> QED
    BY <1>10, <2>1, <2>2, CallType
       DEF CallEnds, Completes, AttemptFails, TypeInv, TypeOK, Steps, Answers
<1>11. ASSUME NEW h \in Hosts, HalfOpen(h) PROVE TypeInv'
  <2>1. [breakers[h] EXCEPT !.state = "half"] \in Breaker
    BY <1>11 DEF HalfOpen, Breaker, TypeInv, TypeOK
  <2> QED
    BY <1>11, <2>1
       DEF HalfOpen, requestVars, TypeInv, TypeOK, Control, OneAwaitedCall, AttemptOf
<1>12. CASE Change
  BY <1>12 DEF Change, Reset, Update, HealthClear, HealthAnswer, requestVars, TypeInv, TypeOK,
               Control, OneAwaitedCall, AttemptOf
<1>13. CASE UNCHANGED vars
  BY <1>13 DEF vars, requestVars, TypeInv, TypeOK, Control, OneAwaitedCall, AttemptOf
<1> QED
  BY <1>1, <1>2, <1>3, <1>4, <1>5, <1>6, <1>7, <1>9, <1>10, <1>11, <1>12, <1>13 DEF Next, RequestStep

\* Requests, breakers and calls stay in their ranges.
THEOREM BreakerTypeCorrect == Spec => []TypeOK
<1>1. TypeInv => TypeOK
  BY DEF TypeInv
<1> QED
  BY <1>1, TypeInit, TypeStep, PTL DEF Spec

\* callGenNg: whatever times out, a request waits for one call at most, that of
\* its current attempt.
THEOREM AwaitsOneCall == Spec => []OneAwaitedCall
<1>1. TypeInv => OneAwaitedCall
  BY DEF TypeInv, Control
<1> QED
  BY <1>1, TypeInit, TypeStep, PTL DEF Spec
--------------------------------------------------------------------------------
\* Nothing is answered at first.
LEMMA AnswerInit == Init => AnsweredAtTheEnd
BY BreakerAssumption DEF Init, AnsweredAtTheEnd

\* A request whose promise is completed is answered; one whose attempt fails was
\* not done.
LEMMA AnswerOfEnds ==
  ASSUME TypeInv, AnsweredAtTheEnd, NEW r \in Requests, at[r] # "done",
         Completes(r, "error") \/ Completes(r, "response") \/ AttemptFails(r)
  PROVE  AnsweredAtTheEnd'
BY BreakerAssumption DEF TypeInv, TypeOK, AnsweredAtTheEnd, Completes, AttemptFails

\* Every step keeps it.
LEMMA AnswerStep == TypeInv /\ AnsweredAtTheEnd /\ [Next]_vars => AnsweredAtTheEnd'
<1> SUFFICES ASSUME TypeInv, AnsweredAtTheEnd, [Next]_vars PROVE AnsweredAtTheEnd'
  OBVIOUS
<1> USE DEF TypeInv, TypeOK, AnsweredAtTheEnd
<1>1. ASSUME NEW r \in Requests, Arrive(r) PROVE AnsweredAtTheEnd'
  BY <1>1 DEF Arrive
<1>2. ASSUME NEW r \in Requests, GlobalTimeout(r) PROVE AnsweredAtTheEnd'
  BY <1>2, BreakerAssumption DEF GlobalTimeout
<1>3. ASSUME NEW r \in Requests, Attempt(r) PROVE AnsweredAtTheEnd'
  <2>1. at[r] # "done"
    BY <1>3 DEF Attempt
  <2>2. CASE at'[r] = "lookup"
    BY <1>3, <2>2 DEF Attempt, Completes, AttemptFails
  <2>3. CASE at'[r] # "lookup"
    BY <1>3, <2>1, <2>3, AnswerOfEnds DEF Attempt
  <2> QED
    BY <2>2, <2>3
<1>4. ASSUME NEW r \in Requests, Lookup(r) PROVE AnsweredAtTheEnd'
  BY <1>4 DEF Lookup
<1>5. ASSUME NEW r \in Requests, Build(r) PROVE AnsweredAtTheEnd'
  BY <1>5 DEF Build
<1>6. ASSUME NEW r \in Requests, Call(r) PROVE AnsweredAtTheEnd'
  <2>1. at[r] = "call"
    BY <1>6 DEF Call
  <2>2. CASE at'[r] = "calling"
    BY <1>6, <2>1, <2>2 DEF Call, Completes, AttemptFails
  <2>3. CASE at'[r] # "calling"
    BY <1>6, <2>1, <2>3, AnswerOfEnds DEF Call
  <2> QED
    BY <2>2, <2>3
<1>7. ASSUME NEW r \in Requests, Consume(r) PROVE AnsweredAtTheEnd'
  BY <1>7 DEF Consume, requestVars
<1>8. ASSUME NEW c \in calls, CallTimeout(c) PROVE AnsweredAtTheEnd'
  BY <1>8, CallType, AnswerOfEnds DEF CallTimeout
<1>9. ASSUME NEW c \in calls, NEW ok \in BOOLEAN, CallEnds(c, ok) PROVE AnsweredAtTheEnd'
  BY <1>9, CallType, AnswerOfEnds DEF CallEnds
<1>10. ASSUME NEW h \in Hosts, HalfOpen(h) PROVE AnsweredAtTheEnd'
  BY <1>10 DEF HalfOpen, requestVars
<1>11. CASE Change
  BY <1>11 DEF Change, requestVars
<1>12. CASE UNCHANGED vars
  BY <1>12 DEF vars, requestVars
<1> HIDE DEF TypeInv, TypeOK, AnsweredAtTheEnd
<1> QED
  BY <1>1, <1>2, <1>3, <1>4, <1>5, <1>6, <1>7, <1>8, <1>9, <1>10, <1>11, <1>12 DEF Next, RequestStep

\* Retry and failAfter: the client reads an error, or a response, only once no
\* attempt of its request is left.
THEOREM AnsweredOnceDone == Spec => []AnsweredAtTheEnd
BY TypeInit, TypeStep, AnswerInit, AnswerStep, PTL DEF Spec

--------------------------------------------------------------------------------
\* A request finds the breaker that it built under its own configuration, and so
\* builds no other one for the host.
Own ==
    /\ \A h \in Hosts : breakers[h] # None =>
          LET r == breakers[h].id[1]
          IN  at[r] # "new" /\ breakers[h].config = config[r]
    /\ \A r \in Requests : at[r] = "build" /\ breakers[target[r]] # None =>
          breakers[target[r]].id[1] # r

\* There is no breaker at first.
LEMMA OwnInit == Init => Own
BY DEF Init, Own

\* A step that builds no breaker and chooses none to be built.
LEMMA OwnKept ==
  ASSUME TypeInv, Own, UNCHANGED config,
         \A r \in Requests : at[r] # "new" => at'[r] # "new",
         \A r \in Requests : at'[r] = "build" => at[r] = "build" /\ target'[r] = target[r],
         \A h \in Hosts : breakers'[h] # None =>
             /\ breakers[h] # None
             /\ breakers'[h].id = breakers[h].id
             /\ breakers'[h].config = breakers[h].config
  PROVE  Own'
<1>1. \A h \in Hosts : breakers[h] # None => breakers[h].id[1] \in Requests
  BY DEF TypeInv, TypeOK, Breaker, Attempts
<1>2. \A r \in Requests : at[r] = "build" => target[r] \in Hosts
  BY DEF TypeInv, Control, Chosen
<1> QED
  BY <1>1, <1>2 DEF Own

\* Every step keeps it, and replaces no breaker by another of the same request.
LEMMA OwnStep ==
  TypeInv /\ Own /\ [Next]_vars =>
    Own' /\ ReplacesOthersOnly
<1> DEFINE Same == \A h \in Hosts : breakers'[h] # None =>
                      /\ breakers[h] # None
                      /\ breakers'[h].id = breakers[h].id
                      /\ breakers'[h].config = breakers[h].config
           Goal == Own' /\ ReplacesOthersOnly
<1> SUFFICES ASSUME TypeInv, Own, [Next]_vars PROVE Goal
  OBVIOUS
<1>0. at \in [Requests -> Steps]
  BY DEF TypeInv, TypeOK
<1>1. ASSUME NEW r \in Requests, Arrive(r) PROVE Goal
  BY <1>0, <1>1 DEF ReplacesOthersOnly, Arrive, Own, TypeInv, TypeOK, Breaker, Attempts
<1>2. ASSUME NEW r \in Requests, GlobalTimeout(r) PROVE Goal
  BY <1>2, OwnKept DEF ReplacesOthersOnly, GlobalTimeout
<1>3. ASSUME NEW r \in Requests, Attempt(r) PROVE Goal
  <2>1. at' \in {[at EXCEPT ![r] = "attempt"], [at EXCEPT ![r] = "done"], [at EXCEPT ![r] = "lookup"]}
        /\ \A q \in Requests : q # r => target'[q] = target[q]
    <3>1. target' = target \/ \E h : target' = [target EXCEPT ![r] = h]
      BY <1>3 DEF Attempt
    <3>2. target \in [Requests -> Hosts \cup {None}]
      BY DEF TypeInv, TypeOK
    <3> QED
      BY <1>3, <3>1, <3>2 DEF Attempt, Completes, AttemptFails
  <2>2. UNCHANGED <<breakers, config>> /\ at[r] = "attempt"
    BY <1>3 DEF Attempt
  <2> QED
    BY <1>0, <2>1, <2>2, OwnKept DEF ReplacesOthersOnly
<1>4. ASSUME NEW r \in Requests, Lookup(r) PROVE Goal
  <2>1. /\ at' \in {[at EXCEPT ![r] = "build"], [at EXCEPT ![r] = "call"]}
        /\ at'[r] = "build" => NeedsBreaker(r)
        /\ at[r] = "lookup" /\ UNCHANGED <<breakers, config, target>>
    BY <1>0, <1>4 DEF Lookup
  <2>2. target[r] \in Hosts
    BY <1>4 DEF Lookup, TypeInv, Control, Chosen
  <2>3. \A h \in Hosts : breakers[h] # None => breakers[h].id[1] \in Requests
    BY DEF TypeInv, TypeOK, Breaker, Attempts
  <2>4. ASSUME NEW h \in Hosts, breakers[h] # None
        PROVE  at'[breakers[h].id[1]] # "new"
    BY <1>0, <2>1, <2>3, <2>4 DEF Own
  <2>5. ASSUME NEW q \in Requests, at'[q] = "build", breakers[target[q]] # None
        PROVE  breakers[target[q]].id[1] # q
    <3>1. CASE q = r
      BY <2>1, <2>2, <2>5, <3>1 DEF NeedsBreaker, Own
    <3>2. CASE q # r
      BY <1>0, <2>1, <2>5, <3>2 DEF Own
    <3> QED
      BY <3>1, <3>2
  <2> QED
    BY <2>1, <2>4, <2>5 DEF Own, ReplacesOthersOnly
<1>5. ASSUME NEW r \in Requests, Build(r) PROVE Goal
  <2> DEFINE n == NewBreaker(AttemptOf(r), config[r])
  <2>1. n.id[1] = r /\ n.config = config[r]
    BY DEF NewBreaker, AttemptOf
  <2>2. target[r] \in Hosts /\ at[r] = "build" /\ at' = [at EXCEPT ![r] = "call"]
        /\ breakers' = [breakers EXCEPT ![target[r]] = n] /\ UNCHANGED <<config, target>>
    BY <1>5 DEF Build, TypeInv, Control, Chosen
  <2>3. ASSUME NEW q \in Requests, at'[q] = "build" PROVE target[q] \in Hosts /\ q # r
    BY <1>0, <2>2, <2>3 DEF TypeInv, Control, Chosen
  <2>4. breakers \in [Hosts -> Breaker \cup {None}]
    BY DEF TypeInv, TypeOK
  <2> HIDE DEF n
  <2> QED
    BY <1>0, <2>1, <2>2, <2>3, <2>4 DEF ReplacesOthersOnly, Own, Breaker, Attempts
<1>6. ASSUME NEW r \in Requests, Call(r) PROVE Goal
  <2>1. /\ at[r] = "call" /\ UNCHANGED config
        /\ at' \in {[at EXCEPT ![r] = "attempt"], [at EXCEPT ![r] = "done"], [at EXCEPT ![r] = "calling"]}
        /\ target' = [target EXCEPT ![r] = None]
    BY <1>6 DEF Call, Completes, AttemptFails
  <2>2. Same
    <3>1. \/ breakers' = breakers
          \/ /\ breakers' = [breakers EXCEPT ![target[r]] = Entered(breakers[target[r]])]
             /\ breakers[target[r]] # None
      BY <1>6 DEF Call
    <3>2. target[r] \in Hosts /\ breakers \in [Hosts -> Breaker \cup {None}]
      BY <2>1 DEF TypeInv, TypeOK, Control, Chosen
    <3>3. ASSUME NEW b \in Breaker PROVE Entered(b).id = b.id /\ Entered(b).config = b.config
      BY DEF Entered, Breaker
    <3> QED
      BY <3>1, <3>2, <3>3
  <2>3. target \in [Requests -> Hosts \cup {None}]
    BY DEF TypeInv, TypeOK
  <2> QED
    BY <1>0, <2>1, <2>2, <2>3, OwnKept DEF ReplacesOthersOnly
<1>7. ASSUME NEW r \in Requests, Consume(r) PROVE Goal
  BY <1>7, OwnKept DEF ReplacesOthersOnly, Consume, requestVars
<1>8. ASSUME NEW c \in calls, CallTimeout(c) PROVE Goal
  <2>1. Same
    BY <1>8, ReportsType DEF CallTimeout
  <2> QED
    BY <1>0, <1>8, <2>1, CallType, OwnKept DEF ReplacesOthersOnly, CallTimeout, AttemptFails
<1>9. ASSUME NEW c \in calls, NEW ok \in BOOLEAN, CallEnds(c, ok) PROVE Goal
  <2>1. Same
    BY <1>9, ReportsType DEF CallEnds
  <2> QED
    BY <1>0, <1>9, <2>1, CallType, OwnKept DEF ReplacesOthersOnly, CallEnds, Completes, AttemptFails
<1>10. ASSUME NEW h \in Hosts, HalfOpen(h) PROVE Goal
  <2>1. Same
    BY <1>10 DEF HalfOpen, TypeInv, TypeOK, Breaker
  <2> QED
    BY <1>10, <2>1, OwnKept DEF ReplacesOthersOnly, HalfOpen, requestVars
<1>11. CASE Change
  BY <1>11, OwnKept DEF ReplacesOthersOnly, Change, Reset, Update, HealthClear, HealthAnswer, requestVars
<1>12. CASE UNCHANGED vars
  BY <1>12, OwnKept DEF ReplacesOthersOnly, vars, requestVars
<1> HIDE DEF Goal
<1> QED
  BY <1>1, <1>2, <1>3, <1>4, <1>5, <1>6, <1>7, <1>8, <1>9, <1>10, <1>11, <1>12 DEF Next, RequestStep

\* chooseTargetNg: a request never wipes out the breaker that it built itself.
THEOREM NeverReplacesItsOwn == Spec => KeepsItsOwn
<1>1. TypeInv /\ Own /\ [Next]_vars => [ReplacesOthersOnly]_vars
  BY OwnStep
<1>2. TypeInv /\ Own /\ [Next]_vars => Own'
  BY OwnStep
<1> QED
  BY <1>1, <1>2, TypeInit, TypeStep, OwnInit, PTL DEF Spec, KeepsItsOwn
=================================================================================
