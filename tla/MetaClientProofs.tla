-------------------------- MODULE MetaClientProofs --------------------------
(* Theorems of MetaClient, for any number of calls, any table of accounts   *)
(* and types and any answers of Meta.                                       *)
EXTENDS MetaClient, FiniteSetTheorems, WellFoundedInduction, TLAPS

\* Requests sent and attempts counted, at every place of execute. A call on a
\* creating path never backs off, so its first attempt is its last.
SendCount ==
  /\ DOMAIN pc = Calls
  /\ attempt \in [Calls -> 0..MaxRetries]
  /\ fetches \in [Calls -> Nat]
  /\ \A c \in Calls :
       /\ pc[c] \in {"idle", "pacing", "waiting"} => fetches[c] = 0
       /\ pc[c] \in {"headers", "body"} => fetches[c] = attempt[c] + 1
       /\ pc[c] = "backoff" => fetches[c] = attempt[c] /\ c \notin CreatingPath
       /\ fetches[c] <= attempt[c] + 1
       /\ attempt[c] > 0 => c \notin CreatingPath
       /\ pc[c] \in {"idle", "pacing", "waiting"} => attempt[c] = 0

LEMMA InitialCount == Init => SendCount
BY ClientAssumption DEF Init, SendCount

LEMMA StepKeepsCount == SendCount /\ [Next]_vars => SendCount'
<1> SUFFICES ASSUME SendCount, [Next]_vars PROVE SendCount'
  OBVIOUS
<1>1. CASE UNCHANGED callVars
  BY <1>1 DEF callVars, SendCount
<1>2. ASSUME NEW c \in Calls,
             \/ Call(c) \/ Paced(c)
      PROVE  SendCount'
  <2>1. PICK place \in {"pacing", "waiting", "failed"} : Goto(c, place)
    BY <1>2 DEF Call, Paced, WaitIfNeeded
  <2>2. UNCHANGED <<attempt, fetches>> /\ pc[c] \in {"idle", "pacing"}
    BY <1>2 DEF Call, Paced
  <2> QED BY <2>1, <2>2 DEF Goto, SendCount
<1>3. ASSUME NEW c \in Calls, Fetch(c) PROVE SendCount'
  BY <1>3 DEF Fetch, Goto, SendCount
<1>4. ASSUME NEW c \in Calls, ReceiveHeaders(c) PROVE SendCount'
  BY <1>4 DEF ReceiveHeaders, Goto, SendCount
<1>5. ASSUME NEW c \in Calls, NEW said, NEW retryable, RetryOrFail(c, said, retryable),
             pc[c] \in {"headers", "body"}
      PROVE  SendCount'
  <2>1. CASE canRetryTransport(c) /\ attemptLeft(c) /\ Goto(c, "backoff")
             /\ attempt' = [attempt EXCEPT ![c] = @ + 1]
    <3>1. attempt[c] + 1 \in 0..MaxRetries /\ c \notin CreatingPath
      BY <2>1, ClientAssumption DEF attemptLeft, canRetryTransport, SendCount
    <3>2. UNCHANGED fetches
      BY <1>5 DEF RetryOrFail
    <3> QED BY <1>5, <2>1, <3>1, <3>2 DEF Goto, SendCount
  <2>2. CASE Goto(c, "failed") /\ UNCHANGED attempt
    BY <1>5, <2>2 DEF RetryOrFail, Goto, SendCount
  <2> QED BY <1>5, <2>1, <2>2 DEF RetryOrFail
<1>6. ASSUME NEW c \in Calls, Result(c) \/ Throttled(c) PROVE SendCount'
  <2>1. PICK place \in {"ok", "failed"} : Goto(c, place)
    BY <1>6 DEF Result, Throttled
  <2>2. UNCHANGED <<attempt, fetches>>
    BY <1>6 DEF Result, Throttled
  <2> QED BY <2>1, <2>2, <1>6 DEF Result, Throttled, Goto, SendCount
<1>7. CASE Tick
  BY <1>1, <1>7 DEF Tick
<1>8. ASSUME NEW c \in Calls, TransportError(c) \/ BadBody(c) \/ PlainError(c) PROVE SendCount'
  <2>1. pc[c] \in {"headers", "body"} /\ \E said, retryable : RetryOrFail(c, said, retryable)
    BY <1>8 DEF TransportError, BadBody, PlainError
  <2> QED BY <2>1, <1>5
<1>9. ASSUME NEW c \in Calls, Step(c) PROVE SendCount'
  BY <1>9, <1>2, <1>3, <1>4, <1>6, <1>8 DEF Step
<1>10. CASE UNCHANGED vars
  BY <1>1, <1>10 DEF vars
<1> QED BY <1>7, <1>9, <1>10 DEF Next

\* Whatever fails and however often, a request whose path is taken for a creating
\* one is sent once at most and any other as often as the retries allow (execute,
\* canRetryTransport). Of a creation on another path it says no more than that.
THEOREM CreationsSentOnce == Spec => []SentAtMostOnce
<1>1. SendCount => SentAtMostOnce
  <2> SUFFICES ASSUME SendCount, NEW c \in Calls
               PROVE  fetches[c] <= (IF c \in CreatingPath THEN 1 ELSE MaxRetries + 1)
    BY DEF SentAtMostOnce
  <2>1. attempt[c] \in 0..MaxRetries /\ fetches[c] \in Nat /\ fetches[c] <= attempt[c] + 1
    BY DEF SendCount
  <2>2. c \in CreatingPath => attempt[c] = 0
    BY <2>1, ClientAssumption DEF SendCount
  <2> QED BY <2>1, <2>2, ClientAssumption
<1> QED BY InitialCount, StepKeepsCount, <1>1, PTL DEF Spec
-----------------------------------------------------------------------------
\* The table names exactly one category, the first that matches.
LEMMA FirstMatch ==
  ASSUME NEW e
  PROVE  \E i \in DOMAIN Errors!Order :
           /\ Errors!Matches(Errors!Order[i], e)
           /\ \A j \in 1..(i - 1) : ~Errors!Matches(Errors!Order[j], e)
<1> DEFINE P(i) == Errors!Matches(Errors!Order[i], e)
<1>1. DOMAIN Errors!Order = 1..11 /\ Errors!Order[11] = "unknown"
  BY DEF Errors!Order
<1>2. P(11)
  BY <1>1, SMT DEF Errors!Matches
<1> HIDE DEF P
<1>3. \E i \in 1..11 : P(i) /\ \A j \in 1..(i - 1) : ~P(j)
  <2> SUFFICES ASSUME \A i \in 1..11 : P(i) => \E j \in 1..(i - 1) : P(j) PROVE FALSE
    OBVIOUS
  <2>1. ~P(1)
    OBVIOUS
  <2>2. ~P(2)
    BY <2>1
  <2>3. ~P(3)
    BY <2>1, <2>2
  <2>4. ~P(4)
    BY <2>1, <2>2, <2>3
  <2>5. ~P(5)
    BY <2>1, <2>2, <2>3, <2>4
  <2>6. ~P(6)
    BY <2>1, <2>2, <2>3, <2>4, <2>5
  <2>7. ~P(7)
    BY <2>1, <2>2, <2>3, <2>4, <2>5, <2>6
  <2>8. ~P(8)
    BY <2>1, <2>2, <2>3, <2>4, <2>5, <2>6, <2>7
  <2>9. ~P(9)
    BY <2>1, <2>2, <2>3, <2>4, <2>5, <2>6, <2>7, <2>8
  <2>10. ~P(10)
    BY <2>1, <2>2, <2>3, <2>4, <2>5, <2>6, <2>7, <2>8, <2>9
  <2> QED BY <1>2, <2>1, <2>2, <2>3, <2>4, <2>5, <2>6, <2>7, <2>8, <2>9, <2>10
<1> QED BY <1>1, <1>3 DEF P

\* What the table retries means no throttle and no invalid request, whichever
\* subcode comes with the code of a transient error.
LEMMA RetryableIsTransient ==
  ASSUME NEW e, Errors!classifyMetaError(e).retryable
  PROVE  Meant(e) = "transient"
<1>1. Errors!CategoryOf(e) = "transient"
  BY DEF Errors!classifyMetaError
<1>2. PICK i \in DOMAIN Errors!Order :
        /\ Errors!Order[i] = "transient"
        /\ Errors!Matches(Errors!Order[i], e)
        /\ \A j \in 1..(i - 1) : ~Errors!Matches(Errors!Order[j], e)
  BY <1>1, FirstMatch DEF Errors!CategoryOf
<1>3. i = 10 /\ Errors!Order[1] = "abuse_signal" /\ Errors!Order[3] = "temporary_block"
  BY <1>2 DEF Errors!Order
<1>4. e.code \in {1, 2}
  BY <1>2, SMT DEF Errors!Matches
<1>5. e.subcode # 1996
  <2>1. ~Errors!Matches("abuse_signal", e)
    BY <1>2, <1>3
  <2> QED BY <2>1, SMT DEF Errors!Matches
<1>6. e.subcode # 1487742
  <2>1. ~Errors!Matches("temporary_block", e)
    BY <1>2, <1>3
  <2> QED BY <2>1, SMT DEF Errors!Matches
<1> QED BY <1>4, <1>5, <1>6 DEF Meant

AnswersKnown == DOMAIN pc = Calls /\ DOMAIN answer = Calls /\ ThrottleNeverRetried

LEMMA StepKeepsAnswers == AnswersKnown /\ [Next]_vars => AnswersKnown'
<1> SUFFICES ASSUME AnswersKnown, [Next]_vars PROVE AnswersKnown'
  OBVIOUS
<1>1. CASE UNCHANGED callVars
  BY <1>1 DEF callVars, AnswersKnown, ThrottleNeverRetried
<1>2. ASSUME NEW c \in Calls, Call(c) \/ Paced(c) \/ Fetch(c) \/ ReceiveHeaders(c)
      PROVE  AnswersKnown'
  <2>1. pc[c] # "failed" /\ UNCHANGED answer
    BY <1>2 DEF Call, Paced, Fetch, ReceiveHeaders
  <2>2. \E place : Goto(c, place)
    BY <1>2 DEF Call, Paced, Fetch, ReceiveHeaders, WaitIfNeeded
  <2> QED BY <2>1, <2>2 DEF Goto, AnswersKnown, ThrottleNeverRetried
<1>3. ASSUME NEW c \in Calls, NEW said, NEW retryable, RetryOrFail(c, said, retryable),
             pc[c] # "failed", said \in {"throttle", "invalid"} => ~retryable
      PROVE  AnswersKnown'
  <2>1. PICK place \in {"failed", "backoff"} :
          Goto(c, place) /\ (place = "backoff" => retryable)
    BY <1>3 DEF RetryOrFail
  <2>2. answer' = [answer EXCEPT ![c] = said]
    BY <1>3 DEF RetryOrFail
  <2> QED BY <1>3, <2>1, <2>2 DEF Goto, AnswersKnown, ThrottleNeverRetried
<1>4. ASSUME NEW c \in Calls, TransportError(c) PROVE AnswersKnown'
  BY <1>3, <1>4 DEF TransportError
<1>5. ASSUME NEW c \in Calls, BadBody(c) PROVE AnswersKnown'
  <2>1. PICK said \in Bodies \ {"ok"} : RetryOrFail(c, said, TRUE)
    BY <1>5 DEF BadBody
  <2>2. said \notin {"throttle", "invalid"}
    BY <2>1, ClientAssumption
  <2> QED BY <1>3, <1>5, <2>1, <2>2 DEF BadBody
<1>6. ASSUME NEW c \in Calls, PlainError(c) PROVE AnswersKnown'
  <2>1. PICK e \in GraphErrors :
          RetryOrFail(c, Meant(e), Errors!classifyMetaError(e).retryable)
    BY <1>6 DEF PlainError
  <2>2. Errors!classifyMetaError(e).retryable => Meant(e) = "transient"
    BY RetryableIsTransient
  <2> QED BY <1>3, <1>6, <2>1, <2>2 DEF PlainError
<1>7. ASSUME NEW c \in Calls, Result(c) PROVE AnswersKnown'
  BY <1>7 DEF Result, Goto, AnswersKnown, ThrottleNeverRetried
<1>8. ASSUME NEW c \in Calls, Throttled(c) PROVE AnswersKnown'
  <2>1. Goto(c, "failed") /\ \E said : answer' = [answer EXCEPT ![c] = said]
    BY <1>8 DEF Throttled
  <2> QED BY <2>1 DEF Goto, AnswersKnown, ThrottleNeverRetried
<1>9. ASSUME NEW c \in Calls, Step(c) PROVE AnswersKnown'
  BY <1>9, <1>2, <1>4, <1>5, <1>6, <1>7, <1>8 DEF Step
<1>10. CASE Tick
  BY <1>1, <1>10 DEF Tick
<1>11. CASE UNCHANGED vars
  BY <1>1, <1>11 DEF vars
<1> QED BY <1>9, <1>10, <1>11 DEF Next

\* Whatever errors Meta answers, one that means a throttle or an invalid request
\* ends its call: the order of the table puts the signals to stop before the
\* code of a transient error (execute, classifyMetaError).
THEOREM ThrottlesEndCalls == Spec => []ThrottleNeverRetried
<1>1. Init => AnswersKnown
  BY DEF Init, AnswersKnown, ThrottleNeverRetried
<1>2. AnswersKnown => ThrottleNeverRetried
  BY DEF AnswersKnown
<1> QED BY <1>1, <1>2, StepKeepsAnswers, PTL DEF Spec
-----------------------------------------------------------------------------
(* The client is a user of the breaker as module CircuitBreaker knows them. *)

\* The class of an error as the breaker's module has it.
LEMMA ClassOfError ==
  ASSUME NEW e
  PROVE  /\ Errors!classifyMetaError(e).throttled \in BOOLEAN
         /\ Errors!classifyMetaError(e).retryAfter
              \in {GlobalInsightsHint, BlockHint, AbuseHint} \cup {Breaker!NoHint}
BY DEF Errors!classifyMetaError, Errors!NoHint, Breaker!NoHint

LEMMA ThrottledTrips ==
  ASSUME NEW c \in Calls, Throttled(c)
  PROVE  \E cls \in Breaker!Classes : Breaker!Trip(key[c], cls)
<1>1. PICK e \in GraphErrors :
        LET cls == Errors!classifyMetaError(e)
        IN  Breaker!Trip(key[c], [cls EXCEPT !.category =
                      IF @ \in {"abuse_signal", "temporary_block"} THEN @ ELSE "other"])
  BY DEF Throttled
<1> DEFINE cls == Errors!classifyMetaError(e)
           category == IF cls.category \in {"abuse_signal", "temporary_block"}
                       THEN cls.category ELSE "other"
           seen == [cls EXCEPT !.category = category]
           class == [category |-> category, throttled |-> cls.throttled,
                     retryAfter |-> cls.retryAfter]
<1>2. seen.category = class.category /\ seen.throttled = class.throttled
      /\ seen.retryAfter = class.retryAfter
  BY DEF Errors!classifyMetaError
<1>3. class \in Breaker!Classes
  BY ClassOfError DEF Breaker!Classes
<1>4. Breaker!Trip(key[c], seen)
  BY <1>1
<1> HIDE DEF seen, class
<1>5. Breaker!Trip(key[c], class)
  BY <1>2, <1>4 DEF Breaker!Trip, Breaker!TripExplicit, Breaker!TripCounted, Breaker!TripIgnored,
                    Breaker!StopsFor
<1> QED BY <1>3, <1>5

LEMMA StepOfBreaker == [Next]_vars => [Breaker!Next]_(Breaker!vars)
<1> SUFFICES ASSUME [Next]_vars PROVE [Breaker!Next]_(Breaker!vars)
  OBVIOUS
<1>1. CASE UNCHANGED <<now, breakerVars>>
  BY <1>1 DEF breakerVars, Breaker!vars
<1>2. ASSUME NEW c \in Calls, Call(c) PROVE [Breaker!Next]_(Breaker!vars)
  <2>1. key[c] \in Scopes \X Types
    BY ClientAssumption DEF key, Scopes
  <2>2. UNCHANGED <<now, breakerVars>> \/ Breaker!AssertClosed(key[c])
    BY <1>2 DEF Call
  <2> QED BY <1>1, <2>1, <2>2 DEF Breaker!Next
<1>3. ASSUME NEW c \in Calls, Throttled(c) PROVE [Breaker!Next]_(Breaker!vars)
  <2>1. key[c] \in Scopes \X Types
    BY ClientAssumption DEF key, Scopes
  <2> QED BY <1>3, <2>1, ThrottledTrips DEF Breaker!Next
<1>4. CASE Tick
  BY <1>4 DEF Tick, Breaker!Next
<1>5. ASSUME NEW c \in Calls, 
             \/ Paced(c) \/ Fetch(c) \/ ReceiveHeaders(c) \/ TransportError(c) \/ Result(c)
             \/ BadBody(c) \/ PlainError(c)
      PROVE  [Breaker!Next]_(Breaker!vars)
  <2>1. UNCHANGED <<now, breakerVars>>
    BY <1>5 DEF Paced, Fetch, ReceiveHeaders, TransportError, Result, BadBody, PlainError,
                RetryOrFail
  <2> QED BY <1>1, <2>1
<1>6. CASE UNCHANGED vars
  BY <1>1, <1>6 DEF vars
<1> QED BY <1>2, <1>3, <1>4, <1>5, <1>6 DEF Next, Step

\* However calls interleave and whatever Meta answers, the breaker sees what its
\* own module lets it see.
THEOREM ImplementsBreaker == Spec => Breaker!Spec
<1>1. Init => Breaker!Init
  BY DEF Init
<1> QED BY <1>1, StepOfBreaker, PTL DEF Spec, Breaker!Spec
-----------------------------------------------------------------------------
(* The breaker's stops bind the calls of the composition.                   *)

StopsOwed ==
  /\ now \in Nat
  /\ openUntil \in [Scopes \X Types -> Nat] /\ owed \in [Scopes \X Types -> Nat]
  /\ Breaker!OwedStopHonoured

LEMMA TripKeepsStops ==
  ASSUME StopsOwed, NEW k \in Scopes \X Types, NEW cls \in Breaker!Classes, Breaker!Trip(k, cls)
  PROVE  StopsOwed'
<1>1. ASSUME NEW until \in Nat, openUntil' = Breaker!openCircuit(k, until),
             owed' \in {owed, [owed EXCEPT ![k] = Breaker!Latest(@, until)]}, UNCHANGED now
      PROVE  StopsOwed'
  <2>1. openUntil' \in [Scopes \X Types -> Nat] /\ owed' \in [Scopes \X Types -> Nat]
    BY <1>1 DEF StopsOwed, Breaker!openCircuit, Breaker!Latest
  <2>2. ASSUME NEW j \in Scopes \X Types, owed'[j] > now PROVE openUntil'[j] >= owed'[j]
    <3>1. /\ openUntil[j] \in Nat /\ owed[j] \in Nat /\ now \in Nat
          /\ owed[j] > now => openUntil[j] >= owed[j]
      BY DEF StopsOwed, Breaker!OwedStopHonoured
    <3>2. CASE j = k
      <4>1. openUntil'[j] = IF openUntil[j] > until THEN openUntil[j] ELSE until
        BY <1>1, <3>2 DEF StopsOwed, Breaker!openCircuit
      <4>2. owed'[j] \in {owed[j], until} /\ (owed'[j] = until \/ owed'[j] = owed[j])
        BY <1>1, <3>2 DEF StopsOwed, Breaker!Latest
      <4> QED BY <2>2, <3>1, <4>1, <4>2
    <3>3. CASE j # k
      BY <1>1, <2>2, <3>1, <3>3 DEF StopsOwed, Breaker!openCircuit
    <3> QED BY <3>2, <3>3
  <2> QED BY <1>1, <2>1, <2>2 DEF StopsOwed, Breaker!OwedStopHonoured
<1>2. CASE UNCHANGED <<now, openUntil, owed>>
  BY <1>2 DEF StopsOwed, Breaker!OwedStopHonoured
<1>3. CASE Breaker!TripExplicit(k, cls)
  <2>1. Breaker!StopsFor(cls) \in Nat
    BY <1>3, ClientAssumption DEF Breaker!TripExplicit, Breaker!StopsFor, Breaker!Classes, Breaker!NoHint
  <2>2. now + Breaker!StopsFor(cls) \in Nat
    BY <2>1 DEF StopsOwed
  <2> QED BY <1>1, <1>3, <2>2 DEF Breaker!TripExplicit
<1>4. CASE Breaker!TripCounted(k, cls)
  <2>1. now + Cooldown \in Nat
    BY ClientAssumption DEF StopsOwed
  <2>2. UNCHANGED <<now, owed>>
        /\ (openUntil' = Breaker!openCircuit(k, now + Cooldown) \/ UNCHANGED openUntil)
    BY <1>4 DEF Breaker!TripCounted
  <2> QED BY <1>1, <1>2, <2>1, <2>2
<1>5. CASE Breaker!TripIgnored(cls)
  BY <1>2, <1>5 DEF Breaker!TripIgnored, Breaker!vars
<1> QED BY <1>3, <1>4, <1>5 DEF Breaker!Trip

LEMMA BreakerKeepsStops == StopsOwed /\ [Breaker!Next]_(Breaker!vars) => StopsOwed'
<1> SUFFICES ASSUME StopsOwed, [Breaker!Next]_(Breaker!vars) PROVE StopsOwed'
  OBVIOUS
<1>1. CASE UNCHANGED Breaker!vars
  BY <1>1 DEF Breaker!vars, StopsOwed, Breaker!OwedStopHonoured
<1>2. CASE Breaker!Tick
  BY <1>2 DEF Breaker!Tick, StopsOwed, Breaker!OwedStopHonoured
<1>3. ASSUME NEW k \in Scopes \X Types, Breaker!AssertClosed(k) PROVE StopsOwed'
  <2>1. openUntil' \in [Scopes \X Types -> Nat] /\ UNCHANGED <<now, owed>>
    BY <1>3 DEF Breaker!AssertClosed, StopsOwed
  <2>2. ASSUME NEW j \in Scopes \X Types, owed[j] > now PROVE openUntil'[j] >= owed[j]
    BY <1>3, <2>2 DEF Breaker!AssertClosed, StopsOwed, Breaker!OwedStopHonoured
  <2> QED BY <2>1, <2>2 DEF StopsOwed, Breaker!OwedStopHonoured
<1> QED BY <1>1, <1>2, <1>3, TripKeepsStops DEF Breaker!Next

\* A call past the breaker was told of no stop beyond the time it began.
ToldFirst ==
  /\ DOMAIN told = Calls
  /\ \A c \in Calls : pc[c] \notin {"idle", "failed"} \/ fetches[c] > 0 => told[c].stop <= told[c].at

StopInv == StopsOwed /\ SendCount /\ ToldFirst

LEMMA CallIsTold == ASSUME StopInv, NEW c \in Calls, Call(c) PROVE ToldFirst'
<1> USE DEF StopInv
<1>1. /\ told' = [told EXCEPT ![c] = [at |-> now, stop |-> owed[key[c]], abuse |-> abuseUntil[account[c]]]]
      /\ pc[c] = "idle" /\ UNCHANGED fetches
      /\ \/ Breaker!IsOpen(key[c]) /\ Goto(c, "failed")
         \/ ~Breaker!IsOpen(key[c])
      /\ \E place : Goto(c, place)
  BY DEF Call, Breaker!AssertClosed, WaitIfNeeded
<1>2. key[c] \in Scopes \X Types
  BY ClientAssumption DEF key, Scopes
<1>3. fetches'[c] = 0
  BY <1>1 DEF SendCount
<1>4. CASE Breaker!IsOpen(key[c]) /\ Goto(c, "failed")
  BY <1>1, <1>3, <1>4 DEF Goto, ToldFirst, SendCount
<1>5. CASE ~Breaker!IsOpen(key[c])
  <2>1. owed[key[c]] <= now
    BY <1>2, <1>5 DEF Breaker!IsOpen, StopsOwed, Breaker!OwedStopHonoured
  <2>2. DOMAIN told' = Calls /\ told'[c].stop <= told'[c].at
    BY <1>1, <2>1 DEF ToldFirst
  <2>3. ASSUME NEW d \in Calls \ {c}
        PROVE  told'[d] = told[d] /\ pc'[d] = pc[d] /\ fetches'[d] = fetches[d]
    BY <1>1 DEF Goto, ToldFirst, SendCount
  <2> QED BY <2>2, <2>3 DEF ToldFirst
<1> QED BY <1>1, <1>4, <1>5

LEMMA StepKeepsTold == StopInv /\ [Next]_vars => ToldFirst'
<1> SUFFICES ASSUME StopInv, [Next]_vars PROVE ToldFirst'
  OBVIOUS
<1> USE DEF StopInv
<1>1. CASE UNCHANGED callVars
  BY <1>1 DEF callVars, ToldFirst
<1>2. ASSUME NEW c \in Calls, pc[c] \notin {"idle", "failed"}, \E place : Goto(c, place),
             UNCHANGED told, \A d \in Calls \ {c} : fetches'[d] = fetches[d]
      PROVE  ToldFirst'
  <2>1. \A d \in Calls \ {c} : pc'[d] = pc[d]
    BY <1>2 DEF Goto
  <2> QED BY <1>2, <2>1 DEF ToldFirst
<1>3. ASSUME NEW c \in Calls, Paced(c) \/ ReceiveHeaders(c) \/ Result(c) \/ Throttled(c)
      PROVE  ToldFirst'
  <2>1. pc[c] \notin {"idle", "failed"} /\ UNCHANGED <<told, fetches>> /\ \E place : Goto(c, place)
    BY <1>3 DEF Paced, ReceiveHeaders, Result, Throttled, WaitIfNeeded
  <2> QED BY <1>2, <2>1
<1>4. ASSUME NEW c \in Calls, Fetch(c) PROVE ToldFirst'
  <2>1. pc[c] \notin {"idle", "failed"} /\ UNCHANGED told /\ \E place : Goto(c, place)
    BY <1>4 DEF Fetch
  <2>2. \A d \in Calls \ {c} : fetches'[d] = fetches[d]
    BY <1>4 DEF Fetch, SendCount
  <2> QED BY <1>2, <2>1, <2>2
<1>5. ASSUME NEW c \in Calls, TransportError(c) \/ BadBody(c) \/ PlainError(c) PROVE ToldFirst'
  <2>1. pc[c] \notin {"idle", "failed"} /\ UNCHANGED <<told, fetches>> /\ \E place : Goto(c, place)
    BY <1>5 DEF TransportError, BadBody, PlainError, RetryOrFail
  <2> QED BY <1>2, <2>1
<1>6. ASSUME NEW c \in Calls, Step(c) PROVE ToldFirst'
  BY <1>6, <1>3, <1>4, <1>5, CallIsTold DEF Step
<1>7. CASE Tick
  BY <1>1, <1>7 DEF Tick
<1>8. CASE UNCHANGED vars
  BY <1>1, <1>8 DEF vars
<1> QED BY <1>6, <1>7, <1>8 DEF Next

LEMMA StopsInvariant == Spec => []StopInv
<1>1. Init => StopInv
  <2> SUFFICES ASSUME Init PROVE StopInv
    OBVIOUS
  <2>1. StopsOwed
    BY DEF Init, Breaker!Init, StopsOwed, Breaker!OwedStopHonoured
  <2>2. ToldFirst
    BY DEF Init, ToldFirst
  <2> QED BY <2>1, <2>2, InitialCount DEF StopInv
<1>2. StopInv /\ [Next]_vars => StopInv'
  BY StepOfBreaker, BreakerKeepsStops, StepKeepsCount, StepKeepsTold DEF StopInv
<1> QED BY <1>1, <1>2, PTL DEF Spec

\* However many calls run at once and in whatever order Meta's answers arrive,
\* no call that begins while a stop is owed to its key is sent (execute,
\* assertClosed, trip).
THEOREM StopsBind == Spec => []StopBindsNewCalls
<1>1. StopInv => StopBindsNewCalls
  BY DEF StopInv, ToldFirst, StopBindsNewCalls
<1> QED BY <1>1, StopsInvariant, PTL
-----------------------------------------------------------------------------
(* The limiter's delay is a time: it is the greatest of finitely many.      *)

LEMMA FiniteImage ==
  ASSUME NEW S, IsFiniteSet(S), NEW f, DOMAIN f = S
  PROVE  IsFiniteSet({f[x] : x \in S})
<1> DEFINE T == {f[x] : x \in S}
           g == [x \in S |-> f[x]]
<1>1. g \in Surjection(S, T)
  BY DEF Surjection
<1> HIDE DEF g, T
<1>2. IsFiniteSet(T)
  BY <1>1, FS_Surjection
<1> QED BY <1>2 DEF T

\* By the size of the first factor: a subset of it whose product is not finite
\* has no least one.
LEMMA FiniteProduct ==
  ASSUME NEW S, IsFiniteSet(S), NEW T, IsFiniteSet(T)
  PROVE  IsFiniteSet(S \X T)
<1> SUFFICES ASSUME ~IsFiniteSet(S \X T) PROVE FALSE
  OBVIOUS
<1> DEFINE Large == {A \in SUBSET S : ~IsFiniteSet(A \X T)}
<1>1. IsWellFoundedOn(StrictSubsetOrdering(S), SUBSET S)
  BY FS_StrictSubsetOrderingWellFounded, FS_FiniteSubsetsOfFinite
<1>2. PICK A \in Large : \A B \in Large : ~(<<B, A>> \in StrictSubsetOrdering(S))
  <2>1. Large \subseteq SUBSET S /\ Large # {}
    BY DEF Large
  <2> HIDE DEF Large
  <2> QED BY <1>1, <2>1, WFMin
<1>3. A # {}
  <2>1. {} \X T = {}
    OBVIOUS
  <2> QED BY <2>1, FS_EmptySet
<1>4. PICK x \in A : TRUE
  BY <1>3
<1>5. IsFiniteSet((A \ {x}) \X T)
  <2>1. <<A \ {x}, A>> \in StrictSubsetOrdering(S)
    BY <1>4 DEF StrictSubsetOrdering
  <2> QED BY <1>2, <2>1
<1>6. IsFiniteSet({x} \X T)
  <2> DEFINE f == [y \in T |-> <<x, y>>]
  <2>1. {f[y] : y \in T} = {x} \X T
    OBVIOUS
  <2>2. DOMAIN f = T
    OBVIOUS
  <2> HIDE DEF f
  <2>3. IsFiniteSet({f[y] : y \in T})
    BY <2>2, FiniteImage
  <2> QED BY <2>1, <2>3
<1>7. A \X T = ((A \ {x}) \X T) \cup ({x} \X T)
  BY <1>4
<1>8. IsFiniteSet(A \X T)
  <2> DEFINE P == (A \ {x}) \X T
             Q == {x} \X T
  <2>1. IsFiniteSet(P) /\ IsFiniteSet(Q) /\ A \X T = P \cup Q
    BY <1>5, <1>6, <1>7
  <2> HIDE DEF P, Q
  <2>2. IsFiniteSet(P \cup Q)
    BY <2>1, FS_Union
  <2> QED BY <2>1, <2>2
<1> QED BY <1>2, <1>8

\* A finite set of numbers has a greatest one.
LEMMA Greatest ==
  ASSUME NEW S \in SUBSET Nat, IsFiniteSet(S), S # {}
  PROVE  Limiter!Max(S) \in S
<1> DEFINE above(n) == {m \in S : m > n}
           Tails == {above(n) : n \in S}
<1>1. IsWellFoundedOn(StrictSubsetOrdering(S), SUBSET S)
  BY FS_StrictSubsetOrderingWellFounded, FS_FiniteSubsetsOfFinite
<1>2. PICK U \in Tails : \A V \in Tails : ~(<<V, U>> \in StrictSubsetOrdering(S))
  <2>1. Tails \subseteq SUBSET S /\ Tails # {}
    OBVIOUS
  <2> HIDE DEF Tails
  <2> QED BY <1>1, <2>1, WFMin
<1>3. PICK n \in S : U = above(n)
  BY <1>2
<1>4. ASSUME NEW m \in S, m > n PROVE FALSE
  <2>1. \A k \in S : k \in Nat
    OBVIOUS
  <2>2. \A k \in S : k > m => k > n
    BY <1>4, <2>1
  <2>3. ~(m > m)
    BY <2>1
  <2>4. above(m) \subseteq above(n) /\ m \in above(n) /\ m \notin above(m)
    BY <1>4, <2>2, <2>3
  <2>5. <<above(m), U>> \in StrictSubsetOrdering(S)
    BY <1>3, <2>4 DEF StrictSubsetOrdering
  <2>6. above(m) \in Tails
    OBVIOUS
  <2> QED BY <1>2, <2>5, <2>6
<1>5. n \in S /\ \A m \in S : n >= m
  BY <1>4
<1> QED BY <1>5 DEF Limiter!Max

\* Every key is a triple of a kind, a scope and a type, of which there are finitely many.
LEMMA FiniteBuckets == IsFiniteSet(Limiter!BucketKeys)
<1> DEFINE kinds == {"app", "insights", "buc", "acc", "reach", "local_retry"}
           names == {"token"} \cup Businesses \cup Scopes
           kindsOfTypes == {"-"} \cup Types
           triples == (kinds \X names) \X kindsOfTypes
           f == [p \in triples |-> Limiter!Key(p[1][1], p[1][2], p[2])]
<1>1. IsFiniteSet(names) /\ IsFiniteSet(kindsOfTypes)
  <2>1. IsFiniteSet(Scopes) /\ IsFiniteSet(Types) /\ IsFiniteSet(Businesses)
    BY ClientAssumption, FS_AddElement DEF Scopes
  <2>2. IsFiniteSet({"token"}) /\ IsFiniteSet({"-"})
    BY FS_Singleton
  <2>3. IsFiniteSet({"token"} \cup Businesses)
    BY <2>1, <2>2, FS_Union
  <2> QED BY <2>1, <2>2, <2>3, FS_Union
<1>2. IsFiniteSet(kinds)
  <2>1. IsFiniteSet({"app"})
    BY FS_Singleton
  <2>2. {"app", "insights"} = {"app"} \cup {"insights"}
        /\ {"app", "insights", "buc"} = {"app", "insights"} \cup {"buc"}
        /\ {"app", "insights", "buc", "acc"} = {"app", "insights", "buc"} \cup {"acc"}
        /\ {"app", "insights", "buc", "acc", "reach"}
              = {"app", "insights", "buc", "acc"} \cup {"reach"}
        /\ kinds = {"app", "insights", "buc", "acc", "reach"} \cup {"local_retry"}
    OBVIOUS
  <2> HIDE DEF kinds
  <2>3. IsFiniteSet({"app", "insights"})
    BY <2>1, <2>2, FS_AddElement
  <2>4. IsFiniteSet({"app", "insights", "buc"})
    BY <2>2, <2>3, FS_AddElement
  <2>5. IsFiniteSet({"app", "insights", "buc", "acc"})
    BY <2>2, <2>4, FS_AddElement
  <2>6. IsFiniteSet({"app", "insights", "buc", "acc", "reach"})
    BY <2>2, <2>5, FS_AddElement
  <2> QED BY <2>2, <2>6, FS_AddElement
<1>3. IsFiniteSet(triples)
  <2> HIDE DEF kinds, names, kindsOfTypes
  <2> QED BY <1>1, <1>2, FiniteProduct
<1>4. DOMAIN f = triples
  OBVIOUS
<1>5. ASSUME NEW k \in Limiter!BucketKeys PROVE \E p \in triples : k = f[p]
  <2>1. ASSUME NEW kind \in kinds, NEW x \in names, NEW t \in kindsOfTypes,
               k = Limiter!Key(kind, x, t)
        PROVE  \E p \in triples : k = f[p]
    <3> DEFINE p == <<<<kind, x>>, t>>
    <3>1. p \in triples /\ f[p] = k
      BY <2>1
    <3> HIDE DEF f, triples, p
    <3> QED BY <3>1
  <2>2. \E kind \in kinds, x \in names, t \in kindsOfTypes : k = Limiter!Key(kind, x, t)
    BY DEF Limiter!BucketKeys, Limiter!Scopes, Scopes
  <2> QED BY <2>1, <2>2
<1> HIDE DEF f, triples
<1>6. IsFiniteSet({f[p] : p \in triples})
  BY <1>3, <1>4, FiniteImage
<1>7. Limiter!BucketKeys \subseteq {f[p] : p \in triples}
  BY <1>5
<1> QED BY <1>6, <1>7, FS_Subset

\* What one bucket holds.
BucketType == [usage : Nat, regainAt : Nat]

LEMMA BucketDelayTyped ==
  ASSUME NEW b \in BucketType, now \in Nat
  PROVE  Limiter!BucketDelay(b) \in Nat
<1>1. Limiter!staircaseDelay(b.usage) \in Nat
  BY DEF Limiter!staircaseDelay, BucketType
<1>2. ASSUME NEW a \in Nat PROVE Limiter!CeilDiv(a, MsPerTick) \in Nat
  <2>1. MsPerTick \in Nat \ {0}
    BY ClientAssumption
  <2> QED BY <2>1 DEF Limiter!CeilDiv
<1> QED BY <1>1, <1>2 DEF Limiter!BucketDelay, BucketType

LEMMA DelayTyped ==
  ASSUME buckets \in [Limiter!BucketKeys -> BucketType], now \in Nat, NEW a
  PROVE  Limiter!getThrottleDelay(a) \in Nat
<1> DEFINE binding == {j \in Limiter!BucketKeys : Limiter!bucketAppliesTo(j, a)}
           f == [k \in binding |-> Limiter!BucketDelay(buckets[k])]
           delays == {f[k] : k \in binding}
<1>1. IsFiniteSet(binding)
  BY FiniteBuckets, FS_Subset
<1>2. IsFiniteSet(delays)
  <2>1. DOMAIN f = binding
    OBVIOUS
  <2> HIDE DEF f, binding
  <2> QED BY <1>1, <2>1, FiniteImage
<1>3. delays \in SUBSET Nat
  BY BucketDelayTyped
<1>4. delays # {}
  <2> DEFINE k == Limiter!Key("app", "token", "-")
  <2>1. k \in Limiter!BucketKeys
    BY DEF Limiter!BucketKeys
  <2>2. k[1] = "app"
    BY DEF Limiter!Key
  <2> HIDE DEF k
  <2>3. Limiter!bucketAppliesTo(k, a)
    BY <2>2 DEF Limiter!bucketAppliesTo
  <2>4. k \in binding
    BY <2>1, <2>3
  <2> QED BY <2>4
<1>5. Limiter!getThrottleDelay(a) = Limiter!Max(delays)
  BY DEF Limiter!getThrottleDelay
<1> HIDE DEF delays
<1> QED BY <1>2, <1>3, <1>4, <1>5, Greatest
-----------------------------------------------------------------------------
(* Types.                                                                   *)

\* What the breaker's module takes for the size of a set is its size.
LEMMA SameSizes ==
  ASSUME NEW S
  PROVE  Breaker!Cardinality(S) = Cardinality(S) /\ (Breaker!IsFiniteSet(S) <=> IsFiniteSet(S))
BY DEF Breaker!Cardinality, Breaker!IsFiniteSet, Cardinality, IsFiniteSet

\* The breaker's part: as in CircuitBreakerProofs, fewer than Threshold
\* throttles of a key are remembered.
LEMMA CountedTypes ==
  ASSUME Breaker!TypeOK, NEW k \in Scopes \X Types, NEW cls, Breaker!TripCounted(k, cls)
  PROVE  throttles' \in [Scopes \X Types -> Seq(Nat)]
         /\ throttleEvents' \in [Scopes \X Types -> SUBSET Nat] /\ Breaker!Remembered'
<1> DEFINE recent == Breaker!Recent(k) \cup {Len(throttles[k]) + 1}
<1>1. throttles' \in [Scopes \X Types -> Seq(Nat)]
  BY DEF Breaker!TripCounted, Breaker!TypeOK
<1>2. recent \in SUBSET Nat
  BY DEF Breaker!Recent, Breaker!TypeOK
<1>3. throttleEvents' = IF Cardinality(recent) >= Threshold
                        THEN [throttleEvents EXCEPT ![k] = {}]
                        ELSE [throttleEvents EXCEPT ![k] = recent]
  BY SameSizes DEF Breaker!TripCounted
<1>4. /\ throttleEvents \in [Scopes \X Types -> SUBSET Nat]
      /\ \A j \in Scopes \X Types :
           IsFiniteSet(throttleEvents[j]) /\ Cardinality(throttleEvents[j]) < Threshold
  BY SameSizes DEF Breaker!TypeOK, Breaker!Remembered
<1>5. IsFiniteSet(recent)
  <2>1. Breaker!Recent(k) \subseteq throttleEvents[k]
    BY DEF Breaker!Recent
  <2>2. IsFiniteSet(Breaker!Recent(k))
    BY <1>4, <2>1, FS_Subset
  <2> QED BY <2>2, FS_AddElement
<1> HIDE DEF recent
<1>6. Cardinality(recent) \in Nat /\ Threshold \in Nat \ {0}
  BY <1>5, FS_CardinalityType, ClientAssumption
<1>7. Breaker!Remembered'
  <2>1. ASSUME NEW j \in Scopes \X Types
        PROVE  IsFiniteSet(throttleEvents'[j]) /\ Cardinality(throttleEvents'[j]) < Threshold
    <3>1. throttleEvents'[j] \in {throttleEvents[j], {}}
          \/ (throttleEvents'[j] = recent /\ ~(Cardinality(recent) >= Threshold))
      BY <1>3, <1>4
    <3>2. IsFiniteSet({}) /\ Cardinality({}) < Threshold
      BY <1>6, FS_EmptySet
    <3>3. IsFiniteSet(throttleEvents[j]) /\ Cardinality(throttleEvents[j]) < Threshold
      BY <1>4
    <3>4. Cardinality(recent) < Threshold \/ Cardinality(recent) >= Threshold
      BY <1>6
    <3> QED BY <1>5, <3>1, <3>2, <3>3, <3>4, Zenon
  <2> QED BY <2>1, SameSizes DEF Breaker!Remembered
<1>8. throttleEvents' \in [Scopes \X Types -> SUBSET Nat]
  BY <1>2, <1>3, <1>4
<1> QED BY <1>1, <1>7, <1>8

LEMMA BreakerTypes ==
  ASSUME Breaker!TypeOK, StopsOwed', [Breaker!Next]_(Breaker!vars)
  PROVE  Breaker!TypeOK'
<1>1. CASE UNCHANGED <<throttles, throttleEvents>>
  BY <1>1 DEF StopsOwed, Breaker!TypeOK, Breaker!Remembered
<1>2. ASSUME NEW k \in Scopes \X Types, NEW cls, Breaker!TripCounted(k, cls) PROVE Breaker!TypeOK'
  BY <1>2, CountedTypes DEF StopsOwed, Breaker!TypeOK
<1> QED BY <1>1, <1>2 DEF Breaker!Next, Breaker!Trip, Breaker!TripExplicit, Breaker!TripIgnored,
                      Breaker!AssertClosed, Breaker!Tick, Breaker!vars

\* What a response's headers say goes into buckets of the type.
LEMMA HeadersTyped ==
  ASSUME TypeOK, NEW c \in Calls, NEW headers \in Headers,
         Limiter!updateFromHeaders(headers, account[c])
  PROVE  buckets' \in [Limiter!BucketKeys -> BucketType]
<1> DEFINE written == UNION {Limiter!Writes(h, account[c]) : h \in headers}
<1>1. now \in Nat /\ buckets \in [Limiter!BucketKeys -> BucketType]
  BY DEF TypeOK, Breaker!TypeOK, BucketType
<1>2. ASSUME NEW h \in headers, NEW w \in Limiter!Writes(h, account[c]) PROVE w[2] \in BucketType
  <2>1. /\ h.kind \in {"app", "buc", "insights", "acc", "reach"}
        /\ h.usage \in Nat /\ h.accountUsage \in Nat /\ h.regain \in Nat
    BY ClientAssumption
  <2>2. ASSUME NEW u \in Nat, NEW r \in Nat PROVE [usage |-> u, regainAt |-> now + r] \in BucketType
    BY <1>1 DEF BucketType
  <2>3. \E u \in {h.usage, h.accountUsage}, r \in {0, h.regain} :
          w[2] = [usage |-> u, regainAt |-> now + r]
    BY <1>2, <2>1 DEF Limiter!Writes
  <2> QED BY <2>1, <2>2, <2>3
<1>3. \A w \in written : w[2] \in BucketType
  BY <1>2
<1>4. buckets' = [k \in Limiter!BucketKeys |->
                    IF \E w \in written : w[1] = k
                    THEN (CHOOSE w \in written : w[1] = k)[2] ELSE buckets[k]]
  BY DEF Limiter!updateFromHeaders
<1> HIDE DEF written
<1>5. ASSUME NEW k \in Limiter!BucketKeys PROVE buckets'[k] \in BucketType
  <2>1. CASE \E w \in written : w[1] = k
    <3>1. (CHOOSE w \in written : w[1] = k) \in written
      BY <2>1
    <3> QED BY <1>3, <1>4, <2>1, <3>1
  <2> QED BY <1>1, <1>4, <2>1
<1> QED BY <1>4, <1>5

\* So does a hint.
LEMMA HintTyped ==
  ASSUME TypeOK, NEW c \in Calls, Throttled(c)
  PROVE  buckets' \in [Limiter!BucketKeys -> BucketType]
<1>1. now \in Nat /\ buckets \in [Limiter!BucketKeys -> BucketType]
  BY DEF TypeOK, Breaker!TypeOK, BucketType
<1>2. PICK e \in GraphErrors :
        LET hint == Errors!classifyMetaError(e).retryAfter
        IN  IF hint > 0 THEN Limiter!markRetryAfter(account[c], type[c], hint) ELSE UNCHANGED buckets
  BY DEF Throttled
<1> DEFINE hint == Errors!classifyMetaError(e).retryAfter
<1>3. hint \in Nat \cup {-1}
  BY ClassOfError, ClientAssumption DEF Breaker!NoHint
<1> HIDE DEF hint
<1>4. CASE hint > 0
  <2>1. [usage |-> 0, regainAt |-> now + hint] \in BucketType
    BY <1>1, <1>3, <1>4 DEF BucketType
  <2>2. Limiter!markRetryAfter(account[c], type[c], hint)
    BY <1>2, <1>4 DEF hint
  <2> QED BY <1>1, <2>1, <2>2 DEF Limiter!markRetryAfter
<1>5. CASE ~(hint > 0)
  BY <1>1, <1>2, <1>5 DEF hint
<1> QED BY <1>4, <1>5

LEMMA WaitTyped ==
  ASSUME TypeOK, NEW c \in Calls, WaitIfNeeded(c)
  PROVE  wakeAt' \in [Calls -> Nat] /\ pc' = [pc EXCEPT ![c] = "waiting"]
<1>1. now \in Nat /\ buckets \in [Limiter!BucketKeys -> BucketType]
  BY DEF TypeOK, Breaker!TypeOK, BucketType
<1>2. Limiter!getThrottleDelay(account[c]) \in Nat
  BY <1>1, DelayTyped
<1>3. now + Limiter!getThrottleDelay(account[c]) \in Nat
  BY <1>1, <1>2
<1> QED BY <1>3 DEF WaitIfNeeded, Goto, TypeOK

\* The type invariant but for the breaker's variables.
CallsTyped ==
  /\ buckets \in [Limiter!BucketKeys -> BucketType]
  /\ pc \in [Calls -> {"idle", "pacing", "waiting", "fetch",
                       "headers", "body", "backoff", "ok", "failed"}]
  /\ wakeAt \in [Calls -> Nat]
  /\ attempt \in [Calls -> 0..MaxRetries]
  /\ fetches \in [Calls -> Nat]
  /\ answer \in [Calls -> {"none", "transport", "throttle", "transient",
                           "invalid"} \cup PlainBodies]
  /\ told \in [Calls -> [at : Nat, stop : Nat, abuse : Nat]]
  /\ abuseUntil \in [Scopes -> Nat]

LEMMA TypesInTwo == TypeOK <=> Breaker!TypeOK /\ CallsTyped
BY DEF TypeOK, CallsTyped, BucketType

LEMMA RetryTyped ==
  ASSUME TypeOK, NEW c \in Calls, NEW said, NEW retryable, RetryOrFail(c, said, retryable),
         said \in {"transport", "throttle", "transient", "invalid"} \cup PlainBodies
  PROVE  CallsTyped'
<1>1. CallsTyped
  BY TypesInTwo
<1>2. answer' = [answer EXCEPT ![c] = said]
      /\ UNCHANGED <<buckets, wakeAt, fetches, told, abuseUntil>>
  BY DEF RetryOrFail
<1>3. attempt' \in [Calls -> 0..MaxRetries]
  BY <1>1, ClientAssumption DEF RetryOrFail, attemptLeft, CallsTyped
<1>4. pc' = [pc EXCEPT ![c] = "backoff"] \/ pc' = [pc EXCEPT ![c] = "failed"]
  BY DEF RetryOrFail, Goto
<1> QED BY <1>1, <1>2, <1>3, <1>4 DEF CallsTyped

LEMMA CallTyped == ASSUME TypeOK, NEW c \in Calls, Call(c) PROVE CallsTyped'
<1>1. CallsTyped /\ now \in Nat /\ owed \in [Scopes \X Types -> Nat]
  BY TypesInTwo DEF Breaker!TypeOK
<1>2. key[c] \in Scopes \X Types /\ account[c] \in Scopes
  BY ClientAssumption DEF key, Scopes
<1>3. told' \in [Calls -> [at : Nat, stop : Nat, abuse : Nat]]
  <2> DEFINE word == [at |-> now, stop |-> owed[key[c]], abuse |-> abuseUntil[account[c]]]
  <2>1. word \in [at : Nat, stop : Nat, abuse : Nat]
    BY <1>1, <1>2 DEF CallsTyped
  <2>2. told' = [told EXCEPT ![c] = word]
    BY DEF Call
  <2> HIDE DEF word
  <2> QED BY <1>1, <2>1, <2>2 DEF CallsTyped
<1>4. /\ wakeAt' \in [Calls -> Nat]
      /\ \E place \in {"failed", "pacing", "waiting"} : pc' = [pc EXCEPT ![c] = place]
  <2>1. CASE WaitIfNeeded(c)
    BY <2>1, WaitTyped
  <2>2. CASE UNCHANGED wakeAt /\ (Goto(c, "failed") \/ Goto(c, "pacing"))
    BY <1>1, <2>2 DEF CallsTyped, Goto
  <2> QED BY <2>1, <2>2 DEF Call
<1>5. UNCHANGED <<buckets, attempt, fetches, answer, abuseUntil>>
  BY DEF Call
<1> QED BY <1>1, <1>3, <1>4, <1>5 DEF CallsTyped

LEMMA ThrottledTyped == ASSUME TypeOK, NEW c \in Calls, Throttled(c) PROVE CallsTyped'
<1>1. CallsTyped /\ now \in Nat /\ account[c] \in Scopes
  BY TypesInTwo, ClientAssumption DEF Breaker!TypeOK, Scopes
<1>2. UNCHANGED <<wakeAt, attempt, fetches, told>> /\ pc' = [pc EXCEPT ![c] = "failed"]
  BY DEF Throttled, Goto
<1>3. \E e : answer' = [answer EXCEPT ![c] = Meant(e)]
  BY DEF Throttled
<1>4. answer' \in [Calls -> {"none", "transport", "throttle", "transient", "invalid"}
                              \cup PlainBodies]
  BY <1>1, <1>3 DEF CallsTyped, Meant
<1>5. now + AbuseCooldown \in Nat
  BY <1>1, ClientAssumption
<1>6. abuseUntil' \in {abuseUntil, [abuseUntil EXCEPT ![account[c]] = now + AbuseCooldown]}
  BY DEF Throttled
<1>7. abuseUntil' \in [Scopes -> Nat]
  BY <1>1, <1>5, <1>6 DEF CallsTyped
<1> QED BY <1>1, <1>2, <1>4, <1>7, HintTyped DEF CallsTyped

LEMMA StepTyped == ASSUME TypeOK, [Next]_vars PROVE CallsTyped'
<1>1. CallsTyped
  BY TypesInTwo
<1>2. CASE UNCHANGED <<buckets, callVars, abuseUntil>>
  BY <1>1, <1>2 DEF callVars, CallsTyped
<1>3. ASSUME NEW c \in Calls, Paced(c) PROVE CallsTyped'
  BY <1>1, <1>3, WaitTyped DEF Paced, CallsTyped
<1>4. ASSUME NEW c \in Calls, Fetch(c) PROVE CallsTyped'
  BY <1>1, <1>4 DEF Fetch, Goto, CallsTyped
<1>5. ASSUME NEW c \in Calls, ReceiveHeaders(c) PROVE CallsTyped'
  <2>1. buckets' \in [Limiter!BucketKeys -> BucketType]
    BY <1>5, HeadersTyped DEF ReceiveHeaders
  <2> QED BY <1>1, <1>5, <2>1 DEF ReceiveHeaders, Goto, CallsTyped
<1>6. ASSUME NEW c \in Calls, Result(c) PROVE CallsTyped'
  BY <1>1, <1>6 DEF Result, Goto, CallsTyped, PlainBodies
<1>7. ASSUME NEW c \in Calls, TransportError(c) PROVE CallsTyped'
  BY <1>7, RetryTyped DEF TransportError
<1>8. ASSUME NEW c \in Calls, BadBody(c) PROVE CallsTyped'
  <2>1. PICK said \in Bodies : RetryOrFail(c, said, TRUE)
    BY <1>8 DEF BadBody
  <2>2. said \in PlainBodies
    BY ClientAssumption DEF PlainBodies
  <2> QED BY <2>1, <2>2, RetryTyped
<1>9. ASSUME NEW c \in Calls, PlainError(c) PROVE CallsTyped'
  <2>1. PICK e \in GraphErrors : RetryOrFail(c, Meant(e), Errors!classifyMetaError(e).retryable)
    BY <1>9 DEF PlainError
  <2>2. Meant(e) \in {"throttle", "transient", "invalid"}
    BY DEF Meant
  <2> QED BY <2>1, <2>2, RetryTyped
<1> QED BY <1>2, <1>3, <1>4, <1>5, <1>6, <1>7, <1>8, <1>9, CallTyped, ThrottledTyped
        DEF Next, Step, Tick, vars

LEMMA TypesInitially == Init => TypeOK
<1> SUFFICES ASSUME Init PROVE TypeOK
  OBVIOUS
<1>1. Breaker!TypeOK
  <2>1. throttleEvents = [k \in Scopes \X Types |-> {}]
    BY DEF Init, Breaker!Init
  <2>2. IsFiniteSet({}) /\ Cardinality({}) = 0 /\ Threshold \in Nat \ {0}
    BY FS_EmptySet, ClientAssumption
  <2>3. Breaker!Remembered
    BY <2>1, <2>2, SameSizes DEF Breaker!Remembered
  <2> QED BY <2>3 DEF Init, Breaker!Init, Breaker!TypeOK
<1>2. buckets \in [Limiter!BucketKeys -> BucketType]
  BY DEF Init, Limiter!InitBuckets, Limiter!NoUsage, BucketType
<1>3. CallsTyped
  BY <1>2, ClientAssumption DEF Init, CallsTyped
<1> QED BY <1>1, <1>3, TypesInTwo

\* Every part of the client and of the throttles it feeds keeps its type: what the
\* limiter computes from any headers and hints is a time to wait, the breaker
\* remembers fewer throttles than it counts to, and no attempt is made beyond
\* the retries (client.ts, rate-limiter.ts, circuit-breaker.ts).
THEOREM ClientTypes == Spec => []TypeOK
<1>1. TypeOK /\ StopInv' /\ [Next]_vars => TypeOK'
  <2> SUFFICES ASSUME TypeOK, StopInv', [Next]_vars PROVE TypeOK'
    OBVIOUS
  <2>1. Breaker!TypeOK'
    BY BreakerTypes, StepOfBreaker DEF TypeOK, StopInv
  <2>2. CallsTyped'
    BY StepTyped
  <2> QED BY <2>1, <2>2 DEF TypeOK, CallsTyped, BucketType
<1>2. Spec => []StopInv
  BY StopsInvariant
<1> QED BY <1>1, <1>2, TypesInitially, PTL DEF Spec

\* A retry-after hint for one account changes the delay of no other, whatever
\* else the buckets say (bucketAppliesTo, markRetryAfter).
THEOREM HintsSpareOthers == Spec => HintsStayInAccount
<1>1. ASSUME [Next]_vars, NEW c \in Calls, pc[c] = "body", pc'[c] = "failed",
             NEW a \in Scopes \ {account[c]}, TypeOK
      PROVE  Limiter!getThrottleDelay(a)' = Limiter!getThrottleDelay(a)
  <2>1. PICK b \in Calls : Step(b)
    BY <1>1 DEF Next, Tick, vars, callVars
  <2>2. b = c
    BY <1>1, <2>1 DEF TypeOK, Step, Call, Paced, Fetch, ReceiveHeaders, TransportError, Result, BadBody,
                      PlainError, Throttled, RetryOrFail, Goto, WaitIfNeeded
  <2>3. UNCHANGED now /\ (UNCHANGED buckets \/
          \E hint : buckets' = [buckets EXCEPT ![Limiter!Key("local_retry", account[c], type[c])] =
                                  [usage |-> 0, regainAt |-> now + hint]])
    <3>1. CASE Throttled(c)
      BY <3>1 DEF Throttled, Limiter!markRetryAfter, Breaker!Trip, Breaker!TripExplicit,
                  Breaker!TripCounted, Breaker!TripIgnored, Breaker!vars
    <3>2. CASE ~Throttled(c)
      BY <1>1, <2>1, <2>2, <3>2 DEF Step, Call, Paced, Fetch, ReceiveHeaders, TransportError,
            Result, BadBody, PlainError, RetryOrFail, Goto
    <3> QED BY <3>1, <3>2
  <2>4. ASSUME NEW k \in Limiter!BucketKeys, Limiter!bucketAppliesTo(k, a)
        PROVE  buckets'[k] = buckets[k]
    <3>1. ASSUME k = Limiter!Key("local_retry", account[c], type[c]) PROVE FALSE
      <4>1. k[1] = "local_retry" /\ k[2] = account[c]
        BY <3>1 DEF Limiter!Key
      <4>2. k[2] = a
        BY <2>4, <4>1 DEF Limiter!bucketAppliesTo
      <4> QED BY <4>1, <4>2
    <3> QED BY <1>1, <2>3, <3>1 DEF TypeOK
  <2> DEFINE binding == {j \in Limiter!BucketKeys : Limiter!bucketAppliesTo(j, a)}
  <2>5. \A k \in binding : Limiter!BucketDelay(buckets[k])' = Limiter!BucketDelay(buckets[k])
    BY <2>3, <2>4 DEF Limiter!BucketDelay
  <2>6. {Limiter!BucketDelay(buckets[k])' : k \in binding}
          = {Limiter!BucketDelay(buckets[k]) : k \in binding}
    BY <2>5
  <2> QED BY <2>6 DEF Limiter!getThrottleDelay
<1>2. [Next]_vars /\ TypeOK =>
        \A c \in Calls : (pc[c] = "body" /\ pc'[c] = "failed") =>
          \A a \in Scopes \ {account[c]} :
            Limiter!getThrottleDelay(a)' = Limiter!getThrottleDelay(a)
  BY <1>1
<1> QED BY <1>2, ClientTypes, PTL DEF Spec, HintsStayInAccount
=============================================================================
