----------------------------- MODULE MetaClient -----------------------------
(* MetaApiClient.execute (src/src/meta/client.ts): concurrent calls to the *)
(* Graph API under one access token, through the circuit breaker, the      *)
(* write pacer, the rate limiter and the retry loop.                       *)
(*                                                                         *)
(* Each element of Calls is one call of execute. Meta is the environment:  *)
(* it answers with any member of Bodies, GraphErrors and Headers, or not in time. The  *)
(* pacer's wait (module WritePacer) and the backoff are timers of any      *)
(* length; the limiter's wait is the delay it computes.                    *)
EXTENDS Integers, FiniteSets, Sequences

CONSTANTS
  Calls,           \* calls of execute
  account,         \* call -> extractAccountId(path) or the scope's account
  type,            \* call -> guessBucType(method, path)
  Read, Update, Create,  \* the calls by effect: GET; POST/DELETE that creates
                         \* nothing; POST whose every execution creates a resource
  CreatingPath,    \* the POSTs whose path isCreatingRequest recognises
  Accounts, NoAccount, Types, Businesses, MsPerTick,
  MaxRetries,      \* the client's maxRetries (3)
  Bodies,          \* bodies that are no Graph API error: see PlainBodies
  GraphErrors,     \* the Graph API errors [code, subcode] Meta may answer
  Headers,         \* the usage headers of a response: sets of headers
  GlobalInsightsHint, BlockHint, AbuseHint,
  Window, Threshold, Cooldown, BlockCooldown, AbuseCooldown,
  LastCall,        \* bound: no call starts later
  MaxTime          \* bound: the clock stops here

ASSUME ClientAssumption ==
  /\ Calls = Read \cup Update \cup Create
  /\ Read \cap Update = {} /\ Create \cap (Read \cup Update) = {}
  /\ CreatingPath \subseteq Update \cup Create
  /\ account \in [Calls -> Accounts \cup {NoAccount}] /\ type \in [Calls -> Types]
  /\ MaxRetries \in Nat /\ Bodies \subseteq {"ok", "http_4xx", "http_5xx", "not_json"}
  /\ {GlobalInsightsHint, BlockHint, AbuseHint} \subseteq Nat
  /\ {Cooldown, BlockCooldown, AbuseCooldown} \subseteq Nat
  /\ Threshold \in Nat \ {0} /\ MsPerTick \in Nat \ {0}
  /\ IsFiniteSet(Accounts) /\ IsFiniteSet(Types) /\ IsFiniteSet(Businesses)
  /\ Headers \subseteq SUBSET [kind : {"app", "buc", "insights", "acc", "reach"},
                              business : Businesses, type : Types,
                              usage : Nat, accountUsage : Nat, regain : Nat]

VARIABLES
  now,
  openUntil, throttles, throttleEvents, owed,  \* CircuitBreaker
  buckets,         \* RateLimiter
  pc,              \* call -> where execute is
  wakeAt,          \* call -> end of the limiter's wait
  attempt,         \* call -> attempts made before this one
  fetches,         \* history: call -> requests sent
  answer,          \* history: call -> the last thing Meta or the network said
  told,            \* history: call -> [at, stop, abuse]: when it began, and for how
                   \* long its key, and its account for abuse, had to stop
  abuseUntil       \* history: account -> end of the stop for abuse signals

breakerVars == <<openUntil, throttles, throttleEvents, owed>>
callVars == <<pc, wakeAt, attempt, fetches, answer, told>>
vars == <<now, breakerVars, buckets, callVars, abuseUntil>>

Scopes == Accounts \cup {NoAccount}
key == [c \in Calls |-> <<account[c], type[c]>>]   \* circuitKey, for one token

Breaker == INSTANCE CircuitBreaker WITH
             Keys <- Scopes \X Types, MaxThrottles <- Cardinality(Calls),
             Hints <- {GlobalInsightsHint, BlockHint, AbuseHint}
Limiter == INSTANCE RateLimiter
Errors == INSTANCE MetaErrors

\* What Meta says by an error, read off the error itself.
Meant(e) ==
  IF e.subcode \in {1996, 1487742} \/ e.code \in {4, 17, 32, 368, 613} THEN "throttle"
  ELSE IF e.code \in {1, 2} THEN "transient" ELSE "invalid"

\* The bodies that are no Graph API error.
PlainBodies == {"ok", "http_4xx", "http_5xx", "not_json"}

TypeOK ==
  /\ Breaker!TypeOK
  /\ buckets \in [Limiter!BucketKeys -> [usage : Nat, regainAt : Nat]]
  /\ pc \in [Calls -> {"idle", "pacing", "waiting", "fetch",
                       "headers", "body", "backoff", "ok", "failed"}]
  /\ wakeAt \in [Calls -> Nat]
  /\ attempt \in [Calls -> 0..MaxRetries]
  /\ fetches \in [Calls -> Nat]
  /\ answer \in [Calls -> {"none", "transport", "throttle", "transient",
                           "invalid"} \cup PlainBodies]
  /\ told \in [Calls -> [at : Nat, stop : Nat, abuse : Nat]]
  /\ abuseUntil \in [Scopes -> Nat]

Init ==
  /\ Breaker!Init
  /\ buckets = Limiter!InitBuckets
  /\ pc = [c \in Calls |-> "idle"]
  /\ wakeAt = [c \in Calls |-> 0]
  /\ attempt = [c \in Calls |-> 0]
  /\ fetches = [c \in Calls |-> 0]
  /\ answer = [c \in Calls |-> "none"]
  /\ told = [c \in Calls |-> [at |-> 0, stop |-> 0, abuse |-> 0]]
  /\ abuseUntil = [a \in Scopes |-> 0]
-----------------------------------------------------------------------------
Goto(c, place) == pc' = [pc EXCEPT ![c] = place]

isWrite(c) == c \in Update \cup Create /\ account[c] # NoAccount

\* Whether a failed call may be sent again is read off its path, not its effect.
retryAnything(c) == TRUE                        \* mutant
canRetryTransport(c) == c \notin CreatingPath

attemptLeftTooMany(c) == attempt[c] <= MaxRetries   \* mutant
attemptLeft(c) == attempt[c] < MaxRetries

\* waitIfNeeded: the delay is computed once, from the buckets as they are.
WaitIfNeeded(c) ==
  /\ wakeAt' = [wakeAt EXCEPT ![c] = now + Limiter!getThrottleDelay(account[c])]
  /\ Goto(c, "waiting")

\* execute up to its first wait. The breaker is asked once, here; a write goes
\* to the pacer, anything else straight to the limiter.
Call(c) ==
  /\ pc[c] = "idle" /\ now <= LastCall
  /\ told' = [told EXCEPT ![c] = [at |-> now, stop |-> owed[key[c]],
                                   abuse |-> abuseUntil[account[c]]]]
  /\ \/ Breaker!IsOpen(key[c]) /\ Goto(c, "failed")
        /\ UNCHANGED <<now, breakerVars, wakeAt>>
     \/ Breaker!AssertClosed(key[c]) /\ isWrite(c) /\ Goto(c, "pacing")
        /\ UNCHANGED wakeAt
     \/ Breaker!AssertClosed(key[c]) /\ ~isWrite(c) /\ WaitIfNeeded(c)
  /\ UNCHANGED <<buckets, attempt, fetches, answer, abuseUntil>>

\* writePacer.acquire returns, with or without having waited.
Paced(c) ==
  /\ pc[c] = "pacing" /\ WaitIfNeeded(c)
  /\ UNCHANGED <<now, breakerVars, buckets, attempt, fetches, answer,
                 told, abuseUntil>>

\* The request leaves: first after the limiter's wait, then after a backoff.
Fetch(c) ==
  /\ \/ pc[c] = "waiting" /\ now >= wakeAt[c]
     \/ pc[c] = "backoff"
  /\ Goto(c, "headers")
  /\ fetches' = [fetches EXCEPT ![c] = @ + 1]
  /\ UNCHANGED <<now, breakerVars, buckets, wakeAt, attempt, answer,
                 told, abuseUntil>>

\* The response's headers arrive in time and update the limiter.
ReceiveHeaders(c) ==
  /\ pc[c] = "headers" /\ Goto(c, "body")
  /\ \E headers \in Headers : Limiter!updateFromHeaders(headers, account[c])
  /\ UNCHANGED <<now, breakerVars, wakeAt, attempt, fetches, answer,
                 told, abuseUntil>>

\* The end of an attempt: one more if it may be repeated and the loop has one
\* left, else an error.
RetryOrFail(c, said, retryable) ==
  /\ answer' = [answer EXCEPT ![c] = said]
  /\ IF retryable /\ canRetryTransport(c) /\ attemptLeft(c)
     THEN /\ Goto(c, "backoff")
          /\ attempt' = [attempt EXCEPT ![c] = @ + 1]
     ELSE Goto(c, "failed") /\ UNCHANGED attempt
  /\ UNCHANGED <<now, breakerVars, buckets, wakeAt, fetches, told, abuseUntil>>

\* Mutant: nothing bounds the time the body takes.
TransportErrorBeforeHeaders(c) ==
  /\ pc[c] = "headers"
  /\ RetryOrFail(c, "transport", TRUE)

\* The abort timer or the network ends the attempt. Meta may have executed it.
TransportError(c) ==
  /\ pc[c] \in {"headers", "body"}
  /\ RetryOrFail(c, "transport", TRUE)

\* A result.
Result(c) ==
  /\ pc[c] = "body" /\ Goto(c, "ok")
  /\ answer' = [answer EXCEPT ![c] = "ok"]
  /\ UNCHANGED <<now, breakerVars, buckets, wakeAt, attempt, fetches, told,
                 abuseUntil>>

\* A bad status without a Graph API error, or a body that is no JSON. The catch
\* block retries the error thrown for a 4xx like any other without a code.
BadBody(c) ==
  /\ pc[c] = "body"
  /\ \E said \in Bodies \ {"ok"} : RetryOrFail(c, said, TRUE)

\* A Graph API error that is no throttle: only transient ones are retried.
PlainError(c) ==
  /\ pc[c] = "body"
  /\ \E e \in GraphErrors :
       LET cls == Errors!classifyMetaError(e)
       IN  /\ ~cls.throttled
           /\ RetryOrFail(c, Meant(e), cls.retryable)

\* A throttle: seed the limiter with the hint, trip the breaker, never retry.
Throttled(c) ==
  /\ pc[c] = "body" /\ Goto(c, "failed")
  /\ \E e \in GraphErrors :
       LET cls == Errors!classifyMetaError(e)
           seen == [cls EXCEPT !.category =
                      IF @ \in {"abuse_signal", "temporary_block"} THEN @ ELSE "other"]
       IN  /\ cls.throttled
           /\ answer' = [answer EXCEPT ![c] = Meant(e)]
           /\ IF cls.retryAfter > 0
              THEN Limiter!markRetryAfter(account[c], type[c], cls.retryAfter)
              ELSE UNCHANGED buckets
           /\ Breaker!Trip(key[c], seen)
           /\ abuseUntil' = IF cls.category = "abuse_signal"
                            THEN [abuseUntil EXCEPT ![account[c]] = now + AbuseCooldown]
                            ELSE abuseUntil
  /\ UNCHANGED <<wakeAt, attempt, fetches, told>>

\* Bound: the pacer lets its writes go by LastCall.
Tick ==
  /\ now < LastCall \/ \A c \in Calls : pc[c] # "pacing"
  /\ Breaker!Tick
  /\ UNCHANGED <<buckets, callVars, abuseUntil>>

Step(c) ==
  \/ Call(c) \/ Paced(c) \/ Fetch(c) \/ ReceiveHeaders(c)
  \/ TransportError(c) \/ Result(c) \/ BadBody(c) \/ PlainError(c) \/ Throttled(c)

Next == Tick \/ \E c \in Calls : Step(c)

Spec == Init /\ [][Next]_vars

\* Timers fire: the waits end, and an attempt Meta never answers is aborted.
\* Nothing is assumed of Meta, and a call need not be made.
Fairness ==
  /\ WF_vars(Tick)
  /\ \A c \in Calls : WF_vars(Paced(c)) /\ WF_vars(Fetch(c)) /\ WF_vars(TransportError(c))

FairSpec == Spec /\ Fairness
-----------------------------------------------------------------------------
\* A request whose path the client takes for a creating one is sent at most
\* once, whatever fails; any other at most MaxRetries + 1 times
\* (isCreatingRequest and the retry loop, client.ts:219-312).
SentAtMostOnce ==
  \A c \in Calls : fetches[c] <= (IF c \in CreatingPath THEN 1 ELSE MaxRetries + 1)

\* "retrying a timeout/5xx/network error can mint duplicates ... Other POSTs
\* (updates on /<id>) and DELETEs are idempotent at the API level"
\* (client.ts:207-218): what creates a resource is not sent a second time.
CreationsNotResent == \A c \in Create : fetches[c] <= 1

\* A call made while Meta's answers still ask its key to stop is never sent,
\* whatever concurrent calls of the key received in between (client.ts:190-194,
\* circuit-breaker.ts): no later hint shortens the stop, no sweep drops it.
StopBindsNewCalls ==
  \A c \in Calls : fetches[c] > 0 => told[c].stop <= told[c].at

\* "We never want a per-account throttle signal to block sibling accounts under
\* the same token" (rate-limiter.ts:195-197): recording a retry-after hint
\* changes the delay of no other account.
HintsStayInAccount ==
  [][\A c \in Calls : (pc[c] = "body" /\ pc'[c] = "failed") =>
       \A a \in Scopes \ {account[c]} :
         Limiter!getThrottleDelay(a)' = Limiter!getThrottleDelay(a)]_vars

\* Every call of execute comes to a result or an error, however Meta, the
\* network and the other calls behave (client.ts:175-320).
EveryCallSettles ==
  \A c \in Calls : pc[c] # "idle" ~> pc[c] \in {"ok", "failed"}

\* "60 min circuit for that (token, account)" (README.md:639) on abuse signal
\* 1996, "used by abuse signals that should pause the entire token"
\* (circuit-breaker.ts:171-172): a call made after the signal, of whatever type, is not sent
\* before the cool-down is over.
AbuseStopsAccount ==
  [][\A c \in Calls : fetches'[c] > fetches[c] => now >= told[c].abuse]_vars

\* "Throttled errors are never retried inside the same request"
\* (README.md:700), nor is one that a retry cannot cure: not even when the code
\* of the error says transient and only its subcode says to stop.
ThrottleNeverRetried ==
  \A c \in Calls : answer[c] \in {"throttle", "invalid"} => pc[c] = "failed"

\* "Only truly transient errors (codes 1, 2; HTTP 5xx; aborts) are retried"
\* (README.md:700).
OnlyTransientRetried ==
  \A c \in Calls : pc[c] = "backoff" => answer[c] \in {"transient", "http_5xx", "transport"}
=============================================================================
