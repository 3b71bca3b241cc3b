----------------------------- MODULE RateLimiter -----------------------------
(* The reactive limiter of the Meta client (src/src/meta/rate-limiter.ts): *)
(* buckets of usage, written from response headers and from retry-after    *)
(* hints, and the delay they impose on the next request.                   *)
(*                                                                         *)
(* One access token. The call, CPU and time percentages of a bucket are    *)
(* one usage, their maximum, which is all getThrottleDelay reads. A missing*)
(* bucket is one with no usage and nothing to wait for.                    *)
EXTENDS Integers, FiniteSetsExt

CONSTANTS
  Accounts,     \* account ids of the requests' paths
  NoAccount,    \* a path without one ("_" in the keys)
  Types,        \* business-use-case types
  Businesses,   \* business ids of the X-Business-Use-Case-Usage header
  MsPerTick     \* the clock's grain

VARIABLES
  now,          \* Date.now(), in ticks
  buckets       \* bucket key -> [usage, regainAt]

Scopes == Accounts \cup {NoAccount}

\* bucketKey: kind, then the scope, then the type where the key has one.
Key(kind, scope, type) == <<kind, scope, type>>
BucketKeys ==
  {Key(kind, "token", "-") : kind \in {"app", "insights"}}
  \cup {Key("buc", b, t) : b \in Businesses, t \in Types}
  \cup {Key(kind, a, "-") : kind \in {"insights", "acc", "reach"}, a \in Accounts}
  \cup {Key("local_retry", s, t) : s \in Scopes, t \in Types}

NoUsage == [usage |-> 0, regainAt |-> 0]
InitBuckets == [k \in BucketKeys |-> NoUsage]
-----------------------------------------------------------------------------
CeilDiv(a, b) == (a + b - 1) \div b

\* Milliseconds to slow down by at a usage in percent: 100 ms at 75 % to 2 s
\* at 95 %, then 5 s to 60 s at 100 % (Math.round of exact quotients).
staircaseDelay(usage) ==
  IF usage < 75 THEN 0
  ELSE IF usage < 95 THEN 100 + (usage - 75) * 95
  ELSE 5000 + (IF usage >= 100 THEN 55000 ELSE (usage - 95) * 11000)

\* Mutant: a retry-after hint binds the whole token.
bucketAppliesToToken(k, account) ==
  k[1] \in {"app", "buc", "local_retry"} \/ k[2] \in {"token", account}

\* bucketAppliesTo: account-scoped buckets bind their account only; app and
\* buc buckets, and the app part of the insights header, bind the whole token.
bucketAppliesTo(k, account) ==
  CASE k[1] \in {"app", "buc"}                 -> TRUE
    [] k[1] = "insights" /\ k[2] = "token"     -> TRUE
    [] k[1] \in {"insights", "acc", "reach"} /\ k[2] # "token" -> k[2] = account
    [] k[1] = "local_retry"                    -> k[2] = account

BucketDelay(b) ==
  IF b.regainAt > now THEN b.regainAt - now
  ELSE CeilDiv(staircaseDelay(b.usage), MsPerTick)

getThrottleDelay(account) ==
  Max({BucketDelay(buckets[k]) : k \in {j \in BucketKeys : bucketAppliesTo(j, account)}})

-----------------------------------------------------------------------------
\* The buckets one response header [kind, business, type, usage, accountUsage,
\* regain] writes. app and insights carry no time to regain access; what a
\* header says about the account is dropped when the request has none.
Writes(h, account) ==
  LET b(usage, regain) == [usage |-> usage, regainAt |-> now + regain]
      ofAccount(kind, bucket) ==
        IF account = NoAccount THEN {} ELSE {<<Key(kind, account, "-"), bucket>>}
  IN  CASE h.kind = "app" -> {<<Key("app", "token", "-"), b(h.usage, 0)>>}
        [] h.kind = "buc" -> {<<Key("buc", h.business, h.type), b(h.usage, h.regain)>>}
        [] h.kind = "insights" ->
             {<<Key("insights", "token", "-"), b(h.usage, 0)>>}
             \cup ofAccount("insights", b(h.accountUsage, 0))
        [] h.kind \in {"acc", "reach"} -> ofAccount(h.kind, b(h.usage, h.regain))

\* updateFromHeaders, for the headers of one response.
updateFromHeaders(headers, account) ==
  LET written == UNION {Writes(h, account) : h \in headers}
  IN  buckets' = [k \in BucketKeys |->
                    IF \E w \in written : w[1] = k
                    THEN (CHOOSE w \in written : w[1] = k)[2]
                    ELSE buckets[k]]

\* markRetryAfter overwrites the bucket of (account, type), whatever it said.
markRetryAfter(account, type, hint) ==
  buckets' = [buckets EXCEPT ![Key("local_retry", account, type)] =
                [usage |-> 0, regainAt |-> now + hint]]
=============================================================================
