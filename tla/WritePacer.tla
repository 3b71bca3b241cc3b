----------------------------- MODULE WritePacer -----------------------------
(* Self-pacing of the writes to one ad account                             *)
(* (src/src/meta/write-pacer.ts): a token bucket per (token, account),     *)
(* here one of them, and the concurrent writers that call acquire.         *)
(*                                                                         *)
(* The code's fractional tokens are counted in units: one write costs Cost *)
(* units, and a tick of the clock (a millisecond) refills Rate[tier] units.*)
(* updateActiveAds is left out: nothing calls it, so the number of active  *)
(* ads keeps its default and the rate depends on the tier alone.           *)
EXTENDS Integers, FiniteSetsExt

CONSTANTS
  Writers,      \* concurrent callers of acquire
  Tiers,        \* the tiers the response headers report
  Rate,         \* tier -> units per tick (computeRate)
  TopRate,      \* the largest of them
  Capacity,     \* tier -> capacity in units
  Cost,         \* units of one write
  LastTick,     \* bound: the clock stops here
  MaxGrants     \* bound: writes of one writer

Dev == "development_access"
Standard == "standard_access"

ASSUME PacerAssumption ==
  /\ Dev \in Tiers /\ Tiers \subseteq {Dev, Standard}
  /\ Rate \in [Tiers -> Nat \ {0}] /\ Capacity \in [Tiers -> Nat]
  /\ TopRate \in Nat /\ \A t \in Tiers : Rate[t] <= TopRate
  /\ Cost \in Nat \ {0} /\ LastTick \in Nat /\ MaxGrants \in Nat

VARIABLES
  clock,        \* Date.now()
  bucket,       \* [exists, tokens, capacity, tier, lastRefill]
  wakeAt,       \* writer -> end of its wait, Awake when it does not wait
  created,      \* history: when the bucket was created
  granted       \* history: writer -> writes let through

pacerVars == <<clock, bucket, wakeAt, created, granted>>

Awake == -1
Least(a, b) == IF a <= b THEN a ELSE b
Positive(a) == IF a >= 0 THEN a ELSE 0
CeilDiv(a, b) == (a + b - 1) \div b

NewBucket(t) == [exists |-> TRUE, tokens |-> Capacity[Dev],
                 capacity |-> Capacity[Dev], tier |-> Dev, lastRefill |-> t]
NoBucket == [NewBucket(0) EXCEPT !.exists = FALSE]

PacerTypeOK ==
  /\ clock \in Nat /\ created \in Nat
  /\ bucket \in [exists : BOOLEAN, tokens : Nat, capacity : Nat,
                 tier : Tiers, lastRefill : Nat]
  /\ wakeAt \in [Writers -> Nat \cup {Awake}]
  /\ granted \in [Writers -> Nat]

PacerInit ==
  /\ clock = 0 /\ created = 0
  /\ bucket = NoBucket
  /\ wakeAt = [w \in Writers |-> Awake]
  /\ granted = [w \in Writers |-> 0]
-----------------------------------------------------------------------------
\* Mutant: the refill is not dated.
RefilledAgain ==
  LET b == IF bucket.exists THEN bucket ELSE NewBucket(clock)
  IN  [b EXCEPT !.tokens = Least(b.capacity, @ + (clock - b.lastRefill) * Rate[b.tier])]

\* getOrCreate, then refill.
Refilled ==
  LET b == IF bucket.exists THEN bucket ELSE NewBucket(clock)
  IN  IF clock <= b.lastRefill THEN b
      ELSE [b EXCEPT !.tokens = Least(b.capacity,
                                      @ + (clock - b.lastRefill) * Rate[b.tier]),
                     !.lastRefill = clock]

Grant(w) == granted' = [granted EXCEPT ![w] = @ + 1]

\* acquire with a token at hand.
Acquire(w) ==
  /\ wakeAt[w] = Awake /\ granted[w] < MaxGrants
  /\ Refilled.tokens >= Cost
  /\ bucket' = [Refilled EXCEPT !.tokens = @ - Cost]
  /\ created' = IF bucket.exists THEN created ELSE clock
  /\ Grant(w)
  /\ UNCHANGED <<clock, wakeAt>>

\* acquire without one: the wait is computed once, and nothing is reserved.
StartWait(w) ==
  /\ wakeAt[w] = Awake /\ granted[w] < MaxGrants
  /\ Refilled.tokens < Cost
  /\ bucket' = Refilled
  /\ created' = IF bucket.exists THEN created ELSE clock
  /\ wakeAt' = [wakeAt EXCEPT ![w] =
                  clock + CeilDiv(Cost - Refilled.tokens, Rate[Refilled.tier])]
  /\ UNCHANGED <<clock, granted>>

\* The timer fires: the writer goes through, token or not.
Wake(w) ==
  /\ wakeAt[w] # Awake /\ clock >= wakeAt[w]
  /\ bucket' = [Refilled EXCEPT !.tokens = Positive(@ - Cost)]
  /\ wakeAt' = [wakeAt EXCEPT ![w] = Awake]
  /\ Grant(w)
  /\ UNCHANGED <<clock, created>>

\* A response header reports the tier (the capacity jumps, the tokens stay).
UpdateTier(t) ==
  /\ bucket.exists /\ bucket.tier # t
  /\ bucket' = [bucket EXCEPT !.tier = t, !.capacity = Capacity[t]]
  /\ UNCHANGED <<clock, wakeAt, created, granted>>

PacerTick ==
  /\ clock < LastTick
  /\ clock' = clock + 1
  /\ UNCHANGED <<bucket, wakeAt, created, granted>>

PacerNext ==
  \/ PacerTick
  \/ \E t \in Tiers : UpdateTier(t)
  \/ \E w \in Writers : Acquire(w) \/ StartWait(w) \/ Wake(w)

PacerSpec == PacerInit /\ [][PacerNext]_pacerVars
-----------------------------------------------------------------------------
Earned == (clock - created) * TopRate

\* No writer on its own gets more writes than the initial burst and the time
\* since pay for, however the writers interleave: a wait that is cut short by
\* a stale bucket or a changed tier would break it.
WriterWithinQuota ==
  \A w \in Writers : granted[w] * Cost <= Capacity[Dev] + Earned

SumGranted == MapThenSumSet(LAMBDA w : granted[w], Writers)

\* "A burst of writes from an agent never blows the hourly quota"
\* (write-pacer.ts:10-12): all writers together stay within the initial burst
\* and what the time since has refilled. acquire reserves nothing for those
\* who wait, so all of them wake together and share one token.
BurstWithinQuota == SumGranted * Cost <= Capacity[Dev] + Earned
=============================================================================
