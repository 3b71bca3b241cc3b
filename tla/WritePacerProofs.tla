-------------------------- MODULE WritePacerProofs --------------------------
(* Theorems of WritePacer, for every value of its constants.               *)
(*                                                                         *)
(* The inductive invariant speaks of one writer at a time: what it has     *)
(* been granted and what the bucket still holds never exceed the initial   *)
(* burst and the refill; and a writer that waits will have paid for its    *)
(* next write by the end of its wait.                                      *)
EXTENDS WritePacer, TLAPS

\* What the refill pays for by time t.
EarnedBy(t) == (t - created) * TopRate

\* The inductive invariant: bucket and writers, each writer against the refill.
QuotaInv ==
  /\ PacerTypeOK
  /\ bucket.exists => created <= bucket.lastRefill /\ bucket.lastRefill <= clock
  /\ ~bucket.exists => \A w \in Writers : granted[w] = 0 /\ wakeAt[w] = Awake
  /\ created <= clock
  /\ bucket.exists =>
       \A w \in Writers :
         granted[w] * Cost + bucket.tokens <= Capacity[Dev] + EarnedBy(bucket.lastRefill)
  /\ \A w \in Writers : wakeAt[w] # Awake =>
       /\ created <= wakeAt[w]
       /\ granted[w] * Cost + Cost <= Capacity[Dev] + EarnedBy(wakeAt[w])

\* Arithmetic the provers do not find on their own: products grow with a factor.
LEMMA TimesMonotonic ==
  ASSUME NEW a \in Nat, NEW b \in Nat, NEW c \in Nat, a <= b
  PROVE  a * c <= b * c /\ c * a <= c * b /\ a * c \in Nat
  OBVIOUS

\* Multiplication distributes over addition.
LEMMA TimesAdds ==
  ASSUME NEW a \in Int, NEW b \in Int, NEW c \in Int
  PROVE  (a + b) * c = a * c + b * c
  OBVIOUS

\* A wait rounded up to whole ticks is long enough (write-pacer.ts:81).
LEMMA CeilDivCovers ==
  ASSUME NEW a \in Nat, NEW b \in Nat \ {0}
  PROVE  CeilDiv(a, b) \in Nat /\ CeilDiv(a, b) * b >= a
  <1>1. (a + b - 1) \in Nat
    OBVIOUS
  <1>2. (a + b - 1) = b * ((a + b - 1) \div b) + ((a + b - 1) % b)
    BY <1>1
  <1>3. (a + b - 1) % b \in 0..(b - 1)
    BY <1>1
  <1>4. (a + b - 1) \div b \in Nat
    BY <1>1
  <1> QED BY <1>2, <1>3, <1>4 DEF CeilDiv

\* The refill pays for more as time goes by, TopRate a tick.
LEMMA EarnedGrows ==
  ASSUME PacerTypeOK, NEW s \in Nat, NEW t \in Nat, created <= s, s <= t
  PROVE  /\ EarnedBy(s) \in Nat /\ EarnedBy(t) \in Nat
         /\ EarnedBy(s) <= EarnedBy(t)
         /\ EarnedBy(t) = EarnedBy(s) + (t - s) * TopRate
  <1>1. created \in Nat /\ TopRate \in Nat
    BY PacerAssumption DEF PacerTypeOK
  <1>2. (t - created) * TopRate = (s - created) * TopRate + (t - s) * TopRate
    BY <1>1, TimesAdds, t - created = (s - created) + (t - s)
  <1>3. (t - s) * TopRate \in Nat /\ (s - created) * TopRate \in Nat
    BY <1>1, t - s \in Nat, s - created \in Nat, TimesMonotonic
  <1> QED BY <1>2, <1>3 DEF EarnedBy

-----------------------------------------------------------------------------
\* The bucket that a caller of acquire sees, after getOrCreate and refill.
LEMMA RefilledFacts ==
  ASSUME QuotaInv, NEW c \in Nat,
         c = IF bucket.exists THEN created ELSE clock
  PROVE  /\ Refilled \in [exists : BOOLEAN, tokens : Nat, capacity : Nat,
                          tier : Tiers, lastRefill : Nat]
         /\ Refilled.exists /\ Refilled.lastRefill = clock /\ c <= clock
         /\ \A w \in Writers :
              granted[w] * Cost + Refilled.tokens <= Capacity[Dev] + (clock - c) * TopRate
         /\ \A w \in Writers : wakeAt[w] # Awake => c = created
  <1>0. /\ PacerTypeOK /\ clock \in Nat /\ created \in Nat /\ Cost \in Nat
        /\ TopRate \in Nat /\ Capacity[Dev] \in Nat
        /\ granted \in [Writers -> Nat]
    BY PacerAssumption DEF QuotaInv, PacerTypeOK
  <1>1. CASE ~bucket.exists
    <2>1. Refilled = NewBucket(clock)
      BY <1>0, <1>1 DEF Refilled, NewBucket
    <2>2. \A w \in Writers : granted[w] * Cost = 0
      BY <1>0, <1>1 DEF QuotaInv
    <2>3. (clock - c) * TopRate = 0
      BY <1>0, <1>1
    <2>4. /\ NewBucket(clock).tokens = Capacity[Dev] /\ NewBucket(clock).exists
          /\ NewBucket(clock).lastRefill = clock
          /\ NewBucket(clock) \in [exists : BOOLEAN, tokens : Nat, capacity : Nat,
                                 tier : Tiers, lastRefill : Nat]
      BY <1>0, PacerAssumption DEF NewBucket
    <2>5. Refilled.tokens = Capacity[Dev] /\ Refilled.exists /\ Refilled.lastRefill = clock
      BY <2>1, <2>4
    <2>6. \A w \in Writers :
            granted[w] * Cost + Refilled.tokens <= Capacity[Dev] + (clock - c) * TopRate
      BY <1>0, <2>2, <2>3, <2>5
    <2>7. \A w \in Writers : wakeAt[w] = Awake
      BY <1>1 DEF QuotaInv
    <2>8. c <= clock
      BY <1>0, <1>1
    <2> QED BY <2>1, <2>4, <2>5, <2>6, <2>7, <2>8
  <1>2. CASE bucket.exists
    <2> DEFINE gain == (clock - bucket.lastRefill) * Rate[bucket.tier]
    <2>1. /\ bucket.lastRefill \in Nat /\ bucket.tokens \in Nat
          /\ bucket.capacity \in Nat /\ bucket.tier \in Tiers
          /\ created <= bucket.lastRefill /\ bucket.lastRefill <= clock
          /\ Rate[bucket.tier] \in Nat /\ Rate[bucket.tier] <= TopRate
      BY <1>0, <1>2, PacerAssumption DEF QuotaInv, PacerTypeOK
    <2>2. gain \in Nat /\ gain <= (clock - bucket.lastRefill) * TopRate
      BY <1>0, <2>1, TimesMonotonic, clock - bucket.lastRefill \in Nat
    <2>3. EarnedBy(clock) = EarnedBy(bucket.lastRefill) + (clock - bucket.lastRefill) * TopRate
      BY <1>0, <2>1, EarnedGrows
    <2>4. EarnedBy(bucket.lastRefill) \in Nat
      BY <1>0, <2>1, EarnedGrows
    <2>5. /\ Refilled \in [exists : BOOLEAN, tokens : Nat, capacity : Nat,
                           tier : Tiers, lastRefill : Nat]
          /\ Refilled.exists /\ Refilled.lastRefill = clock
          /\ Refilled.tokens <= bucket.tokens + gain
      <3> HIDE DEF gain
      <3>1. CASE clock <= bucket.lastRefill
        <4>1. Refilled = bucket /\ clock = bucket.lastRefill
          BY <1>0, <1>2, <2>1, <3>1 DEF Refilled
        <4> QED BY <1>0, <1>2, <2>1, <2>2, <4>1 DEF PacerTypeOK
      <3>2. CASE ~(clock <= bucket.lastRefill)
        <4>1. Refilled = [bucket EXCEPT !.tokens = Least(bucket.capacity, bucket.tokens + gain),
                                        !.lastRefill = clock]
          BY <1>2, <3>2 DEF Refilled, gain
        <4>2. /\ Least(bucket.capacity, bucket.tokens + gain) \in Nat
              /\ Least(bucket.capacity, bucket.tokens + gain) <= bucket.tokens + gain
          BY <2>1, <2>2 DEF Least
        <4> QED BY <1>0, <1>2, <2>1, <4>1, <4>2 DEF PacerTypeOK
      <3> QED BY <3>1, <3>2
    <2>6. ASSUME NEW w \in Writers
          PROVE  granted[w] * Cost + Refilled.tokens <= Capacity[Dev] + EarnedBy(clock)
      <3>1. granted[w] * Cost + bucket.tokens <= Capacity[Dev] + EarnedBy(bucket.lastRefill)
        BY <1>2 DEF QuotaInv
      <3>2. granted[w] * Cost \in Nat /\ Refilled.tokens \in Nat
        BY <1>0, <2>5, TimesMonotonic
      <3> HIDE DEF gain
      <3> QED BY <1>0, <2>1, <2>2, <2>3, <2>4, <2>5, <3>1, <3>2
    <2> QED BY <1>0, <1>2, <2>1, <2>5, <2>6 DEF EarnedBy
  <1> QED BY <1>1, <1>2

\* What a step must establish when it leaves a bucket refilled just now.
LEMMA QuotaInvStep ==
  ASSUME QuotaInv, PacerTypeOK', clock' = clock, NEW v \in Writers,
         created' = IF bucket.exists THEN created ELSE clock,
         bucket'.exists, bucket'.lastRefill = clock,
         bucket'.tokens <= Refilled.tokens,
         \A w \in Writers \ {v} : granted'[w] = granted[w] /\ wakeAt'[w] = wakeAt[w],
         granted'[v] * Cost + bucket'.tokens <= Capacity[Dev] + (clock - created') * TopRate,
         wakeAt'[v] # Awake =>
           /\ created' <= wakeAt'[v]
           /\ granted'[v] * Cost + Cost
                <= Capacity[Dev] + (wakeAt'[v] - created') * TopRate
  PROVE  QuotaInv'
  <1>0. /\ PacerTypeOK /\ clock \in Nat /\ created' \in Nat /\ Cost \in Nat
        /\ TopRate \in Nat /\ Capacity[Dev] \in Nat
        /\ granted \in [Writers -> Nat] /\ bucket'.tokens \in Nat
    BY PacerAssumption DEF QuotaInv, PacerTypeOK
  <1>1. /\ Refilled.tokens \in Nat /\ created' <= clock
        /\ \A w \in Writers :
             granted[w] * Cost + Refilled.tokens <= Capacity[Dev] + (clock - created') * TopRate
        /\ \A w \in Writers : wakeAt[w] # Awake => created' = created
    BY <1>0, RefilledFacts
  <1>2. \A w \in Writers :
          granted'[w] * Cost + bucket'.tokens <= Capacity[Dev] + (clock - created') * TopRate
    <2> SUFFICES ASSUME NEW w \in Writers \ {v}
                 PROVE  granted[w] * Cost + bucket'.tokens
                          <= Capacity[Dev] + (clock - created') * TopRate
      OBVIOUS
    <2>1. granted[w] * Cost \in Nat /\ (clock - created') * TopRate \in Nat
      BY <1>0, <1>1, TimesMonotonic, clock - created' \in Nat
    <2> QED BY <1>0, <1>1, <2>1
  <1>3. \A w \in Writers : wakeAt'[w] # Awake =>
          /\ created' <= wakeAt'[w]
          /\ granted'[w] * Cost + Cost <= Capacity[Dev] + (wakeAt'[w] - created') * TopRate
    BY <1>1 DEF QuotaInv, EarnedBy
  <1> QED BY <1>0, <1>1, <1>2, <1>3 DEF QuotaInv, EarnedBy

\* PacerTypeOK and QuotaInv are invariants of the pacer, whatever the writers, the
\* rates and the tiers (write-pacer.ts acquire, refill, updateTier).
THEOREM QuotaInvHolds == PacerSpec => []QuotaInv
  <1>1. PacerInit => QuotaInv
    <2> SUFFICES ASSUME PacerInit PROVE QuotaInv
      OBVIOUS
    <2>1. /\ bucket \in [exists : BOOLEAN, tokens : Nat, capacity : Nat,
                         tier : Tiers, lastRefill : Nat]
          /\ ~bucket.exists
      BY PacerAssumption DEF PacerInit, NoBucket, NewBucket
    <2>2. PacerTypeOK
      BY <2>1 DEF PacerInit, PacerTypeOK
    <2> QED BY <2>1, <2>2 DEF PacerInit, QuotaInv
  <1>2. QuotaInv /\ [PacerNext]_pacerVars => QuotaInv'
    <2> SUFFICES ASSUME QuotaInv, [PacerNext]_pacerVars PROVE QuotaInv'
      OBVIOUS
    <2>0. /\ PacerTypeOK /\ clock \in Nat /\ created \in Nat /\ Cost \in Nat \ {0}
          /\ TopRate \in Nat /\ Capacity[Dev] \in Nat
          /\ granted \in [Writers -> Nat] /\ wakeAt \in [Writers -> Nat \cup {Awake}]
      BY PacerAssumption DEF QuotaInv, PacerTypeOK
    <2> DEFINE c == IF bucket.exists THEN created ELSE clock
    <2>c. c \in Nat
      BY <2>0
    <2>r. /\ Refilled \in [exists : BOOLEAN, tokens : Nat, capacity : Nat,
                           tier : Tiers, lastRefill : Nat]
          /\ Refilled.exists /\ Refilled.lastRefill = clock /\ c <= clock
          /\ \A w \in Writers :
               granted[w] * Cost + Refilled.tokens <= Capacity[Dev] + (clock - c) * TopRate
          /\ \A w \in Writers : wakeAt[w] # Awake => c = created
      BY <2>c, RefilledFacts
    <2>g. \A w \in Writers : (granted[w] + 1) * Cost = granted[w] * Cost + Cost
                             /\ granted[w] * Cost \in Nat
      BY <2>0, TimesAdds, TimesMonotonic
    <2>e. (clock - c) * TopRate \in Nat
      BY <2>0, <2>c, <2>r, TimesMonotonic, clock - c \in Nat
    <2> HIDE DEF c
    <2>1. CASE PacerTick
      <3>1. PacerTypeOK'
        BY <2>0, <2>1 DEF PacerTick, PacerTypeOK
      <3> QED BY <2>0, <2>1, <3>1 DEF PacerTick, QuotaInv, PacerTypeOK, EarnedBy
    <2>2. ASSUME NEW t \in Tiers, UpdateTier(t) PROVE QuotaInv'
      <3>1. /\ bucket'.exists /\ bucket'.tokens = bucket.tokens
            /\ bucket'.lastRefill = bucket.lastRefill
            /\ bucket' \in [exists : BOOLEAN, tokens : Nat, capacity : Nat,
                            tier : Tiers, lastRefill : Nat]
        BY <2>0, <2>2, PacerAssumption DEF UpdateTier, PacerTypeOK
      <3>2. PacerTypeOK'
        BY <2>0, <2>2, <3>1 DEF UpdateTier, PacerTypeOK
      <3> QED BY <2>2, <3>1, <3>2 DEF UpdateTier, QuotaInv, EarnedBy
    <2>3. ASSUME NEW w \in Writers, Acquire(w) PROVE QuotaInv'
      <3>1. /\ bucket' = [Refilled EXCEPT !.tokens = @ - Cost]
            /\ created' = c /\ clock' = clock /\ wakeAt' = wakeAt /\ wakeAt[w] = Awake
            /\ Refilled.tokens >= Cost
            /\ granted' = [granted EXCEPT ![w] = @ + 1]
        BY <2>3 DEF Acquire, Grant, c
      <3>2. /\ bucket'.tokens = Refilled.tokens - Cost /\ bucket'.tokens \in Nat
            /\ bucket'.exists /\ bucket'.lastRefill = clock
            /\ bucket' \in [exists : BOOLEAN, tokens : Nat, capacity : Nat,
                            tier : Tiers, lastRefill : Nat]
        BY <2>0, <2>r, <3>1
      <3>3. PacerTypeOK'
        BY <2>0, <2>c, <3>1, <3>2 DEF PacerTypeOK
      <3>4. granted'[w] * Cost + bucket'.tokens <= Capacity[Dev] + (clock - c) * TopRate
        <4>1. granted'[w] * Cost = granted[w] * Cost + Cost
          BY <2>0, <2>g, <3>1
        <4>2. Refilled.tokens \in Nat
          BY <2>r
        <4> QED BY <2>0, <2>e, <2>g, <2>r, <3>2, <4>1, <4>2
      <3>5. bucket'.tokens <= Refilled.tokens
        BY <2>0, <2>r, <3>2
      <3>6. \A u \in Writers \ {w} : granted'[u] = granted[u] /\ wakeAt'[u] = wakeAt[u]
        BY <2>0, <3>1
      <3> QED BY <3>1, <3>2, <3>3, <3>4, <3>5, <3>6, QuotaInvStep DEF c
    <2>4. ASSUME NEW w \in Writers, StartWait(w) PROVE QuotaInv'
      <3> DEFINE wait == CeilDiv(Cost - Refilled.tokens, Rate[Refilled.tier])
      <3>1. /\ bucket' = Refilled /\ created' = c /\ clock' = clock /\ granted' = granted
            /\ Refilled.tokens < Cost
            /\ wakeAt' = [wakeAt EXCEPT ![w] = clock + wait]
        BY <2>4 DEF StartWait, c
      <3>2. /\ Cost - Refilled.tokens \in Nat /\ Rate[Refilled.tier] \in Nat \ {0}
            /\ Rate[Refilled.tier] <= TopRate
        BY <2>0, <2>r, <3>1, PacerAssumption
      <3>3. wait \in Nat /\ wait * Rate[Refilled.tier] >= Cost - Refilled.tokens
        BY <3>2, CeilDivCovers
      <3>4. wait * Rate[Refilled.tier] <= wait * TopRate /\ wait * TopRate \in Nat
        BY <2>0, <3>2, <3>3, TimesMonotonic
      <3> HIDE DEF wait
      <3>5. PacerTypeOK'
        BY <2>0, <2>c, <2>r, <3>1, <3>3 DEF PacerTypeOK
      <3>6. (clock + wait - c) * TopRate = (clock - c) * TopRate + wait * TopRate
        BY <2>0, <2>c, <3>3, TimesAdds, clock + wait - c = (clock - c) + wait
      <3>7. wakeAt'[w] = clock + wait /\ c <= clock + wait
        BY <2>0, <2>c, <2>r, <3>1, <3>3
      <3>8. granted[w] * Cost + Cost <= Capacity[Dev] + (clock + wait - c) * TopRate
        <4>1. Refilled.tokens \in Nat /\ wait * Rate[Refilled.tier] \in Nat
          BY <2>r, <3>2, <3>3, TimesMonotonic
        <4>2. wait * TopRate >= Cost - Refilled.tokens
          BY <2>0, <3>2, <3>3, <3>4, <4>1
        <4> QED BY <2>0, <2>e, <2>g, <2>r, <3>4, <3>6, <4>1, <4>2
      <3>9. \A u \in Writers \ {w} : granted'[u] = granted[u] /\ wakeAt'[u] = wakeAt[u]
        BY <2>0, <3>1
      <3>10. bucket'.tokens <= Refilled.tokens
        BY <2>r, <3>1
      <3>11. created' = IF bucket.exists THEN created ELSE clock
        BY <3>1 DEF c
      <3>12. granted'[w] * Cost + bucket'.tokens <= Capacity[Dev] + (clock - created') * TopRate
        BY <2>r, <3>1
      <3>13. /\ created' <= wakeAt'[w]
             /\ granted'[w] * Cost + Cost
                  <= Capacity[Dev] + (wakeAt'[w] - created') * TopRate
        <4>1. wakeAt'[w] = clock + wait /\ created' = c /\ granted' = granted
          BY <3>1, <3>7
        <4>2. wakeAt'[w] - created' = clock + wait - c
          BY <2>0, <2>c, <3>3, <4>1
        <4>3. (wakeAt'[w] - created') * TopRate = (clock + wait - c) * TopRate
          BY <4>2
        <4>4. granted'[w] * Cost + Cost = granted[w] * Cost + Cost
          BY <4>1
        <4>5. created' <= wakeAt'[w]
          BY <3>7, <4>1
        <4> QED BY <3>8, <4>3, <4>4, <4>5
      <3>14. bucket'.exists /\ bucket'.lastRefill = clock
        BY <2>r, <3>1
      <3>15. clock' = clock
        BY <3>1
      <3> QED BY <3>5, <3>9, <3>10, <3>11, <3>12, <3>13, <3>14, <3>15, QuotaInvStep
    <2>5. ASSUME NEW w \in Writers, Wake(w) PROVE QuotaInv'
      <3>1. /\ bucket' = [Refilled EXCEPT !.tokens = Positive(@ - Cost)]
            /\ created' = created /\ clock' = clock
            /\ wakeAt[w] # Awake /\ clock >= wakeAt[w]
            /\ wakeAt' = [wakeAt EXCEPT ![w] = Awake]
            /\ granted' = [granted EXCEPT ![w] = @ + 1]
        BY <2>5 DEF Wake, Grant
      <3>2. c = created /\ wakeAt[w] \in Nat
        BY <2>0, <2>r, <3>1
      <3>3. /\ bucket'.tokens = Positive(Refilled.tokens - Cost) /\ bucket'.tokens \in Nat
            /\ bucket'.exists /\ bucket'.lastRefill = clock
            /\ bucket' \in [exists : BOOLEAN, tokens : Nat, capacity : Nat,
                            tier : Tiers, lastRefill : Nat]
        BY <2>0, <2>r, <3>1 DEF Positive
      <3>4. PacerTypeOK'
        BY <2>0, <3>1, <3>3 DEF PacerTypeOK
      <3>5. granted[w] * Cost + Cost <= Capacity[Dev] + (clock - c) * TopRate
        <4>1. /\ created <= wakeAt[w]
              /\ granted[w] * Cost + Cost <= Capacity[Dev] + EarnedBy(wakeAt[w])
          BY <3>1 DEF QuotaInv
        <4>2. /\ EarnedBy(wakeAt[w]) <= EarnedBy(clock)
              /\ EarnedBy(wakeAt[w]) \in Nat /\ EarnedBy(clock) \in Nat
          BY <2>0, <3>1, <3>2, <4>1, EarnedGrows
        <4>3. EarnedBy(clock) = (clock - c) * TopRate
          BY <3>2 DEF EarnedBy
        <4> QED BY <2>0, <2>g, <4>1, <4>2, <4>3
      <3>6. granted'[w] * Cost + bucket'.tokens <= Capacity[Dev] + (clock - c) * TopRate
        <4>1. granted'[w] * Cost = granted[w] * Cost + Cost
          BY <2>0, <2>g, <3>1
        <4>2. Refilled.tokens \in Nat
          BY <2>r
        <4>3. CASE Refilled.tokens >= Cost
          BY <2>0, <2>e, <2>g, <2>r, <3>3, <4>1, <4>2, <4>3 DEF Positive
        <4>4. CASE Refilled.tokens < Cost
          BY <2>0, <2>e, <2>g, <3>3, <3>5, <4>1, <4>2, <4>4 DEF Positive
        <4> QED BY <2>0, <4>2, <4>3, <4>4
      <3>7. bucket'.tokens <= Refilled.tokens
        BY <2>0, <2>r, <3>3 DEF Positive
      <3>8. /\ wakeAt'[w] = Awake
            /\ \A u \in Writers \ {w} : granted'[u] = granted[u] /\ wakeAt'[u] = wakeAt[u]
        BY <2>0, <3>1
      <3>9. created' = IF bucket.exists THEN created ELSE clock
        BY <3>1, <3>2 DEF c
      <3>10. granted'[w] * Cost + bucket'.tokens <= Capacity[Dev] + (clock - created') * TopRate
        BY <3>1, <3>2, <3>6
      <3> QED BY <3>1, <3>3, <3>4, <3>7, <3>8, <3>9, <3>10, QuotaInvStep
    <2>6. CASE UNCHANGED pacerVars
      BY <2>6 DEF QuotaInv, PacerTypeOK, EarnedBy, pacerVars
    <2> QED BY <2>1, <2>2, <2>3, <2>4, <2>5, <2>6 DEF PacerNext
  <1> QED BY <1>1, <1>2, PTL DEF PacerSpec

\* Each writer alone stays within the initial burst and the refill.
THEOREM WritersWithinQuota == PacerSpec => []WriterWithinQuota
  <1>1. QuotaInv => WriterWithinQuota
    <2> SUFFICES ASSUME QuotaInv, NEW w \in Writers
                 PROVE  granted[w] * Cost <= Capacity[Dev] + Earned
      BY DEF WriterWithinQuota
    <2>0. /\ PacerTypeOK /\ clock \in Nat /\ created \in Nat /\ Cost \in Nat
          /\ TopRate \in Nat /\ Capacity[Dev] \in Nat /\ granted[w] \in Nat
          /\ created <= clock
      BY PacerAssumption DEF QuotaInv, PacerTypeOK
    <2>1. (clock - created) * TopRate \in Nat
      BY <2>0, TimesMonotonic, clock - created \in Nat
    <2>2. CASE ~bucket.exists
      <3>1. granted[w] * Cost = 0
        BY <2>0, <2>2 DEF QuotaInv
      <3> QED BY <2>0, <2>1, <3>1 DEF Earned
    <2>3. CASE bucket.exists
      <3>1. /\ granted[w] * Cost + bucket.tokens <= Capacity[Dev] + EarnedBy(bucket.lastRefill)
            /\ created <= bucket.lastRefill /\ bucket.lastRefill <= clock
            /\ bucket.lastRefill \in Nat /\ bucket.tokens \in Nat
        BY <2>0, <2>3 DEF QuotaInv, PacerTypeOK
      <3>2. /\ EarnedBy(bucket.lastRefill) <= EarnedBy(clock)
            /\ EarnedBy(bucket.lastRefill) \in Nat /\ EarnedBy(clock) \in Nat
        BY <2>0, <3>1, EarnedGrows
      <3>3. granted[w] * Cost \in Nat
        BY <2>0, TimesMonotonic
      <3>4. granted[w] * Cost <= Capacity[Dev] + EarnedBy(clock)
        BY <2>0, <3>1, <3>2, <3>3
      <3> QED BY <3>4 DEF Earned, EarnedBy
    <2> QED BY <2>2, <2>3
  <1> QED BY <1>1, QuotaInvHolds, PTL

\* The bucket and the timers stay within their types: above all, no interleaving
\* of waits and tier changes leaves a negative number of tokens (acquire).
THEOREM BucketTypes == PacerSpec => []PacerTypeOK
  BY QuotaInvHolds, PTL DEF QuotaInv
=============================================================================
