------------------------ MODULE CircuitBreakerProofs ------------------------
(* Theorems of CircuitBreaker, for every value of its constants.           *)
(*                                                                         *)
(* The inductive invariant of RepeatedThrottlesStop says what became of    *)
(* every throttle ever recorded: it is remembered, or older than the       *)
(* window, or a cool-down that began no earlier than it covers it.         *)
EXTENDS CircuitBreaker, FiniteSetTheorems, TLAPS

\* Every throttle of k was recorded in the past, and what is remembered of k
\* are positions of its history.
HistoryOK ==
  \A k \in Keys :
    /\ throttleEvents[k] \subseteq DOMAIN throttles[k]
    /\ \A i \in DOMAIN throttles[k] : throttles[k][i] <= now

\* A forgotten throttle is out of the window or covered by a cool-down.
Forgotten ==
  \A k \in Keys : \A i \in DOMAIN throttles[k] \ throttleEvents[k] :
    \/ now - throttles[k][i] >= Window
    \/ openUntil[k] >= throttles[k][i] + Cooldown
    \/ now >= throttles[k][i] + Cooldown

\* The fields of a classified error, for the provers.
LEMMA ClassFacts ==
  ASSUME NEW cls \in Classes
  PROVE  /\ cls.category \in {"abuse_signal", "temporary_block", "other"}
         /\ cls.throttled \in BOOLEAN
         /\ cls.retryAfter \in Nat \cup {NoHint}
  BY BreakerAssumption DEF Classes

\* The stop an answer asks for is a duration.
LEMMA StopsForType ==
  ASSUME NEW cls \in Classes, NEW k \in Keys, TripExplicit(k, cls)
  PROVE  StopsFor(cls) \in Nat
  <1>1. CASE cls.category = "abuse_signal"
    BY <1>1, BreakerAssumption DEF StopsFor
  <1>2. CASE cls.category = "temporary_block"
    BY <1>2, BreakerAssumption, ClassFacts DEF StopsFor, NoHint
  <1>3. CASE cls.category = "other"
    BY <1>3, BreakerAssumption, ClassFacts DEF StopsFor, NoHint, TripExplicit
  <1> QED BY <1>1, <1>2, <1>3, ClassFacts

\* Opening a circuit changes no other, and never ends one earlier.
LEMMA OpenCircuitNeverShrinks ==
  ASSUME NEW k \in Keys, NEW until \in Nat, openUntil \in [Keys -> Nat]
  PROVE  /\ openCircuit(k, until) \in [Keys -> Nat]
         /\ openCircuit(k, until)[k] >= until
         /\ \A j \in Keys : openCircuit(k, until)[j] >= openUntil[j]
         /\ \A j \in Keys \ {k} : openCircuit(k, until)[j] = openUntil[j]
  BY DEF openCircuit

\* The breaker starts well-formed.
LEMMA InitTypeOK == ASSUME Init PROVE TypeOK
  <1>1. Remembered
    BY FS_EmptySet, BreakerAssumption DEF Init, Remembered
  <1> QED BY <1>1 DEF Init, TypeOK

\* TypeOK is an invariant: the breaker's maps stay well-formed through every
\* trip and sweep (circuit-breaker.ts).
THEOREM TypeCorrect == Spec => []TypeOK
  <1>1. Init => TypeOK
    BY InitTypeOK
  <1>2. TypeOK /\ [Next]_vars => TypeOK'
    <2> SUFFICES ASSUME TypeOK, [Next]_vars PROVE TypeOK'
      OBVIOUS
    <2>0. ASSUME throttleEvents' = throttleEvents PROVE Remembered'
      BY <2>0 DEF TypeOK, Remembered
    <2>1. CASE Tick
      BY <2>0, <2>1 DEF Tick, TypeOK
    <2>2. ASSUME NEW k \in Keys, AssertClosed(k) PROVE TypeOK'
      BY <2>0, <2>2 DEF AssertClosed, TypeOK
    <2>3. ASSUME NEW k \in Keys, NEW cls \in Classes, Trip(k, cls) PROVE TypeOK'
      <3>1. CASE TripExplicit(k, cls)
        <4>1. now + StopsFor(cls) \in Nat
          BY <3>1, StopsForType DEF TypeOK
        <4>2. openUntil' \in [Keys -> Nat]
          BY <3>1, <4>1, OpenCircuitNeverShrinks DEF TripExplicit, TypeOK
        <4>3. owed' \in [Keys -> Nat]
          BY <3>1, <4>1 DEF TripExplicit, TypeOK, Latest
        <4> QED BY <2>0, <3>1, <4>2, <4>3 DEF TripExplicit, TypeOK
      <3>2. CASE TripCounted(k, cls)
        <4> DEFINE recent == Recent(k) \cup {Len(throttles[k]) + 1}
        <4>1. throttles' \in [Keys -> Seq(Nat)]
          BY <3>2 DEF TripCounted, TypeOK
        <4>2. recent \in SUBSET Nat
          BY DEF Recent, TypeOK
        <4>3. throttleEvents' \in [Keys -> SUBSET Nat]
          BY <3>2, <4>2 DEF TripCounted, TypeOK
        <4>4. now + Cooldown \in Nat
          BY BreakerAssumption DEF TypeOK
        <4>5. openUntil' \in [Keys -> Nat]
          BY <3>2, <4>4, OpenCircuitNeverShrinks DEF TripCounted, TypeOK
        <4>6. Remembered'
          <5>1. IsFiniteSet(throttleEvents[k])
            BY DEF TypeOK, Remembered
          <5>2. IsFiniteSet(Recent(k))
            BY <5>1, FS_Subset DEF Recent
          <5>3. IsFiniteSet(recent)
            BY <5>2, FS_AddElement
          <5>4. Cardinality(recent) \in Nat
            BY <5>3, FS_CardinalityType
          <5>5. /\ throttleEvents'[k] = IF Cardinality(recent) >= Threshold THEN {} ELSE recent
                /\ \A j \in Keys \ {k} : throttleEvents'[j] = throttleEvents[j]
            BY <3>2 DEF TripCounted, TypeOK
          <5>6. Threshold \in Nat \ {0}
            BY BreakerAssumption
          <5>7. IsFiniteSet(throttleEvents'[k]) /\ Cardinality(throttleEvents'[k]) < Threshold
            <6> HIDE DEF recent
            <6> QED BY <5>3, <5>4, <5>5, <5>6, FS_EmptySet
          <5> QED BY <5>5, <5>7 DEF TypeOK, Remembered
        <4> QED BY <3>2, <4>1, <4>3, <4>5, <4>6 DEF TripCounted, TypeOK
      <3>3. CASE TripIgnored(cls)
        BY <2>0, <3>3 DEF TripIgnored, TypeOK, vars
      <3> QED BY <2>3, <3>1, <3>2, <3>3 DEF Trip
    <2>4. CASE UNCHANGED vars
      BY <2>0, <2>4 DEF TypeOK, vars
    <2> QED BY <2>1, <2>2, <2>3, <2>4 DEF Next
  <1> QED BY <1>1, <1>2, PTL DEF Spec

\* Every stop an answer asked for is kept to its end (OwedStopHonoured).
THEOREM OwedStopsKept == Spec => []OwedStopHonoured
  <1>1. Init => OwedStopHonoured
    BY DEF Init, OwedStopHonoured
  <1>2. TypeOK /\ OwedStopHonoured /\ [Next]_vars => OwedStopHonoured'
    <2> SUFFICES ASSUME TypeOK, OwedStopHonoured, [Next]_vars
                 PROVE  OwedStopHonoured'
      OBVIOUS
    <2>1. CASE Tick
      BY <2>1 DEF Tick, TypeOK, OwedStopHonoured
    <2>2. ASSUME NEW k \in Keys, AssertClosed(k) PROVE OwedStopHonoured'
      BY <2>2 DEF AssertClosed, TypeOK, OwedStopHonoured
    <2>3. ASSUME NEW k \in Keys, NEW cls \in Classes, Trip(k, cls)
          PROVE  OwedStopHonoured'
      <3>1. CASE TripExplicit(k, cls)
        <4> DEFINE until == now + StopsFor(cls)
        <4>1. until \in Nat
          BY <3>1, StopsForType DEF TypeOK
        <4>2. /\ openUntil'[k] >= until
              /\ \A j \in Keys : openUntil'[j] >= openUntil[j]
          BY <3>1, <4>1, OpenCircuitNeverShrinks DEF TripExplicit, TypeOK
        <4>3. openUntil' \in [Keys -> Nat]
          BY <3>1, <4>1, OpenCircuitNeverShrinks DEF TripExplicit, TypeOK
        <4>4. owed' = [owed EXCEPT ![k] = Latest(@, until)] /\ now' = now
          BY <3>1 DEF TripExplicit
        <4> HIDE DEF until
        <4> QED BY <4>1, <4>2, <4>3, <4>4 DEF TypeOK, OwedStopHonoured, Latest
      <3>2. CASE TripCounted(k, cls)
        <4>1. now + Cooldown \in Nat
          BY BreakerAssumption DEF TypeOK
        <4>2. /\ openUntil' \in [Keys -> Nat]
              /\ \A j \in Keys : openUntil'[j] >= openUntil[j]
          <5>1. \/ openUntil' = openCircuit(k, now + Cooldown)
                \/ openUntil' = openUntil
            BY <3>2 DEF TripCounted
          <5> QED BY <4>1, <5>1, OpenCircuitNeverShrinks DEF TypeOK
        <4>3. owed' = owed /\ now' = now
          BY <3>2 DEF TripCounted
        <4> QED BY <4>2, <4>3 DEF TypeOK, OwedStopHonoured
      <3>3. CASE TripIgnored(cls)
        BY <3>3 DEF TripIgnored, OwedStopHonoured, vars
      <3> QED BY <2>3, <3>1, <3>2, <3>3 DEF Trip
    <2>4. CASE UNCHANGED vars
      BY <2>4 DEF OwedStopHonoured, vars
    <2> QED BY <2>1, <2>2, <2>3, <2>4 DEF Next
  <1> QED BY <1>1, <1>2, TypeCorrect, PTL DEF Spec

-----------------------------------------------------------------------------
\* The inductive invariant of RepeatedThrottlesStop.
BurstInv == TypeOK /\ HistoryOK /\ Forgotten /\ RepeatedThrottlesStop

\* A recorded throttle has a time.
LEMMA HistoryType ==
  ASSUME TypeOK, NEW k \in Keys, NEW i \in DOMAIN throttles[k]
  PROVE  throttles[k][i] \in Nat
  <1>1. throttles[k] \in Seq(Nat)
    BY DEF TypeOK
  <1> QED BY <1>1

\* What one counted throttle does to the history and the circuits.
LEMMA CountedEffect ==
  ASSUME NEW k \in Keys, NEW cls \in Classes, TypeOK, TripCounted(k, cls)
  PROVE  /\ now' = now /\ owed' = owed
         /\ DOMAIN throttles'[k] = DOMAIN throttles[k] \cup {Len(throttles[k]) + 1}
         /\ throttles'[k][Len(throttles[k]) + 1] = now
         /\ \A i \in DOMAIN throttles[k] : throttles'[k][i] = throttles[k][i]
         /\ \A j \in Keys \ {k} : throttles'[j] = throttles[j]
         /\ \A j \in Keys \ {k} : throttleEvents'[j] = throttleEvents[j]
         /\ openUntil' \in [Keys -> Nat]
         /\ \A j \in Keys : openUntil'[j] >= openUntil[j]
         /\ \A j \in Keys \ {k} : openUntil'[j] = openUntil[j]
  <1>1. now' = now /\ owed' = owed /\ throttles' = [throttles EXCEPT ![k] = Append(@, now)]
    BY DEF TripCounted
  <1>2. throttles[k] \in Seq(Nat) /\ now \in Nat
    BY DEF TypeOK
  <1>3. throttles'[k] = Append(throttles[k], now)
    BY <1>1 DEF TypeOK
  <1>4. /\ DOMAIN throttles'[k] = DOMAIN throttles[k] \cup {Len(throttles[k]) + 1}
        /\ throttles'[k][Len(throttles[k]) + 1] = now
        /\ \A i \in DOMAIN throttles[k] : throttles'[k][i] = throttles[k][i]
    BY <1>2, <1>3
  <1>5. \A j \in Keys \ {k} : throttles'[j] = throttles[j]
    BY <1>1 DEF TypeOK
  <1>6. \A j \in Keys \ {k} : throttleEvents'[j] = throttleEvents[j]
    BY DEF TripCounted, TypeOK
  <1>7. now + Cooldown \in Nat
    BY BreakerAssumption DEF TypeOK
  <1>8. openUntil' = openCircuit(k, now + Cooldown) \/ openUntil' = openUntil
    BY DEF TripCounted
  <1>9. /\ openUntil' \in [Keys -> Nat]
        /\ \A j \in Keys : openUntil'[j] >= openUntil[j]
        /\ \A j \in Keys \ {k} : openUntil'[j] = openUntil[j]
    <2>1. openUntil \in [Keys -> Nat]
      BY DEF TypeOK
    <2>2. CASE openUntil' = openUntil
      BY <2>1, <2>2
    <2>3. CASE openUntil' = openCircuit(k, now + Cooldown)
      BY <1>7, <2>1, <2>3, OpenCircuitNeverShrinks
    <2> QED BY <1>8, <2>2, <2>3
  <1> QED BY <1>1, <1>4, <1>5, <1>6, <1>9

\* The counted throttles of a key, the new one included, are finitely many.
LEMMA RecentFinite ==
  ASSUME NEW k \in Keys, TypeOK, HistoryOK
  PROVE  /\ Recent(k) \subseteq DOMAIN throttles[k]
         /\ IsFiniteSet(Recent(k) \cup {Len(throttles[k]) + 1})
  <1>1. DOMAIN throttles[k] = 1..Len(throttles[k]) /\ Len(throttles[k]) \in Nat
    BY DEF TypeOK
  <1>2. IsFiniteSet(1..Len(throttles[k]))
    BY <1>1, FS_Interval
  <1>3. Recent(k) \subseteq DOMAIN throttles[k]
    BY DEF Recent, HistoryOK
  <1>4. IsFiniteSet(Recent(k))
    BY <1>1, <1>2, <1>3, FS_Subset
  <1> QED BY <1>3, <1>4, FS_AddElement

\* An action that leaves the history alone and ends no cool-down early keeps
\* the burst invariant.
LEMMA BurstInvStable ==
  ASSUME BurstInv, TypeOK', throttles' = throttles,
         throttleEvents' = throttleEvents, now' \in {now, now + 1},
         \A k \in Keys : openUntil'[k] >= openUntil[k] \/ now' >= openUntil[k]
  PROVE  BurstInv'
  <1>0. /\ TypeOK /\ now' >= now /\ now \in Nat /\ now' \in Nat
        /\ \A k \in Keys : openUntil[k] \in Nat /\ openUntil'[k] \in Nat
    BY DEF BurstInv, TypeOK
  <1>1. HistoryOK'
    <2> SUFFICES ASSUME NEW k \in Keys, NEW i \in DOMAIN throttles[k]
                 PROVE  throttles[k][i] <= now'
      BY DEF HistoryOK, BurstInv
    <2>1. throttles[k][i] <= now /\ throttles[k][i] \in Nat
      BY DEF HistoryOK, BurstInv, TypeOK
    <2> QED BY <2>1, <1>0 DEF TypeOK
  <1>2. Forgotten'
    <2> SUFFICES ASSUME NEW k \in Keys,
                        NEW i \in DOMAIN throttles[k] \ throttleEvents[k]
                 PROVE  \/ now' - throttles[k][i] >= Window
                        \/ openUntil'[k] >= throttles[k][i] + Cooldown
                        \/ now' >= throttles[k][i] + Cooldown
      BY DEF Forgotten
    <2>1. \/ now - throttles[k][i] >= Window
          \/ openUntil[k] >= throttles[k][i] + Cooldown
          \/ now >= throttles[k][i] + Cooldown
      BY DEF Forgotten, BurstInv
    <2>2. throttles[k][i] \in Nat
      BY <1>0, HistoryType
    <2>3. openUntil'[k] >= openUntil[k] \/ now' >= openUntil[k]
      OBVIOUS
    <2> QED BY <1>0, <2>1, <2>2, <2>3, BreakerAssumption
  <1>3. RepeatedThrottlesStop'
    <2> SUFFICES ASSUME NEW k \in Keys, NEW S \in SUBSET (DOMAIN throttles[k]),
                        Burst(k, S)
                 PROVE  \E i \in S : \/ openUntil'[k] >= throttles[k][i] + Cooldown
                                     \/ now' >= throttles[k][i] + Cooldown
      BY DEF RepeatedThrottlesStop, Burst
    <2>1. PICK i \in S : \/ openUntil[k] >= throttles[k][i] + Cooldown
                         \/ now >= throttles[k][i] + Cooldown
      BY DEF BurstInv, RepeatedThrottlesStop
    <2>2. throttles[k][i] \in Nat
      BY <1>0, HistoryType
    <2>3. openUntil'[k] >= openUntil[k] \/ now' >= openUntil[k]
      OBVIOUS
    <2> QED BY <1>0, <2>1, <2>2, <2>3, BreakerAssumption
  <1> QED BY <1>1, <1>2, <1>3 DEF BurstInv

\* The counted throttle itself keeps it: a burst that contains it either opens
\* the circuit now or contains a throttle no longer remembered, which is
\* covered already.
LEMMA BurstInvCounted ==
  ASSUME BurstInv, TypeOK', NEW k \in Keys, NEW cls \in Classes,
         TripCounted(k, cls)
  PROVE  BurstInv'
  <1> DEFINE n == Len(throttles[k]) + 1
             recent == Recent(k) \cup {n}
             opens == Cardinality(recent) >= Threshold
  <1>1. TypeOK /\ HistoryOK /\ Forgotten /\ RepeatedThrottlesStop
    BY DEF BurstInv
  <1>2. /\ now' = now
        /\ DOMAIN throttles'[k] = DOMAIN throttles[k] \cup {n}
        /\ throttles'[k][n] = now
        /\ \A i \in DOMAIN throttles[k] : throttles'[k][i] = throttles[k][i]
        /\ \A j \in Keys \ {k} : throttles'[j] = throttles[j]
        /\ \A j \in Keys \ {k} : throttleEvents'[j] = throttleEvents[j]
        /\ \A j \in Keys : openUntil'[j] >= openUntil[j]
        /\ \A j \in Keys \ {k} : openUntil'[j] = openUntil[j]
    BY <1>1, CountedEffect
  <1>3. n \notin DOMAIN throttles[k]
    BY <1>1 DEF TypeOK
  <1>4. opens => throttleEvents'[k] = {} /\ openUntil'[k] >= now + Cooldown
    <2>1. now + Cooldown \in Nat
      BY <1>1, BreakerAssumption DEF TypeOK
    <2>2. opens => throttleEvents'[k] = {} /\ openUntil' = openCircuit(k, now + Cooldown)
      BY <1>1 DEF TripCounted, TypeOK
    <2> QED BY <1>1, <2>1, <2>2, OpenCircuitNeverShrinks DEF TypeOK
  <1>5. ~opens => throttleEvents'[k] = recent
    BY <1>1 DEF TripCounted, TypeOK
  <1>6. /\ Recent(k) \subseteq DOMAIN throttles[k]
        /\ IsFiniteSet(recent)
    BY <1>1, RecentFinite
  <1>7. HistoryOK'
    <2>1. throttleEvents'[k] \subseteq DOMAIN throttles'[k]
      BY <1>2, <1>4, <1>5, <1>6
    <2>2. \A i \in DOMAIN throttles'[k] : throttles'[k][i] <= now
      BY <1>1, <1>2 DEF HistoryOK, TypeOK
    <2> QED BY <1>1, <1>2, <2>1, <2>2 DEF HistoryOK
  <1>8. Forgotten'
    <2> SUFFICES ASSUME NEW j \in Keys,
                        NEW i \in DOMAIN throttles'[j] \ throttleEvents'[j]
                 PROVE  \/ now - throttles'[j][i] >= Window
                        \/ openUntil'[j] >= throttles'[j][i] + Cooldown
                        \/ now >= throttles'[j][i] + Cooldown
      BY <1>2 DEF Forgotten
    <2>1. CASE j # k
      BY <1>1, <1>2, <2>1 DEF Forgotten
    <2>2. CASE j = k /\ opens
      <3>1. throttles'[k][i] \in Nat /\ throttles'[k][i] <= now
        BY <1>2, <1>7, <2>2 DEF HistoryOK, TypeOK
      <3> QED BY <1>1, <1>4, <2>2, <3>1, BreakerAssumption DEF TypeOK
    <2>3. CASE j = k /\ ~opens
      <3>1. i \in DOMAIN throttles[k] /\ i \notin Recent(k)
        BY <1>2, <1>5, <2>3
      <3>2. throttles'[k][i] = throttles[k][i] /\ throttles[k][i] \in Nat
        BY <1>1, <1>2, <3>1, HistoryType
      <3>3. CASE i \in throttleEvents[k]
        <4>1. ~(now - throttles[k][i] < Window)
          BY <3>1, <3>3 DEF Recent
        <4> QED BY <1>1, <2>3, <3>2, <4>1, BreakerAssumption DEF TypeOK
      <3>4. CASE i \notin throttleEvents[k]
        <4>1. \/ now - throttles[k][i] >= Window
              \/ openUntil[k] >= throttles[k][i] + Cooldown
              \/ now >= throttles[k][i] + Cooldown
          BY <1>1, <3>1, <3>4 DEF Forgotten
        <4>2. openUntil[k] \in Nat /\ openUntil'[k] \in Nat /\ openUntil'[k] >= openUntil[k]
          BY <1>1, <1>2 DEF TypeOK
        <4> QED BY <2>3, <3>2, <4>1, <4>2, BreakerAssumption
      <3> QED BY <3>3, <3>4
    <2> QED BY <2>1, <2>2, <2>3
  <1>9. RepeatedThrottlesStop'
    <2> SUFFICES ASSUME NEW j \in Keys, NEW S \in SUBSET (DOMAIN throttles'[j]),
                        Burst(j, S)'
                 PROVE  \E i \in S : \/ openUntil'[j] >= throttles'[j][i] + Cooldown
                                     \/ now >= throttles'[j][i] + Cooldown
      BY <1>2 DEF RepeatedThrottlesStop
    <2>1. /\ Cardinality(S) >= Threshold
          /\ \A a, b \in S : throttles'[j][b] - throttles'[j][a] < Window
      BY DEF Burst
    <2>2. CASE j # k \/ n \notin S
      <3>1. S \in SUBSET (DOMAIN throttles[j])
        BY <1>2, <2>2
      <3>2. \A i \in S : throttles'[j][i] = throttles[j][i]
        BY <1>2, <2>2, <3>1
      <3>3. Burst(j, S)
        BY <2>1, <3>1, <3>2 DEF Burst
      <3>4. PICK i \in S : \/ openUntil[j] >= throttles[j][i] + Cooldown
                           \/ now >= throttles[j][i] + Cooldown
        BY <1>1, <3>1, <3>3 DEF RepeatedThrottlesStop
      <3>5. /\ openUntil'[j] >= openUntil[j] /\ throttles[j][i] \in Nat
            /\ openUntil[j] \in Nat /\ openUntil'[j] \in Nat
        BY <1>1, <1>2, <3>1, HistoryType DEF TypeOK
      <3>6. throttles'[j][i] = throttles[j][i]
        BY <3>2
      <3> QED BY <3>4, <3>5, <3>6, BreakerAssumption
    <2>3. CASE j = k /\ n \in S /\ opens
      BY <1>2, <1>4, <2>3
    <2>4. CASE j = k /\ n \in S /\ ~opens
      <3>1. ~(S \subseteq recent)
        <4> SUFFICES ASSUME S \subseteq recent PROVE FALSE
          OBVIOUS
        <4>1. Cardinality(S) <= Cardinality(recent)
          BY <1>6, FS_Subset
        <4>2. Cardinality(S) \in Nat /\ Cardinality(recent) \in Nat
          BY <1>6, FS_Subset, FS_CardinalityType
        <4> QED BY <2>1, <2>4, <4>1, <4>2, BreakerAssumption
      <3>2. PICK i \in S : i \notin recent
        BY <3>1
      <3>3. i \in DOMAIN throttles[k] /\ i \notin Recent(k)
        BY <1>2, <2>4, <3>2
      <3>4. /\ throttles'[k][i] = throttles[k][i] /\ throttles[k][i] \in Nat
            /\ openUntil[k] \in Nat /\ openUntil'[k] \in Nat /\ openUntil'[k] >= openUntil[k]
        BY <1>1, <1>2, <3>3, HistoryType DEF TypeOK
      <3>5. now - throttles[k][i] < Window
        BY <1>2, <2>1, <2>4, <3>2, <3>4
      <3>6. i \notin throttleEvents[k]
        BY <3>3, <3>5 DEF Recent
      <3>7. \/ openUntil[k] >= throttles[k][i] + Cooldown
            \/ now >= throttles[k][i] + Cooldown
        BY <1>1, <3>3, <3>4, <3>5, <3>6, BreakerAssumption DEF Forgotten, TypeOK
      <3>8. \/ openUntil'[k] >= throttles'[k][i] + Cooldown
            \/ now >= throttles'[k][i] + Cooldown
        BY <3>4, <3>7, BreakerAssumption
      <3> QED BY <2>4, <3>2, <3>8
    <2> QED BY <2>2, <2>3, <2>4
  <1> QED BY <1>7, <1>8, <1>9 DEF BurstInv

\* The burst invariant holds of every behaviour of the breaker.
THEOREM BurstInvHolds == Spec => []BurstInv
  <1>1. Init => BurstInv
    <2> SUFFICES ASSUME Init PROVE BurstInv
      OBVIOUS
    <2>1. TypeOK /\ HistoryOK /\ Forgotten
      BY InitTypeOK DEF Init, HistoryOK, Forgotten
    <2>2. RepeatedThrottlesStop
      <3> SUFFICES ASSUME NEW k \in Keys, NEW S \in SUBSET (DOMAIN throttles[k]),
                          Burst(k, S)
                   PROVE  FALSE
        BY DEF RepeatedThrottlesStop
      <3>1. S = {}
        BY DEF Init
      <3>2. Cardinality(S) = 0
        BY <3>1, FS_EmptySet
      <3> QED BY <3>2, BreakerAssumption DEF Burst
    <2> QED BY <2>1, <2>2 DEF BurstInv
  <1>2. BurstInv /\ TypeOK' /\ [Next]_vars => BurstInv'
    <2> SUFFICES ASSUME BurstInv, TypeOK', [Next]_vars PROVE BurstInv'
      OBVIOUS
    <2>0. TypeOK
      BY DEF BurstInv
    <2>1. CASE Tick
      BY <2>0, <2>1, BurstInvStable DEF Tick, TypeOK
    <2>2. ASSUME NEW k \in Keys, AssertClosed(k) PROVE BurstInv'
      BY <2>0, <2>2, BurstInvStable DEF AssertClosed, TypeOK
    <2>3. ASSUME NEW k \in Keys, NEW cls \in Classes, Trip(k, cls) PROVE BurstInv'
      <3>1. CASE TripExplicit(k, cls)
        <4>1. now + StopsFor(cls) \in Nat
          BY <2>0, <3>1, StopsForType DEF TypeOK
        <4>2. \A j \in Keys : openUntil'[j] >= openUntil[j]
          BY <2>0, <3>1, <4>1, OpenCircuitNeverShrinks DEF TripExplicit, TypeOK
        <4> QED BY <3>1, <4>2, BurstInvStable DEF TripExplicit
      <3>2. CASE TripCounted(k, cls)
        BY <3>2, BurstInvCounted
      <3>3. CASE TripIgnored(cls)
        BY <2>0, <3>3, BurstInvStable DEF TripIgnored, vars, TypeOK
      <3> QED BY <2>3, <3>1, <3>2, <3>3 DEF Trip
    <2>4. CASE UNCHANGED vars
      BY <2>0, <2>4, BurstInvStable DEF vars, TypeOK
    <2> QED BY <2>1, <2>2, <2>3, <2>4 DEF Next
  <1> QED BY <1>1, <1>2, TypeCorrect, PTL DEF Spec

\* Whichever Threshold throttles fall within one window started a cool-down
\* (RepeatedThrottlesStop), for every number of keys, threshold and window.
THEOREM BurstsStop == Spec => []RepeatedThrottlesStop
  <1>1. BurstInv => RepeatedThrottlesStop
    BY DEF BurstInv
  <1> QED BY <1>1, BurstInvHolds, PTL

-----------------------------------------------------------------------------
\* A cause of an open circuit stays one when throttles are only appended.
LEMMA CauseStable ==
  ASSUME NEW k \in Keys, openUntil'[k] = openUntil[k], owed'[k] = owed[k],
         DOMAIN throttles[k] \subseteq DOMAIN throttles'[k],
         \A i \in DOMAIN throttles[k] : throttles'[k][i] = throttles[k][i],
         \/ openUntil[k] = owed[k]
         \/ \E S \in SUBSET (DOMAIN throttles[k]) :
              Burst(k, S) /\ \E i \in S : openUntil[k] = throttles[k][i] + Cooldown
  PROVE  \/ openUntil'[k] = owed'[k]
         \/ \E S \in SUBSET (DOMAIN throttles'[k]) :
              Burst(k, S)' /\ \E i \in S : openUntil'[k] = throttles'[k][i] + Cooldown
  <1>1. CASE openUntil[k] = owed[k]
    BY <1>1
  <1>2. ASSUME NEW S \in SUBSET (DOMAIN throttles[k]), Burst(k, S),
               \E i \in S : openUntil[k] = throttles[k][i] + Cooldown
        PROVE  /\ S \in SUBSET (DOMAIN throttles'[k]) /\ Burst(k, S)'
               /\ \E i \in S : openUntil'[k] = throttles'[k][i] + Cooldown
    <2>1. Cardinality(S) >= Threshold
      BY <1>2 DEF Burst
    <2>2. \A i, j \in S : throttles'[k][j] - throttles'[k][i] < Window
      BY <1>2 DEF Burst
    <2> QED BY <1>2, <2>1, <2>2 DEF Burst
  <1> QED BY <1>1, <1>2

\* No circuit is open without a cause (OpenHasCause).
THEOREM OpenOnlyForCause == Spec => []OpenHasCause
  <1> DEFINE Cause(k) ==
        \/ openUntil[k] = owed[k]
        \/ \E S \in SUBSET (DOMAIN throttles[k]) :
             Burst(k, S) /\ \E i \in S : openUntil[k] = throttles[k][i] + Cooldown
  <1>1. Init => OpenHasCause
    BY DEF Init, OpenHasCause, IsOpen
  <1>2. BurstInv /\ OwedStopHonoured /\ OpenHasCause /\ TypeOK' /\ [Next]_vars
          => OpenHasCause'
    <2> SUFFICES ASSUME BurstInv, OwedStopHonoured, OpenHasCause, TypeOK',
                        [Next]_vars, NEW k \in Keys, openUntil'[k] > now'
                 PROVE  Cause(k)'
      BY DEF OpenHasCause, IsOpen
    <2>0. /\ TypeOK /\ HistoryOK /\ now \in Nat /\ now' \in Nat
          /\ \A j \in Keys : openUntil[j] \in Nat /\ owed[j] \in Nat
      BY DEF BurstInv, TypeOK
    <2>c. openUntil[k] > now => Cause(k)
      BY DEF OpenHasCause, IsOpen
    <2>s. ASSUME UNCHANGED <<throttles, owed>>, openUntil'[k] = openUntil[k],
                 now' >= now
          PROVE  Cause(k)'
      <3>1. Cause(k)
        BY <2>0, <2>c, <2>s
      <3> QED BY <2>s, <3>1, CauseStable
    <2>1. CASE Tick
      BY <2>0, <2>1, <2>s DEF Tick
    <2>2. ASSUME NEW j \in Keys, AssertClosed(j) PROVE Cause(k)'
      <3>1. openUntil'[k] = openUntil[k]
        BY <2>0, <2>2 DEF AssertClosed, TypeOK
      <3> QED BY <2>0, <2>2, <2>s, <3>1 DEF AssertClosed
    <2>3. ASSUME NEW j \in Keys, NEW cls \in Classes, Trip(j, cls) PROVE Cause(k)'
      <3>1. CASE TripExplicit(j, cls)
        <4> DEFINE until == now + StopsFor(cls)
        <4>1. until \in Nat /\ until >= now
          BY <2>0, <3>1, StopsForType
        <4>2. /\ openUntil' = openCircuit(j, until) /\ now' = now
              /\ owed' = [owed EXCEPT ![j] = Latest(@, until)]
              /\ throttles' = throttles
          BY <3>1 DEF TripExplicit
        <4> HIDE DEF until
        <4>3. CASE k # j \/ openUntil[j] > until
          <5>1. openUntil'[k] = openUntil[k]
            BY <2>0, <4>2, <4>3 DEF openCircuit, TypeOK
          <5>2. CASE owed'[k] = owed[k]
            <6>1. Cause(k)
              BY <2>c, <4>2, <5>1
            <6> QED BY <4>2, <5>1, <5>2, <6>1, CauseStable
          <5>3. CASE owed'[k] # owed[k]
            <6>1. k = j /\ owed'[k] = until /\ ~(owed[k] >= until)
              BY <2>0, <4>2, <5>3 DEF TypeOK, Latest
            <6>2. openUntil[k] # owed[k]
              BY <2>0, <4>1, <4>3, <6>1
            <6>3. PICK S \in SUBSET (DOMAIN throttles[k]) :
                    Burst(k, S) /\ \E i \in S : openUntil[k] = throttles[k][i] + Cooldown
              BY <2>c, <4>2, <5>1, <6>2
            <6>4. Burst(k, S)'
              BY <4>2, <6>3 DEF Burst
            <6> QED BY <4>2, <5>1, <6>3, <6>4
          <5> QED BY <5>2, <5>3
        <4>4. CASE k = j /\ ~(openUntil[j] > until)
          <5>1. openUntil'[k] = until
            BY <2>0, <4>2, <4>4 DEF openCircuit, TypeOK
          <5>2. owed[k] <= until
            BY <2>0, <4>1, <4>4 DEF OwedStopHonoured
          <5>3. owed'[k] = until
            BY <2>0, <4>1, <4>2, <4>4, <5>2 DEF Latest, TypeOK
          <5> QED BY <5>1, <5>3
        <4> QED BY <4>3, <4>4
      <3>2. CASE TripCounted(j, cls)
        <4> DEFINE n == Len(throttles[j]) + 1
                   recent == Recent(j) \cup {n}
        <4>1. /\ now' = now /\ owed' = owed
              /\ DOMAIN throttles'[j] = DOMAIN throttles[j] \cup {n}
              /\ throttles'[j][n] = now
              /\ \A i \in DOMAIN throttles[j] : throttles'[j][i] = throttles[j][i]
              /\ \A l \in Keys \ {j} : throttles'[l] = throttles[l]
              /\ \A l \in Keys \ {j} : openUntil'[l] = openUntil[l]
          BY <2>0, <3>2, CountedEffect
        <4>2. CASE openUntil'[k] = openUntil[k]
          <5>1. Cause(k)
            BY <2>c, <4>1, <4>2
          <5>2. /\ DOMAIN throttles[k] \subseteq DOMAIN throttles'[k]
                /\ \A i \in DOMAIN throttles[k] : throttles'[k][i] = throttles[k][i]
            BY <4>1
          <5> QED BY <4>1, <4>2, <5>1, <5>2, CauseStable
        <4>3. CASE openUntil'[k] # openUntil[k]
          <5>1. k = j
            BY <4>1, <4>3
          <5>2. Cardinality(recent) >= Threshold /\ openUntil' = openCircuit(j, now + Cooldown)
            BY <3>2, <4>3, <5>1 DEF TripCounted
          <5>3. openUntil'[k] = now + Cooldown
            BY <2>0, <4>3, <5>1, <5>2 DEF openCircuit, TypeOK
          <5>4. recent \subseteq DOMAIN throttles'[j]
            BY <2>0, <4>1, RecentFinite
          <5>5. \A i \in recent : /\ throttles'[j][i] \in Nat /\ throttles'[j][i] <= now
                                  /\ now - throttles'[j][i] < Window
            <6>1. ASSUME NEW i \in Recent(j)
                  PROVE  /\ throttles'[j][i] \in Nat /\ throttles'[j][i] <= now
                         /\ now - throttles'[j][i] < Window
              <7>1. i \in DOMAIN throttles[j]
                BY <2>0, RecentFinite
              <7>2. throttles[j][i] \in Nat /\ throttles[j][i] <= now
                BY <2>0, <7>1, HistoryType DEF HistoryOK
              <7>3. now - throttles[j][i] < Window
                BY DEF Recent
              <7> QED BY <4>1, <7>1, <7>2, <7>3
            <6>2. /\ throttles'[j][n] \in Nat /\ throttles'[j][n] <= now
                  /\ now - throttles'[j][n] < Window
              BY <2>0, <4>1, BreakerAssumption
            <6> QED BY <6>1, <6>2
          <5>6. PICK S : S = recent
            OBVIOUS
          <5>7. Burst(j, S)'
            <6>1. ASSUME NEW a \in S, NEW b \in S
                  PROVE  throttles'[j][b] - throttles'[j][a] < Window
              <7>1. /\ throttles'[j][a] \in Nat /\ throttles'[j][b] \in Nat
                    /\ throttles'[j][b] <= now /\ now - throttles'[j][a] < Window
                BY <5>5, <5>6
              <7> QED BY <2>0, <7>1, BreakerAssumption
            <6> QED BY <5>2, <5>4, <5>6, <6>1 DEF Burst
          <5>8. /\ S \in SUBSET (DOMAIN throttles'[j]) /\ n \in S
                /\ openUntil'[k] = throttles'[j][n] + Cooldown
            BY <4>1, <5>3, <5>4, <5>6
          <5> QED BY <5>1, <5>7, <5>8
        <4> QED BY <4>2, <4>3
      <3>3. CASE TripIgnored(cls)
        BY <2>0, <2>s, <3>3 DEF TripIgnored, vars
      <3> QED BY <2>3, <3>1, <3>2, <3>3 DEF Trip
    <2>4. CASE UNCHANGED vars
      BY <2>0, <2>4, <2>s DEF vars
    <2> QED BY <2>1, <2>2, <2>3, <2>4 DEF Next
  <1> QED BY <1>1, <1>2, TypeCorrect, BurstInvHolds, OwedStopsKept, PTL DEF Spec
=============================================================================
