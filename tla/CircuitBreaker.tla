--------------------------- MODULE CircuitBreaker ---------------------------
(* The circuit breaker in front of the Meta Graph API                      *)
(* (src/src/meta/circuit-breaker.ts).                                      *)
(*                                                                         *)
(* A circuit belongs to a key (token, account, business-use-case type).    *)
(* A throttled answer of Meta opens the circuit of its key for a time that *)
(* depends on the answer; the client asks AssertClosed before it calls.    *)
(* Time is a discrete clock; deadlines are clock values.                   *)
(*                                                                         *)
(* Left out: the reason, the last error and the trip count of a circuit,   *)
(* which only logs and snapshots read.                                     *)
EXTENDS Integers, FiniteSets, Sequences

CONSTANTS
  Keys,            \* the (token, account, type) triples, see circuitKey
  Hints,           \* the retry-after hints an answer may carry
  Window,          \* REPEATED_THROTTLE_WINDOW_MS    (5 min)
  Threshold,       \* REPEATED_THROTTLE_THRESHOLD    (3)
  Cooldown,        \* REPEATED_THROTTLE_COOLDOWN_MS  (15 min)
  BlockCooldown,   \* TEMPORARY_BLOCK_COOLDOWN_MS    (30 min)
  AbuseCooldown,   \* ABUSE_SIGNAL_COOLDOWN_MS       (60 min)
  MaxTime,         \* bound: the clock stops here
  MaxThrottles     \* bound: recorded throttles per key

ASSUME BreakerAssumption ==
  /\ Hints \subseteq Nat
  /\ Window \in Nat \ {0} /\ Threshold \in Nat \ {0} /\ Cooldown \in Nat
  /\ BlockCooldown \in Nat /\ AbuseCooldown \in Nat
  /\ MaxTime \in Nat /\ MaxThrottles \in Nat

VARIABLES
  now,             \* Date.now()
  openUntil,       \* circuits: key -> openUntil, 0 when the map has no entry
  throttles,       \* history: key -> times of its throttles without a hint
  throttleEvents,  \* key -> the positions in throttles still remembered
  owed             \* history: key -> the latest stop Meta's answers asked for

vars == <<now, openUntil, throttles, throttleEvents, owed>>

NoHint == -1

\* A classified error, as far as the breaker looks at it.
Classes == [category: {"abuse_signal", "temporary_block", "other"},
            throttled: BOOLEAN, retryAfter: Hints \cup {NoHint}]

\* A completed count is forgotten: fewer than Threshold throttles are kept.
Remembered ==
  \A k \in Keys : IsFiniteSet(throttleEvents[k]) /\ Cardinality(throttleEvents[k]) < Threshold

TypeOK ==
  /\ now \in Nat
  /\ openUntil \in [Keys -> Nat]
  /\ throttles \in [Keys -> Seq(Nat)]
  /\ throttleEvents \in [Keys -> SUBSET Nat]
  /\ owed \in [Keys -> Nat]
  /\ Remembered

Init ==
  /\ now = 0
  /\ openUntil = [k \in Keys |-> 0]
  /\ throttles = [k \in Keys |-> <<>>]
  /\ throttleEvents = [k \in Keys |-> {}]
  /\ owed = [k \in Keys |-> 0]
-----------------------------------------------------------------------------
IsOpen(k) == openUntil[k] > now

\* assertClosed lets a request pass, and sweeps every expired circuit.
AssertClosed(k) ==
  /\ ~IsOpen(k)
  /\ openUntil' = [j \in Keys |-> IF openUntil[j] <= now THEN 0 ELSE openUntil[j]]
  /\ UNCHANGED <<now, throttles, throttleEvents, owed>>

\* Mutant: the latest cool-down wins.
openCircuitLatest(k, until) == [openUntil EXCEPT ![k] = until]

\* The map of circuits after openCircuit: a cool-down never shrinks.
openCircuit(k, until) ==
  IF openUntil[k] > until THEN openUntil ELSE [openUntil EXCEPT ![k] = until]

Latest(a, b) == IF a >= b THEN a ELSE b

\* How long the answer itself asks to stop for.
StopsFor(cls) ==
  CASE cls.category = "abuse_signal"    -> AbuseCooldown
    [] cls.category = "temporary_block" ->
         IF cls.retryAfter = NoHint THEN BlockCooldown ELSE cls.retryAfter
    [] cls.category = "other"           -> cls.retryAfter

\* trip: the answer says for how long to stop, by its category or its hint.
TripExplicit(k, cls) ==
  /\ cls.category = "other" => cls.throttled /\ cls.retryAfter > 0
  /\ openUntil' = openCircuit(k, now + StopsFor(cls))
  /\ owed' = [owed EXCEPT ![k] = Latest(@, now + StopsFor(cls))]
  /\ UNCHANGED <<now, throttles, throttleEvents>>

\* Mutants: a window that is too short, and none.
RecentShort(k) == {i \in throttleEvents[k] : now - throttles[k][i] < Window - 1}
RecentForever(k) == throttleEvents[k]

\* The remembered throttles of k that still count now.
Recent(k) == {i \in throttleEvents[k] : now - throttles[k][i] < Window}

\* Mutant: the count survives the opening of the circuit.
TripCountedKept(k, cls) ==
  /\ cls.category = "other" /\ cls.throttled /\ cls.retryAfter <= 0
  /\ Len(throttles[k]) < MaxThrottles
  /\ throttles' = [throttles EXCEPT ![k] = Append(@, now)]
  /\ LET recent == Recent(k) \cup {Len(throttles[k]) + 1}
     IN  /\ throttleEvents' = [throttleEvents EXCEPT ![k] = recent]
         /\ openUntil' = IF Cardinality(recent) >= Threshold
                         THEN openCircuit(k, now + Cooldown) ELSE openUntil
  /\ UNCHANGED <<now, owed>>

\* trip: a throttle without a hint is counted; the Threshold-th within a
\* window opens the circuit and forgets the count.
TripCounted(k, cls) ==
  /\ cls.category = "other" /\ cls.throttled /\ cls.retryAfter <= 0
  /\ Len(throttles[k]) < MaxThrottles
  /\ throttles' = [throttles EXCEPT ![k] = Append(@, now)]
  /\ LET recent == Recent(k) \cup {Len(throttles[k]) + 1}
     IN  IF Cardinality(recent) >= Threshold
         THEN /\ openUntil' = openCircuit(k, now + Cooldown)
              /\ throttleEvents' = [throttleEvents EXCEPT ![k] = {}]
         ELSE /\ throttleEvents' = [throttleEvents EXCEPT ![k] = recent]
              /\ UNCHANGED openUntil
  /\ UNCHANGED <<now, owed>>

\* trip: an answer that is not a throttle changes nothing.
TripIgnored(cls) ==
  /\ cls.category = "other" /\ ~cls.throttled
  /\ UNCHANGED vars

Trip(k, cls) == TripExplicit(k, cls) \/ TripCounted(k, cls) \/ TripIgnored(cls)

Tick ==
  /\ now < MaxTime
  /\ now' = now + 1
  /\ UNCHANGED <<openUntil, throttles, throttleEvents, owed>>

Next ==
  \/ Tick
  \/ \E k \in Keys : AssertClosed(k) \/ \E cls \in Classes : Trip(k, cls)

Spec == Init /\ [][Next]_vars
-----------------------------------------------------------------------------
\* Every stop an answer of Meta asked for is kept to its end, whatever is
\* received after it: a later, shorter hint or a repeated-throttle cool-down
\* never cuts an abuse or block cool-down short, and the sweep never removes
\* a circuit early (trip, openCircuit, assertClosed).
OwedStopHonoured == \A k \in Keys : owed[k] > now => openUntil[k] >= owed[k]

\* Threshold throttles of k, all within one window.
Burst(k, S) ==
  /\ S \subseteq DOMAIN throttles[k] /\ Cardinality(S) >= Threshold
  /\ \A i, j \in S : throttles[k][j] - throttles[k][i] < Window

\* Whichever Threshold throttles fall within one window, and whatever was
\* forgotten between them, one of them started a cool-down that is still on
\* (or over): deleting the count when the circuit opens loses no burst.
RepeatedThrottlesStop ==
  \A k \in Keys : \A S \in SUBSET (DOMAIN throttles[k]) :
    Burst(k, S) => \E i \in S : \/ openUntil[k] >= throttles[k][i] + Cooldown
                                \/ now >= throttles[k][i] + Cooldown

\* A circuit is open only for a cause: a stop Meta asked for, or a burst of
\* throttles whose cool-down is not over. Stale throttles never add up.
OpenHasCause ==
  \A k \in Keys : IsOpen(k) =>
    \/ openUntil[k] = owed[k]
    \/ \E S \in SUBSET (DOMAIN throttles[k]) :
         /\ Burst(k, S)
         /\ \E i \in S : openUntil[k] = throttles[k][i] + Cooldown
=============================================================================
