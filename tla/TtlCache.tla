------------------------------ MODULE TtlCache ------------------------------
(* The cache of the dashboard's reads (src/src/dashboard/cache.ts): each   *)
(* entry is the promise of a load, so callers share a load in flight, and  *)
(* it expires some time after the load resolved. The Map keeps insertion   *)
(* order. A load is named after the caller that started it.                *)
EXTENDS Integers, FiniteSets

CONSTANTS
  Callers,       \* calls of getOrLoad
  Keys,
  CacheTtl,      \* ttlMs
  MaxEntries     \* maxEntries (500)

VARIABLES
  now,           \* now()
  entries,       \* key -> [load, expiresAt, order], or NoEntry
  load,          \* load -> "none", "loading", "done" or "failed"
  awaits         \* caller -> the load whose promise it got, or NoLoad

CONSTANT NoLoad
InFlight == -1
NoEntry == [load |-> NoLoad, expiresAt |-> InFlight, order |-> 0]

cacheVars == <<entries, load, awaits>>

InitCache ==
  /\ entries = [k \in Keys |-> NoEntry]
  /\ load = [c \in Callers |-> "none"]
  /\ awaits = [c \in Callers |-> NoLoad]

CacheOK ==
  /\ entries \in [Keys -> [load : Callers \cup {NoLoad},
                           expiresAt : Nat \cup {InFlight}, order : Nat]]
  /\ load \in [Callers -> {"none", "loading", "done", "failed"}]
  /\ awaits \in [Callers -> Callers \cup {NoLoad}]
-----------------------------------------------------------------------------
Present(map) == {k \in Keys : map[k].load # NoLoad}
Without(map, S) == [k \in Keys |-> IF k \in S THEN NoEntry ELSE map[k]]

purgeExpired ==
  Without(entries, {k \in Present(entries) :
                      entries[k].expiresAt # InFlight /\ entries[k].expiresAt <= now})

\* The oldest entries beyond MaxEntries go, loads in flight included.
evictIfNeeded(map) ==
  Without(map, {k \in Present(map) :
    Cardinality({j \in Present(map) : map[j].order > map[k].order}) >= MaxEntries})

NextOrder == 1 + Cardinality({c \in Callers : load[c] # "none"})

\* getOrLoad: the promise that is there, or that of a new load.
getOrLoad(c, k) ==
  /\ awaits[c] = NoLoad
  /\ IF purgeExpired[k].load # NoLoad
     THEN /\ entries' = purgeExpired
          /\ awaits' = [awaits EXCEPT ![c] = purgeExpired[k].load]
          /\ UNCHANGED load
     ELSE /\ entries' = evictIfNeeded([purgeExpired EXCEPT ![k] =
                          [load |-> c, expiresAt |-> InFlight, order |-> NextOrder]])
          /\ awaits' = [awaits EXCEPT ![c] = c]
          /\ load' = [load EXCEPT ![c] = "loading"]

\* The load resolves: its entry becomes cacheable if it is still the live one.
Resolve(c) ==
  /\ load[c] = "loading"
  /\ load' = [load EXCEPT ![c] = "done"]
  /\ entries' = [k \in Keys |-> IF entries[k].load = c
                                THEN [entries[k] EXCEPT !.expiresAt = now + CacheTtl]
                                ELSE entries[k]]
  /\ UNCHANGED awaits

\* Mutant: the entry of a failed load stays.
RejectKept(c) ==
  /\ load[c] = "loading"
  /\ load' = [load EXCEPT ![c] = "failed"]
  /\ UNCHANGED <<entries, awaits>>

\* The load fails: its entry goes if it is still the live one.
Reject(c) ==
  /\ load[c] = "loading"
  /\ load' = [load EXCEPT ![c] = "failed"]
  /\ entries' = Without(entries, {k \in Keys : entries[k].load = c})
  /\ UNCHANGED awaits

\* Mutant: loads in flight are left to resolve.
invalidateResolved(S) ==
  /\ entries' = Without(entries, {k \in S : entries[k].expiresAt # InFlight})
  /\ UNCHANGED <<load, awaits>>

\* invalidatePrefix drops loads in flight too.
invalidatePrefix(S) == entries' = Without(entries, S) /\ UNCHANGED <<load, awaits>>

\* No entry holds the promise of a failed load.
FailuresNotCached == \A k \in Present(entries) : load[entries[k].load] # "failed"
=============================================================================
