------------------------- MODULE DatasetLookupProofs -------------------------
(* Proofs about the lookups of DatasetLookup: what is registered, cached    *)
(* and awaited at any moment, that a retired scan neither is published nor  *)
(* writes into a published map, and that without a change of the datasets   *)
(* every lookup that ends has found the ad, or the ad is not within reach.  *)
EXTENDS DatasetLookup, FiniteSetTheorems, WellFoundedInduction, TLAPS

Running(c) == scans[c].running
Current(c) == scans[c].gen = generation[dataset[c]]

\* The registered scan of a dataset is one of it that runs; a scan that runs is
\* of an earlier generation if and only if it was retired, else it is the one
\* registered; and whoever started it awaits it.
Registered ==
  /\ \A d \in Datasets : inFlight[d] # NoLookup => Running(inFlight[d]) /\ dataset[inFlight[d]] = d
  /\ \A c \in Lookups : Running(c) =>
       /\ scans[c].gen \in 1..generationCounter
       /\ scans[c].entry.retired <=> ~Current(c)
       /\ Current(c) => inFlight[dataset[c]] = c
       /\ look[c].pc = "waiting" /\ look[c].on = c

\* A dataset has a generation as long as something of it is cached, being
\* scanned or being looked up (maybeForget).
Generations ==
  \A d \in Datasets :
    /\ generation[d] = 0 => cache[d] = NoEntry /\ activeScans(d) = {}
    /\ generation[d] # 0 => cache[d] # NoEntry \/ activeScans(d) # {} \/ activeLocates(d) # {}

\* The map object m is referred to on behalf of dataset d.
Holds(m, d) ==
  \/ cache[d].map = m
  \/ \E c \in Lookups :
       /\ dataset[c] = d
       /\ (Running(c) /\ scans[c].entry.map = m) \/ look[c].got.map = m

\* No map is shared between datasets or between running scans, and only a scan
\* of the current generation writes into the one that is cached.
Maps ==
  /\ \A d \in Datasets : (cache[d] # NoEntry => cache[d].map # 0) /\ ~cache[d].retired
  /\ \A c \in Lookups : Running(c) => scans[c].entry.map # 0
  /\ \A m \in MapIds : \A d, e \in Datasets : Holds(m, d) /\ Holds(m, e) => d = e
  /\ \A b, c \in Lookups : Running(b) /\ Running(c) /\ scans[b].entry.map = scans[c].entry.map =>
       b = c
  /\ \A c \in Lookups : Running(c) /\ cache[dataset[c]].map = scans[c].entry.map => Current(c)

\* The scan that left e has read more than n items, or all there are.
Reached(n, e) == n < e.scanned \/ e.complete

\* Whoever waits awaits a scan of its dataset and generation that began no
\* earlier in it than it knows, and that brings something new when it returns.
Awaits(w) ==
  LET s == scans[look[w].on] IN
  /\ look[w].stalls = 0
  /\ look[w].pc \in {"waiting", "woken"} => look[w].gen # 0 /\ generation[dataset[w]] # 0
  /\ look[w].pc = "waiting" =>
       /\ look[w].on \in Lookups /\ s.running
       /\ dataset[look[w].on] = dataset[w] /\ s.gen = look[w].gen
       /\ look[w].before <= s.entry.scanned
       /\ s.returned => Reached(look[w].before, s.entry)
  /\ look[w].pc # "woken" => look[w].got = NoEntry
  /\ look[w].pc = "woken" => look[w].got.map # 0 /\ Reached(look[w].before, look[w].got)

\* A scan goes on until it has read all it may; what is cached is behind it.
ReadsFrom(c) ==
  /\ ~scans[c].returned => ~isExhausted(scans[c].entry)
  /\ Current(c) => LET e == cache[dataset[c]] IN
       /\ e.scanned <= scans[c].entry.scanned
       /\ scans[c].returned => Reached(e.scanned, scans[c].entry)

Waiters ==
  /\ \A w \in Lookups : Awaits(w)
  /\ \A c \in Lookups : Running(c) => ReadsFrom(c)

LookupInv == LookupTypeOK /\ Registered /\ Generations /\ Maps /\ Waiters

\* What a map may say of a dataset that holds "held" and of which e.scanned
\* items were read: all that was read, and nothing that is not there.
RightIn(map, held, e) ==
  /\ e.scanned <= Len(held) /\ (e.complete => e.scanned = Len(held))
  /\ \A n \in 1..e.scanned : held[n] \in Ids => map[held[n]] >= 0
  /\ \A i \in Ids : map[i] >= 0 =>
       map[i] + 1 \in 1..lesser(Len(held), MaxItems) /\ held[map[i] + 1] = i

Right(e, d) == RightIn(maps[e.map], first[d], e)

\* What holds of a lookup while no dataset has changed.
Unharmed(c) ==
  LET d == dataset[c] IN
  /\ look[c].pc = "woken" => Right(look[c].got, d)
  /\ look[c].pc \in {"waiting", "woken"} => generation[d] = look[c].gen
  /\ look[c].pc = "fetching" =>
       /\ look[c].offset + 1 \in 1..Len(first[d])
       /\ first[d][look[c].offset + 1] = target[c]
  /\ look[c].pc = "missing" => \A n \in 1..Len(reach(d)) : reach(d)[n] # target[c]
  /\ look[c].pc # "unstable"

StableInv ==
  changes = 0 =>
    /\ content = first
    /\ \A d \in Datasets : cache[d] # NoEntry => Right(cache[d], d)
    /\ \A c \in Lookups : (Running(c) => Right(scans[c].entry, dataset[c])) /\ Unharmed(c)

-----------------------------------------------------------------------------
\* A set of numbers has a least one: the sets 0..n are well-founded by inclusion.
LEMMA Least ==
  ASSUME NEW S \in SUBSET Nat, S # {}
  PROVE  \E n \in S : \A m \in S : n <= m
<1>1. PICK k \in S : TRUE
  OBVIOUS
<1> DEFINE T == {0..n : n \in {m \in S : m <= k}}
<1>2. IsFiniteSet(0..k)
  BY FS_Interval
<1>3. T \subseteq SUBSET (0..k) /\ T # {}
  BY <1>1
<1>4. IsWellFoundedOn(StrictSubsetOrdering(0..k), SUBSET (0..k))
  BY <1>2, FS_StrictSubsetOrderingWellFounded, FS_FiniteSubsetsOfFinite
<1>5. PICK I \in T : \A J \in T : ~(<<J, I>> \in StrictSubsetOrdering(0..k))
  <2> HIDE DEF T
  <2> QED BY <1>3, <1>4, WFMin
<1>6. PICK n \in S : n <= k /\ I = 0..n
  OBVIOUS
<1>7. \A m \in S : m < n => 0..m \in T /\ 0..m # 0..n /\ 0..m \subseteq 0..n /\ 0..n \subseteq 0..k
  BY <1>6
<1>8. \A m \in S : ~(m < n)
  BY <1>5, <1>6, <1>7 DEF StrictSubsetOrdering
<1> QED BY <1>8

LEMMA Nothing ==
  /\ NoEntry \in CacheEntry /\ NoEntry.map = 0 /\ NoEntry.scanned = 0
  /\ ~NoEntry.retired /\ ~NoEntry.old /\ ~NoEntry.complete
  /\ NoScan \in ScanState /\ ~NoScan.running /\ NoScan.entry = NoEntry
BY LookupAssumption DEF NoEntry, NoScan, CacheEntry, ScanState

\* A map object is free for the scan that a lookup starts.
LEMMA FreshMap ==
  ASSUME LookupInv, NEW c \in Lookups, look[c].pc = "locating"
  PROVE  /\ freshMap \in MapIds
         /\ \A d \in Datasets : cache[d].map # freshMap
         /\ \A b \in Lookups : ~(Running(b) /\ scans[b].entry.map = freshMap)
              /\ look[b].got.map # freshMap
<1> DEFINE A == {cache[d].map : d \in Datasets}
           B == {scans[b].entry.map : b \in Lookups}
           C == {look[b].got.map : b \in Lookups \ {c}}
           L == Cardinality(Lookups)
           D == Cardinality(Datasets)
<1>1. IsFiniteSet(A) /\ Cardinality(A) <= D
  <2> DEFINE f == [d \in Datasets |-> cache[d].map]
  <2>1. f \in Surjection(Datasets, A)
    BY DEF Surjection
  <2> QED BY <2>1, FS_Surjection, LookupAssumption
<1>2. IsFiniteSet(B) /\ Cardinality(B) <= L
  <2> DEFINE f == [b \in Lookups |-> scans[b].entry.map]
  <2>1. f \in Surjection(Lookups, B)
    BY DEF Surjection
  <2> QED BY <2>1, FS_Surjection, LookupAssumption
<1>3. IsFiniteSet(Lookups \ {c}) /\ Cardinality(Lookups \ {c}) = L - 1
  BY FS_RemoveElement, LookupAssumption
<1>4. IsFiniteSet(C) /\ Cardinality(C) <= L - 1
  <2> DEFINE f == [b \in Lookups \ {c} |-> look[b].got.map]
  <2>1. f \in Surjection(Lookups \ {c}, C)
    BY DEF Surjection
  <2> QED BY <2>1, <1>3, FS_Surjection
<1>5. L \in Nat /\ D \in Nat
  BY FS_CardinalityType, LookupAssumption
<1>6. IsFiniteSet(A \cup B \cup C) /\ Cardinality(A \cup B \cup C) < 2 * L + D
  <2> HIDE DEF A, B, C, L, D
  <2>1. /\ IsFiniteSet(A \cup B)
        /\ Cardinality(A \cup B) = Cardinality(A) + Cardinality(B) - Cardinality(A \cap B)
    BY <1>1, <1>2, FS_Union
  <2>2. /\ IsFiniteSet(A \cup B \cup C)
        /\ Cardinality(A \cup B \cup C) = Cardinality(A \cup B) + Cardinality(C) - Cardinality((A \cup B) \cap C)
    BY <2>1, <1>4, FS_Union
  <2>3. IsFiniteSet(A \cap B) /\ IsFiniteSet((A \cup B) \cap C)
    BY <1>1, <2>1, FS_Intersection, FS_Subset
  <2>4. /\ Cardinality(A) \in Nat /\ Cardinality(B) \in Nat /\ Cardinality(C) \in Nat
        /\ Cardinality(A \cap B) \in Nat /\ Cardinality((A \cup B) \cap C) \in Nat
        /\ Cardinality(A \cup B) \in Nat
    BY <1>1, <1>2, <1>4, <2>1, <2>3, FS_CardinalityType
  <2> QED BY <2>1, <2>2, <2>4, <1>1, <1>2, <1>4, <1>5
<1>7. PICK m \in MapIds : m \notin A \cup B \cup C
  <2>1. IsFiniteSet(MapIds) /\ Cardinality(MapIds) = 2 * L + D
    <3>1. MapIds = 1..(2 * L + D)
      BY DEF MapIds
    <3> HIDE DEF A, B, C, L, D
    <3>2. Cardinality(A \cup B \cup C) \in Nat
      BY <1>6, FS_CardinalityType
    <3>3. 2 * L + D \in Int /\ ~(1 > 2 * L + D) /\ 2 * L + D - 1 + 1 = 2 * L + D
      BY <1>5, <1>6, <3>2
    <3> QED BY <3>1, <3>3, FS_Interval
  <2>2. ~(MapIds \subseteq A \cup B \cup C)
    <3> HIDE DEF A, B, C, L, D
    <3>1. Cardinality(A \cup B \cup C) \in Nat
      BY <1>6, FS_CardinalityType
    <3> QED BY <1>5, <1>6, <2>1, <3>1, FS_Subset
  <2> QED BY <2>2
<1>8. look[c].got.map = 0 /\ m # 0
  BY <1>5, <1>7, Nothing DEF LookupInv, Waiters, Awaits, ReadsFrom, MapIds
<1>9. /\ \A d \in Datasets : cache[d].map # m
      /\ \A b \in Lookups : ~(scans[b].running /\ scans[b].entry.map = m) /\ look[b].got.map # m
  BY <1>7, <1>8
<1> QED BY <1>7, <1>9 DEF freshMap, Running

LEMMA NoMapId == 0 \notin MapIds
BY DEF MapIds

\* What forgetIdle leaves behind.
LEMMA IdleForgotten ==
  ASSUME NEW g, forgetIdle(g),
         \A d \in Datasets : g[d] = 0 => cache'[d] = NoEntry /\ activeScans(d)' = {}
  PROVE  /\ Generations'
         /\ \A d \in Datasets :
              /\ generation'[d] \in {0, g[d]}
              /\ cache'[d] # NoEntry \/ activeScans(d)' # {} \/ activeLocates(d)' # {} =>
                   generation'[d] = g[d]
BY DEF forgetIdle, Generations

\* Nothing begins to refer to a map.
LEMMA FewerHolders ==
  ASSUME LookupInv,
         \A d \in Datasets :
           \/ cache'[d] = NoEntry
           \/ cache[d] # NoEntry /\ cache'[d].map = cache[d].map /\ ~cache'[d].retired,
         \A c \in Lookups : Running(c)' =>
           /\ Running(c) /\ scans'[c].entry.map = scans[c].entry.map
           /\ cache'[dataset[c]] # NoEntry /\ Current(c) => Current(c)',
         \A c \in Lookups : look'[c].got.map \in {0, look[c].got.map}
  PROVE  Maps'
<1> USE LookupAssumption, Nothing, NoMapId DEF LookupInv, LookupTypeOK
<1>1. \A m \in MapIds, d \in Datasets : Holds(m, d)' => Holds(m, d)
  BY DEF Holds
<1>2. \A m \in MapIds : \A d, e \in Datasets : Holds(m, d)' /\ Holds(m, e)' => d = e
  BY <1>1 DEF Maps
<1>3. \A d \in Datasets : (cache'[d] # NoEntry => cache'[d].map # 0) /\ ~cache'[d].retired
  BY DEF Maps
<1>4. \A c \in Lookups : Running(c)' => scans'[c].entry.map # 0
  BY DEF Maps
<1>5. \A b, c \in Lookups : Running(b)' /\ Running(c)'
        /\ scans'[b].entry.map = scans'[c].entry.map => b = c
  BY DEF Maps
<1>6. \A c \in Lookups : Running(c)' /\ cache'[dataset[c]].map = scans'[c].entry.map => Current(c)'
  BY <1>4 DEF Maps
<1> QED BY <1>2, <1>3, <1>4, <1>5, <1>6 DEF Maps

LEMMA LookupInitially == LookupInit => LookupInv
<1> SUFFICES ASSUME LookupInit PROVE LookupInv
  OBVIOUS
<1> USE LookupAssumption, Nothing, NoMapId DEF LookupInit
<1>1. LookupTypeOK
  <2>1. [pc |-> "idle", round |-> 1, gen |-> 0, before |-> 0, on |-> NoLookup, got |-> NoEntry,
         offset |-> -1, restarts |-> 0, stalls |-> 0] \in LookState
    BY DEF LookState, LookupPlaces
  <2>2. NoMap \in [Ids -> Int]
    BY DEF NoMap
  <2> QED BY <2>1, <2>2 DEF LookupTypeOK
<1>2. Registered /\ Generations
  BY DEF Registered, Generations, Running, activeScans
<1>3. Maps
  BY DEF Maps, Holds, Running
<1>4. Waiters
  BY DEF Waiters, Awaits, ReadsFrom, Running
<1> QED BY <1>1, <1>2, <1>3, <1>4 DEF LookupInv

\* A step of one lookup that starts no scan and awaits none that is not running.
LEMMA LookStep ==
  ASSUME LookupInv, NEW c \in Lookups, NEW l \in LookState, look' = [look EXCEPT ![c] = l],
         look[c].pc # "waiting", l.pc # "woken", l.got = NoEntry, l.stalls = 0,
         UNCHANGED <<content, first, changes, maps, scans, inFlight>>,
         cache' \in [Datasets -> CacheEntry],
         \A d \in Datasets : cache'[d] \in {NoEntry, cache[d]},
         generationCounter' \in Nat, generationCounter' >= generationCounter,
         generation' \in [Datasets -> 0..generationCounter'], Generations',
         \A d \in Datasets : activeScans(d) # {} => generation'[d] = generation[d],
         \A w \in Lookups \ {c} : look[w].pc = "woken" => generation'[dataset[w]] # 0,
         l.pc = "waiting" =>
           /\ l.gen # 0 /\ l.on \in Lookups /\ Running(l.on) /\ dataset[l.on] = dataset[c]
           /\ scans[l.on].gen = l.gen /\ l.before <= scans[l.on].entry.scanned
           /\ scans[l.on].returned => Reached(l.before, scans[l.on].entry)
  PROVE  LookupInv'
<1> USE LookupAssumption, Nothing, NoMapId
<1>1. LookupTypeOK'
  BY DEF LookupInv, LookupTypeOK
<1>2. /\ look'[c] = l
      /\ \A w \in Lookups : w # c => look'[w] = look[w]
  BY DEF LookupInv, LookupTypeOK
<1>3. \A b \in Lookups : Running(b) =>
        /\ b # c /\ dataset[b] \in Datasets /\ activeScans(dataset[b]) # {}
        /\ generation'[dataset[b]] = generation[dataset[b]] /\ generation[dataset[b]] # 0
  BY DEF LookupInv, Registered, Generations, Running, activeScans
<1>4. \A b \in Lookups : Running(b)' = Running(b) /\ (Running(b) => Current(b)' = Current(b))
  BY <1>3 DEF Running, Current
<1>5. Registered'
  BY <1>2, <1>3, <1>4 DEF LookupInv, LookupTypeOK, Registered, Running, Current, ScanState
<1>6. \A d \in Datasets : cache'[d] # NoEntry =>
        /\ cache[d] # NoEntry /\ cache'[d].map = cache[d].map
        /\ cache'[d].retired = cache[d].retired /\ cache'[d].scanned = cache[d].scanned
  BY DEF LookupInv, LookupTypeOK, CacheEntry
<1>7. Maps'
  <2>1. \A d \in Datasets :
          \/ cache'[d] = NoEntry
          \/ cache[d] # NoEntry /\ cache'[d].map = cache[d].map /\ ~cache'[d].retired
    BY <1>6 DEF LookupInv, Maps
  <2>2. \A b \in Lookups : look'[b].got.map \in {0, look[b].got.map}
    BY <1>2
  <2> QED BY <2>1, <2>2, <1>4, FewerHolders
<1>8. Waiters'
  <2>1. ASSUME NEW w \in Lookups
        PROVE  Awaits(w)'
    <3>1. CASE w = c
      BY <3>1, <1>2, <1>3 DEF Running, Awaits
    <3>2. CASE w # c
      BY <3>2, <1>2, <1>3 DEF LookupInv, Waiters, Awaits, ReadsFrom, Running
    <3> QED BY <3>1, <3>2
  <2>2. ASSUME NEW b \in Lookups, Running(b)
        PROVE  /\ ~scans[b].returned => ~isExhausted(scans[b].entry)
               /\ Current(b)' => LET e == cache'[dataset[b]] IN
                    /\ e.scanned <= scans[b].entry.scanned
                    /\ scans[b].returned => Reached(e.scanned, scans[b].entry)
    <3>1. cache'[dataset[b]].scanned \in {0, cache[dataset[b]].scanned}
      BY <1>3, <1>6
    <3>2. cache[dataset[b]].scanned \in Nat /\ scans[b].entry.scanned \in Nat
      <4>1. cache[dataset[b]] \in CacheEntry /\ scans[b].entry \in CacheEntry
        BY <1>3 DEF LookupInv, LookupTypeOK, ScanState
      <4> QED BY <4>1 DEF CacheEntry
    <3> QED BY <2>2, <3>1, <3>2, <1>4 DEF LookupInv, Waiters, Awaits, ReadsFrom, Reached
  <2> QED BY <2>1, <2>2, <1>4 DEF Waiters, Awaits, ReadsFrom, Running, isExhausted, Reached
<1> QED BY <1>1, <1>5, <1>7, <1>8 DEF LookupInv

\* Where a generation is not touched, nothing is forgotten either.
LEMMA GenerationsStay ==
  ASSUME LookupInv, UNCHANGED <<cache, scans, generation>>,
         \A c \in Lookups : look[c].pc \in Waiting => look'[c].pc \in Waiting
  PROVE  Generations'
BY DEF LookupInv, Generations, activeScans, activeLocates

LEMMA NothingForgotten ==
  ASSUME LookupInv, UNCHANGED <<cache, generation, generationCounter>>
  PROVE  /\ cache' \in [Datasets -> CacheEntry] /\ \A d \in Datasets : cache'[d] \in {NoEntry, cache[d]}
         /\ generationCounter' \in Nat /\ generationCounter' >= generationCounter
         /\ generation' \in [Datasets -> 0..generationCounter']
         /\ \A d \in Datasets : activeScans(d) # {} => generation'[d] = generation[d]
         /\ \A w \in Lookups : look[w].pc = "woken" => generation'[dataset[w]] # 0
BY DEF LookupInv, LookupTypeOK, Waiters, Awaits, ReadsFrom

LEMMA BeginLookupKeeps == ASSUME LookupInv, NEW c \in Lookups, BeginLookup(c) PROVE LookupInv'
<1> DEFINE l == [look[c] EXCEPT !.pc = "locating"]
<1>1. look[c] \in LookState /\ look[c].pc = "idle" /\ look[c].got = NoEntry /\ look[c].stalls = 0
  BY DEF LookupInv, LookupTypeOK, Waiters, Awaits, ReadsFrom, BeginLookup
<1>2. l \in LookState /\ l.pc = "locating" /\ l.got = NoEntry /\ l.stalls = 0
  BY <1>1 DEF LookState, LookupPlaces, Waiting
<1>3. look' = [look EXCEPT ![c] = l]
  BY DEF BeginLookup
<1> HIDE DEF l
<1>4. Generations'
  <2>1. \A w \in Lookups : look[w].pc \in Waiting => look'[w].pc \in Waiting
    BY <1>2, <1>3 DEF LookupInv, LookupTypeOK, Waiting
  <2> QED BY <2>1, GenerationsStay DEF BeginLookup
<1>5. UNCHANGED <<content, first, changes, maps, scans, inFlight, cache, generation,
        generationCounter>>
  BY DEF BeginLookup
<1>6. look[c].pc # "waiting" /\ l.pc \notin {"waiting", "woken"}
  BY <1>1, <1>2
<1>7. l \in LookState /\ l.got = NoEntry /\ l.stalls = 0
  BY <1>2
<1>8. /\ cache' \in [Datasets -> CacheEntry] /\ \A d \in Datasets : cache'[d] \in {NoEntry, cache[d]}
      /\ generationCounter' \in Nat /\ generationCounter' >= generationCounter
      /\ generation' \in [Datasets -> 0..generationCounter']
      /\ \A d \in Datasets : activeScans(d) # {} => generation'[d] = generation[d]
      /\ \A w \in Lookups : look[w].pc = "woken" => generation'[dataset[w]] # 0
  BY <1>5, NothingForgotten
<1> QED BY <1>3, <1>4, <1>5, <1>6, <1>7, <1>8, LookStep

LEMMA FetchEndsKeeps ==
  ASSUME LookupInv, NEW c \in Lookups, look[c].pc = "fetching", NEW l \in LookState,
         look' = [look EXCEPT ![c] = l], l.pc \in {"found", "error"},
         l.got = look[c].got, l.stalls = 0,
         UNCHANGED <<content, first, changes, maps, cache, scans, inFlight, generation,
           generationCounter>>
  PROVE  LookupInv'
<1>1. look[c].got = NoEntry
  BY DEF LookupInv, Waiters, Awaits, ReadsFrom
<1>2. Generations'
  <2>1. \A w \in Lookups : look[w].pc \in Waiting => look'[w].pc \in Waiting
    BY DEF LookupInv, LookupTypeOK, Waiting
  <2> QED BY <2>1, GenerationsStay
<1> QED BY <1>1, <1>2, NothingForgotten, LookStep

LEMMA ChangeKeeps == ASSUME LookupInv, NEW d \in Datasets, Change(d) PROVE LookupInv'
<1>1. LookupTypeOK'
  <2>1. PICK s \in Contents[d] : content' = [content EXCEPT ![d] = s]
    BY DEF Change
  <2>2. content' \in [Datasets -> UNION {Contents[e] : e \in Datasets}]
    BY <2>1 DEF LookupInv, LookupTypeOK, Holdings
  <2>3. \A e \in Datasets : content'[e] \in Contents[e]
    BY <2>1 DEF LookupInv, LookupTypeOK, Holdings
  <2>4. content' \in Holdings
    BY <2>2, <2>3 DEF Holdings
  <2>5. changes' \in 0..MaxChanges
    BY LookupAssumption DEF LookupInv, LookupTypeOK, Change
  <2>6. UNCHANGED <<first, maps, cache, generation, generationCounter, scans, inFlight, look>>
    BY DEF Change
  <2> QED BY <2>4, <2>5, <2>6 DEF LookupInv, LookupTypeOK
<1>2. UNCHANGED <<first, maps, cache, generation, generationCounter, scans, inFlight, look>>
  BY DEF Change
<1> QED BY <1>1, <1>2 DEF LookupInv, Registered, Generations, Maps, Waiters, Awaits, ReadsFrom,
             Holds, Running, Current,
                          activeScans, activeLocates, Reached, isExhausted

LEMMA AgeKeeps == ASSUME LookupInv, NEW d \in Datasets, Age(d) PROVE LookupInv'
<1> DEFINE e == [cache[d] EXCEPT !.old = TRUE]
<1> USE LookupAssumption, Nothing, NoMapId
<1>1. cache[d] \in CacheEntry /\ cache[d] # NoEntry
  BY DEF LookupInv, LookupTypeOK, Age
<1>2. /\ e \in CacheEntry /\ e # NoEntry
      /\ e.map = cache[d].map /\ e.retired = cache[d].retired /\ e.scanned = cache[d].scanned
  BY <1>1 DEF CacheEntry
<1>3. cache' = [cache EXCEPT ![d] = e]
  BY DEF Age
<1>4. UNCHANGED <<content, first, changes, maps, generation, generationCounter, scans, inFlight,
        look>>
  BY DEF Age
<1> HIDE DEF e
<1>5. cache' \in [Datasets -> CacheEntry]
  BY <1>2, <1>3 DEF LookupInv, LookupTypeOK
<1>6. \A k \in Datasets :
        /\ cache'[k] = NoEntry <=> cache[k] = NoEntry
        /\ cache'[k].map = cache[k].map /\ cache'[k].retired = cache[k].retired
        /\ cache'[k].scanned = cache[k].scanned
  BY <1>1, <1>2, <1>3 DEF LookupInv, LookupTypeOK
<1>7. LookupTypeOK'
  BY <1>4, <1>5 DEF LookupInv, LookupTypeOK
<1>8. Registered'
  BY <1>4 DEF LookupInv, Registered, Running, Current
<1>9. Generations'
  BY <1>4, <1>6 DEF LookupInv, Generations, activeScans, activeLocates
<1>10. Maps'
  <2>1. \A k \in Datasets :
          \/ cache'[k] = NoEntry
          \/ cache[k] # NoEntry /\ cache'[k].map = cache[k].map /\ ~cache'[k].retired
    BY <1>6 DEF LookupInv, Maps
  <2> QED BY <1>4, <2>1, FewerHolders DEF Running, Current
<1>11. Waiters'
  BY <1>4, <1>6 DEF LookupInv, Waiters, Awaits, ReadsFrom, Running, Current, Reached, isExhausted
<1> QED BY <1>7, <1>8, <1>9, <1>10, <1>11 DEF LookupInv

\* A lookup steps, under the generation it found or with a new one.
LEMMA GenerationStep ==
  ASSUME LookupInv, NEW c \in Lookups, NEW l \in LookState, look' = [look EXCEPT ![c] = l],
         UNCHANGED scans \/ \E n : scans' = [scans EXCEPT ![c] = n] /\ n.running,
         cache' \in [Datasets -> CacheEntry], \A d \in Datasets : cache'[d] \in {NoEntry, cache[d]},
         NEW g \in Nat \ {0},
         IF generation[dataset[c]] = 0
         THEN g = generationCounter + 1 /\ generationCounter' = g
         ELSE g = generation[dataset[c]] /\ generationCounter' = generationCounter,
         forgetIdle([generation EXCEPT ![dataset[c]] = g])
  PROVE  /\ generationCounter' \in Nat /\ generationCounter' >= generationCounter
         /\ generation' \in [Datasets -> 0..generationCounter'] /\ Generations'
         /\ \A d \in Datasets : activeScans(d) # {} => generation'[d] = generation[d]
         /\ \A w \in Lookups \ {c} : look[w].pc = "woken" => generation'[dataset[w]] # 0
         /\ l.pc \in Waiting => generation'[dataset[c]] = g
<1> DEFINE h == [generation EXCEPT ![dataset[c]] = g]
<1> USE LookupAssumption
<1>1. dataset[c] \in Datasets /\ \A w \in Lookups : dataset[w] \in Datasets
  OBVIOUS
<1>2. generation \in [Datasets -> Nat] /\ generationCounter \in Nat
      /\ \A d \in Datasets : generation[d] \in 0..generationCounter
  BY DEF LookupInv, LookupTypeOK
<1>3. generationCounter' \in Nat /\ generationCounter' >= generationCounter
        /\ g \in 0..generationCounter'
  BY <1>1, <1>2
<1>4. \A d \in Datasets :
        /\ h[d] \in 0..generationCounter'
        /\ generation[d] # 0 => h[d] = generation[d]
  BY <1>1, <1>2, <1>3
<1>5. h[dataset[c]] = g
  BY <1>1, <1>2
<1>6. \A d \in Datasets :
        /\ activeScans(d) \subseteq activeScans(d)'
        /\ d # dataset[c] => activeScans(d)' = activeScans(d)
  BY DEF activeScans, LookupInv, LookupTypeOK
<1>7. \A d \in Datasets : h[d] = 0 => cache'[d] = NoEntry /\ activeScans(d)' = {}
  BY <1>2, <1>4, <1>5, <1>6 DEF LookupInv, Generations
<1>8. forgetIdle(h)
  OBVIOUS
<1> HIDE DEF h
<1>9. /\ Generations'
      /\ \A d \in Datasets :
           /\ generation'[d] \in {0, h[d]}
           /\ cache'[d] # NoEntry \/ activeScans(d)' # {} \/ activeLocates(d)' # {} =>
                generation'[d] = h[d]
  BY <1>7, <1>8, IdleForgotten
<1>10. generation' \in [Datasets -> 0..generationCounter']
  <2>1. generation' = [d \in Datasets |-> generation'[d]]
    BY <1>8 DEF forgetIdle
  <2>2. \A d \in Datasets : generation'[d] \in 0..generationCounter'
    BY <1>3, <1>4, <1>9
  <2> QED BY <2>1, <2>2
<1>11. \A d \in Datasets : activeScans(d) # {} => generation'[d] = generation[d]
  BY <1>4, <1>6, <1>9 DEF LookupInv, Generations
<1>12. \A w \in Lookups : look'[w].pc \in Waiting => generation'[dataset[w]] = h[dataset[w]]
  BY <1>1, <1>9 DEF activeLocates
<1>13. \A w \in Lookups \ {c} : look[w].pc = "woken" => generation'[dataset[w]] # 0
  <2> SUFFICES ASSUME NEW w \in Lookups \ {c}, look[w].pc = "woken"
                          PROVE generation'[dataset[w]] # 0
    OBVIOUS
  <2>1. look'[w].pc \in Waiting
    BY DEF LookupInv, LookupTypeOK, Waiting
  <2>2. generation[dataset[w]] # 0
    BY DEF LookupInv, Waiters, Awaits, ReadsFrom
  <2> QED BY <2>1, <2>2, <1>1, <1>4, <1>12
<1>14. l.pc \in Waiting => generation'[dataset[c]] = g
  BY <1>5, <1>12 DEF LookupInv, LookupTypeOK
<1> QED BY <1>3, <1>9, <1>10, <1>11, <1>13, <1>14

LEMMA SameGeneration ==
  ASSUME LookupInv, NEW c \in Lookups
  PROVE  [generation EXCEPT ![dataset[c]] = generation[dataset[c]]] = generation
BY LookupAssumption DEF LookupInv, LookupTypeOK

LEMMA EntriesTyped ==
  ASSUME LookupInv
  PROVE  /\ \A d \in Datasets : cache[d] \in CacheEntry
         /\ \A c \in Lookups : /\ look[c] \in LookState /\ look[c].got \in CacheEntry /\ scans[c] \in ScanState
                               /\ scans[c].entry \in CacheEntry /\ dataset[c] \in Datasets
                                    /\ target[c] \in Ids
                               /\ look[c].before \in Nat /\ look[c].got.scanned \in Nat
                               /\ scans[c].entry.scanned \in Nat
         /\ \A d \in Datasets : cache[d].scanned \in Nat
<1> USE LookupAssumption
<1>1. \A e \in CacheEntry : e.scanned \in Nat
  BY DEF CacheEntry
<1>2. \A d \in Datasets : cache[d] \in CacheEntry
  BY DEF LookupInv, LookupTypeOK
<1>3. \A c \in Lookups : /\ look[c] \in LookState /\ look[c].got \in CacheEntry /\ scans[c] \in ScanState
                         /\ scans[c].entry \in CacheEntry /\ dataset[c] \in Datasets /\ target[c] \in Ids
                         /\ look[c].before \in Nat
  BY DEF LookupInv, LookupTypeOK, LookState, ScanState
<1> QED BY <1>1, <1>2, <1>3

\* What a lookup finds it has found for good: it fetches the item, or gives up.
LEMMA LocatedTyped ==
  ASSUME LookupInv, NEW c \in Lookups, NEW o \in Int, NEW over \in BOOLEAN
  PROVE  /\ located(c, o, over) \in LookState
         /\ located(c, o, over).pc \in {"fetching", "missing"} /\ located(c, o, over).got = NoEntry
         /\ located(c, o, over).stalls = look[c].stalls
BY EntriesTyped, Nothing DEF located, LookState, LookupPlaces

LEMMA OffsetTyped ==
  ASSUME LookupInv, NEW e \in CacheEntry, NEW i \in Ids, e = NoEntry \/ e.map # 0
  PROVE  offsetIn(e, i) \in Int
BY DEF offsetIn, CacheEntry, LookupInv, LookupTypeOK

LEMMA WokenKeeps == ASSUME LookupInv, NEW c \in Lookups, Woken(c) PROVE LookupInv'
<1> DEFINE w == look[c]
           offset == offsetIn(w.got, target[c])
           over == isExhausted(w.got)
           again == [w EXCEPT !.pc = "locating", !.got = NoEntry]
           l == IF generation[dataset[c]] # w.gen
                THEN IF w.restarts = MaxRestarts THEN [again EXCEPT !.pc = "unstable"]
                     ELSE [again EXCEPT !.restarts = @ + 1]
                ELSE IF offset >= 0 \/ over THEN located(c, offset, over)
                ELSE [again EXCEPT !.stalls = 0]
<1> USE LookupAssumption, Nothing
<1>1. /\ w \in LookState /\ w.pc = "woken" /\ w.got \in CacheEntry /\ w.got.map # 0 /\ w.stalls = 0
      /\ Reached(w.before, w.got) /\ w.got.scanned \in Nat /\ w.before \in Nat
      /\ dataset[c] \in Datasets /\ target[c] \in Ids /\ generation[dataset[c]] # 0
  BY EntriesTyped DEF LookupInv, Waiters, Awaits, ReadsFrom, Woken
<1>2. w.got # NoEntry
  BY <1>1
<1>3. ~over => w.got.scanned > w.before
  BY <1>1, <1>2 DEF Reached, isExhausted
<1>4. look' = [look EXCEPT ![c] = l]
  BY <1>3 DEF Woken
<1>5. again \in LookState /\ again.stalls = 0 /\ again.got = NoEntry /\ again.restarts = w.restarts
  BY <1>1 DEF LookState, LookupPlaces, Waiting
<1>6. offset \in Int
  BY <1>1, <1>2, OffsetTyped
<1>7. l \in LookState /\ l.pc \notin {"waiting", "woken"} /\ l.got = NoEntry /\ l.stalls = 0
  <2>1. CASE generation[dataset[c]] # w.gen /\ w.restarts = MaxRestarts
    <3>1. l = [again EXCEPT !.pc = "unstable"]
      BY <2>1
    <3> HIDE DEF again, l
    <3> QED BY <3>1, <1>5 DEF LookState, LookupPlaces
  <2>2. CASE generation[dataset[c]] # w.gen /\ w.restarts # MaxRestarts
    <3>1. l = [again EXCEPT !.restarts = @ + 1] /\ again.pc = "locating"
      BY <2>2, <1>5, <1>1 DEF LookState
    <3>2. w.restarts + 1 \in 0..MaxRestarts /\ again.restarts = w.restarts
      BY <2>2, <1>1, <1>5 DEF LookState
    <3> HIDE DEF again, l, w
    <3> QED BY <3>1, <3>2, <1>5 DEF LookState, LookupPlaces
  <2>3. CASE generation[dataset[c]] = w.gen /\ (offset >= 0 \/ over)
    <3>1. l = located(c, offset, over) /\ over \in BOOLEAN
      BY <2>3 DEF isExhausted
    <3> HIDE DEF l, offset, over
    <3> QED BY <3>1, <1>1, <1>6, LocatedTyped
  <2>4. CASE generation[dataset[c]] = w.gen /\ ~(offset >= 0 \/ over)
    <3>1. l = [again EXCEPT !.stalls = 0] /\ again.pc = "locating"
      BY <2>4, <1>1 DEF LookState
    <3> HIDE DEF again, l
    <3> QED BY <3>1, <1>5 DEF LookState, LookupPlaces
  <2> QED BY <2>1, <2>2, <2>3, <2>4
<1>8. /\ UNCHANGED <<content, first, changes, maps, cache, scans, inFlight, generationCounter>>
      /\ forgetIdle(generation)
  BY DEF Woken
<1> DEFINE g == generation[dataset[c]]
<1>9. /\ cache' \in [Datasets -> CacheEntry] /\ \A d \in Datasets : cache'[d] \in {NoEntry, cache[d]}
      /\ g \in Nat \ {0}
  BY <1>1, <1>8 DEF LookupInv, LookupTypeOK
<1>10. forgetIdle([generation EXCEPT ![dataset[c]] = g])
  BY <1>8, SameGeneration
<1>11. look[c].pc # "waiting"
  BY <1>1
<1> HIDE DEF l, w
<1>12. /\ generationCounter' \in Nat /\ generationCounter' >= generationCounter
       /\ generation' \in [Datasets -> 0..generationCounter'] /\ Generations'
       /\ \A d \in Datasets : activeScans(d) # {} => generation'[d] = generation[d]
       /\ \A b \in Lookups \ {c} : look[b].pc = "woken" => generation'[dataset[b]] # 0
  BY <1>4, <1>7, <1>8, <1>9, <1>10, GenerationStep
<1> QED BY <1>4, <1>7, <1>8, <1>9, <1>11, <1>12, LookStep

LEMMA PurgedTyped ==
  ASSUME LookupInv
  PROVE  /\ purged \in [Datasets -> CacheEntry] /\ \A d \in Datasets : purged[d] \in {NoEntry, cache[d]}
         /\ \A d \in Datasets : purged[d] # NoEntry => purged[d].map \in MapIds
         /\ \A d \in Datasets, i \in Ids : offsetIn(purged[d], i) \in Int
<1>1. \A d \in Datasets : purged[d] \in {NoEntry, cache[d]} /\ purged[d] \in CacheEntry
  BY EntriesTyped, Nothing DEF purged
<1>2. \A d \in Datasets : purged[d] # NoEntry => purged[d].map # 0 /\ purged[d].map \in MapIds
  BY <1>1 DEF LookupInv, Maps, CacheEntry
<1>3. \A d \in Datasets, i \in Ids : offsetIn(purged[d], i) \in Int
  BY <1>1, <1>2, OffsetTyped
<1> QED BY <1>1, <1>2, <1>3 DEF purged

\* A round ends with what the cache knows, or it joins the scan that is running.
LEMMA LocateCachedKeeps ==
  ASSUME LookupInv, NEW c \in Lookups, Locate(c), UNCHANGED <<scans, inFlight, maps>>,
         NEW l \in LookState, look' = [look EXCEPT ![c] = l], l.pc # "woken",
         l.got = NoEntry, l.stalls = 0,
         l.pc = "waiting" =>
           /\ l.gen # 0 /\ l.on \in Lookups /\ Running(l.on) /\ dataset[l.on] = dataset[c]
           /\ scans[l.on].gen = l.gen /\ l.before <= scans[l.on].entry.scanned
           /\ scans[l.on].returned => Reached(l.before, scans[l.on].entry)
  PROVE  LookupInv'
<1> DEFINE d == dataset[c]
           g == IF generation[d] = 0 THEN generationCounter + 1 ELSE generation[d]
<1>1. /\ look[c].pc = "locating" /\ cache' = purged
      /\ generationCounter' = (IF generation[d] = 0 THEN g ELSE generationCounter)
      /\ forgetIdle([generation EXCEPT ![d] = g])
      /\ UNCHANGED <<content, first, changes>>
  BY DEF Locate
<1>2. cache' \in [Datasets -> CacheEntry] /\ \A k \in Datasets : cache'[k] \in {NoEntry, cache[k]}
  BY <1>1, PurgedTyped
<1>3. g \in Nat \ {0}
  <2>1. d \in Datasets /\ generationCounter \in Nat /\ generation[d] \in 0..generationCounter
    BY EntriesTyped DEF LookupInv, LookupTypeOK
  <2> HIDE DEF d
  <2> QED BY <2>1
<1>4. IF generation[d] = 0
      THEN g = generationCounter + 1 /\ generationCounter' = g
      ELSE g = generation[d] /\ generationCounter' = generationCounter
  BY <1>1
<1> HIDE DEF g
<1>5. /\ generationCounter' \in Nat /\ generationCounter' >= generationCounter
      /\ generation' \in [Datasets -> 0..generationCounter'] /\ Generations'
      /\ \A k \in Datasets : activeScans(k) # {} => generation'[k] = generation[k]
      /\ \A b \in Lookups \ {c} : look[b].pc = "woken" => generation'[dataset[b]] # 0
  BY <1>1, <1>2, <1>3, <1>4, GenerationStep
<1>6. look[c].pc # "waiting"
  BY <1>1
<1>7. UNCHANGED <<content, first, changes, maps, scans, inFlight>>
  BY <1>1
<1> HIDE DEF d
<1> QED BY <1>2, <1>5, <1>6, <1>7, LookStep

\* What a lookup that is going to wait remembers.
waitsOn(c, g, n, s) ==
  [look[c] EXCEPT !.pc = "waiting", !.gen = g, !.before = n, !.got = NoEntry, !.on = s]

LEMMA WaitsTyped ==
  ASSUME LookupInv, NEW c \in Lookups, NEW g \in Nat, NEW n \in 0..MaxItems, NEW s \in Lookups
  PROVE  /\ waitsOn(c, g, n, s) \in LookState
         /\ waitsOn(c, g, n, s).pc = "waiting" /\ waitsOn(c, g, n, s).gen = g
         /\ waitsOn(c, g, n, s).before = n /\ waitsOn(c, g, n, s).on = s
         /\ waitsOn(c, g, n, s).got = NoEntry /\ waitsOn(c, g, n, s).stalls = look[c].stalls
BY EntriesTyped, Nothing DEF waitsOn, LookState, LookupPlaces, Waiting

\* The three ways a round begins.
LEMMA LocateCases ==
  ASSUME LookupInv, NEW c \in Lookups, Locate(c)
  PROVE  LET d == dataset[c]
             e == purged[d]
             g == IF generation[d] = 0 THEN generationCounter + 1 ELSE generation[d]
             from == IF e = NoEntry THEN [NoEntry EXCEPT !.map = freshMap] ELSE e
         IN
         \/ /\ offsetIn(e, target[c]) >= 0 \/ isExhausted(e)
            /\ look' = [look EXCEPT ![c] = located(c, offsetIn(e, target[c]), isExhausted(e))]
            /\ UNCHANGED <<scans, inFlight, maps>>
         \/ /\ ~(offsetIn(e, target[c]) >= 0 \/ isExhausted(e)) /\ mayJoin(d, g)
            /\ look' = [look EXCEPT ![c] = waitsOn(c, g, e.scanned, inFlight[d])]
            /\ UNCHANGED <<scans, inFlight, maps>>
         \/ /\ ~(offsetIn(e, target[c]) >= 0 \/ isExhausted(e)) /\ ~mayJoin(d, g)
            /\ look' = [look EXCEPT ![c] = waitsOn(c, g, e.scanned, c)]
            /\ inFlight' = [inFlight EXCEPT ![d] = c]
            /\ scans' = [scans EXCEPT ![c] =
                 [running |-> TRUE, returned |-> FALSE, gen |-> g, entry |-> from]]
            /\ maps' = IF e = NoEntry THEN [maps EXCEPT ![from.map] = NoMap] ELSE maps
BY DEF Locate, waitsOn

\* A scan that is under way is registered, under the generation of its dataset.
LEMMA Joining ==
  ASSUME LookupInv, NEW c \in Lookups, NEW g \in Nat \ {0}, mayJoin(dataset[c], g),
         generation[dataset[c]] \in {0, g}
  PROVE  LET b == inFlight[dataset[c]]  e == purged[dataset[c]] IN
         /\ b \in Lookups /\ Running(b) /\ dataset[b] = dataset[c] /\ scans[b].gen = g
         /\ Current(b)
         /\ e.scanned <= scans[b].entry.scanned
         /\ scans[b].returned => Reached(e.scanned, scans[b].entry)
<1> DEFINE d == dataset[c]
           b == inFlight[d]
<1>1. d \in Datasets
  BY EntriesTyped
<1>2. b \in Lookups /\ Running(b) /\ dataset[b] = d /\ scans[b].gen = g
  BY <1>1 DEF mayJoin, LookupInv, LookupTypeOK, Registered
<1>3. generation[d] # 0
  BY <1>1, <1>2 DEF LookupInv, Generations, activeScans, Running
<1>4. Current(b)
  BY <1>2, <1>3 DEF Current
<1>5. /\ cache[d].scanned <= scans[b].entry.scanned
      /\ scans[b].returned => Reached(cache[d].scanned, scans[b].entry)
  BY <1>2, <1>4 DEF LookupInv, Waiters, Awaits, ReadsFrom
<1>6. purged[d].scanned \in {0, cache[d].scanned} /\ cache[d].scanned \in Nat
        /\ scans[b].entry.scanned \in Nat
  BY <1>1, <1>2, PurgedTyped, Nothing, EntriesTyped
<1> QED BY <1>2, <1>4, <1>5, <1>6 DEF Reached

LEMMA LocateKnownKeeps ==
  ASSUME LookupInv, NEW c \in Lookups, Locate(c), UNCHANGED <<scans, inFlight, maps>>
  PROVE  LookupInv'
<1> DEFINE d == dataset[c]
           e == purged[d]
           g == IF generation[d] = 0 THEN generationCounter + 1 ELSE generation[d]
<1>1. d \in Datasets /\ target[c] \in Ids /\ look[c].stalls = 0 /\ look[c].pc = "locating"
  BY EntriesTyped DEF LookupInv, Waiters, Awaits, ReadsFrom, Locate
<1>2. e \in CacheEntry /\ offsetIn(e, target[c]) \in Int /\ e.scanned \in 0..MaxItems
  BY <1>1, PurgedTyped DEF CacheEntry
<1>3. g \in Nat \ {0} /\ generation[d] \in {0, g}
  <2>1. generationCounter \in Nat /\ generation[d] \in 0..generationCounter
    BY <1>1 DEF LookupInv, LookupTypeOK
  <2> HIDE DEF d
  <2> QED BY <2>1
<1>4. isExhausted(e) \in BOOLEAN
  BY DEF isExhausted
<1>5. \/ look' = [look EXCEPT ![c] = located(c, offsetIn(e, target[c]), isExhausted(e))]
      \/ /\ mayJoin(d, g)
         /\ look' = [look EXCEPT ![c] = waitsOn(c, g, e.scanned, inFlight[d])]
      \/ /\ ~mayJoin(d, g)
         /\ inFlight' = [inFlight EXCEPT ![d] = c]
         /\ scans' = [scans EXCEPT ![c] =
              [running |-> TRUE, returned |-> FALSE, gen |-> g,
               entry |-> IF e = NoEntry THEN [NoEntry EXCEPT !.map = freshMap] ELSE e]]
  BY LocateCases
<1> HIDE DEF d, e, g
<1>6. CASE look' = [look EXCEPT ![c] = located(c, offsetIn(e, target[c]), isExhausted(e))]
  <2> DEFINE l == located(c, offsetIn(e, target[c]), isExhausted(e))
  <2>1. l \in LookState /\ l.pc \in {"fetching", "missing"} /\ l.got = NoEntry /\ l.stalls = 0
    BY <1>1, <1>2, <1>4, LocatedTyped
  <2>2. look' = [look EXCEPT ![c] = l]
    BY <1>6
  <2> HIDE DEF l
  <2> QED BY <2>1, <2>2, LocateCachedKeeps
<1>7. CASE mayJoin(d, g) /\ look' = [look EXCEPT ![c] = waitsOn(c, g, e.scanned, inFlight[d])]
  <2> DEFINE l == waitsOn(c, g, e.scanned, inFlight[d])
  <2>1. /\ inFlight[d] \in Lookups /\ Running(inFlight[d]) /\ dataset[inFlight[d]] = dataset[c]
        /\ scans[inFlight[d]].gen = g /\ e.scanned <= scans[inFlight[d]].entry.scanned
        /\ scans[inFlight[d]].returned => Reached(e.scanned, scans[inFlight[d]].entry)
    BY <1>3, <1>7, Joining DEF d, e
  <2>2. /\ l \in LookState /\ l.pc = "waiting" /\ l.gen = g /\ l.before = e.scanned
        /\ l.on = inFlight[d] /\ l.got = NoEntry /\ l.stalls = 0
    BY <1>1, <1>2, <1>3, <2>1, WaitsTyped
  <2>3. look' = [look EXCEPT ![c] = l]
    BY <1>7
  <2> HIDE DEF l
  <2> QED BY <1>3, <2>1, <2>2, <2>3, LocateCachedKeeps
<1>8. CASE /\ ~mayJoin(d, g)
           /\ inFlight' = [inFlight EXCEPT ![d] = c]
           /\ scans' = [scans EXCEPT ![c] =
                [running |-> TRUE, returned |-> FALSE, gen |-> g,
                 entry |-> IF e = NoEntry THEN [NoEntry EXCEPT !.map = freshMap] ELSE e]]
  <2>1. scans[c].running
    BY <1>8, EntriesTyped DEF LookupInv, LookupTypeOK
  <2> QED BY <1>1, <2>1 DEF LookupInv, Registered, Running
<1> QED BY <1>5, <1>6, <1>7, <1>8

\* A round that starts a scan, on a map of its own or on the cached one that
\* nobody else goes on with.
LEMMA LocateScansKeeps ==
  ASSUME LookupInv, NEW c \in Lookups, Locate(c), ~UNCHANGED <<scans, inFlight, maps>>
  PROVE  LookupInv'
<1> DEFINE d == dataset[c]
           e == purged[d]
           g == IF generation[d] = 0 THEN generationCounter + 1 ELSE generation[d]
           from == IF e = NoEntry THEN [NoEntry EXCEPT !.map = freshMap] ELSE e
           new == [running |-> TRUE, returned |-> FALSE, gen |-> g, entry |-> from]
           l == waitsOn(c, g, e.scanned, c)
<1> USE LookupAssumption, Nothing, NoMapId
<1>1. /\ d \in Datasets /\ target[c] \in Ids /\ look[c].stalls = 0 /\ look[c].pc = "locating"
      /\ ~Running(c)
  BY EntriesTyped DEF LookupInv, Waiters, Awaits, ReadsFrom, Registered, Locate
<1>2. /\ ~isExhausted(e) /\ ~mayJoin(d, g)
      /\ look' = [look EXCEPT ![c] = l]
      /\ inFlight' = [inFlight EXCEPT ![d] = c]
      /\ scans' = [scans EXCEPT ![c] = new]
      /\ maps' = IF e = NoEntry THEN [maps EXCEPT ![from.map] = NoMap] ELSE maps
  BY LocateCases
<1>3. /\ cache' = purged
      /\ generationCounter' = (IF generation[d] = 0 THEN g ELSE generationCounter)
      /\ forgetIdle([generation EXCEPT ![d] = g])
      /\ UNCHANGED <<content, first, changes>>
  BY DEF Locate
<1>4. g \in Nat \ {0} /\ generation[d] \in {0, g}
      /\ IF generation[d] = 0 THEN g = generationCounter + 1 /\ generationCounter' = g
                              ELSE g = generation[d] /\ generationCounter' = generationCounter
  <2>1. generationCounter \in Nat /\ generation[d] \in 0..generationCounter
    BY <1>1 DEF LookupInv, LookupTypeOK
  <2> HIDE DEF d
  <2> QED BY <2>1, <1>3
<1>5. e \in CacheEntry /\ e \in {NoEntry, cache[d]} /\ e.scanned \in 0..MaxItems
      /\ (e # NoEntry => e.map \in MapIds)
  BY <1>1, PurgedTyped DEF CacheEntry
<1>6. /\ freshMap \in MapIds /\ \A k \in Datasets : cache[k].map # freshMap
      /\ \A b \in Lookups : ~(Running(b) /\ scans[b].entry.map = freshMap)
           /\ look[b].got.map # freshMap
  BY <1>1, FreshMap
<1>7. /\ from \in CacheEntry /\ from.map \in MapIds /\ ~from.retired /\ from.scanned = e.scanned
      /\ from.map = IF e = NoEntry THEN freshMap ELSE cache[d].map
      /\ ~isExhausted(from)
  <2>1. CASE e = NoEntry
    <3>1. from = [NoEntry EXCEPT !.map = freshMap]
      BY <2>1
    <3>2. from \in CacheEntry /\ from.map = freshMap /\ ~from.retired /\ from.scanned = 0
            /\ ~from.complete
      BY <3>1, <1>6 DEF CacheEntry, NoEntry
    <3> HIDE DEF from, d, e
    <3> QED BY <2>1, <3>2, <1>6 DEF isExhausted
  <2>2. CASE e # NoEntry
    <3>1. from = e /\ e = cache[d]
      BY <2>2, <1>5
    <3> HIDE DEF from, e, d
    <3> QED BY <2>2, <3>1, <1>1, <1>2, <1>5 DEF LookupInv, Maps
  <2> QED BY <2>1, <2>2
<1>8. /\ new \in ScanState /\ new.running /\ ~new.returned /\ new.gen = g /\ new.entry = from
  BY <1>4, <1>7 DEF ScanState
<1>9. /\ l \in LookState /\ l.pc = "waiting" /\ l.gen = g /\ l.before = e.scanned
      /\ l.on = c /\ l.got = NoEntry /\ l.stalls = 0
  BY <1>1, <1>4, <1>5, WaitsTyped
<1>10. cache' \in [Datasets -> CacheEntry] /\ \A k \in Datasets : cache'[k] \in {NoEntry, cache[k]}
  BY <1>3, PurgedTyped
<1>11. cache'[d] = e
  BY <1>3
<1> HIDE DEF d, e, g, from, new, l
<1>12. /\ generationCounter' \in Nat /\ generationCounter' >= generationCounter
       /\ generation' \in [Datasets -> 0..generationCounter'] /\ Generations'
       /\ \A k \in Datasets : activeScans(k) # {} => generation'[k] = generation[k]
       /\ \A w \in Lookups \ {c} : look[w].pc = "woken" => generation'[dataset[w]] # 0
       /\ generation'[d] = g
  <2>1. IF generation[dataset[c]] = 0 THEN g = generationCounter + 1 /\ generationCounter' = g
        ELSE g = generation[dataset[c]] /\ generationCounter' = generationCounter
    BY <1>4 DEF d
  <2>2. forgetIdle([generation EXCEPT ![dataset[c]] = g])
    BY <1>3 DEF d
  <2>3. UNCHANGED scans \/ \E n : scans' = [scans EXCEPT ![c] = n] /\ n.running
    BY <1>2, <1>8
  <2>4. l.pc \in Waiting
    BY <1>9 DEF Waiting
  <2>5. look' = [look EXCEPT ![c] = l]
    BY <1>2
  <2> HIDE DEF d
  <2>6. d = dataset[c] /\ g \in Nat \ {0} /\ l \in LookState
    BY <1>4, <1>9 DEF d
  <2> QED BY <2>1, <2>2, <2>3, <2>4, <2>5, <2>6, <1>10, GenerationStep
<1>13. /\ look'[c] = l /\ \A w \in Lookups \ {c} : look'[w] = look[w]
       /\ scans'[c] = new /\ \A w \in Lookups \ {c} : scans'[w] = scans[w]
       /\ inFlight'[d] = c /\ \A k \in Datasets \ {d} : inFlight'[k] = inFlight[k]
  BY <1>1, <1>2 DEF LookupInv, LookupTypeOK
<1>14. \A b \in Lookups : Running(b) =>
         /\ b # c /\ Running(b)' /\ dataset[b] \in Datasets
         /\ generation[dataset[b]] # 0 /\ generation'[dataset[b]] = generation[dataset[b]]
         /\ Current(b)' = Current(b)
  <2> SUFFICES ASSUME NEW b \in Lookups, Running(b)
               PROVE  /\ b # c /\ Running(b)' /\ dataset[b] \in Datasets
                      /\ generation[dataset[b]] # 0
                           /\ generation'[dataset[b]] = generation[dataset[b]]
                      /\ Current(b)' = Current(b)
    OBVIOUS
  <2>1. b # c /\ scans'[b] = scans[b]
    BY <1>1, <1>13
  <2>2. dataset[b] \in Datasets /\ activeScans(dataset[b]) # {}
    BY DEF activeScans, Running
  <2>3. generation[dataset[b]] # 0 /\ generation'[dataset[b]] = generation[dataset[b]]
    BY <2>2, <1>12 DEF LookupInv, Generations
  <2> QED BY <2>1, <2>2, <2>3 DEF Running, Current
<1>15. \A b \in Lookups : Running(b)' => b = c \/ Running(b)
  BY <1>13 DEF Running
\* Nobody else is at work on the dataset, or on the map.
<1>16. \A b \in Lookups : Running(b) /\ Current(b) => dataset[b] # d
  <2> SUFFICES ASSUME NEW b \in Lookups, Running(b), Current(b), dataset[b] = d PROVE FALSE
    OBVIOUS
  <2>1. inFlight[d] = b /\ scans[b].gen = g
    BY <1>4, <1>14 DEF LookupInv, Registered, Current
  <2> QED BY <2>1, <1>2 DEF mayJoin
<1>17. \A b \in Lookups : Running(b) => scans[b].entry.map # from.map
  <2> SUFFICES ASSUME NEW b \in Lookups, Running(b), scans[b].entry.map = from.map PROVE FALSE
    OBVIOUS
  <2>1. from.map = cache[d].map
    BY <1>6, <1>7
  <2>2. Holds(from.map, d) /\ Holds(from.map, dataset[b])
    BY <2>1 DEF Holds
  <2>3. dataset[b] = d
    BY <2>2, <1>1, <1>7 DEF LookupInv, Maps
  <2>4. Current(b)
    BY <2>1, <2>3 DEF LookupInv, Maps
  <2> QED BY <2>3, <2>4, <1>16
<1>18. LookupTypeOK'
  <2>1. NoMap \in [Ids -> Int]
    BY DEF NoMap
  <2>2. maps' \in [MapIds -> [Ids -> Int]]
    BY <1>2, <2>1 DEF LookupInv, LookupTypeOK
  <2>3. look' \in [Lookups -> LookState] /\ scans' \in [Lookups -> ScanState]
    BY <1>2, <1>8, <1>9 DEF LookupInv, LookupTypeOK
  <2>4. inFlight' \in [Datasets -> Lookups \cup {NoLookup}]
    BY <1>2 DEF LookupInv, LookupTypeOK
  <2> QED BY <1>3, <1>10, <1>12, <2>2, <2>3, <2>4 DEF LookupInv, LookupTypeOK
<1>19. Registered'
  <2>1. \A k \in Datasets : inFlight'[k] # NoLookup =>
          scans'[inFlight'[k]].running /\ dataset[inFlight'[k]] = k
    <3> SUFFICES ASSUME NEW k \in Datasets, inFlight'[k] # NoLookup
                 PROVE  scans'[inFlight'[k]].running /\ dataset[inFlight'[k]] = k
      OBVIOUS
    <3>1. CASE k = d
      BY <3>1, <1>8, <1>13 DEF d
    <3>2. CASE k # d
      <4>1. inFlight'[k] = inFlight[k] /\ inFlight[k] \in Lookups /\ Running(inFlight[k])
              /\ dataset[inFlight[k]] = k
        BY <3>2, <1>13 DEF LookupInv, LookupTypeOK, Registered
      <4> QED BY <4>1, <1>14 DEF Running
    <3> QED BY <3>1, <3>2
  <2>2. ASSUME NEW b \in Lookups, Running(b)'
        PROVE  /\ scans'[b].gen \in 1..generationCounter'
               /\ scans'[b].entry.retired <=> ~Current(b)'
               /\ Current(b)' => inFlight'[dataset[b]] = b
               /\ look'[b].pc = "waiting" /\ look'[b].on = b
    <3>1. CASE b = c
      <4>1. g \in 1..generationCounter' /\ dataset[b] = d
        BY <3>1, <1>4, <1>12, <1>1 DEF d, LookupInv, LookupTypeOK
      <4> QED BY <3>1, <4>1, <1>7, <1>8, <1>9, <1>12, <1>13 DEF Current
    <3>2. CASE b # c
      <4>1. Running(b) /\ scans'[b] = scans[b] /\ look'[b] = look[b] /\ Current(b)' = Current(b)
            /\ dataset[b] \in Datasets
        BY <3>2, <2>2, <1>13, <1>14, <1>15
      <4>2. scans[b].gen \in 1..generationCounter'
        BY <4>1, <1>12 DEF LookupInv, LookupTypeOK, Registered
      <4>3. Current(b) => inFlight'[dataset[b]] = b
        BY <4>1, <1>13, <1>16 DEF LookupInv, Registered
      <4> QED BY <4>1, <4>2, <4>3 DEF LookupInv, Registered
    <3> QED BY <3>1, <3>2
  <2> QED BY <2>1, <2>2 DEF Registered, Running, Current
<1>20. Maps'
  <2>1. \A k \in Datasets : (cache'[k] # NoEntry => cache'[k].map # 0) /\ ~cache'[k].retired
    BY <1>10 DEF LookupInv, Maps
  <2>2. \A b \in Lookups : Running(b)' => scans'[b].entry.map # 0
    BY <1>7, <1>8, <1>13, <1>15 DEF LookupInv, Maps
  <2>3. \A m \in MapIds, k \in Datasets : Holds(m, k)' => Holds(m, k) \/ (m = from.map /\ k = d)
    <3> SUFFICES ASSUME NEW m \in MapIds, NEW k \in Datasets, Holds(m, k)', ~Holds(m, k)
                 PROVE  m = from.map /\ k = d
      OBVIOUS
    <3>1. cache'[k].map # m
      BY <1>10 DEF Holds
    <3>2. PICK b \in Lookups : dataset[b] = k /\ ((Running(b)'
                 /\ scans'[b].entry.map = m) \/ look'[b].got.map = m)
      BY <3>1 DEF Holds
    <3>3. b = c
      BY <3>2, <1>13, <1>15 DEF Holds
    <3> QED BY <3>2, <3>3, <1>8, <1>9, <1>13 DEF d
  <2>4. \A k \in Datasets : Holds(from.map, k) => k = d
    <3>1. CASE e = NoEntry
      BY <3>1, <1>6, <1>7 DEF Holds
    <3>2. CASE e # NoEntry
      <4>1. Holds(from.map, d)
        BY <3>2, <1>7 DEF Holds
      <4> QED BY <4>1, <1>1, <1>7 DEF LookupInv, Maps
    <3> QED BY <3>1, <3>2
  <2>5. \A m \in MapIds : \A k, n \in Datasets : Holds(m, k)' /\ Holds(m, n)' => k = n
    BY <2>3, <2>4 DEF LookupInv, Maps
  <2>6. \A a, b \in Lookups : Running(a)' /\ Running(b)'
          /\ scans'[a].entry.map = scans'[b].entry.map => a = b
    <3> SUFFICES ASSUME NEW a \in Lookups, NEW b \in Lookups, Running(a)', Running(b)',
                        scans'[a].entry.map = scans'[b].entry.map, a # b
                 PROVE  FALSE
      OBVIOUS
    <3>1. CASE a # c /\ b # c
      BY <3>1, <1>13, <1>15 DEF LookupInv, Maps
    <3>2. CASE a = c
      BY <3>2, <1>8, <1>13, <1>15, <1>17
    <3>3. CASE b = c
      BY <3>3, <1>8, <1>13, <1>15, <1>17
    <3> QED BY <3>1, <3>2, <3>3
  <2>7. \A b \in Lookups : Running(b)' /\ cache'[dataset[b]].map = scans'[b].entry.map =>
          Current(b)'
    <3> SUFFICES ASSUME NEW b \in Lookups, Running(b)', cache'[dataset[b]].map = scans'[b].entry.map
                 PROVE  Current(b)'
      OBVIOUS
    <3>1. CASE b = c
      BY <3>1, <1>8, <1>12, <1>13 DEF Current, d
    <3>2. CASE b # c
      <4>1. Running(b) /\ scans'[b] = scans[b] /\ dataset[b] \in Datasets
              /\ Current(b)' = Current(b)
        BY <3>2, <1>13, <1>14, <1>15
      <4>2. cache[dataset[b]].map = scans[b].entry.map
        BY <4>1, <1>10 DEF LookupInv, Maps
      <4> QED BY <4>1, <4>2 DEF LookupInv, Maps
    <3> QED BY <3>1, <3>2
  <2> QED BY <2>1, <2>2, <2>5, <2>6, <2>7 DEF Maps
<1>21. Waiters'
  <2>1. ASSUME NEW w \in Lookups
        PROVE  Awaits(w)'
    <3>1. CASE w = c
      BY <3>1, <1>4, <1>5, <1>7, <1>8, <1>9, <1>12, <1>13 DEF d, Awaits
    <3>2. CASE w # c
      <4>1. look'[w] = look[w]
        BY <3>2, <1>13
      <4>2. look[w].pc = "waiting" =>
              /\ look[w].on \in Lookups /\ Running(look[w].on) /\ look[w].on # c
              /\ dataset[look[w].on] = dataset[w] /\ scans'[look[w].on] = scans[look[w].on]
              /\ generation'[dataset[w]] # 0
        BY <1>13, <1>14 DEF LookupInv, Waiters, Awaits, ReadsFrom, Running
      <4>3. look[w].pc = "woken" => generation'[dataset[w]] # 0
        BY <3>2, <1>12
      <4> QED BY <4>1, <4>2, <4>3 DEF LookupInv, Waiters, Awaits, ReadsFrom
    <3> QED BY <3>1, <3>2
  <2>2. ASSUME NEW b \in Lookups, Running(b)'
        PROVE  ReadsFrom(b)'
    <3>1. CASE b = c
      <4>1. cache'[dataset[b]].scanned <= scans'[b].entry.scanned /\ ~scans'[b].returned
        BY <3>1, <1>5, <1>7, <1>8, <1>11, <1>13 DEF d
      <4> QED BY <3>1, <4>1, <1>7, <1>8, <1>13 DEF ReadsFrom
    <3>2. CASE b # c
      <4>1. Running(b) /\ scans'[b] = scans[b] /\ Current(b)' = Current(b)
              /\ dataset[b] \in Datasets
        BY <3>2, <2>2, <1>13, <1>14, <1>15
      <4>2. cache'[dataset[b]].scanned \in {0, cache[dataset[b]].scanned}
        BY <4>1, <1>10
      <4>3. cache[dataset[b]].scanned \in Nat /\ scans[b].entry.scanned \in Nat
        BY <4>1, EntriesTyped
      <4> QED BY <4>1, <4>2, <4>3 DEF LookupInv, Waiters, Awaits, ReadsFrom, Reached
    <3> QED BY <3>1, <3>2
  <2> QED BY <2>1, <2>2 DEF Waiters, Awaits, ReadsFrom, Running, Reached, isExhausted, Current
<1> QED BY <1>12, <1>18, <1>19, <1>20, <1>21 DEF LookupInv

LEMMA LocateKeeps == ASSUME LookupInv, NEW c \in Lookups, Locate(c) PROVE LookupInv'
BY LocateKnownKeeps, LocateScansKeeps

\* A page: what follows the first s items, at most "limit" of them.
IsPage(page, held, s, limit) ==
  /\ Len(page) \in 0..limit
  /\ s + Len(page) <= Len(held) \/ Len(page) = 0
  /\ Len(page) < limit => s + Len(page) >= Len(held)
  /\ \A n \in 1..Len(page) : page[n] = held[s + n]

LEMMA PageRead ==
  ASSUME NEW held \in Seq(Ids \cup {NoId}), NEW s \in Nat, NEW k \in Nat \ {0}
  PROVE  IsPage(SubSeq(held, s + 1, lesser(Len(held), s + k)), held, s, k)
BY DEF lesser, IsPage

\* What a map says of a dataset that holds "held", as far as it has been read.
LEMMA SameRight ==
  ASSUME NEW map, NEW held, NEW e, NEW f, RightIn(map, held, e),
         f.scanned = e.scanned, f.complete = e.complete
  PROVE  RightIn(map, held, f)
BY DEF RightIn

LEMMA EmptyRight ==
  ASSUME NEW held \in Seq(Ids \cup {NoId}), NEW e, e.scanned = 0, ~e.complete
  PROVE  RightIn(NoMap, held, e)
BY DEF RightIn, NoMap

\* All that is within reach has been read: what is not in the map is not there.
LEMMA OutOfReach ==
  ASSUME NEW held \in Seq(Ids \cup {NoId}), NEW map \in [Ids -> Int], NEW e \in CacheEntry,
         NEW i \in Ids, RightIn(map, held, e), ~(map[i] >= 0), isExhausted(e)
  PROVE  LET r == SubSeq(held, 1, lesser(Len(held), MaxItems)) IN
         \A n \in 1..Len(r) : r[n] # i
<1> DEFINE r == SubSeq(held, 1, lesser(Len(held), MaxItems))
<1>1. e.scanned \in Nat /\ MaxItems \in Nat /\ Len(held) \in Nat
  BY LookupAssumption DEF CacheEntry
<1>2. e.complete => e.scanned = Len(held)
  BY DEF RightIn
<1>3. e.complete \/ e.scanned >= MaxItems
  BY DEF isExhausted
<1>4. Len(r) <= e.scanned /\ Len(r) \in Nat /\ \A n \in 1..Len(r) : r[n] = held[n]
  <2> HIDE DEF isExhausted
  <2> QED BY <1>1, <1>2, <1>3 DEF lesser
<1>5. \A n \in 1..e.scanned : held[n] \in Ids => map[held[n]] >= 0
  BY DEF RightIn
<1> HIDE DEF r
<1>6. \A n \in 1..Len(r) : r[n] # i
  BY <1>1, <1>4, <1>5
<1> QED BY <1>6 DEF r

\* Where the map has an item after a page: where it had it, or at its first
\* place on the page.
Offset(new, old, page, s, i) ==
  IF old >= 0 \/ (\A n \in 1..Len(page) : page[n] # i) THEN new = old
  ELSE \E n \in 1..Len(page) : page[n] = i /\ new = s + n - 1

Grown(new, old, page, s) == \A i \in Ids : Offset(new[i], old[i], page, s, i)

\* The entry f is the entry e after a page.
ReadOn(f, e, page, limit) ==
  /\ limit \in Nat \ {0} /\ e.scanned + limit <= MaxItems
  /\ f.scanned = e.scanned + Len(page) /\ (f.complete => Len(page) < limit)

\* A page makes a right map a right one.
LEMMA PageRight ==
  ASSUME NEW held \in Seq(Ids \cup {NoId}), NEW map \in [Ids -> Int], NEW e \in CacheEntry,
         RightIn(map, held, e), NEW limit, NEW page, IsPage(page, held, e.scanned, limit),
         NEW new, Grown(new, map, page, e.scanned),
         NEW f, ReadOn(f, e, page, limit)
  PROVE  RightIn(new, held, f)
<1> DEFINE s == e.scanned
<1>1. s \in Nat /\ MaxItems \in Nat /\ Len(held) \in Nat
  BY LookupAssumption DEF CacheEntry
<1>2. /\ Len(page) \in 0..limit
      /\ s + Len(page) <= Len(held) \/ Len(page) = 0
      /\ Len(page) < limit => s + Len(page) >= Len(held)
      /\ \A n \in 1..Len(page) : page[n] = held[s + n]
  BY DEF IsPage
<1>3. /\ s <= Len(held)
      /\ \A n \in 1..s : held[n] \in Ids => map[held[n]] >= 0
      /\ \A i \in Ids : map[i] >= 0 =>
           map[i] + 1 \in 1..lesser(Len(held), MaxItems) /\ held[map[i] + 1] = i
  BY DEF RightIn
<1>4. \A i \in Ids : Offset(new[i], map[i], page, s, i)
  BY DEF Grown
<1>5. \A i \in Ids : map[i] >= 0 => new[i] = map[i]
  BY <1>4 DEF Offset
<1>6. /\ f.scanned = s + Len(page) /\ (f.complete => Len(page) < limit)
      /\ limit \in Nat \ {0} /\ s + limit <= MaxItems
  BY DEF ReadOn
<1> HIDE DEF s
<1>7. f.scanned <= Len(held) /\ (f.complete => f.scanned = Len(held))
  BY <1>1, <1>2, <1>3, <1>6
<1>8. ASSUME NEW n \in 1..f.scanned, held[n] \in Ids PROVE new[held[n]] >= 0
  <2>1. CASE n <= s
    <3>1. map[held[n]] >= 0
      BY <1>1, <1>2, <1>3, <1>6, <1>8, <2>1
    <3> QED BY <1>5, <1>8, <3>1
  <2>2. CASE n > s
    <3>1. n - s \in 1..Len(page) /\ s + (n - s) = n
      BY <1>1, <1>2, <1>6, <1>8, <2>2
    <3>2. page[n - s] = held[n]
      BY <1>2, <3>1
    <3>3. \/ map[held[n]] >= 0 /\ new[held[n]] = map[held[n]]
          \/ \E k \in 1..Len(page) : new[held[n]] = s + k - 1
      BY <1>4, <1>8, <3>1, <3>2 DEF Offset
    <3>4. \A k \in 1..Len(page) : s + k - 1 >= 0
      BY <1>1, <1>2, <1>6
    <3> QED BY <3>3, <3>4
  <2>3. n <= s \/ n > s
    BY <1>1, <1>2, <1>6
  <2> QED BY <2>1, <2>2, <2>3
<1>9. ASSUME NEW i \in Ids, new[i] >= 0
      PROVE  new[i] + 1 \in 1..lesser(Len(held), MaxItems) /\ held[new[i] + 1] = i
  <2>1. CASE map[i] >= 0
    BY <1>3, <1>5, <2>1
  <2>2. CASE ~(map[i] >= 0)
    <3>1. PICK n \in 1..Len(page) : page[n] = i /\ new[i] = s + n - 1
      BY <1>4, <1>9, <2>2 DEF Offset
    <3>2. held[s + n] = i /\ n \in 1..Len(page)
      BY <1>2, <3>1
    <3>3. new[i] + 1 = s + n
      BY <1>1, <1>2, <1>6, <3>1
    <3>4. s + n \in 1..Len(held) /\ s + n <= MaxItems
      BY <1>1, <1>2, <1>6, <3>2
    <3> QED BY <1>1, <3>2, <3>3, <3>4 DEF lesser
  <2> QED BY <2>1, <2>2
<1> QED BY <1>5, <1>7, <1>8, <1>9 DEF RightIn

\* The scan goes on: it has read further, or it knows that there is no more.
LEMMA PageStep ==
  ASSUME LookupInv, NEW c \in Lookups, ScanPage(c)
  PROVE  /\ Running(c) /\ ~scans[c].returned
         /\ scans' = [scans EXCEPT ![c] = scans'[c]] /\ scans'[c] \in ScanState /\ scans'[c].running
         /\ scans'[c].gen = scans[c].gen /\ scans'[c].entry.map = scans[c].entry.map
         /\ scans'[c].entry.retired = scans[c].entry.retired
         /\ \A n \in Nat : n <= scans[c].entry.scanned => Reached(n, scans'[c].entry)
         /\ scans[c].entry.scanned <= scans'[c].entry.scanned
         /\ ~scans'[c].returned => ~isExhausted(scans'[c].entry)
         /\ maps' \in [MapIds -> [Ids -> Int]]
         /\ \A m \in MapIds \ {scans[c].entry.map} : maps'[m] = maps[m]
         /\ content = first /\ Right(scans[c].entry, dataset[c]) =>
              /\ RightIn(maps'[scans[c].entry.map], first[dataset[c]], scans'[c].entry)
              /\ \A i \in Ids : maps[scans[c].entry.map][i] >= 0 =>
                   maps'[scans[c].entry.map][i] = maps[scans[c].entry.map][i]
<1> DEFINE e == scans[c].entry
           held == content[dataset[c]]
           limit == lesser(PageSize, MaxItems - e.scanned)
           page == SubSeq(held, e.scanned + 1, lesser(Len(held), e.scanned + limit))
           at(i) == {n \in 1..Len(page) : page[n] = i}
           map == [i \in Ids |->
                     IF maps[e.map][i] >= 0 \/ at(i) = {} THEN maps[e.map][i]
                     ELSE e.scanned + (CHOOSE n \in at(i) : \A m \in at(i) : n <= m) - 1]
           chosen(i) == CHOOSE n \in at(i) : \A m \in at(i) : n <= m
           next == [e EXCEPT !.scanned = @ + Len(page), !.complete = Len(page) < limit]
           fresh == [next EXCEPT !.old = FALSE]
           new == [scans[c] EXCEPT !.entry = fresh,
             !.returned = isExhausted(next) \/ map[target[c]] >= 0]
<1> USE LookupAssumption, Nothing, NoMapId
<1>1. /\ Running(c) /\ ~scans[c].returned
      /\ maps' = [maps EXCEPT ![e.map] = map]
      /\ scans' = [scans EXCEPT ![c] = new]
  BY DEF ScanPage, Running
<1>2. /\ scans[c] \in ScanState /\ e \in CacheEntry /\ e.map \in MapIds /\ e # NoEntry
      /\ ~e.complete /\ e.scanned \in Nat /\ e.scanned < MaxItems
      /\ held \in Seq(Ids \cup {NoId})
  <2>1. scans[c] \in ScanState /\ e \in CacheEntry /\ dataset[c] \in Datasets
    BY EntriesTyped
  <2>2. e.map # 0 /\ ~isExhausted(e)
    BY <1>1 DEF LookupInv, Maps, Waiters, Awaits, ReadsFrom
  <2>3. e # NoEntry
    BY <2>2
  <2>4. held \in Contents[dataset[c]] /\ Contents[dataset[c]] \subseteq Seq(Ids \cup {NoId})
    BY <2>1, LookupAssumption DEF LookupInv, LookupTypeOK, Holdings
  <2> HIDE DEF e, held
  <2> QED BY <2>1, <2>2, <2>3, <2>4 DEF isExhausted, CacheEntry
<1>3. limit \in Nat \ {0} /\ e.scanned + limit <= MaxItems
  BY <1>2 DEF lesser
<1>4. IsPage(page, held, e.scanned, limit)
  <2> HIDE DEF limit, held, e
  <2> QED BY <1>2, <1>3, PageRead
<1> HIDE DEF page, limit, held
<1>page. Len(page) \in 0..limit
  BY <1>4 DEF IsPage
<1>5. /\ next \in CacheEntry /\ next.map = e.map /\ next.scanned = e.scanned + Len(page)
      /\ next.complete = (Len(page) < limit) /\ next.retired = e.retired /\ next # NoEntry
  <2>1. e.scanned + Len(page) \in 0..MaxItems
    BY <1>2, <1>3, <1>page
  <2>2. (Len(page) < limit) \in BOOLEAN
    OBVIOUS
  <2> HIDE DEF e
  <2>3. next \in CacheEntry /\ next.map = e.map
    BY <1>2, <2>1, <2>2 DEF CacheEntry
  <2> QED BY <1>2, <2>3 DEF CacheEntry
<1> HIDE DEF next
<1>6. /\ fresh \in CacheEntry /\ fresh.map = e.map /\ fresh.scanned = next.scanned
      /\ fresh.complete = next.complete /\ fresh.retired = next.retired /\ fresh # NoEntry
  <2>1. fresh \in CacheEntry /\ fresh.map = next.map
    BY <1>5 DEF CacheEntry
  <2> QED BY <1>2, <1>5, <2>1 DEF CacheEntry
<1> HIDE DEF fresh
<1>7. (isExhausted(next) \/ map[target[c]] >= 0) \in BOOLEAN
  BY DEF isExhausted
<1> HIDE DEF map
<1>8. /\ new \in ScanState /\ new.running /\ new.gen = scans[c].gen /\ new.entry = fresh
      /\ new.returned = (isExhausted(next) \/ map[target[c]] >= 0)
  BY <1>1, <1>2, <1>6, <1>7 DEF ScanState, Running
<1>9. isExhausted(next) = isExhausted(fresh)
  BY <1>5, <1>6 DEF isExhausted
<1>grown. \A i \in Ids : Offset(map[i], maps[e.map][i], page, e.scanned, i)
  <2> SUFFICES ASSUME NEW i \in Ids PROVE Offset(map[i], maps[e.map][i], page, e.scanned, i)
    OBVIOUS
  <2>1. map[i] = IF maps[e.map][i] >= 0 \/ at(i) = {} THEN maps[e.map][i]
                 ELSE e.scanned + chosen(i) - 1
    BY DEF map
  <2>2. at(i) # {} => chosen(i) \in at(i)
    <3> SUFFICES ASSUME at(i) # {} PROVE chosen(i) \in at(i)
      OBVIOUS
    <3>1. at(i) \in SUBSET Nat
      BY <1>page
    <3> HIDE DEF at
    <3>2. \E n \in at(i) : \A m \in at(i) : n <= m
      BY <3>1, Least
    <3> QED BY <3>2
  <2>3. /\ at(i) = {} <=> \A n \in 1..Len(page) : page[n] # i
        /\ chosen(i) \in at(i) => chosen(i) \in 1..Len(page) /\ page[chosen(i)] = i
    OBVIOUS
  <2> HIDE DEF at, chosen, e
  <2> QED BY <2>1, <2>2, <2>3 DEF Offset
<1>10. map \in [Ids -> Int]
  <2>1. maps[e.map] \in [Ids -> Int]
    BY <1>2 DEF LookupInv, LookupTypeOK
  <2>2. \A n \in 1..Len(page) : e.scanned + n - 1 \in Int
    BY <1>2, <1>page
  <2>3. ASSUME NEW i \in Ids PROVE map[i] \in Int
    <3>1. Offset(map[i], maps[e.map][i], page, e.scanned, i) /\ maps[e.map][i] \in Int
      BY <1>grown, <2>1
    <3>2. map[i] = maps[e.map][i] \/ \E n \in 1..Len(page) : map[i] = e.scanned + n - 1
      BY <3>1 DEF Offset
    <3> QED BY <2>2, <3>1, <3>2
  <2>4. map = [i \in Ids |-> map[i]]
    BY DEF map
  <2> QED BY <2>3, <2>4
<1>11. maps' \in [MapIds -> [Ids -> Int]]
  BY <1>1, <1>2, <1>10 DEF LookupInv, LookupTypeOK
<1> HIDE DEF new
<1>12. scans'[c] = new
  BY <1>1 DEF LookupInv, LookupTypeOK
<1>13. \A n \in Nat : n <= e.scanned => Reached(n, fresh)
  <2>1. Len(page) = 0 => fresh.complete
    <3>1. Len(page) = 0 => (Len(page) < limit) = TRUE
      BY <1>3
    <3>2. fresh.complete = (Len(page) < limit)
      BY <1>5, <1>6
    <3> QED BY <3>1, <3>2
  <2>2. fresh.scanned = e.scanned + Len(page)
    BY <1>5, <1>6
  <2> HIDE DEF e
  <2> QED BY <1>2, <1>3, <1>page, <2>1, <2>2 DEF Reached
<1>14. e.scanned <= fresh.scanned
  BY <1>2, <1>page, <1>5, <1>6
<1>15. maps'[e.map] = map /\ \A m \in MapIds \ {e.map} : maps'[m] = maps[m]
  BY <1>1, <1>2 DEF LookupInv, LookupTypeOK
<1>16. ASSUME content = first, Right(e, dataset[c])
       PROVE  /\ RightIn(map, first[dataset[c]], fresh)
              /\ \A i \in Ids : maps[e.map][i] >= 0 => map[i] = maps[e.map][i]
  <2>1. RightIn(maps[e.map], held, e) /\ held = first[dataset[c]]
    BY <1>16 DEF Right, held
  <2>2. maps[e.map] \in [Ids -> Int]
    BY <1>2 DEF LookupInv, LookupTypeOK
  <2>3. fresh.scanned = e.scanned + Len(page) /\ (fresh.complete => Len(page) < limit)
    BY <1>5, <1>6
  <2> DEFINE old == maps[e.map]
  <2>4. Grown(map, old, page, e.scanned)
    BY <1>grown DEF Grown
  <2> HIDE DEF e, at, chosen, old
  <2>5. RightIn(map, held, fresh) /\ \A i \in Ids : old[i] >= 0 => map[i] = old[i]
    <3>1. old \in [Ids -> Int] /\ RightIn(old, held, e)
      BY <2>1, <2>2 DEF old
    <3>2. held \in Seq(Ids \cup {NoId}) /\ e \in CacheEntry
      BY <1>2
    <3>3. ReadOn(fresh, e, page, limit)
      BY <1>3, <2>3 DEF ReadOn
    <3>4. RightIn(map, held, fresh)
      BY <1>4, <2>4, <3>1, <3>2, <3>3, PageRight
    <3>5. \A i \in Ids : old[i] >= 0 => map[i] = old[i]
      BY <2>4 DEF Grown, Offset
    <3> QED BY <3>4, <3>5
  <2> QED BY <2>1, <2>5 DEF old
<1> QED BY <1>1, <1>5, <1>6, <1>8, <1>9, <1>11, <1>12, <1>13, <1>14, <1>15, <1>16

LEMMA ScanPageKeeps == ASSUME LookupInv, NEW c \in Lookups, ScanPage(c) PROVE LookupInv'
<1> DEFINE new == scans'[c]
<1> USE LookupAssumption, Nothing, NoMapId
<1>1. /\ Running(c) /\ ~scans[c].returned
      /\ scans' = [scans EXCEPT ![c] = new] /\ new \in ScanState /\ new.running
      /\ new.gen = scans[c].gen /\ new.entry.map = scans[c].entry.map
      /\ new.entry.retired = scans[c].entry.retired
      /\ \A n \in Nat : n <= scans[c].entry.scanned => Reached(n, new.entry)
      /\ scans[c].entry.scanned <= new.entry.scanned
      /\ ~new.returned => ~isExhausted(new.entry)
      /\ maps' \in [MapIds -> [Ids -> Int]]
  BY PageStep
<1> HIDE DEF new
<1>2. UNCHANGED <<content, first, changes, cache, generation, generationCounter, inFlight, look>>
  BY DEF ScanPage
<1>3. scans'[c] = new /\ \A b \in Lookups \ {c} : scans'[b] = scans[b]
  BY <1>1 DEF LookupInv, LookupTypeOK
<1>4. \A b \in Lookups : Running(b)' = Running(b) /\ scans'[b].gen = scans[b].gen
                         /\ scans'[b].entry.map = scans[b].entry.map
                         /\ scans'[b].entry.retired = scans[b].entry.retired
                         /\ Current(b)' = Current(b)
  <2> SUFFICES ASSUME NEW b \in Lookups
               PROVE  /\ scans'[b].running = scans[b].running /\ scans'[b].gen = scans[b].gen
                      /\ scans'[b].entry.map = scans[b].entry.map
                      /\ scans'[b].entry.retired = scans[b].entry.retired
    BY <1>2 DEF Running, Current
  <2>1. CASE b = c
    BY <2>1, <1>1, <1>3, EntriesTyped DEF Running, ScanState
  <2>2. CASE b # c
    BY <2>2, <1>3
  <2> QED BY <2>1, <2>2
<1>5. LookupTypeOK'
  BY <1>1, <1>2 DEF LookupInv, LookupTypeOK
<1>6. Registered'
  <2>1. \A d \in Datasets : inFlight[d] # NoLookup =>
          scans'[inFlight[d]].running /\ dataset[inFlight[d]] = d
    BY <1>1, <1>3 DEF LookupInv, LookupTypeOK, Registered, Running
  <2>2. \A b \in Lookups : Running(b)' =>
          /\ scans'[b].gen \in 1..generationCounter
          /\ scans'[b].entry.retired <=> ~Current(b)'
          /\ Current(b)' => inFlight[dataset[b]] = b
          /\ look[b].pc = "waiting" /\ look[b].on = b
    BY <1>4 DEF LookupInv, Registered
  <2> QED BY <1>2, <2>1, <2>2 DEF Registered, Running, Current
<1>7. Generations'
  <2>1. \A d \in Datasets : activeScans(d)' = activeScans(d)
    BY <1>4 DEF activeScans, Running
  <2> QED BY <1>2, <2>1 DEF LookupInv, Generations, activeLocates
<1>8. Maps'
  <2>1. \A d \in Datasets :
          \/ cache'[d] = NoEntry
          \/ cache[d] # NoEntry /\ cache'[d].map = cache[d].map /\ ~cache'[d].retired
    BY <1>2 DEF LookupInv, Maps
  <2> QED BY <1>2, <1>4, <2>1, FewerHolders
<1>9. Waiters'
  <2>1. ASSUME NEW w \in Lookups, look[w].pc = "waiting"
        PROVE  LET s == scans'[look[w].on] IN
               /\ s.running /\ s.gen = look[w].gen
               /\ look[w].before <= s.entry.scanned
               /\ s.returned => Reached(look[w].before, s.entry)
    <3>1. /\ look[w].on \in Lookups /\ Running(look[w].on) /\ scans[look[w].on].gen = look[w].gen
          /\ look[w].before <= scans[look[w].on].entry.scanned
          /\ scans[look[w].on].returned => Reached(look[w].before, scans[look[w].on].entry)
      BY <2>1 DEF LookupInv, Waiters, Awaits, ReadsFrom, Running
    <3>2. look[w].before \in Nat /\ scans[c].entry.scanned \in Nat /\ new.entry.scanned \in Nat
      <4>1. new.entry \in CacheEntry
        BY <1>1 DEF ScanState
      <4> QED BY <4>1, EntriesTyped DEF CacheEntry
    <3>3. CASE look[w].on = c
      <4>1. look[w].before <= new.entry.scanned /\ Reached(look[w].before, new.entry)
        BY <1>1, <3>1, <3>2, <3>3
      <4> QED BY <1>1, <1>3, <3>1, <3>3, <4>1
    <3>4. CASE look[w].on # c
      BY <1>3, <3>1, <3>4 DEF Running
    <3> QED BY <3>3, <3>4
  <2>2. ASSUME NEW b \in Lookups, Running(b)
        PROVE  /\ ~scans'[b].returned => ~isExhausted(scans'[b].entry)
               /\ Current(b) => LET n == cache[dataset[b]] IN
                    /\ n.scanned <= scans'[b].entry.scanned
                    /\ scans'[b].returned => Reached(n.scanned, scans'[b].entry)
    <3>1. CASE b = c
      <4>1. Current(b) => cache[dataset[b]].scanned <= scans[c].entry.scanned
        BY <2>2, <3>1 DEF LookupInv, Waiters, Awaits, ReadsFrom
      <4>2. cache[dataset[b]].scanned \in Nat /\ scans[c].entry.scanned \in Nat
              /\ new.entry.scanned \in Nat
        <5>1. new.entry \in CacheEntry
          BY <1>1 DEF ScanState
        <5> QED BY <5>1, EntriesTyped DEF CacheEntry
      <4>3. Current(b) => cache[dataset[b]].scanned <= new.entry.scanned
              /\ Reached(cache[dataset[b]].scanned, new.entry)
        BY <1>1, <4>1, <4>2
      <4> QED BY <1>1, <1>3, <3>1, <4>3
    <3>2. CASE b # c
      BY <1>3, <2>2, <3>2 DEF LookupInv, Waiters, Awaits, ReadsFrom
    <3> QED BY <3>1, <3>2
  <2> QED BY <1>2, <1>4, <2>1, <2>2 DEF LookupInv, Waiters, Awaits, ReadsFrom, Running, Current,
               Reached, isExhausted
<1> QED BY <1>5, <1>6, <1>7, <1>8, <1>9 DEF LookupInv

\* A scan is over: it is no longer registered, those who await it go on with
\* what it read or fail, and what it read may be in the cache.
LEMMA ScanEndsKeeps ==
  ASSUME LookupInv, NEW c \in Lookups, Running(c), unregister(c), forgetIdle(generation),
         UNCHANGED <<content, first, changes, maps, generationCounter>>,
         look' \in [Lookups -> LookState],
         \A w \in Lookups : ~(look[w].pc = "waiting" /\ look[w].on = c) => look'[w] = look[w],
         \A w \in Lookups : look[w].pc = "waiting" /\ look[w].on = c =>
           /\ look'[w].stalls = 0 /\ look'[w].gen = look[w].gen /\ look'[w].before = look[w].before
           /\ \/ look'[w].pc = "woken" /\ look'[w].got = scans[c].entry /\ scans[c].returned
              \/ look'[w].pc = "error" /\ look'[w].got = NoEntry,
         cache' \in [Datasets -> CacheEntry],
         \A d \in Datasets :
           \/ cache'[d] \in {NoEntry, cache[d]}
           \/ d = dataset[c] /\ Current(c) /\ cache'[d] = scans[c].entry
  PROVE  LookupInv'
<1> DEFINE d == dataset[c]
           awaits(w) == look[w].pc = "waiting" /\ look[w].on = c
<1> USE LookupAssumption, Nothing, NoMapId
<1>1. d \in Datasets /\ scans[c].entry \in CacheEntry /\ c # NoLookup
  BY EntriesTyped
<1>2. /\ scans'[c] = NoScan /\ \A b \in Lookups \ {c} : scans'[b] = scans[b]
      /\ inFlight'[d] = (IF inFlight[d] = c THEN NoLookup ELSE inFlight[d])
      /\ \A k \in Datasets \ {d} : inFlight'[k] = inFlight[k]
  BY <1>1 DEF unregister, LookupInv, LookupTypeOK
<1>3. \A b \in Lookups : Running(b)' => b # c /\ Running(b) /\ scans'[b] = scans[b]
  BY <1>2 DEF Running
<1>4. \A b \in Lookups \ {c} : Running(b) => Running(b)' /\ look'[b] = look[b]
  BY <1>2 DEF Running, LookupInv, Registered
<1>5. \A k \in Datasets : generation[k] = 0 => cache'[k] = NoEntry /\ activeScans(k)' = {}
  <2> SUFFICES ASSUME NEW k \in Datasets, generation[k] = 0
               PROVE  cache'[k] = NoEntry /\ activeScans(k)' = {}
    OBVIOUS
  <2>1. cache[k] = NoEntry /\ \A b \in Lookups : ~(Running(b) /\ dataset[b] = k)
    BY DEF LookupInv, Generations, activeScans, Running
  <2> QED BY <2>1, <1>3 DEF activeScans, Running
<1>6. /\ Generations'
      /\ \A k \in Datasets :
           /\ generation'[k] \in {0, generation[k]}
           /\ cache'[k] # NoEntry \/ activeScans(k)' # {} \/ activeLocates(k)' # {} =>
                generation'[k] = generation[k]
  BY <1>5, IdleForgotten
<1>7. \A b \in Lookups : Running(b)' =>
        /\ dataset[b] \in Datasets /\ generation'[dataset[b]] = generation[dataset[b]]
        /\ Current(b)' = Current(b)
  <2> SUFFICES ASSUME NEW b \in Lookups, Running(b)'
               PROVE  /\ dataset[b] \in Datasets /\ generation'[dataset[b]] = generation[dataset[b]]
                      /\ Current(b)' = Current(b)
    OBVIOUS
  <2>1. dataset[b] \in Datasets /\ activeScans(dataset[b])' # {}
    BY DEF activeScans, Running
  <2> QED BY <2>1, <1>3, <1>6 DEF Current
<1>8. \A b \in Lookups : Running(b)' /\ Current(b) => dataset[b] # d \/ ~Current(c)
  <2> SUFFICES ASSUME NEW b \in Lookups, Running(b)', Current(b), dataset[b] = d, Current(c)
               PROVE  FALSE
    OBVIOUS
  <2>1. inFlight[d] = b /\ inFlight[d] = c
    BY <1>3 DEF LookupInv, Registered
  <2> QED BY <2>1, <1>3
<1>9. \A k \in Datasets : inFlight'[k] # NoLookup => inFlight'[k] = inFlight[k] /\ inFlight[k] # c
  BY <1>1, <1>2 DEF LookupInv, Registered
<1>10. LookupTypeOK'
  <2>1. scans' \in [Lookups -> ScanState] /\ inFlight' \in [Datasets -> Lookups \cup {NoLookup}]
    BY DEF unregister, LookupInv, LookupTypeOK
  <2>2. generation' \in [Datasets -> 0..generationCounter]
    <3>1. generation' = [k \in Datasets |-> generation'[k]]
      BY DEF forgetIdle
    <3>2. generationCounter \in Nat /\ \A k \in Datasets : generation[k] \in 0..generationCounter
      BY DEF LookupInv, LookupTypeOK
    <3>3. \A k \in Datasets : generation'[k] \in 0..generationCounter
      BY <1>6, <3>2
    <3> QED BY <3>1, <3>3
  <2> QED BY <2>1, <2>2 DEF LookupInv, LookupTypeOK
<1>11. Registered'
  <2>1. \A k \in Datasets : inFlight'[k] # NoLookup =>
          scans'[inFlight'[k]].running /\ dataset[inFlight'[k]] = k
    BY <1>9, <1>2 DEF LookupInv, LookupTypeOK, Registered, Running
  <2>2. ASSUME NEW b \in Lookups, Running(b)'
        PROVE  /\ scans'[b].gen \in 1..generationCounter
               /\ scans'[b].entry.retired <=> ~Current(b)'
               /\ Current(b)' => inFlight'[dataset[b]] = b
               /\ look'[b].pc = "waiting" /\ look'[b].on = b
    <3>1. b # c /\ Running(b) /\ scans'[b] = scans[b] /\ look'[b] = look[b]
          /\ dataset[b] \in Datasets /\ Current(b)' = Current(b)
      BY <2>2, <1>3, <1>4, <1>7
    <3>2. Current(b) => inFlight'[dataset[b]] = b
      BY <3>1, <1>2 DEF LookupInv, Registered
    <3> QED BY <3>1, <3>2 DEF LookupInv, Registered
  <2> QED BY <2>1, <2>2 DEF Registered, Running, Current
<1>12. Maps'
  <2>1. \A k \in Datasets : (cache'[k] # NoEntry => cache'[k].map # 0) /\ ~cache'[k].retired
    <3>1. scans[c].entry.map # 0 /\ (Current(c) => ~scans[c].entry.retired)
      BY DEF LookupInv, Maps, Registered
    <3> QED BY <3>1 DEF LookupInv, Maps
  <2>2. \A b \in Lookups : Running(b)' => scans'[b].entry.map # 0
    BY <1>3 DEF LookupInv, Maps
  <2>3. \A m \in MapIds, k \in Datasets : Holds(m, k)' => Holds(m, k)
    <3> SUFFICES ASSUME NEW m \in MapIds, NEW k \in Datasets, Holds(m, k)' PROVE Holds(m, k)
      OBVIOUS
    <3>1. k = d /\ m = scans[c].entry.map => Holds(m, k)
      BY DEF Holds
    <3>2. CASE cache'[k].map = m
      BY <3>1, <3>2 DEF Holds
    <3>3. ASSUME NEW b \in Lookups, dataset[b] = k, Running(b)', scans'[b].entry.map = m
                     PROVE Holds(m, k)
      BY <3>3, <1>3 DEF Holds
    <3>4. ASSUME NEW w \in Lookups, dataset[w] = k, look'[w].got.map = m PROVE Holds(m, k)
      <4>1. CASE awaits(w)
        <5>1. dataset[w] = d
          BY <4>1 DEF LookupInv, Waiters, Awaits, ReadsFrom
        <5> QED BY <3>1, <3>4, <4>1, <5>1
      <4>2. CASE ~awaits(w)
        BY <3>4, <4>2 DEF Holds
      <4> QED BY <4>1, <4>2
    <3> QED BY <3>2, <3>3, <3>4 DEF Holds
  <2>4. \A m \in MapIds : \A k, n \in Datasets : Holds(m, k)' /\ Holds(m, n)' => k = n
    BY <2>3 DEF LookupInv, Maps
  <2>5. \A a, b \in Lookups : Running(a)' /\ Running(b)'
          /\ scans'[a].entry.map = scans'[b].entry.map => a = b
    BY <1>3 DEF LookupInv, Maps
  <2>6. \A b \in Lookups : Running(b)' /\ cache'[dataset[b]].map = scans'[b].entry.map =>
          Current(b)'
    <3> SUFFICES ASSUME NEW b \in Lookups, Running(b)', cache'[dataset[b]].map = scans'[b].entry.map
                 PROVE  Current(b)'
      OBVIOUS
    <3>1. b # c /\ Running(b) /\ scans'[b] = scans[b] /\ dataset[b] \in Datasets
            /\ Current(b)' = Current(b)
      BY <1>3, <1>7
    <3>2. scans[b].entry.map # 0 /\ scans[b].entry.map # scans[c].entry.map
      BY <3>1 DEF LookupInv, Maps
    <3>3. cache'[dataset[b]] = cache[dataset[b]]
      BY <3>1, <3>2
    <3> QED BY <3>1, <3>3 DEF LookupInv, Maps
  <2> QED BY <2>1, <2>2, <2>4, <2>5, <2>6 DEF Maps
<1>13. Waiters'
  <2>1. ASSUME NEW w \in Lookups
        PROVE  Awaits(w)'
    <3>1. look'[w].pc \in {"waiting", "woken"} => generation'[dataset[w]] = generation[dataset[w]]
      <4> SUFFICES ASSUME look'[w].pc \in {"waiting", "woken"}
                   PROVE  generation'[dataset[w]] = generation[dataset[w]]
        OBVIOUS
      <4>1. dataset[w] \in Datasets /\ activeLocates(dataset[w])' # {}
        BY DEF activeLocates, Waiting
      <4> QED BY <4>1, <1>6
    <3>2. CASE awaits(w)
      <4>1. look[w].gen # 0 /\ generation[dataset[w]] # 0 /\ scans[c].entry.map # 0
            /\ (scans[c].returned => Reached(look[w].before, scans[c].entry))
        BY <3>2 DEF LookupInv, Waiters, Awaits, ReadsFrom, Maps
      <4> QED BY <3>1, <3>2, <4>1 DEF Awaits
    <3>3. CASE ~awaits(w)
      <4>1. look'[w] = look[w]
        BY <3>3
      <4>2. look[w].pc = "waiting" => look[w].on # c
        BY <3>3
      <4>3. look[w].pc = "waiting" => scans'[look[w].on] = scans[look[w].on]
        BY <4>2, <1>2 DEF LookupInv, Waiters, Awaits, ReadsFrom
      <4> HIDE DEF awaits
      <4> QED BY <3>1, <4>1, <4>3 DEF LookupInv, Waiters, Awaits, ReadsFrom
    <3> QED BY <3>2, <3>3
  <2>2. ASSUME NEW b \in Lookups, Running(b)'
        PROVE  ReadsFrom(b)'
    <3>1. b # c /\ Running(b) /\ scans'[b] = scans[b] /\ Current(b)' = Current(b)
            /\ dataset[b] \in Datasets
      BY <2>2, <1>3, <1>7
    <3>2. Current(b) => cache'[dataset[b]].scanned \in {0, cache[dataset[b]].scanned}
      BY <2>2, <3>1, <1>8
    <3>3. cache[dataset[b]].scanned \in Nat /\ scans[b].entry.scanned \in Nat
      BY <3>1, EntriesTyped
    <3> QED BY <3>1, <3>2, <3>3 DEF LookupInv, Waiters, Awaits, ReadsFrom, Reached
  <2> QED BY <2>1, <2>2 DEF Waiters, Awaits, ReadsFrom, Running, Reached, isExhausted, Current
<1> QED BY <1>6, <1>10, <1>11, <1>12, <1>13 DEF LookupInv

\* A published entry takes its place; whatever the limits drop is gone.
LEMMA PutTyped ==
  ASSUME LookupInv, NEW d \in Datasets, NEW e \in CacheEntry, putCache(d, e)
  PROVE  /\ cache' \in [Datasets -> CacheEntry]
         /\ \A k \in Datasets : cache'[k] \in {NoEntry, cache[k]} \/ (k = d /\ cache'[k] = e)
<1> DEFINE entries == [cache EXCEPT ![d] = IF sizeOf(maps[e.map]) > MaxTotalIds THEN NoEntry ELSE e]
           order == IF sizeOf(maps[e.map]) > MaxTotalIds THEN without(d) ELSE Append(without(d), d)
           n == IF order = without(d) THEN 0 ELSE fewestDropped(order, entries)
           kept == {order[i] : i \in (n + 1)..Len(order)}
<1>1. \A k \in Datasets : entries[k] \in {NoEntry, cache[k]} \/ (k = d /\ entries[k] = e)
  BY DEF LookupInv, LookupTypeOK
<1>2. cache' = [k \in Datasets |-> IF k \in kept THEN entries[k] ELSE NoEntry]
  BY DEF putCache
<1> HIDE DEF entries, order, n, kept
<1> QED BY <1>1, <1>2, EntriesTyped, Nothing

LEMMA SettleKeeps == ASSUME LookupInv, NEW c \in Lookups, Settle(c) PROVE LookupInv'
<1>1. /\ Running(c) /\ scans[c].returned /\ unregister(c) /\ forgetIdle(generation)
      /\ UNCHANGED <<content, first, changes, maps, generationCounter>>
      /\ look' = [w \in Lookups |-> IF look[w].pc = "waiting" /\ look[w].on = c
                    THEN [look[w] EXCEPT !.pc = "woken", !.on = NoLookup, !.got = scans[c].entry]
                    ELSE look[w]]
      /\ IF Current(c) THEN putCache(dataset[c], scans[c].entry) ELSE cache' = cache
  BY DEF Settle, Running, mayPublish, Current
<1>2. \A w \in Lookups : look[w].pc = "waiting" /\ look[w].on = c =>
        /\ look'[w] \in LookState /\ look'[w].stalls = 0 /\ look'[w].gen = look[w].gen
        /\ look'[w].before = look[w].before /\ look'[w].pc = "woken"
             /\ look'[w].got = scans[c].entry
  <2> SUFFICES ASSUME NEW w \in Lookups, look[w].pc = "waiting", look[w].on = c
               PROVE  /\ look'[w] \in LookState /\ look'[w].stalls = 0 /\ look'[w].gen = look[w].gen
                      /\ look'[w].before = look[w].before /\ look'[w].pc = "woken"
                      /\ look'[w].got = scans[c].entry
    OBVIOUS
  <2>1. look'[w] = [look[w] EXCEPT !.pc = "woken", !.on = NoLookup, !.got = scans[c].entry]
    BY <1>1
  <2>2. look[w] \in LookState /\ scans[c].entry \in CacheEntry /\ look[w].stalls = 0
    BY EntriesTyped DEF LookupInv, Waiters, Awaits, ReadsFrom
  <2> QED BY <2>1, <2>2 DEF LookState, LookupPlaces, Waiting
<1>3. \A w \in Lookups : ~(look[w].pc = "waiting" /\ look[w].on = c) => look'[w] = look[w]
  BY <1>1
<1>4. look' \in [Lookups -> LookState]
  <2>1. look' = [w \in Lookups |-> look'[w]]
    BY <1>1
  <2>2. \A w \in Lookups : look'[w] \in LookState
    BY <1>2, <1>3, EntriesTyped
  <2> QED BY <2>1, <2>2
<1>5. /\ cache' \in [Datasets -> CacheEntry]
      /\ \A d \in Datasets : \/ cache'[d] \in {NoEntry, cache[d]}
                             \/ d = dataset[c] /\ Current(c) /\ cache'[d] = scans[c].entry
  <2>1. CASE Current(c)
    <3>1. dataset[c] \in Datasets /\ scans[c].entry \in CacheEntry
      BY EntriesTyped
    <3>2. putCache(dataset[c], scans[c].entry)
      BY <1>1, <2>1
    <3> QED BY <2>1, <3>1, <3>2, PutTyped
  <2>2. CASE ~Current(c)
    BY <1>1, <2>2 DEF LookupInv, LookupTypeOK
  <2> QED BY <2>1, <2>2
<1> QED BY <1>1, <1>2, <1>3, <1>4, <1>5, ScanEndsKeeps

LEMMA ScanFailsKeeps == ASSUME LookupInv, NEW c \in Lookups, ScanFails(c) PROVE LookupInv'
<1>1. /\ Running(c) /\ unregister(c) /\ forgetIdle(generation)
      /\ UNCHANGED <<content, first, changes, maps, cache, generationCounter>>
      /\ look' = [w \in Lookups |-> IF look[w].pc = "waiting" /\ look[w].on = c
                    THEN [look[w] EXCEPT !.pc = "error", !.on = NoLookup] ELSE look[w]]
  BY DEF ScanFails, Running
<1>2. \A w \in Lookups : look[w].pc = "waiting" /\ look[w].on = c =>
        /\ look'[w] \in LookState /\ look'[w].stalls = 0 /\ look'[w].gen = look[w].gen
        /\ look'[w].before = look[w].before /\ look'[w].pc = "error" /\ look'[w].got = NoEntry
  <2> SUFFICES ASSUME NEW w \in Lookups, look[w].pc = "waiting", look[w].on = c
               PROVE  /\ look'[w] \in LookState /\ look'[w].stalls = 0 /\ look'[w].gen = look[w].gen
                      /\ look'[w].before = look[w].before /\ look'[w].pc = "error"
                      /\ look'[w].got = NoEntry
    OBVIOUS
  <2>1. look'[w] = [look[w] EXCEPT !.pc = "error", !.on = NoLookup]
    BY <1>1
  <2>2. look[w] \in LookState /\ look[w].stalls = 0 /\ look[w].got = NoEntry
    BY EntriesTyped DEF LookupInv, Waiters, Awaits, ReadsFrom
  <2> QED BY <2>1, <2>2 DEF LookState, LookupPlaces, Waiting
<1>3. \A w \in Lookups : ~(look[w].pc = "waiting" /\ look[w].on = c) => look'[w] = look[w]
  BY <1>1
<1>4. look' \in [Lookups -> LookState]
  <2>1. look' = [w \in Lookups |-> look'[w]]
    BY <1>1
  <2>2. \A w \in Lookups : look'[w] \in LookState
    BY <1>2, <1>3, EntriesTyped
  <2> QED BY <2>1, <2>2
<1>5. cache' \in [Datasets -> CacheEntry] /\ \A d \in Datasets : cache'[d] \in {NoEntry, cache[d]}
  BY <1>1 DEF LookupInv, LookupTypeOK
<1> QED BY <1>1, <1>2, <1>3, <1>4, <1>5, ScanEndsKeeps

\* The cached offset was wrong: the entry goes, the generation is a new one, and
\* what is still being scanned is retired.
LEMMA InvalidateKeeps ==
  ASSUME LookupInv, NEW c \in Lookups, look[c].pc = "fetching", NEW l \in LookState,
         look' = [look EXCEPT ![c] = l], l.pc \in {"locating", "unstable"},
         l.got = NoEntry, l.stalls = 0, invalidate(dataset[c]),
         UNCHANGED <<content, first, changes, maps, inFlight>>
  PROVE  LookupInv'
<1> DEFINE d == dataset[c]
           h == [generation EXCEPT ![d] = generationCounter + 1]
<1> USE LookupAssumption, Nothing, NoMapId
<1>1. /\ d \in Datasets /\ generationCounter \in Nat
      /\ \A k \in Datasets : generation[k] \in 0..generationCounter
  BY EntriesTyped DEF LookupInv, LookupTypeOK
<1>2. /\ cache' = [cache EXCEPT ![d] = NoEntry]
      /\ generationCounter' = generationCounter + 1
      /\ scans' = [s \in Lookups |-> IF s \in activeScans(d)
                     THEN [scans[s] EXCEPT !.entry.retired = TRUE] ELSE scans[s]]
      /\ forgetIdle(h)
  BY DEF invalidate
<1>3. h[d] = generationCounter + 1 /\ \A k \in Datasets \ {d} : h[k] = generation[k]
  BY <1>1 DEF LookupInv, LookupTypeOK
<1>4. cache'[d] = NoEntry /\ \A k \in Datasets \ {d} : cache'[k] = cache[k]
  BY <1>1, <1>2 DEF LookupInv, LookupTypeOK
<1>5. look'[c] = l /\ \A w \in Lookups \ {c} : look'[w] = look[w]
  BY DEF LookupInv, LookupTypeOK
<1>6. ASSUME NEW b \in Lookups
      PROVE  /\ scans'[b] \in ScanState /\ scans'[b].running = scans[b].running
             /\ scans'[b].gen = scans[b].gen /\ scans'[b].returned = scans[b].returned
             /\ scans'[b].entry.map = scans[b].entry.map
             /\ scans'[b].entry.scanned = scans[b].entry.scanned
             /\ scans'[b].entry.complete = scans[b].entry.complete
             /\ scans'[b].entry.retired =
                  (IF Running(b) /\ dataset[b] = d THEN TRUE ELSE scans[b].entry.retired)
  <2>1. scans[b] \in ScanState /\ scans[b].entry \in CacheEntry
    BY EntriesTyped
  <2>2. CASE Running(b) /\ dataset[b] = d
    <3>1. scans'[b] = [scans[b] EXCEPT !.entry = [scans[b].entry EXCEPT !.retired = TRUE]]
      BY <1>2, <2>2 DEF activeScans, Running
    <3>2. /\ [scans[b].entry EXCEPT !.retired = TRUE] \in CacheEntry
          /\ [scans[b].entry EXCEPT !.retired = TRUE].map = scans[b].entry.map
          /\ [scans[b].entry EXCEPT !.retired = TRUE].scanned = scans[b].entry.scanned
          /\ [scans[b].entry EXCEPT !.retired = TRUE].complete = scans[b].entry.complete
          /\ [scans[b].entry EXCEPT !.retired = TRUE].retired
      BY <2>1 DEF CacheEntry
    <3> DEFINE n == [scans[b].entry EXCEPT !.retired = TRUE]
    <3> HIDE DEF n
    <3>3. scans'[b] = [scans[b] EXCEPT !.entry = n] /\ n \in CacheEntry
      BY <3>1, <3>2 DEF n
    <3>4. scans'[b] \in ScanState /\ scans'[b].entry = n
      BY <2>1, <3>3 DEF ScanState
    <3>5. /\ scans'[b].running = scans[b].running
          /\ scans'[b].gen = scans[b].gen /\ scans'[b].returned = scans[b].returned
      BY <2>1, <3>3 DEF ScanState
    <3>6. n.map = scans[b].entry.map /\ n.scanned = scans[b].entry.scanned
          /\ n.complete = scans[b].entry.complete /\ n.retired = TRUE
      BY <2>1 DEF n, CacheEntry
    <3> QED BY <2>2, <3>4, <3>5, <3>6
  <2>3. CASE ~(Running(b) /\ dataset[b] = d)
    <3>1. scans'[b] = scans[b]
      BY <1>2, <2>3 DEF activeScans, Running
    <3> QED BY <2>1, <2>3, <3>1
  <2> QED BY <2>2, <2>3
<1>7. \A k \in Datasets : activeScans(k)' = activeScans(k)
  BY <1>6 DEF activeScans
<1>8. \A b \in Lookups : Running(b)' = Running(b)
  BY <1>6 DEF Running
<1>9. \A k \in Datasets : h[k] = 0 => cache'[k] = NoEntry /\ activeScans(k)' = {}
  BY <1>1, <1>3, <1>4, <1>7 DEF LookupInv, Generations
<1> HIDE DEF h
<1>10. /\ Generations'
       /\ \A k \in Datasets :
            /\ generation'[k] \in {0, h[k]}
            /\ cache'[k] # NoEntry \/ activeScans(k)' # {} \/ activeLocates(k)' # {} =>
                 generation'[k] = h[k]
  BY <1>2, <1>9, IdleForgotten
\* Scans of the dataset are of an earlier generation, others are as they were.
<1>11. \A b \in Lookups : Running(b) =>
         /\ dataset[b] \in Datasets /\ scans[b].gen \in 1..generationCounter
         /\ Current(b)' = (Current(b) /\ dataset[b] # d)
  <2> SUFFICES ASSUME NEW b \in Lookups, Running(b)
               PROVE  /\ dataset[b] \in Datasets /\ scans[b].gen \in 1..generationCounter
                      /\ Current(b)' = (Current(b) /\ dataset[b] # d)
    OBVIOUS
  <2>1. dataset[b] \in Datasets /\ scans[b].gen \in 1..generationCounter
    BY DEF LookupInv, Registered
  <2>2. activeScans(dataset[b]) # {}
    BY <2>1 DEF activeScans, Running
  <2>3. generation'[dataset[b]] = h[dataset[b]] /\ scans'[b].gen = scans[b].gen
    BY <2>1, <2>2, <1>6, <1>7, <1>10
  <2>4. dataset[b] = d => ~Current(b)'
    BY <2>1, <2>3, <1>1, <1>3 DEF Current
  <2>5. dataset[b] # d => Current(b)' = Current(b)
    BY <2>1, <2>3, <1>3 DEF Current
  <2> QED BY <2>1, <2>4, <2>5 DEF Current
<1>12. LookupTypeOK'
  <2>1. scans' \in [Lookups -> ScanState]
    <3>1. scans' = [s \in Lookups |-> scans'[s]]
      BY <1>2
    <3> QED BY <3>1, <1>6
  <2>2. cache' \in [Datasets -> CacheEntry] /\ look' \in [Lookups -> LookState]
    BY <1>2 DEF LookupInv, LookupTypeOK
  <2>3. generation' \in [Datasets -> 0..generationCounter']
    <3>1. generation' = [k \in Datasets |-> generation'[k]]
      BY <1>2 DEF forgetIdle
    <3>2. \A k \in Datasets : h[k] \in 0..generationCounter'
      BY <1>1, <1>2, <1>3
    <3>3. 0 \in 0..generationCounter'
      BY <1>1, <1>2
    <3>4. \A k \in Datasets : generation'[k] \in 0..generationCounter'
      BY <1>10, <3>2, <3>3
    <3> QED BY <3>1, <3>4
  <2>4. generationCounter' \in Nat
    BY <1>1, <1>2
  <2> QED BY <2>1, <2>2, <2>3, <2>4 DEF LookupInv, LookupTypeOK
<1>13. Registered'
  <2>1. \A k \in Datasets : inFlight'[k] # NoLookup =>
          scans'[inFlight'[k]].running /\ dataset[inFlight'[k]] = k
    <3> SUFFICES ASSUME NEW k \in Datasets, inFlight[k] # NoLookup
                 PROVE  scans'[inFlight[k]].running /\ dataset[inFlight[k]] = k
      OBVIOUS
    <3>1. inFlight[k] \in Lookups /\ Running(inFlight[k]) /\ dataset[inFlight[k]] = k
      BY DEF LookupInv, LookupTypeOK, Registered
    <3>2. Running(inFlight[k])'
      BY <3>1, <1>8
    <3> QED BY <3>1, <3>2 DEF Running
  <2>2. ASSUME NEW b \in Lookups, Running(b)
        PROVE  /\ scans'[b].gen \in 1..generationCounter'
               /\ scans'[b].entry.retired <=> ~Current(b)'
               /\ Current(b)' => inFlight'[dataset[b]] = b
               /\ look'[b].pc = "waiting" /\ look'[b].on = b
    <3>1. /\ scans[b].entry.retired <=> ~Current(b)
          /\ Current(b) => inFlight[dataset[b]] = b
          /\ look[b].pc = "waiting" /\ look[b].on = b
      BY <2>2 DEF LookupInv, Registered
    <3>2. b # c
      BY <3>1
    <3>3. scans'[b].gen \in 1..generationCounter'
      BY <2>2, <1>1, <1>2, <1>6, <1>11
    <3>4. scans'[b].entry.retired <=> ~Current(b)'
      BY <2>2, <3>1, <1>6, <1>11
    <3> QED BY <2>2, <3>1, <3>2, <3>3, <3>4, <1>5, <1>11
  <2> QED BY <2>1, <2>2, <1>8 DEF Registered, Running, Current
<1>14. Maps'
  <2>1. \A k \in Datasets :
          \/ cache'[k] = NoEntry
          \/ cache[k] # NoEntry /\ cache'[k].map = cache[k].map /\ ~cache'[k].retired
    BY <1>4 DEF LookupInv, Maps
  <2>2. \A b \in Lookups : Running(b)' =>
          /\ Running(b) /\ scans'[b].entry.map = scans[b].entry.map
          /\ cache'[dataset[b]] # NoEntry /\ Current(b) => Current(b)'
    BY <1>4, <1>6, <1>8, <1>11
  <2>3. \A w \in Lookups : look'[w].got.map \in {0, look[w].got.map}
    BY <1>5
  <2> QED BY <2>1, <2>2, <2>3, FewerHolders
<1>15. Waiters'
  <2>1. ASSUME NEW w \in Lookups
        PROVE  Awaits(w)'
    <3>1. CASE w = c
      BY <3>1, <1>5 DEF Awaits
    <3>2. CASE w # c
      <4>1. look'[w] = look[w]
        BY <3>2, <1>5
      <4>2. look[w].pc \in {"waiting", "woken"} => generation'[dataset[w]] # 0
        <5> SUFFICES ASSUME look[w].pc \in {"waiting", "woken"} PROVE generation'[dataset[w]] # 0
          OBVIOUS
        <5>1. dataset[w] \in Datasets /\ activeLocates(dataset[w])' # {}
          BY <4>1 DEF activeLocates, Waiting
        <5>2. h[dataset[w]] # 0
          BY <5>1, <1>1, <1>3 DEF LookupInv, Waiters, Awaits, ReadsFrom
        <5> QED BY <5>1, <5>2, <1>10
      <4>3. look[w].pc = "waiting" =>
              LET s == scans'[look[w].on] IN
              /\ look[w].on \in Lookups /\ s.running /\ dataset[look[w].on] = dataset[w]
                   /\ s.gen = look[w].gen
              /\ look[w].before <= s.entry.scanned
              /\ s.returned => Reached(look[w].before, s.entry)
        <5> SUFFICES ASSUME look[w].pc = "waiting"
                     PROVE  LET s == scans'[look[w].on] IN
                            /\ look[w].on \in Lookups /\ s.running
                            /\ dataset[look[w].on] = dataset[w] /\ s.gen = look[w].gen
                            /\ look[w].before <= s.entry.scanned
                            /\ s.returned => Reached(look[w].before, s.entry)
          OBVIOUS
        <5> DEFINE b == look[w].on
        <5>1. LET s == scans[b] IN
              /\ b \in Lookups /\ s.running /\ dataset[b] = dataset[w] /\ s.gen = look[w].gen
              /\ look[w].before <= s.entry.scanned
              /\ s.returned => Reached(look[w].before, s.entry)
          BY DEF LookupInv, Waiters, Awaits, ReadsFrom
        <5> HIDE DEF b
        <5>2. /\ scans'[b].running = scans[b].running
              /\ scans'[b].gen = scans[b].gen /\ scans'[b].returned = scans[b].returned
              /\ scans'[b].entry.scanned = scans[b].entry.scanned
              /\ scans'[b].entry.complete = scans[b].entry.complete
          BY <5>1, <1>6
        <5> QED BY <5>1, <5>2 DEF b, Reached
      <4> QED BY <4>1, <4>2, <4>3 DEF LookupInv, Waiters, Awaits, ReadsFrom
    <3> QED BY <3>1, <3>2
  <2>2. ASSUME NEW b \in Lookups, Running(b)
        PROVE  ReadsFrom(b)'
    <3>1. ~scans'[b].returned => ~isExhausted(scans'[b].entry)
      <4>1. scans[b].entry.map # 0 /\ (~scans[b].returned => ~isExhausted(scans[b].entry))
        BY <2>2 DEF LookupInv, Waiters, Awaits, ReadsFrom, Maps
      <4>2. scans[b].entry # NoEntry /\ scans'[b].entry # NoEntry
        BY <4>1, <1>6
      <4> QED BY <4>1, <4>2, <1>6 DEF isExhausted
    <3>2. Current(b)' => Current(b) /\ cache'[dataset[b]] = cache[dataset[b]]
      BY <2>2, <1>4, <1>11
    <3>3. Current(b) => LET n == cache[dataset[b]] IN
            /\ n.scanned <= scans'[b].entry.scanned
            /\ scans'[b].returned => Reached(n.scanned, scans'[b].entry)
      BY <2>2, <1>6 DEF LookupInv, Waiters, Awaits, ReadsFrom, Reached
    <3> QED BY <3>1, <3>2, <3>3 DEF ReadsFrom
  <2> QED BY <2>1, <2>2, <1>8 DEF Waiters, Awaits, ReadsFrom, Running, Reached, isExhausted, Current
<1> QED BY <1>10, <1>12, <1>13, <1>14, <1>15 DEF LookupInv

LEMMA FetchFailsKeeps == ASSUME LookupInv, NEW c \in Lookups, FetchFails(c) PROVE LookupInv'
<1> DEFINE l == [look[c] EXCEPT !.pc = "error"]
<1>1. look[c] \in LookState /\ look[c].pc = "fetching" /\ look[c].stalls = 0
  BY EntriesTyped DEF LookupInv, Waiters, Awaits, ReadsFrom, FetchFails
<1>2. l \in LookState /\ l.pc = "error" /\ l.got = look[c].got /\ l.stalls = 0
  BY <1>1 DEF LookState, LookupPlaces
<1>3. /\ look' = [look EXCEPT ![c] = l]
      /\ UNCHANGED <<content, first, changes, maps, cache, scans, inFlight, generation,
           generationCounter>>
  BY DEF FetchFails
<1> HIDE DEF l
<1> QED BY <1>1, <1>2, <1>3, FetchEndsKeeps

LEMMA FetchKeeps == ASSUME LookupInv, NEW c \in Lookups, Fetch(c) PROVE LookupInv'
<1> DEFINE at == look[c].offset + 1
           matches == at \in 1..Len(content[dataset[c]]) /\ content[dataset[c]][at] = target[c]
           l == [look[c] EXCEPT
                  !.offset = -1,
                  !.pc = IF matches THEN "found" ELSE IF look[c].round = 1 THEN "locating"
                    ELSE "unstable",
                  !.round = IF matches THEN look[c].round ELSE 2,
                  !.restarts = 0, !.stalls = 0]
<1>1. /\ look[c].pc = "fetching" /\ look' = [look EXCEPT ![c] = l]
      /\ IF matches THEN UNCHANGED <<cache, cacheOrder, generation, generationCounter, scans>>
         ELSE invalidate(dataset[c])
      /\ UNCHANGED <<content, first, changes, maps, inFlight>>
  BY Zenon DEF Fetch
<1> HIDE DEF matches
<1>2. look[c] \in LookState /\ look[c].got = NoEntry
  BY <1>1, EntriesTyped DEF LookupInv, Waiters, Awaits, ReadsFrom
<1>3. /\ l \in LookState /\ l.got = NoEntry /\ l.stalls = 0
      /\ l.pc = IF matches THEN "found" ELSE IF look[c].round = 1 THEN "locating" ELSE "unstable"
  <2>1. (IF matches THEN look[c].round ELSE 2) \in 1..2
    BY <1>2 DEF LookState
  <2>2. (IF matches THEN "found" ELSE IF look[c].round = 1 THEN "locating"
          ELSE "unstable") \in LookupPlaces
    BY DEF LookupPlaces, Waiting
  <2>3. 0 \in 0..MaxRestarts /\ -1 \in Int /\ 0 \in 0..1
    BY LookupAssumption
  <2> QED BY <1>2, <2>1, <2>2, <2>3 DEF LookState
<1> HIDE DEF l
<1>4. CASE matches
  <2>1. l.pc \in {"found", "error"}
    BY <1>3, <1>4
  <2> QED BY <1>1, <1>2, <1>3, <1>4, <2>1, FetchEndsKeeps
<1>5. CASE ~matches
  <2>1. l.pc \in {"locating", "unstable"}
    BY <1>3, <1>5
  <2> QED BY <1>1, <1>3, <1>5, <2>1, InvalidateKeeps
<1> QED BY <1>4, <1>5

LEMMA LookupStuttering == ASSUME LookupInv, UNCHANGED lookupVars PROVE LookupInv'
BY DEF lookupVars, LookupInv, LookupTypeOK, Registered, Generations, Maps, Waiters, Awaits,
     ReadsFrom, Holds, Running,
       Current, Reached, activeScans, activeLocates, isExhausted

\* The inductive invariant: every step of a lookup, a dataset or the clock keeps
\* what is registered, generated, shared and awaited.
LEMMA LookupInvariant == LookupSpec => []LookupInv
<1>1. LookupInv /\ [LookupNext]_lookupVars => LookupInv'
  <2> SUFFICES ASSUME LookupInv, [LookupNext]_lookupVars PROVE LookupInv'
    OBVIOUS
  <2>1. ASSUME NEW c \in Lookups, LookupStep(c) PROVE LookupInv'
    BY <2>1, BeginLookupKeeps, LocateKeeps, WokenKeeps, ScanPageKeeps, SettleKeeps,
       ScanFailsKeeps, FetchKeeps, FetchFailsKeeps DEF LookupStep
  <2>2. ASSUME NEW d \in Datasets, Change(d) \/ Age(d) PROVE LookupInv'
    BY <2>2, ChangeKeeps, AgeKeeps
  <2> QED BY <2>1, <2>2, LookupStuttering DEF LookupNext
<1> QED BY <1>1, LookupInitially, PTL DEF LookupSpec

\* Every part of a lookup's state keeps its type; with it the offsets, counts and
\* generations that locateAd computes (dataset-lookup.ts).
THEOREM LookupTypeCorrect == LookupSpec => []LookupTypeOK
<1>1. LookupInv => LookupTypeOK
  BY DEF LookupInv
<1> QED BY <1>1, LookupInvariant, PTL

\* A scan that invalidate has retired publishes nothing and does not write into
\* the published map, and when the last lookup has ended nothing but what is
\* cached is kept, however many lookups, datasets and scans there are (dataset-lookup.ts).
THEOREM RetiredNeverReturns == LookupSpec => []RetiredStaysOut
<1>1. ASSUME LookupInv PROVE RetiredStaysOut
  <2>1. ASSUME NEW d \in Datasets, cache[d] # NoEntry
        PROVE  /\ ~cache[d].retired
               /\ \A c \in activeScans(d) : scans[c].entry.retired =>
                    scans[c].entry.map # cache[d].map
    BY <1>1 DEF LookupInv, Maps, Registered, activeScans, Running
  <2>2. ASSUME \A c \in Lookups : look[c].pc \in Ended \cup {"idle"}, NEW d \in Datasets
        PROVE  inFlight[d] = NoLookup /\ (cache[d] = NoEntry => generation[d] = 0)
    <3>1. \A c \in Lookups : ~Running(c) /\ look[c].pc \notin Waiting
      BY <1>1, <2>2 DEF LookupInv, Registered, Ended, Waiting
    <3>2. inFlight[d] = NoLookup
      BY <1>1, <3>1 DEF LookupInv, LookupTypeOK, Registered
    <3>3. activeScans(d) = {} /\ activeLocates(d) = {}
      BY <3>1 DEF activeScans, activeLocates, Running
    <3> QED BY <1>1, <3>2, <3>3 DEF LookupInv, Generations
  <2> QED BY <2>1, <2>2 DEF RetiredStaysOut
<1> QED BY <1>1, LookupInvariant, PTL
-----------------------------------------------------------------------------
(* While nothing changes, what is cached and read is right.                 *)

LEMMA FirstTyped ==
  ASSUME LookupInv, NEW d \in Datasets
  PROVE  first[d] \in Seq(Ids \cup {NoId})
BY LookupAssumption DEF LookupInv, LookupTypeOK, Holdings

LEMMA MapTyped ==
  ASSUME LookupInv, NEW e \in CacheEntry, e.map # 0
  PROVE  e.map \in MapIds /\ maps[e.map] \in [Ids -> Int]
BY DEF CacheEntry, LookupInv, LookupTypeOK

\* The generation of a dataset is kept while a lookup of it is at work.
LEMMA WaitersKeepGeneration ==
  ASSUME LookupInv, NEW c \in Lookups, NEW g, generation[dataset[c]] \in {0, g},
         forgetIdle([generation EXCEPT ![dataset[c]] = g]),
         NEW w \in Lookups, look[w].pc \in {"waiting", "woken"}, look'[w].pc \in Waiting
  PROVE  generation'[dataset[w]] = generation[dataset[w]]
<1> DEFINE h == [generation EXCEPT ![dataset[c]] = g]
<1>1. dataset[w] \in Datasets /\ dataset[c] \in Datasets /\ generation[dataset[w]] # 0
  BY EntriesTyped DEF LookupInv, Waiters, Awaits, ReadsFrom
<1>2. h[dataset[w]] = generation[dataset[w]]
  BY <1>1 DEF LookupInv, LookupTypeOK
<1>3. activeLocates(dataset[w])' # {}
  BY DEF activeLocates
<1> HIDE DEF h
<1>4. generation'[dataset[w]] = h[dataset[w]]
  BY <1>1, <1>3 DEF forgetIdle, h
<1> QED BY <1>2, <1>4

\* What a right entry says of the ad a lookup is after.
LEMMA LocatedRight ==
  ASSUME LookupInv, NEW c \in Lookups, NEW e \in CacheEntry, e # NoEntry, e.map # 0,
         Right(e, dataset[c]),
         NEW o, o = offsetIn(e, target[c]), o >= 0 \/ isExhausted(e),
         NEW l, l = located(c, o, isExhausted(e))
  PROVE  /\ l.pc = "fetching" =>
              l.offset + 1 \in 1..Len(first[dataset[c]])
                /\ first[dataset[c]][l.offset + 1] = target[c]
         /\ l.pc = "missing" =>
              \A n \in 1..Len(reach(dataset[c])) : reach(dataset[c])[n] # target[c]
<1> DEFINE d == dataset[c]
           i == target[c]
           map == maps[e.map]
<1>1. d \in Datasets /\ i \in Ids /\ look[c] \in LookState
  BY EntriesTyped
<1>2. map \in [Ids -> Int] /\ RightIn(map, first[d], e) /\ first[d] \in Seq(Ids \cup {NoId})
  BY <1>1, MapTyped, FirstTyped DEF Right
<1>3. o = map[i]
  BY DEF offsetIn
<1> HIDE DEF map, i, d
<1>4. CASE map[i] >= 0
  <2>1. l = [look[c] EXCEPT !.pc = "fetching", !.offset = o, !.got = NoEntry]
    BY <1>3, <1>4 DEF located
  <2>2. l.pc = "fetching" /\ l.offset = o
    BY <1>1, <2>1 DEF LookState
  <2>3. map[i] + 1 \in 1..lesser(Len(first[d]), MaxItems) /\ first[d][map[i] + 1] = i
    BY <1>1, <1>2, <1>4 DEF RightIn
  <2>4. MaxItems \in Nat /\ Len(first[d]) \in Nat /\ map[i] \in Int
    BY <1>1, <1>2, LookupAssumption
  <2>5. map[i] + 1 \in 1..Len(first[d])
    BY <2>3, <2>4 DEF lesser
  <2> QED BY <1>3, <2>2, <2>3, <2>5 DEF d, i
<1>5. CASE ~(map[i] >= 0)
  <2>1. l = [look[c] EXCEPT !.pc = "missing", !.got = NoEntry] /\ isExhausted(e)
    BY <1>3, <1>5 DEF located
  <2>2. l.pc = "missing"
    BY <1>1, <2>1 DEF LookState
  <2>3. \A n \in 1..Len(reach(d)) : reach(d)[n] # i
    BY <1>1, <1>2, <1>5, <2>1, OutOfReach DEF reach
  <2> QED BY <2>2, <2>3 DEF d, i
<1> QED BY <1>4, <1>5

\* A step of one lookup, as LookStep, of which nothing is wrong.
LEMMA LookStepStable ==
  ASSUME LookupInv, StableInv, changes = 0, NEW c \in Lookups, NEW l \in LookState,
         look' = [look EXCEPT ![c] = l],
         UNCHANGED <<content, first, changes, maps, scans>>,
         \A d \in Datasets : cache'[d] \in {NoEntry, cache[d]},
         \A w \in Lookups \ {c} : look[w].pc \in {"waiting", "woken"} =>
           generation'[dataset[w]] = generation[dataset[w]],
         l.pc # "woken", l.pc # "unstable",
         l.pc = "waiting" => generation'[dataset[c]] = l.gen,
         l.pc = "fetching" =>
           l.offset + 1 \in 1..Len(first[dataset[c]])
             /\ first[dataset[c]][l.offset + 1] = target[c],
         l.pc = "missing" => \A n \in 1..Len(reach(dataset[c])) : reach(dataset[c])[n] # target[c]
  PROVE  StableInv'
<1>1. look'[c] = l /\ \A w \in Lookups \ {c} : look'[w] = look[w]
  BY DEF LookupInv, LookupTypeOK
<1>2. \A d \in Datasets : cache'[d] # NoEntry => Right(cache[d], d) /\ cache'[d] = cache[d]
  BY DEF StableInv
<1>3. \A w \in Lookups : Running(w) => Right(scans[w].entry, dataset[w])
  BY DEF StableInv
<1>4. ASSUME NEW w \in Lookups PROVE Unharmed(w)'
  <2>1. CASE w = c
    BY <1>1, <2>1 DEF Unharmed, reach
  <2>2. CASE w # c
    BY <1>1, <2>2 DEF StableInv, Unharmed, Right, reach
  <2> QED BY <2>1, <2>2
<1> QED BY <1>2, <1>3, <1>4 DEF StableInv, Right, Running

LEMMA BeginLookupStable ==
  ASSUME LookupInv, StableInv, changes = 0, NEW c \in Lookups, BeginLookup(c)
  PROVE  StableInv'
<1> DEFINE l == [look[c] EXCEPT !.pc = "locating"]
<1>1. l \in LookState /\ l.pc = "locating"
  BY EntriesTyped DEF LookState, LookupPlaces, Waiting
<1>2. look' = [look EXCEPT ![c] = l]
        /\ UNCHANGED <<content, first, changes, maps, cache, scans, generation>>
  BY DEF BeginLookup
<1> HIDE DEF l
<1> QED BY <1>1, <1>2, LookStepStable

LEMMA FetchFailsStable ==
  ASSUME LookupInv, StableInv, changes = 0, NEW c \in Lookups, FetchFails(c)
  PROVE  StableInv'
<1> DEFINE l == [look[c] EXCEPT !.pc = "error"]
<1>1. l \in LookState /\ l.pc = "error"
  BY EntriesTyped DEF LookState, LookupPlaces
<1>2. look' = [look EXCEPT ![c] = l]
        /\ UNCHANGED <<content, first, changes, maps, cache, scans, generation>>
  BY DEF FetchFails
<1> HIDE DEF l
<1> QED BY <1>1, <1>2, LookStepStable

\* The offset is the one of the ad: nothing is invalidated.
LEMMA FetchStable ==
  ASSUME LookupInv, StableInv, changes = 0, NEW c \in Lookups, Fetch(c)
  PROVE  StableInv'
<1> DEFINE at == look[c].offset + 1
           matches == at \in 1..Len(content[dataset[c]]) /\ content[dataset[c]][at] = target[c]
           l == [look[c] EXCEPT
                  !.offset = -1,
                  !.pc = IF matches THEN "found" ELSE IF look[c].round = 1 THEN "locating"
                    ELSE "unstable",
                  !.round = IF matches THEN look[c].round ELSE 2,
                  !.restarts = 0, !.stalls = 0]
<1>1. /\ look[c].pc = "fetching" /\ look' = [look EXCEPT ![c] = l]
      /\ IF matches THEN UNCHANGED <<cache, cacheOrder, generation, generationCounter, scans>>
         ELSE invalidate(dataset[c])
      /\ UNCHANGED <<content, first, changes, maps, inFlight>>
  BY Zenon DEF Fetch
<1>2. content = first
  BY DEF StableInv
<1>3. matches
  BY <1>1, <1>2 DEF StableInv, Unharmed
<1> HIDE DEF matches
<1>4. l \in LookState /\ l.pc = "found"
  <2>1. look[c] \in LookState /\ look[c].round \in 1..2 /\ 0 \in 0..MaxRestarts /\ -1 \in Int
          /\ 0 \in 0..1
    BY EntriesTyped, LookupAssumption DEF LookState
  <2>2. l = [look[c] EXCEPT !.offset = -1, !.pc = "found", !.round = look[c].round,
                            !.restarts = 0, !.stalls = 0]
    BY <1>3
  <2> HIDE DEF l
  <2> QED BY <2>1, <2>2 DEF LookState, LookupPlaces
<1>5. UNCHANGED <<cache, generation, scans>>
  BY <1>1, <1>3
<1> HIDE DEF l
<1> QED BY <1>1, <1>4, <1>5, LookStepStable

LEMMA AgeStable ==
  ASSUME LookupInv, StableInv, changes = 0, NEW d \in Datasets, Age(d)
  PROVE  StableInv'
<1>1. /\ cache[d] # NoEntry /\ cache' = [cache EXCEPT ![d] = [cache[d] EXCEPT !.old = TRUE]]
      /\ UNCHANGED <<content, first, changes, maps, generation, scans, look>>
  BY DEF Age
<1>2. /\ cache'[d].map = cache[d].map /\ cache'[d].scanned = cache[d].scanned
      /\ cache'[d].complete = cache[d].complete
      /\ \A k \in Datasets \ {d} : cache'[k] = cache[k]
  BY <1>1, EntriesTyped DEF LookupInv, LookupTypeOK, CacheEntry
<1>3. RightIn(maps[cache[d].map], first[d], cache[d])
  BY <1>1 DEF StableInv, Right
<1>4. RightIn(maps[cache'[d].map], first[d], cache'[d])
  BY <1>2, <1>3, SameRight
<1>5. \A k \in Datasets : cache'[k] # NoEntry => RightIn(maps[cache'[k].map], first[k], cache'[k])
  BY <1>2, <1>4 DEF StableInv, Right
<1> QED BY <1>1, <1>5 DEF StableInv, Unharmed, Right, Running, reach

\* While nothing changes, a scan a lookup awaited is of its generation, and has
\* read further or to the end.
LEMMA WokenStable ==
  ASSUME LookupInv, StableInv, changes = 0, NEW c \in Lookups, Woken(c)
  PROVE  StableInv'
<1> DEFINE w == look[c]
           offset == offsetIn(w.got, target[c])
           over == isExhausted(w.got)
           again == [w EXCEPT !.pc = "locating", !.got = NoEntry]
           l == IF offset >= 0 \/ over THEN located(c, offset, over)
                ELSE [again EXCEPT !.stalls = 0]
<1> USE LookupAssumption, Nothing
<1>1. /\ w \in LookState /\ w.pc = "woken" /\ w.got \in CacheEntry /\ w.got.map # 0 /\ w.stalls = 0
      /\ Reached(w.before, w.got) /\ w.got.scanned \in Nat /\ w.before \in Nat
      /\ dataset[c] \in Datasets /\ target[c] \in Ids /\ generation[dataset[c]] = w.gen
      /\ Right(w.got, dataset[c])
  BY EntriesTyped DEF LookupInv, Waiters, Awaits, ReadsFrom, Woken, StableInv, Unharmed
<1>2. w.got # NoEntry
  BY <1>1
<1>3. ~over => w.got.scanned > w.before
  BY <1>1, <1>2 DEF Reached, isExhausted
<1>4. look' = [look EXCEPT ![c] = l]
  BY <1>1, <1>3 DEF Woken
<1>5. again \in LookState
  BY <1>1 DEF LookState, LookupPlaces, Waiting
<1>6. offset \in Int
  BY <1>1, <1>2, OffsetTyped
<1>7. /\ UNCHANGED <<content, first, changes, maps, cache, scans>>
      /\ forgetIdle(generation)
  BY DEF Woken
<1>8. \A b \in Lookups \ {c} : look[b].pc \in {"waiting", "woken"} =>
        generation'[dataset[b]] = generation[dataset[b]]
  <2> SUFFICES ASSUME NEW b \in Lookups \ {c}, look[b].pc \in {"waiting", "woken"}
               PROVE  generation'[dataset[b]] = generation[dataset[b]]
    OBVIOUS
  <2>1. look'[b].pc \in Waiting
    BY <1>4 DEF LookupInv, LookupTypeOK, Waiting
  <2>2. forgetIdle([generation EXCEPT ![dataset[c]] = generation[dataset[c]]])
    BY <1>7, SameGeneration
  <2> HIDE DEF l, w
  <2> QED BY <2>1, <2>2, WaitersKeepGeneration
<1>9. CASE offset >= 0 \/ over
  <2>1. l = located(c, offset, over) /\ over \in BOOLEAN
    BY <1>9 DEF isExhausted
  <2>2. l \in LookState /\ l.pc \in {"fetching", "missing"}
    <3> HIDE DEF l, offset, over
    <3> QED BY <2>1, <1>6, LocatedTyped
  <2>3. /\ l.pc = "fetching" =>
             l.offset + 1 \in 1..Len(first[dataset[c]])
               /\ first[dataset[c]][l.offset + 1] = target[c]
        /\ l.pc = "missing" => \A n \in 1..Len(reach(dataset[c])) : reach(dataset[c])[n] # target[c]
    <3> HIDE DEF l
    <3> QED BY <1>1, <1>2, <1>9, <2>1, LocatedRight
  <2> HIDE DEF l
  <2> QED BY <1>4, <1>7, <1>8, <2>2, <2>3, LookStepStable
<1>10. CASE ~(offset >= 0 \/ over)
  <2>1. l = [again EXCEPT !.stalls = 0] /\ again.pc = "locating"
    BY <1>1, <1>10 DEF LookState
  <2>2. l \in LookState /\ l.pc = "locating"
    <3> HIDE DEF again, l
    <3> QED BY <2>1, <1>5 DEF LookState, LookupPlaces
  <2> HIDE DEF l
  <2> QED BY <1>4, <1>7, <1>8, <2>2, LookStepStable
<1> QED BY <1>9, <1>10
LEMMA LocateKnownStable ==
  ASSUME LookupInv, StableInv, changes = 0, NEW c \in Lookups, Locate(c),
         UNCHANGED <<scans, inFlight, maps>>
  PROVE  StableInv'
<1> DEFINE d == dataset[c]
           e == purged[d]
           g == IF generation[d] = 0 THEN generationCounter + 1 ELSE generation[d]
<1>1. d \in Datasets /\ target[c] \in Ids /\ look[c].pc = "locating" /\ ~Running(c)
  BY EntriesTyped DEF LookupInv, Registered, Locate
<1>2. e \in CacheEntry /\ offsetIn(e, target[c]) \in Int /\ e.scanned \in 0..MaxItems
        /\ e \in {NoEntry, cache[d]}
  BY <1>1, PurgedTyped DEF CacheEntry
<1>3. g \in Nat \ {0} /\ generation[d] \in {0, g}
  <2>1. generationCounter \in Nat /\ generation[d] \in 0..generationCounter
    BY <1>1 DEF LookupInv, LookupTypeOK
  <2> HIDE DEF d
  <2> QED BY <2>1
<1>4. isExhausted(e) \in BOOLEAN
  BY DEF isExhausted
<1>5. /\ cache' = purged /\ forgetIdle([generation EXCEPT ![d] = g])
      /\ UNCHANGED <<content, first, changes, maps, scans>>
  BY DEF Locate
<1>6. \A k \in Datasets : cache'[k] \in {NoEntry, cache[k]}
  BY <1>5, PurgedTyped
<1>7. \/ /\ offsetIn(e, target[c]) >= 0 \/ isExhausted(e)
         /\ look' = [look EXCEPT ![c] = located(c, offsetIn(e, target[c]), isExhausted(e))]
      \/ /\ mayJoin(d, g)
         /\ look' = [look EXCEPT ![c] = waitsOn(c, g, e.scanned, inFlight[d])]
      \/ scans' = [scans EXCEPT ![c] =
              [running |-> TRUE, returned |-> FALSE, gen |-> g,
               entry |-> IF e = NoEntry THEN [NoEntry EXCEPT !.map = freshMap] ELSE e]]
  BY LocateCases
<1>8. ASSUME NEW l \in LookState, look' = [look EXCEPT ![c] = l]
      PROVE  \A b \in Lookups \ {c} : look[b].pc \in {"waiting", "woken"} =>
               generation'[dataset[b]] = generation[dataset[b]]
  <2> SUFFICES ASSUME NEW b \in Lookups \ {c}, look[b].pc \in {"waiting", "woken"}
               PROVE  generation'[dataset[b]] = generation[dataset[b]]
    OBVIOUS
  <2>1. look'[b].pc \in Waiting
    BY <1>8 DEF LookupInv, LookupTypeOK, Waiting
  <2> HIDE DEF g
  <2> QED BY <2>1, <1>3, <1>5, WaitersKeepGeneration
<1> HIDE DEF e, g
<1>9. CASE /\ offsetIn(e, target[c]) >= 0 \/ isExhausted(e)
           /\ look' = [look EXCEPT ![c] = located(c, offsetIn(e, target[c]), isExhausted(e))]
  <2> DEFINE o == offsetIn(e, target[c])
             l == located(c, o, isExhausted(e))
  <2>1. l \in LookState /\ l.pc \in {"fetching", "missing"}
    BY <1>2, <1>4, LocatedTyped
  <2>2. e # NoEntry
    BY <1>9 DEF offsetIn, isExhausted
  <2>3. e.map # 0 /\ Right(e, d)
    BY <1>1, <1>2, <2>2 DEF LookupInv, Maps, StableInv
  <2>4. /\ l.pc = "fetching" =>
             l.offset + 1 \in 1..Len(first[dataset[c]])
               /\ first[dataset[c]][l.offset + 1] = target[c]
        /\ l.pc = "missing" => \A n \in 1..Len(reach(dataset[c])) : reach(dataset[c])[n] # target[c]
    BY <1>2, <1>9, <2>2, <2>3, LocatedRight
  <2>5. look' = [look EXCEPT ![c] = l]
    BY <1>9
  <2> HIDE DEF l, d
  <2> QED BY <1>5, <1>6, <1>8, <2>1, <2>4, <2>5, LookStepStable
<1>10. CASE mayJoin(d, g) /\ look' = [look EXCEPT ![c] = waitsOn(c, g, e.scanned, inFlight[d])]
  <2> DEFINE l == waitsOn(c, g, e.scanned, inFlight[d])
  <2>1. inFlight[d] \in Lookups
    BY <1>3, <1>10, Joining
  <2>2. l \in LookState /\ l.pc = "waiting" /\ l.gen = g
    BY <1>2, <1>3, <2>1, WaitsTyped
  <2>3. look' = [look EXCEPT ![c] = l]
    BY <1>10
  <2> HIDE DEF l
  <2>4. activeLocates(d)' # {}
    BY <2>2, <2>3 DEF activeLocates, LookupInv, LookupTypeOK, Waiting
  <2>5. generation'[d] = [generation EXCEPT ![d] = g][d]
    BY <1>1, <1>5, <2>4 DEF forgetIdle
  <2>6. generation'[dataset[c]] = g
    BY <1>1, <2>5 DEF LookupInv, LookupTypeOK
  <2> HIDE DEF d
  <2> QED BY <1>5, <1>6, <1>8, <2>2, <2>3, <2>6, LookStepStable
<1>11. CASE scans' = [scans EXCEPT ![c] =
              [running |-> TRUE, returned |-> FALSE, gen |-> g,
               entry |-> IF e = NoEntry THEN [NoEntry EXCEPT !.map = freshMap] ELSE e]]
  <2>1. scans[c].running
    BY <1>11, EntriesTyped DEF LookupInv, LookupTypeOK
  <2> QED BY <1>1, <2>1 DEF Running
<1> QED BY <1>7, <1>9, <1>10, <1>11

LEMMA LocateScansStable ==
  ASSUME LookupInv, StableInv, changes = 0, NEW c \in Lookups, Locate(c),
         ~UNCHANGED <<scans, inFlight, maps>>
  PROVE  StableInv'
<1> DEFINE d == dataset[c]
           e == purged[d]
           g == IF generation[d] = 0 THEN generationCounter + 1 ELSE generation[d]
           from == IF e = NoEntry THEN [NoEntry EXCEPT !.map = freshMap] ELSE e
           new == [running |-> TRUE, returned |-> FALSE, gen |-> g, entry |-> from]
           l == waitsOn(c, g, e.scanned, c)
<1> USE Nothing
<1>1. d \in Datasets /\ look[c].pc = "locating" /\ ~Running(c)
  BY EntriesTyped DEF LookupInv, Registered, Locate
<1>2. /\ look' = [look EXCEPT ![c] = l]
      /\ scans' = [scans EXCEPT ![c] = new]
      /\ maps' = IF e = NoEntry THEN [maps EXCEPT ![from.map] = NoMap] ELSE maps
  BY LocateCases
<1>3. /\ cache' = purged /\ forgetIdle([generation EXCEPT ![d] = g])
      /\ UNCHANGED <<content, first, changes>>
  BY DEF Locate
<1>4. g \in Nat \ {0} /\ generation[d] \in {0, g}
  <2>1. generationCounter \in Nat /\ generation[d] \in 0..generationCounter
    BY <1>1 DEF LookupInv, LookupTypeOK
  <2> HIDE DEF d
  <2> QED BY <2>1
<1>5. e \in CacheEntry /\ e \in {NoEntry, cache[d]} /\ e.scanned \in 0..MaxItems
      /\ (e # NoEntry => e.map \in MapIds)
  BY <1>1, PurgedTyped DEF CacheEntry
<1>6. /\ freshMap \in MapIds /\ \A k \in Datasets : cache[k].map # freshMap
      /\ \A b \in Lookups : ~(Running(b) /\ scans[b].entry.map = freshMap)
           /\ look[b].got.map # freshMap
  BY <1>1, FreshMap
<1>7. l \in LookState /\ l.pc = "waiting" /\ l.gen = g
  BY <1>4, <1>5, WaitsTyped
<1>8. \A k \in Datasets : cache'[k] \in {NoEntry, cache[k]}
  BY <1>3, PurgedTyped
<1>9. new.running /\ new.entry = from
  OBVIOUS
<1>10. /\ e = NoEntry => /\ from.map = freshMap /\ from.scanned = 0 /\ ~from.complete
                         /\ maps'[freshMap] = NoMap
       /\ e # NoEntry => from = e /\ maps' = maps
       /\ \A m \in MapIds : m # freshMap => maps'[m] = maps[m]
  <2>1. CASE e = NoEntry
    <3>1. from = [NoEntry EXCEPT !.map = freshMap]
      BY <2>1
    <3>2. from.map = freshMap /\ from.scanned = 0 /\ ~from.complete
      BY <3>1 DEF NoEntry
    <3>3. maps' = [maps EXCEPT ![freshMap] = NoMap]
      BY <1>2, <2>1, <3>2
    <3> HIDE DEF from, e
    <3> QED BY <2>1, <3>2, <3>3, <1>6 DEF LookupInv, LookupTypeOK
  <2>2. CASE e # NoEntry
    BY <1>2, <2>2
  <2> QED BY <2>1, <2>2
<1> HIDE DEF e, g, from, new, l
<1>11. /\ look'[c] = l /\ \A w \in Lookups \ {c} : look'[w] = look[w]
       /\ scans'[c] = new /\ \A w \in Lookups \ {c} : scans'[w] = scans[w]
  BY <1>1, <1>2 DEF LookupInv, LookupTypeOK
<1>12. RightIn(maps'[from.map], first[d], from)
  <2>1. CASE e = NoEntry
    BY <1>1, <1>10, <2>1, FirstTyped, EmptyRight
  <2>2. CASE e # NoEntry
    BY <1>1, <1>5, <1>10, <2>2 DEF StableInv, Right
  <2> QED BY <2>1, <2>2
<1>13. ASSUME NEW k \in Datasets, cache'[k] # NoEntry
       PROVE  RightIn(maps'[cache'[k].map], first[k], cache'[k])
  <2>1. cache'[k] = cache[k] /\ cache[k].map \in MapIds /\ cache[k].map # freshMap
    BY <1>6, <1>8, <1>13, EntriesTyped, MapTyped DEF LookupInv, Maps
  <2> QED BY <1>10, <1>13, <2>1 DEF StableInv, Right
<1>14. ASSUME NEW b \in Lookups, scans'[b].running
       PROVE  RightIn(maps'[scans'[b].entry.map], first[dataset[b]], scans'[b].entry)
  <2>1. CASE b = c
    BY <1>9, <1>11, <1>12, <2>1
  <2>2. CASE b # c
    <3>1. scans'[b] = scans[b] /\ Running(b)
      BY <1>11, <1>14, <2>2 DEF Running
    <3>2. scans[b].entry.map \in MapIds /\ scans[b].entry.map # freshMap
      BY <1>6, <3>1, EntriesTyped, MapTyped DEF LookupInv, Maps
    <3> QED BY <1>10, <3>1, <3>2 DEF StableInv, Right
  <2> QED BY <2>1, <2>2
<1>15. \A w \in Lookups : look'[w].pc \in {"waiting", "woken"} =>
         generation'[dataset[w]] = look'[w].gen
  <2> SUFFICES ASSUME NEW w \in Lookups, look'[w].pc \in {"waiting", "woken"}
               PROVE  generation'[dataset[w]] = look'[w].gen
    OBVIOUS
  <2>1. CASE w = c
    <3>1. activeLocates(d)' # {}
      BY <1>7, <1>11 DEF activeLocates, Waiting
    <3>2. generation'[d] = [generation EXCEPT ![d] = g][d]
      BY <1>1, <1>3, <3>1 DEF forgetIdle
    <3> QED BY <1>1, <1>7, <1>11, <2>1, <3>2 DEF LookupInv, LookupTypeOK
  <2>2. CASE w # c
    <3>1. look'[w] = look[w] /\ look[w].pc \in {"waiting", "woken"} /\ look'[w].pc \in Waiting
      BY <1>11, <2>2 DEF Waiting
    <3>2. generation'[dataset[w]] = generation[dataset[w]]
      BY <1>3, <1>4, <3>1, WaitersKeepGeneration
    <3> QED BY <3>1, <3>2 DEF StableInv, Unharmed
  <2> QED BY <2>1, <2>2
<1>16. ASSUME NEW w \in Lookups PROVE Unharmed(w)'
  <2>1. CASE w = c
    BY <1>7, <1>11, <1>15, <2>1 DEF Unharmed, reach
  <2>2. CASE w # c
    <3>1. look'[w] = look[w]
      BY <1>11, <2>2
    <3>2. look[w].pc = "woken" => RightIn(maps'[look[w].got.map], first[dataset[w]], look[w].got)
      <4> SUFFICES ASSUME look[w].pc = "woken"
                   PROVE  RightIn(maps'[look[w].got.map], first[dataset[w]], look[w].got)
        OBVIOUS
      <4>1. look[w].got.map \in MapIds /\ look[w].got.map # freshMap
        BY <1>6, EntriesTyped, MapTyped DEF LookupInv, Waiters, Awaits, ReadsFrom
      <4> QED BY <1>10, <4>1 DEF StableInv, Unharmed, Right
    <3> QED BY <1>3, <1>15, <3>1, <3>2 DEF StableInv, Unharmed, Right, reach
  <2> QED BY <2>1, <2>2
<1> QED BY <1>3, <1>13, <1>14, <1>16 DEF StableInv, Right, Running

\* Others who hold the map see it grow.
LEMMA GrownRight ==
  ASSUME NEW map, NEW new, NEW held, NEW e, NEW f, RightIn(map, held, e), RightIn(new, held, f),
         \A i \in Ids : map[i] >= 0 => new[i] = map[i]
  PROVE  RightIn(new, held, e)
BY DEF RightIn

LEMMA ScanPageStable ==
  ASSUME LookupInv, StableInv, changes = 0, NEW c \in Lookups, ScanPage(c)
  PROVE  StableInv'
<1> DEFINE d == dataset[c]
           m == scans[c].entry.map
           new == scans'[c]
<1>1. /\ UNCHANGED <<content, first, changes, cache, generation, look>> /\ content = first
  BY DEF ScanPage, StableInv
<1>2. /\ Running(c) /\ scans' = [scans EXCEPT ![c] = new] /\ new.entry.map = m
      /\ \A n \in MapIds \ {m} : maps'[n] = maps[n]
  BY PageStep
<1>3. d \in Datasets /\ m \in MapIds /\ Right(scans[c].entry, d)
  BY <1>2, EntriesTyped, MapTyped DEF LookupInv, Maps, StableInv
<1>4. RightIn(maps'[m], first[d], new.entry) /\ \A i \in Ids : maps[m][i] >= 0 =>
        maps'[m][i] = maps[m][i]
  BY <1>1, <1>3, PageStep
<1> HIDE DEF new
<1>5. scans'[c] = new /\ \A b \in Lookups \ {c} : scans'[b] = scans[b]
  BY <1>2 DEF LookupInv, LookupTypeOK
<1>6. Holds(m, d)
  BY <1>2 DEF Holds
<1> HIDE DEF m
<1>7. ASSUME NEW k \in Datasets, NEW e, NEW n \in MapIds, Holds(n, k), RightIn(maps[n], first[k], e)
      PROVE  RightIn(maps'[n], first[k], e)
  <2>1. CASE n = m
    <3>1. k = d
      BY <1>3, <1>6, <1>7, <2>1 DEF LookupInv, Maps
    <3> QED BY <1>4, <1>7, <2>1, <3>1, GrownRight
  <2>2. CASE n # m
    BY <1>2, <1>7, <2>2
  <2> QED BY <2>1, <2>2
<1>8. ASSUME NEW k \in Datasets, cache[k] # NoEntry
      PROVE  RightIn(maps'[cache[k].map], first[k], cache[k])
  <2>1. cache[k].map \in MapIds /\ Holds(cache[k].map, k)
    BY <1>8, EntriesTyped, MapTyped DEF LookupInv, Maps, Holds
  <2> QED BY <1>7, <1>8, <2>1 DEF StableInv, Right
<1>9. ASSUME NEW b \in Lookups, scans'[b].running
      PROVE  RightIn(maps'[scans'[b].entry.map], first[dataset[b]], scans'[b].entry)
  <2>1. CASE b = c
    BY <1>2, <1>4, <1>5, <2>1
  <2>2. CASE b # c
    <3>1. scans'[b] = scans[b] /\ Running(b) /\ dataset[b] \in Datasets
      BY <1>5, <1>9, <2>2, EntriesTyped DEF Running
    <3>2. scans[b].entry.map \in MapIds /\ Holds(scans[b].entry.map, dataset[b])
      BY <3>1, EntriesTyped, MapTyped DEF LookupInv, Maps, Holds
    <3>3. RightIn(maps[scans[b].entry.map], first[dataset[b]], scans[b].entry)
      BY <3>1 DEF StableInv, Right
    <3> QED BY <1>7, <3>1, <3>2, <3>3
  <2> QED BY <2>1, <2>2
<1>10. ASSUME NEW w \in Lookups, look[w].pc = "woken"
       PROVE  RightIn(maps'[look[w].got.map], first[dataset[w]], look[w].got)
  <2>1. look[w].got.map \in MapIds /\ Holds(look[w].got.map, dataset[w]) /\ dataset[w] \in Datasets
    BY <1>10, EntriesTyped, MapTyped DEF LookupInv, Waiters, Awaits, ReadsFrom, Holds
  <2>2. RightIn(maps[look[w].got.map], first[dataset[w]], look[w].got)
    BY <1>10 DEF StableInv, Unharmed, Right
  <2> QED BY <1>7, <2>1, <2>2
<1>11. ASSUME NEW w \in Lookups PROVE Unharmed(w)'
  BY <1>1, <1>10 DEF StableInv, Unharmed, Right, reach
<1> QED BY <1>1, <1>8, <1>9, <1>11 DEF StableInv, Right, Running

LEMMA ScanEndsStable ==
  ASSUME LookupInv, StableInv, changes = 0, NEW c \in Lookups, Running(c),
         unregister(c), forgetIdle(generation), UNCHANGED <<content, first, changes, maps>>,
         \A w \in Lookups : ~(look[w].pc = "waiting" /\ look[w].on = c) => look'[w] = look[w],
         \A w \in Lookups : look[w].pc = "waiting" /\ look[w].on = c =>
           /\ look'[w].gen = look[w].gen
           /\ \/ look'[w].pc = "woken" /\ look'[w].got = scans[c].entry
              \/ look'[w].pc = "error",
         \A d \in Datasets :
           \/ cache'[d] \in {NoEntry, cache[d]}
           \/ d = dataset[c] /\ cache'[d] = scans[c].entry
  PROVE  StableInv'
<1>1. \A b \in Lookups : scans'[b].running => Running(b) /\ scans'[b] = scans[b]
  BY Nothing DEF unregister, LookupInv, LookupTypeOK, Running
<1>2. Right(scans[c].entry, dataset[c])
  BY DEF StableInv
<1>3. ASSUME NEW d \in Datasets, cache'[d] # NoEntry
      PROVE  RightIn(maps[cache'[d].map], first[d], cache'[d])
  BY <1>2, <1>3 DEF StableInv, Right
<1>4. ASSUME NEW b \in Lookups, scans'[b].running
      PROVE  RightIn(maps[scans'[b].entry.map], first[dataset[b]], scans'[b].entry)
  BY <1>1, <1>4 DEF StableInv, Right
<1>5. ASSUME NEW w \in Lookups PROVE Unharmed(w)'
  <2>1. look'[w].pc \in {"waiting", "woken"} => generation'[dataset[w]] = generation[dataset[w]]
    <3> SUFFICES ASSUME look'[w].pc \in {"waiting", "woken"}
                 PROVE  generation'[dataset[w]] = generation[dataset[w]]
      OBVIOUS
    <3>1. dataset[w] \in Datasets /\ activeLocates(dataset[w])' # {}
      BY EntriesTyped DEF activeLocates, Waiting
    <3> QED BY <3>1 DEF forgetIdle
  <2>2. CASE look[w].pc = "waiting" /\ look[w].on = c
    <3>1. dataset[w] = dataset[c]
      BY <2>2 DEF LookupInv, Waiters, Awaits, ReadsFrom
    <3>2. generation[dataset[w]] = look[w].gen
      BY <2>2 DEF StableInv, Unharmed
    <3> QED BY <1>2, <2>1, <2>2, <3>1, <3>2 DEF Unharmed, Right
  <2>3. CASE ~(look[w].pc = "waiting" /\ look[w].on = c)
    <3>1. look'[w] = look[w]
      BY <2>3
    <3> QED BY <2>1, <3>1 DEF StableInv, Unharmed, Right, reach
  <2> QED BY <2>2, <2>3
<1> QED BY <1>3, <1>4, <1>5 DEF StableInv, Right, Running

LEMMA SettleStable ==
  ASSUME LookupInv, StableInv, changes = 0, NEW c \in Lookups, Settle(c)
  PROVE  StableInv'
<1>1. /\ Running(c) /\ unregister(c) /\ forgetIdle(generation)
      /\ UNCHANGED <<content, first, changes, maps>>
      /\ look' = [w \in Lookups |-> IF look[w].pc = "waiting" /\ look[w].on = c
                    THEN [look[w] EXCEPT !.pc = "woken", !.on = NoLookup, !.got = scans[c].entry]
                    ELSE look[w]]
      /\ IF mayPublish(c) THEN putCache(dataset[c], scans[c].entry) ELSE cache' = cache
  BY DEF Settle, Running
<1>2. \A w \in Lookups : look[w].pc = "waiting" /\ look[w].on = c =>
        look'[w].gen = look[w].gen /\ look'[w].pc = "woken" /\ look'[w].got = scans[c].entry
  BY <1>1, EntriesTyped DEF LookState
<1>3. \A w \in Lookups : ~(look[w].pc = "waiting" /\ look[w].on = c) => look'[w] = look[w]
  BY <1>1
<1>4. \A d \in Datasets : \/ cache'[d] \in {NoEntry, cache[d]}
                          \/ d = dataset[c] /\ cache'[d] = scans[c].entry
  <2>1. dataset[c] \in Datasets /\ scans[c].entry \in CacheEntry
    BY EntriesTyped
  <2>2. CASE mayPublish(c)
    BY <1>1, <2>1, <2>2, PutTyped
  <2>3. CASE ~mayPublish(c)
    BY <1>1, <2>3
  <2> QED BY <2>2, <2>3
<1> QED BY <1>1, <1>2, <1>3, <1>4, ScanEndsStable

LEMMA ScanFailsStable ==
  ASSUME LookupInv, StableInv, changes = 0, NEW c \in Lookups, ScanFails(c)
  PROVE  StableInv'
<1>1. /\ Running(c) /\ unregister(c) /\ forgetIdle(generation)
      /\ UNCHANGED <<content, first, changes, maps, cache>>
      /\ look' = [w \in Lookups |-> IF look[w].pc = "waiting" /\ look[w].on = c
                    THEN [look[w] EXCEPT !.pc = "error", !.on = NoLookup] ELSE look[w]]
  BY DEF ScanFails, Running
<1>2. \A w \in Lookups : look[w].pc = "waiting" /\ look[w].on = c =>
        look'[w].gen = look[w].gen /\ look'[w].pc = "error"
  BY <1>1, EntriesTyped DEF LookState
<1>3. \A w \in Lookups : ~(look[w].pc = "waiting" /\ look[w].on = c) => look'[w] = look[w]
  BY <1>1
<1>4. \A d \in Datasets : cache'[d] \in {NoEntry, cache[d]}
  BY <1>1
<1> QED BY <1>1, <1>2, <1>3, <1>4, ScanEndsStable

\* What is cached and read is right as long as nothing changes; from the first
\* change on nothing is claimed.
LEMMA StableInitially == LookupInit => StableInv
BY Nothing DEF LookupInit, StableInv, Unharmed, Running

LEMMA StableStep == ASSUME LookupInv, StableInv, [LookupNext]_lookupVars PROVE StableInv'
<1>1. CASE changes' # 0
  BY <1>1 DEF StableInv
<1>2. CASE changes' = 0
  <2>1. changes \in Nat
    BY LookupAssumption DEF LookupInv, LookupTypeOK
  <2>2. ASSUME NEW d \in Datasets, Change(d) PROVE FALSE
    BY <1>2, <2>1, <2>2 DEF Change
  <2>3. ASSUME NEW c \in Lookups, LookupStep(c) PROVE changes = 0
    BY <1>2, <2>3 DEF LookupStep, BeginLookup, Locate, Woken, ScanPage, Settle, ScanFails, Fetch,
                      FetchFails
  <2>4. ASSUME NEW d \in Datasets, Age(d) PROVE changes = 0
    BY <1>2, <2>4 DEF Age
  <2>5. ASSUME NEW c \in Lookups, LookupStep(c) PROVE StableInv'
    BY <2>3, <2>5, BeginLookupStable, LocateKnownStable, LocateScansStable, WokenStable,
       ScanPageStable, SettleStable, ScanFailsStable, FetchStable, FetchFailsStable DEF LookupStep
  <2>6. CASE UNCHANGED lookupVars
    BY <2>6 DEF lookupVars, StableInv, Unharmed, Right, Running, reach
  <2> QED BY <2>2, <2>4, <2>5, <2>6, AgeStable DEF LookupNext
<1> QED BY <1>1, <1>2

\* While the datasets stay as they are no lookup gives up on an ad that is within
\* reach of the scans, whoever read it and however often the scans were resumed,
\* shared, dropped from the cache or failed (dataset-lookup.ts).
THEOREM WhatStaysIsFound == LookupSpec => []StableIsFound
<1>1. LookupInv /\ StableInv /\ LookupInv' /\ [LookupNext]_lookupVars => StableInv'
  BY StableStep
<1>2. StableInv => StableIsFound
  BY DEF StableInv, Unharmed, StableIsFound
<1>3. LookupSpec => []StableInv
  BY <1>1, StableInitially, LookupInvariant, PTL DEF LookupSpec
<1> QED BY <1>2, <1>3, PTL
=============================================================================
