---------------------------- MODULE DatasetLookup ----------------------------
(* Locating scraped ads in Apify datasets: calls that share cached partial  *)
(* id -> offset maps and running scans, while the datasets may change       *)
(* (src/src/apify/dataset-lookup.ts). A map is an object: a scan that       *)
(* resumes a cached one writes into the very map the cache holds. The       *)
(* counters activeScans and activeLocates are the cardinalities of the sets *)
(* of those names; the passing of an entry's time to live is its "old".     *)
EXTENDS Integers, Sequences, FiniteSets

CONSTANTS
  Lookups,         \* calls of findDatasetItem
  NoLookup,
  Datasets, dataset,   \* lookup -> its dataset (a cache key)
  Ids, target,     \* lookup -> the ad it looks for
  NoId,            \* an item without a well-formed id
  Contents,        \* dataset -> what it may hold: sequences of ids
  PageSize, MaxItems, MaxDatasets, MaxTotalIds, MaxRestarts,
  MaxChanges       \* bound: changes of the datasets

ASSUME LookupAssumption ==
  /\ IsFiniteSet(Lookups) /\ NoLookup \notin Lookups
  /\ IsFiniteSet(Datasets) /\ dataset \in [Lookups -> Datasets]
  /\ NoId \notin Ids /\ target \in [Lookups -> Ids]
  /\ Contents \in [Datasets -> SUBSET Seq(Ids \cup {NoId})]
  /\ PageSize \in Nat \ {0} /\ MaxItems \in Nat \ {0} /\ MaxDatasets \in Nat
  /\ MaxTotalIds \in Nat /\ MaxRestarts \in Nat /\ MaxChanges \in Nat

VARIABLES
  content,         \* dataset -> what it holds now, at Apify
  first,           \* history: dataset -> what it held at first
  changes,
  maps,            \* map object -> [Ids -> offset, or -1]
  cache,           \* dataset -> entry, or NoEntry
  cacheOrder,      \* the cached datasets in the order they were put
  generation,      \* dataset -> its generation, 0 when it has none
  generationCounter,
  scans,           \* lookup -> the scan it started, or NoScan
  inFlight,        \* dataset -> the lookup whose scan is registered, or NoLookup
  look             \* lookup -> [pc, round, gen, before, on, got, offset, restarts, stalls]

lookupVars == <<content, first, changes, maps, cache, cacheOrder, generation,
                generationCounter, scans, inFlight, look>>

MapIds == 1..(2 * Cardinality(Lookups) + Cardinality(Datasets))
NoMap == [i \in Ids |-> -1]
NoEntry == [map |-> 0, scanned |-> 0, complete |-> FALSE, old |-> FALSE, retired |-> FALSE]
NoScan == [running |-> FALSE, returned |-> FALSE, gen |-> 0, entry |-> NoEntry]
Waiting == {"locating", "waiting", "woken"}

LookupPlaces == Waiting \cup {"idle", "fetching", "found", "missing", "error", "unstable"}
CacheEntry == [map : MapIds \cup {0}, scanned : 0..MaxItems,
               complete : BOOLEAN, old : BOOLEAN, retired : BOOLEAN]
ScanState == [running : BOOLEAN, returned : BOOLEAN, gen : Nat, entry : CacheEntry]
LookState == [pc : LookupPlaces, round : 1..2, gen : Nat, before : 0..MaxItems,
              on : Lookups \cup {NoLookup}, got : CacheEntry, offset : Int,
              restarts : 0..MaxRestarts, stalls : 0..1]

Holdings == {f \in [Datasets -> UNION {Contents[d] : d \in Datasets}] :
               \A d \in Datasets : f[d] \in Contents[d]}

LookupTypeOK ==
  /\ content \in Holdings /\ first \in Holdings
  /\ changes \in 0..MaxChanges
  /\ maps \in [MapIds -> [Ids -> Int]]
  /\ cache \in [Datasets -> CacheEntry]
  /\ generationCounter \in Nat /\ generation \in [Datasets -> 0..generationCounter]
  /\ scans \in [Lookups -> ScanState]
  /\ inFlight \in [Datasets -> Lookups \cup {NoLookup}]
  /\ look \in [Lookups -> LookState]

LookupInit ==
  /\ content \in Holdings
  /\ first = content /\ changes = 0
  /\ maps = [m \in MapIds |-> NoMap]
  /\ cache = [d \in Datasets |-> NoEntry] /\ cacheOrder = <<>>
  /\ generation = [d \in Datasets |-> 0] /\ generationCounter = 0
  /\ scans = [c \in Lookups |-> NoScan]
  /\ inFlight = [d \in Datasets |-> NoLookup]
  /\ look = [c \in Lookups |-> [pc |-> "idle", round |-> 1, gen |-> 0, before |-> 0,
               on |-> NoLookup, got |-> NoEntry, offset |-> -1, restarts |-> 0, stalls |-> 0]]

activeScans(d) == {c \in Lookups : scans[c].running /\ dataset[c] = d}
activeLocates(d) == {c \in Lookups : look[c].pc \in Waiting /\ dataset[c] = d}
sizeOf(map) == Cardinality({i \in Ids : map[i] >= 0})
\* isExhausted one item before the limit.
isExhaustedEarly(e) == e # NoEntry /\ (e.complete \/ e.scanned + 1 >= MaxItems)

isExhausted(e) == e # NoEntry /\ (e.complete \/ e.scanned >= MaxItems)
offsetIn(e, i) == IF e = NoEntry THEN -1 ELSE maps[e.map][i]

\* maybeForget for every dataset, after the step: a generation is kept for a
\* cached entry, a running scan or a lookup between scans, and no longer.
forgetIdle(g) ==
  generation' = [d \in Datasets |->
    IF cache'[d] = NoEntry /\ activeScans(d)' = {} /\ activeLocates(d)' = {} THEN 0 ELSE g[d]]

\* A map object nothing refers to.
freshMap ==
  CHOOSE m \in MapIds :
    /\ \A d \in Datasets : cache[d].map # m
    /\ \A c \in Lookups : ~(scans[c].running /\ scans[c].entry.map = m) /\ look[c].got.map # m
-----------------------------------------------------------------------------
(* The loop of locate: one round of it, up to its scan.                     *)

BeginLookup(c) ==
  /\ look[c].pc = "idle"
  /\ look' = [look EXCEPT ![c].pc = "locating"]
  /\ UNCHANGED <<content, first, changes, maps, cache, cacheOrder, generation,
                 generationCounter, scans, inFlight>>

\* The order of what is cached: only what is in "entries", or all but one.
stillIn(entries) == SelectSeq(cacheOrder, LAMBDA k : entries[k] # NoEntry)
without(d) == SelectSeq(cacheOrder, LAMBDA k : k # d)

\* getCache forgets every entry that has outlived its time.
purged == [d \in Datasets |-> IF cache[d].old THEN NoEntry ELSE cache[d]]

located(c, offset, exhausted) ==
  IF offset >= 0 THEN [look[c] EXCEPT !.pc = "fetching", !.offset = offset, !.got = NoEntry]
  ELSE [look[c] EXCEPT !.pc = "missing", !.got = NoEntry]

\* scan joins the registered scan when it is of this generation.
mayJoin(d, g) == inFlight[d] # NoLookup /\ scans[inFlight[d]].gen = g

Locate(c) ==
  LET d == dataset[c]
      e == purged[d]
      g == IF generation[d] = 0 THEN generationCounter + 1 ELSE generation[d]
      waits == [look[c] EXCEPT !.pc = "waiting", !.gen = g, !.before = e.scanned, !.got = NoEntry]
  IN
  /\ look[c].pc = "locating"
  /\ cache' = purged
  /\ cacheOrder' = stillIn(purged)
  /\ generationCounter' = IF generation[d] = 0 THEN g ELSE generationCounter
  /\ IF offsetIn(e, target[c]) >= 0 \/ isExhausted(e)
     THEN /\ look' = [look EXCEPT ![c] = located(c, offsetIn(e, target[c]), isExhausted(e))]
          /\ UNCHANGED <<maps, scans, inFlight>>
     ELSE \/ /\ mayJoin(d, g)
             /\ look' = [look EXCEPT ![c] = [waits EXCEPT !.on = inFlight[d]]]
             /\ UNCHANGED <<maps, scans, inFlight>>
          \/ /\ ~mayJoin(d, g)
             /\ look' = [look EXCEPT ![c] = [waits EXCEPT !.on = c]]
             /\ inFlight' = [inFlight EXCEPT ![d] = c]
             /\ LET from == IF e = NoEntry THEN [NoEntry EXCEPT !.map = freshMap] ELSE e IN
                /\ scans' = [scans EXCEPT ![c] =
                     [running |-> TRUE, returned |-> FALSE, gen |-> g, entry |-> from]]
                /\ maps' = IF e = NoEntry THEN [maps EXCEPT ![from.map] = NoMap] ELSE maps
  /\ forgetIdle([generation EXCEPT ![d] = g])
  /\ UNCHANGED <<content, first, changes>>

\* The second scan in a row that read nothing new.
givesUp(w) == w.stalls = 1

\* After the scan: a retired one starts the round again, from the cache.
Woken(c) ==
  LET w == look[c]
      offset == offsetIn(w.got, target[c])
      progress == w.got.scanned > w.before
      over == isExhausted(w.got)
      again == [w EXCEPT !.pc = "locating", !.got = NoEntry]
  IN
  /\ w.pc = "woken"
  /\ look' = [look EXCEPT ![c] =
       CASE generation[dataset[c]] # w.gen ->
              IF w.restarts = MaxRestarts THEN [again EXCEPT !.pc = "unstable"]
              ELSE [again EXCEPT !.restarts = @ + 1]
         [] generation[dataset[c]] = w.gen /\ (offset >= 0 \/ over) -> located(c, offset, over)
         [] OTHER ->
              IF progress THEN [again EXCEPT !.stalls = 0]
              ELSE IF givesUp(w) THEN [again EXCEPT !.pc = "unstable"]
              ELSE [again EXCEPT !.stalls = 1]]
  /\ UNCHANGED <<content, first, changes, maps, cache, cacheOrder, generationCounter, scans,
       inFlight>>
  /\ forgetIdle(generation)
-----------------------------------------------------------------------------
(* A scan, page by page.                                                    *)

lesser(a, b) == IF a < b THEN a ELSE b

ScanPage(c) ==
  LET e == scans[c].entry
      held == content[dataset[c]]
      limit == lesser(PageSize, MaxItems - e.scanned)
      page == SubSeq(held, e.scanned + 1, lesser(Len(held), e.scanned + limit))
      at(i) == {n \in 1..Len(page) : page[n] = i}
      map == [i \in Ids |->
                IF maps[e.map][i] >= 0 \/ at(i) = {} THEN maps[e.map][i]
                ELSE e.scanned + (CHOOSE n \in at(i) : \A m \in at(i) : n <= m) - 1]
      next == [e EXCEPT !.scanned = @ + Len(page), !.complete = Len(page) < limit]
  IN
  /\ scans[c].running /\ ~scans[c].returned
  /\ maps' = [maps EXCEPT ![e.map] = map]
  /\ scans' = [scans EXCEPT ![c] = [@ EXCEPT
       !.entry = [next EXCEPT !.old = FALSE],
       !.returned = isExhausted(next) \/ map[target[c]] >= 0]]
  /\ UNCHANGED <<content, first, changes, cache, cacheOrder, generation, generationCounter,
                 inFlight, look>>

\* putCache: the newest entry last, then the oldest go until both limits hold.
fits(order, entries) ==
  /\ Len(order) <= MaxDatasets
  /\ LET total[n \in 0..Len(order)] ==
           IF n = 0 THEN 0 ELSE total[n - 1] + sizeOf(maps[entries[order[n]].map])
     IN  total[Len(order)] <= MaxTotalIds
fewestDropped(order, entries) ==
  CHOOSE n \in 0..Len(order) :
    /\ fits(SubSeq(order, n + 1, Len(order)), entries)
    /\ \A m \in 0..(n - 1) : ~fits(SubSeq(order, m + 1, Len(order)), entries)

putCache(d, e) ==
  LET others == without(d)
      order == IF sizeOf(maps[e.map]) > MaxTotalIds THEN others ELSE Append(others, d)
      entries == [cache EXCEPT ![d] = IF sizeOf(maps[e.map]) > MaxTotalIds THEN NoEntry ELSE e]
      n == IF order = others THEN 0 ELSE fewestDropped(order, entries)
      kept == {order[i] : i \in (n + 1)..Len(order)}
  IN  /\ cacheOrder' = SubSeq(order, n + 1, Len(order))
      /\ cache' = [k \in Datasets |-> IF k \in kept THEN entries[k] ELSE NoEntry]

\* mayPublish without a look at the generation.
mayPublishAny(c) == scans[c].returned

\* Only a scan of the current generation is published; everyone who awaits it
\* is woken with its entry.
mayPublish(c) == generation[dataset[c]] = scans[c].gen

unregister(c) ==
  /\ inFlight' = [inFlight EXCEPT ![dataset[c]] = IF @ = c THEN NoLookup ELSE @]
  /\ scans' = [scans EXCEPT ![c] = NoScan]

Settle(c) ==
  /\ scans[c].running /\ scans[c].returned
  /\ IF mayPublish(c) THEN putCache(dataset[c], scans[c].entry)
     ELSE UNCHANGED <<cache, cacheOrder>>
  /\ unregister(c)
  /\ look' = [w \in Lookups |-> IF look[w].pc = "waiting" /\ look[w].on = c
                THEN [look[w] EXCEPT !.pc = "woken", !.on = NoLookup, !.got = scans[c].entry]
                ELSE look[w]]
  /\ forgetIdle(generation)
  /\ UNCHANGED <<content, first, changes, maps, generationCounter>>

\* Apify refuses a page or sends no array: all who await the scan fail.
ScanFails(c) ==
  /\ scans[c].running /\ ~scans[c].returned
  /\ unregister(c)
  /\ look' = [w \in Lookups |-> IF look[w].pc = "waiting" /\ look[w].on = c
                THEN [look[w] EXCEPT !.pc = "error", !.on = NoLookup] ELSE look[w]]
  /\ UNCHANGED <<content, first, changes, maps, cache, cacheOrder, generationCounter>>
  /\ forgetIdle(generation)
-----------------------------------------------------------------------------
(* findDatasetItem after locate: the item is fetched and compared.          *)

\* invalidate: the entry goes, and whatever still runs is of another generation.
invalidate(d) ==
  /\ cache' = [cache EXCEPT ![d] = NoEntry]
  /\ cacheOrder' = without(d)
  /\ generationCounter' = generationCounter + 1
  /\ scans' = [s \in Lookups |-> IF s \in activeScans(d)
                 THEN [scans[s] EXCEPT !.entry.retired = TRUE] ELSE scans[s]]
  /\ forgetIdle([generation EXCEPT ![d] = generationCounter + 1])

Fetch(c) ==
  LET d == dataset[c]
      at == look[c].offset + 1
      matches == at \in 1..Len(content[d]) /\ content[d][at] = target[c]
  IN
  /\ look[c].pc = "fetching"
  /\ look' = [look EXCEPT ![c] = [look[c] EXCEPT
       !.offset = -1,
       !.pc = IF matches THEN "found" ELSE IF look[c].round = 1 THEN "locating" ELSE "unstable",
       !.round = IF matches THEN look[c].round ELSE 2,
       !.restarts = 0, !.stalls = 0]]
  /\ IF matches THEN UNCHANGED <<cache, cacheOrder, generation, generationCounter, scans>>
     ELSE invalidate(d)
  /\ UNCHANGED <<content, first, changes, maps, inFlight>>

FetchFails(c) ==
  /\ look[c].pc = "fetching"
  /\ look' = [look EXCEPT ![c].pc = "error"]
  /\ UNCHANGED <<content, first, changes, maps, cache, cacheOrder, generation,
                 generationCounter, scans, inFlight>>
-----------------------------------------------------------------------------
\* The run that fills a dataset goes on, or it is emptied and filled again.
Change(d) ==
  /\ changes < MaxChanges
  /\ \E s \in Contents[d] \ {content[d]} : content' = [content EXCEPT ![d] = s]
  /\ changes' = changes + 1
  /\ UNCHANGED <<first, maps, cache, cacheOrder, generation, generationCounter, scans,
                 inFlight, look>>

Age(d) ==
  /\ cache[d] # NoEntry /\ ~cache[d].old
  /\ cache' = [cache EXCEPT ![d].old = TRUE]
  /\ UNCHANGED <<content, first, changes, maps, cacheOrder, generation, generationCounter,
                 scans, inFlight, look>>

LookupStep(c) ==
  \/ BeginLookup(c) \/ Locate(c) \/ Woken(c) \/ ScanPage(c) \/ Settle(c) \/ ScanFails(c)
  \/ Fetch(c) \/ FetchFails(c)

LookupNext ==
  \/ \E c \in Lookups : LookupStep(c)
  \/ \E d \in Datasets : Change(d) \/ Age(d)

LookupSpec == LookupInit /\ [][LookupNext]_lookupVars
-----------------------------------------------------------------------------
Ended == {"found", "missing", "error", "unstable"}

\* A scan that was retired by an invalidation is never published, nor does it
\* write into a map that is (generations, and the fresh map of a new scan); and
\* once no lookup is under way no scan is registered and generations are kept
\* for cached datasets only, so that nothing accumulates.
RetiredStaysOut ==
  /\ \A d \in Datasets : cache[d] # NoEntry =>
       /\ ~cache[d].retired
       /\ \A c \in activeScans(d) : scans[c].entry.retired => scans[c].entry.map # cache[d].map
  /\ (\A c \in Lookups : look[c].pc \in Ended \cup {"idle"}) =>
       \A d \in Datasets : inFlight[d] = NoLookup /\ (cache[d] = NoEntry => generation[d] = 0)

\* While a dataset does not change, a lookup that meets no Apify error finds the
\* ad if it is within reach: no other lookup's scan, expiry,
\* eviction or failure makes it miss, stall or give up.
reach(d) == SubSeq(first[d], 1, lesser(Len(first[d]), MaxItems))
StableIsFound ==
  \A c \in Lookups : LET d == dataset[c] IN changes = 0 =>
    /\ look[c].pc # "unstable"
    /\ look[c].pc = "missing" => \A n \in 1..Len(reach(d)) : reach(d)[n] # target[c]

=============================================================================
