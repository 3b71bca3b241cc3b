--------------------------- MODULE DashboardProofs ---------------------------
(* Theorems of Dashboard, for any number of turns, requests, owners and      *)
(* cache keys: nothing is overwritten unseen, a user reads their own writes, *)
(* failures are not cached, and the whole keeps the promise of the dialog    *)
(* (module ApprovedWrites).                                                  *)
EXTENDS Dashboard, FiniteSetTheorems, TLAPS

\* What is staged was counted, and what was approved was staged and is gone.
StoreInv ==
  /\ IsFiniteSet({p \in Turns : order[p] > 0})
  /\ \A p \in pending : order[p] > 0 /\ approver[p] = Nobody
  /\ \A p \in Turns : approver[p] # Nobody => order[p] > 0

\* A load has read exactly when it may be done; a turn that reads has a load.
LoadInv ==
  /\ IsFiniteSet({t \in Turns : load[t] # "none"})
  /\ \A t \in Turns :
       /\ load[t] = "none" => value[t] = Unread
       /\ load[t] = "done" => value[t] # Unread
       /\ awaits[t] = NoLoad => turn[t] = "idle" /\ load[t] = "none"

\* A request works on a plan it has claimed, alone.
Sends(q) == request[q].pc \in {"checking", "posting"}
ClaimInv ==
  /\ \A q \in Requests :
       /\ request[q].pc \notin {"idle", "done"} => request[q].plan \in Turns
       /\ request[q].pc \in {"checking", "posting", "verifying", "applied"} =>
            approver[request[q].plan] # Nobody
  /\ \A q, r \in Requests :
       Sends(q) /\ Sends(r) /\ request[q].plan = request[r].plan => q = r

\* Every POST of a plan was sent by the request that claimed it.
Posts(p) == inFlight[p] + landed[p]
MaxPosts(p) == IF p \in Creates THEN 1 ELSE MaxAttempts
PostInv ==
  /\ \A p \in Turns : Posts(p) <= MaxPosts(p) /\ (approver[p] = Nobody => Posts(p) = 0)
  /\ \A q \in Requests :
       /\ request[q].pc = "checking" => Posts(request[q].plan) = 0
       /\ request[q].pc = "posting" =>
            Posts(request[q].plan) <= request[q].sent /\ request[q].sent <= MaxPosts(request[q].plan)

\* The object's values only grow; so a plan whose object is found to be what it
\* was when it was read had it at the approval between.
ValueInv ==
  /\ meta.object <= meta.version
  /\ \A t \in Turns : value[t] # Unread =>
       value[t].object <= meta.object /\ value[t].version <= meta.version
  /\ \A p \in Turns :
       /\ expected[p] <= meta.object
       /\ approver[p] # Nobody => expected[p] <= atClaim[p] /\ atClaim[p] <= meta.object
       /\ p \notin Creates /\ Posts(p) > 0 => atClaim[p] = expected[p]
  /\ \A q \in Requests :
       request[q].pc = "posting" /\ request[q].plan \notin Creates =>
         atClaim[request[q].plan] = expected[request[q].plan]

\* Whoever joins the load of an entry is given nothing older than any write its
\* owner has been told of, or is about to be.
Fresh(o, version) ==
  /\ version >= acked[o]
  /\ \A q \in Requests :
       request[q].pc = "applied" /\ approver[request[q].plan] = o =>
         version >= landedAt[request[q].plan]
FreshInv ==
  /\ \A o \in Owners : acked[o] <= meta.version
  /\ \A p \in Turns : landedAt[p] <= meta.version /\ (landed[p] > 0 => landedAt[p] > 0)
  /\ \A q \in Requests : request[q].pc \in {"verifying", "applied"} => landed[request[q].plan] > 0
  /\ \A t \in Turns :
       /\ floor[t] <= acked[owner[t]]
       /\ awaits[t] # NoLoad /\ value[awaits[t]] # Unread => value[awaits[t]].version >= floor[t]
  /\ \A o \in Owners : \A k \in tenantKeys[o] :
       entries[k].load # NoLoad /\ value[entries[k].load] # Unread =>
         Fresh(o, value[entries[k].load].version)

DashboardInv ==
  /\ TypeOK /\ StoreInv /\ LoadInv /\ ClaimInv /\ PostInv /\ ValueInv /\ FreshInv
  /\ FailuresNotCached
-----------------------------------------------------------------------------
\* The steps of the confirmation store.

\* The instances count with the one operator there is.
LEMMA OneCardinality ==
  \A S : Store!Cardinality(S) = Cardinality(S) /\ Cache!Cardinality(S) = Cardinality(S)
  BY DEF Store!Cardinality, Cache!Cardinality, Cardinality

LEMMA StageWriteKeeps ==
  ASSUME TypeOK, StoreInv, NEW p \in Turns, Store!stageWrite(p), UNCHANGED <<now, approver>>
  PROVE  Store!StoreOK' /\ StoreInv' /\ approver[p] = Nobody
  <1> DEFINE Staged == {t \in Turns : order[t] > 0}
  <1>1. Cardinality(Staged) \in Nat
    BY FS_CardinalityType DEF StoreInv
  <1>2. /\ order \in [Turns -> Nat] /\ expiresAt \in [Turns -> Nat] /\ pending \subseteq Turns
        /\ now \in Nat /\ Ttl \in Nat /\ order[p] = 0
    BY DashboardAssumption DEF TypeOK, Store!StoreOK, Store!stageWrite
  <1>3. order' = [order EXCEPT ![p] = 1 + Cardinality(Staged)]
    BY OneCardinality DEF Store!stageWrite
  <1> HIDE DEF Staged
  <1>4. order' \in [Turns -> Nat] /\ order'[p] > 0 /\ \A t \in Turns \ {p} : order'[t] = order[t]
    BY <1>1, <1>2, <1>3
  <1>5. pending' \subseteq pending \cup {p}
    BY DEF Store!purge, Store!stageWrite
  <1>6. expiresAt' \in [Turns -> Nat]
    BY <1>2 DEF Store!stageWrite
  <1>7. {t \in Turns : order'[t] > 0} = Staged \cup {p}
    BY <1>2, <1>4 DEF Staged
  <1>8. IsFiniteSet({t \in Turns : order'[t] > 0})
    BY <1>7, FS_AddElement DEF StoreInv, Staged
  <1>9. approver[p] = Nobody
    BY <1>2 DEF StoreInv
  <1>10. Store!StoreOK'
    BY <1>2, <1>4, <1>5, <1>6 DEF Store!StoreOK
  <1>11. StoreInv'
    BY <1>2, <1>4, <1>5, <1>8, <1>9 DEF StoreInv
  <1> QED BY <1>9, <1>10, <1>11

\* Whatever else becomes of the store, plans only leave it.
LEMMA StoreShrinks ==
  ASSUME TypeOK, StoreInv, pending' \subseteq pending, UNCHANGED <<order, expiresAt, approver>>
  PROVE  Store!StoreOK' /\ StoreInv'
  BY DEF TypeOK, Store!StoreOK, StoreInv

LEMMA StoreOpsShrink ==
  ASSUME NEW p \in Turns, NEW who \in Owners, Store!takeWrite(p, who) \/ Store!discardWrite(p, who)
  PROVE  /\ pending' \subseteq pending /\ UNCHANGED <<order, expiresAt>>
         /\ owner[p] = who => p \notin pending'
  BY DEF Store!takeWrite, Store!discardWrite, Store!purge, Store!OwnedBy

\* A plan that is taken was there, its owner's, and in time.
LEMMA TakenWrite ==
  ASSUME NEW p \in Turns, NEW who \in Owners, Store!taken(p, who), Store!takeWrite(p, who)
  PROVE  p \in pending /\ p \notin pending' /\ owner[p] = who /\ expiresAt[p] > now
  BY StoreOpsShrink DEF Store!taken, Store!OwnedBy
-----------------------------------------------------------------------------
\* The steps of the cache.

EntryType == [load : Turns \cup {NoLoad}, expiresAt : Nat \cup {-1}, order : Nat]

\* Entries leave, and what stays is as it was.
LEMMA WithoutKeeps ==
  ASSUME NEW map \in [Keys -> EntryType], NEW S
  PROVE  /\ Cache!Without(map, S) \in [Keys -> EntryType]
         /\ \A k \in Keys : Cache!Without(map, S)[k].load \in {map[k].load, NoLoad}
         /\ \A k \in Keys \cap S : Cache!Without(map, S)[k].load = NoLoad
  BY DEF Cache!Without, Cache!NoEntry, Cache!InFlight, EntryType

\* A read gets the load of the entry that is there, or starts one of its own,
\* which only the entry of its key holds.
LEMMA GetOrLoadEffect ==
  ASSUME TypeOK, LoadInv, NEW t \in Turns, NEW k \in Keys, Cache!getOrLoad(t, k), UNCHANGED now
  PROVE  /\ Cache!CacheOK' /\ awaits[t] = NoLoad
         /\ IsFiniteSet({u \in Turns : load'[u] # "none"})
         /\ \/ /\ UNCHANGED load
               /\ entries[k].load # NoLoad /\ awaits' = [awaits EXCEPT ![t] = entries[k].load]
               /\ \A j \in Keys : entries'[j].load \in {entries[j].load, NoLoad}
            \/ /\ load' = [load EXCEPT ![t] = "loading"] /\ awaits' = [awaits EXCEPT ![t] = t]
               /\ \A j \in Keys \ {k} : entries'[j].load \in {entries[j].load, NoLoad}
               /\ entries'[k].load \in {t, NoLoad}
  <1> DEFINE Loads == {u \in Turns : load[u] # "none"}
  <1>1. /\ entries \in [Keys -> EntryType]
        /\ load \in [Turns -> {"none", "loading", "done", "failed"}]
        /\ awaits \in [Turns -> Turns \cup {NoLoad}] /\ IsFiniteSet(Loads)
    BY DEF TypeOK, LoadInv, Cache!CacheOK, Cache!InFlight, EntryType
  <1>2. /\ Cache!purgeExpired \in [Keys -> EntryType]
        /\ \A j \in Keys : Cache!purgeExpired[j].load \in {entries[j].load, NoLoad}
    BY <1>1, WithoutKeeps DEF Cache!purgeExpired
  <1>3. CASE Cache!purgeExpired[k].load # NoLoad
    <2>1. /\ entries' = Cache!purgeExpired /\ UNCHANGED load
          /\ awaits' = [awaits EXCEPT ![t] = Cache!purgeExpired[k].load] /\ awaits[t] = NoLoad
      BY <1>3 DEF Cache!getOrLoad
    <2>2. Cache!purgeExpired[k].load = entries[k].load /\ entries[k].load \in Turns
      BY <1>1, <1>2, <1>3 DEF EntryType
    <2>3. Cache!CacheOK'
      BY <1>1, <1>2, <2>1, <2>2 DEF Cache!CacheOK, Cache!InFlight, EntryType
    <2> QED BY <1>1, <1>2, <1>3, <2>1, <2>2, <2>3
  <1>4. CASE Cache!purgeExpired[k].load = NoLoad
    <2> DEFINE new == [Cache!purgeExpired EXCEPT ![k] =
                         [load |-> t, expiresAt |-> Cache!InFlight, order |-> Cache!NextOrder]]
    <2>1. /\ entries' = Cache!evictIfNeeded(new) /\ load' = [load EXCEPT ![t] = "loading"]
          /\ awaits' = [awaits EXCEPT ![t] = t] /\ awaits[t] = NoLoad
      BY <1>4 DEF Cache!getOrLoad
    <2>2. Cache!NextOrder = 1 + Cardinality(Loads)
      BY OneCardinality DEF Cache!NextOrder
    <2>3. Cache!NextOrder \in Nat
      BY <1>1, <2>2, FS_CardinalityType
    <2>4. [load |-> t, expiresAt |-> Cache!InFlight, order |-> Cache!NextOrder] \in EntryType
      BY <2>3 DEF Cache!InFlight, EntryType
    <2>5. /\ new \in [Keys -> EntryType] /\ new[k].load = t
          /\ \A j \in Keys \ {k} : new[j] = Cache!purgeExpired[j]
      BY <1>2, <2>4
    <2> HIDE DEF new
    <2>6. /\ entries' \in [Keys -> EntryType]
          /\ \A j \in Keys : entries'[j].load \in {new[j].load, NoLoad}
      BY <2>1, <2>5, WithoutKeeps DEF Cache!evictIfNeeded
    <2>7. Cache!CacheOK'
      BY <1>1, <2>1, <2>6 DEF Cache!CacheOK, Cache!InFlight, EntryType
    <2>8. {u \in Turns : load'[u] # "none"} = Loads \cup {t}
      BY <1>1, <2>1
    <2>9. IsFiniteSet({u \in Turns : load'[u] # "none"})
      BY <1>1, <2>8, FS_AddElement
    <2> QED BY <1>2, <2>1, <2>5, <2>6, <2>7, <2>9
  <1> QED BY <1>3, <1>4

\* A load settles; the entries keep their loads or lose them, and lose a failed
\* one.
LEMMA SettledEffect ==
  ASSUME TypeOK, NEW t \in Turns, Cache!Resolve(t) \/ Cache!Reject(t), UNCHANGED now
  PROVE  /\ Cache!CacheOK' /\ UNCHANGED awaits /\ load[t] = "loading"
         /\ \A j \in Keys : entries'[j].load \in {entries[j].load, NoLoad}
         /\ \/ Cache!Resolve(t) /\ load' = [load EXCEPT ![t] = "done"]
            \/ /\ load' = [load EXCEPT ![t] = "failed"]
               /\ \A j \in Keys : entries'[j].load # t
  <1>1. /\ entries \in [Keys -> EntryType] /\ now + CacheTtl \in Nat
        /\ load \in [Turns -> {"none", "loading", "done", "failed"}]
        /\ awaits \in [Turns -> Turns \cup {NoLoad}]
    BY DashboardAssumption DEF TypeOK, Cache!CacheOK, Cache!InFlight, EntryType
  <1>2. CASE Cache!Resolve(t)
    <2>1. entries' \in [Keys -> EntryType] /\ \A j \in Keys : entries'[j].load = entries[j].load
      BY <1>1, <1>2 DEF Cache!Resolve, EntryType
    <2> QED BY <1>1, <1>2, <2>1 DEF Cache!Resolve, Cache!CacheOK, Cache!InFlight, EntryType
  <1>3. CASE Cache!Reject(t)
    <2>1. /\ entries' \in [Keys -> EntryType]
          /\ \A j \in Keys : entries'[j].load \in {entries[j].load, NoLoad}
          /\ \A j \in Keys : entries[j].load = t => entries'[j].load = NoLoad
      BY <1>1, <1>3, WithoutKeeps DEF Cache!Reject
    <2>2. \A j \in Keys : entries'[j].load # t
      BY <2>1, DashboardAssumption
    <2>3. Cache!CacheOK'
      BY <1>1, <1>3, <2>1 DEF Cache!Reject, Cache!CacheOK, Cache!InFlight, EntryType
    <2> QED BY <1>3, <2>1, <2>2, <2>3 DEF Cache!Reject
  <1> QED BY <1>2, <1>3

LEMMA InvalidateEffect ==
  ASSUME TypeOK, NEW S, Cache!invalidatePrefix(S)
  PROVE  /\ Cache!CacheOK' /\ UNCHANGED <<load, awaits>>
         /\ \A j \in Keys : entries'[j].load \in {entries[j].load, NoLoad}
         /\ \A j \in Keys \cap S : entries'[j].load = NoLoad
  <1>1. /\ entries \in [Keys -> EntryType]
        /\ load \in [Turns -> {"none", "loading", "done", "failed"}]
        /\ awaits \in [Turns -> Turns \cup {NoLoad}]
    BY DEF TypeOK, Cache!CacheOK, Cache!InFlight, EntryType
  <1> QED BY <1>1, WithoutKeeps
          DEF Cache!invalidatePrefix, Cache!CacheOK, Cache!InFlight, EntryType
-----------------------------------------------------------------------------
\* Types. A plan is shown an object that was read; a request names its plan.

RequestType ==
  [pc : {"idle", "checking", "posting", "verifying", "done"} \cup Outcomes,
   plan : Turns \cup {NoPlan}, sent : 0..MaxAttempts]
Version == [object : Nat, version : Nat]

\* A request moves on: where it goes, it is typed.
LEMMA RequestMoves ==
  ASSUME TypeOK, NEW q \in Requests, NEW p \in Turns,
         NEW place \in {"checking", "posting", "verifying", "done"} \cup Outcomes,
         Start(q, p, place) \/ Goto(q, place) \/ request' = [request EXCEPT ![q] = Done]
  PROVE  request' \in [Requests -> RequestType]
  <1>1. request \in [Requests -> RequestType] /\ MaxAttempts \in Nat /\ MaxAttempts >= 1
    BY DashboardAssumption DEF TypeOK, RequestType
  <1>2. Done \in RequestType
    BY <1>1 DEF Done, RequestType
  <1>3. ASSUME NEW n \in {0, 1} PROVE [pc |-> place, plan |-> p, sent |-> n] \in RequestType
    BY <1>1 DEF RequestType
  <1>4. CASE Start(q, p, place)
    BY <1>1, <1>2, <1>3, <1>4 DEF Start
  <1>5. CASE Goto(q, place)
    BY <1>1, <1>5 DEF Goto, RequestType
  <1>6. CASE request' = [request EXCEPT ![q] = Done]
    BY <1>1, <1>2, <1>6
  <1> QED BY <1>4, <1>5, <1>6

LEMMA InitInv == Init => DashboardInv
  <1> SUFFICES ASSUME Init PROVE DashboardInv
    OBVIOUS
  <1> USE DEF Init, Store!InitStore, Cache!InitCache
  <1>1. TypeOK
    <2>1. entries \in [Keys -> EntryType]
      BY DEF Cache!NoEntry, Cache!InFlight, EntryType
    <2>2. request \in [Requests -> RequestType]
      BY DashboardAssumption DEF RequestType
    <2> QED BY <2>1, <2>2, DashboardAssumption
            DEF TypeOK, Store!StoreOK, Cache!CacheOK, Cache!InFlight, EntryType, RequestType
  <1>2. {p \in Turns : order[p] > 0} = {} /\ {t \in Turns : load[t] # "none"} = {}
    OBVIOUS
  <1>3. StoreInv /\ LoadInv
    BY <1>2, FS_EmptySet DEF StoreInv, LoadInv
  <1>4. ClaimInv /\ PostInv /\ ValueInv /\ FreshInv
    BY DashboardAssumption
    DEF ClaimInv, Sends, PostInv, Posts, MaxPosts, ValueInv, FreshInv, Cache!NoEntry
  <1>5. FailuresNotCached
    BY DEF FailuresNotCached, Cache!FailuresNotCached, Cache!Present, Cache!NoEntry
  <1> QED BY <1>1, <1>3, <1>4, <1>5 DEF DashboardInv

LEMMA NextTypes == DashboardInv /\ [Next]_vars => TypeOK'
  <1> SUFFICES ASSUME DashboardInv, [Next]_vars PROVE TypeOK'
    OBVIOUS
  <1>1. TypeOK /\ StoreInv /\ LoadInv /\ ClaimInv /\ PostInv
    BY DEF DashboardInv
  <1>2. \A p \in Turns : Posts(p) <= MaxAttempts
    <2>1. MaxAttempts \in Nat \ {0} /\ \A p \in Turns : inFlight[p] \in Nat /\ landed[p] \in Nat
      BY <1>1, DashboardAssumption DEF TypeOK
    <2> QED BY <1>1, <2>1 DEF PostInv, MaxPosts, Posts
  <1>3. \A q \in Requests : request[q] \in RequestType
    BY <1>1 DEF TypeOK, RequestType
  <1>4. ASSUME NEW t \in Turns, ReadObject(t) PROVE TypeOK'
    <2>1. PICK k \in tenantKeys[owner[t]] : Cache!getOrLoad(t, k)
      BY <1>4 DEF ReadObject
    <2>2. k \in Keys /\ owner[t] \in Owners
      BY <2>1, DashboardAssumption
    <2>3. Cache!CacheOK'
      BY <1>1, <1>4, <2>1, <2>2, GetOrLoadEffect DEF ReadObject
    <2> QED BY <1>1, <1>4, <2>2, <2>3
            DEF TypeOK, ReadObject, storeVars, metaVars, claimVars, envVars, Store!StoreOK
  <1>5. ASSUME NEW t \in Turns, LoadRead(t) PROVE TypeOK'
    BY <1>1, <1>5 DEF TypeOK, LoadRead, storeVars, cacheVars, metaVars, claimVars, envVars,
                      Store!StoreOK, Cache!CacheOK
  <1>6. ASSUME NEW t \in Turns, LoadSettled(t) PROVE TypeOK'
    <2>1. Cache!CacheOK'
      BY <1>1, <1>6, SettledEffect DEF LoadSettled
    <2> QED BY <1>1, <1>6, <2>1
            DEF TypeOK, LoadSettled, storeVars, turnVars, metaVars, claimVars, envVars, Store!StoreOK
  <1>7. ASSUME NEW t \in Turns, Propose(t) PROVE TypeOK'
    <2>1. Store!StoreOK'
      BY <1>1, <1>7, StageWriteKeeps DEF Propose, claimVars
    <2>2. value[awaits[t]] \in Version
      BY <1>1, <1>7 DEF Propose, LoadInv, TypeOK, Cache!CacheOK, Version
    <2> QED BY <1>1, <1>7, <2>1, <2>2
            DEF TypeOK, Propose, cacheVars, metaVars, claimVars, envVars, Cache!CacheOK, Version
  <1>8. ASSUME NEW q \in Requests, NEW p \in Turns, NEW who \in Owners,
               ConfirmDisabled(q, p, who) \/ Cancel(q, p, who)
        PROVE  TypeOK'
    <2>1. request' \in [Requests -> RequestType]
      BY <1>1, <1>8, RequestMoves DEF ConfirmDisabled, Cancel, Outcomes
    <2>2. Store!StoreOK'
      BY <1>1, <1>8, StoreOpsShrink, StoreShrinks DEF ConfirmDisabled, Cancel, claimVars
    <2> QED BY <1>1, <1>8, <2>1, <2>2
            DEF TypeOK, ConfirmDisabled, Cancel, cacheVars, turnVars, metaVars, claimVars, envVars,
                Cache!CacheOK, RequestType
  <1>9. ASSUME NEW q \in Requests, NEW p \in Turns, NEW who \in Owners, Confirm(q, p, who)
        PROVE  TypeOK'
    <2>1. request' \in [Requests -> RequestType]
      BY <1>1, <1>9, RequestMoves DEF Confirm
    <2>2. pending' \subseteq pending /\ UNCHANGED <<order, expiresAt>>
      BY <1>9, StoreOpsShrink DEF Confirm
    <2>3. Store!StoreOK'
      BY <1>1, <2>2 DEF TypeOK, Store!StoreOK
    <2>4. Store!taken(p, who) => Posts(p) = 0
      BY <1>1 DEF Store!taken, Store!OwnedBy, StoreInv, PostInv
    <2>5. inFlight' \in [Turns -> 0..MaxAttempts]
      <3>1. CASE UNCHANGED inFlight
        BY <1>1, <3>1 DEF TypeOK
      <3>2. CASE Store!taken(p, who) /\ Post(p)
        BY <1>1, <2>4, <3>2, DashboardAssumption DEF TypeOK, Post, Posts
      <3> QED BY <1>9, <3>1, <3>2 DEF Confirm
    <2>6. approver' \in [Turns -> Owners \cup {Nobody}] /\ atClaim' \in [Turns -> Nat]
      BY <1>1, <1>9 DEF TypeOK, Confirm, claimVars
    <2> QED BY <1>1, <1>9, <2>1, <2>3, <2>5, <2>6
            DEF TypeOK, Confirm, cacheVars, turnVars, envVars, Cache!CacheOK, RequestType
  <1>10. ASSUME NEW q \in Requests, CheckDrift(q) PROVE TypeOK'
    <2>1. request[q].plan \in Turns /\ Posts(request[q].plan) = 0
      BY <1>1, <1>10 DEF CheckDrift, ClaimInv, PostInv
    <2>2. request' \in [Requests -> RequestType]
      BY <1>1, <1>10, <2>1, RequestMoves DEF CheckDrift, Outcomes
    <2>3. inFlight' \in [Turns -> 0..MaxAttempts]
      <3>1. CASE UNCHANGED inFlight
        BY <1>1, <3>1 DEF TypeOK
      <3>2. CASE Post(request[q].plan)
        BY <1>1, <2>1, <3>2, DashboardAssumption DEF TypeOK, Post, Posts
      <3> QED BY <1>10, <3>1, <3>2 DEF CheckDrift
    <2> QED BY <1>1, <1>10, <2>2, <2>3
            DEF TypeOK, CheckDrift, storeVars, cacheVars, turnVars, claimVars, envVars,
                Store!StoreOK, Cache!CacheOK, RequestType
  <1>11. ASSUME NEW p \in Turns, Land(p) PROVE TypeOK'
    <2>1. inFlight' \in [Turns -> 0..MaxAttempts] /\ landed' \in [Turns -> Nat]
      BY <1>1, <1>11, DashboardAssumption DEF TypeOK, Land
    <2>2. meta' \in Version /\ landedAt' \in [Turns -> Nat]
      BY <1>1, <1>11 DEF TypeOK, Land, Version
    <2> QED BY <1>1, <1>11, <2>1, <2>2
            DEF TypeOK, Land, storeVars, cacheVars, turnVars, claimVars, envVars,
                Store!StoreOK, Cache!CacheOK, Version
  <1>12. ASSUME NEW q \in Requests, Retry(q) PROVE TypeOK'
    <2> DEFINE p == request[q].plan
    <2>1. p \in Turns /\ p \notin Creates /\ Posts(p) <= request[q].sent /\ request[q].sent < MaxAttempts
      BY <1>1, <1>12 DEF Retry, mayResend, ClaimInv, PostInv
    <2>2. /\ request[q].sent \in Nat /\ MaxAttempts \in Nat /\ inFlight[p] \in Nat /\ landed[p] \in Nat
          /\ request[q].sent + 1 \in 0..MaxAttempts
      BY <1>1, <1>3, <2>1, DashboardAssumption DEF TypeOK, RequestType
    <2>3. inFlight' \in [Turns -> 0..MaxAttempts]
      BY <1>1, <1>12, <2>1, <2>2 DEF TypeOK, Retry, Post, Posts
    <2>4. request' \in [Requests -> RequestType]
      BY <1>1, <1>12, <2>2 DEF TypeOK, Retry, RequestType
    <2> QED BY <1>1, <1>12, <2>3, <2>4
            DEF TypeOK, Retry, storeVars, cacheVars, turnVars, claimVars, envVars,
                Store!StoreOK, Cache!CacheOK, RequestType
  <1>13. ASSUME NEW q \in Requests, Refuse(q) \/ GiveUp(q) \/ Acknowledge(q) PROVE TypeOK'
    <2>1. request[q].plan \in Turns
      BY <1>1, <1>13 DEF Refuse, GiveUp, Acknowledge, ClaimInv
    <2>2. request' \in [Requests -> RequestType]
      BY <1>1, <1>13, <2>1, RequestMoves DEF Refuse, GiveUp, Acknowledge, Outcomes
    <2>3. inFlight' \in [Turns -> 0..MaxAttempts] /\ UNCHANGED <<meta, landed, landedAt>>
      BY <1>1, <1>13, <2>1, DashboardAssumption DEF TypeOK, Refuse, GiveUp, Acknowledge, metaVars
    <2> QED BY <1>1, <1>13, <2>2, <2>3
            DEF TypeOK, Refuse, GiveUp, Acknowledge, storeVars, cacheVars, turnVars, claimVars, envVars,
                Store!StoreOK, Cache!CacheOK, RequestType
  <1>14. ASSUME NEW q \in Requests, Verify(q) PROVE TypeOK'
    <2>1. request[q].plan \in Turns
      BY <1>1, <1>14 DEF Verify, ClaimInv
    <2>2. request' \in [Requests -> RequestType]
      BY <1>1, <1>14, <2>1, RequestMoves DEF Verify, Outcomes
    <2>3. Cache!CacheOK'
      BY <1>1, <1>14, InvalidateEffect DEF Verify
    <2> QED BY <1>1, <1>14, <2>2, <2>3
            DEF TypeOK, Verify, storeVars, turnVars, metaVars, claimVars, envVars, Store!StoreOK, RequestType
  <1>15. ASSUME NEW q \in Requests, RecordAudit(q) PROVE TypeOK'
    <2>1. request[q].plan \in Turns /\ request[q].pc \in Outcomes
      BY <1>1, <1>15 DEF RecordAudit, ClaimInv, Outcomes
    <2>2. request' \in [Requests -> RequestType]
      BY <1>1, <1>15, <2>1, RequestMoves DEF RecordAudit
    <2>3. audit' \subseteq Turns \X Outcomes
      BY <1>1, <1>15, <2>1 DEF RecordAudit, TypeOK
    <2>4. acked' \in [Owners -> Nat]
      BY <1>1, <1>15, <2>1 DEF RecordAudit, TypeOK
    <2> QED BY <1>1, <1>15, <2>2, <2>3, <2>4
            DEF TypeOK, RecordAudit, storeVars, cacheVars, turnVars, metaVars, claimVars, envVars,
                Store!StoreOK, Cache!CacheOK, RequestType
  <1>16. CASE EditByOthers
    BY <1>1, <1>16 DEF TypeOK, EditByOthers, storeVars, cacheVars, turnVars, claimVars,
                       Store!StoreOK, Cache!CacheOK
  <1>17. CASE Restart
    <2>1. Cache!CacheOK'
      BY <1>1, <1>17 DEF TypeOK, Restart, Cache!CacheOK, Cache!NoEntry, Cache!InFlight
    <2>2. request' \in [Requests -> RequestType]
      BY <1>1, <1>3, <1>17, DashboardAssumption DEF Restart, Done, RequestType
    <2> QED BY <1>1, <1>17, <2>1, <2>2
            DEF TypeOK, Restart, metaVars, claimVars, Store!StoreOK, RequestType
  <1>18. CASE Tick
    BY <1>1, <1>18 DEF TypeOK, Tick, storeVars, cacheVars, turnVars, metaVars, claimVars, envVars,
                       Store!StoreOK, Cache!CacheOK
  <1>19. CASE UNCHANGED vars
    BY <1>1, <1>19 DEF TypeOK, vars, storeVars, cacheVars, turnVars, metaVars, claimVars, envVars,
                       Store!StoreOK, Cache!CacheOK
  <1> QED BY <1>4, <1>5, <1>6, <1>7, <1>8, <1>9, <1>10, <1>11, <1>12, <1>13, <1>14, <1>15, <1>16,
             <1>17, <1>18, <1>19 DEF Next
-----------------------------------------------------------------------------
\* The store, the loads and who works on what.

LEMMA NextStore == DashboardInv /\ [Next]_vars => StoreInv'
  <1> SUFFICES ASSUME DashboardInv, [Next]_vars PROVE StoreInv'
    OBVIOUS
  <1>1. TypeOK /\ StoreInv
    BY DEF DashboardInv
  <1>2. CASE UNCHANGED <<pending, order, approver>>
    BY <1>1, <1>2 DEF StoreInv
  <1>3. ASSUME NEW t \in Turns, Propose(t) PROVE StoreInv'
    BY <1>1, <1>3, StageWriteKeeps DEF Propose, claimVars
  <1>4. ASSUME NEW q \in Requests, NEW p \in Turns, NEW who \in Owners,
               ConfirmDisabled(q, p, who) \/ Cancel(q, p, who)
        PROVE  StoreInv'
    BY <1>1, <1>4, StoreOpsShrink, StoreShrinks DEF ConfirmDisabled, Cancel, claimVars
  <1>5. ASSUME NEW q \in Requests, NEW p \in Turns, NEW who \in Owners, Confirm(q, p, who)
        PROVE  StoreInv'
    <2>1. pending' \subseteq pending /\ UNCHANGED <<order, expiresAt>>
      BY <1>5, StoreOpsShrink DEF Confirm
    <2>2. CASE Store!taken(p, who)
      <3>1. approver' = [approver EXCEPT ![p] = who]
        BY <1>5, <2>2 DEF Confirm
      <3>2. p \in pending /\ p \notin pending'
        BY <1>5, <2>2, TakenWrite DEF Confirm
      <3> QED BY <1>1, <2>1, <3>1, <3>2 DEF StoreInv, TypeOK
    <2>3. CASE ~Store!taken(p, who)
      BY <1>1, <1>5, <2>1, <2>3, StoreShrinks DEF Confirm, claimVars
    <2> QED BY <2>2, <2>3
  <1>6. CASE Restart
    BY <1>1, <1>6, StoreShrinks DEF Restart, claimVars
  <1>7. ASSUME NEW t \in Turns, ReadObject(t) \/ LoadRead(t) \/ LoadSettled(t) \/ Land(t)
        PROVE  StoreInv'
    BY <1>2, <1>7 DEF ReadObject, LoadRead, LoadSettled, Land, storeVars, claimVars
  <1>8. ASSUME NEW q \in Requests,
               \/ CheckDrift(q) \/ Retry(q) \/ Refuse(q) \/ GiveUp(q)
               \/ Acknowledge(q) \/ Verify(q) \/ RecordAudit(q)
        PROVE  StoreInv'
    BY <1>2, <1>8 DEF CheckDrift, Retry, Refuse, GiveUp, Acknowledge, Verify, RecordAudit,
                      storeVars, claimVars
  <1>9. CASE EditByOthers \/ Tick \/ UNCHANGED vars
    BY <1>2, <1>9 DEF EditByOthers, Tick, vars, storeVars, claimVars
  <1> QED BY <1>3, <1>4, <1>5, <1>6, <1>7, <1>8, <1>9 DEF Next

LEMMA NextLoads == DashboardInv /\ [Next]_vars => LoadInv' /\ FailuresNotCached'
  <1> SUFFICES ASSUME DashboardInv, [Next]_vars PROVE LoadInv' /\ FailuresNotCached'
    OBVIOUS
  <1> USE DEF FailuresNotCached, Cache!FailuresNotCached, Cache!Present
  <1>1. /\ TypeOK /\ LoadInv /\ FailuresNotCached /\ NoLoad \notin Turns
        /\ load \in [Turns -> {"none", "loading", "done", "failed"}]
        /\ awaits \in [Turns -> Turns \cup {NoLoad}]
        /\ \A k \in Keys : entries[k].load \in Turns \cup {NoLoad}
    BY DashboardAssumption DEF DashboardInv, TypeOK, Cache!CacheOK
  <1>2. CASE UNCHANGED <<entries, load, awaits, value, turn>>
    BY <1>1, <1>2 DEF LoadInv
  <1>3. ASSUME NEW t \in Turns, ReadObject(t) PROVE LoadInv' /\ FailuresNotCached'
    <2>1. PICK k \in tenantKeys[owner[t]] : Cache!getOrLoad(t, k)
      BY <1>3 DEF ReadObject
    <2>2. k \in Keys
      BY <2>1, DashboardAssumption
    <2>3. /\ turn' = [turn EXCEPT ![t] = "reading"] /\ turn \in [Turns -> {"idle", "reading", "over"}]
          /\ UNCHANGED <<now, value>> /\ awaits[t] = NoLoad /\ load[t] = "none"
          /\ IsFiniteSet({u \in Turns : load'[u] # "none"})
      BY <1>1, <1>3, <2>1, <2>2, GetOrLoadEffect DEF ReadObject, LoadInv, TypeOK
    <2>4. CASE /\ UNCHANGED load
               /\ entries[k].load # NoLoad /\ awaits' = [awaits EXCEPT ![t] = entries[k].load]
               /\ \A j \in Keys : entries'[j].load \in {entries[j].load, NoLoad}
      BY <1>1, <2>2, <2>3, <2>4 DEF LoadInv
    <2>5. CASE /\ load' = [load EXCEPT ![t] = "loading"] /\ awaits' = [awaits EXCEPT ![t] = t]
               /\ \A j \in Keys \ {k} : entries'[j].load \in {entries[j].load, NoLoad}
               /\ entries'[k].load \in {t, NoLoad}
      <3>1. LoadInv'
        BY <1>1, <2>3, <2>5 DEF LoadInv
      <3>2. FailuresNotCached'
        BY <1>1, <2>2, <2>5
      <3> QED BY <3>1, <3>2
    <2> QED BY <1>1, <1>3, <2>1, <2>2, <2>3, <2>4, <2>5, GetOrLoadEffect
  <1>4. ASSUME NEW t \in Turns, LoadRead(t) PROVE LoadInv' /\ FailuresNotCached'
    <2>1. /\ value' = [value EXCEPT ![t] = meta] /\ load[t] = "loading"
          /\ UNCHANGED <<entries, load, awaits, turn>>
      BY <1>4 DEF LoadRead, cacheVars
    <2>2. meta # Unread
      BY <1>1 DEF TypeOK, Unread
    <2> QED BY <1>1, <2>1, <2>2 DEF LoadInv, TypeOK
  <1>5. ASSUME NEW t \in Turns, LoadSettled(t) PROVE LoadInv' /\ FailuresNotCached'
    <2>1. /\ UNCHANGED <<awaits, value, turn>> /\ load[t] = "loading"
          /\ \A j \in Keys : entries'[j].load \in {entries[j].load, NoLoad}
          /\ \/ value[t] # Unread /\ load' = [load EXCEPT ![t] = "done"]
             \/ load' = [load EXCEPT ![t] = "failed"] /\ \A j \in Keys : entries'[j].load # t
      <3>1. Cache!Resolve(t) => load' = [load EXCEPT ![t] = "done"]
        BY DEF Cache!Resolve
      <3>2. Cache!Reject(t) => load' = [load EXCEPT ![t] = "failed"]
        BY DEF Cache!Reject
      <3>3. ~(Cache!Resolve(t) /\ Cache!Reject(t))
        BY <1>1, <3>1, <3>2
      <3> QED BY <1>1, <1>5, <3>1, <3>2, <3>3, SettledEffect DEF LoadSettled, turnVars
    <2>2. {u \in Turns : load'[u] # "none"} = {u \in Turns : load[u] # "none"}
      BY <1>1, <2>1
    <2>3. LoadInv'
      BY <1>1, <2>1, <2>2 DEF LoadInv
    <2>4. FailuresNotCached'
      BY <1>1, <2>1
    <2> QED BY <2>3, <2>4
  <1>6. ASSUME NEW t \in Turns, Propose(t) PROVE LoadInv' /\ FailuresNotCached'
    <2>1. /\ UNCHANGED <<entries, load, awaits, value>> /\ turn[t] = "reading"
          /\ turn' = [turn EXCEPT ![t] = "over"]
      BY <1>6 DEF Propose, cacheVars
    <2> QED BY <1>1, <2>1 DEF LoadInv, TypeOK
  <1>7. ASSUME NEW q \in Requests, Verify(q) PROVE LoadInv' /\ FailuresNotCached'
    <2>1. /\ UNCHANGED <<load, awaits, value, turn>>
          /\ \A j \in Keys : entries'[j].load \in {entries[j].load, NoLoad}
      BY <1>1, <1>7, InvalidateEffect DEF Verify, turnVars
    <2> QED BY <1>1, <2>1 DEF LoadInv
  <1>8. CASE Restart
    <2>1. /\ load' = [t \in Turns |-> IF load[t] = "loading" THEN "failed" ELSE load[t]]
          /\ turn' = [t \in Turns |-> IF turn[t] = "reading" THEN "over" ELSE turn[t]]
          /\ \A j \in Keys : entries'[j].load = NoLoad
          /\ UNCHANGED <<awaits, value>>
      BY <1>8 DEF Restart, Cache!NoEntry
    <2>2. {u \in Turns : load'[u] # "none"} = {u \in Turns : load[u] # "none"}
      BY <1>1, <2>1
    <2> QED BY <1>1, <2>1, <2>2 DEF LoadInv
  <1>9. ASSUME NEW q \in Requests, NEW p \in Turns, NEW who \in Owners,
               ConfirmDisabled(q, p, who) \/ Cancel(q, p, who) \/ Confirm(q, p, who)
        PROVE  LoadInv' /\ FailuresNotCached'
    BY <1>2, <1>9 DEF ConfirmDisabled, Cancel, Confirm, cacheVars, turnVars
  <1>10. ASSUME NEW q \in Requests,
               \/ CheckDrift(q) \/ Retry(q) \/ Refuse(q) \/ GiveUp(q)
               \/ Acknowledge(q) \/ RecordAudit(q)
        PROVE  LoadInv' /\ FailuresNotCached'
    BY <1>2, <1>10 DEF CheckDrift, Retry, Refuse, GiveUp, Acknowledge, RecordAudit, cacheVars, turnVars
  <1>11. ASSUME NEW p \in Turns, Land(p) PROVE LoadInv' /\ FailuresNotCached'
    BY <1>2, <1>11 DEF Land, cacheVars, turnVars
  <1>12. CASE EditByOthers \/ Tick \/ UNCHANGED vars
    BY <1>2, <1>12 DEF EditByOthers, Tick, vars, cacheVars, turnVars
  <1> QED BY <1>3, <1>4, <1>5, <1>6, <1>7, <1>8, <1>9, <1>10, <1>11, <1>12 DEF Next

\* A request moves on with the plan it has: it sends only if it did.
LEMMA ClaimMoves ==
  ASSUME TypeOK, ClaimInv, NEW q \in Requests, NEW r \in RequestType,
         request' = [request EXCEPT ![q] = r], UNCHANGED approver,
         r.pc \notin {"idle", "done"} => r.plan \in Turns,
         r.pc \in {"checking", "posting", "verifying", "applied"} => approver[r.plan] # Nobody,
         r.pc \in {"checking", "posting"} => Sends(q) /\ r.plan = request[q].plan
  PROVE  ClaimInv'
  <1>1. /\ request \in [Requests -> RequestType] /\ request'[q] = r
        /\ \A s \in Requests \ {q} : request'[s] = request[s]
    BY DEF TypeOK, RequestType
  <1>2. ASSUME NEW s \in Requests
        PROVE  /\ request'[s].pc \notin {"idle", "done"} => request'[s].plan \in Turns
               /\ request'[s].pc \in {"checking", "posting", "verifying", "applied"} =>
                    approver'[request'[s].plan] # Nobody
    BY <1>1 DEF ClaimInv
  <1>3. \A s \in Requests : Sends(s)' => Sends(s) /\ request'[s].plan = request[s].plan
    BY <1>1 DEF Sends
  <1>4. \A s, t \in Requests :
          Sends(s)' /\ Sends(t)' /\ request'[s].plan = request'[t].plan => s = t
    BY <1>3 DEF ClaimInv
  <1> QED BY <1>2, <1>4 DEF ClaimInv

LEMMA NextClaims == DashboardInv /\ [Next]_vars => ClaimInv'
  <1> SUFFICES ASSUME DashboardInv, [Next]_vars PROVE ClaimInv'
    OBVIOUS
  <1>1. /\ TypeOK /\ StoreInv /\ ClaimInv /\ request \in [Requests -> RequestType]
        /\ MaxAttempts \in Nat \ {0} /\ Nobody \notin Owners
    BY DashboardAssumption DEF DashboardInv, TypeOK, RequestType
  <1>2. CASE UNCHANGED <<request, approver>>
    BY <1>1, <1>2 DEF ClaimInv, Sends
  <1>3. Done \in RequestType /\ Done.pc = "done"
    BY <1>1 DEF Done, RequestType
  <1>4. ASSUME NEW q \in Requests, NEW p \in Turns, NEW who \in Owners,
               ConfirmDisabled(q, p, who) \/ Cancel(q, p, who)
        PROVE  ClaimInv'
    <2> DEFINE At(place) == [pc |-> place, plan |-> p, sent |-> 0]
    <2>1. /\ UNCHANGED approver
          /\ \E r \in {Done, At("refused_writes_disabled"), At("rejected")} :
               request' = [request EXCEPT ![q] = r]
      BY <1>4 DEF ConfirmDisabled, Cancel, Start, claimVars
    <2>2. At("refused_writes_disabled") \in RequestType /\ At("rejected") \in RequestType
      BY <1>1 DEF RequestType, Outcomes
    <2> QED BY <1>1, <1>3, <2>1, <2>2, ClaimMoves
  <1>5. ASSUME NEW q \in Requests, NEW p \in Turns, NEW who \in Owners, Confirm(q, p, who)
        PROVE  ClaimInv'
    <2>1. CASE ~Store!taken(p, who)
      BY <1>1, <1>3, <1>5, <2>1, ClaimMoves DEF Confirm, Start, claimVars
    <2>2. CASE Store!taken(p, who)
      <3>1. /\ approver' = [approver EXCEPT ![p] = who]
            /\ approver[p] = Nobody /\ who # Nobody
            /\ request'[q].pc \in {"checking", "posting"} /\ request'[q].plan = p
            /\ \A s \in Requests \ {q} : request'[s] = request[s]
        BY <1>1, <1>5, <2>2, TakenWrite DEF Confirm, Start, StoreInv
      <3>2. \A s \in Requests \ {q} : Sends(s) => request[s].plan # p
        BY <1>1, <3>1 DEF ClaimInv, Sends
      <3>3. \A t \in Turns : approver[t] # Nobody => approver'[t] # Nobody
        BY <1>1, <3>1 DEF TypeOK
      <3>4. approver'[p] # Nobody
        BY <1>1, <3>1 DEF TypeOK
      <3>5. ASSUME NEW s \in Requests
            PROVE  /\ request'[s].pc \notin {"idle", "done"} => request'[s].plan \in Turns
                   /\ request'[s].pc \in {"checking", "posting", "verifying", "applied"} =>
                        approver'[request'[s].plan] # Nobody
        BY <1>1, <3>1, <3>3, <3>4 DEF ClaimInv
      <3>6. \A s, t \in Requests :
              Sends(s)' /\ Sends(t)' /\ request'[s].plan = request'[t].plan => s = t
        BY <1>1, <3>1, <3>2 DEF ClaimInv, Sends
      <3> QED BY <3>5, <3>6 DEF ClaimInv
    <2> QED BY <2>1, <2>2
  <1>6. ASSUME NEW q \in Requests,
               \/ CheckDrift(q) \/ Retry(q) \/ Refuse(q) \/ GiveUp(q) \/ Acknowledge(q) \/ Verify(q)
        PROVE  ClaimInv'
    <2> DEFINE p == request[q].plan
               At(place, n) == [pc |-> place, plan |-> p, sent |-> n]
    <2>1. /\ UNCHANGED approver /\ request[q].pc \in {"checking", "posting", "verifying"}
          /\ p \in Turns /\ approver[p] # Nobody /\ request[q] \in RequestType
      BY <1>1, <1>6 DEF CheckDrift, Retry, Refuse, GiveUp, Acknowledge, Verify, claimVars, ClaimInv
    <2>2. /\ request[q] = At(request[q].pc, request[q].sent) /\ request[q].sent \in 0..MaxAttempts
          /\ request[q].sent \in Nat
      BY <1>1, <2>1 DEF RequestType
    <2>3. CASE CheckDrift(q)
      <3>1. PICK r \in {At("failed", request[q].sent), At("refused_stale", request[q].sent),
                        At("posting", 1)} : request' = [request EXCEPT ![q] = r]
        BY <1>1, <2>2, <2>3 DEF CheckDrift, Goto, Start
      <3>2. r \in RequestType
        BY <1>1, <2>1, <2>2 DEF RequestType, Outcomes
      <3>3. Sends(q)
        BY <2>3 DEF CheckDrift, Sends
      <3> QED BY <1>1, <2>1, <3>1, <3>2, <3>3, ClaimMoves
    <2>4. CASE Retry(q)
      <3>1. request' = [request EXCEPT ![q] = At("posting", request[q].sent + 1)]
        <4>1. PICK n \in Nat : n = request[q].sent
          BY <2>2
        <4>2. request[q] = At("posting", n)
          BY <2>2, <2>4, <4>1 DEF Retry
        <4>3. [At("posting", n) EXCEPT !.sent = n + 1] = At("posting", n + 1)
          OBVIOUS
        <4>4. request' = [request EXCEPT ![q] = [request[q] EXCEPT !.sent = n + 1]]
          BY <2>4, <4>1 DEF Retry
        <4> QED BY <4>1, <4>2, <4>3, <4>4
      <3>2. At("posting", request[q].sent + 1) \in RequestType /\ Sends(q)
        BY <1>1, <2>1, <2>2, <2>4 DEF Retry, mayResend, RequestType, Sends
      <3> QED BY <1>1, <2>1, <3>1, <3>2, ClaimMoves
    <2>5. CASE Refuse(q) \/ GiveUp(q) \/ Acknowledge(q) \/ Verify(q)
      <3>1. PICK place \in {"failed", "verifying", "applied"} :
              request' = [request EXCEPT ![q] = At(place, request[q].sent)]
        BY <1>1, <2>2, <2>5 DEF Refuse, GiveUp, Acknowledge, Verify, Goto
      <3>2. At(place, request[q].sent) \in RequestType
        BY <2>1, <2>2 DEF RequestType, Outcomes
      <3> QED BY <1>1, <2>1, <3>1, <3>2, ClaimMoves
    <2> QED BY <1>6, <2>3, <2>4, <2>5
  <1>7. ASSUME NEW q \in Requests, RecordAudit(q) PROVE ClaimInv'
    BY <1>1, <1>3, <1>7, ClaimMoves DEF RecordAudit, claimVars
  <1>8. CASE Restart
    BY <1>1, <1>8 DEF Restart, Done, ClaimInv, Sends, claimVars
  <1>9. ASSUME NEW t \in Turns,
               ReadObject(t) \/ LoadRead(t) \/ LoadSettled(t) \/ Propose(t) \/ Land(t)
        PROVE  ClaimInv'
    BY <1>2, <1>9 DEF ReadObject, LoadRead, LoadSettled, Propose, Land, claimVars
  <1>10. CASE EditByOthers \/ Tick \/ UNCHANGED vars
    BY <1>2, <1>10 DEF EditByOthers, Tick, vars, claimVars
  <1> QED BY <1>4, <1>5, <1>6, <1>7, <1>8, <1>9, <1>10 DEF Next
-----------------------------------------------------------------------------
\* The POSTs of a plan.

LEMMA PostsTyped ==
  ASSUME TypeOK
  PROVE  /\ \A p \in Turns : Posts(p) \in Nat /\ MaxPosts(p) \in Nat \ {0}
         /\ \A p \in Turns : inFlight[p] \in Nat /\ landed[p] \in Nat
         /\ \A q \in Requests : request[q].sent \in Nat
         /\ request \in [Requests -> RequestType] /\ MaxAttempts \in Nat \ {0}
  BY DashboardAssumption DEF TypeOK, Posts, MaxPosts, RequestType

\* No plan gains a POST, and who sends is where it was.
LEMMA PostsRetreat ==
  ASSUME TypeOK, TypeOK', ClaimInv, PostInv, UNCHANGED approver,
         \A p \in Turns : Posts(p)' <= Posts(p),
         \A q \in Requests : Sends(q)' => request'[q] = request[q]
  PROVE  PostInv'
  <1>1. \A p \in Turns : Posts(p) \in Nat /\ Posts(p)' \in Nat /\ MaxPosts(p) \in Nat
    BY PostsTyped, DashboardAssumption DEF TypeOK, Posts
  <1>2. \A p \in Turns : Posts(p)' <= MaxPosts(p) /\ (approver'[p] = Nobody => Posts(p)' = 0)
    BY <1>1 DEF PostInv
  <1>3. ASSUME NEW q \in Requests
        PROVE  /\ (request[q].pc = "checking" => Posts(request[q].plan) = 0)'
               /\ (request[q].pc = "posting" =>
                     /\ Posts(request[q].plan) <= request[q].sent
                     /\ request[q].sent <= MaxPosts(request[q].plan))'
    <2>1. CASE ~Sends(q)'
      BY <2>1 DEF Sends
    <2>2. CASE Sends(q)'
      <3>1. PICK p \in Turns : p = request[q].plan
        BY <2>2 DEF Sends, ClaimInv
      <3>2. /\ request[q].pc = "checking" => Posts(p) = 0
            /\ request[q].pc = "posting" => Posts(p) <= request[q].sent /\ request[q].sent <= MaxPosts(p)
        BY <3>1 DEF PostInv
      <3>3. /\ request[q].pc = "checking" => Posts(p)' = 0
            /\ request[q].pc = "posting" => Posts(p)' <= request[q].sent /\ request[q].sent <= MaxPosts(p)
        BY <1>1, <3>2, PostsTyped
      <3> QED BY <2>2, <3>1, <3>3 DEF Posts, MaxPosts
    <2> QED BY <2>1, <2>2
  <1> QED BY <1>2, <1>3 DEF PostInv, MaxPosts

\* One request goes on with plan p, on which no other works.
LEMMA PostsAdvance ==
  ASSUME TypeOK, TypeOK', ClaimInv, PostInv, NEW q \in Requests, NEW p \in Turns,
         \A r \in Requests \ {q} : request'[r] = request[r] /\ (Sends(r) => request[r].plan # p),
         \A t \in Turns \ {p} : Posts(t)' = Posts(t) /\ approver'[t] = approver[t],
         Sends(q)' => request'[q].plan = p,
         Posts(p)' <= MaxPosts(p), approver'[p] # Nobody,
         request'[q].pc = "checking" => Posts(p)' = 0,
         request'[q].pc = "posting" =>
           Posts(p)' <= request'[q].sent /\ request'[q].sent <= MaxPosts(p)
  PROVE  PostInv'
  <1>1. \A t \in Turns : Posts(t)' <= MaxPosts(t) /\ (approver'[t] = Nobody => Posts(t)' = 0)
    BY DEF PostInv
  <1>2. ASSUME NEW r \in Requests
        PROVE  /\ (request[r].pc = "checking" => Posts(request[r].plan) = 0)'
               /\ (request[r].pc = "posting" =>
                     /\ Posts(request[r].plan) <= request[r].sent
                     /\ request[r].sent <= MaxPosts(request[r].plan))'
    <2>1. CASE r = q
      BY <2>1 DEF Sends, Posts, MaxPosts
    <2>2. CASE r # q /\ Sends(r)
      <3>1. PICK t \in Turns : t = request[r].plan
        BY <2>2 DEF Sends, ClaimInv
      <3>2. t # p /\ request'[r] = request[r]
        BY <2>2, <3>1
      <3>3. /\ request[r].pc = "checking" => Posts(t)' = 0
            /\ request[r].pc = "posting" => Posts(t)' <= request[r].sent /\ request[r].sent <= MaxPosts(t)
        BY <3>1, <3>2 DEF PostInv
      <3> QED BY <3>1, <3>2, <3>3 DEF Posts, MaxPosts
    <2>3. CASE r # q /\ ~Sends(r)
      BY <2>3 DEF Sends
    <2> QED BY <2>1, <2>2, <2>3
  <1> QED BY <1>1, <1>2 DEF PostInv, MaxPosts

LEMMA NextPosts == DashboardInv /\ [Next]_vars => PostInv'
  <1> SUFFICES ASSUME DashboardInv, [Next]_vars PROVE PostInv'
    OBVIOUS
  <1>1. /\ TypeOK /\ TypeOK' /\ StoreInv /\ ClaimInv /\ PostInv /\ Nobody \notin Owners
    BY NextTypes, DashboardAssumption DEF DashboardInv
  <1>2. CASE UNCHANGED <<inFlight, landed, approver, request>>
    BY <1>1, <1>2, PostsTyped, PostsRetreat DEF Posts, Sends
  <1>3. ASSUME NEW q \in Requests, NEW p \in Turns, NEW who \in Owners,
               ConfirmDisabled(q, p, who) \/ Cancel(q, p, who)
        PROVE  PostInv'
    <2>1. UNCHANGED <<inFlight, landed, approver>>
      BY <1>3 DEF ConfirmDisabled, Cancel, claimVars, metaVars
    <2>2. \A r \in Requests : Sends(r)' => request'[r] = request[r]
      BY <1>1, <1>3, PostsTyped DEF ConfirmDisabled, Cancel, Start, Done, Sends
    <2> QED BY <1>1, <2>1, <2>2, PostsTyped, PostsRetreat DEF Posts
  <1>4. ASSUME NEW q \in Requests, NEW p \in Turns, NEW who \in Owners, Confirm(q, p, who)
        PROVE  PostInv'
    <2>1. CASE ~Store!taken(p, who)
      <3>1. UNCHANGED <<inFlight, landed, approver>>
        BY <1>4, <2>1 DEF Confirm, claimVars
      <3>2. \A r \in Requests : Sends(r)' => request'[r] = request[r]
        BY <1>1, <1>4, <2>1, PostsTyped DEF Confirm, Start, Done, Sends
      <3> QED BY <1>1, <3>1, <3>2, PostsTyped, PostsRetreat DEF Posts
    <2>2. CASE Store!taken(p, who)
      <3>1. /\ approver' = [approver EXCEPT ![p] = who] /\ UNCHANGED landed
            /\ approver[p] = Nobody /\ Posts(p) = 0
            /\ \/ p \in Creates /\ Post(p) /\ Start(q, p, "posting")
               \/ p \notin Creates /\ Start(q, p, "checking") /\ UNCHANGED inFlight
        BY <1>1, <1>4, <2>2, TakenWrite DEF Confirm, StoreInv, PostInv
      <3>2. \A r \in Requests \ {q} : request'[r] = request[r] /\ (Sends(r) => request[r].plan # p)
        BY <1>1, <3>1, PostsTyped DEF Start, ClaimInv, Sends
      <3>3. approver'[p] # Nobody /\ \A t \in Turns \ {p} : approver'[t] = approver[t]
        BY <1>1, <3>1 DEF TypeOK
      <3>4. inFlight[p] = 0 /\ landed[p] = 0
        BY <1>1, <3>1, PostsTyped DEF Posts
      <3>5. CASE p \in Creates /\ Post(p) /\ Start(q, p, "posting")
        <4>1. /\ inFlight'[p] = 1 /\ \A t \in Turns \ {p} : inFlight'[t] = inFlight[t]
              /\ request'[q] = [pc |-> "posting", plan |-> p, sent |-> 1]
          BY <1>1, <3>4, <3>5, PostsTyped DEF Post, Start, TypeOK
        <4> QED BY <1>1, <3>1, <3>2, <3>3, <3>4, <3>5, <4>1, PostsAdvance DEF Posts, MaxPosts
      <3>6. CASE p \notin Creates /\ Start(q, p, "checking") /\ UNCHANGED inFlight
        <4>1. request'[q] = [pc |-> "checking", plan |-> p, sent |-> 0]
          BY <3>6, PostsTyped, <1>1 DEF Start
        <4>2. Posts(p)' = 0 /\ MaxPosts(p) \in Nat /\ \A t \in Turns : Posts(t)' = Posts(t)
          BY <1>1, <3>1, <3>4, <3>6, PostsTyped DEF Posts
        <4> QED BY <1>1, <3>2, <3>3, <4>1, <4>2, PostsAdvance
      <3> QED BY <3>1, <3>5, <3>6
    <2> QED BY <2>1, <2>2
  <1>5. ASSUME NEW q \in Requests, CheckDrift(q) \/ Retry(q) PROVE PostInv'
    <2>1. PICK p \in Turns : p = request[q].plan
      BY <1>1, <1>5 DEF CheckDrift, Retry, ClaimInv
    <2>2. /\ Sends(q) /\ approver[p] # Nobody /\ UNCHANGED <<landed, approver>>
          /\ \A r \in Requests \ {q} : request'[r] = request[r] /\ (Sends(r) => request[r].plan # p)
      BY <1>1, <1>5, <2>1, PostsTyped
      DEF CheckDrift, Retry, Goto, Start, Sends, ClaimInv, claimVars
    <2>3. CASE UNCHANGED inFlight /\ (Goto(q, "failed") \/ Goto(q, "refused_stale"))
      <3>1. request'[q].pc \in {"failed", "refused_stale"}
        BY <1>1, <2>3, PostsTyped DEF Goto, RequestType
      <3>2. \A r \in Requests : Sends(r)' => request'[r] = request[r]
        BY <2>2, <3>1 DEF Sends
      <3> QED BY <1>1, <2>2, <2>3, <3>2, PostsTyped, PostsRetreat DEF Posts
    <2>4. CASE CheckDrift(q) /\ Post(p) /\ Start(q, p, "posting")
      <3>1. inFlight[p] = 0 /\ landed[p] = 0 /\ MaxPosts(p) >= 1
        BY <1>1, <2>1, <2>4, PostsTyped DEF CheckDrift, PostInv, Posts
      <3>2. /\ inFlight'[p] = 1 /\ \A t \in Turns \ {p} : inFlight'[t] = inFlight[t]
            /\ request'[q] = [pc |-> "posting", plan |-> p, sent |-> 1]
        BY <1>1, <2>4, <3>1, PostsTyped DEF Post, Start, TypeOK
      <3> QED BY <1>1, <2>2, <3>1, <3>2, PostsAdvance DEF Posts
    <2>5. CASE Retry(q)
      <3>1. PICK n \in Nat : n = request[q].sent
        BY <1>1, PostsTyped
      <3>2. PICK m \in Nat : m = Posts(p)
        BY <1>1, PostsTyped
      <3>3. m <= n /\ n < MaxAttempts /\ MaxPosts(p) = MaxAttempts /\ MaxAttempts \in Nat
        BY <1>1, <2>1, <2>5, <3>1, <3>2, PostsTyped DEF Retry, mayResend, PostInv, MaxPosts
      <3>4. /\ inFlight'[p] = inFlight[p] + 1 /\ \A t \in Turns \ {p} : inFlight'[t] = inFlight[t]
            /\ request'[q].pc = "posting" /\ request'[q].plan = p /\ request'[q].sent = n + 1
        BY <1>1, <2>1, <2>5, <3>1, PostsTyped DEF Retry, Post, TypeOK, RequestType
      <3>5. Posts(p)' = m + 1 /\ \A t \in Turns \ {p} : Posts(t)' = Posts(t)
        BY <1>1, <2>2, <3>2, <3>4, PostsTyped DEF Posts
      <3>6. m + 1 <= n + 1 /\ n + 1 <= MaxPosts(p) /\ m + 1 <= MaxPosts(p)
        BY <3>3
      <3> QED BY <1>1, <2>2, <3>4, <3>5, <3>6, PostsAdvance
    <2> QED BY <1>5, <2>1, <2>3, <2>4, <2>5 DEF CheckDrift
  <1>6. ASSUME NEW q \in Requests,
               Refuse(q) \/ GiveUp(q) \/ Acknowledge(q) \/ Verify(q) \/ RecordAudit(q)
        PROVE  PostInv'
    <2>1. /\ UNCHANGED <<landed, approver>>
          /\ \/ UNCHANGED inFlight
             \/ inFlight' = [inFlight EXCEPT ![request[q].plan] = @ - 1]
      BY <1>6 DEF Refuse, GiveUp, Acknowledge, Verify, RecordAudit, claimVars, metaVars
    <2>2. \A r \in Requests : Sends(r)' => request'[r] = request[r]
      BY <1>1, <1>6, PostsTyped
      DEF Refuse, GiveUp, Acknowledge, Verify, RecordAudit, Goto, Done, Sends, RequestType
    <2>3. inFlight \in [Turns -> Nat] /\ landed \in [Turns -> Nat]
      BY <1>1, PostsTyped DEF TypeOK
    <2>4. \A t \in Turns : inFlight'[t] <= inFlight[t]
      BY <2>1, <2>3
    <2>5. \A t \in Turns : inFlight'[t] \in Nat
      BY <1>1, DashboardAssumption DEF TypeOK
    <2>6. \A t \in Turns : Posts(t)' <= Posts(t)
      BY <2>1, <2>3, <2>4, <2>5 DEF Posts
    <2> QED BY <1>1, <2>1, <2>2, <2>6, PostsRetreat
  <1>7. ASSUME NEW p \in Turns, Land(p) PROVE PostInv'
    <2>1. UNCHANGED <<approver, request>> /\ \A t \in Turns : Posts(t)' = Posts(t)
      BY <1>1, <1>7, PostsTyped DEF Land, Posts, claimVars, TypeOK
    <2> QED BY <1>1, <2>1, PostsTyped, PostsRetreat
  <1>8. CASE Restart
    <2>1. UNCHANGED <<inFlight, landed, approver>>
      BY <1>8 DEF Restart, claimVars, metaVars
    <2>2. \A r \in Requests : Sends(r)' => request'[r] = request[r]
      BY <1>8 DEF Restart, Done, Sends
    <2> QED BY <1>1, <2>1, <2>2, PostsTyped, PostsRetreat DEF Posts
  <1>9. ASSUME NEW t \in Turns, ReadObject(t) \/ LoadRead(t) \/ LoadSettled(t) \/ Propose(t)
        PROVE  PostInv'
    BY <1>2, <1>9 DEF ReadObject, LoadRead, LoadSettled, Propose, claimVars, metaVars
  <1>10. CASE EditByOthers \/ Tick \/ UNCHANGED vars
    BY <1>2, <1>10 DEF EditByOthers, Tick, vars, claimVars, metaVars
  <1> QED BY <1>3, <1>4, <1>5, <1>6, <1>7, <1>8, <1>9, <1>10 DEF Next
-----------------------------------------------------------------------------
\* What was read, shown, approved and held.

LEMMA ValuesTyped ==
  ASSUME TypeOK
  PROVE  /\ meta \in Version /\ meta.object \in Nat /\ meta.version \in Nat /\ meta # Unread
         /\ \A t \in Turns : value[t] # Unread => value[t].object \in Nat /\ value[t].version \in Nat
         /\ \A t \in Turns : expected[t] \in Nat /\ atClaim[t] \in Nat /\ landedAt[t] \in Nat
  BY DEF TypeOK, Version, Unread

\* Meta only moves on.
LEMMA MetaGrows ==
  DashboardInv /\ [Next]_vars =>
    /\ meta'.object >= meta.object /\ meta'.version >= meta.version
    /\ meta'.object <= meta'.version
  <1> SUFFICES ASSUME DashboardInv, [Next]_vars
               PROVE  /\ meta'.object >= meta.object /\ meta'.version >= meta.version
                      /\ meta'.object <= meta'.version
    OBVIOUS
  <1>1. TypeOK /\ meta.object \in Nat /\ meta.version \in Nat /\ meta.object <= meta.version
    BY ValuesTyped DEF DashboardInv, ValueInv
  <1>2. CASE UNCHANGED meta
    BY <1>1, <1>2
  <1>3. ASSUME NEW p \in Turns, Land(p) PROVE meta'.object \in {meta.object, meta.version + 1}
                                              /\ meta'.version = meta.version + 1
    BY <1>3 DEF Land
  <1>4. CASE EditByOthers
    BY <1>1, <1>4 DEF EditByOthers
  <1>5. ASSUME NEW t \in Turns, ReadObject(t) \/ LoadRead(t) \/ LoadSettled(t) \/ Propose(t)
        PROVE  UNCHANGED meta
    BY <1>5 DEF ReadObject, LoadRead, LoadSettled, Propose, metaVars
  <1>6. ASSUME NEW q \in Requests, NEW p \in Turns, NEW who \in Owners,
               ConfirmDisabled(q, p, who) \/ Cancel(q, p, who) \/ Confirm(q, p, who)
        PROVE  UNCHANGED meta
    BY <1>6 DEF ConfirmDisabled, Cancel, Confirm, metaVars
  <1>7. ASSUME NEW q \in Requests,
               \/ CheckDrift(q) \/ Retry(q) \/ Refuse(q) \/ GiveUp(q)
               \/ Acknowledge(q) \/ Verify(q) \/ RecordAudit(q)
        PROVE  UNCHANGED meta
    BY <1>7 DEF CheckDrift, Retry, Refuse, GiveUp, Acknowledge, Verify, RecordAudit, metaVars
  <1>8. CASE Restart \/ Tick \/ UNCHANGED vars
    BY <1>2, <1>8 DEF Restart, Tick, vars, metaVars
  <1> QED BY <1>1, <1>2, <1>3, <1>4, <1>5, <1>6, <1>7, <1>8 DEF Next

\* Meta moves on, and a plan is sent only if its object was found as shown.
LEMMA ValuesKeep ==
  ASSUME TypeOK, TypeOK', ClaimInv, ValueInv, UNCHANGED <<value, expected, approver, atClaim>>,
         meta'.object >= meta.object, meta'.version >= meta.version, meta'.object <= meta'.version,
         \A p \in Turns \ Creates : Posts(p)' > 0 /\ atClaim[p] # expected[p] => Posts(p) > 0,
         \A q \in Requests : request'[q].pc = "posting" =>
           \/ request[q].pc = "posting" /\ request'[q].plan = request[q].plan
           \/ request'[q].plan \in Creates
           \/ atClaim[request'[q].plan] = expected[request'[q].plan]
  PROVE  ValueInv'
  <1>1. \A t \in Turns : value'[t] # Unread =>
          value'[t].object <= meta'.object /\ value'[t].version <= meta'.version
    BY ValuesTyped, TypeOK' DEF ValueInv, TypeOK
  <1>2. ASSUME NEW p \in Turns
        PROVE  /\ expected'[p] <= meta'.object
               /\ approver'[p] # Nobody => expected'[p] <= atClaim'[p] /\ atClaim'[p] <= meta'.object
    BY ValuesTyped, TypeOK' DEF ValueInv, TypeOK
  <1>3. \A p \in Turns : p \notin Creates /\ Posts(p)' > 0 => atClaim'[p] = expected'[p]
    BY DEF ValueInv
  <1>4. \A q \in Requests : request'[q].pc = "posting" /\ request'[q].plan \notin Creates =>
          atClaim'[request'[q].plan] = expected'[request'[q].plan]
    BY DEF ValueInv
  <1> QED BY <1>1, <1>2, <1>3, <1>4 DEF ValueInv

LEMMA NextValues == DashboardInv /\ [Next]_vars => ValueInv'
  <1> SUFFICES ASSUME DashboardInv, [Next]_vars PROVE ValueInv'
    OBVIOUS
  <1>1. /\ TypeOK /\ TypeOK' /\ StoreInv /\ LoadInv /\ ClaimInv /\ PostInv /\ ValueInv
        /\ Nobody \notin Owners
        /\ meta'.object >= meta.object /\ meta'.version >= meta.version
        /\ meta'.object <= meta'.version
    BY NextTypes, MetaGrows, DashboardAssumption DEF DashboardInv
  <1>2. CASE UNCHANGED <<value, expected, approver, atClaim, inFlight, landed, request>>
    BY <1>1, <1>2, ValuesKeep DEF Posts
  <1>3. ASSUME NEW t \in Turns, LoadRead(t) PROVE ValueInv'
    <2>1. /\ value' = [value EXCEPT ![t] = meta]
          /\ UNCHANGED <<expected, approver, atClaim, inFlight, landed, request, meta>>
      BY <1>3 DEF LoadRead, metaVars, claimVars
    <2>2. \A u \in Turns : value'[u] # Unread =>
            value'[u].object <= meta.object /\ value'[u].version <= meta.version
      BY <1>1, <2>1, ValuesTyped DEF ValueInv, TypeOK
    <2> QED BY <1>1, <2>1, <2>2 DEF ValueInv, Posts
  <1>4. ASSUME NEW t \in Turns, Propose(t) PROVE ValueInv'
    <2>1. /\ expected' = [expected EXCEPT ![t] = value[awaits[t]].object]
          /\ UNCHANGED <<value, approver, atClaim, inFlight, landed, request, meta>>
          /\ awaits[t] \in Turns /\ value[awaits[t]] # Unread
      BY <1>1, <1>4 DEF Propose, metaVars, claimVars, LoadInv, TypeOK, Cache!CacheOK
    <2>2. approver[t] = Nobody /\ Posts(t) = 0
      BY <1>1, <1>4, StageWriteKeeps DEF Propose, claimVars, PostInv
    <2>3. \A q \in Requests : request[q].pc = "posting" => request[q].plan # t /\ request[q].plan \in Turns
      BY <1>1, <2>2 DEF ClaimInv
    <2>4. expected'[t] <= meta.object /\ \A p \in Turns \ {t} : expected'[p] = expected[p]
      BY <1>1, <2>1 DEF ValueInv, TypeOK
    <2>5. \A p \in Turns :
            /\ expected'[p] <= meta.object
            /\ approver[p] # Nobody => expected'[p] <= atClaim[p] /\ atClaim[p] <= meta.object
            /\ p \notin Creates /\ Posts(p) > 0 => atClaim[p] = expected'[p]
      BY <1>1, <2>2, <2>4, PostsTyped DEF ValueInv
    <2>6. \A q \in Requests : request[q].pc = "posting" /\ request[q].plan \notin Creates =>
            atClaim[request[q].plan] = expected'[request[q].plan]
      BY <1>1, <2>3, <2>4 DEF ValueInv
    <2> QED BY <1>1, <2>1, <2>5, <2>6 DEF ValueInv, Posts
  <1>5. ASSUME NEW q \in Requests, NEW p \in Turns, NEW who \in Owners,
               ConfirmDisabled(q, p, who) \/ Cancel(q, p, who)
        PROVE  ValueInv'
    <2>1. UNCHANGED <<value, expected, approver, atClaim, inFlight, landed>>
      BY <1>5 DEF ConfirmDisabled, Cancel, turnVars, claimVars, metaVars
    <2>2. \A r \in Requests : request'[r].pc = "posting" => request'[r] = request[r]
      BY <1>1, <1>5, PostsTyped DEF ConfirmDisabled, Cancel, Start, Done
    <2> QED BY <1>1, <2>1, <2>2, ValuesKeep DEF Posts
  <1>6. ASSUME NEW q \in Requests, NEW p \in Turns, NEW who \in Owners, Confirm(q, p, who)
        PROVE  ValueInv'
    <2>1. UNCHANGED <<value, expected, landed, meta>>
      BY <1>6 DEF Confirm, turnVars
    <2>2. CASE ~Store!taken(p, who)
      <3>1. UNCHANGED <<approver, atClaim, inFlight>>
        BY <1>6, <2>2 DEF Confirm, claimVars
      <3>2. \A r \in Requests : request'[r].pc = "posting" => request'[r] = request[r]
        BY <1>1, <1>6, <2>2, PostsTyped DEF Confirm, Start, Done
      <3> QED BY <1>1, <2>1, <3>1, <3>2, ValuesKeep DEF Posts
    <2>3. CASE Store!taken(p, who)
      <3>1. /\ approver' = [approver EXCEPT ![p] = who] /\ approver[p] = Nobody /\ Posts(p) = 0
            /\ atClaim' = [atClaim EXCEPT ![p] = meta.object]
            /\ \/ p \in Creates /\ Post(p) /\ Start(q, p, "posting")
               \/ p \notin Creates /\ Start(q, p, "checking") /\ UNCHANGED inFlight
        BY <1>1, <1>6, <2>3, TakenWrite DEF Confirm, StoreInv, PostInv
      <3>2. /\ atClaim'[p] = meta.object
            /\ \A t \in Turns \ {p} : atClaim'[t] = atClaim[t] /\ approver'[t] = approver[t]
        BY <1>1, <3>1 DEF TypeOK
      <3>3. \A r \in Requests : request[r].pc = "posting" => request[r].plan \in Turns \ {p}
        BY <1>1, <3>1 DEF ClaimInv
      <3>4. \A r \in Requests : request'[r].pc = "posting" =>
              request'[r] = request[r] \/ request'[r].plan \in Creates
        BY <1>1, <3>1, PostsTyped DEF Start
      <3>5. \A t \in Turns \ {p} : Posts(t)' = Posts(t)
        BY <1>1, <2>1, <3>1, PostsTyped DEF Post, Posts, TypeOK
      <3>6. p \notin Creates => Posts(p)' = 0
        BY <2>1, <3>1 DEF Posts
      <3>7. ASSUME NEW t \in Turns
            PROVE  /\ expected[t] <= meta.object
                   /\ approver'[t] # Nobody => expected[t] <= atClaim'[t] /\ atClaim'[t] <= meta.object
                   /\ t \notin Creates /\ Posts(t)' > 0 => atClaim'[t] = expected[t]
        BY <1>1, <3>2, <3>5, <3>6, ValuesTyped DEF ValueInv
      <3>8. ASSUME NEW r \in Requests, request'[r].pc = "posting", request'[r].plan \notin Creates
            PROVE  atClaim'[request'[r].plan] = expected[request'[r].plan]
        BY <1>1, <3>2, <3>3, <3>4, <3>8 DEF ValueInv
      <3> QED BY <1>1, <2>1, <3>7, <3>8 DEF ValueInv
    <2> QED BY <2>2, <2>3
  <1>7. ASSUME NEW q \in Requests, CheckDrift(q) PROVE ValueInv'
    <2>1. PICK p \in Turns : p = request[q].plan
      BY <1>1, <1>7 DEF CheckDrift, ClaimInv
    <2>2. UNCHANGED <<value, expected, landed, approver, atClaim, meta>>
      BY <1>7 DEF CheckDrift, turnVars, claimVars
    <2>3. CASE UNCHANGED inFlight /\ (Goto(q, "failed") \/ Goto(q, "refused_stale"))
      <3>1. \A r \in Requests : request'[r].pc = "posting" => request'[r] = request[r]
        BY <1>1, <2>3, PostsTyped DEF Goto, RequestType
      <3> QED BY <1>1, <2>2, <2>3, <3>1, ValuesKeep DEF Posts
    <2>4. CASE ~driftOf(p) /\ Post(p) /\ Start(q, p, "posting")
      <3>1. approver[p] # Nobody /\ meta.object = expected[p]
        BY <1>1, <1>7, <2>1, <2>4 DEF CheckDrift, ClaimInv, driftOf
      <3>2. atClaim[p] = expected[p]
        BY <1>1, <3>1, ValuesTyped DEF ValueInv
      <3>3. \A t \in Turns \ {p} : Posts(t)' = Posts(t)
        BY <1>1, <2>2, <2>4 DEF Post, Posts, TypeOK
      <3>4. \A r \in Requests : request'[r].pc = "posting" =>
              request'[r] = request[r] \/ request'[r].plan = p
        BY <1>1, <2>4, PostsTyped DEF Start
      <3> QED BY <1>1, <2>2, <3>2, <3>3, <3>4, ValuesKeep
    <2> QED BY <1>7, <2>1, <2>3, <2>4 DEF CheckDrift
  <1>8. ASSUME NEW q \in Requests, Retry(q) PROVE ValueInv'
    <2>1. PICK p \in Turns : p = request[q].plan
      BY <1>1, <1>8 DEF Retry, ClaimInv
    <2>2. UNCHANGED <<value, expected, landed, approver, atClaim, meta>>
      BY <1>8 DEF Retry, turnVars, claimVars
    <2>3. atClaim[p] = expected[p]
      BY <1>1, <1>8, <2>1 DEF Retry, mayResend, ValueInv
    <2>4. \A t \in Turns \ {p} : Posts(t)' = Posts(t)
      BY <1>1, <1>8, <2>1, <2>2 DEF Retry, Post, Posts, TypeOK
    <2>5. \A r \in Requests : request'[r].pc = "posting" =>
            request[r].pc = "posting" /\ request'[r].plan = request[r].plan
      BY <1>1, <1>8, PostsTyped DEF Retry, RequestType
    <2> QED BY <1>1, <2>2, <2>3, <2>4, <2>5, ValuesKeep
  <1>9. ASSUME NEW q \in Requests,
               Refuse(q) \/ GiveUp(q) \/ Acknowledge(q) \/ Verify(q) \/ RecordAudit(q)
        PROVE  ValueInv'
    <2>1. /\ UNCHANGED <<value, expected, landed, approver, atClaim>>
          /\ \/ UNCHANGED inFlight
             \/ inFlight' = [inFlight EXCEPT ![request[q].plan] = @ - 1]
      BY <1>9 DEF Refuse, GiveUp, Acknowledge, Verify, RecordAudit, turnVars, claimVars, metaVars
    <2>2. inFlight \in [Turns -> Nat] /\ landed \in [Turns -> Nat]
      BY <1>1, PostsTyped DEF TypeOK
    <2>3. \A t \in Turns : Posts(t)' > 0 => Posts(t) > 0
      BY <2>1, <2>2 DEF Posts
    <2>4. \A r \in Requests : request'[r].pc = "posting" => request'[r] = request[r]
      BY <1>1, <1>9, PostsTyped
      DEF Refuse, GiveUp, Acknowledge, Verify, RecordAudit, Goto, Done, RequestType
    <2> QED BY <1>1, <2>1, <2>3, <2>4, ValuesKeep
  <1>10. ASSUME NEW p \in Turns, Land(p) PROVE ValueInv'
    <2>1. UNCHANGED <<value, expected, approver, atClaim, request>>
      BY <1>10 DEF Land, turnVars, claimVars
    <2>2. \A t \in Turns : Posts(t)' = Posts(t)
      BY <1>1, <1>10, PostsTyped DEF Land, Posts, TypeOK
    <2> QED BY <1>1, <2>1, <2>2, ValuesKeep
  <1>11. CASE Restart
    <2>1. UNCHANGED <<value, expected, approver, atClaim, inFlight, landed>>
      BY <1>11 DEF Restart, claimVars, metaVars
    <2>2. \A r \in Requests : request'[r].pc = "posting" => request'[r] = request[r]
      BY <1>11 DEF Restart, Done
    <2> QED BY <1>1, <2>1, <2>2, ValuesKeep DEF Posts
  <1>12. ASSUME NEW t \in Turns, ReadObject(t) \/ LoadSettled(t) PROVE ValueInv'
    BY <1>2, <1>12 DEF ReadObject, LoadSettled, claimVars, metaVars, turnVars
  <1>13. CASE EditByOthers \/ Tick \/ UNCHANGED vars
    BY <1>2, <1>13 DEF EditByOthers, Tick, vars, turnVars, claimVars, metaVars
  <1> QED BY <1>3, <1>4, <1>5, <1>6, <1>7, <1>8, <1>9, <1>10, <1>11, <1>12, <1>13 DEF Next
-----------------------------------------------------------------------------
\* What is cached is at least as fresh as what was told of.

LEMMA FreshTyped ==
  ASSUME TypeOK
  PROVE  /\ meta.version \in Nat /\ Unread.version = -1
         /\ \A o \in Owners : acked[o] \in Nat
         /\ \A t \in Turns : floor[t] \in Nat /\ landedAt[t] \in Nat /\ landed[t] \in Nat
         /\ \A t \in Turns : value[t].version \in Nat \/ value[t] = Unread
         /\ \A t \in Turns : owner[t] \in Owners /\ awaits[t] \in Turns \cup {NoLoad}
         /\ \A k \in Keys : entries[k].load \in Turns \cup {NoLoad}
         /\ \A o \in Owners : tenantKeys[o] \subseteq Keys
  BY DashboardAssumption DEF TypeOK, Unread, Cache!CacheOK

\* Nobody is told of anything, and entries only leave.
LEMMA FreshKeeps ==
  ASSUME TypeOK, TypeOK', ClaimInv, FreshInv, meta'.version >= meta.version,
         UNCHANGED <<acked, floor, landed, landedAt, awaits, value>>,
         \A p \in Turns : approver[p] # Nobody => approver'[p] = approver[p],
         \A k \in Keys : entries'[k].load \in {entries[k].load, NoLoad},
         \A q \in Requests : request'[q].pc = "verifying" => landed[request'[q].plan] > 0,
         \A q \in Requests : request'[q].pc = "applied" => request'[q] = request[q]
  PROVE  FreshInv'
  <1>1. /\ \A o \in Owners : acked'[o] <= meta'.version
        /\ \A p \in Turns : landedAt'[p] <= meta'.version /\ (landed'[p] > 0 => landedAt'[p] > 0)
    BY FreshTyped, TypeOK' DEF FreshInv, TypeOK
  <1>2. \A q \in Requests : request'[q].pc \in {"verifying", "applied"} => landed'[request'[q].plan] > 0
    BY DEF FreshInv
  <1>3. \A t \in Turns :
          /\ floor'[t] <= acked'[owner[t]]
          /\ awaits'[t] # NoLoad /\ value'[awaits'[t]] # Unread => value'[awaits'[t]].version >= floor'[t]
    BY DEF FreshInv
  <1>4. ASSUME NEW o \in Owners, NEW k \in tenantKeys[o],
               entries'[k].load # NoLoad, value'[entries'[k].load] # Unread
        PROVE  /\ acked'[o] <= value'[entries'[k].load].version
               /\ \A q \in Requests : request'[q].pc = "applied" /\ approver'[request'[q].plan] = o =>
                    value'[entries'[k].load].version >= landedAt'[request'[q].plan]
    <2>1. /\ entries'[k].load = entries[k].load
          /\ Fresh(o, value[entries[k].load].version)
      BY <1>4, FreshTyped DEF FreshInv
    <2>2. \A q \in Requests : request'[q].pc = "applied" =>
            request'[q] = request[q] /\ approver'[request[q].plan] = approver[request[q].plan]
      BY DEF ClaimInv
    <2> QED BY <2>1, <2>2 DEF Fresh
  <1> QED BY <1>1, <1>2, <1>3, <1>4 DEF FreshInv, Fresh

LEMMA NextFresh == DashboardInv /\ [Next]_vars => FreshInv'
  <1> SUFFICES ASSUME DashboardInv, [Next]_vars PROVE FreshInv'
    OBVIOUS
  <1>1. /\ TypeOK /\ TypeOK' /\ StoreInv /\ LoadInv /\ ClaimInv /\ PostInv /\ FreshInv
        /\ meta'.version >= meta.version /\ NoLoad \notin Turns /\ Nobody \notin Owners
    BY NextTypes, MetaGrows, DashboardAssumption DEF DashboardInv
  <1>2. CASE UNCHANGED <<acked, floor, landed, landedAt, awaits, value, entries, approver, request>>
    BY <1>1, <1>2, FreshKeeps DEF FreshInv
  <1>3. ASSUME NEW t \in Turns, ReadObject(t) PROVE FreshInv'
    <2>1. PICK k \in tenantKeys[owner[t]] : Cache!getOrLoad(t, k)
      BY <1>3 DEF ReadObject
    <2>2. k \in Keys /\ owner[t] \in Owners
      BY <1>1, <2>1, FreshTyped
    <2>3. /\ UNCHANGED <<now, value, acked, landed, landedAt, approver, request, meta>>
          /\ floor' = [floor EXCEPT ![t] = acked[owner[t]]]
          /\ awaits[t] = NoLoad /\ value[t] = Unread
      BY <1>1, <1>3, <2>1, <2>2, GetOrLoadEffect
      DEF ReadObject, LoadInv, metaVars, claimVars
    <2>4. /\ floor \in [Turns -> Nat] /\ awaits \in [Turns -> Turns \cup {NoLoad}]
      BY <1>1 DEF TypeOK, Cache!CacheOK
    <2> DEFINE Effect == /\ awaits'[t] # NoLoad /\ value[awaits'[t]] # Unread =>
                              entries[k].load = awaits'[t]
                         /\ \A u \in Turns \ {t} : awaits'[u] = awaits[u]
                         /\ \A j \in Keys : \/ entries'[j].load \in {entries[j].load, NoLoad}
                                            \/ value[entries'[j].load] = Unread
    <2>5. Effect
      <3>1. CASE /\ UNCHANGED load
                 /\ entries[k].load # NoLoad /\ awaits' = [awaits EXCEPT ![t] = entries[k].load]
                 /\ \A j \in Keys : entries'[j].load \in {entries[j].load, NoLoad}
        BY <2>4, <3>1
      <3>2. CASE /\ load' = [load EXCEPT ![t] = "loading"] /\ awaits' = [awaits EXCEPT ![t] = t]
                 /\ \A j \in Keys \ {k} : entries'[j].load \in {entries[j].load, NoLoad}
                 /\ entries'[k].load \in {t, NoLoad}
        <4>1. \A j \in Keys : \/ entries'[j].load \in {entries[j].load, NoLoad}
                              \/ entries'[j].load = t
          BY <2>2, <3>2
        <4> QED BY <2>3, <2>4, <3>2, <4>1
      <3> QED BY <1>1, <2>1, <2>2, <2>3, <3>1, <3>2, GetOrLoadEffect
    <2>6. awaits'[t] # NoLoad /\ value[awaits'[t]] # Unread =>
            value[awaits'[t]].version >= acked[owner[t]]
      BY <1>1, <2>1, <2>2, <2>5 DEF FreshInv, Fresh
    <2>7. ASSUME NEW u \in Turns
          PROVE  /\ floor'[u] <= acked[owner[u]]
                 /\ awaits'[u] # NoLoad /\ value[awaits'[u]] # Unread =>
                      value[awaits'[u]].version >= floor'[u]
      BY <1>1, <2>3, <2>4, <2>5, <2>6, FreshTyped DEF FreshInv
    <2>8. ASSUME NEW o \in Owners, NEW j \in tenantKeys[o],
                 entries'[j].load # NoLoad, value[entries'[j].load] # Unread
          PROVE  Fresh(o, value[entries'[j].load].version)
      BY <1>1, <2>5, <2>8, FreshTyped DEF FreshInv
    <2> QED BY <1>1, <2>3, <2>7, <2>8 DEF FreshInv, Fresh
  <1>4. ASSUME NEW t \in Turns, LoadRead(t) PROVE FreshInv'
    <2>1. /\ value' = [value EXCEPT ![t] = meta]
          /\ UNCHANGED <<acked, floor, landed, landedAt, awaits, entries, approver, request, meta>>
      BY <1>4 DEF LoadRead, cacheVars, metaVars, claimVars
    <2>2. value'[t] = meta /\ \A u \in Turns \ {t} : value'[u] = value[u]
      BY <1>1, <2>1 DEF TypeOK
    <2>3. \A o \in Owners : Fresh(o, meta.version)
      <3>1. \A q \in Requests : request[q].pc = "applied" => request[q].plan \in Turns
        BY <1>1 DEF ClaimInv
      <3> QED BY <1>1, <3>1, FreshTyped DEF FreshInv, Fresh
    <2>4. ASSUME NEW u \in Turns, awaits[u] # NoLoad, value'[awaits[u]] # Unread
          PROVE  value'[awaits[u]].version >= floor[u]
      <3>1. floor[u] <= meta.version
        BY <1>1, FreshTyped DEF FreshInv
      <3> QED BY <1>1, <2>2, <2>4, <3>1, FreshTyped DEF FreshInv
    <2>5. ASSUME NEW o \in Owners, NEW k \in tenantKeys[o],
                 entries[k].load # NoLoad, value'[entries[k].load] # Unread
          PROVE  Fresh(o, value'[entries[k].load].version)
      BY <1>1, <2>2, <2>3, <2>5, FreshTyped DEF FreshInv
    <2> QED BY <1>1, <2>1, <2>4, <2>5 DEF FreshInv, Fresh
  <1>5. ASSUME NEW p \in Turns, Land(p) PROVE FreshInv'
    <2>1. /\ UNCHANGED <<acked, floor, awaits, value, entries, approver, request>>
          /\ meta'.version = meta.version + 1
          /\ landed' = [landed EXCEPT ![p] = @ + 1]
          /\ landedAt' = [landedAt EXCEPT ![p] = IF @ = 0 THEN meta.version + 1 ELSE @]
      BY <1>5 DEF Land, cacheVars, turnVars, claimVars
    <2>2. landed \in [Turns -> Nat] /\ landedAt \in [Turns -> Nat] /\ meta.version \in Nat
      BY <1>1 DEF TypeOK
    <2>3. /\ \A t \in Turns \ {p} : landed'[t] = landed[t] /\ landedAt'[t] = landedAt[t]
          /\ landedAt'[p] = IF landedAt[p] = 0 THEN meta.version + 1 ELSE landedAt[p]
      BY <2>1, <2>2
    <2>4. \A t \in Turns : /\ landedAt'[t] <= meta'.version /\ (landed'[t] > 0 => landedAt'[t] > 0)
                           /\ landed[t] > 0 => landed'[t] > 0 /\ landedAt'[t] = landedAt[t]
      BY <1>1, <2>1, <2>2, <2>3 DEF FreshInv
    <2>5. \A q \in Requests : request[q].pc \in {"verifying", "applied"} =>
            request[q].plan \in Turns /\ landed[request[q].plan] > 0
      BY <1>1 DEF FreshInv, ClaimInv
    <2>6. \A o \in Owners : acked[o] <= meta'.version
      BY <1>1, <2>1, FreshTyped DEF FreshInv
    <2>7. ASSUME NEW o \in Owners, NEW k \in tenantKeys[o],
                 entries[k].load # NoLoad, value[entries[k].load] # Unread
          PROVE  /\ acked[o] <= value[entries[k].load].version
                 /\ \A q \in Requests : request[q].pc = "applied" /\ approver[request[q].plan] = o =>
                      value[entries[k].load].version >= landedAt'[request[q].plan]
      BY <1>1, <2>4, <2>5, <2>7 DEF FreshInv, Fresh
    <2> QED BY <1>1, <2>1, <2>4, <2>5, <2>6, <2>7 DEF FreshInv, Fresh
  <1>6. ASSUME NEW q \in Requests, Verify(q) PROVE FreshInv'
    <2>1. PICK p \in Turns : p = request[q].plan /\ approver[p] \in Owners /\ landed[p] > 0
      BY <1>1, <1>6 DEF Verify, ClaimInv, FreshInv, TypeOK
    <2>2. /\ UNCHANGED <<acked, floor, landed, landedAt, awaits, value, approver, meta>>
          /\ \A j \in Keys : entries'[j].load \in {entries[j].load, NoLoad}
          /\ \A j \in tenantKeys[approver[p]] : entries'[j].load = NoLoad
      BY <1>1, <1>6, <2>1, InvalidateEffect, FreshTyped
      DEF Verify, turnVars, metaVars, claimVars
    <2>3. \A r \in Requests : request'[r] = request[r] \/ (r = q /\ request'[r].plan = p)
      BY <1>1, <1>6, <2>1, PostsTyped DEF Verify, Goto, RequestType
    <2>4. ASSUME NEW o \in Owners, NEW k \in tenantKeys[o],
                 entries'[k].load # NoLoad, value[entries'[k].load] # Unread
          PROVE  /\ acked[o] <= value[entries'[k].load].version
                 /\ \A r \in Requests : request'[r].pc = "applied" /\ approver[request'[r].plan] = o =>
                      value[entries'[k].load].version >= landedAt[request'[r].plan]
      <3>1. entries'[k].load = entries[k].load /\ o # approver[p]
        BY <1>1, <2>2, <2>4, FreshTyped
      <3> QED BY <1>1, <2>3, <2>4, <3>1 DEF FreshInv, Fresh
    <2>5. \A r \in Requests : request'[r].pc \in {"verifying", "applied"} => landed[request'[r].plan] > 0
      BY <1>1, <2>1, <2>3 DEF FreshInv
    <2> QED BY <1>1, <2>2, <2>4, <2>5 DEF FreshInv, Fresh
  <1>7. ASSUME NEW q \in Requests, RecordAudit(q) PROVE FreshInv'
    <2>1. PICK p \in Turns : p = request[q].plan
      BY <1>1, <1>7 DEF RecordAudit, Outcomes, ClaimInv
    <2>2. /\ UNCHANGED <<floor, landed, landedAt, awaits, value, approver, meta, entries>>
          /\ request' = [request EXCEPT ![q] = Done]
          /\ \/ UNCHANGED acked
             \/ /\ request[q].pc = "applied" /\ landedAt[p] > acked[approver[p]]
                /\ acked' = [acked EXCEPT ![approver[p]] = landedAt[p]]
      BY <1>7, <2>1 DEF RecordAudit, cacheVars, turnVars, metaVars, claimVars
    <2>3. \A r \in Requests : request'[r].pc \in {"verifying", "applied"} => request'[r] = request[r]
      BY <1>1, <2>2, PostsTyped DEF Done
    <2>4. CASE UNCHANGED acked
      BY <1>1, <2>2, <2>3, <2>4, FreshKeeps DEF FreshInv
    <2>5. CASE /\ request[q].pc = "applied" /\ landedAt[p] > acked[approver[p]]
               /\ acked' = [acked EXCEPT ![approver[p]] = landedAt[p]]
      <3>1. approver[p] \in Owners /\ acked \in [Owners -> Nat]
        BY <1>1, <2>1, <2>5 DEF ClaimInv, TypeOK
      <3>2. ASSUME NEW o \in Owners
            PROVE  acked'[o] = acked[o] \/ (o = approver[p] /\ acked'[o] = landedAt[p])
        BY <2>5, <3>1
      <3>3. \A o \in Owners : acked'[o] <= meta.version /\ acked[o] <= acked'[o]
        BY <1>1, <2>5, <3>1, <3>2, FreshTyped DEF FreshInv
      <3>4. \A t \in Turns : floor[t] <= acked'[owner[t]]
        BY <1>1, <3>1, <3>3, FreshTyped, TypeOK' DEF FreshInv, TypeOK
      <3>5. ASSUME NEW o \in Owners, NEW k \in tenantKeys[o],
                   entries[k].load # NoLoad, value[entries[k].load] # Unread
            PROVE  /\ acked'[o] <= value[entries[k].load].version
                   /\ \A r \in Requests : request'[r].pc = "applied" /\ approver[request'[r].plan] = o =>
                        value[entries[k].load].version >= landedAt[request'[r].plan]
        <4>1. Fresh(o, value[entries[k].load].version)
          BY <1>1, <3>5 DEF FreshInv
        <4> QED BY <2>1, <2>3, <2>5, <3>2, <4>1 DEF Fresh
      <3> QED BY <1>1, <2>2, <2>3, <3>3, <3>4, <3>5 DEF FreshInv, Fresh
    <2> QED BY <2>2, <2>4, <2>5
  <1>8. ASSUME NEW t \in Turns, LoadSettled(t) PROVE FreshInv'
    <2>1. /\ UNCHANGED <<acked, floor, landed, landedAt, awaits, value, approver, request>>
          /\ \A j \in Keys : entries'[j].load \in {entries[j].load, NoLoad}
      BY <1>1, <1>8, SettledEffect DEF LoadSettled, turnVars, metaVars, claimVars
    <2> QED BY <1>1, <2>1, FreshKeeps DEF FreshInv
  <1>9. ASSUME NEW q \in Requests, NEW p \in Turns, NEW who \in Owners,
               ConfirmDisabled(q, p, who) \/ Cancel(q, p, who) \/ Confirm(q, p, who)
        PROVE  FreshInv'
    <2>1. UNCHANGED <<acked, floor, landed, landedAt, awaits, value, entries>>
      BY <1>9 DEF ConfirmDisabled, Cancel, Confirm, cacheVars, turnVars, metaVars
    <2>2. \A t \in Turns : approver[t] # Nobody => approver'[t] = approver[t]
      <3>1. Store!taken(p, who) /\ Store!takeWrite(p, who) => approver[p] = Nobody
        BY <1>1, TakenWrite DEF StoreInv
      <3> QED BY <1>1, <1>9, <3>1 DEF ConfirmDisabled, Cancel, Confirm, claimVars, TypeOK
    <2>3. \A r \in Requests : request'[r].pc \in {"verifying", "applied"} => request'[r] = request[r]
      BY <1>1, <1>9, PostsTyped DEF ConfirmDisabled, Cancel, Confirm, Start, Done
    <2> QED BY <1>1, <2>1, <2>2, <2>3, FreshKeeps DEF FreshInv
  <1>10. ASSUME NEW q \in Requests, CheckDrift(q) \/ Retry(q) \/ Refuse(q) \/ GiveUp(q) \/ Acknowledge(q)
         PROVE  FreshInv'
    <2>1. UNCHANGED <<acked, floor, landed, landedAt, awaits, value, entries, approver>>
      BY <1>10 DEF CheckDrift, Retry, Refuse, GiveUp, Acknowledge, cacheVars, turnVars, metaVars, claimVars
    <2>2. \A r \in Requests :
            \/ request'[r].pc \notin {"verifying", "applied"} \/ request'[r] = request[r]
            \/ request'[r].pc = "verifying" /\ landed[request'[r].plan] > 0
      BY <1>1, <1>10, PostsTyped
      DEF CheckDrift, Retry, Refuse, GiveUp, Acknowledge, Goto, Start, RequestType
    <2> QED BY <1>1, <2>1, <2>2, FreshKeeps DEF FreshInv
  <1>11. CASE Restart
    <2>1. /\ UNCHANGED <<acked, floor, landed, landedAt, awaits, value, approver>>
          /\ \A j \in Keys : entries'[j].load = NoLoad
      BY <1>11 DEF Restart, Cache!NoEntry, metaVars, claimVars
    <2>2. \A r \in Requests : request'[r].pc \notin {"verifying", "applied"} \/ request'[r] = request[r]
      BY <1>11 DEF Restart, Done
    <2> QED BY <1>1, <2>1, <2>2, FreshKeeps DEF FreshInv
  <1>12. ASSUME NEW t \in Turns, Propose(t) PROVE FreshInv'
    BY <1>2, <1>12 DEF Propose, cacheVars, turnVars, metaVars, claimVars
  <1>13. CASE EditByOthers \/ Tick \/ UNCHANGED vars
    BY <1>2, <1>13 DEF EditByOthers, Tick, vars, cacheVars, turnVars, metaVars, claimVars
  <1> QED BY <1>3, <1>4, <1>5, <1>6, <1>7, <1>8, <1>9, <1>10, <1>11, <1>12, <1>13 DEF Next
-----------------------------------------------------------------------------
LEMMA Invariance == Spec => []DashboardInv
  <1>1. DashboardInv /\ [Next]_vars => DashboardInv'
    BY NextTypes, NextStore, NextLoads, NextClaims, NextPosts, NextValues, NextFresh
    DEF DashboardInv
  <1> QED BY InitInv, <1>1, PTL DEF Spec

\* Every variable keeps its type: no POST counter goes below zero or above
\* the attempts of the client, and every plan, load and entry stays one.
THEOREM DashboardTypes == Spec => []TypeOK
  <1>1. DashboardInv => TypeOK
    BY DEF DashboardInv
  <1> QED BY Invariance, <1>1, PTL

\* An update that lands was shown with the object as it was when the user
\* approved it: the drift check rests on the object's values never recurring,
\* so the object found unchanged before the POST was unchanged at the approval
\* (claude/tools.ts:1576-1587).
THEOREM NothingIsOverwrittenUnseen == Spec => []NothingOverwrittenUnseen
  <1>1. DashboardInv => NothingOverwrittenUnseen
    <2> SUFFICES ASSUME DashboardInv, NEW p \in Turns \ Creates, landed[p] > 0
                 PROVE  atClaim[p] = expected[p]
      BY DEF NothingOverwrittenUnseen
    <2>1. TypeOK /\ ValueInv
      BY DEF DashboardInv
    <2>2. Posts(p) > 0
      BY <2>1, PostsTyped DEF Posts
    <2> QED BY <2>1, <2>2 DEF ValueInv
  <1> QED BY Invariance, <1>1, PTL

\* A turn that begins after a write was reported to its owner reads nothing
\* older than that write, whichever entry or load in flight serves it
\* (docs/dashboard.md:431-435).
THEOREM UsersReadTheirWrites == Spec => []ReadYourWrites
  <1>1. DashboardInv => ReadYourWrites
    <2> SUFFICES ASSUME DashboardInv, NEW t \in Turns,
                        awaits[t] # NoLoad, load[awaits[t]] = "done"
                 PROVE  value[awaits[t]].version >= floor[t]
      BY DEF ReadYourWrites
    <2>1. TypeOK /\ LoadInv /\ FreshInv
      BY DEF DashboardInv
    <2>2. awaits[t] \in Turns
      BY <2>1, FreshTyped
    <2> QED BY <2>1, <2>2 DEF LoadInv, FreshInv
  <1> QED BY Invariance, <1>1, PTL

\* No entry of the cache holds the promise of a load that failed
\* (docs/dashboard.md:428).
THEOREM FailuresAreNeverCached == Spec => []FailuresNotCached
  <1>1. DashboardInv => FailuresNotCached
    BY DEF DashboardInv
  <1> QED BY Invariance, <1>1, PTL
-----------------------------------------------------------------------------
\* The refinement. A step that approves nothing and lands nothing may let
\* proposals lapse, and does nothing else that the promise is about.
LEMMA LapseStep ==
  ASSUME StoreInv, pending' \subseteq pending,
         UNCHANGED <<now, order, expiresAt, approver, landed>>
  PROVE  Promise!Next
  BY DEF StoreInv, Promise!Next, Promise!Lapse, Promise!MayLapse

LEMMA ProposeStep ==
  ASSUME TypeOK, StoreInv, NEW t \in Turns, Propose(t)
  PROVE  Promise!Next
  <1>1. /\ Store!stageWrite(t) /\ UNCHANGED <<now, approver, landed>> /\ approver[t] = Nobody
    BY StageWriteKeeps DEF Propose, claimVars, metaVars
  <1>2. /\ order[t] = 0 /\ t \notin pending /\ t \in pending' /\ pending' \subseteq pending \cup {t}
        /\ \A p \in Turns \ {t} : order'[p] = order[p]
        /\ expiresAt' = [expiresAt EXCEPT ![t] = now + Ttl]
    BY <1>1 DEF Store!stageWrite, Store!purge, StoreInv, TypeOK, Store!StoreOK
  <1>3. Promise!Propose(t)
    BY <1>1, <1>2 DEF Promise!Propose, Promise!MayLapse, StoreInv
  <1> QED BY <1>3 DEF Promise!Next

LEMMA ConfirmStep ==
  ASSUME TypeOK, StoreInv, NEW q \in Requests, NEW p \in Turns, NEW who \in Owners, Confirm(q, p, who)
  PROVE  Promise!Next
  <1>1. /\ Store!takeWrite(p, who) /\ pending' \subseteq pending
        /\ UNCHANGED <<now, order, expiresAt, landed>>
    BY StoreOpsShrink DEF Confirm
  <1>2. CASE ~Store!taken(p, who)
    <2>1. UNCHANGED approver
      BY <1>2 DEF Confirm, claimVars
    <2> QED BY <1>1, <2>1, LapseStep
  <1>3. CASE Store!taken(p, who)
    <2>1. /\ p \in pending /\ p \notin pending' /\ owner[p] = who /\ expiresAt[p] > now
          /\ approver' = [approver EXCEPT ![p] = who] /\ approver[p] = Nobody /\ order[p] > 0
      BY <1>1, <1>3, TakenWrite DEF Confirm, StoreInv
    <2>2. /\ approver'[p] = who /\ who # Nobody /\ \A t \in Turns \ {p} : approver'[t] = approver[t]
          /\ expiresAt[p] \in Nat /\ now \in Nat
      BY <2>1, DashboardAssumption DEF TypeOK, Store!StoreOK
    <2>3. Promise!Approve(p)
      BY <1>1, <2>1, <2>2 DEF Promise!Approve, Promise!MayLapse, StoreInv
    <2> QED BY <2>3 DEF Promise!Next
  <1> QED BY <1>2, <1>3

LEMMA LandStep ==
  ASSUME TypeOK, PostInv, NEW p \in Turns, Land(p)
  PROVE  Promise!Next
  <1>1. /\ landed' = [landed EXCEPT ![p] = @ + 1] /\ inFlight[p] > 0
        /\ UNCHANGED <<now, pending, order, expiresAt, approver>>
    BY DEF Land, storeVars, claimVars
  <1>2. approver[p] # Nobody /\ (p \in Creates => landed[p] = 0)
    BY <1>1, PostsTyped DEF PostInv, Posts, MaxPosts
  <1>3. Promise!Land(p)
    BY <1>1, <1>2 DEF Promise!Land
  <1> QED BY <1>1, <1>3 DEF Promise!Next

\* The store, the confirm route and the Meta client implement the promise of
\* the dialog: a change reaches Meta only after its owner approved it, once,
\* before its deadline, and a creation lands at most once.
THEOREM PromiseIsKept == Spec => KeepsPromise
  <1>1. Init => Promise!Init
    BY DEF Init, Store!InitStore, Promise!Init
  <1>2. DashboardInv /\ [Next]_vars => [Promise!Next]_(Promise!vars)
    <2> SUFFICES ASSUME DashboardInv, [Next]_vars PROVE [Promise!Next]_(Promise!vars)
      OBVIOUS
    <2>1. TypeOK /\ StoreInv /\ PostInv
      BY DEF DashboardInv
    <2>2. ASSUME NEW t \in Turns, ReadObject(t) \/ LoadRead(t) \/ LoadSettled(t) PROVE Promise!Next
      BY <2>1, <2>2, LapseStep DEF ReadObject, LoadRead, LoadSettled, storeVars, claimVars, metaVars
    <2>3. ASSUME NEW q \in Requests, NEW p \in Turns, NEW who \in Owners,
                 ConfirmDisabled(q, p, who) \/ Cancel(q, p, who)
          PROVE  Promise!Next
      BY <2>1, <2>3, LapseStep, StoreOpsShrink DEF ConfirmDisabled, Cancel, claimVars, metaVars
    <2>4. ASSUME NEW q \in Requests,
                 \/ CheckDrift(q) \/ Retry(q) \/ Refuse(q) \/ GiveUp(q)
                 \/ Acknowledge(q) \/ Verify(q) \/ RecordAudit(q)
          PROVE  Promise!Next
      BY <2>1, <2>4, LapseStep
      DEF CheckDrift, Retry, Refuse, GiveUp, Acknowledge, Verify, RecordAudit,
          storeVars, claimVars, metaVars
    <2>5. CASE EditByOthers \/ Restart
      BY <2>1, <2>5, LapseStep DEF EditByOthers, Restart, storeVars, claimVars, metaVars
    <2>6. CASE Tick
      <3>1. now' = now + 1 /\ UNCHANGED <<pending, order, expiresAt, approver, landed>>
        BY <2>6 DEF Tick, storeVars, claimVars, metaVars
      <3> QED BY <3>1 DEF Promise!Next, Promise!Tick
    <2>7. CASE UNCHANGED vars
      BY <2>7 DEF vars, storeVars, claimVars, metaVars, Promise!vars
    <2> QED BY <2>1, <2>2, <2>3, <2>4, <2>5, <2>6, <2>7, ProposeStep, ConfirmStep, LandStep DEF Next
  <1> QED BY Invariance, <1>1, <1>2, PTL DEF Spec, KeepsPromise, Promise!Spec
=============================================================================
