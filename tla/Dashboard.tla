----------------------------- MODULE Dashboard ------------------------------
(* The writes of the dashboard's assistant, from the read a proposal rests *)
(* on to the change at Meta: chat turns that read through the cache and    *)
(* stage a plan, confirm requests that claim it and apply it, one server   *)
(* process that may restart, and Meta, where others edit too               *)
(* (src/src/dashboard/ai/service.ts, src/src/claude/tools.ts, module       *)
(* Confirmations, module TtlCache).                                        *)
(*                                                                         *)
(* The ad account is an object, which every update changes, and a version, *)
(* which any change moves on; a change gives the object a value it never   *)
(* had, the version it made. A turn stages at most one plan, so a plan is  *)
(* named after its turn.                                                   *)
EXTENDS Integers, FiniteSets

CONSTANTS
  Turns,          \* chat turns
  Creates,        \* the turns that propose a creation; the others an update
  Owners, Nobody, owner,
  Keys,           \* cache keys: (tenant, token, endpoint, parameters)
  tenantKeys,     \* owner -> the keys under its tenant's prefix
  NoLoad,
  Requests,       \* requests to /ai/confirm
  MaxAttempts,    \* POSTs the Meta client sends for an update (maxRetries + 1)
  Ttl, MaxPending, CacheTtl, MaxEntries,
  MaxEdits,       \* bound: changes by others
  MaxRestarts,    \* bound
  MaxTime         \* bound: the clock stops here

ASSUME DashboardAssumption ==
  /\ Creates \subseteq Turns /\ Nobody \notin Owners /\ NoLoad \notin Turns
  /\ owner \in [Turns -> Owners]
  /\ tenantKeys \in [Owners -> SUBSET Keys]
  /\ MaxAttempts \in Nat \ {0} /\ MaxPending \in Nat \ {0} /\ MaxEntries \in Nat \ {0}
  /\ Ttl \in Nat /\ CacheTtl \in Nat

VARIABLES
  now, writesOn,               \* the clock; DASHBOARD_AI_WRITES is not "off"
  pending, order, expiresAt,   \* Confirmations
  entries, load, awaits,       \* TtlCache
  turn,           \* turn -> "idle", "reading" or "over"
  value,          \* load -> what it read, Unread before
  expected,       \* plan -> the object as the plan shows it
  request,        \* request -> [pc, plan, sent]
  inFlight,       \* plan -> POSTs Meta has neither executed nor refused
  meta,           \* [object, version]
  audit,          \* the audit trail: a set of <<plan, outcome>>
  edits, restarts,
  approver,       \* history: plan -> who claimed it
  landed,         \* history: plan -> how often Meta executed it
  landedAt,       \* history: plan -> the version its first execution made
  atClaim,        \* history: plan -> the object when it was claimed
  acked,          \* history: owner -> the version of the last write reported applied to it
  floor           \* history: turn -> what its owner knew of when it began

storeVars == <<pending, order, expiresAt>>
cacheVars == <<entries, load, awaits>>
turnVars == <<turn, value, expected, floor>>
metaVars == <<meta, inFlight, landed, landedAt>>
claimVars == <<approver, atClaim>>
envVars == <<writesOn, edits, restarts>>
vars == <<now, storeVars, cacheVars, turnVars, metaVars, claimVars, envVars,
          request, audit, acked>>

Store == INSTANCE Confirmations WITH Plans <- Turns
Cache == INSTANCE TtlCache WITH Callers <- Turns

Unread == [object |-> -1, version |-> -1]
NoPlan == NoLoad
Outcomes == {"applied", "failed", "rejected", "refused_writes_disabled", "refused_stale"}

TypeOK ==
  /\ now \in Nat /\ writesOn \in BOOLEAN /\ edits \in Nat /\ restarts \in Nat
  /\ Store!StoreOK /\ Cache!CacheOK
  /\ turn \in [Turns -> {"idle", "reading", "over"}]
  /\ value \in [Turns -> [object : Nat, version : Nat] \cup {Unread}]
  /\ expected \in [Turns -> Nat] /\ floor \in [Turns -> Nat] /\ acked \in [Owners -> Nat]
  /\ request \in [Requests ->
       [pc : {"idle", "checking", "posting", "verifying", "done"} \cup Outcomes,
        plan : Turns \cup {NoPlan}, sent : 0..MaxAttempts]]
  /\ inFlight \in [Turns -> 0..MaxAttempts]
  /\ meta \in [object : Nat, version : Nat]
  /\ audit \subseteq Turns \X Outcomes
  /\ approver \in [Turns -> Owners \cup {Nobody}]
  /\ landed \in [Turns -> Nat] /\ landedAt \in [Turns -> Nat] /\ atClaim \in [Turns -> Nat]

Init ==
  /\ now = 0 /\ writesOn \in BOOLEAN /\ edits = 0 /\ restarts = 0
  /\ Store!InitStore /\ Cache!InitCache
  /\ turn = [t \in Turns |-> "idle"]
  /\ value = [t \in Turns |-> Unread]
  /\ expected = [t \in Turns |-> 0]
  /\ floor = [t \in Turns |-> 0] /\ acked = [o \in Owners |-> 0]
  /\ request = [q \in Requests |-> [pc |-> "idle", plan |-> NoPlan, sent |-> 0]]
  /\ inFlight = [t \in Turns |-> 0]
  /\ meta = [object |-> 0, version |-> 0]
  /\ audit = {}
  /\ approver = [t \in Turns |-> Nobody]
  /\ landed = [t \in Turns |-> 0] /\ landedAt = [t \in Turns |-> 0]
  /\ atClaim = [t \in Turns |-> 0]
-----------------------------------------------------------------------------
(* Chat turns.                                                             *)

\* A tool of the turn reads the object, through the cache.
ReadObject(t) ==
  /\ turn[t] = "idle"
  /\ turn' = [turn EXCEPT ![t] = "reading"]
  /\ \E k \in tenantKeys[owner[t]] : Cache!getOrLoad(t, k)
  /\ floor' = [floor EXCEPT ![t] = acked[owner[t]]]
  /\ UNCHANGED <<now, storeVars, value, expected, metaVars, claimVars, envVars,
                 request, audit, acked>>

\* Meta answers the read of a load; the answer is still on its way.
LoadRead(t) ==
  /\ load[t] = "loading" /\ value[t] = Unread
  /\ value' = [value EXCEPT ![t] = meta]
  /\ UNCHANGED <<now, storeVars, cacheVars, turn, expected, floor, metaVars,
                 claimVars, envVars, request, audit, acked>>

LoadSettled(t) ==
  /\ \/ value[t] # Unread /\ Cache!Resolve(t)
     \/ Cache!Reject(t)
  /\ UNCHANGED <<now, storeVars, turnVars, metaVars, claimVars, envVars, request,
                 audit, acked>>

\* A write tool plans from what the read returned, and the plan is staged.
Propose(t) ==
  /\ turn[t] = "reading" /\ load[awaits[t]] = "done"
  /\ turn' = [turn EXCEPT ![t] = "over"]
  /\ expected' = [expected EXCEPT ![t] = value[awaits[t]].object]
  /\ Store!stageWrite(t)
  /\ UNCHANGED <<now, cacheVars, value, floor, metaVars, claimVars, envVars, request,
                 audit, acked>>
-----------------------------------------------------------------------------
(* Confirm requests.                                                       *)

Done == [pc |-> "done", plan |-> NoPlan, sent |-> 0]
Goto(q, place) == request' = [request EXCEPT ![q].pc = place]
Start(q, p, place) ==
  request' = [request EXCEPT ![q] =
                IF place = "done" THEN Done
                ELSE [pc |-> place, plan |-> p, sent |-> IF place = "posting" THEN 1 ELSE 0]]

Post(p) == inFlight' = [inFlight EXCEPT ![p] = @ + 1]

\* An approval while writes are off discards the plan.
ConfirmDisabled(q, p, who) ==
  /\ request[q].pc = "idle" /\ ~writesOn
  /\ Start(q, p, IF Store!OwnedBy(p, who) THEN "refused_writes_disabled" ELSE "done")
  /\ Store!discardWrite(p, who)
  /\ UNCHANGED <<now, cacheVars, turnVars, metaVars, claimVars, envVars, audit, acked>>

\* An approval claims the plan. A creation is sent at once; an update first
\* looks whether the object is still what the user approved.
Confirm(q, p, who) ==
  /\ request[q].pc = "idle" /\ writesOn
  /\ Store!takeWrite(p, who)
  /\ IF Store!taken(p, who)
     THEN /\ approver' = [approver EXCEPT ![p] = who]
          /\ atClaim' = [atClaim EXCEPT ![p] = meta.object]
          /\ \/ p \in Creates /\ Post(p) /\ Start(q, p, "posting")
             \/ p \notin Creates /\ Start(q, p, "checking") /\ UNCHANGED inFlight
     ELSE Start(q, p, "done") /\ UNCHANGED <<claimVars, inFlight>>
  /\ UNCHANGED <<now, cacheVars, turnVars, meta, landed, landedAt, envVars, audit, acked>>

\* The Cancel button.
Cancel(q, p, who) ==
  /\ request[q].pc = "idle"
  /\ Start(q, p, IF Store!OwnedBy(p, who) THEN "rejected" ELSE "done")
  /\ Store!discardWrite(p, who)
  /\ UNCHANGED <<now, cacheVars, turnVars, metaVars, claimVars, envVars, audit, acked>>

driftOverlooked(p) == FALSE                          \* mutant
driftOf(p) == meta.object # expected[p]

\* The read before the write: it fails, or sees a drift, or the POST is sent.
CheckDrift(q) ==
  /\ request[q].pc = "checking"
  /\ LET p == request[q].plan
     IN  \/ Goto(q, "failed") /\ UNCHANGED inFlight
         \/ driftOf(p) /\ Goto(q, "refused_stale") /\ UNCHANGED inFlight
         \/ ~driftOf(p) /\ Post(p) /\ Start(q, p, "posting")
  /\ UNCHANGED <<now, storeVars, cacheVars, turnVars, meta, landed, landedAt, claimVars,
                 envVars, audit, acked>>

\* Meta executes a POST, even one whose sender no longer waits for it.
Land(p) ==
  /\ inFlight[p] > 0
  /\ inFlight' = [inFlight EXCEPT ![p] = @ - 1]
  /\ landed' = [landed EXCEPT ![p] = @ + 1]
  /\ LET next == meta.version + 1
     IN  /\ meta' = [version |-> next, object |-> IF p \in Creates THEN meta.object ELSE next]
         /\ landedAt' = [landedAt EXCEPT ![p] = IF @ = 0 THEN next ELSE @]
  /\ UNCHANGED <<now, storeVars, cacheVars, turnVars, claimVars, envVars, request,
                 audit, acked>>

mayResendOnceMore(q) ==                              \* mutant
  request[q].plan \notin Creates /\ request[q].sent <= MaxAttempts
mayResend(q) == request[q].plan \notin Creates /\ request[q].sent < MaxAttempts

\* An attempt got no answer: the client sends an update again. It may have
\* landed, or land later.
Retry(q) ==
  /\ request[q].pc = "posting" /\ mayResend(q)
  /\ request' = [request EXCEPT ![q].sent = @ + 1]
  /\ Post(request[q].plan)
  /\ UNCHANGED <<now, storeVars, cacheVars, turnVars, meta, landed, landedAt, claimVars,
                 envVars, audit, acked>>

\* Meta refuses the POST and changes nothing.
Refuse(q) ==
  /\ request[q].pc = "posting" /\ inFlight[request[q].plan] > 0
  /\ inFlight' = [inFlight EXCEPT ![request[q].plan] = @ - 1]
  /\ Goto(q, "failed")
  /\ UNCHANGED <<now, storeVars, cacheVars, turnVars, meta, landed, landedAt, claimVars,
                 envVars, audit, acked>>

\* The last attempt gets no answer either.
GiveUp(q) ==
  /\ request[q].pc = "posting"
  /\ ~mayResend(q)
  /\ Goto(q, "failed")
  /\ UNCHANGED <<now, storeVars, cacheVars, turnVars, metaVars, claimVars, envVars,
                 audit, acked>>

\* Meta's success arrives.
Acknowledge(q) ==
  /\ request[q].pc = "posting" /\ landed[request[q].plan] > 0
  /\ Goto(q, "verifying")
  /\ UNCHANGED <<now, storeVars, cacheVars, turnVars, metaVars, claimVars, envVars,
                 audit, acked>>

\* The read after the write returns, or fails, which changes nothing here; the
\* tenant's cached reads are dropped.
Verify(q) ==
  /\ request[q].pc = "verifying"
  /\ Goto(q, "applied")
  /\ Cache!invalidatePrefix(tenantKeys[approver[request[q].plan]])
  /\ UNCHANGED <<now, storeVars, turnVars, metaVars, claimVars, envVars, audit, acked>>

\* recordAudit, which swallows its failure; then the request is answered.
RecordAudit(q) ==
  /\ request[q].pc \in Outcomes
  /\ request' = [request EXCEPT ![q] = Done]
  /\ audit' \in {audit, audit \cup {<<request[q].plan, request[q].pc>>}}
  /\ LET p == request[q].plan
     IN  acked' = IF request[q].pc = "applied" /\ landedAt[p] > acked[approver[p]]
                  THEN [acked EXCEPT ![approver[p]] = landedAt[p]] ELSE acked
  /\ UNCHANGED <<now, storeVars, cacheVars, turnVars, metaVars, claimVars, envVars>>
-----------------------------------------------------------------------------
\* A colleague in Ads Manager or a rule changes the object.
EditByOthers ==
  /\ edits < MaxEdits
  /\ edits' = edits + 1
  /\ meta' = [object |-> meta.version + 1, version |-> meta.version + 1]
  /\ UNCHANGED <<now, storeVars, cacheVars, turnVars, inFlight, landed, landedAt, claimVars,
                 writesOn, restarts, request, audit, acked>>

\* A deploy or a crash: everything in memory is lost, requests and turns too.
Restart ==
  /\ restarts < MaxRestarts
  /\ restarts' = restarts + 1
  /\ writesOn' \in BOOLEAN
  /\ pending' = {}
  /\ entries' = [k \in Keys |-> Cache!NoEntry]
  /\ load' = [t \in Turns |-> IF load[t] = "loading" THEN "failed" ELSE load[t]]
  /\ turn' = [t \in Turns |-> IF turn[t] = "reading" THEN "over" ELSE turn[t]]
  /\ request' = [q \in Requests |-> IF request[q].pc = "idle" THEN request[q]
                                    ELSE Done]
  /\ UNCHANGED <<now, order, expiresAt, awaits, value, expected, floor, metaVars,
                 claimVars, edits, audit, acked>>

Tick ==
  /\ now < MaxTime
  /\ now' = now + 1
  /\ UNCHANGED <<storeVars, cacheVars, turnVars, metaVars, claimVars, envVars,
                 request, audit, acked>>

Next ==
  \/ \E t \in Turns : ReadObject(t) \/ LoadRead(t) \/ LoadSettled(t) \/ Propose(t) \/ Land(t)
  \/ \E q \in Requests :
       \/ \E p \in Turns, who \in Owners :
            ConfirmDisabled(q, p, who) \/ Confirm(q, p, who) \/ Cancel(q, p, who)
       \/ CheckDrift(q) \/ Retry(q) \/ Refuse(q) \/ GiveUp(q)
       \/ Acknowledge(q) \/ Verify(q) \/ RecordAudit(q)
  \/ EditByOthers \/ Restart \/ Tick

Spec == Init /\ [][Next]_vars
-----------------------------------------------------------------------------
\* A change that Meta executed was approved against what Meta held: whatever
\* others edited before the approval, however old the cached read behind the
\* proposal and its approval were, an update that lands was shown with the
\* object as it was when the user approved it (claude/tools.ts:1576-1587).
NothingOverwrittenUnseen ==
  \A p \in Turns \ Creates : landed[p] > 0 => atClaim[p] = expected[p]

\* A turn that begins after a write was reported applied to its owner never reads
\* what Meta held before it: neither out of an entry, nor by joining a load that
\* was in flight across the write (docs/dashboard.md:431-435).
ReadYourWrites ==
  \A t \in Turns :
    awaits[t] # NoLoad /\ load[awaits[t]] = "done" => value[awaits[t]].version >= floor[t]

\* "Failures are never cached" (docs/dashboard.md:428): whatever entry was
\* evicted, dropped or replaced while a load ran, none holds a failed load.
FailuresNotCached == Cache!FailuresNotCached

\* The store, the confirm route and the Meta client together keep the promise
\* of the dialog: owner-bound, in time, single use; a creation lands once.
Promise == INSTANCE ApprovedWrites WITH
  Plans <- Turns, deadline <- expiresAt,
  status <- [p \in Turns |-> IF approver[p] # Nobody THEN "approved"
                             ELSE IF p \in pending THEN "waiting"
                             ELSE IF order[p] = 0 THEN "new" ELSE "lapsed"]
KeepsPromise == Promise!Spec

\* "failed: Meta refused the write; nothing changed" (store/audit-log.ts:28-29).
\* A POST that landed while its answer was lost is recorded the same way.
FailedMeansUnchanged == \A p \in Turns : <<p, "failed">> \in audit => landed[p] = 0
=============================================================================
