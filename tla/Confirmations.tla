--------------------------- MODULE Confirmations ----------------------------
(* The store of writes that wait for a user's approval                     *)
(* (src/src/claude/confirmations.ts): single use, owner-bound, expiring,   *)
(* bounded. The Map keeps insertion order, here the order of staging.      *)
EXTENDS Integers, FiniteSets

CONSTANTS
  Plans,        \* staged plans; each gets a fresh id, so a plan is its id
  Owners,       \* (fbUserId, accountId)
  owner,        \* plan -> who staged it
  Ttl,          \* TTL_MS       (10 min)
  MaxPending    \* MAX_PENDING  (200)

VARIABLES
  now,          \* Date.now()
  pending,      \* the plans in the map
  order,        \* plan -> the how manieth plan staged, 0 when never
  expiresAt     \* plan -> its deadline

storeVars == <<pending, order, expiresAt>>

InitStore ==
  /\ pending = {}
  /\ order = [p \in Plans |-> 0]
  /\ expiresAt = [p \in Plans |-> 0]

StoreOK ==
  /\ pending \subseteq Plans
  /\ order \in [Plans -> Nat] /\ expiresAt \in [Plans -> Nat]
-----------------------------------------------------------------------------
\* purge: drop what has expired, then the oldest beyond MaxPending.
purge(S) ==
  LET live == {p \in S : expiresAt[p] > now}
  IN  {p \in live : Cardinality({q \in live : order[q] > order[p]}) < MaxPending}

\* stageWrite purges before it inserts.
stageWrite(p) ==
  /\ order[p] = 0
  /\ pending' = purge(pending) \cup {p}
  /\ order' = [order EXCEPT ![p] = 1 + Cardinality({q \in Plans : order[q] > 0})]
  /\ expiresAt' = [expiresAt EXCEPT ![p] = now + Ttl]

OwnedBy(p, who) == p \in pending /\ owner[p] = who

takenAnyTime(p, who) == OwnedBy(p, who)   \* mutant
\* takeWrite returns the plan: it is there, its owner asks, in time.
taken(p, who) == OwnedBy(p, who) /\ expiresAt[p] > now

\* takeWrite, whatever it returns: its owner's plan is gone for good.
takeWrite(p, who) ==
  /\ pending' = purge(IF OwnedBy(p, who) THEN pending \ {p} ELSE pending)
  /\ UNCHANGED <<order, expiresAt>>

\* discardWrite: the owner cancels; the deadline is not looked at.
discardWrite(p, who) ==
  /\ pending' = IF OwnedBy(p, who) THEN pending \ {p} ELSE pending
  /\ UNCHANGED <<order, expiresAt>>
=============================================================================
