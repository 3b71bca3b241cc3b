--------------------------- MODULE ApprovedWrites ---------------------------
(* What the confirmation dialog of the dashboard promises, with no word of *)
(* how: a change to an ad account is proposed, and reaches Meta only after *)
(* its owner approved it, once, before the proposal lapsed.                *)
EXTENDS Integers

CONSTANTS
  Plans,      \* proposed changes
  Creates,    \* those that create an object: not idempotent at Meta
  Owners, Nobody,
  owner,      \* plan -> who it was proposed to
  Ttl         \* how long a proposal may be approved

VARIABLES
  now,
  status,     \* plan -> "new", "waiting", "approved" or "lapsed"
  deadline,   \* plan -> when its proposal lapses
  approver,   \* plan -> who approved it
  landed      \* plan -> how often Meta executed it

vars == <<now, status, deadline, approver, landed>>

Init ==
  /\ now = 0
  /\ status = [p \in Plans |-> "new"]
  /\ deadline = [p \in Plans |-> 0]
  /\ approver = [p \in Plans |-> Nobody]
  /\ landed = [p \in Plans |-> 0]

\* Any waiting proposals but those of S may lapse along with another step.
MayLapse(S) ==
  \A p \in Plans \ S :
    status'[p] # status[p] => status[p] = "waiting" /\ status'[p] = "lapsed"

Propose(p) ==
  /\ status[p] = "new" /\ status'[p] = "waiting"
  /\ MayLapse({p})
  /\ deadline' = [deadline EXCEPT ![p] = now + Ttl]
  /\ UNCHANGED <<now, approver, landed>>

Approve(p) ==
  /\ status[p] = "waiting" /\ now < deadline[p] /\ status'[p] = "approved"
  /\ MayLapse({p})
  /\ approver' = [approver EXCEPT ![p] = owner[p]]
  /\ UNCHANGED <<now, deadline, landed>>

Lapse == MayLapse({}) /\ UNCHANGED <<now, deadline, approver, landed>>

\* Meta executes an approved change: one that creates an object only once.
Land(p) ==
  /\ status[p] = "approved"
  /\ p \in Creates => landed[p] = 0
  /\ landed' = [landed EXCEPT ![p] = @ + 1]
  /\ UNCHANGED <<now, status, deadline, approver>>

Tick == now' = now + 1 /\ UNCHANGED <<status, deadline, approver, landed>>

Next ==
  /\ status' \in [Plans -> {"new", "waiting", "approved", "lapsed"}]
  /\ \/ Tick \/ Lapse
     \/ \E p \in Plans : Propose(p) \/ Approve(p) \/ Land(p)

Spec == Init /\ [][Next]_vars
=============================================================================
