---------------------------- MODULE MCDashboard -----------------------------
(* Model checking of Dashboard: one or two users, turns of the first.      *)
EXTENDS Dashboard, TLC
CONSTANTS t1, t2, t3, u1, u2, k1, k2, q1, q2

AllU1 == [t \in Turns |-> u1]
TenantKeys == [u \in Owners |-> IF u = u1 THEN Keys ELSE {}]
Symmetry == Permutations({q1, q2}) \cup Permutations({k1, k2}) \cup Permutations({t1, t3})

\* Bounds: two turns and all the rest, or three turns and one request without
\* edits by others and restarts.
InScope ==
  \/ \E t \in {t1, t3} : turn[t] = "idle"
  \/ /\ \E q \in Requests : request[q].pc = "idle"
     /\ edits = 0 /\ restarts = 0

ScopedSpec == Init /\ [][Next /\ InScope']_vars
=============================================================================
