--------------------------- MODULE SlidingWindow ---------------------------
(* The per-key sliding window limiter                                      *)
(* (src/src/utils/sliding-window-limiter.ts). A stamp is a time in the     *)
(* code; here it also says whose it is, which tells apart what the code    *)
(* treats alike: stamps of one millisecond.                                *)
EXTENDS Integers, FiniteSets

CONSTANTS
  Callers,      \* who acquires, each at most once
  WindowKeys,
  Limit,        \* limit
  WindowMs      \* windowMs

VARIABLES
  now,
  windows       \* key -> the stamps taken and not given back

Stamps == [by : Callers, at : Nat]

\* purge: what left the window is dropped, of every key.
purge == [k \in WindowKeys |-> {s \in windows[k] : now - s.at < WindowMs}]

\* acquire returns a permit, not null.
MayAcquire(k) == Cardinality(purge[k]) < Limit

acquire(c, k) ==
  windows' = IF MayAcquire(k)
             THEN [purge EXCEPT ![k] = @ \cup {[by |-> c, at |-> now]}]
             ELSE purge

\* refund: the stamp of this permit goes, if it is still there.
refund(c, k) == windows' = [windows EXCEPT ![k] = {s \in @ : s.by # c}]
=============================================================================
