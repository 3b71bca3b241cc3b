----------------------------- MODULE MCWritePacer -----------------------------
(* Model checking of WritePacer: two tiers with small rates.               *)
EXTENDS WritePacer, TLC
CONSTANTS w1, w2
MCRate == (Dev :> 1) @@ (Standard :> 2)
MCCapacity == (Dev :> 4) @@ (Standard :> 6)
DevRate == Dev :> 1
DevCapacity == Dev :> 4
Symmetry == Permutations(Writers)
=============================================================================
