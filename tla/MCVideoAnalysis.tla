-------------------------- MODULE MCVideoAnalysis --------------------------
(* Model checking of VideoAnalysis over VideoJobs.                         *)
EXTENDS VideoAnalysis
CONSTANTS c1, c2, c3, d, t1, k1

OneTenant == [c \in Calls |-> t1]
OneKey == [c \in Calls |-> k1]
=============================================================================
