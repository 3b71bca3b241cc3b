----------------------------- MODULE MCThrottles -----------------------------
(* Model checking of CircuitBreaker and WritePacer, which share nothing:    *)
(* a behaviour is one of the breaker or one of the pacer.                   *)
EXTENDS CircuitBreaker, MCWritePacer

VARIABLE part

CONSTANT k1

ThrottlesInit == part \in {"breaker", "pacer"} /\ Init /\ PacerInit
ThrottlesNext ==
  /\ UNCHANGED part
  /\ \/ part = "breaker" /\ Next /\ UNCHANGED pacerVars
     \/ part = "pacer" /\ PacerNext /\ UNCHANGED vars

ThrottlesSpec == ThrottlesInit /\ [][ThrottlesNext]_<<part, vars, pacerVars>>
=============================================================================
