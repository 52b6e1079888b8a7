-------------------------- MODULE MCCircuitBreaker --------------------------
(* Values for the constants of CircuitBreaker: one process, and the market   *)
(* maker's limits.                                                           *)
EXTENDS CircuitBreaker

CONSTANTS p1

MCMMCauses == {"halt_mm_daily", "halt_mm_perm"}
=============================================================================
