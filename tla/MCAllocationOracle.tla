------------------------- MODULE MCAllocationOracle -------------------------
(* Two balances, which one request can mix up; nothing else is needed.       *)
EXTENDS AllocationOracle
=============================================================================
