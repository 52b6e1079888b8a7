--------------------------- MODULE MCPresignedPool ---------------------------
(* Values for the constants of PresignedPool: two units, of which one has     *)
(* room in the pool, ladders of two rungs, and one caller.                    *)
EXTENDS PresignedPool

CONSTANTS u1, u2, c1

MCSymmetry == Permutations(Units)
=============================================================================
