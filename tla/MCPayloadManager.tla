-------------------------- MODULE MCPayloadManager --------------------------
(* Two callers, whose submissions interleave and who are alike. *)
EXTENDS PayloadManager, TLC

CONSTANTS c1, c2

MCSymmetry == Permutations(Calls)
=============================================================================
