------------------------ MODULE MCBookSubscriptions ------------------------
(* Two units: one in the batch, one that is asked for meanwhile.             *)
EXTENDS BookSubscriptions

CONSTANTS u1, u2
=============================================================================
