--------------------------- MODULE MC_JsonlShard ---------------------------
(* Two episodes and one launch of JsonlShard.                              *)
EXTENDS JsonlShard

CONSTANTS u1, u2
=============================================================================
