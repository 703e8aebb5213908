------------------------- MODULE MC_EpisodePipeline -------------------------
EXTENDS EpisodePipeline

CONSTANTS f1, f2

(* Two frames of ecot have units of their own; two of grd race for one.    *)
MCKeyOf == [l \in Lane |-> [f \in Frame |-> IF l \in Packed /\ f = f2 THEN 2 ELSE 1]]
=============================================================================
