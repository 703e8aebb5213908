-------------------------- MODULE MC_PacedDispatch --------------------------
(* Two request threads and three dispatcher threads: the newest one, one   *)
(* that was replaced, and one that is starting.                            *)
EXTENDS PacedDispatch

CONSTANTS r1, r2, d1, d2, d3
=============================================================================
