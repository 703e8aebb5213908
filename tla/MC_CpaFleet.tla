----------------------------- MODULE MC_CpaFleet -----------------------------
EXTENDS CpaFleet

CONSTANTS n1, n2

MCStaOf == [u \in Master |-> "a"]
MCBaseNodes == <<n1>>
MCNewNodes == <<n2>>
=============================================================================
