----------------------------- MODULE MCFirstRun -----------------------------
\* A small instance of FirstRun: two launches of two Nopal versions.
EXTENDS FirstRun

MCVersionOf == [c \in Launches |-> c]
=============================================================================
