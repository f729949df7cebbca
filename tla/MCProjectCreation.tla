------------------------- MODULE MCProjectCreation -------------------------
(* Instances of ProjectCreation for TLC. *)
EXTENDS ProjectCreation

CONSTANTS h1, h2, r1, r2

\* Each Technical Director's Hub has a workspace root of its own.
OwnRoots == [h \in Hubs |-> IF h = h1 THEN r1 ELSE r2]

\* Every Hub uses one share of the NAS.
SharedRoot == [h \in Hubs |-> r1]
=============================================================================
