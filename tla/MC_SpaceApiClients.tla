------------------------ MODULE MC_SpaceApiClients ------------------------
(* Small instances of SpaceApiClients for TLC.  The symmetry is for the run *)
(* without careless callers and without liveness.                           *)
EXTENDS SpaceApiClients, TLC

Symmetry == Permutations(Callers) \cup Permutations(Clients)
              \cup Permutations(Spaces)
=============================================================================
