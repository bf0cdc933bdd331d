--------------------------- MODULE MC_MeshClient ---------------------------
(* Small instances of MeshClient for TLC, without symmetry: the run also    *)
(* checks liveness.                                                         *)
EXTENDS MeshClient
=============================================================================
