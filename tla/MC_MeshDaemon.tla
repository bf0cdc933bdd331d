--------------------------- MODULE MC_MeshDaemon ---------------------------
(* Small instances of MeshDaemon, and with it of SpaceConsolidation, for    *)
(* TLC, without symmetry: the run also checks liveness.                     *)
EXTENDS MeshDaemon

CONSTANTS h1, h2, p1, p2

\* Two endpoints that share a host, two without a port.
MCEndpoints == {<<h1, p1>>, <<h1, p2>>, <<h2, p1>>}
=============================================================================
