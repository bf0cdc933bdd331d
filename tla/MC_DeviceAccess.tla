-------------------------- MODULE MC_DeviceAccess --------------------------
(* Small instances of DeviceAccess for TLC, without symmetry: the run also  *)
(* checks liveness.                                                         *)
EXTENDS DeviceAccess
=============================================================================
