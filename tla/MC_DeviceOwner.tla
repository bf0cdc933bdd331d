-------------------------- MODULE MC_DeviceOwner --------------------------
(* Small instances of DeviceOwner for TLC. *)
EXTENDS DeviceOwner, TLC

Symmetry == Permutations(Users) \cup Permutations(Devices)
=============================================================================
