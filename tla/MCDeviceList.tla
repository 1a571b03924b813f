---------------------------- MODULE MCDeviceList ----------------------------
(* Small instances of DeviceList for TLC. *)
EXTENDS DeviceList, TLC

Symmetry == Permutations(Ports)
=============================================================================
