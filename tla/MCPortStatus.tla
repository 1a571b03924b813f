---------------------------- MODULE MCPortStatus ----------------------------
(* The instance of PortStatus that TLC checks: it has no other constant. *)
EXTENDS PortStatus
=============================================================================
