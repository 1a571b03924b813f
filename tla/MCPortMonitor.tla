---------------------------- MODULE MCPortMonitor ----------------------------
(* Small instances of PortMonitor for TLC. *)
EXTENDS PortMonitor

OwnPorts == [d \in Dev |-> d]   \* every slot has a port of its own
==============================================================================
