------------------------------- MODULE MCFlight -------------------------------
(* Small instances of Flight for TLC. *)
EXTENDS Flight

AllTypes == {"glider", "paraglider", "car"}

Caps == [a \in Aircraft |-> IF a = "glider" THEN 2 ELSE 3]
==============================================================================
