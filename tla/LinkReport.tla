------------------------------ MODULE LinkReport ------------------------------
(***************************************************************************)
(* What a port promises its user about its link, without threads, locks or *)
(* timers: every change of the link is told or taken back, in an order     *)
(* that leaves the last word to the present state.                         *)
(*                                                                         *)
(* PortStatus implements it: ComPort::NotifyConnected,                     *)
(* ComPort::NotifyDisconnected and ComPort::status_thread_loop.            *)
(***************************************************************************)

VARIABLES
    connected,  \* the link, as the receive thread has last reported it
    due,        \* the messages that are still to come
    told,       \* the message the user has seen last
    closed      \* the port is being closed: a disconnection is no longer told

vars == <<connected, due, told, closed>>

Messages == {"connected", "disconnected"}

TypeOK ==
    /\ connected \in BOOLEAN /\ closed \in BOOLEAN
    /\ due \in SUBSET Messages
    /\ told \in Messages \cup {"none"}

Init ==
    /\ connected = FALSE /\ closed = FALSE
    /\ due = {} /\ told = "none"

\* The link is up.  It may have been up already, after a declaration.
Connect ==
    /\ "connected" \notin due
    /\ connected' = TRUE /\ due' = due \cup {"connected"}
    /\ UNCHANGED <<told, closed>>

\* The user is told at once ...
TellConnected ==
    /\ "connected" \in due
    /\ due' = due \ {"connected"} /\ told' = "connected"
    /\ UNCHANGED <<connected, closed>>

\* The link is lost.
Disconnect ==
    /\ connected /\ "connected" \notin due
    /\ connected' = FALSE /\ due' = due \cup {"disconnected"}
    /\ UNCHANGED <<told, closed>>

\* ... but of a loss only later, and only if the link is still down then.
TellDisconnected ==
    /\ "disconnected" \in due /\ ~closed
    /\ due' = due \ {"disconnected"}
    /\ told' = IF connected THEN told ELSE "disconnected"
    /\ UNCHANGED <<connected, closed>>

Close ==
    /\ ~closed /\ closed' = TRUE
    /\ UNCHANGED <<connected, due, told>>

Next == Connect \/ TellConnected \/ Disconnect \/ TellDisconnected \/ Close

Spec == Init /\ [][Next]_vars

\* The user knows the state of the link, or the message that tells it is due.
Truthful ==
    /\ "connected" \in due => connected
    /\ connected => told = "connected" \/ "connected" \in due
    /\ ~connected => (told = "connected" <=> "disconnected" \in due)
===============================================================================
