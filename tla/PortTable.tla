------------------------------ MODULE PortTable ------------------------------
(***************************************************************************)
(* What the device table promises those who use it, without the slots that *)
(* share a port, the loops of devInit and devCloseAll, or the lock: ports  *)
(* are opened one per slot and one per name, used by one thread at a time, *)
(* taken from their slot when nobody uses them, and deleted when their     *)
(* receive thread has ended.                                               *)
(*                                                                         *)
(* DeviceList implements it (Comm/device.cpp, Comm/ComPort.cpp).           *)
(***************************************************************************)

CONSTANTS
    Ports,     \* port objects, reused after they have been deleted
    Slots,     \* slots of the table
    Names,     \* names of physical ports
    Unshared,  \* names that may be open twice
    Threads,   \* those who use ports, the receive threads among them
    Null

VARIABLES
    state,    \* of a port: "free", "open" in its slot, or "closing"
    slot,     \* the slot a port was made for
    title,    \* the name it was opened with
    running,  \* the ports whose receive thread runs
    using     \* the port a thread has looked up and is using

vars == <<state, slot, title, running, using>>

TypeOK ==
    /\ state \in [Ports -> {"free", "open", "closing"}]
    /\ slot \in [Ports -> Slots]
    /\ title \in [Ports -> Names \cup {Null}]
    /\ running \in SUBSET Ports
    /\ using \in [Threads -> Ports \cup {Null}]

Init ==
    /\ state = [p \in Ports |-> "free"]
    /\ running = {}
    /\ using = [t \in Threads |-> Null]
    /\ slot \in [Ports -> Slots]
    /\ title \in [Ports -> Names \cup {Null}]

\* Port p is made for slot d and opened under name n.
Open(p, d, n) ==
    /\ state[p] = "free"
    /\ \A q \in Ports : state[q] = "open" => slot[q] # d
    /\ n \notin Unshared => \A q \in Ports : state[q] # "free" => title[q] # n
    /\ state' = [state EXCEPT ![p] = "open"]
    /\ slot' = [slot EXCEPT ![p] = d]
    /\ title' = [title EXCEPT ![p] = n]
    /\ running' = running \cup {p}
    /\ using' = using

\* A thread looks up a port and uses it: no other thread uses any.  (It may go
\* on from one port to the next.)
Use(t, p) ==
    /\ state[p] = "open"
    /\ \A u \in Threads : u # t => using[u] = Null
    /\ using' = [using EXCEPT ![t] = p]
    /\ UNCHANGED <<state, slot, title, running>>

Return(t) ==
    /\ using' = [using EXCEPT ![t] = Null]
    /\ UNCHANGED <<state, slot, title, running>>

\* The port is taken from its slot, while no thread uses it.
Close(p) ==
    /\ state[p] = "open"
    /\ \A t \in Threads : using[t] # p
    /\ state' = [state EXCEPT ![p] = "closing"]
    /\ UNCHANGED <<slot, title, running, using>>

\* Its receive thread ends, because it was told to or because the link broke;
\* it uses no port any more.
Ends(p) ==
    /\ p \in running
    /\ p \in Threads => using[p] = Null
    /\ running' = running \ {p}
    /\ UNCHANGED <<state, slot, title, using>>

\* The port is deleted, when its receive thread has ended.
Delete(p) ==
    /\ state[p] = "closing"
    /\ p \notin running
    /\ state' = [state EXCEPT ![p] = "free"]
    /\ UNCHANGED <<slot, title, running, using>>

Next ==
    \/ \E p \in Ports :
          \/ \E d \in Slots, n \in Names : Open(p, d, n)
          \/ Close(p) \/ Ends(p) \/ Delete(p)
    \/ \E t \in Threads : Return(t) \/ \E p \in Ports : Use(t, p)

Spec == Init /\ [][Next]_vars

-----------------------------------------------------------------------------
\* One thread at a time uses a port, and only ports that are open; a receive
\* thread runs for a port that exists; a slot has one port, and a name that
\* cannot be opened twice is open once.
Sound ==
    /\ \A t \in Threads : using[t] # Null => state[using[t]] = "open"
    /\ \A t, u \in Threads : using[t] # Null /\ using[u] # Null => t = u
    /\ \A p \in running : state[p] # "free"
    /\ \A p, q \in Ports : state[p] = "open" /\ state[q] = "open" /\ slot[p] = slot[q]
                           => p = q
    /\ \A p, q \in Ports :
          /\ state[p] # "free" /\ state[q] # "free"
          /\ title[p] = title[q] /\ title[p] \notin Unshared
          => p = q
=============================================================================
