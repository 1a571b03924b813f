------------------------------ MODULE DeviceList ------------------------------
(***************************************************************************)
(* The table of external devices (DeviceList, Comm/device.cpp), the        *)
(* communication ports its slots point to (ComPort, Comm/ComPort.cpp), and *)
(* the threads that meet on it:                                            *)
(*                                                                         *)
(*  - the main thread, which opens every port (devInit), closes every port *)
(*    (devCloseAll), reopens them all (RestartCommPorts) and leaves;       *)
(*  - one receive thread per open port, which feeds the data it reads to   *)
(*    the devices of its slot and calls their drivers;                     *)
(*  - the Users, threads that send to every device (for_all_device), such  *)
(*    as the calculation thread.                                           *)
(*                                                                         *)
(* CritSec_Comm protects the table.  Two slots configured with the same    *)
(* port share one ComPort: the first is its master, the second holds a     *)
(* copy of the pointer.  The main thread waits for a receive thread to end *)
(* without the lock, because that thread may be waiting for the lock.      *)
(***************************************************************************)
EXTENDS Naturals

CONSTANTS
    NumDev,    \* NUMDEV, the number of slots of DeviceList
    Ports,     \* addresses make_ComPort may return; reused after a delete
    Names,     \* port names a PortConfig may hold
    Unshared,  \* names that two slots never share: internal GPS, NMEA replay
    Replay,    \* names of NMEA replay files (FilePort)
    Users,     \* threads that call for_all_device
    Null       \* nullptr, an empty optional, "disabled", or a free lock

Dev     == 0 .. NumDev - 1
Threads == Ports \cup Users

ASSUME DeviceListAssumption ==
    /\ NumDev \in Nat \ {0}
    /\ Replay \subseteq Unshared /\ Unshared \subseteq Names
    /\ Ports \cap Users = {}
    /\ Null \notin Ports \cup Users \cup Names \cup Nat

VARIABLES
    config,         \* PortConfig: the port of each slot, Null when disabled
    Com,            \* DeviceDescriptor_t::Com
    Disabled,       \* DeviceDescriptor_t::Disabled
    SharedPortNum,  \* DeviceDescriptor_t::SharedPortNum
    port,           \* ComPort objects: "free", "open", or "closing"
    devIdx,         \* ComPort::devIdx, the slot a port was made for
    name,           \* ComPort::sPortName
    rx,             \* where the receive thread of a port is
    comm,           \* the thread that holds CritSec_Comm
    using,          \* the slot whose Com a thread is using
    pc,             \* what the main thread is doing
    i,              \* its loop index over the slots
    victim,         \* the port it is closing (local variable of devClose)
    leaving         \* devCloseAll was called to leave the program

table == <<config, Com, Disabled, SharedPortNum>>
ports == <<port, devIdx, name>>
loop  == <<pc, i, victim, leaving>>
vars  == <<table, ports, loop, rx, comm, using>>

RxStates == {"none", "wait", "data", "parse", "took", "open", "done"}
MainStates == {"idle", "close", "stop", "join", "init", "down"}

TypeOK ==
    /\ config \in [Dev -> Names \cup {Null}]
    /\ Com \in [Dev -> Ports \cup {Null}]
    /\ Disabled \in [Dev -> BOOLEAN]
    /\ SharedPortNum \in [Dev -> Dev \cup {Null}]
    /\ port \in [Ports -> {"free", "open", "closing"}]
    /\ devIdx \in [Ports -> Dev]
    /\ name \in [Ports -> Names \cup {Null}]
    /\ rx \in [Ports -> RxStates]
    /\ comm \in Threads \cup {Null}
    /\ using \in [Threads -> Dev \cup {Null}]
    /\ pc \in MainStates
    /\ i \in 0 .. NumDev
    /\ victim \in Ports \cup {Null}
    /\ leaving \in BOOLEAN

\* The program starts with an empty table and calls devInit (lk8000.cpp).
Init ==
    /\ config \in [Dev -> Names \cup {Null}]
    /\ Com = [d \in Dev |-> Null]
    /\ Disabled = [d \in Dev |-> TRUE]
    /\ SharedPortNum = [d \in Dev |-> Null]
    /\ port = [p \in Ports |-> "free"]
    /\ devIdx = [p \in Ports |-> 0]
    /\ name = [p \in Ports |-> Null]
    /\ rx = [p \in Ports |-> "none"]
    /\ comm = Null
    /\ using = [t \in Threads |-> Null]
    /\ pc = "init" /\ i = 0 /\ victim = Null /\ leaving = FALSE

-----------------------------------------------------------------------------
(* The main thread. *)

\* The user edits the port of a slot (dlgConfiguration); it takes effect at
\* the next restart.
Configure(d, n) ==
    /\ pc = "idle"
    /\ config[d] # n
    /\ config' = [config EXCEPT ![d] = n]
    /\ UNCHANGED <<Com, Disabled, SharedPortNum, ports, loop, rx, comm, using>>

\* RestartCommPorts, or devCloseAll on the way out of the program.
RestartCommPorts(leave) ==
    /\ pc = "idle"
    /\ pc' = "close" /\ i' = 0 /\ leaving' = leave
    /\ UNCHANGED <<table, ports, victim, rx, comm, using>>

\* Mutant of DetachCom: the loop of devCloseAll skips a slot.
DetachCom_Skip ==
    /\ pc = "close" /\ i < NumDev
    /\ comm = Null
    /\ Com' = [Com EXCEPT ![i] = Null]
    /\ IF Com[i] # Null /\ SharedPortNum[i] = Null
       THEN pc' = "stop" /\ victim' = Com[i] /\ i' = i
       ELSE i' = i + 2 /\ UNCHANGED <<pc, victim>>
    /\ UNCHANGED <<config, Disabled, SharedPortNum, ports, leaving, rx, comm, using>>

\* Mutant of DetachCom: the slot is emptied without CritSec_Comm.
DetachCom_NoLock ==
    /\ pc = "close" /\ i < NumDev
    /\ Com' = [Com EXCEPT ![i] = Null]
    /\ IF Com[i] # Null /\ SharedPortNum[i] = Null
       THEN pc' = "stop" /\ victim' = Com[i] /\ i' = i
       ELSE i' = i + 1 /\ UNCHANGED <<pc, victim>>
    /\ UNCHANGED <<config, Disabled, SharedPortNum, ports, leaving, rx, comm, using>>

\* devClose, the part under CritSec_Comm: the slot loses its pointer.  A slot
\* that only shares its port has nothing to close.
DetachCom ==
    /\ pc = "close" /\ i < NumDev
    /\ comm = Null
    /\ Com' = [Com EXCEPT ![i] = Null]
    /\ IF Com[i] # Null /\ SharedPortNum[i] = Null
       THEN pc' = "stop" /\ victim' = Com[i] /\ i' = i
       ELSE i' = i + 1 /\ UNCHANGED <<pc, victim>>
    /\ UNCHANGED <<config, Disabled, SharedPortNum, ports, leaving, rx, comm, using>>

\* ComPort::Close without the lock: ask the receive thread to stop.
StopPort ==
    /\ pc = "stop"
    /\ port' = [port EXCEPT ![victim] = "closing"]
    /\ pc' = "join"
    /\ UNCHANGED <<table, devIdx, name, i, victim, leaving, rx, comm, using>>

\* Mutants of DeletePort: the thread is not joined, the port is not deleted.
DeletePort_NoJoin ==
    /\ pc = "join"
    /\ port' = [port EXCEPT ![victim] = "free"]
    /\ rx' = [rx EXCEPT ![victim] = IF @ = "done" THEN "none" ELSE @]
    /\ pc' = "close" /\ i' = i + 1 /\ victim' = Null
    /\ UNCHANGED <<table, devIdx, name, leaving, comm, using>>

DeletePort_Leak ==
    /\ pc = "join"
    /\ rx[victim] = "done"
    /\ pc' = "close" /\ i' = i + 1 /\ victim' = Null
    /\ UNCHANGED <<table, ports, leaving, rx, comm, using>>

\* ... wait until it has ended, and delete the port.
DeletePort ==
    /\ pc = "join"
    /\ rx[victim] = "done"
    /\ port' = [port EXCEPT ![victim] = "free"]
    /\ rx' = [rx EXCEPT ![victim] = "none"]
    /\ pc' = "close" /\ i' = i + 1 /\ victim' = Null
    /\ UNCHANGED <<table, devIdx, name, leaving, comm, using>>

\* Mutant of AllClosed: the last slot is forgotten.
AllClosed_Early ==
    /\ pc = "close" /\ i = NumDev - 1
    /\ pc' = IF leaving THEN "down" ELSE "init"
    /\ i' = 0
    /\ UNCHANGED <<table, ports, victim, leaving, rx, comm, using>>

\* devCloseAll returns: to devInit, or to the end of the program.
AllClosed ==
    /\ pc = "close" /\ i = NumDev
    /\ pc' = IF leaving THEN "down" ELSE "init"
    /\ i' = 0
    /\ UNCHANGED <<table, ports, victim, leaving, rx, comm, using>>

\* One turn of devInit runs under CritSec_Comm from end to end.
InitTurn ==
    /\ pc = "init" /\ i < NumDev
    /\ comm = Null
    /\ i' = i + 1
    /\ UNCHANGED <<config, pc, victim, leaving, comm, using>>

\* Reset, then leave the slot unused: disabled, unknown driver, or simulator.
InitDisabled ==
    /\ InitTurn
    /\ config[i] = Null
    /\ Disabled' = [Disabled EXCEPT ![i] = TRUE]
    /\ SharedPortNum' = [SharedPortNum EXCEPT ![i] = Null]
    /\ UNCHANGED <<Com, ports, rx>>

\* Mutants of Masters: a sharer is taken for a master, the slot just before d
\* is not looked at.
Masters_Sharer(d) ==
    {j \in Dev : /\ j < d
                 /\ config[j] = config[d] /\ config[d] \notin Unshared
                 /\ ~Disabled[j]}

Masters_OffByOne(d) ==
    {j \in Dev : /\ j + 1 < d
                 /\ config[j] = config[d] /\ config[d] \notin Unshared
                 /\ ~Disabled[j]
                 /\ SharedPortNum[j] = Null}

\* The earlier slots whose port slot d shares.
Masters(d) ==
    {j \in Dev : /\ j < d
                 /\ config[j] = config[d] /\ config[d] \notin Unshared
                 /\ ~Disabled[j]
                 /\ SharedPortNum[j] = Null}

\* The search does not stop at the first master: the last one found stays.
InitShared ==
    /\ InitTurn
    /\ config[i] # Null
    /\ \E j \in Masters(i) :
          /\ \A k \in Masters(i) : k <= j
          /\ SharedPortNum' = [SharedPortNum EXCEPT ![i] = j]
          /\ Com' = [Com EXCEPT ![i] = Com[j]]
    /\ Disabled' = [Disabled EXCEPT ![i] = FALSE]
    /\ UNCHANGED <<ports, rx>>

\* make_ComPort and Initialize succeed; the receive thread starts at once,
\* before the later slots are reset.
InitOpen(p) ==
    /\ InitTurn
    /\ config[i] # Null /\ Masters(i) = {}
    /\ port[p] = "free"
    /\ port' = [port EXCEPT ![p] = "open"]
    /\ devIdx' = [devIdx EXCEPT ![p] = i]
    /\ name' = [name EXCEPT ![p] = config[i]]
    /\ rx' = [rx EXCEPT ![p] = "wait"]
    /\ Com' = [Com EXCEPT ![i] = p]
    /\ Disabled' = [Disabled EXCEPT ![i] = FALSE]
    /\ SharedPortNum' = [SharedPortNum EXCEPT ![i] = Null]

\* Initialize fails: the port is deleted, the slot stays enabled and empty.
InitFail ==
    /\ InitTurn
    /\ config[i] # Null /\ Masters(i) = {}
    /\ Disabled' = [Disabled EXCEPT ![i] = FALSE]
    /\ SharedPortNum' = [SharedPortNum EXCEPT ![i] = Null]
    /\ UNCHANGED <<Com, ports, rx>>

AllOpened ==
    /\ pc = "init" /\ i = NumDev
    /\ pc' = "idle" /\ i' = 0
    /\ UNCHANGED <<table, ports, victim, leaving, rx, comm, using>>

-----------------------------------------------------------------------------
(* The receive thread of port p: RxThread of the port classes,             *)
(* ComPort::ProcessData, devParseStream, devParseNMEA and devOpen.         *)

RxStep(p, from, to) ==
    /\ rx[p] = from
    /\ rx' = [rx EXCEPT ![p] = to]
    /\ UNCHANGED <<table, ports, loop>>

\* It looks at the stop flag, then takes the data (or the state) that came.
RxTake(p) == RxStep(p, "wait", "data") /\ port[p] = "open" /\ UNCHANGED <<comm, using>>

\* It sees the stop flag and ends.
RxStop(p) == RxStep(p, "wait", "done") /\ port[p] = "closing" /\ UNCHANGED <<comm, using>>

\* The link breaks (SocketPort closes its socket) and it ends by itself.
RxLost(p) == RxStep(p, "wait", "done") /\ port[p] = "open" /\ UNCHANGED <<comm, using>>

\* The device of a slot gets the data only while its slot has a port.
Fed(p) == IF Com[devIdx[p]] = Null THEN Null ELSE devIdx[p]

\* Mutants of RxProcess: it does not take the lock, or devClose keeps the lock
\* while it closes the port.
RxProcess_NoLock(p) ==
    /\ RxStep(p, "data", "parse")
    /\ comm' = comm
    /\ using' = [using EXCEPT ![p] = Fed(p)]

RxProcess_LockedOut(p) ==
    /\ RxStep(p, "data", "parse")
    /\ pc \notin {"stop", "join"}
    /\ comm = Null /\ comm' = p
    /\ using' = [using EXCEPT ![p] = Fed(p)]

\* ProcessData takes CritSec_Comm and feeds the slot's device ...
RxProcess(p) ==
    /\ RxStep(p, "data", "parse")
    /\ comm = Null /\ comm' = p
    /\ using' = [using EXCEPT ![p] = Fed(p)]

\* ... but a replay file is parsed without it, unless it is replayed as raw
\* bytes (FilePort::RxThread).
RxReplay(p) ==
    /\ RxStep(p, "data", "parse")
    /\ name[p] \in Replay
    /\ comm' = comm
    /\ using' = [using EXCEPT ![p] = Fed(p)]

\* The sentences of the active GPS are passed on to slot d (NMEAOut).
RxOut(p, d) ==
    /\ RxStep(p, "parse", "parse")
    /\ using[p] # Null
    /\ Com[d] # Null /\ ~Disabled[d]
    /\ comm' = comm
    /\ using' = [using EXCEPT ![p] = d]

Release(t) ==
    /\ comm' = IF comm = t THEN Null ELSE comm
    /\ using' = [using EXCEPT ![t] = Null]

RxProcessed(p) == RxStep(p, "parse", "took") /\ Release(p)

RxContinue(p) == RxStep(p, "took", "wait") /\ UNCHANGED <<comm, using>>

\* devOpen, when the link comes up: the driver's Open runs under CritSec_Comm.
\* Unlike the parsers it does not look at Com first.
RxOpen(p, from) ==
    /\ RxStep(p, from, "open")
    /\ comm = Null /\ comm' = p
    /\ using' = [using EXCEPT ![p] = devIdx[p]]

RxOpened(p) == RxStep(p, "open", "wait") /\ Release(p)

-----------------------------------------------------------------------------
(* A thread that sends to the devices one after the other, taking and      *)
(* releasing CritSec_Comm for each (for_all_device, IsReady).              *)

UserCall(u, d) ==
    /\ comm = Null
    /\ ~Disabled[d] /\ Com[d] # Null
    /\ comm' = u
    /\ using' = [using EXCEPT ![u] = d]
    /\ UNCHANGED <<table, ports, loop, rx>>

UserReturn(u) ==
    /\ comm = u
    /\ Release(u)
    /\ UNCHANGED <<table, ports, loop, rx>>

-----------------------------------------------------------------------------
InitSlot == InitDisabled \/ InitShared \/ InitFail \/ \E p \in Ports : InitOpen(p)

Receive(p) ==
    \/ RxTake(p) \/ RxStop(p) \/ RxLost(p)
    \/ RxProcess(p) \/ RxReplay(p) \/ RxProcessed(p) \/ RxContinue(p)
    \/ \E d \in Dev : RxOut(p, d)
    \/ \E from \in {"data", "took"} : RxOpen(p, from)
    \/ RxOpened(p)

MainThread ==
    \/ \E d \in Dev, n \in Names \cup {Null} : Configure(d, n)
    \/ \E leave \in BOOLEAN : RestartCommPorts(leave)
    \/ DetachCom \/ StopPort \/ DeletePort \/ AllClosed
    \/ InitSlot \/ AllOpened

\* The program has ended; only the threads other than main may go on.
Ended == pc = "down" /\ UNCHANGED vars

Next ==
    \/ MainThread
    \/ \E p \in Ports : Receive(p)
    \/ \E u \in Users : UserReturn(u) \/ \E d \in Dev : UserCall(u, d)
    \/ Ended

Spec == Init /\ [][Next]_vars

\* The main thread goes on, a thread that holds the lock releases it and a
\* receive thread that is told to stop gets there; the operating system lets
\* a thread that keeps asking for a lock have it at last (strong fairness).
Fairness ==
    /\ SF_vars(DetachCom) /\ WF_vars(StopPort) /\ WF_vars(DeletePort)
    /\ WF_vars(AllClosed) /\ SF_vars(InitSlot) /\ WF_vars(AllOpened)
    /\ \A p \in Ports :
          /\ WF_vars(RxStop(p)) /\ WF_vars(RxProcessed(p))
          /\ WF_vars(RxContinue(p)) /\ WF_vars(RxOpened(p))
          /\ SF_vars(RxProcess(p)) /\ WF_vars(RxReplay(p))
    /\ \A u \in Users : WF_vars(UserReturn(u))

FairSpec == Spec /\ Fairness

-----------------------------------------------------------------------------
(* Safety. *)

\* The receive thread of a port feeds its own slot or nothing: the slot points
\* to that very port, or to none after devClose took the pointer away.  The
\* parsers only test that Com is not null; that it can never be the pointer of
\* a newer port is what joining the thread before devInit is for.
RxOwnsItsSlot ==
    \A p \in Ports : rx[p] \notin {"none", "done"} => Com[devIdx[p]] \in {p, Null}

\* The slot has a port of its own, one that it does not share.
Owner(d) == Com[d] # Null /\ SharedPortNum[d] = Null

\* A thread that found a slot's own port under CritSec_Comm can use it until it
\* releases the lock: the port is neither closed nor deleted meanwhile, though
\* devClose closes and deletes it without the lock.  (The driver's Open, which
\* does not look for a port, and replay threads, which do not lock, are apart.)
Looked(t) ==
    /\ using[t] # Null
    /\ t \in Ports => rx[t] = "parse" /\ name[t] \notin Replay

HeldPortAlive ==
    \A t \in Threads : Looked(t) =>
        /\ Com[using[t]] # Null
        /\ SharedPortNum[using[t]] = Null => port[Com[using[t]]] = "open"

\* After devInit a slot that shares a port shares it with an earlier slot that
\* has a port of its own, and both point to the same object.
SharedFollowsMaster ==
    pc = "idle" => \A d \in Dev : SharedPortNum[d] # Null =>
        LET m == SharedPortNum[d]
        IN  m < d /\ SharedPortNum[m] = Null /\ Com[d] = Com[m]

\* No physical port is open twice, even while a restart is under way.
ExclusiveOpen ==
    \A p, q \in Ports :
        /\ port[p] # "free" /\ port[q] # "free"
        /\ name[p] = name[q] /\ name[p] \notin Unshared
        => p = q

\* Every port object in existence is the own port of the slot it was made for,
\* or the one devClose is about to delete: none is ever lost or deleted twice.
NoPortLost ==
    \A p \in Ports : port[p] # "free" =>
        \/ Owner(devIdx[p]) /\ Com[devIdx[p]] = p
        \/ pc \in {"stop", "join"} /\ victim = p

\* When devCloseAll has returned, no port and no receive thread is left: the
\* next devInit starts from an empty table and the program may be torn down.
NothingLeft ==
    pc = "down" \/ (pc = "init" /\ i = 0) =>
        /\ \A d \in Dev : Com[d] = Null
        /\ \A p \in Ports : port[p] = "free" /\ rx[p] = "none"

\* Who holds CritSec_Comm is at work and waits for nobody, and the main thread
\* joins a thread that exists: so neither that thread, which may wait for the
\* lock, nor the main thread waits for ever, in whatever order they come.
NoDeadlock ==
    /\ comm # Null => comm \in Users \/ rx[comm] \in {"parse", "open"}
    /\ pc = "join" => rx[victim] # "none"

-----------------------------------------------------------------------------
(* The inductive invariant behind the safety properties.                   *)

\* The main thread's loops: slots it has passed are closed or initialised.
LoopInv ==
    /\ IF pc \in {"stop", "join"}
       THEN victim \in Ports /\ i < NumDev /\ devIdx[victim] = i /\ Com[i] = Null
       ELSE victim = Null
    /\ pc = "stop" => port[victim] = "open"
    /\ pc = "join" => port[victim] = "closing"
    /\ pc \in {"close", "stop", "join"} => \A d \in Dev : d < i => Com[d] = Null
    /\ pc = "init" => \A d \in Dev : d >= i => Com[d] = Null
    /\ pc = "down" => \A d \in Dev : Com[d] = Null

\* A port belongs to one slot, which points back to it until devClose.
PortInv ==
    /\ \A p \in Ports : port[p] = "open" =>
          \/ Owner(devIdx[p]) /\ Com[devIdx[p]] = p
          \/ pc = "stop" /\ victim = p
    /\ \A p \in Ports : port[p] = "closing" => pc = "join" /\ victim = p
    /\ \A d \in Dev : Owner(d) => port[Com[d]] = "open" /\ devIdx[Com[d]] = d
    /\ \A p \in Ports : rx[p] = "none" <=> port[p] = "free"

\* A thread that looked a port up holds the lock, and the pointer stays.
LockInv == \A t \in Threads : Looked(t) => comm = t /\ Com[using[t]] # Null

\* What devInit has established for slot d when it is done with it.
Initialised(d) ==
    /\ SharedPortNum[d] # Null =>
          LET m == SharedPortNum[d]
          IN  m < d /\ SharedPortNum[m] = Null /\ Com[d] = Com[m]
    /\ pc = "init" /\ Com[d] # Null =>
          ~Disabled[d] /\ (Owner(d) => name[Com[d]] = config[d])

SlotInv ==
    \A d \in Dev : pc = "idle" \/ (pc = "init" /\ d < i) => Initialised(d)

IInv == LoopInv /\ PortInv /\ LockInv /\ SlotInv /\ ExclusiveOpen

-----------------------------------------------------------------------------
(* What the comments of the code say and the code does not do. *)

\* "this lock is used for protect DeviceList array" (device.cpp): a pointer a
\* thread finds in a slot under the lock is never that of a deleted port.
NoDanglingCom ==
    \A t \in Threads : Looked(t) /\ Com[using[t]] # Null => port[Com[using[t]]] # "free"

\* It is so but for one case: while ports are being closed, a slot that shares
\* its port may hold the pointer of one that is closed or gone.
DanglingOnlyWhileClosing ==
    \A t \in Threads :
        Looked(t) /\ Com[using[t]] # Null /\ port[Com[using[t]]] # "open" =>
            pc \in {"close", "stop", "join"} /\ SharedPortNum[using[t]] # Null

-----------------------------------------------------------------------------
(* The abstract specification that the table implements.                   *)

\* A port is in its slot until devClose takes it away; a thread uses a port
\* when it found a slot's own one.  (A slot that shares a port does not know
\* when its master loses it: NoDanglingCom.)
State ==
    [p \in Ports |-> IF port[p] = "open" /\ Com[devIdx[p]] # p THEN "closing" ELSE port[p]]

Running == {p \in Ports : rx[p] \notin {"none", "done"}}

PortInUse ==
    [t \in Threads |-> IF Looked(t) /\ Owner(using[t]) THEN Com[using[t]] ELSE Null]

Table == INSTANCE PortTable WITH
    Slots <- Dev, state <- State, slot <- devIdx, title <- name,
    running <- Running, using <- PortInUse

\* Whatever the order in which devInit, devCloseAll, the receive threads and
\* the users go on, a port is opened, used, closed and deleted only as
\* PortTable allows.
ImplementsPortTable == Table!Spec

-----------------------------------------------------------------------------
(* Liveness. *)

\* A restart, once begun, ends with every slot initialised again, and leaving
\* ends with every port closed: neither waits for ever for a receive thread
\* that itself waits for CritSec_Comm.
RestartCompletes == pc # "idle" ~> pc \in {"idle", "down"}
===============================================================================
