------------------------------ MODULE PortStatus ------------------------------
(***************************************************************************)
(* How the user learns that the link of a port came up or went down, and   *)
(* how the port is closed meanwhile.                                       *)
(*                                                                         *)
(*  - Java reports most changes of the link (PortStateChanged) and data    *)
(*    (DataReceived) to an AndroidPort;                                    *)
(*  - its receive thread (AndroidPort::RxThread) looks at the link and     *)
(*    calls NotifyConnected and NotifyDisconnected of ComPort;             *)
(*  - the status thread (ComPort::status_thread_loop) tells the user about *)
(*    a disconnection, unless the link is up again after 10 seconds;       *)
(*  - the main thread stops and restarts the receive thread around a task  *)
(*    declaration, and at last closes and deletes the port.                *)
(*                                                                         *)
(* Each block under status_mutex or under AndroidPort::mutex is one action.*)
(* A notify_one that the code calls after such a block is an action too:   *)
(* it wakes the status thread if that sleeps at that very moment, and is   *)
(* lost otherwise.                                                         *)
(***************************************************************************)
EXTENDS Naturals

CONSTANT Spurious   \* may a condition variable wake up without a notify?

ASSUME SpuriousAssumption == Spurious \in BOOLEAN

VARIABLES
    link,       \* the link is up: bridge->getState() = STATE_READY
    callback,   \* Java has yet to call PortStateChanged for a change it reports
    unreported, \* the link has changed without a report since it was looked at
    changed,    \* state_generation # observed_state_generation
    queued,     \* there are data in AndroidPort::buffer
    running,    \* AndroidPort::running, and bridge # nullptr
    rx,         \* where the receive thread is
    up,         \* its local variable "connected"
    ready,      \* its local variable "state" is STATE_READY
    main,       \* where the main thread is
    stop,       \* ComPort::status_thread_stop
    notify,     \* ComPort::status_disconnected_notify
    connected,  \* ComPort::status_connected
    st,         \* where the status thread is; "none" if not joinable
    last        \* the last message shown to the user

bridge == <<link, callback, unreported, changed, queued>>
local  == <<up, ready>>
flags  == <<stop, notify, connected>>
vars   == <<bridge, running, rx, local, main, flags, st, last>>

RxStates == {"none", "check", "data", "decide", "open", "wakeC", "postC",
             "down", "wakeD", "done"}

\* "start": created, or woken from wait(): wants the mutex to run the loop
\* again; "grace": asleep in wait_for(10s); "woken" and "expired": wants the
\* mutex after a wake-up of wait_for, or after its time-out.
StStates == {"none", "start", "grace", "woken", "expired", "wait", "ended"}

MainStates == {"run", "pausing", "paused", "closing", "wakeS", "join",
               "joinRx", "deleted"}

FlagsOK ==
    /\ link \in BOOLEAN /\ callback \in BOOLEAN /\ unreported \in BOOLEAN
    /\ changed \in BOOLEAN /\ queued \in BOOLEAN /\ running \in BOOLEAN
    /\ up \in BOOLEAN /\ ready \in BOOLEAN
    /\ stop \in BOOLEAN /\ notify \in BOOLEAN /\ connected \in BOOLEAN

\* The receive thread exists except where the main thread has joined it.
ThreadsOK ==
    /\ rx \in RxStates /\ st \in StStates /\ main \in MainStates
    /\ last \in {"none", "connected", "disconnected"}
    /\ rx = "none" <=> main \in {"paused", "deleted"}

TypeOK == FlagsOK /\ ThreadsOK

\* The port is initialised and its receive thread started (devInit); the
\* generation counters differ, so that the thread looks at the link once.
Init ==
    /\ link \in BOOLEAN /\ callback = FALSE /\ unreported = FALSE
    /\ changed = TRUE /\ queued = FALSE /\ running = TRUE
    /\ rx = "check" /\ up = FALSE /\ ready = FALSE
    /\ main = "run"
    /\ stop = FALSE /\ notify = FALSE /\ connected = FALSE
    /\ st = "none" /\ last = "none"

-----------------------------------------------------------------------------
(* Java: the link comes and goes, data arrive.                             *)

\* A change that is reported: stateChanged follows it.
LinkChanges ==
    /\ main # "deleted"
    /\ link' = ~link /\ callback' = TRUE
    /\ UNCHANGED <<unreported, changed, queued, running, rx, local, main, flags, st, last>>

\* A change that is not.  A port that fails calls portError only, which the
\* program logs (UsbSerialPort.error); getState fails once an InputThread has
\* closed itself; and a MultiPort that gets its first connection is ready
\* without a call.
LinkChangesSilently ==
    /\ main # "deleted"
    /\ link' = ~link /\ unreported' = TRUE
    /\ UNCHANGED <<callback, changed, queued, running, rx, local, main, flags, st, last>>

PortStateChanged ==
    /\ callback
    /\ callback' = FALSE /\ changed' = TRUE
    /\ UNCHANGED <<link, unreported, queued, running, rx, local, main, flags, st, last>>

DataReceived ==
    /\ main # "deleted"
    /\ queued' = TRUE
    /\ UNCHANGED <<link, callback, unreported, changed, running, rx, local, main, flags, st, last>>

-----------------------------------------------------------------------------
(* The receive thread: AndroidPort::RxThread. *)

\* Mutant of RxTake: the link is not looked at when there are data.
RxTake_DataOnly ==
    /\ rx = "check" /\ running /\ (queued \/ changed)
    /\ ready' = IF queued THEN ready ELSE link
    /\ unreported' = FALSE /\ changed' = FALSE /\ queued' = FALSE
    /\ rx' = IF queued THEN "data" ELSE "decide"
    /\ UNCHANGED <<link, callback, running, up, main, flags, st, last>>

\* It waits for data or for a change and takes both, under the port's mutex.
RxTake ==
    /\ rx = "check" /\ running /\ (queued \/ changed)
    /\ ready' = link
    /\ unreported' = FALSE /\ changed' = FALSE /\ queued' = FALSE
    /\ rx' = IF queued THEN "data" ELSE "decide"
    /\ UNCHANGED <<link, callback, running, up, main, flags, st, last>>

RxEnd ==
    /\ rx = "check" /\ ~running
    /\ rx' = "done"
    /\ UNCHANGED <<bridge, running, local, main, flags, st, last>>

RxProcessed ==
    /\ rx = "data"
    /\ rx' = "decide"
    /\ UNCHANGED <<bridge, running, local, main, flags, st, last>>

\* It compares the link with what it knew; devOpen follows when it came up.
RxDecide ==
    /\ rx = "decide"
    /\ up' = ready
    /\ rx' = IF up = ready THEN "check" ELSE IF ready THEN "open" ELSE "down"
    /\ UNCHANGED <<bridge, running, ready, main, flags, st, last>>

\* NotifyConnected: only a pending disconnection is worth a wake-up ...
NotifyConnected ==
    /\ rx = "open"
    /\ connected' = TRUE
    /\ rx' = IF notify THEN "wakeC" ELSE "postC"
    /\ UNCHANGED <<bridge, running, local, main, stop, notify, st, last>>

\* status_cv.notify_one().
NotifyOne ==
    st' = CASE st = "grace" -> "woken" [] st = "wait" -> "start" [] OTHER -> st

WakeConnected ==
    /\ rx = "wakeC" /\ rx' = "postC"
    /\ NotifyOne
    /\ UNCHANGED <<bridge, running, local, main, flags, last>>

\* ... and the user is told in any case.
PostConnected ==
    /\ rx = "postC" /\ rx' = "check"
    /\ last' = "connected"
    /\ UNCHANGED <<bridge, running, local, main, flags, st>>

\* Mutant of NotifyDisconnected: the status thread is not started.
NotifyDisconnected_NoStart ==
    /\ rx = "down" /\ rx' = "wakeD"
    /\ connected' = FALSE /\ notify' = TRUE
    /\ UNCHANGED <<bridge, running, local, main, stop, st, last>>

\* NotifyDisconnected: the request is put down and the status thread is
\* started, unless it was started before and has not been joined.
NotifyDisconnected ==
    /\ rx = "down" /\ rx' = "wakeD"
    /\ connected' = FALSE /\ notify' = TRUE
    /\ st' = IF st = "none" THEN "start" ELSE st
    /\ UNCHANGED <<bridge, running, local, main, stop, last>>

WakeDisconnected ==
    /\ rx = "wakeD" /\ rx' = "check"
    /\ NotifyOne
    /\ UNCHANGED <<bridge, running, local, main, flags, last>>

-----------------------------------------------------------------------------
(* The status thread: ComPort::status_thread_loop, one action per stretch  *)
(* between two waits.                                                      *)

StatusStep == UNCHANGED <<bridge, running, rx, local, main, stop, connected>>

\* The head of the loop.
StLoop ==
    /\ st = "start"
    /\ st' = IF stop THEN "ended" ELSE IF notify THEN "grace" ELSE "wait"
    /\ StatusStep /\ UNCHANGED <<notify, last>>

\* Mutants of StReport: it does not look at the stop flag, it does not look at
\* the link, it does not reset the request.
StReport_IgnoresStop ==
    /\ st \in {"woken", "expired"}
    /\ last' = IF connected THEN last ELSE "disconnected"
    /\ notify' = FALSE
    /\ st' = "wait"
    /\ StatusStep

StReport_Always ==
    /\ st \in {"woken", "expired"} /\ ~stop
    /\ last' = "disconnected"
    /\ notify' = FALSE
    /\ st' = "wait"
    /\ StatusStep

StReport_KeepsRequest ==
    /\ st \in {"woken", "expired"} /\ ~stop
    /\ last' = IF connected THEN last ELSE "disconnected"
    /\ st' = "wait"
    /\ StatusStep /\ UNCHANGED notify

\* After the grace: the user is told unless the link is up again.
StReport ==
    /\ st \in {"woken", "expired"} /\ ~stop
    /\ last' = IF connected THEN last ELSE "disconnected"
    /\ notify' = FALSE
    /\ st' = "wait"
    /\ StatusStep

StStopped ==
    /\ st \in {"woken", "expired"} /\ stop
    /\ st' = "ended"
    /\ StatusStep /\ UNCHANGED <<notify, last>>

\* Ten seconds have passed.
StExpire ==
    /\ st = "grace" /\ st' = "expired"
    /\ StatusStep /\ UNCHANGED <<notify, last>>

StSpurious ==
    /\ Spurious
    /\ st \in {"grace", "wait"}
    /\ NotifyOne
    /\ StatusStep /\ UNCHANGED <<notify, last>>

-----------------------------------------------------------------------------
(* The main thread. *)

\* StopRxThread and StartRxThread around a declaration; the driver may read
\* what is queued in between.
StopRxThread ==
    /\ main = "run" /\ main' = "pausing"
    /\ running' = FALSE
    /\ UNCHANGED <<bridge, rx, local, flags, st, last>>

JoinedRxThread ==
    /\ main = "pausing" /\ rx = "done"
    /\ main' = "paused" /\ rx' = "none"
    /\ UNCHANGED <<bridge, running, local, flags, st, last>>

\* Mutant of StartRxThread: no thread is started.
StartRxThread_NoThread ==
    /\ main = "paused" /\ main' = "run"
    /\ running' = TRUE
    /\ changed' = TRUE /\ queued' \in {queued, FALSE}
    /\ UNCHANGED <<link, callback, unreported, rx, local, flags, st, last>>

StartRxThread ==
    /\ main = "paused" /\ main' = "run"
    /\ running' = TRUE
    /\ rx' = "check" /\ up' = FALSE /\ ready' = FALSE
    /\ changed' = TRUE /\ queued' \in {queued, FALSE}
    /\ UNCHANGED <<link, callback, unreported, flags, st, last>>

\* AndroidPort::Close forbids the receive thread to go on, then ComPort::Close
\* stops the status thread ...
Close ==
    /\ main = "run" /\ main' = "closing"
    /\ running' = FALSE
    /\ UNCHANGED <<bridge, rx, local, flags, st, last>>

StopStatus ==
    /\ main = "closing" /\ main' = "wakeS"
    /\ stop' = TRUE
    /\ UNCHANGED <<bridge, running, rx, local, notify, connected, st, last>>

WakeStop ==
    /\ main = "wakeS" /\ main' = "join"
    /\ NotifyOne
    /\ UNCHANGED <<bridge, running, rx, local, flags, last>>

\* ... joins it, if it was ever started ...
JoinStatus ==
    /\ main = "join" /\ main' = "joinRx"
    /\ st \in {"none", "ended"}
    /\ st' = "none"
    /\ UNCHANGED <<bridge, running, rx, local, flags, last>>

\* ... and joins the receive thread; then the port is deleted.
DeletePort ==
    /\ main = "joinRx" /\ rx = "done"
    /\ main' = "deleted" /\ rx' = "none"
    /\ callback' = FALSE
    /\ UNCHANGED <<link, unreported, changed, queued, running, local, flags, st, last>>

-----------------------------------------------------------------------------
Java == LinkChanges \/ LinkChangesSilently \/ PortStateChanged \/ DataReceived

Receive ==
    \/ RxTake \/ RxEnd \/ RxProcessed \/ RxDecide
    \/ NotifyConnected \/ WakeConnected \/ PostConnected
    \/ NotifyDisconnected \/ WakeDisconnected

Status == StLoop \/ StReport \/ StStopped \/ StExpire \/ StSpurious

Declare == StopRxThread \/ JoinedRxThread \/ StartRxThread

ClosePort == Close \/ StopStatus \/ WakeStop \/ JoinStatus \/ DeletePort

\* The port is gone.
Ended == main = "deleted" /\ UNCHANGED vars

Next == Java \/ Receive \/ Status \/ Declare \/ ClosePort \/ Ended

Spec == Init /\ [][Next]_vars

\* Every thread that can go on does; a started call of Close or StopRxThread
\* goes on, but nothing makes the user begin one; the link need never change.
Fairness ==
    /\ WF_vars(Receive)
    /\ WF_vars(StLoop) /\ WF_vars(StReport) /\ WF_vars(StStopped) /\ WF_vars(StExpire)
    /\ WF_vars(JoinedRxThread)
    /\ WF_vars(StopStatus) /\ WF_vars(WakeStop) /\ WF_vars(JoinStatus) /\ WF_vars(DeletePort)

FairSpec == Spec /\ Fairness

-----------------------------------------------------------------------------
(* Safety. *)

\* No wake-up is lost, though every notify_one comes after the mutex was
\* released and the waits have no predicate: the status thread never sleeps on
\* a request to report or to stop, unless the notify for it is still to come.
NoLostWakeup ==
    /\ st = "wait" /\ notify => rx = "wakeD"
    /\ st \in {"wait", "grace"} /\ stop => main = "wakeS"

\* When nothing is pending, the last message is about the present status: a
\* report that crosses a reconnection never has the last word.
StatusSettled ==
    /\ ~notify /\ rx \notin {"wakeC", "postC"}
    => (last = "connected" <=> connected)

\* The receive thread sleeps on a wrong view of the link only if a call of
\* PortStateChanged that will wake it is still to come, or if the link has
\* changed without a report since the thread last woke up.  Whatever wakes it,
\* be it data or the report of another change, brings its view up to date:
\* what it missed is made good then, and it misses nothing else.
LinkSeen ==
    rx = "check" /\ running /\ ~changed /\ ~callback /\ ~unreported => up = link

\* The user reads "disconnected" only after a "connected" that it takes back:
\* one loss of the link is never reported twice.
ReportsAlternate ==
    [][StReport /\ ~connected => last = "connected"]_vars

-----------------------------------------------------------------------------
(* The inductive invariant behind the safety properties.                   *)

\* What the receive thread knows of the link, and the step that follows from it.
LinkInv ==
    rx \notin {"none", "done"} /\ ~changed /\ ~callback /\ ~unreported => ready = link

UpInv ==
    /\ rx \notin {"none", "done", "data", "decide"} => up = ready
    /\ rx \in {"open", "wakeC", "postC"} => up
    /\ rx \in {"down", "wakeD"} => ~up

\* What the user was told, against the status.
ToldInv ==
    /\ rx \in {"wakeC", "postC"} => connected
    /\ connected => rx \in {"wakeC", "postC"} \/ last = "connected"
    /\ ~connected => (last = "connected" <=> notify)
    /\ rx = "down" \/ (rx \in {"check", "data", "decide"} /\ up) => connected
    /\ st \in {"grace", "woken", "expired"} => notify

IInv == NoLostWakeup /\ LinkInv /\ UpInv /\ ToldInv

-----------------------------------------------------------------------------
(* The abstract specification that the threads implement.                  *)

\* The messages that are still to come.
Due == (IF rx \in {"wakeC", "postC"} THEN {"connected"} ELSE {})
       \cup (IF notify THEN {"disconnected"} ELSE {})

Report == INSTANCE LinkReport WITH due <- Due, told <- last, closed <- stop

\* Whatever the order in which the receive thread, the status thread and the
\* main thread go on, and whichever wake-ups come early or for nothing, the
\* user sees only what LinkReport allows.
ImplementsLinkReport == Report!Spec

-----------------------------------------------------------------------------
(* Liveness. *)

\* Close and StopRxThread return: neither joins a thread that sleeps for ever.
CloseReturns ==
    main \notin {"run", "paused", "deleted"} ~> main \in {"paused", "deleted"}

\* A disconnection is reported, unless the link comes back or the port is closed.
DisconnectReported ==
    notify /\ ~connected ~> connected \/ last = "disconnected" \/ stop

===============================================================================
