------------------------------ MODULE Declaration ------------------------------
(***************************************************************************)
(* Declaring a task to a logger (devDeclare), and the acknowledgements of  *)
(* the device (wait_ack).                                                  *)
(*                                                                         *)
(* The main thread holds CritSec_Comm and gives the device the lines of    *)
(* the declaration one by one: line 1 begins a new task, each other adds   *)
(* one thing to it.  There are four kinds of driver.                       *)
(*                                                                         *)
(*  "flarm"  Flarm and LX Nano 3: the receive thread keeps running, sees   *)
(*           the acknowledgement of the line, which names the line, and    *)
(*           wakes the main thread, whose wait releases the lock.          *)
(*  "fenix"  RC Fenix: the same, but every line is acknowledged alike.     *)
(*  "stop"   LX Nano, LX MiniMap, IMI, EOS, GPS-NAV: the receive thread is *)
(*           stopped, the main thread reads the answers itself and starts  *)
(*           the receive thread again whatever the device has said.        *)
(*  "leave"  CAI 302, EW, EW MicroRecorder, Volkslogger: the same, but the *)
(*           driver returns at once when the device does not answer.       *)
(*                                                                         *)
(* Lines and answers keep their order on the way; either may be lost.      *)
(* Writing never fails here.  What a line contains is left out, and so is  *)
(* the content of the answers that "stop" and "leave" read themselves.     *)
(***************************************************************************)
EXTENDS Naturals, Sequences

CONSTANTS
    Drivers,    \* the kinds of driver to look at
    Lines,      \* the number of lines of the declaration
    Attempts    \* bound: how often the pilot tries

ASSUME DeclarationAssumption ==
    /\ Drivers \subseteq {"flarm", "fenix", "stop", "leave"}
    /\ Lines \in Nat \ {0}
    /\ Attempts \in Nat

VARIABLES
    driver,     \* the device's driver
    holder,     \* who holds CritSec_Comm
    main,       \* where the main thread is in devDeclare
    at,         \* the line it is at
    attempt,    \* how often it has been called
    declared,   \* what it has returned: DeclaredToDevice
    expects,    \* wait_ack::success_str: the line to be acknowledged, 0: none
    result,     \* wait_ack::result
    rx,         \* where the receive thread of the port is
    line,       \* the line it has received
    stop,       \* ComPort::stop
    lines, answers, \* on the way to the device and back
    task        \* the task of the device

caller == <<main, at, attempt, declared>>
ack    == <<expects, result>>
thread == <<rx, line, stop>>
device == <<lines, answers, task>>
vars   == <<driver, holder, caller, ack, thread, device>>

Line     == 1 .. Lines
Refused  == 0           \* the answer to a line the device does not accept
Sentence == Lines + 1   \* a sentence that has nothing to do with the declaration
Answers  == Line \cup {Refused}
Waiting == driver \in {"flarm", "fenix"}

TypeOK ==
    /\ driver \in Drivers
    /\ holder \in {"none", "main", "other"}
    /\ main \in {"idle", "send", "wait", "late", "stop", "join", "relock", "read", "restart"}
    /\ at \in Line /\ attempt \in 0 .. Attempts
    /\ declared \in BOOLEAN
    /\ expects \in Line \cup {0}
    /\ result \in {"timeout", "success", "error"}
    /\ rx \in {"run", "line", "ended"} /\ stop \in BOOLEAN
    /\ line \in Answers \cup {Sentence}
    /\ lines \in Seq(Line) /\ answers \in Seq(Answers) /\ task \in Seq(Line)

Init ==
    /\ driver \in Drivers /\ holder = "none"
    /\ main = "idle" /\ at = 1 /\ attempt = 0 /\ declared = FALSE
    /\ expects = 0 /\ result = "timeout"
    /\ rx = "run" /\ line = Sentence /\ stop = FALSE
    /\ lines = <<>> /\ answers = <<>> /\ task = <<>>

-----------------------------------------------------------------------------
(* The main thread. *)

\* devDeclare locks and calls the driver.
Declare ==
    /\ main = "idle" /\ holder = "none" /\ attempt < Attempts
    /\ holder' = "main" /\ attempt' = attempt + 1 /\ at' = 1
    /\ main' = IF Waiting THEN "send" ELSE "stop"
    /\ UNCHANGED <<driver, declared, ack, thread, device>>

\* It returns, and unlocks.
Return(ok) ==
    /\ main' = "idle" /\ declared' = ok /\ holder' = "none" /\ at' = 1
    /\ UNCHANGED attempt

\* make_wait_ack, WriteString, and wait: the lock is released.
Send ==
    /\ main = "send"
    /\ expects' = at /\ result' = "timeout"
    /\ lines' = Append(lines, at)
    /\ main' = "wait" /\ holder' = "none"
    /\ UNCHANGED <<driver, at, attempt, declared, thread, answers, task>>

\* Mutant of Timeout: a lost answer is waited for.
Timeout_Never ==
    /\ main = "wait" /\ FALSE
    /\ main' = "late"
    /\ UNCHANGED <<driver, holder, at, attempt, declared, ack, thread, device>>

\* Assumed of the device: it is not late by more than one time-out, so that
\* when a line times out nothing sent before that line is still on the way.
OnlyThisLineIsLate ==
    /\ Len(lines) + Len(answers) <= 1
    /\ \A i \in DOMAIN lines : lines[i] = at
    /\ \A i \in DOMAIN answers : answers[i] \in {at, Refused}
    /\ rx = "line" => line = Sentence

\* The time is over: the wait goes on only for the lock.
Timeout ==
    /\ main = "wait"
    /\ OnlyThisLineIsLate
    /\ main' = "late"
    /\ UNCHANGED <<driver, holder, at, attempt, declared, ack, thread, device>>

\* The wait has the lock again and returns what the receive thread has left,
\* also if that came after the time-out.
Acknowledged ==
    /\ main \in {"wait", "late"} /\ holder = "none"
    /\ main = "wait" => result # "timeout"
    /\ result' = "timeout" /\ expects' = 0
    /\ IF result = "success" /\ at < Lines
       THEN /\ main' = "send" /\ at' = at + 1 /\ holder' = "main"
            /\ UNCHANGED <<attempt, declared>>
       ELSE Return(result = "success")
    /\ UNCHANGED <<driver, thread, device>>

\* ScopeUnlock, and StopRxThread.
StopRxThread ==
    /\ main = "stop"
    /\ main' = "join" /\ holder' = "none" /\ stop' = TRUE
    /\ UNCHANGED <<driver, at, attempt, declared, ack, rx, line, device>>

\* Mutant of Joined: the end of the receive thread is not waited for.
Joined_AtOnce ==
    /\ main = "join"
    /\ main' = "relock"
    /\ UNCHANGED <<driver, holder, at, attempt, declared, ack, thread, device>>

Joined ==
    /\ main = "join" /\ rx = "ended"
    /\ main' = "relock"
    /\ UNCHANGED <<driver, holder, at, attempt, declared, ack, thread, device>>

Relock ==
    /\ main = "relock" /\ holder = "none"
    /\ main' = "read" /\ holder' = "main"
    /\ UNCHANGED <<driver, at, attempt, declared, ack, thread, device>>

\* Mutant of Expected: one line too many.
Expected_PastEnd ==
    /\ main = "read"
    /\ at' = at + 1
    /\ UNCHANGED <<driver, holder, main, attempt, declared, ack, thread, device>>

\* The device has answered a line as it should.
Expected ==
    /\ main = "read" /\ at < Lines
    /\ at' = at + 1
    /\ UNCHANGED <<driver, holder, main, attempt, declared, ack, thread, device>>

\* Mutant of GivesUp: the driver that returns at once is the only one.
GivesUp_AtOnce == main = "read"

\* It has not: only some drivers go on to start the receive thread.
GivesUp == main = "read" /\ driver = "leave"

Unexpected ==
    /\ GivesUp
    /\ Return(FALSE)
    /\ UNCHANGED <<driver, ack, thread, device>>

Done ==
    /\ main = "read" /\ (at = Lines \/ driver = "stop")
    /\ main' = "restart"
    /\ UNCHANGED <<driver, holder, at, attempt, declared, ack, thread, device>>

\* at = Lines: every answer but the last is known to be as expected.
StartRxThread ==
    /\ main = "restart"
    /\ rx' = "run" /\ stop' = FALSE
    /\ \E ok \in BOOLEAN : (ok => at = Lines) /\ Return(ok)
    /\ UNCHANGED <<driver, ack, line, device>>

-----------------------------------------------------------------------------
(* The receive thread: it parses what it has received with the lock. *)

\* Mutant of Matches: any acknowledgement is that of the line.
Matches_Any(received) == expects # 0 /\ received \in Line

\* wait_ack::compare_nmea with the string of success.
Matches(received) ==
    /\ expects # 0 /\ received \in Line
    /\ driver = "fenix" \/ received = expects

RxData ==
    /\ rx = "run" /\ ~stop
    /\ rx' = "line" /\ line' = Sentence
    /\ UNCHANGED <<driver, holder, caller, ack, stop, device>>

RxAnswer ==
    /\ rx = "run" /\ ~stop /\ answers # <<>>
    /\ rx' = "line" /\ line' = Head(answers) /\ answers' = Tail(answers)
    /\ UNCHANGED <<driver, holder, caller, ack, stop, lines, task>>

\* ProcessData: wait_ack::check, or the parser.
Parse ==
    /\ rx = "line" /\ holder = "none"
    /\ rx' = "run" /\ line' = Sentence
    /\ result' = CASE Matches(line) -> "success"
                   [] line = Refused /\ expects # 0 /\ driver = "flarm" -> "error"
                   [] OTHER -> result
    /\ UNCHANGED <<driver, holder, caller, expects, stop, device>>

RxEnd ==
    /\ rx = "run" /\ stop
    /\ rx' = "ended"
    /\ UNCHANGED <<driver, holder, caller, ack, line, stop, device>>

-----------------------------------------------------------------------------
(* Other threads use the devices under the lock (for_all_device). *)

Take ==
    /\ holder = "none"
    /\ holder' = "other"
    /\ UNCHANGED <<driver, caller, ack, thread, device>>

Give ==
    /\ holder = "other"
    /\ holder' = "none"
    /\ UNCHANGED <<driver, caller, ack, thread, device>>

-----------------------------------------------------------------------------
(* The device, and what happens on the way. *)

Arrives(k) == IF k = 1 THEN <<1>> ELSE Append(task, k)

Accept ==
    /\ lines # <<>>
    /\ task' = Arrives(Head(lines))
    /\ lines' = Tail(lines) /\ answers' = Append(answers, Head(lines))
    /\ UNCHANGED <<driver, holder, caller, ack, thread>>

Refuse ==
    /\ lines # <<>>
    /\ lines' = Tail(lines) /\ answers' = Append(answers, Refused)
    /\ UNCHANGED <<driver, holder, caller, ack, thread, task>>

LoseLine ==
    /\ lines # <<>>
    /\ lines' = Tail(lines)
    /\ UNCHANGED <<driver, holder, caller, ack, thread, answers, task>>

LoseAnswer ==
    /\ answers # <<>>
    /\ answers' = Tail(answers)
    /\ UNCHANGED <<driver, holder, caller, ack, thread, lines, task>>

-----------------------------------------------------------------------------
Main ==
    \/ Send \/ Timeout \/ Acknowledged
    \/ StopRxThread \/ Joined \/ Expected \/ Unexpected \/ Done \/ StartRxThread

Receive == RxData \/ RxAnswer \/ Parse \/ RxEnd

Device == Accept \/ Refuse \/ LoseLine \/ LoseAnswer

Next == Declare \/ Main \/ Relock \/ Receive \/ Take \/ Give \/ Device

Spec == Init /\ [][Next]_vars

\* The threads run, the device reads what it is sent, who waits for the lock
\* gets it in the end; the pilot need not declare.
Fairness ==
    /\ WF_vars(Main) /\ WF_vars(Give) /\ WF_vars(Device)
    /\ SF_vars(Acknowledged) /\ SF_vars(Relock)
    /\ SF_vars(Parse) /\ WF_vars(RxEnd) /\ SF_vars(RxAnswer)

FairSpec == Spec /\ Fairness

-----------------------------------------------------------------------------
(* Properties. *)

\* "Task Declared!": where devDeclare has returned success, the device holds
\* exactly the task that was declared, whatever was lost or late.  If an
\* acknowledgement tells the line this is so whatever was left of earlier
\* attempts; if it does not, it is so of the first attempt.
TaskDeclared ==
    main = "idle" /\ declared /\ Waiting => task = [k \in Line |-> k]
NamedTaskDeclared == driver = "flarm" \/ attempt = 1 => TaskDeclared

\* While a driver reads the answers itself nobody else reads or writes the port.
SolePort == main = "read" => rx = "ended" /\ holder = "main"

\* A declaration, successful or not, leaves a device that is still received:
\* "restart RX thread (we must try that always)".
Received == main = "idle" => rx # "ended"

\* So it does for the drivers that do not return early, and for any driver when
\* the declaration succeeds, also after one that has not.
ReceivedAgain == (driver = "leave" => declared) => Received

\* devDeclare returns: neither a lost answer, nor the receive thread that waits
\* for the lock of the thread that joins it, keeps it for ever.
DeclareReturns == main # "idle" ~> main = "idle"

-----------------------------------------------------------------------------
(* The inductive invariant of the proofs. *)

\* The lock is with the main thread exactly where the code holds it.
LockHeld == (holder = "main") <=> (main \in {"send", "stop", "read", "restart"})

\* The receive thread is told to stop, and has ended, where it should have.
ThreadStopped ==
    /\ main \in {"join", "relock", "read", "restart"} => stop /\ ~Waiting
    /\ main \in {"relock", "read", "restart"} => rx = "ended"
    /\ rx = "ended" => stop
    /\ Waiting => ~stop /\ main # "stop"
    /\ main \in {"send", "wait", "late"} => Waiting
    /\ driver = "stop" /\ stop => main \in {"join", "relock", "read", "restart"}
    /\ main = "idle" /\ declared => ~stop

\* What is on the way, from the oldest to the newest: an answer the receive
\* thread has taken, other answers, lines.
Hand  == rx = "line" /\ line # Sentence
OnWay == Len(lines) + Len(answers) + (IF Hand THEN 1 ELSE 0)

\* The task once the first k lines are with the device.
First(k) == [i \in 1 .. k |-> i]

\* Line k has been accepted, and its acknowledgement not lost yet.
Heard(k) == (Hand /\ line = k) \/ \E i \in DOMAIN answers : answers[i] = k

\* Everything on the way belongs to line k.
Own(k) ==
    /\ \A i \in DOMAIN lines : lines[i] = k
    /\ \A i \in DOMAIN answers : answers[i] \in {k, Refused}
    /\ Hand => line \in {k, Refused}

\* Line k has been acknowledged; only a second line 1, of an earlier attempt,
\* may still be on the way.
Acked(k) == task = First(k) /\ Own(1) /\ OnWay <= IF k = 1 THEN 1 ELSE 0

\* What is left between two attempts.
Left == OnWay <= 1 /\ (Heard(1) => task = First(1))

\* While line 1 is waited for, anything may be before it.
FirstLine ==
    /\ \A i \in DOMAIN lines : i > 1 \/ answers # <<>> \/ Hand => lines[i] = 1
    /\ \A i \in DOMAIN answers : i > 1 \/ Hand => answers[i] \in {1, Refused}
    /\ Heard(1) => task = First(1)

\* While line k > 1 is waited for, only a line 1 may be before it.
LaterLine(k) ==
    /\ lines # <<>> => /\ task = First(k - 1)
                       /\ lines[Len(lines)] = k
                       /\ \A i \in 1 .. Len(lines) - 1 : lines[i] = 1
    /\ \A i \in DOMAIN answers : i > 1 \/ Hand => answers[i] \in {k, Refused}
    /\ \A i \in DOMAIN answers : answers[i] = k => i = Len(answers) /\ lines = <<>>
    /\ Hand /\ line = k => answers = <<>> /\ lines = <<>>
    /\ Heard(k) => task = First(k)

WaitFor(k) ==
    IF result = "success" THEN Acked(k)
    ELSE /\ OnWay <= IF k > 2 THEN 1 ELSE 2
         /\ main = "late" \/ result = "error" => OnWay <= 1 /\ Own(k)
         /\ IF k = 1 THEN FirstLine ELSE LaterLine(k)

\* With named acknowledgements the device follows the declaration.
Follows ==
    /\ main = "idle" => Left /\ (declared => Acked(Lines))
    /\ main = "send" => IF at = 1 THEN Left ELSE Acked(at - 1)
    /\ main \in {"wait", "late"} => expects = at /\ WaitFor(at)

\* The first time there is nothing but the line that is waited for, so any
\* acknowledgement is that of this line.
FirstWait(k) ==
    IF result = "success" THEN OnWay = 0 /\ task = First(k)
    ELSE OnWay <= 1 /\ Own(k) /\ IF k = 1 THEN FirstLine ELSE LaterLine(k)

FirstTry ==
    attempt <= 1 /\ Waiting =>
        /\ main = "idle" /\ (attempt = 0 \/ declared) => OnWay = 0
        /\ main = "idle" /\ declared => task = First(Lines)
        /\ main = "send" => OnWay = 0 /\ (at > 1 => task = First(at - 1))
        /\ main \in {"wait", "late"} => expects = at /\ FirstWait(at)
        /\ attempt = 0 => main = "idle" /\ ~declared

IInv ==
    /\ TypeOK /\ LockHeld /\ ThreadStopped
    /\ driver = "flarm" => Follows
    /\ FirstTry
================================================================================
