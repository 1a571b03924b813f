------------------------------ MODULE TimeGates ------------------------------
(***************************************************************************)
(* The start gates of a task, as operators on a record of the runtime      *)
(* globals of TimeGates.cpp:                                               *)
(*   open, close   PGOpenTime, PGCloseTime                                 *)
(*   number        PGNumberOfGates                                         *)
(*   next          NextGate: the next gate to open, negative if none       *)
(* Times are local times of one day, LocalTime(utc_time) in the code; what *)
(* the code converts a second time is LocalTime(t) here.  The reminders    *)
(* before an opening are messages and left out.                            *)
(***************************************************************************)
EXTENDS Integers

CONSTANTS
    OpenTime, CloseTime,  \* PGOpenTimeH and M, PGCloseTimeH and M
    Interval,             \* PGGateIntervalTime
    NumberOfGates,        \* PGNumberOfGates as the task file has it
    WaitingTime,          \* from the pilot event to the opening of the gate
    StartWindow,          \* how long that gate stays open
    DayEnd,               \* 86399
    Offset                \* GetUTCOffset()

ASSUME GatesAssumption ==
    /\ OpenTime \in Nat /\ CloseTime \in Nat /\ DayEnd \in Nat
    /\ Interval \in Nat \ {0} /\ NumberOfGates \in Nat \ {0}
    /\ WaitingTime \in Nat /\ StartWindow \in Nat
    /\ Offset \in -DayEnd .. DayEnd

GateKind == {"anytime", "fixed", "pev"}

Gates == [open: Nat, close: Nat, number: Nat, next: Int]

\* From UTC to local time, within a day.
LocalTime(t) ==
    LET local == t + Offset
    IN  IF local > DayEnd THEN local - (DayEnd + 1)
        ELSE IF local < 0 THEN local + (DayEnd + 1)
        ELSE local

GateTime(g, gate) == g.open + gate * Interval

\* The first gate that is still to open, -1 if there is none.
CalcNextGate(g, t) ==
    LET first == {i \in 0 .. g.number - 1 :
                      t < GateTime(g, i) /\ (i = 0 \/ GateTime(g, i - 1) <= t)}
    IN  IF first = {} THEN -1 ELSE CHOOSE i \in first : TRUE

\* What InitActiveGate leaves in the globals; its result is not part of them.
\* Fixed gates keep their number, a pilot event's too.
Configured(kind, number) ==
    IF kind = "fixed"
    THEN [open |-> OpenTime, close |-> IF CloseTime > DayEnd THEN DayEnd ELSE CloseTime,
          number |-> number, next |-> -1]
    ELSE [open |-> 0, close |-> DayEnd, number |-> 0, next |-> -1]

InitActiveGate(kind, number, t) ==
    LET g == Configured(kind, number)
    IN  [g EXCEPT !.next = IF t > g.close THEN -1
                           ELSE IF t < g.open THEN 0
                           ELSE CalcNextGate(g, t) - 1]

\* InitActiveGate() passes the local time on as if it were UTC.
ResetGates(kind, number, t) == InitActiveGate(kind, number, LocalTime(t))

\* gp: the task is a race to goal; other tasks have no fixed gates.
UseGates(kind, gp, g) == kind = "pev" \/ (kind = "fixed" /\ gp /\ g.number > 0)

HaveGates(g, t) == t < g.close

ValidGate(kind, gp, g, t) ==
    UseGates(kind, gp, g) => /\ ~(kind = "pev" /\ g.open = 0)
                             /\ g.open <= t /\ t < g.close

\* Mutant of NotifyGateState: the next gate opens with every fix.
NotifyGateState_Early(kind, gp, g, t) ==
    IF ~UseGates(kind, gp, g) THEN g
    ELSE IF g.next < 0        THEN InitActiveGate(kind, g.number, t)
    ELSE IF ~HaveGates(g, t)  THEN [g EXCEPT !.next = -1]
    ELSE IF g.next < g.number THEN [g EXCEPT !.next = @ + 1]
    ELSE g

NotifyGateState(kind, gp, g, t) ==
    IF ~UseGates(kind, gp, g) THEN g
    ELSE IF g.next < 0        THEN InitActiveGate(kind, g.number, t)
    ELSE IF ~HaveGates(g, t)  THEN [g EXCEPT !.next = -1]      \* AlertGateClose
    ELSE IF g.next < g.number /\ GateTime(g, g.next) <= t
                              THEN [g EXCEPT !.next = @ + 1]   \* AlertGateOpen
    ELSE g

OpenGateTime(g) == IF g.next > 0 THEN GateTime(g, g.next - 1) ELSE g.open

\* StartTask takes the time of the fix if there is no gate, and if GateTime
\* throws because there is no such gate.
TaskStartTime(kind, gp, g, t) ==
    IF /\ UseGates(kind, gp, g) /\ HaveGates(g, t)
       /\ g.next <= g.number /\ OpenGateTime(g) > 0
    THEN OpenGateTime(g)
    ELSE t

\* TriggerPevStart: the gates of the pilot event, whatever the kind.
PevGates(t) == [open |-> t + WaitingTime, close |-> t + WaitingTime + StartWindow,
                number |-> 1, next |-> 0]
==============================================================================
