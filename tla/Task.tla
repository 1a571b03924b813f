--------------------------------- MODULE Task ---------------------------------
(***************************************************************************)
(* Flying a task: the start, the turn points, the finish, and the pilot.   *)
(*                                                                         *)
(*  - With every fix the calculation thread looks where the aircraft is    *)
(*    (InSector): before the start it watches the gates and the start      *)
(*    sector, then the turn point it flies to, in the end the finish.      *)
(*  - The main thread arms the advance, steps through the points, resets,  *)
(*    reverses or loads a task, and notes pilot events.                    *)
(*                                                                         *)
(* Both work on ActiveTaskPoint under CritSec_TaskData, so that a fix and  *)
(* a command are one action each.  What a command writes to CALCULATED_INFO *)
(* is lost if a calculation is under way, which writes its copy back       *)
(* (module Flight): the commands choose.  Distances and bearings are       *)
(* abstracted to the areas a fix lies in.  Start points besides the first  *)
(* are left out, and so are messages, targets and statistics.              *)
(***************************************************************************)
EXTENDS TimeGates

CONSTANTS
    Last,         \* the index of the finish, getFinalWaypoint()
    Rules,        \* the kinds of task flown
    Readings,     \* what a fix may say, see ReadingSet
    Begin, End,   \* bounds of the clock
    Step,         \* bound on the time between two fixes
    RestartTime   \* 3600: how long a start may be repeated

RuleSet ==
    [type: {"default", "AAT", "GP"},                  \* gTaskType
     start: {"line", "circle", "entry"},              \* StartLine; entry: ~ExitStart
     turn: {"circle", "sector"}, finish: {"circle", "line"},
     mode: {"manual", "auto", "arm", "armstart", "armtps"},   \* AutoAdvance
     gates: GateKind,                                 \* TimeGates::GateType
     ga: BOOLEAN]                                     \* ISGAAIRCRAFT

Turns == 1 .. Last   \* the areas of turn points, the finish taken as one

\* at: near, within the radius of the start; start, in its sector; departure,
\* within the radius of the field; finish, within that of the finish; before,
\* on the approach side of its line.  turns: the points whose areas it lies in.
ReadingSet ==
    [at: SUBSET {"near", "start", "departure", "finish", "before"},
     turns: SUBSET Turns,
     air: {"ground", "towed", "free"},       \* Flying, and FreeFlying if asked for
     height: {"legal", "margin", "above"},   \* speed and height against the start rules
     high: BOOLEAN]                          \* above the lowest finish height

ASSUME TaskAssumption ==
    /\ Last \in Nat \ {0} /\ Rules \subseteq RuleSet
    /\ Readings \subseteq ReadingSet
    /\ End \in 0 .. DayEnd /\ Begin \in 0 .. End /\ Step \in Nat /\ RestartTime \in Nat

VARIABLES
    rules,     \* the task and the settings
    now,       \* the time of the last fix
    task,      \* the state of the task, see TaskType
    gates,     \* the globals of TimeGates.cpp
    event,     \* history: the last fix began the task
    hands,     \* history: the task is not flown as it was begun by a fix:
               \*   not begun, or the pilot has changed the point or the task
    reached,   \* history: points 1 .. reached were reached in order since the start
    inStart    \* history: the last fix lay in the start sector of this task

vars == <<rules, now, task, gates, event, hands, reached, inStart>>

TaskType ==
    [active: 0 .. Last,               \* ActiveTaskPoint
     armed: BOOLEAN,                  \* AdvanceArmed
     validStart: BOOLEAN, validFinish: BOOLEAN,
     startTime: Nat,                  \* TaskStartTime, 0: none
     entered: SUBSET Turns,           \* AATDistance, has_entered
     lastIn: {"unknown", "in", "out"},   \* LastInSector of InStartSector
     lastTurn: {"unknown", "in", "out"}, \* last_isInSector of CheckInSector
     lastFinish: BOOLEAN]             \* LastInSector of InFinishSector

GP   == rules.type = "GP"
Use  == UseGates(rules.gates, GP, gates)
Side(inside) == IF inside THEN "in" ELSE "out"

Init ==
    /\ rules \in Rules /\ now = Begin
    /\ task = [active |-> 0, armed |-> FALSE, validStart |-> FALSE, validFinish |-> FALSE,
               startTime |-> 0, entered |-> {}, lastIn |-> "unknown",
               lastTurn |-> "unknown", lastFinish |-> FALSE]
    /\ gates = Configured(rules.gates, NumberOfGates)
    /\ event = "none" /\ hands = TRUE /\ reached = 0 /\ inStart = FALSE

------------------------------------------------------------------------------
(* Advancing *)

\* With reset: the only use that changes something.  If it says yes the
\* advance is disarmed.
ReadyToAdvance(s, f, restart) ==
    /\ f.air = "free"
    /\ CASE rules.mode = "manual"   -> FALSE
         [] rules.mode = "auto"     -> TRUE
         [] rules.mode = "arm"      -> s.armed
         [] rules.mode = "armstart" -> (s.active = 0 \/ restart) => s.armed
         [] rules.mode = "armtps"   -> (s.active = 0 \/ restart) \/ s.armed

\* Mutant of AdvanceToNext: the advance stays armed.
AdvanceToNext_StaysArmed(s, f) ==
    [s EXCEPT !.active      = IF ReadyToAdvance(s, f, FALSE) THEN @ + 1 ELSE @,
              !.validFinish = @ /\ f.air = "ground"]

AdvanceToNext(s, f) ==
    LET ready == ReadyToAdvance(s, f, FALSE)
    IN  [s EXCEPT !.active      = IF ready THEN @ + 1 ELSE @,
                  !.armed       = @ /\ ~ready,
                  !.validFinish = @ /\ f.air = "ground"]

------------------------------------------------------------------------------
(* The start *)

\* Mutant of StartTask: the area task remembers the points of the last attempt.
StartTask_KeepsEntered(s, g, t, advance) ==
    [s EXCEPT !.validFinish = FALSE,
              !.startTime   = TaskStartTime(rules.gates, GP, g, t),
              !.active      = IF advance THEN 1 ELSE @]

StartTask(s, g, t, advance) ==
    [s EXCEPT !.validFinish = FALSE,
              !.startTime   = TaskStartTime(rules.gates, GP, g, t),
              !.entered     = {},
              !.active      = IF advance THEN 1 ELSE @]

\* InStartSector: LastInSector after the fix, and whether the start is crossed.
WatchesStart(s, f) ==
    /\ f.air # "ground" /\ s.active < Last /\ f.height # "above"
    /\ rules.ga => s.active = 0

Departed(s, f) == rules.ga /\ s.active = 0 /\ "departure" \in f.at

\* Away from a line LastInSector is set to false, left sideways or not.
WasInStart(s, f) ==
    IF rules.start = "line" /\ "near" \notin f.at THEN "out" ELSE s.lastIn

Crosses(s, f) ==
    LET in == "start" \in f.at
    IN  IF rules.start = "entry" THEN WasInStart(s, f) = "out" /\ in
                                 ELSE WasInStart(s, f) = "in" /\ ~in

StartCrossed(s, f) == Departed(s, f) \/ (WatchesStart(s, f) /\ Crosses(s, f))

LastInSector(s, f) ==
    IF WatchesStart(s, f) /\ ~Departed(s, f) THEN Side("start" \in f.at) ELSE s.lastIn

ByTheRules(f) == f.height = "legal"

\* CheckStart begins the task and goes on to the first turn point.
Begins(s, f, g, t) ==
    /\ StartCrossed(s, f)
    /\ ValidGate(rules.gates, GP, g, t)
    /\ rules.ga \/ (s.active < Last /\ ByTheRules(f) /\ ReadyToAdvance(s, f, TRUE))

CheckStart(s0, f, g, t) ==
    LET s       == [s0 EXCEPT !.lastIn = LastInSector(s0, f)]
        crossed == StartCrossed(s0, f) /\ ValidGate(rules.gates, GP, g, t)
        ready   == ReadyToAdvance(s, f, TRUE)
    IN  IF crossed /\ rules.ga THEN
            [StartTask(s, g, t, TRUE) EXCEPT !.validStart = TRUE]
        ELSE IF crossed /\ ByTheRules(f) THEN
            [IF ready THEN StartTask(s, g, t, TRUE) ELSE s
                EXCEPT !.validStart = TRUE, !.armed = @ /\ ~ready, !.validFinish = FALSE]
        ELSE IF crossed /\ s.active <= 1 /\ ~s.validStart THEN
            [StartTask(s, g, t, FALSE) EXCEPT !.armed = @ /\ ~ready]
        ELSE s

------------------------------------------------------------------------------
(* Turn points and the finish *)

\* AddAATPoint for the points given: only an area task remembers them.
AddAATPoints(s, f, points) ==
    IF rules.type = "AAT" THEN [s EXCEPT !.entered = @ \cup (points \cap f.turns)]
                          ELSE s

\* A circle of a race to goal is reached where its side changes, compared
\* with a static variable that is first set by the first fix of all.
CheckCircle(s, f) ==
    LET side   == Side(s.active \in f.turns)
        next   == AdvanceToNext(s, f)
        change == s.lastTurn \notin {"unknown", side}
    IN  IF change THEN [next EXCEPT !.lastTurn = Side(next.active \in f.turns)]
                  ELSE [s EXCEPT !.lastTurn = side]

CheckInSector(s0, f) ==
    LET s == AddAATPoints(s0, f, {s0.active - 1, s0.active})
    IN  IF GP /\ rules.turn = "circle" THEN CheckCircle(s, f)
        ELSE IF \/ rules.type # "AAT" /\ s.active \in f.turns
                \/ s.active \in s.entered
             THEN AdvanceToNext(s, f)
             ELSE s

InFinishSector(s, f) ==
    /\ f.high /\ "finish" \in f.at
    /\ rules.finish = "circle" \/ (s.lastFinish /\ "before" \notin f.at)

CheckFinish(s0, f) ==
    LET s == AddAATPoints(s0, f, {s0.active - 1})
    IN  [s EXCEPT !.validFinish = @ \/ InFinishSector(s, f),
                  !.lastFinish  =
                      IF ~f.high THEN @
                      ELSE /\ "finish" \in f.at
                           /\ IF rules.finish = "circle" THEN @ ELSE "before" \in f.at,
                  !.entered     = IF rules.type = "AAT" /\ InFinishSector(s, f)
                                  THEN @ \cup {s.active} ELSE @]

\* InSector looks for the start before it, and for an hour once more on the
\* first leg of a task without gates.
ChecksRestart(s, t) ==
    /\ s.active = 1 /\ s.active < Last /\ ~Use
    /\ t - s.startTime < RestartTime

ChecksStart(s, t) == s.active = 0 \/ ChecksRestart(s, t)

InSector(f, g, t) ==
    LET s == IF ChecksStart(task, t) THEN CheckStart(task, f, g, t) ELSE task
    IN  CASE task.active = 0    -> s
          [] task.active = Last -> CheckFinish(s, f)
          [] OTHER              -> CheckInSector(s, f)

\* A fix with a later time, up to InSector.
Fix(f, t) ==
    /\ LET g      == IF ChecksStart(task, t)
                     THEN NotifyGateState(rules.gates, GP, gates, t) ELSE gates
           begins == ChecksStart(task, t) /\ Begins(task, f, g, t)
       IN  /\ gates' = g
           /\ task' = InSector(f, g, t)
           /\ event' = IF begins THEN "start" ELSE "none"
           /\ hands' = (hands /\ ~begins)
           /\ reached' = LET r == IF begins THEN 0 ELSE reached
                         IN  IF r + 1 \in f.turns THEN r + 1 ELSE r
    /\ now' = t
    /\ inStart' = ("start" \in f.at)
    /\ UNCHANGED rules

------------------------------------------------------------------------------
(* The pilot *)

Commanded ==
    /\ event' = "none" /\ hands' = TRUE
    /\ UNCHANGED <<rules, now, reached>>

\* eventArmAdvance: on, off or toggle.
ArmAdvance ==
    /\ rules.mode \in {"arm", "armstart", "armtps"}
    /\ task' = [task EXCEPT !.armed = ~@]
    /\ event' = "none"
    /\ UNCHANGED <<rules, now, gates, hands, reached, inStart>>

\* Mutant of NextPoint: goes on past the last point.
NextPoint_PastEnd ==
    /\ task' = [task EXCEPT !.active = @ + 1, !.armed = FALSE]
    /\ UNCHANGED <<gates, inStart>>
    /\ Commanded

\* NextUpDown(1), and with 2 from the last point back to the first.
NextPoint ==
    /\ task.active < Last
    /\ \E written \in BOOLEAN :
           task' = [task EXCEPT !.active = @ + 1, !.armed = FALSE,
                                !.startTime = IF task.active = 0 /\ @ = 0 /\ written
                                              THEN now ELSE @]
    /\ UNCHANGED <<gates, inStart>>
    /\ Commanded

FirstPoint ==
    /\ task.active = Last
    /\ task' = [task EXCEPT !.active = 0, !.armed = FALSE]
    /\ UNCHANGED <<gates, inStart>>
    /\ Commanded

\* ResetTask: written is whether its writes to CALCULATED_INFO survive.
Reset(s, written) ==
    [s EXCEPT !.active = 0,
              !.validStart  = @ /\ ~written,
              !.validFinish = @ /\ ~written,
              !.startTime   = IF written THEN 0 ELSE @]

\* NextUpDown(-1): back at the start of a task with gates the pilot may
\* reset it at once.
PreviousPoint ==
    /\ task.active > 0
    /\ LET s == [task EXCEPT !.active = @ - 1, !.entered = @ \ {task.active - 1}]
       IN  \/ task' = s /\ UNCHANGED gates
           \/ /\ s.active = 0 /\ Use
              /\ \E written \in BOOLEAN : task' = Reset(s, written)
              /\ gates' = ResetGates(rules.gates, gates.number, now)
    /\ UNCHANGED inStart
    /\ Commanded

ResetTask ==
    /\ \E written \in BOOLEAN : task' = Reset(task, written)
    /\ gates' = ResetGates(rules.gates, gates.number, now)
    /\ UNCHANGED inStart
    /\ Commanded

\* The same as ResetTask, for a task with another start.
ReverseTask ==
    /\ \E written \in BOOLEAN : task' = Reset(task, written)
    /\ gates' = ResetGates(rules.gates, gates.number, now)
    /\ inStart' = FALSE
    /\ Commanded

\* ClearTask, LoadTimeGate and RefreshTask: nothing else is reset.
LoadTask ==
    /\ task' = [task EXCEPT !.active = 0]
    /\ gates' = Configured(rules.gates, NumberOfGates)
    /\ inStart' = FALSE
    /\ Commanded

\* eventPilotEvent, whatever the kind of gates.
PilotEvent ==
    /\ gates' = PevGates(now)
    /\ event' = "none"
    /\ UNCHANGED <<rules, now, task, hands, reached, inStart>>

Pilot ==
    \/ ArmAdvance \/ NextPoint \/ FirstPoint \/ PreviousPoint
    \/ ResetTask \/ ReverseTask \/ LoadTask \/ PilotEvent

Next ==
    \/ \E f \in Readings, t \in Begin .. End : now < t /\ t <= now + Step /\ Fix(f, t)
    \/ Pilot

Spec == Init /\ [][Next]_vars

------------------------------------------------------------------------------
(* Properties *)

TypeOK ==
    /\ rules \in Rules /\ now \in Begin .. End
    /\ task \in TaskType
    /\ gates \in Gates
    /\ event \in {"none", "start"} /\ hands \in BOOLEAN
    /\ reached \in 0 .. Last /\ inStart \in BOOLEAN

\* As long as the pilot leaves the task alone after its start, no turn point
\* is passed over: the aircraft has been in every one before the active one,
\* in order, and a valid finish comes after all of them.  The circles of a
\* race to goal are excepted: they compare with a side that may be old.
FlownInOrder ==
    ~hands /\ ~(GP /\ rules.turn = "circle") =>
        /\ task.active <= reached + 1
        /\ task.validFinish => task.active = Last

\* A local time converted once more is not a later one: local time is UTC or
\* behind it, and the clock stays away from midnight.
NeverAhead == \A t \in Begin .. End : LocalTime(t) <= t

\* A start is recorded at the time of a gate that has opened, or of the fix:
\* never before the first gate opens, never in the future.  (Where a time that
\* is converted once too often does not get ahead of the clock: see Opened.)
StartInWindow ==
    event = "start" =>
        /\ task.startTime <= now
        /\ Use => task.startTime \in gates.open .. gates.close

\* "0 before first gate open, 1..x for next gates" (NextGate of TimeGates.cpp):
\* the gate before the next one has opened, whatever was reset or configured.
Opened == gates.next > 0 => GateTime(gates, gates.next - 1) <= now

\* Where the pilot has to arm the advance, arming it once allows one start or
\* one turn point, however many areas a fix lies in; in the manual mode no
\* fix changes the point.  (Field departures of motor aircraft need no arming.)
OneArmOneStep ==
    [][ now' # now /\ ~rules.ga =>
        LET began == event' = "start"
            turned == task'.active > (IF began THEN 1 ELSE task.active)
        IN  /\ rules.mode = "manual" => ~began /\ ~turned
            /\ rules.mode \in {"arm", "armstart"} /\ began => task.armed /\ ~task'.armed
            /\ rules.mode \in {"arm", "armtps"} /\ turned => task.armed /\ ~task'.armed
            /\ rules.mode = "arm" => ~(began /\ turned) ]_vars

\* InStartSector: "we crossed the start if we were in sector and now we are
\* not."  A fix that begins the task was preceded by one in the sector of its
\* start, or outside of it if the start is entered.
StartIsCrossed ==
    [][ event' = "start" /\ ~rules.ga =>
        inStart = (rules.start # "entry") /\ inStart' # inStart ]_vars

------------------------------------------------------------------------------
(* The inductive invariant of the proofs. *)

\* What holds from the start of a task until the pilot takes a hand in it.
Begun ==
    ~hands => /\ task.validStart
              /\ task.active > 0
              /\ task.validFinish => task.active = Last
              /\ ~(GP /\ rules.turn = "circle") => task.active <= reached + 1
              /\ task.entered \subseteq 1 .. reached \cup {Last}
              /\ rules.type # "AAT" => task.entered = {}
              /\ Last \in task.entered => task.active = Last

\* A start is never recorded before the first gate opens ...
NotBeforeFirst == event = "start" /\ Use => gates.open <= task.startTime

\* ... and what else is known of the gates where the second conversion does not
\* get ahead of the clock.
GatesInv == NotBeforeFirst /\ (NeverAhead => Opened /\ StartInWindow)

IInv == TypeOK /\ Begun /\ GatesInv
==============================================================================
