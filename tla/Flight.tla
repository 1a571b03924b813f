-------------------------------- MODULE Flight --------------------------------
(***************************************************************************)
(* The calculation thread and the state of the flight.                     *)
(*                                                                         *)
(*  - A receive thread writes a fix into GPS_INFO and signals it           *)
(*    (TriggerGPSUpdate).                                                  *)
(*  - The calculation thread sleeps until there are new data, copies       *)
(*    GPS_INFO and CALCULATED_INFO, works on the copies without a lock and *)
(*    writes CALCULATED_INFO back as a whole, a second time if it has gone *)
(*    through the slow calculations.  Its calculation detects take-off and *)
(*    landing from counts of fast and of slow fixes.                       *)
(*  - The main thread changes fields of CALCULATED_INFO at any moment, may *)
(*    ask for a landing, and in the end stops the thread and joins it.     *)
(*                                                                         *)
(* The copy of the data and the calculation are one action: what they read *)
(* and write besides the copies belongs to this thread, but for the flag   *)
(* LKSW_ForceLanding.  What the fix says of speed and height is chosen     *)
(* where the calculation reads it, and so is how its time compares with    *)
(* that of the last one (the static LastTime of FlightTimes): GpsTime      *)
(* models the clock.  Replay of a file and the simulator are left out.     *)
(***************************************************************************)
EXTENDS Integers

CONSTANTS
    Aircraft,   \* the types of aircraft: "glider" (or aeroplane), "paraglider", "car"
    Times,      \* the times of fixes, to tell flights apart; 0: none
    Steps,      \* 10: more fixes than this tell flight or ground
    CapAir,     \* 60, 600, 900: the limit of time_in_flight by type
    CapGround,  \* 30: the limit of time_on_ground
    Settled     \* 20: time_on_ground at the start of the program

ASSUME FlightAssumption ==
    /\ Aircraft \subseteq {"glider", "paraglider", "car"}
    /\ Times \subseteq Nat /\ 0 \in Times
    /\ Steps \in Nat \ {0}
    /\ CapAir \in [Aircraft -> Nat] /\ \A a \in Aircraft : CapAir[a] > Steps
    /\ CapGround \in Nat /\ CapGround > Steps
    /\ Settled \in 0 .. CapGround

VARIABLES
    aircraft,      \* the type of aircraft
    newData,       \* CalculationThread::new_data
    signalling,    \* the receive thread is about to call cond.notify_one
    run,           \* CalculationThread::run
    main,          \* where the main thread is
    pc,            \* where the calculation thread is
    derived,       \* CALCULATED_INFO
    local,         \* Local_DERIVED
    slow,          \* needcalculationsslow
    finish,        \* Finish_Derived_Info
    timeInFlight, timeOnGround,   \* time_in_flight, time_on_ground
    force,         \* LKSW_ForceLanding
    wish,          \* history: AutoMacCready as the pilot last set it
    fast, low,     \* history: fast fixes since the last landing, low slow
                   \*   fixes since the last take-off, up to Steps + 1
    asked,         \* history: a landing was forced since the last take-off
    later          \* history: a fix was counted since the last take-off

sync    == <<newData, signalling, run>>
counts  == <<timeInFlight, timeOnGround>>
history == <<fast, low, asked, later>>
vars    == <<aircraft, sync, main, pc, derived, local, slow, finish, counts,
             force, wish, history>>

\* "since" is the time from which the statistics of the flight (odometer,
\* contest, climbs, ...) are kept, the rest are fields of DERIVED_INFO.
Info == [Flying : BOOLEAN, OnGround : BOOLEAN, ValidFinish : BOOLEAN,
         AutoMacCready : BOOLEAN, TakeOffTime : Times, since : Times]

Zero == [Flying |-> FALSE, OnGround |-> FALSE, ValidFinish |-> FALSE,
         AutoMacCready |-> FALSE, TakeOffTime |-> 0, since |-> 0]

\* What a fix says: faster than TakeOffSpeedThreshold; slow, and lower than
\* 300 m over the terrain or over no known terrain; slow and higher; not valid.
Kinds == {"fast", "low", "high", "warn"}

TypeOK ==
    /\ aircraft \in Aircraft
    /\ newData \in BOOLEAN /\ signalling \in BOOLEAN /\ run \in BOOLEAN
    /\ main \in {"run", "asking", "notify", "join", "stopped"}
    /\ pc \in {"check", "asleep", "calc", "publish", "slow", "ended"}
    /\ derived \in Info /\ local \in Info /\ finish \in Info
    /\ slow \in BOOLEAN /\ force \in BOOLEAN /\ wish \in BOOLEAN
    /\ timeInFlight \in 0 .. CapAir[aircraft] /\ timeOnGround \in 0 .. CapGround
    /\ fast \in 0 .. Steps + 1 /\ low \in 0 .. Steps + 1
    /\ asked \in BOOLEAN /\ later \in BOOLEAN

-----------------------------------------------------------------------------
(* The parts of the calculation. *)

AtMost(n, limit) == IF n > limit THEN limit ELSE n

\* Mutant of Clamp: the count has no upper limit.
Clamp_NoTop(n, limit) == IF n < 0 THEN 0 ELSE n

Clamp(n, limit) == IF n < 0 THEN 0 ELSE AtMost(n, limit)

\* ResetFlightStats.
Reset(info, t) ==
    [info EXCEPT !.Flying = FALSE, !.OnGround = TRUE, !.ValidFinish = FALSE,
                 !.TakeOffTime = 0, !.since = t]

\* A fix that speaks for the ground: a paraglider may be as slow in the air.
Slow(kind) == kind = "low" \/ (kind = "high" /\ aircraft = "paraglider")

\* time_in_flight and time_on_ground after a fix.
AirCount(kind) ==
    Clamp(CASE kind = "fast" -> timeInFlight + 1
            [] Slow(kind) -> timeInFlight - 1
            [] OTHER -> timeInFlight,
          CapAir[aircraft])

GroundCount(kind) ==
    Clamp(CASE kind = "fast" -> 0
            [] kind \in {"low", "high"} -> timeOnGround + 1
            [] OTHER -> timeOnGround,
          CapGround)

\* Mutant of TakeOff: the statistics go on from the flight before.
TakeOff_KeepsStats(info, t) ==
    [info EXCEPT !.Flying = TRUE, !.OnGround = TRUE, !.ValidFinish = FALSE, !.TakeOffTime = t]

\* Take-off: Flying is set after the reset, which has set OnGround.
TakeOff(info, t) == [Reset(info, t) EXCEPT !.Flying = TRUE, !.TakeOffTime = t]

\* Landing: the pilot reviews the flight as it was at the finish line.
Land(info) ==
    IF info.ValidFinish
    THEN [finish EXCEPT !.TakeOffTime = info.TakeOffTime, !.Flying = FALSE]
    ELSE [info EXCEPT !.Flying = FALSE]

-----------------------------------------------------------------------------
\* InitCalculations has reset the statistics; nothing has been received.
Init ==
    /\ aircraft \in Aircraft
    /\ newData = FALSE /\ signalling = FALSE /\ run = TRUE
    /\ main = "run" /\ pc = "check"
    /\ \E auto \in BOOLEAN :
           /\ derived = [Reset(Zero, 0) EXCEPT !.AutoMacCready = auto]
           /\ wish = auto
    /\ local = Zero /\ finish = Zero /\ slow = FALSE
    /\ timeInFlight = 0 /\ timeOnGround = Settled
    /\ force = FALSE
    /\ fast = 0 /\ low = 0 /\ asked = FALSE /\ later = FALSE

-----------------------------------------------------------------------------
(* A receive thread. *)

\* A fix is written and signalled: new_data is set under the mutex, and the
\* condition variable notified after it.
NewFix ==
    /\ main \in {"run", "asking"} /\ ~signalling
    /\ newData' = TRUE /\ signalling' = TRUE
    /\ UNCHANGED <<aircraft, run, main, pc, derived, local, slow, finish, counts,
                   force, wish, history>>

\* A sleeping thread is woken, any other does not notice.
Woken == IF pc = "asleep" THEN "check" ELSE pc

Notify ==
    /\ signalling
    /\ signalling' = FALSE /\ pc' = Woken
    /\ UNCHANGED <<aircraft, newData, run, main, derived, local, slow, finish,
                   counts, force, wish, history>>

-----------------------------------------------------------------------------
(* The calculation thread. *)

\* Mutant of Sleep: the thread waits without looking at new_data and run.
Sleep_Blind ==
    /\ pc = "check"
    /\ pc' = "asleep"
    /\ UNCHANGED <<aircraft, sync, main, derived, local, slow, finish, counts,
                   force, wish, history>>

\* It finds nothing to do and waits.
Sleep ==
    /\ pc = "check" /\ ~newData /\ run
    /\ pc' = "asleep"
    /\ UNCHANGED <<aircraft, sync, main, derived, local, slow, finish, counts,
                   force, wish, history>>

\* A wake-up without a notify.
Spurious ==
    /\ pc = "asleep"
    /\ pc' = "check"
    /\ UNCHANGED <<aircraft, sync, main, derived, local, slow, finish, counts,
                   force, wish, history>>

\* Wait returns run.
Proceed ==
    /\ pc = "check" /\ (newData \/ ~run)
    /\ newData' = FALSE
    /\ pc' = IF run THEN "calc" ELSE "ended"
    /\ UNCHANGED <<aircraft, signalling, run, main, derived, local, slow, finish,
                   counts, force, wish, history>>

\* Mutant of MayReset: a jump of the clock resets a flight too.
MayReset_InFlight(info, kind, jump) == jump /\ kind # "warn"

\* "We must be very careful NOT to reset fligthstats in a real flight!"
MayReset(info, kind, jump) == ~info.Flying /\ jump /\ kind # "warn"

\* FlightTimes with a time that has not advanced, or has jumped back more than
\* 30 seconds: nothing else is calculated.
Behind(t, kind, jump) ==
    LET reset == MayReset(derived, kind, jump) IN
    /\ pc = "calc" /\ t # 0
    /\ local' = IF reset THEN Reset(derived, t) ELSE derived
    /\ timeInFlight' = IF reset THEN 0 ELSE timeInFlight
    /\ timeOnGround' = IF reset THEN 0 ELSE timeOnGround
    /\ fast' = IF reset THEN 0 ELSE fast
    /\ slow' = FALSE /\ pc' = "publish"
    /\ UNCHANGED <<aircraft, sync, main, derived, finish, force, wish, low, asked, later>>

\* Mutant of OnGroundAfter: OnGround is not cleared in flight.
OnGroundAfter_Sticks(info, ground) == info.OnGround

\* OnGround is cleared by fast fixes, flying or not.
OnGroundAfter(info, ground) == info.OnGround /\ ground > Steps

\* A forced landing empties the count of fast fixes.
AirLeft(n) == IF derived.Flying /\ force THEN 0 ELSE n

\* FlightTimes and TakeoffLanding with a later time, then the detection of
\* the start or of the finish of the task (event).
Advance(t, kind, event) ==
    LET ground  == GroundCount(kind)
        air     == AirLeft(AirCount(kind))
        before  == [derived EXCEPT !.OnGround = OnGroundAfter(derived, ground)]
        takeoff == ~derived.Flying /\ air > Steps
        landing == derived.Flying /\ air = 0 /\ aircraft # "car"
        flown   == IF takeoff THEN TakeOff(before, t)
                   ELSE IF landing THEN Land(before) ELSE before
        settled == IF derived.Flying THEN flown
                   ELSE [flown EXCEPT !.OnGround = @ \/ ground > Steps]
        crossed == event = "finish" /\ ~settled.ValidFinish
        result  == CASE crossed -> [settled EXCEPT !.ValidFinish = TRUE]
                     [] event = "start" -> [settled EXCEPT !.ValidFinish = FALSE]
                     [] OTHER -> settled
    IN
    /\ pc = "calc"
    /\ local' = result
    /\ finish' = IF crossed THEN result ELSE IF takeoff THEN flown ELSE finish
    /\ timeInFlight' = air /\ timeOnGround' = ground /\ force' = FALSE
    /\ slow' = TRUE /\ pc' = "publish"
    /\ fast' = IF landing THEN 0
               ELSE IF kind = "fast" THEN AtMost(fast + 1, Steps + 1) ELSE fast
    /\ low' = IF takeoff THEN 0
              ELSE IF Slow(kind) THEN AtMost(low + 1, Steps + 1) ELSE low
    /\ asked' = (~takeoff /\ (asked \/ (derived.Flying /\ force)))
    /\ later' = ~takeoff
    /\ UNCHANGED <<aircraft, sync, main, derived, wish>>

Calculate ==
    \E t \in Times, kind \in Kinds :
        \/ \E jump \in BOOLEAN : Behind(t, kind, jump)
        \/ \E event \in {"none", "start", "finish"} : Advance(t, kind, event)

\* UpdateCalculatedFlightData, before and after the slow calculations.  The copy
\* is not read again before it is next taken: it is forgotten here.
Publish ==
    /\ pc = "publish"
    /\ derived' = local
    /\ pc' = IF slow THEN "slow" ELSE "check"
    /\ local' = IF slow THEN local ELSE Zero
    /\ slow' = FALSE
    /\ UNCHANGED <<aircraft, sync, main, finish, counts, force, wish, history>>

PublishSlow ==
    /\ pc = "slow"
    /\ derived' = local /\ local' = Zero /\ pc' = "check"
    /\ UNCHANGED <<aircraft, sync, main, slow, finish, counts, force, wish, history>>

-----------------------------------------------------------------------------
(* The main thread, on CALCULATED_INFO itself and without the lock. *)

ResetTask ==
    /\ main = "run"
    /\ derived' = [derived EXCEPT !.ValidFinish = FALSE]
    /\ UNCHANGED <<aircraft, sync, main, pc, local, slow, finish, counts, force, wish,
                   history>>

\* A change of MacCready by hand turns AutoMacCready off; a key turns it on.
MacCready(auto) ==
    /\ main = "run"
    /\ derived' = [derived EXCEPT !.AutoMacCready = auto] /\ wish' = auto
    /\ UNCHANGED <<aircraft, sync, main, pc, local, slow, finish, counts, force,
                   history>>

\* The logger is stopped by hand, or a key is pressed, while flying: the pilot
\* is asked, and answers when the flight may be over.
AskLanding ==
    /\ main = "run" /\ derived.Flying
    /\ main' = "asking"
    /\ UNCHANGED <<aircraft, sync, pc, derived, local, slow, finish, counts,
                   force, wish, history>>

ForceLanding(answer) ==
    /\ main = "asking"
    /\ force' = (force \/ answer) /\ main' = "run"
    /\ UNCHANGED <<aircraft, sync, pc, derived, local, slow, finish, counts,
                   wish, history>>

\* StopThreadCalculation: the receive threads have been joined before.
RequestStop ==
    /\ main = "run" /\ ~signalling
    /\ run' = FALSE /\ main' = "notify"
    /\ UNCHANGED <<aircraft, newData, signalling, pc, derived, local, slow, finish,
                   counts, force, wish, history>>

NotifyStop ==
    /\ main = "notify"
    /\ main' = "join" /\ pc' = Woken
    /\ UNCHANGED <<aircraft, sync, derived, local, slow, finish, counts, force, wish,
                   history>>

Join ==
    /\ main = "join" /\ pc = "ended"
    /\ main' = "stopped"
    /\ UNCHANGED <<aircraft, sync, pc, derived, local, slow, finish, counts, force,
                   wish, history>>

Stopped == main = "stopped" /\ UNCHANGED vars

-----------------------------------------------------------------------------
Calculation == Sleep \/ Proceed \/ Calculate \/ Publish \/ PublishSlow

Main ==
    \/ ResetTask
    \/ \E auto \in BOOLEAN : MacCready(auto)
    \/ AskLanding
    \/ \E answer \in BOOLEAN : ForceLanding(answer)
    \/ RequestStop \/ NotifyStop \/ Join \/ Stopped

Next ==
    \/ NewFix \/ Notify \/ Spurious \/ Calculation \/ Main

Spec == Init /\ [][Next]_vars

-----------------------------------------------------------------------------
(* Properties. *)

\* The thread's own view: its copy until that has been published.
Current == IF pc \in {"publish", "slow"} THEN local ELSE derived

\* ResetFlightStats "SHOULD NEVER HAPPEN DURING REAL FLIGHT": whatever the
\* clock does, a flight begins after more than Steps fast fixes since the last
\* one, and ends only by request or after more than Steps fixes for the ground.
PhaseNeedsFixes ==
    [][/\ ~derived.Flying /\ derived'.Flying => fast > Steps
       /\ derived.Flying /\ ~derived'.Flying => asked \/ low > Steps]_vars

\* What the pilot reviews after landing, with or without a finish, are the
\* statistics of the flight whose take-off time is shown: they begin there.
ReviewedFlight ==
    [][derived.Flying /\ ~derived'.Flying =>
           /\ derived'.TakeOffTime = derived.TakeOffTime
           /\ derived'.since = derived.TakeOffTime]_vars

\* The program is told both flying and on the ground only between the
\* calculation that detects the take-off and the next fix that counts.
OnGroundOnlyAtTakeOff == Current.Flying /\ Current.OnGround => ~later

\* No wake-up is lost: the thread does not sleep on a fix, or on the request to
\* stop, unless the notification is still to come; so a fix is calculated and
\* StopThreadCalculation returns.
NoLostSignal ==
    pc = "asleep" => /\ newData => signalling
                     /\ ~run => main = "notify"

\* "disable AutoMacCready when changing MC values" (InputEvents.cpp): between two
\* calculations it is off if that is what the pilot did last.
PilotDecides == pc \in {"check", "asleep"} /\ ~wish => ~derived.AutoMacCready

-----------------------------------------------------------------------------
(* The inductive invariant of the proofs. *)

\* The counts tell how the phase of the flight came about and when it may end.
CountsTell ==
    /\ Current.Flying => asked \/ timeInFlight + low > Steps
    /\ ~Current.Flying => timeInFlight <= fast /\ timeInFlight <= Steps
    /\ Current.Flying /\ ~later => timeOnGround = 0

\* In flight the statistics, and those kept for the finish, begin at take-off.
StatsOfFlight ==
    Current.Flying => /\ Current.since = Current.TakeOffTime
                      /\ finish.since = Current.TakeOffTime

\* A change of the phase that is yet to be published has had its fixes.
PhaseToCome ==
    pc = "publish" =>
        /\ ~derived.Flying /\ local.Flying => fast > Steps
        /\ derived.Flying /\ ~local.Flying =>
               /\ asked \/ low > Steps
               /\ local.TakeOffTime = derived.TakeOffTime
               /\ local.since = derived.TakeOffTime

\* What is written a second time differs only in what the pilot has changed.
SecondCopy ==
    pc = "slow" => /\ local.Flying = derived.Flying
                   /\ local.TakeOffTime = derived.TakeOffTime
                   /\ local.since = derived.since

IInv ==
    /\ TypeOK /\ NoLostSignal /\ OnGroundOnlyAtTakeOff
    /\ CountsTell /\ StatsOfFlight /\ PhaseToCome /\ SecondCopy
=====
