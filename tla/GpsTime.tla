-------------------------------- MODULE GpsTime --------------------------------
(***************************************************************************)
(* The clock of the program: GPS_INFO.Time, in seconds since midnight UTC  *)
(* of the day on which counting began, and growing past 86400 when a       *)
(* flight goes on after midnight or into another month.                    *)
(*                                                                         *)
(* Receivers send the time of day and the day of the month only.  The days *)
(* that have passed are reckoned from the day of the month on which        *)
(* counting began (StartDay) in ApplyDayRollover, whose two counts are     *)
(* static variables: one pair for every device.  NMEA parsers share one    *)
(* StartDay and refuse a time that goes back (TimeHasAdvanced); the        *)
(* drivers of XC Tracer and of Flytec have one each (there is one device   *)
(* of each at most) and refuse nothing; the heartbeat of GDL90 devices is  *)
(* taken as it comes.                                                      *)
(*                                                                         *)
(* Sentences are handled under CritSec_Comm, one at a time.  The parser,   *)
(* XC Tracer and GDL90 set the time only if their device is the active     *)
(* GPS.  The driver of Flytec does not ask: its sentences set the time and *)
(* change the two counts whichever device is active.                       *)
(*                                                                         *)
(* An instant is a day and a part of it: a pair, ordered like the number   *)
(* of seconds it stands for.                                               *)
(***************************************************************************)
EXTENDS Integers

CONSTANTS
    Dev,       \* devices
    Kind,      \* how the device's driver sets the time
    Calendar,  \* the day of the month of every day of the model, from day 0
    LastDay,   \* bound: the last day of the model
    Parts,     \* into how many parts a day is divided
    Shortest,  \* no month has fewer days than this: 28
    None       \* no device

Days  == 0 .. LastDay
Nmea  == {p \in Dev : Kind[p] = "nmea"}

ASSUME GpsTimeAssumption ==
    /\ LastDay \in Nat \ {0} /\ Parts \in Nat \ {0}
    /\ Shortest \in Nat \ {0} /\ None \notin Dev
    /\ Kind \in [Dev -> {"nmea", "tracer", "flytec", "gdl90"}]
    /\ Calendar \in [Days -> Nat \ {0}]
    /\ \A n \in Days \ {0} : Calendar[n] \in {1, Calendar[n - 1] + 1}
    /\ \A m, n \in Days : m < n /\ Calendar[m] = 1 /\ Calendar[n] = 1 => n - m >= Shortest

VARIABLES
    now,        \* the time of the satellites
    lag,        \* receivers that are one part of a day late
    active,     \* the device with NMEAParser::activeGPS
    startDay,   \* NMEAParser::StartDay
    ownDay,     \* StartDay of the driver of each device
    dayDiff,    \* day_difference
    prevDays,   \* previous_months_day_difference
    last,       \* NMEAParser::LastTime
    time,       \* GPS_INFO.Time
    \* What follows is remembered for the properties.
    base,       \* the day on which counting began
    seen,       \* the day of the last sentence
    counter,    \* the StartDay that began to count: a device, or None if shared
    regular,    \* counting went on as it does in a flight: see Regular
    disturbed,  \* the active device, if it is an NMEA one, has accepted no sentence
                \* since it became active, since its parser was reset or refused
                \* one, or since a Flytec set the clock
    refused,    \* sentences refused since active began or one was accepted
    refusedOn   \* the day of the last of them

receivers == <<now, lag, active>>
count     == <<startDay, ownDay, dayDiff, prevDays>>
history   == <<base, seen, counter, regular>>
refusals  == <<refused, refusedOn>>
vars      == <<receivers, count, last, time, history, disturbed, refusals>>

Unknown == -1
Instant == [day : Int, part : 0 .. Parts - 1]
Zero    == [day |-> 0, part |-> 0]

Before(a, b) == a.day < b.day \/ (a.day = b.day /\ a.part < b.part)

TypeOK ==
    /\ now \in Instant /\ now.day \in 1 .. LastDay
    /\ lag \in SUBSET Dev /\ active \in Dev
    /\ startDay \in Nat \cup {Unknown}
    /\ ownDay \in [Dev -> Nat \cup {Unknown}]
    /\ dayDiff \in Nat /\ prevDays \in Nat
    /\ last \in [Dev -> Instant] /\ time \in Instant
    /\ base \in Days /\ seen \in Days
    /\ counter \in Dev \cup {None} /\ regular \in BOOLEAN
    /\ disturbed \in BOOLEAN
    /\ refused \in Nat /\ refusedOn \in Days

Init ==
    /\ now = [day |-> 1, part |-> 0]
    /\ lag \in SUBSET Dev /\ active \in Dev
    /\ startDay = Unknown /\ ownDay = [p \in Dev |-> Unknown]
    /\ dayDiff = 0 /\ prevDays = 0
    /\ last = [p \in Dev |-> Zero] /\ time = Zero
    /\ base = 0 /\ seen = 0 /\ counter = None /\ regular = FALSE
    /\ disturbed = FALSE /\ refused = 0 /\ refusedOn = 0

-----------------------------------------------------------------------------
(* Time passes, and the port monitor chooses among the devices.            *)

Pass ==
    /\ \/ now.part < Parts - 1 /\ now' = [now EXCEPT !.part = @ + 1]
       \/ now.part = Parts - 1 /\ now.day < LastDay
          /\ now' = [day |-> now.day + 1, part |-> 0]
    /\ UNCHANGED <<lag, active, count, last, time, history, disturbed, refusals>>

\* UpdateMonitor makes another device the active GPS.
Switch(p) ==
    /\ p # active /\ active' = p
    /\ disturbed' = TRUE /\ refused' = 0 /\ refusedOn' = 0
    /\ UNCHANGED <<now, lag, count, last, time, history>>

\* NMEAParser::Reset: the device was silent, or the ports were restarted.
\* StartDay stays.
Reset(p) ==
    /\ last' = [last EXCEPT ![p] = Zero]
    /\ disturbed' = (disturbed \/ p = active)
    /\ UNCHANGED <<receivers, count, time, history, refusals>>

-----------------------------------------------------------------------------
(* Sentences. *)

Earlier(i) == IF i.part > 0 THEN [i EXCEPT !.part = @ - 1]
              ELSE [day |-> i.day - 1, part |-> Parts - 1]

\* What the receiver of p takes for now.
Reported(p) == IF p \in lag THEN Earlier(now) ELSE now

\* Mutant of Rollover: at the end of a month the day that ends is not counted.
Rollover_LosesADay(day, start) ==
    IF start = Unknown
    THEN [start |-> day, diff |-> 0, prev |-> 0]
    ELSE IF day < start
    THEN [start |-> day, diff |-> 0, prev |-> dayDiff]
    ELSE [start |-> start, diff |-> day - start, prev |-> prevDays]

\* Mutant of Rollover: the end of a month is not noticed.
Rollover_NoMonth(day, start) ==
    IF start = Unknown
    THEN [start |-> day, diff |-> 0, prev |-> 0]
    ELSE [start |-> start, diff |-> day - start, prev |-> prevDays]

\* ApplyDayRollover for a day of the month, with the StartDay it is passed.  The
\* date of a sentence is always valid here.
Rollover(day, start) ==
    IF start = Unknown
    THEN [start |-> day, diff |-> 0, prev |-> 0]
    ELSE IF day < start
    THEN [start |-> day, diff |-> 0, prev |-> dayDiff + 1]
    ELSE [start |-> start, diff |-> day - start, prev |-> prevDays]

\* The time that ApplyDayRollover makes of instant i.
Absolute(i, r) == [day |-> r.diff + r.prev, part |-> i.part]

\* A flight: one StartDay counts, day by day, for less than a month; a device
\* that is late is not heard around the end of a month.
Regular(who, day, start) ==
    \/ start = Unknown
    \/ /\ regular /\ counter = who
       /\ base <= day /\ day < base + Shortest
       /\ day \in seen - 1 .. seen + 1
       /\ day = seen - 1 => Calendar[seen] # 1

\* ApplyDayRollover was called with the StartDay of who, for a sentence of that day.
Counted(who, day, start, r) ==
    /\ dayDiff' = r.diff /\ prevDays' = r.prev
    /\ regular' = Regular(who, day, start)
    /\ IF regular'
       THEN /\ base' = IF start = Unknown THEN day ELSE base
            /\ counter' = who /\ seen' = day
       ELSE base' = 0 /\ counter' = None /\ seen' = 0

Accepted == disturbed' = FALSE /\ refused' = 0 /\ refusedOn' = 0

Refused(p) == disturbed' = TRUE /\ refused' = refused + 1 /\ refusedOn' = Reported(p).day

\* Mutant of Advanced: the time of the sentence is not compared.
Advanced_Always(p, t) ==
    /\ last' = [last EXCEPT ![p] = t] /\ time' = t
    /\ startDay' = Rollover(Calendar[Reported(p).day], startDay).start
    /\ Accepted

\* Mutant of Advanced: LastTime is kept when a sentence is refused.
Advanced_KeepsLast(p, t) ==
    \/ /\ ~Before(t, last[p])
       /\ last' = [last EXCEPT ![p] = t] /\ time' = t
       /\ startDay' = Rollover(Calendar[Reported(p).day], startDay).start
       /\ Accepted
    \/ /\ Before(t, last[p])
       /\ startDay' = Unknown
       /\ Refused(p)
       /\ UNCHANGED <<last, time>>

\* TimeHasAdvanced.  A time that goes back is refused and begins the count anew.
Advanced(p, t) ==
    /\ last' = [last EXCEPT ![p] = t]
    /\ \/ /\ ~Before(t, last[p])
          /\ time' = t
          /\ startDay' = Rollover(Calendar[Reported(p).day], startDay).start
          /\ Accepted
       \/ /\ Before(t, last[p])
          /\ startDay' = Unknown
          /\ Refused(p)
          /\ UNCHANGED time

\* RMC of the active GPS.
RMC(p) ==
    /\ p = active /\ p \in Nmea
    /\ LET i == Reported(p)
           r == Rollover(Calendar[i.day], startDay)
       IN  /\ Counted(None, i.day, startDay, r)
           /\ Advanced(p, Absolute(i, r))
    /\ UNCHANGED <<receivers, ownDay>>

\* TimeModify with a StartDay of the driver's own, and no comparison.
OwnClock(p) ==
    /\ LET i == Reported(p)
           r == Rollover(Calendar[i.day], ownDay[p])
       IN  /\ Counted(p, i.day, ownDay[p], r)
           /\ ownDay' = [ownDay EXCEPT ![p] = r.start]
           /\ time' = Absolute(i, r)
    /\ UNCHANGED <<receivers, startDay, last, refusals>>

\* XTRC, of the active GPS.
Tracer(p) ==
    /\ p = active /\ Kind[p] = "tracer"
    /\ OwnClock(p)
    /\ UNCHANGED disturbed

\* FLYSEN of a firmware that sends its date, with satellites in use; of any
\* device, active or not.
Flysen(p) ==
    /\ Kind[p] = "flytec"
    /\ OwnClock(p)
    /\ disturbed' = TRUE

\* The heartbeat of a GDL90 device that is the active GPS: the seconds since
\* midnight.
Heartbeat(p) ==
    /\ p = active /\ Kind[p] = "gdl90"
    /\ time' = [day |-> 0, part |-> Reported(p).part]
    /\ regular' = FALSE /\ base' = 0 /\ counter' = None /\ seen' = 0
    /\ UNCHANGED <<receivers, count, last, disturbed, refusals>>

-----------------------------------------------------------------------------
Next ==
    \/ Pass
    \/ \E p \in Dev :
          Switch(p) \/ Reset(p) \/ RMC(p) \/ Tracer(p) \/ Flysen(p) \/ Heartbeat(p)

Spec == Init /\ [][Next]_vars

-----------------------------------------------------------------------------
(* What is promised. *)

CountStart == IF counter = None THEN startDay ELSE ownDay[counter]

\* In a flight of less than a month, in which one StartDay counts, the days are
\* counted right, whatever the calendar and whichever of the devices that share it
\* are active in turn: across midnight, across the end of a month, back and forth
\* if one is late.  (A Flytec next to another device that counts ends such a flight.)
DayCountRight ==
    regular /\ CountStart # Unknown => dayDiff + prevDays = seen - base

\* In such a flight the clock of the program never goes back, whichever devices
\* are active in turn, if their receivers agree on the time.
NeverBackInFlight ==
    [][regular /\ CountStart # Unknown /\ regular' /\ counter' = counter
           /\ (lag = {} \/ lag = Dev) => ~Before(time', time)]_vars

\* While an NMEA device is the active GPS, the clock goes back only
\*  - at a FLYSEN sentence of a Flytec, active or not, or
\*  - at the first sentence that the active device has accepted since it became
\*    active, since its parser was reset or refused one (MASTER TIME RESET), or since
\*    a Flytec set the clock;
\* however its own dates go wrong and XC Tracer, other NMEA devices and GDL90 disturb
\* the count.
NoSilentReset ==
    [][Before(time', time) /\ active \in Nmea
           => disturbed \/ \E p \in Dev : Flysen(p)]_vars

\* The active GPS is never refused for ever: each refusal drops what the next
\* sentence is compared with.  From the second in a row on, a sentence is refused
\* only if midnight has passed since the one before.
NeverStuck ==
    [][refused >= 2 /\ refused' > refused => Reported(active).day > refusedOn]_vars

-----------------------------------------------------------------------------
(* The inductive invariants behind them.                                   *)

\* What the two counts mean: dayDiff days since StartDay, and before that, if a
\* month has ended, prevDays days since counting began.
CountInv ==
    regular /\ CountStart # Unknown =>
        /\ base <= seen /\ seen < base + Shortest
        /\ Calendar[seen] = CountStart + dayDiff
        /\ dayDiff + prevDays = seen - base
        /\ prevDays = 0 => CountStart = Calendar[base]
        /\ prevDays > 0 => CountStart = 1 /\ Calendar[seen - dayDiff] = 1

\* What receivers that agree on the time report.
Agreed == IF lag = {} THEN now ELSE Earlier(now)

\* The clock tells the day of the last sentence, and is not ahead of the receivers.
ClockInv ==
    regular /\ CountStart # Unknown =>
        /\ time.day = seen - base
        /\ lag = {} \/ lag = Dev => ~Before(Agreed, [time EXCEPT !.day = seen])

\* If undisturbed, the clock shows what the active NMEA device remembers.
OwnTimeInv == ~disturbed /\ active \in Nmea => last[active] = time

\* After a refusal counting begins anew; after two LastTime is of the first day.
RefusedInv ==
    /\ refused >= 1 => active \in Nmea /\ startDay = Unknown
    /\ refused >= 2 =>
          /\ last[active].day = 0
          /\ ~Before(Reported(active), [day |-> refusedOn, part |-> last[active].part])

IInv == CountInv /\ ClockInv /\ OwnTimeInv /\ RefusedInv

================================================================================
