---------------------------- MODULE GpsTimeProofs ----------------------------
(***************************************************************************)
(* Proofs of the theorems about GpsTime, for every calendar and every set  *)
(* of devices.                                                             *)
(***************************************************************************)
EXTENDS GpsTime, TLAPS

\* What a receiver reports is a day of the calendar.
LEMMA ReportedInstant ==
    ASSUME TypeOK, NEW p \in Dev
    PROVE  Reported(p) \in Instant /\ Reported(p).day \in Days
<1>1. now \in Instant /\ now.day \in 1 .. LastDay
  BY DEF TypeOK
<1>2. Earlier(now) \in Instant /\ Earlier(now).day \in Days
  <2>1. CASE now.part > 0
    <3>1. Earlier(now) = [day |-> now.day, part |-> now.part - 1]
      BY <1>1, <2>1 DEF Earlier, Instant
    <3>2. QED
      BY <3>1, <2>1, <1>1, GpsTimeAssumption DEF Instant, Days
  <2>2. CASE ~(now.part > 0)
    BY <2>2, <1>1, GpsTimeAssumption DEF Earlier, Instant, Days
  <2>3. QED
    BY <2>1, <2>2
<1>3. QED
  BY <1>1, <1>2, GpsTimeAssumption DEF Reported, Days

\* ApplyDayRollover returns counts.
LEMMA RolloverType ==
    ASSUME TypeOK, NEW day \in Nat \ {0}, NEW start \in Nat \cup {Unknown}
    PROVE  /\ Rollover(day, start).start \in Nat
           /\ Rollover(day, start).diff \in Nat
           /\ Rollover(day, start).prev \in Nat
BY DEF TypeOK, Rollover, Unknown

\* From the first of a month to the first of another there are Shortest days.
LEMMA MonthEnds ==
    ASSUME NEW m \in Days, NEW n \in Days, Calendar[m] = 1, Calendar[n] = 1, m < n
    PROVE  n - m >= Shortest
BY GpsTimeAssumption

\* The day of the month grows by one, or a month begins.
LEMMA NextDay ==
    ASSUME NEW n \in Days, n > 0
    PROVE  /\ Calendar[n] \in Nat \ {0} /\ Calendar[n - 1] \in Nat \ {0}
           /\ Calendar[n] = 1 \/ Calendar[n] = Calendar[n - 1] + 1
BY GpsTimeAssumption DEF Days

\* ApplyDayRollover in a flight: the counts go on meaning what CountInv says.
LEMMA CountOn ==
    ASSUME TypeOK, CountInv, CountStart # Unknown,
           NEW day \in Days, Regular(counter, day, CountStart)
    PROVE  LET r == Rollover(Calendar[day], CountStart)
           IN  /\ base <= day /\ day < base + Shortest
               /\ Calendar[day] = r.start + r.diff
               /\ r.diff + r.prev = day - base
               /\ r.prev = 0 => r.start = Calendar[base]
               /\ r.prev > 0 => r.start = 1 /\ Calendar[day - r.diff] = 1
<1> DEFINE start == CountStart
           r == Rollover(Calendar[day], start)
<1>1. /\ regular /\ base <= day /\ day < base + Shortest
      /\ day \in {seen - 1, seen, seen + 1}
      /\ day = seen - 1 => Calendar[seen] # 1
  BY DEF Regular, TypeOK, Days
<1>2. /\ start \in Nat /\ dayDiff \in Nat /\ prevDays \in Nat
      /\ base \in Days /\ seen \in Days /\ Calendar[base] \in Nat \ {0}
      /\ Calendar[day] \in Nat \ {0} /\ Calendar[seen] \in Nat \ {0}
  BY GpsTimeAssumption DEF TypeOK, CountStart
<1>3. /\ base <= seen /\ Calendar[seen] = start + dayDiff
      /\ dayDiff + prevDays = seen - base
      /\ prevDays = 0 => start = Calendar[base]
      /\ prevDays > 0 => start = 1 /\ Calendar[seen - dayDiff] = 1
  BY <1>1 DEF CountInv
<1> HIDE DEF start
<1>4. CASE Calendar[day] >= start /\ Calendar[day] = Calendar[seen] + (day - seen)
  <2>1. r = [start |-> start, diff |-> dayDiff + (day - seen), prev |-> prevDays]
    <3>1. Calendar[day] - start = dayDiff + (day - seen)
      BY <1>2, <1>3, <1>4 DEF Days
    <3>2. start # Unknown /\ ~(Calendar[day] < start)
      BY <1>2, <1>4 DEF Unknown
    <3>3. QED
      BY <3>1, <3>2 DEF Rollover
  <2>2. day - (dayDiff + (day - seen)) = seen - dayDiff
    BY <1>2 DEF Days
  <2>3. QED
    BY <2>1, <2>2, <1>1, <1>2, <1>3, <1>4 DEF start, Days
<1>5. CASE day = seen + 1 /\ Calendar[day] = 1
  <2>1. prevDays = 0
    <3>1. ASSUME prevDays > 0 PROVE FALSE
      <4>1. seen - dayDiff \in Days /\ Calendar[seen - dayDiff] = 1 /\ seen - dayDiff < day
        <5>1. seen - dayDiff = base + prevDays
          BY <1>2, <1>3 DEF Days
        <5>2. seen - dayDiff <= seen /\ seen - dayDiff >= 0
          BY <5>1, <1>2 DEF Days
        <5>3. seen - dayDiff \in Int /\ LastDay \in Nat
          BY <1>2, GpsTimeAssumption DEF Days
        <5>4. Calendar[seen - dayDiff] = 1
          BY <3>1, <1>3
        <5>5. QED
          BY <5>2, <5>3, <5>4, <1>2, <1>5 DEF Days
      <4>2. day - (seen - dayDiff) >= Shortest
        BY <4>1, <1>5, MonthEnds
      <4>3. QED
        BY <4>2, <3>1, <1>1, <1>2, <1>3, <1>5, GpsTimeAssumption DEF Days
    <3>2. QED
      BY <3>1, <1>2
  <2>2. start # 1
    <3>1. ASSUME start = 1 PROVE FALSE
      <4>1. day - base >= Shortest
        BY <3>1, <2>1, <1>2, <1>3, <1>5, MonthEnds DEF Days
      <4>2. QED
        BY <4>1, <1>1, <1>2, GpsTimeAssumption DEF Days
    <3>2. QED
      BY <3>1
  <2>3. start > 1
    BY <2>1, <2>2, <1>2, <1>3
  <2>4. r = [start |-> 1, diff |-> 0, prev |-> dayDiff + 1]
    BY <2>3, <1>2, <1>5 DEF Rollover, Unknown
  <2>5. QED
    BY <2>4, <2>1, <1>1, <1>2, <1>3, <1>5 DEF start, Days
<1>6. ASSUME ~(day = seen + 1 /\ Calendar[day] = 1) PROVE Calendar[day] >= start
  <2>1. CASE day = seen
    BY <2>1, <1>2, <1>3
  <2>2. CASE day = seen + 1 /\ Calendar[day] # 1
    BY <2>2, <1>2, <1>3, NextDay DEF Days
  <2>3. CASE day = seen - 1
    <3>1. Calendar[seen] = Calendar[day] + 1
      BY <2>3, <1>1, <1>2, NextDay DEF Days
    <3>2. CASE dayDiff > 0
      BY <3>1, <3>2, <1>2, <1>3
    <3>3. CASE dayDiff = 0 /\ prevDays > 0
      BY <3>3, <3>1, <1>1, <1>2, <1>3 DEF Days
    <3>4. CASE dayDiff = 0 /\ prevDays = 0
      BY <3>4, <2>3, <1>1, <1>2, <1>3 DEF Days
    <3>5. QED
      BY <3>2, <3>3, <3>4, <1>2
  <2>4. QED
    BY <2>1, <2>2, <2>3, <1>1, <1>6
<1>7. QED
  BY <1>1, <1>2, <1>4, <1>5, <1>6, NextDay DEF Days

\* The first day of a count.
LEMMA CountAnew ==
    ASSUME NEW day \in Days
    PROVE  LET r == Rollover(Calendar[day], Unknown)
           IN  r.start = Calendar[day] /\ r.diff = 0 /\ r.prev = 0
BY DEF Rollover

\* A sentence that is counted, with the StartDay of who, keeps the meaning of
\* the counts.
LEMMA Sentence ==
    ASSUME TypeOK, CountInv, NEW who \in Dev \cup {None}, NEW day \in Days,
           NEW start \in Nat \cup {Unknown},
           start = (IF who = None THEN startDay ELSE ownDay[who]),
           Counted(who, day, start, Rollover(Calendar[day], start)),
           regular' => CountStart' = Rollover(Calendar[day], start).start
    PROVE  /\ CountInv'
           /\ regular' => dayDiff' + prevDays' = seen' - base' /\ seen' = day
<1> DEFINE r == Rollover(Calendar[day], start)
<1> SUFFICES ASSUME regular'
             PROVE  /\ base' <= seen' /\ seen' < base' + Shortest
                    /\ Calendar[seen'] = CountStart' + dayDiff'
                    /\ dayDiff' + prevDays' = seen' - base' /\ seen' = day
                    /\ prevDays' = 0 => CountStart' = Calendar[base']
                    /\ prevDays' > 0 => CountStart' = 1 /\ Calendar[seen' - dayDiff'] = 1
  BY DEF CountInv
<1>1. /\ dayDiff' = r.diff /\ prevDays' = r.prev /\ seen' = day /\ counter' = who
      /\ CountStart' = r.start /\ Regular(who, day, start)
      /\ base' = IF start = Unknown THEN day ELSE base
  BY DEF Counted
<1>2. Calendar[day] \in Nat \ {0} /\ Shortest \in Nat \ {0} /\ day \in Nat
  BY GpsTimeAssumption DEF Days
<1>3. CASE start = Unknown
  <2>1. r.start = Calendar[day] /\ r.diff = 0 /\ r.prev = 0
    BY <1>3, CountAnew
  <2>2. QED
    BY <1>1, <1>2, <1>3, <2>1
<1>4. CASE start # Unknown
  <2>1. counter = who /\ CountStart = start
    BY <1>1, <1>4 DEF Regular, CountStart
  <2>2. /\ base <= day /\ day < base + Shortest
        /\ Calendar[day] = r.start + r.diff
        /\ r.diff + r.prev = day - base
        /\ r.prev = 0 => r.start = Calendar[base]
        /\ r.prev > 0 => r.start = 1 /\ Calendar[day - r.diff] = 1
    BY <1>1, <1>4, <2>1, CountOn
  <2>3. QED
    BY <1>1, <1>4, <2>2
<1>5. QED
  BY <1>3, <1>4

-----------------------------------------------------------------------------
LEMMA InitInductive == Init => TypeOK /\ IInv
<1> SUFFICES ASSUME Init PROVE TypeOK /\ IInv
  OBVIOUS
<1> USE GpsTimeAssumption
<1>1. TypeOK
  <2>1. now \in Instant /\ now.day \in 1 .. LastDay /\ Zero \in Instant /\ 0 \in Days
    BY DEF Init, Instant, Zero, Days
  <2>2. QED
    BY <2>1 DEF Init, TypeOK
<1>2. QED
  BY <1>1 DEF Init, IInv, CountInv, ClockInv, OwnTimeInv, RefusedInv, Nmea

LEMMA CountedType ==
    ASSUME TypeOK, NEW who \in Dev \cup {None}, NEW day \in Days,
           NEW start \in Nat \cup {Unknown},
           Counted(who, day, start, Rollover(Calendar[day], start))
    PROVE  /\ dayDiff' \in Nat /\ prevDays' \in Nat /\ base' \in Days /\ seen' \in Days
           /\ counter' \in Dev \cup {None} /\ regular' \in BOOLEAN
<1>1. Calendar[day] \in Nat \ {0} /\ 0 \in Days
  BY GpsTimeAssumption DEF Days
<1>2. dayDiff' \in Nat /\ prevDays' \in Nat
  BY <1>1, RolloverType DEF Counted
<1>3. regular' \in BOOLEAN
  BY DEF Counted, Regular, TypeOK
<1>4. CASE regular'
  BY <1>2, <1>3, <1>4 DEF Counted, TypeOK
<1>5. CASE ~regular'
  BY <1>1, <1>2, <1>3, <1>5 DEF Counted, TypeOK
<1>6. QED
  BY <1>3, <1>4, <1>5

LEMMA TypeStep == TypeOK /\ [Next]_vars => TypeOK'
<1> SUFFICES ASSUME TypeOK, [Next]_vars PROVE TypeOK'
  OBVIOUS
<1> USE GpsTimeAssumption
<1>1. CASE Pass
  <2>1. now' \in Instant /\ now'.day \in 1 .. LastDay
    <3>1. now \in Instant /\ now.day \in 1 .. LastDay
      BY DEF TypeOK
    <3>2. CASE now.part < Parts - 1 /\ now' = [now EXCEPT !.part = @ + 1]
      <4>1. now' = [day |-> now.day, part |-> now.part + 1]
        BY <3>1, <3>2 DEF Instant
      <4>2. now.part + 1 \in 0 .. Parts - 1
        BY <3>1, <3>2 DEF Instant
      <4>3. QED
        BY <3>1, <4>1, <4>2 DEF Instant
    <3>3. CASE now.day < LastDay /\ now' = [day |-> now.day + 1, part |-> 0]
      BY <3>1, <3>3 DEF Instant
    <3>4. QED
      BY <1>1, <3>2, <3>3 DEF Pass
  <2>2. QED
    BY <1>1, <2>1 DEF Pass, TypeOK, count, history, refusals
<1>2. ASSUME NEW p \in Dev, Switch(p) PROVE TypeOK'
  <2>1. 0 \in Days
    BY DEF Days
  <2>2. QED
    BY <1>2, <2>1 DEF Switch, TypeOK, count, history
<1>3. ASSUME NEW p \in Dev, Reset(p) PROVE TypeOK'
  BY <1>3 DEF Reset, TypeOK, receivers, count, history, refusals, Zero, Instant
<1>4. ASSUME NEW p \in Dev, RMC(p) PROVE TypeOK'
  <2> DEFINE i == Reported(p)
             r == Rollover(Calendar[i.day], startDay)
             t == Absolute(i, r)
  <2>1. i \in Instant /\ i.day \in Days
    BY ReportedInstant
  <2>2. startDay \in Nat \cup {Unknown} /\ Calendar[i.day] \in Nat \ {0}
    BY <2>1 DEF TypeOK
  <2>3. r.start \in Nat /\ r.diff \in Nat /\ r.prev \in Nat
    BY <2>2, RolloverType
  <2>4. t \in Instant
    BY <2>1, <2>3 DEF Absolute, Instant
  <2>5. Counted(None, i.day, startDay, r) /\ Advanced(p, t)
        /\ UNCHANGED <<receivers, ownDay>>
    BY <1>4 DEF RMC
  <2>6. /\ dayDiff' \in Nat /\ prevDays' \in Nat /\ base' \in Days /\ seen' \in Days
        /\ counter' \in Dev \cup {None} /\ regular' \in BOOLEAN
    BY <2>1, <2>2, <2>5, CountedType
  <2> HIDE DEF t
  <2>7. /\ last' \in [Dev -> Instant] /\ time' \in Instant
        /\ startDay' \in Nat \cup {Unknown} /\ disturbed' \in BOOLEAN
        /\ refused' \in Nat /\ refusedOn' \in Days
    <3>1. startDay' \in {r.start, Unknown} /\ last' = [last EXCEPT ![p] = t]
          /\ time' \in {t, time}
      BY <2>5 DEF Advanced
    <3>2. /\ disturbed' \in BOOLEAN /\ refused' \in {0, refused + 1}
          /\ refusedOn' \in {0, i.day}
      BY <2>5 DEF Advanced, Accepted, Refused
    <3>3. 0 \in Days
      BY DEF Days
    <3>4. QED
      BY <2>1, <2>3, <2>4, <3>1, <3>2, <3>3 DEF TypeOK
  <2>8. QED
    BY <2>5, <2>6, <2>7 DEF TypeOK, receivers
<1>5. ASSUME NEW p \in Dev, Tracer(p) \/ Flysen(p) PROVE TypeOK'
  <2> DEFINE i == Reported(p)
             r == Rollover(Calendar[i.day], ownDay[p])
  <2>1. i \in Instant /\ i.day \in Days
    BY ReportedInstant
  <2>2. ownDay[p] \in Nat \cup {Unknown} /\ Calendar[i.day] \in Nat \ {0}
    BY <2>1 DEF TypeOK
  <2>3. r.start \in Nat /\ r.diff \in Nat /\ r.prev \in Nat
    BY <2>2, RolloverType
  <2>4. Absolute(i, r) \in Instant
    BY <2>1, <2>3 DEF Absolute, Instant
  <2>5. OwnClock(p) /\ disturbed' \in BOOLEAN
    BY <1>5 DEF Tracer, Flysen, TypeOK
  <2>6. /\ dayDiff' \in Nat /\ prevDays' \in Nat /\ base' \in Days /\ seen' \in Days
        /\ counter' \in Dev \cup {None} /\ regular' \in BOOLEAN
    BY <2>1, <2>2, <2>5, CountedType DEF OwnClock
  <2>7. /\ ownDay' = [ownDay EXCEPT ![p] = r.start] /\ time' = Absolute(i, r)
        /\ UNCHANGED <<receivers, startDay, last, refusals>>
    BY <2>5 DEF OwnClock
  <2> HIDE DEF r, i
  <2>8. QED
    BY <2>3, <2>4, <2>5, <2>6, <2>7 DEF TypeOK, receivers, refusals
<1>6. ASSUME NEW p \in Dev, Heartbeat(p) PROVE TypeOK'
  <2>1. Reported(p) \in Instant
    BY ReportedInstant
  <2>2. [day |-> 0, part |-> Reported(p).part] \in Instant
    BY <2>1 DEF Instant
  <2>3. 0 \in Days
    BY DEF Days
  <2>4. QED
    BY <1>6, <2>2, <2>3 DEF Heartbeat, TypeOK, receivers, count, refusals
<1>7. CASE UNCHANGED vars
  BY <1>7 DEF vars, TypeOK, receivers, count, history, refusals
<1>8. QED
  BY <1>1, <1>2, <1>3, <1>4, <1>5, <1>6, <1>7 DEF Next

LEMMA CountStep == TypeOK /\ CountInv /\ [Next]_vars => CountInv'
<1> SUFFICES ASSUME TypeOK, CountInv, [Next]_vars PROVE CountInv'
  OBVIOUS
<1>1. ASSUME UNCHANGED <<count, history>> PROVE CountInv'
  BY <1>1 DEF count, history, CountInv, CountStart
<1>2. ASSUME NEW p \in Dev, RMC(p) PROVE CountInv'
  <2> DEFINE i == Reported(p)
             r == Rollover(Calendar[i.day], startDay)
  <2>1. i.day \in Days /\ startDay \in Nat \cup {Unknown}
    BY ReportedInstant DEF TypeOK
  <2>2. Counted(None, i.day, startDay, r) /\ startDay' \in {r.start, Unknown}
    BY <1>2 DEF RMC, Advanced
  <2>3. CASE startDay' = r.start
    <3>1. regular' => CountStart' = r.start
      BY <2>2, <2>3 DEF Counted, CountStart
    <3>2. QED
      BY <2>1, <2>2, <3>1, Sentence
  <2>4. CASE startDay' = Unknown
    BY <2>2, <2>4 DEF CountInv, CountStart, Counted
  <2>5. QED
    BY <2>2, <2>3, <2>4
<1>3. ASSUME NEW p \in Dev, Tracer(p) \/ Flysen(p) PROVE CountInv'
  <2> DEFINE i == Reported(p)
             r == Rollover(Calendar[i.day], ownDay[p])
  <2>1. i.day \in Days /\ ownDay[p] \in Nat \cup {Unknown} /\ p # None
    BY ReportedInstant, GpsTimeAssumption DEF TypeOK
  <2>2. Counted(p, i.day, ownDay[p], r) /\ ownDay' = [ownDay EXCEPT ![p] = r.start]
    BY <1>3 DEF Tracer, Flysen, OwnClock
  <2>3. ownDay'[p] = r.start
    BY <2>2 DEF TypeOK
  <2>4. regular' => CountStart' = r.start
    BY <2>1, <2>2, <2>3 DEF Counted, CountStart
  <2>5. QED
    BY <2>1, <2>2, <2>4, Sentence
<1>4. ASSUME NEW p \in Dev, Heartbeat(p) PROVE CountInv'
  BY <1>4 DEF Heartbeat, CountInv
<1>5. QED
  BY <1>1, <1>2, <1>3, <1>4 DEF Next, Pass, Switch, Reset, vars

-----------------------------------------------------------------------------
\* The order of instants.
LEMMA EarlierIsBefore ==
    ASSUME NEW i \in Instant, NEW j \in Instant, Parts \in Nat, ~Before(j, i)
    PROVE  Earlier(i) \in Instant /\ Earlier(j) \in Instant /\ ~Before(Earlier(j), Earlier(i))
<1>1. ASSUME NEW k \in Instant
      PROVE  /\ Earlier(k) \in Instant
             /\ k.part > 0 => Earlier(k).day = k.day /\ Earlier(k).part = k.part - 1
             /\ k.part = 0 => Earlier(k).day = k.day - 1 /\ Earlier(k).part = Parts - 1
  <2>1. CASE k.part > 0
    <3>1. Earlier(k) = [day |-> k.day, part |-> k.part - 1]
      BY <2>1 DEF Earlier, Instant
    <3>2. QED
      BY <3>1, <2>1 DEF Instant
  <2>2. CASE ~(k.part > 0)
    BY <2>2 DEF Earlier, Instant
  <2>3. QED
    BY <2>1, <2>2
<1>2. QED
  BY <1>1 DEF Before, Instant

\* Time passes for the receivers, too.
LEMMA AgreedGrows ==
    ASSUME TypeOK, Pass
    PROVE  /\ Agreed \in Instant /\ Agreed' \in Instant
           /\ ~Before(Agreed', Agreed)
           /\ \A p \in Dev : /\ Reported(p) \in Instant /\ Reported(p)' \in Instant
                            /\ ~Before(Reported(p)', Reported(p))
<1>1. now \in Instant /\ now' \in Instant /\ lag' = lag /\ Parts \in Nat
  BY TypeStep, GpsTimeAssumption DEF TypeOK, Next, Pass
<1>2. ~Before(now', now)
  <2>1. CASE now.part < Parts - 1 /\ now' = [now EXCEPT !.part = @ + 1]
    <3>1. now'.day = now.day /\ now'.part = now.part + 1
      BY <1>1, <2>1 DEF Instant
    <3>2. QED
      BY <1>1, <3>1 DEF Before, Instant
  <2>2. CASE now' = [day |-> now.day + 1, part |-> 0]
    BY <1>1, <2>2 DEF Before, Instant
  <2>3. QED
    BY <2>1, <2>2 DEF Pass
<1>3. Agreed' = IF lag = {} THEN now' ELSE Earlier(now)'
  BY <1>1 DEF Agreed
<1>4. Earlier(now)' = Earlier(now')
  BY DEF Earlier
<1>5. QED
  BY <1>1, <1>2, <1>3, <1>4, EarlierIsBefore DEF Agreed, Reported

\* A sentence that sets the time from what is counted.
LEMMA SentenceTime ==
    ASSUME TypeOK, CountInv, NEW p \in Dev, NEW start, NEW who,
           LET r == Rollover(Calendar[Reported(p).day], start)
           IN  /\ time' = Absolute(Reported(p), r)
               /\ dayDiff' = r.diff /\ prevDays' = r.prev,
           dayDiff' + prevDays' = seen' - base', seen' = Reported(p).day,
           lag' = lag, now' = now
    PROVE  /\ time'.day = seen' - base'
           /\ lag = {} \/ lag = Dev => ~Before(Agreed', [time' EXCEPT !.day = seen'])
<1>1. time' = [day |-> seen' - base', part |-> Reported(p).part]
  BY DEF Absolute
<1>2. Reported(p) \in Instant
  BY ReportedInstant
<1>3. [time' EXCEPT !.day = seen'] = [day |-> Reported(p).day, part |-> Reported(p).part]
  BY <1>1
<1>4. ASSUME lag = {} \/ lag = Dev PROVE Agreed' = Reported(p)
  <2>1. Agreed' = Agreed
    BY DEF Agreed, Earlier
  <2>2. QED
    BY <1>4, <2>1 DEF Agreed, Reported
<1>5. QED
  BY <1>1, <1>2, <1>3, <1>4 DEF Before, Instant

LEMMA ClockStep == TypeOK /\ IInv /\ [Next]_vars => ClockInv'
<1> SUFFICES ASSUME TypeOK, CountInv, ClockInv, [Next]_vars PROVE ClockInv'
  BY DEF IInv
<1>1. ASSUME UNCHANGED <<count, history, time, lag, now>> PROVE ClockInv'
  BY <1>1 DEF count, history, ClockInv, CountStart, Agreed, Earlier, Before
<1>2. CASE Pass
  <2> SUFFICES ASSUME regular', CountStart' # Unknown
               PROVE  /\ time'.day = seen' - base'
                      /\ lag' = {} \/ lag' = Dev
                           => ~Before(Agreed', [time' EXCEPT !.day = seen'])
    BY DEF ClockInv
  <2>1. UNCHANGED <<count, history, time, lag>>
    BY <1>2 DEF Pass
  <2>2. regular /\ CountStart # Unknown
    BY <2>1 DEF count, history, CountStart
  <2>3. /\ time.day = seen - base
        /\ lag = {} \/ lag = Dev => ~Before(Agreed, [time EXCEPT !.day = seen])
    BY <2>2 DEF ClockInv
  <2>4. [time EXCEPT !.day = seen] \in Instant
    BY DEF TypeOK, Instant, Days
  <2>5. /\ Agreed \in Instant /\ Agreed' \in Instant
        /\ ~Before(Agreed', Agreed)
    BY <1>2, AgreedGrows
  <2>6. ASSUME NEW t \in Instant, ~Before(Agreed, t) PROVE ~Before(Agreed', t)
    BY <2>5, <2>6 DEF Before, Instant
  <2>7. QED
    BY <2>1, <2>3, <2>4, <2>6 DEF history
<1>3. ASSUME NEW p \in Dev, RMC(p) PROVE ClockInv'
  <2> DEFINE i == Reported(p)
             r == Rollover(Calendar[i.day], startDay)
  <2> SUFFICES ASSUME regular', CountStart' # Unknown
               PROVE  /\ time'.day = seen' - base'
                      /\ lag' = {} \/ lag' = Dev
                           => ~Before(Agreed', [time' EXCEPT !.day = seen'])
    BY DEF ClockInv
  <2>1. i.day \in Days /\ startDay \in Nat \cup {Unknown}
    BY ReportedInstant DEF TypeOK
  <2>2. /\ Counted(None, i.day, startDay, r) /\ Advanced(p, Absolute(i, r))
        /\ lag' = lag /\ now' = now
    BY <1>3 DEF RMC, receivers
  <2>3. counter' = None /\ CountStart' = startDay'
    BY <2>2 DEF Counted, CountStart
  <2>4. time' = Absolute(i, r) /\ startDay' = r.start
    BY <2>2, <2>3 DEF Advanced
  <2>5. dayDiff' + prevDays' = seen' - base' /\ seen' = i.day
    BY <2>1, <2>2, <2>3, <2>4, Sentence
  <2>6. dayDiff' = r.diff /\ prevDays' = r.prev
    BY <2>2 DEF Counted
  <2>7. QED
    BY <2>2, <2>4, <2>5, <2>6, SentenceTime
<1>4. ASSUME NEW p \in Dev, Tracer(p) \/ Flysen(p) PROVE ClockInv'
  <2> DEFINE i == Reported(p)
             r == Rollover(Calendar[i.day], ownDay[p])
  <2> SUFFICES ASSUME regular', CountStart' # Unknown
               PROVE  /\ time'.day = seen' - base'
                      /\ lag' = {} \/ lag' = Dev
                           => ~Before(Agreed', [time' EXCEPT !.day = seen'])
    BY DEF ClockInv
  <2>1. i.day \in Days /\ ownDay[p] \in Nat \cup {Unknown} /\ p # None
    BY ReportedInstant, GpsTimeAssumption DEF TypeOK
  <2>2. /\ Counted(p, i.day, ownDay[p], r) /\ time' = Absolute(i, r)
        /\ ownDay' = [ownDay EXCEPT ![p] = r.start]
        /\ lag' = lag /\ now' = now
    BY <1>4 DEF Tracer, Flysen, OwnClock, receivers
  <2>3. ownDay'[p] = r.start
    BY <2>2 DEF TypeOK
  <2>4. CountStart' = r.start
    BY <2>1, <2>2, <2>3 DEF Counted, CountStart
  <2>5. dayDiff' + prevDays' = seen' - base' /\ seen' = i.day
    BY <2>1, <2>2, <2>4, Sentence
  <2>6. dayDiff' = r.diff /\ prevDays' = r.prev
    BY <2>2 DEF Counted
  <2>7. QED
    BY <2>2, <2>5, <2>6, SentenceTime
<1>5. ASSUME NEW p \in Dev, Heartbeat(p) PROVE ClockInv'
  BY <1>5 DEF Heartbeat, ClockInv
<1>6. QED
  BY <1>1, <1>2, <1>3, <1>4, <1>5 DEF Next, Switch, Reset, vars, receivers

LEMMA OwnTimeStep == TypeOK /\ OwnTimeInv /\ [Next]_vars => OwnTimeInv'
<1> SUFFICES ASSUME TypeOK, OwnTimeInv, [Next]_vars, ~disturbed', active' \in Nmea
             PROVE  last'[active'] = time'
  BY DEF OwnTimeInv, Nmea
<1>1. ASSUME UNCHANGED <<last, time, active, disturbed>> PROVE last'[active'] = time'
  BY <1>1 DEF OwnTimeInv
<1>2. ASSUME NEW p \in Dev, Reset(p) PROVE last'[active'] = time'
  <2>1. active' = active /\ active # p /\ ~disturbed
    BY <1>2 DEF Reset, receivers
  <2>2. last'[active] = last[active]
    BY <1>2, <2>1 DEF Reset, TypeOK
  <2>3. QED
    BY <1>2, <2>1, <2>2 DEF Reset, OwnTimeInv
<1>3. ASSUME NEW p \in Dev, RMC(p) PROVE last'[active'] = time'
  BY <1>3 DEF RMC, Advanced, Accepted, Refused, TypeOK, receivers
<1>4. ASSUME NEW p \in Dev, Tracer(p) \/ Heartbeat(p) PROVE last'[active'] = time'
  <2>1. active' = p /\ Kind[p] # "nmea"
    BY <1>4 DEF Tracer, OwnClock, Heartbeat, receivers
  <2>2. QED
    BY <2>1 DEF Nmea
<1>5. QED
  BY <1>1, <1>2, <1>3, <1>4 DEF Next, Pass, Switch, Flysen, vars, receivers

LEMMA RefusedStep == TypeOK /\ RefusedInv /\ [Next]_vars => RefusedInv'
<1> SUFFICES ASSUME TypeOK, RefusedInv, [Next]_vars PROVE RefusedInv'
  OBVIOUS
<1>1. ASSUME refused' = 0 PROVE RefusedInv'
  BY <1>1 DEF RefusedInv
<1>2. CASE Pass
  <2>1. UNCHANGED <<lag, active, startDay, last, refused, refusedOn>>
    BY <1>2 DEF Pass, count, refusals
  <2>2. ASSUME refused >= 2 PROVE ~Before(Reported(active)', [day |-> refusedOn, part |-> last[active].part])
    <3>1. ~Before(Reported(active), [day |-> refusedOn, part |-> last[active].part])
      BY <2>2 DEF RefusedInv
    <3>2. refusedOn \in Int /\ last[active].part \in Int /\ active \in Dev
      BY DEF TypeOK, Instant, Days
    <3>3. /\ Reported(active) \in Instant /\ Reported(active)' \in Instant
          /\ ~Before(Reported(active)', Reported(active))
      BY <1>2, <2>1, <3>2, AgreedGrows DEF Reported, Earlier
    <3>4. QED
      BY <3>1, <3>2, <3>3 DEF Before, Instant
  <2>3. QED
    BY <2>1, <2>2 DEF RefusedInv
<1>3. ASSUME NEW p \in Dev, Reset(p) PROVE RefusedInv'
  <2>1. UNCHANGED <<now, lag, active, startDay, refused, refusedOn>>
    BY <1>3 DEF Reset, receivers, count, refusals
  <2>2. last[active]' = IF active = p THEN Zero ELSE last[active]
    BY <1>3, <2>1 DEF Reset, TypeOK
  <2>3. Reported(active)' = Reported(active)
    BY <2>1 DEF Reported, Earlier
  <2>4. Reported(active) \in Instant /\ last[active] \in Instant /\ refusedOn \in Int
    BY ReportedInstant DEF TypeOK, Days
  <2>5. QED
    BY <2>1, <2>2, <2>3, <2>4 DEF RefusedInv, Before, Instant, Zero
<1>4. ASSUME NEW p \in Dev, RMC(p), refused' # 0 PROVE RefusedInv'
  <2> DEFINE i == Reported(p)
             r == Rollover(Calendar[i.day], startDay)
             t == Absolute(i, r)
  <2>1. /\ p = active /\ p \in Nmea /\ Counted(None, i.day, startDay, r)
        /\ last' = [last EXCEPT ![p] = t] /\ startDay' = Unknown /\ refused' = refused + 1
        /\ refusedOn' = i.day /\ UNCHANGED <<now, lag, active>>
    BY <1>4 DEF RMC, Advanced, Accepted, Refused, receivers
  <2>2. ASSUME refused' >= 2
        PROVE  t.day = 0 /\ t.part = i.part
    <3>1. startDay = Unknown
      BY <2>1, <2>2 DEF RefusedInv, TypeOK
    <3>2. QED
      BY <3>1 DEF Absolute, Rollover
  <2>3. Reported(p)' = i /\ i \in Instant
    BY <2>1, ReportedInstant DEF Reported, Earlier
  <2>4. last'[p] = t
    BY <2>1 DEF TypeOK
  <2> HIDE DEF t, r
  <2>5. QED
    BY <2>1, <2>2, <2>3, <2>4 DEF RefusedInv, Before, Instant
<1>5. ASSUME UNCHANGED <<receivers, startDay, last, refusals>> PROVE RefusedInv'
  BY <1>5 DEF receivers, refusals, RefusedInv, Reported, Earlier, Before
<1>6. QED
  BY <1>1, <1>2, <1>3, <1>4, <1>5
     DEF Next, Switch, Tracer, Flysen, OwnClock, Heartbeat, count, vars

LEMMA Inductive == Spec => [](TypeOK /\ IInv)
<1>1. TypeOK /\ IInv /\ [Next]_vars => TypeOK' /\ IInv'
  BY TypeStep, CountStep, ClockStep, OwnTimeStep, RefusedStep DEF IInv
<1>2. QED
  BY InitInductive, <1>1, PTL DEF Spec

-----------------------------------------------------------------------------
\* Every variable keeps its type (TypeOK).
THEOREM TypeCorrect == Spec => []TypeOK
BY Inductive, PTL

\* What the static counts of ApplyDayRollover mean while a flight goes on, and
\* that the clock is never ahead of the receivers (IInv).
THEOREM Strengthening == Spec => []IInv
BY Inductive, PTL

\* In a flight of less than the shortest month the days are counted right, for
\* every calendar and whichever of the devices that share a StartDay are active
\* in turn (DayCountRight).
THEOREM DaysCounted == Spec => []DayCountRight
<1>1. IInv => DayCountRight
  BY DEF IInv, CountInv, DayCountRight
<1>2. QED
  BY <1>1, Inductive, PTL

\* The clock never goes back in such a flight, whichever devices are active in
\* turn, if their receivers agree on the time (NeverBackInFlight).
THEOREM ClockAdvances == Spec => NeverBackInFlight
<1>1. ASSUME TypeOK, IInv, ClockInv', TypeOK', [Next]_vars,
             regular, CountStart # Unknown, regular', counter' = counter,
             lag = {} \/ lag = Dev
      PROVE  ~Before(time', time)
  <2>1. CASE time' = time
    <3>1. time.day \in Int /\ time.part \in Int
      BY <1>1 DEF TypeOK, Instant
    <3>2. QED
      BY <2>1, <3>1 DEF Before
  <2>2. CASE time' # time
    <3>1. PICK p \in Dev : RMC(p) \/ Tracer(p) \/ Flysen(p) \/ Heartbeat(p)
      BY <1>1, <2>2 DEF Next, Pass, Switch, Reset, vars
    <3>2. ~Heartbeat(p)
      BY <1>1 DEF Heartbeat
    <3> DEFINE i == Reported(p)
               start == IF counter = None THEN startDay ELSE ownDay[p]
               r == Rollover(Calendar[i.day], start)
    <3>3. /\ Counted(counter, i.day, start, r) /\ time' = Absolute(i, r)
          /\ CountStart = start /\ CountStart' = r.start
          /\ lag' = lag /\ now' = now
      <4>1. CASE RMC(p)
        <5>1. counter' = None /\ CountStart' = startDay' /\ CountStart = startDay
          BY <1>1, <4>1 DEF RMC, Counted, CountStart
        <5>2. QED
          BY <1>1, <2>2, <4>1, <5>1 DEF RMC, Advanced, receivers
      <4>2. CASE OwnClock(p)
        <5>1. counter' = p /\ p # None
          BY <1>1, <4>2, GpsTimeAssumption DEF OwnClock, Counted
        <5>2. ownDay'[p] = r.start
          BY <1>1, <4>2, <5>1 DEF OwnClock, TypeOK
        <5>3. QED
          BY <1>1, <4>2, <5>1, <5>2 DEF OwnClock, CountStart, receivers
      <4>3. QED
        BY <3>1, <3>2, <4>1, <4>2 DEF Tracer, Flysen
    <3>4. i \in Instant /\ i.day \in Days /\ counter \in Dev \cup {None}
          /\ start \in Nat /\ base \in Int /\ seen \in Int /\ time \in Instant
      BY <1>1, <3>3, ReportedInstant DEF TypeOK, CountStart, Days
    <3>5. dayDiff' + prevDays' = seen' - base' /\ seen' = i.day
      BY <1>1, <3>3, <3>4, Sentence DEF IInv, CountStart
    <3>6. base' = base /\ dayDiff' = r.diff /\ prevDays' = r.prev
      BY <1>1, <3>3, <3>4 DEF Counted, Unknown
    <3>7. time' = [day |-> i.day - base, part |-> i.part]
      BY <3>3, <3>5, <3>6 DEF Absolute
    <3>8. Agreed = i
      BY <1>1 DEF Agreed, Reported
    <3>9. time.day = seen - base /\ ~Before(i, [time EXCEPT !.day = seen])
      BY <1>1, <3>8 DEF IInv, ClockInv
    <3>10. QED
      BY <3>4, <3>7, <3>9 DEF Before, Instant
  <2>3. QED
    BY <2>1, <2>2
<1>2. TypeOK /\ TypeOK' /\ IInv /\ ClockInv' /\ [Next]_vars =>
        [regular /\ CountStart # Unknown /\ regular' /\ counter' = counter
           /\ (lag = {} \/ lag = Dev) => ~Before(time', time)]_vars
  BY <1>1
<1>3. IInv => ClockInv
  BY DEF IInv
<1>4. QED
  BY <1>2, <1>3, Inductive, PTL DEF Spec, NeverBackInFlight

\* While an NMEA device is the active GPS, the clock goes back only at a FLYSEN
\* sentence, or after a refusal, a reset of the parser, a switch or a FLYSEN sentence
\* (NoSilentReset).
THEOREM ResetsAnnounced == Spec => NoSilentReset
<1>1. ASSUME TypeOK, OwnTimeInv, [Next]_vars, active \in Nmea, Before(time', time),
             ~disturbed, ~(\E p \in Dev : Flysen(p))
      PROVE  FALSE
  <2>1. time' # time
    BY <1>1 DEF Before, TypeOK, Instant
  <2>2. PICK p \in Dev : RMC(p) \/ Tracer(p) \/ Heartbeat(p)
    BY <1>1, <2>1 DEF Next, Pass, Switch, Reset, vars
  <2>3. CASE RMC(p)
    <3>1. last[p] = time /\ ~Before(time', last[p])
      BY <1>1, <2>1, <2>3 DEF RMC, Advanced, OwnTimeInv
    <3>2. QED
      BY <1>1, <3>1
  <2>4. CASE Tracer(p) \/ Heartbeat(p)
    BY <1>1, <2>4 DEF Tracer, Heartbeat, Nmea
  <2>5. QED
    BY <2>2, <2>3, <2>4
<1>2. TypeOK /\ OwnTimeInv /\ [Next]_vars =>
        [Before(time', time) /\ active \in Nmea
           => disturbed \/ \E p \in Dev : Flysen(p)]_vars
  BY <1>1
<1>3. IInv => OwnTimeInv
  BY DEF IInv
<1>4. QED
  BY <1>2, <1>3, Inductive, PTL DEF Spec, NoSilentReset

\* After two sentences in a row the active GPS is refused again only when
\* midnight has passed between two sentences (NeverStuck).
THEOREM NotRefusedForEver == Spec => NeverStuck
<1>1. ASSUME TypeOK, RefusedInv, [Next]_vars, refused >= 2, refused' > refused
      PROVE  Reported(active).day > refusedOn
  <2>1. refused \in Nat
    BY <1>1 DEF TypeOK
  <2>2. PICK p \in Dev : RMC(p)
    BY <1>1, <2>1 DEF Next, Pass, Switch, Reset, Tracer, Flysen, OwnClock, Heartbeat, refusals, vars
  <2> DEFINE i == Reported(active)
             t == Absolute(i, Rollover(Calendar[i.day], startDay))
  <2>3. p = active /\ Before(t, last[active])
    BY <1>1, <2>1, <2>2 DEF RMC, Advanced, Accepted
  <2>4. startDay = Unknown /\ last[active].day = 0
        /\ ~Before(i, [day |-> refusedOn, part |-> last[active].part])
    BY <1>1, <2>1 DEF RefusedInv
  <2>5. t = [day |-> 0, part |-> i.part]
    BY <2>4 DEF Absolute, Rollover
  <2>6. i \in Instant /\ last[active] \in Instant /\ refusedOn \in Int
    BY <1>1, ReportedInstant DEF TypeOK, Days
  <2>7. QED
    BY <2>3, <2>4, <2>5, <2>6 DEF Before, Instant
<1>2. TypeOK /\ RefusedInv /\ [Next]_vars =>
        [refused >= 2 /\ refused' > refused => Reported(active).day > refusedOn]_vars
  BY <1>1
<1>3. IInv => RefusedInv
  BY DEF IInv
<1>4. QED
  BY <1>2, <1>3, Inductive, PTL DEF Spec, NeverStuck
==============================================================================
