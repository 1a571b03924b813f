------------------------------ MODULE TaskProofs ------------------------------
(* Proofs about Task, for every task, every set of rules and readings. *)
EXTENDS Task, TLAPS

------------------------------------------------------------------------------
(* The gates *)

\* The time of a gate is a time of the day, and later than the opening.
LEMMA GateTimes ==
    ASSUME NEW g \in Gates, NEW i \in Nat
    PROVE  GateTime(g, i) \in Nat /\ g.open <= GateTime(g, i)
<1>1. Interval \in Nat /\ g.open \in Nat
  BY GatesAssumption DEF Gates
<1>2. i * Interval \in Nat
  BY <1>1
<1> QED
  BY <1>1, <1>2 DEF GateTime

\* Where no time gets ahead of the clock, the gate before the next one has opened.
GateOpened(g, t) == NeverAhead /\ g.next > 0 => GateTime(g, g.next - 1) <= t

\* The gates as configured, and where InitActiveGate leaves NextGate.
LEMMA InitGates ==
    ASSUME NEW kind \in GateKind, NEW number \in Nat, NEW t \in Nat
    PROVE  LET h == InitActiveGate(kind, number, t)
           IN  /\ Configured(kind, number) \in Gates
               /\ Configured(kind, number).next = -1
               /\ h \in Gates
               /\ h.next > 0 => GateTime(h, h.next - 1) <= t
<1> DEFINE g == Configured(kind, number)
<1> DEFINE h == InitActiveGate(kind, number, t)
<1>1. g \in Gates /\ g.next = -1
  BY GatesAssumption DEF Configured, Gates
<1>2. h = [g EXCEPT !.next = h.next]
  BY <1>1 DEF InitActiveGate, Gates
<1>3. h.next \in {-1, 0} \/ h.next = CalcNextGate(g, t) - 1
  BY <1>1 DEF InitActiveGate, Gates
<1>4. \/ CalcNextGate(g, t) = -1
      \/ /\ CalcNextGate(g, t) \in 0 .. g.number - 1
         /\ CalcNextGate(g, t) = 0 \/ GateTime(g, CalcNextGate(g, t) - 1) <= t
  <2> DEFINE first == {i \in 0 .. g.number - 1 :
                          t < GateTime(g, i) /\ (i = 0 \/ GateTime(g, i - 1) <= t)}
  <2>1. CASE first = {}
    BY <2>1 DEF CalcNextGate
  <2>2. CASE first # {}
    <3>1. CalcNextGate(g, t) = CHOOSE i \in first : TRUE
      BY <2>2 DEF CalcNextGate
    <3> HIDE DEF first
    <3>2. CalcNextGate(g, t) \in first
      BY <2>2, <3>1
    <3> QED
      BY <3>2 DEF first
  <2> QED
    BY <2>1, <2>2
<1> HIDE DEF g
<1>5. CalcNextGate(g, t) \in Int
  <2>1. g.number \in Nat
    BY <1>1 DEF Gates
  <2> QED
    BY <1>4, <2>1
<1> HIDE DEF h
<1>6. h \in Gates
  <2>1. h.next \in Int
    BY <1>3, <1>5
  <2> QED
    BY <1>1, <1>2, <2>1 DEF Gates
<1>7. ASSUME h.next > 0 PROVE GateTime(h, h.next - 1) <= t
  <2>1. h.next = CalcNextGate(g, t) - 1
    BY <1>3, <1>7
  <2>2. h.next \in Nat /\ CalcNextGate(g, t) \in Nat \ {0}
    BY <2>1, <1>5, <1>6, <1>7 DEF Gates
  <2>3. GateTime(g, h.next) <= t
    BY <1>4, <2>1, <2>2
  <2>4. h.open = g.open /\ g \in Gates /\ g.open \in Nat
    BY <1>1, <1>2 DEF Gates
  <2>5. GateTime(h, h.next - 1) = g.open + (h.next - 1) * Interval
    BY <2>4 DEF GateTime
  <2>6. (h.next - 1) * Interval <= h.next * Interval
    <3>1. Interval \in Nat
      BY GatesAssumption
    <3> QED
      BY <2>2, <3>1
  <2>7. (h.next - 1) * Interval \in Int /\ h.next * Interval \in Int
    BY <2>2, GatesAssumption
  <2> QED
    BY <2>3, <2>4, <2>5, <2>6, <2>7 DEF GateTime
<1> QED
  BY <1>1, <1>6, <1>7 DEF g, h

\* ResetGates too, as long as it is not misled by the time zone.
LEMMA ResetGatesFacts ==
    ASSUME NEW kind \in GateKind, NEW number \in Nat, NEW t \in Begin .. End
    PROVE  LET h == ResetGates(kind, number, t) IN h \in Gates /\ GateOpened(h, t)
<1>0. t \in 0 .. DayEnd
  BY GatesAssumption, TaskAssumption
<1>1. LocalTime(t) \in Nat /\ (NeverAhead => LocalTime(t) <= t)
  BY <1>0, GatesAssumption DEF LocalTime, NeverAhead
<1>2. LET h == InitActiveGate(kind, number, LocalTime(t))
      IN  h \in Gates /\ (h.next > 0 => GateTime(h, h.next - 1) <= LocalTime(t))
  BY <1>1, InitGates
<1>3. LET h == InitActiveGate(kind, number, LocalTime(t))
      IN  h.next > 0 => GateTime(h, h.next - 1) \in Nat
  BY <1>2, GateTimes DEF Gates
<1> QED
  BY <1>0, <1>1, <1>2, <1>3 DEF ResetGates, GateOpened

\* NotifyGateState opens a gate only when its time has come.
LEMMA Notified ==
    ASSUME NEW kind \in GateKind, NEW gp \in BOOLEAN, NEW g \in Gates, NEW t \in Nat,
           GateOpened(g, t)
    PROVE  LET h == NotifyGateState(kind, gp, g, t)
           IN  h \in Gates /\ GateOpened(h, t)
<1> DEFINE h == NotifyGateState(kind, gp, g, t)
<1>1. CASE h = g
  BY <1>1
<1>2. CASE h = InitActiveGate(kind, g.number, t)
  <2>1. g.number \in Nat
    BY DEF Gates
  <2> QED
    BY <1>2, <2>1, InitGates DEF GateOpened
<1>3. CASE h = [g EXCEPT !.next = -1]
  BY <1>3 DEF Gates, GateOpened
<1>4. CASE h = [g EXCEPT !.next = @ + 1] /\ g.next >= 0 /\ GateTime(g, g.next) <= t
  <2>1. h.next = g.next + 1 /\ h.open = g.open /\ g.next \in Int
    BY <1>4 DEF Gates
  <2>2. h.next - 1 = g.next
    BY <2>1
  <2>3. GateTime(h, h.next - 1) = GateTime(g, g.next)
    BY <2>1, <2>2 DEF GateTime
  <2>4. h \in Gates
    BY <1>4 DEF Gates
  <2> QED
    BY <1>4, <2>3, <2>4 DEF GateOpened
<1>5. h = g \/ h = InitActiveGate(kind, g.number, t) \/ h = [g EXCEPT !.next = -1]
      \/ (h = [g EXCEPT !.next = @ + 1] /\ g.next >= 0 /\ GateTime(g, g.next) <= t)
  BY DEF NotifyGateState, Gates
<1> QED
  BY <1>1, <1>2, <1>3, <1>4, <1>5

\* The time recorded for a start through a valid gate: between the opening and
\* the closing of the gates, and not after the fix.
LEMMA StartTimes ==
    ASSUME NEW kind \in GateKind, NEW gp \in BOOLEAN, NEW g \in Gates, NEW t \in Nat,
           GateOpened(g, t), ValidGate(kind, gp, g, t)
    PROVE  /\ TaskStartTime(kind, gp, g, t) \in Nat
           /\ UseGates(kind, gp, g) => g.open <= TaskStartTime(kind, gp, g, t)
           /\ NeverAhead => TaskStartTime(kind, gp, g, t) <= t
           /\ NeverAhead /\ UseGates(kind, gp, g) =>
                  TaskStartTime(kind, gp, g, t) \in g.open .. g.close
<1> DEFINE u == TaskStartTime(kind, gp, g, t)
<1>1. g.open \in Nat /\ g.close \in Nat /\ g.next \in Int
  BY DEF Gates
<1>2. UseGates(kind, gp, g) => g.open <= t /\ t < g.close
  BY DEF ValidGate
<1>3. CASE u = t
  BY <1>1, <1>2, <1>3
<1>4. CASE u = OpenGateTime(g) /\ UseGates(kind, gp, g)
  <2>1. CASE g.next > 0
    <3>1. u = GateTime(g, g.next - 1) /\ g.next - 1 \in Nat
      BY <1>1, <1>4, <2>1 DEF OpenGateTime
    <3>2. u \in Nat /\ g.open <= u
      BY <3>1, GateTimes
    <3> QED
      BY <1>1, <1>2, <1>4, <2>1, <3>1, <3>2 DEF GateOpened
  <2>2. CASE ~(g.next > 0)
    BY <1>1, <1>2, <1>4, <2>2 DEF OpenGateTime
  <2> QED
    BY <2>1, <2>2
<1> QED
  BY <1>3, <1>4 DEF TaskStartTime

------------------------------------------------------------------------------
(* The operators of a fix *)

\* Advancing: by at most one point, when ready, and then disarmed.
LEMMA AdvanceFacts ==
    ASSUME NEW s \in TaskType, NEW f \in Readings, s.active < Last
    PROVE  LET n == AdvanceToNext(s, f)
           IN  /\ n \in TaskType
               /\ n.active = IF ReadyToAdvance(s, f, FALSE) THEN s.active + 1 ELSE s.active
               /\ n.armed => s.armed
               /\ ReadyToAdvance(s, f, FALSE) => ~n.armed
               /\ n.validFinish => s.validFinish
               /\ n.validStart = s.validStart /\ n.startTime = s.startTime
               /\ n.entered = s.entered
<1> DEFINE n == AdvanceToNext(s, f)
<1> DEFINE ready == ReadyToAdvance(s, f, FALSE)
<1>1. n = [s EXCEPT !.active      = IF ready THEN @ + 1 ELSE @,
                    !.armed       = @ /\ ~ready,
                    !.validFinish = @ /\ f.air = "ground"]
  BY DEF AdvanceToNext
<1> HIDE DEF n, ready
<1>2. s.active \in 0 .. Last /\ Last \in Nat
  BY TaskAssumption DEF TaskType
<1>3. (IF ready THEN s.active + 1 ELSE s.active) \in 0 .. Last
  BY <1>2
<1>4. n \in TaskType
  BY <1>1, <1>3 DEF TaskType
<1>5. /\ n.active = IF ready THEN s.active + 1 ELSE s.active
      /\ n.armed = (s.armed /\ ~ready)
      /\ n.validFinish = (s.validFinish /\ f.air = "ground")
      /\ n.validStart = s.validStart /\ n.startTime = s.startTime
      /\ n.entered = s.entered
  BY <1>1 DEF TaskType
<1> QED
  BY <1>4, <1>5 DEF n, ready

\* CheckStart: a start begins the task anew at its first turn point, disarmed
\* and with a time from the gates; otherwise the point stays, and the points
\* reached are forgotten only while no start is valid.
LEMMA CheckStartFacts ==
    ASSUME NEW s0 \in TaskType, NEW f \in Readings, NEW g \in Gates, NEW t \in Nat,
           GateOpened(g, t), rules \in RuleSet
    PROVE  LET r == CheckStart(s0, f, g, t)
               b == Begins(s0, f, g, t)
           IN  /\ r \in TaskType
               /\ b => /\ r.active = 1 /\ r.entered = {}
                       /\ r.validStart /\ ~r.validFinish
                       /\ r.startTime = TaskStartTime(rules.gates, GP, g, t)
                       /\ ~rules.ga => ReadyToAdvance(s0, f, TRUE) /\ ~r.armed
               /\ ~b => /\ r.active = s0.active
                        /\ r.entered = s0.entered \/ (r.entered = {} /\ ~s0.validStart)
                        /\ s0.validStart => r.validStart
                        /\ r.validFinish => s0.validFinish
                        /\ r.armed => s0.armed
<1> DEFINE r == CheckStart(s0, f, g, t)
<1> DEFINE b == Begins(s0, f, g, t)
<1> DEFINE s == [s0 EXCEPT !.lastIn = LastInSector(s0, f)]
<1> DEFINE crossed == StartCrossed(s0, f) /\ ValidGate(rules.gates, GP, g, t)
<1> DEFINE ready == ReadyToAdvance(s, f, TRUE)
<1> DEFINE start == TaskStartTime(rules.gates, GP, g, t)
<1>1. s \in TaskType
  BY DEF TaskType, LastInSector, Side
<1>2. s.active = s0.active /\ s.armed = s0.armed /\ s.validStart = s0.validStart
      /\ s.validFinish = s0.validFinish /\ s.entered = s0.entered
  BY DEF TaskType
<1>3. ready <=> ReadyToAdvance(s0, f, TRUE)
  BY <1>2 DEF ReadyToAdvance
<1>4. crossed => start \in Nat
  BY StartTimes DEF RuleSet, GP
<1>5. b <=> /\ crossed
            /\ rules.ga \/ (s.active < Last /\ ByTheRules(f) /\ ready)
  BY <1>2, <1>3 DEF Begins
<1>6. 1 \in 0 .. Last
  BY TaskAssumption
<1>7. r = IF crossed /\ rules.ga THEN
              [StartTask(s, g, t, TRUE) EXCEPT !.validStart = TRUE]
          ELSE IF crossed /\ ByTheRules(f) THEN
              [IF ready THEN StartTask(s, g, t, TRUE) ELSE s
                  EXCEPT !.validStart = TRUE, !.armed = @ /\ ~ready, !.validFinish = FALSE]
          ELSE IF crossed /\ s.active <= 1 /\ ~s.validStart THEN
              [StartTask(s, g, t, FALSE) EXCEPT !.armed = @ /\ ~ready]
          ELSE s
  BY DEF CheckStart
<1>8. crossed /\ ~rules.ga => s.active < Last
  BY <1>2 DEF StartCrossed, Departed, WatchesStart
<1> HIDE DEF r, b, s, crossed, ready, start
<1>9. /\ StartTask(s, g, t, TRUE) =
             [s EXCEPT !.validFinish = FALSE, !.startTime = start,
                       !.entered = {}, !.active = 1]
      /\ StartTask(s, g, t, FALSE) =
             [s EXCEPT !.validFinish = FALSE, !.startTime = start, !.entered = {}]
  <2>1. [s EXCEPT !.validFinish = FALSE, !.startTime = start, !.entered = {},
                  !.active = s.active]
        = [s EXCEPT !.validFinish = FALSE, !.startTime = start, !.entered = {}]
    BY <1>1 DEF TaskType
  <2> QED
    BY <1>1, <2>1 DEF StartTask, start, TaskType
<1>10. CASE crossed /\ rules.ga
  <2>1. r = [s EXCEPT !.validFinish = FALSE, !.startTime = start, !.entered = {},
                      !.active = 1, !.validStart = TRUE]
    BY <1>1, <1>7, <1>9, <1>10 DEF TaskType
  <2>2. r \in TaskType
    BY <1>1, <1>4, <1>6, <1>10, <2>1 DEF TaskType
  <2>3. /\ r.active = 1 /\ r.entered = {} /\ r.validStart /\ ~r.validFinish
        /\ r.startTime = start
    BY <1>1, <2>1 DEF TaskType
  <2> QED
    BY <1>5, <1>10, <2>2, <2>3 DEF r, b, start
<1>11. CASE crossed /\ ~rules.ga /\ ByTheRules(f) /\ ready
  <2>1. r = [s EXCEPT !.validFinish = FALSE, !.startTime = start, !.entered = {},
                      !.active = 1, !.validStart = TRUE, !.armed = FALSE]
    BY <1>1, <1>7, <1>9, <1>11 DEF TaskType
  <2>2. r \in TaskType
    BY <1>1, <1>4, <1>6, <1>11, <2>1 DEF TaskType
  <2>3. /\ r.active = 1 /\ r.entered = {} /\ r.validStart /\ ~r.validFinish
        /\ r.startTime = start /\ ~r.armed
    BY <1>1, <2>1 DEF TaskType
  <2> QED
    BY <1>3, <1>5, <1>8, <1>11, <2>2, <2>3 DEF r, b, start
<1>12. CASE crossed /\ ~rules.ga /\ ByTheRules(f) /\ ~ready
  <2>1. r = [s EXCEPT !.validStart = TRUE, !.armed = @ /\ ~ready, !.validFinish = FALSE]
    BY <1>7, <1>12
  <2>2. r \in TaskType
    BY <1>1, <2>1 DEF TaskType
  <2>3. /\ r.active = s.active /\ r.entered = s.entered /\ r.validStart
        /\ ~r.validFinish /\ (r.armed => s.armed)
    BY <1>1, <2>1 DEF TaskType
  <2> QED
    BY <1>2, <1>5, <1>12, <2>2, <2>3 DEF r, b
<1>13. CASE crossed /\ ~rules.ga /\ ~ByTheRules(f) /\ s.active <= 1 /\ ~s.validStart
  <2>1. r = [s EXCEPT !.validFinish = FALSE, !.startTime = start, !.entered = {},
                      !.armed = @ /\ ~ready]
    BY <1>1, <1>7, <1>9, <1>13 DEF TaskType
  <2>2. r \in TaskType
    BY <1>1, <1>4, <1>13, <2>1 DEF TaskType
  <2>3. /\ r.active = s.active /\ r.entered = {} /\ ~r.validFinish
        /\ (r.armed => s.armed)
    BY <1>1, <2>1 DEF TaskType
  <2> QED
    BY <1>2, <1>5, <1>13, <2>2, <2>3 DEF r, b
<1>14. CASE r = s /\ ~b
  BY <1>1, <1>2, <1>14 DEF r, b
<1> QED
  BY <1>5, <1>7, <1>10, <1>11, <1>12, <1>13, <1>14

\* CheckInSector: the point goes on by one at most, when the advance is ready
\* and, unless the task has circles to be crossed, the point was reached.
LEMMA CheckInSectorFacts ==
    ASSUME NEW s \in TaskType, NEW f \in Readings,
           0 < s.active, s.active < Last, rules \in RuleSet
    PROVE  LET n == CheckInSector(s, f)
           IN  /\ n \in TaskType
               /\ n.active \in {s.active, s.active + 1}
               /\ n.active = s.active + 1 =>
                      /\ ReadyToAdvance(s, f, FALSE) /\ ~n.armed
                      /\ \/ GP /\ rules.turn = "circle"
                         \/ s.active \in f.turns \/ s.active \in s.entered
               /\ (n.armed => s.armed) /\ (n.validFinish => s.validFinish)
               /\ n.validStart = s.validStart /\ n.startTime = s.startTime
               /\ n.entered = IF rules.type = "AAT"
                              THEN s.entered \cup ({s.active - 1, s.active} \cap f.turns)
                              ELSE s.entered
<1> DEFINE n == CheckInSector(s, f)
<1> DEFINE a == AddAATPoints(s, f, {s.active - 1, s.active})
<1> DEFINE m == AdvanceToNext(a, f)
<1>0. f.turns \subseteq Turns
  BY TaskAssumption DEF ReadingSet
<1>1. a = [s EXCEPT !.entered = IF rules.type = "AAT"
                                THEN @ \cup ({s.active - 1, s.active} \cap f.turns) ELSE @]
  BY DEF AddAATPoints, TaskType
<1>2. n = IF GP /\ rules.turn = "circle" THEN CheckCircle(a, f)
          ELSE IF \/ rules.type # "AAT" /\ a.active \in f.turns
                  \/ a.active \in a.entered
               THEN m ELSE a
  BY DEF CheckInSector
<1> HIDE DEF a
<1>3. /\ a \in TaskType /\ a.active = s.active /\ a.armed = s.armed
      /\ a.validFinish = s.validFinish /\ a.validStart = s.validStart
      /\ a.startTime = s.startTime
      /\ a.entered = IF rules.type = "AAT"
                     THEN s.entered \cup ({s.active - 1, s.active} \cap f.turns)
                     ELSE s.entered
  BY <1>0, <1>1 DEF TaskType
<1>4. ReadyToAdvance(a, f, FALSE) <=> ReadyToAdvance(s, f, FALSE)
  BY <1>3 DEF ReadyToAdvance
<1>5. /\ m \in TaskType
      /\ m.active = IF ReadyToAdvance(a, f, FALSE) THEN a.active + 1 ELSE a.active
      /\ ReadyToAdvance(a, f, FALSE) => ~m.armed
      /\ (m.armed => a.armed) /\ (m.validFinish => a.validFinish)
      /\ m.validStart = a.validStart /\ m.startTime = a.startTime
      /\ m.entered = a.entered
  BY <1>3, AdvanceFacts
<1> HIDE DEF n, m
<1>6. \/ \E x \in {"unknown", "in", "out"} : n = [a EXCEPT !.lastTurn = x]
      \/ \E x \in {"unknown", "in", "out"} :
             n = [m EXCEPT !.lastTurn = x] /\ GP /\ rules.turn = "circle"
      \/ n = a
      \/ /\ n = m
         /\ (rules.type # "AAT" /\ a.active \in f.turns) \/ a.active \in a.entered
  BY <1>2 DEF CheckCircle, Side, m
<1>7. a.active \in Int /\ a.active # a.active + 1
  BY <1>3 DEF TaskType
<1> DEFINE ready == ReadyToAdvance(s, f, FALSE)
<1> DEFINE reason == \/ GP /\ rules.turn = "circle"
                     \/ s.active \in f.turns \/ s.active \in s.entered
<1> HIDE DEF ready, reason
<1>8. CASE n = a \/ \E x \in {"unknown", "in", "out"} : n = [a EXCEPT !.lastTurn = x]
  <2>1. /\ n \in TaskType /\ n.active = a.active /\ n.armed = a.armed
        /\ n.validFinish = a.validFinish /\ n.validStart = a.validStart
        /\ n.startTime = a.startTime /\ n.entered = a.entered
    BY <1>3, <1>8 DEF TaskType
  <2>2. n.active # s.active + 1
    BY <1>3, <1>7, <2>1
  <2> QED
    BY <1>3, <2>1, <2>2 DEF n
<1>9. ASSUME n = m \/ \E x \in {"unknown", "in", "out"} : n = [m EXCEPT !.lastTurn = x],
             reason
      PROVE  /\ n \in TaskType
             /\ n.active = IF ready THEN s.active + 1 ELSE s.active
             /\ ready => ~n.armed
             /\ (n.armed => s.armed) /\ (n.validFinish => s.validFinish)
             /\ n.validStart = s.validStart /\ n.startTime = s.startTime
             /\ n.entered = a.entered
  <2>1. /\ n \in TaskType /\ n.active = m.active /\ n.armed = m.armed
        /\ n.validFinish = m.validFinish /\ n.validStart = m.validStart
        /\ n.startTime = m.startTime /\ n.entered = m.entered
    BY <1>5, <1>9 DEF TaskType
  <2> QED
    BY <1>3, <1>4, <1>5, <2>1 DEF ready
<1>10. ASSUME n = m \/ \E x \in {"unknown", "in", "out"} : n = [m EXCEPT !.lastTurn = x],
              reason
       PROVE  /\ n.active \in {s.active, s.active + 1}
              /\ n.active = s.active + 1 => ready /\ ~n.armed /\ reason
  BY <1>3, <1>7, <1>9, <1>10
<1>11. CASE \E x \in {"unknown", "in", "out"} :
               n = [m EXCEPT !.lastTurn = x] /\ GP /\ rules.turn = "circle"
  <2>1. reason
    BY <1>11 DEF reason
  <2> QED
    BY <1>3, <1>9, <1>10, <1>11, <2>1 DEF n, ready, reason
<1>12. CASE /\ n = m
            /\ (rules.type # "AAT" /\ a.active \in f.turns) \/ a.active \in a.entered
  <2>1. reason
    BY <1>3, <1>12 DEF reason
  <2> QED
    BY <1>3, <1>9, <1>10, <1>12, <2>1 DEF n, ready, reason
<1> QED
  BY <1>6, <1>8, <1>11, <1>12

\* CheckFinish: the point stays, whatever is found.
LEMMA CheckFinishFacts ==
    ASSUME NEW s \in TaskType, NEW f \in Readings, s.active = Last, rules \in RuleSet
    PROVE  LET n == CheckFinish(s, f)
           IN  /\ n \in TaskType /\ n.active = s.active
               /\ n.validStart = s.validStart /\ n.startTime = s.startTime
               /\ n.entered \subseteq s.entered \cup ({Last - 1} \cap f.turns) \cup {Last}
               /\ rules.type # "AAT" => n.entered = s.entered
<1> DEFINE n == CheckFinish(s, f)
<1> DEFINE a == AddAATPoints(s, f, {s.active - 1})
<1>0. f.turns \subseteq Turns /\ Last \in Turns /\ f.high \in BOOLEAN
  BY TaskAssumption DEF ReadingSet, Turns
<1>1. a = [s EXCEPT !.entered = IF rules.type = "AAT"
                                THEN @ \cup ({s.active - 1} \cap f.turns) ELSE @]
  BY DEF AddAATPoints, TaskType
<1>2. n = [a EXCEPT
               !.validFinish = @ \/ InFinishSector(a, f),
               !.lastFinish  =
                   IF ~f.high THEN @
                   ELSE /\ "finish" \in f.at
                        /\ IF rules.finish = "circle" THEN @ ELSE "before" \in f.at,
               !.entered     = IF rules.type = "AAT" /\ InFinishSector(a, f)
                               THEN @ \cup {a.active} ELSE @]
  BY DEF CheckFinish
<1> HIDE DEF a
<1>3. /\ a \in TaskType /\ a.active = Last
      /\ a.validStart = s.validStart /\ a.startTime = s.startTime
      /\ a.entered = IF rules.type = "AAT"
                     THEN s.entered \cup ({Last - 1} \cap f.turns) ELSE s.entered
  BY <1>0, <1>1 DEF TaskType
<1> HIDE DEF n
<1>4. n \in TaskType
  BY <1>0, <1>2, <1>3 DEF TaskType
<1>5. /\ n.active = a.active /\ n.validStart = a.validStart /\ n.startTime = a.startTime
      /\ n.entered = IF rules.type = "AAT" /\ InFinishSector(a, f)
                     THEN a.entered \cup {Last} ELSE a.entered
  BY <1>2, <1>3 DEF TaskType
<1> QED
  BY <1>3, <1>4, <1>5 DEF n

------------------------------------------------------------------------------
(* A fix *)

\* The task after the look for the start, before that for the turn point.
StartChecked(f, g, t) == IF ChecksStart(task, t) THEN CheckStart(task, f, g, t) ELSE task

\* Everything a fix does, in terms of the two looks.
LEMMA FixFacts ==
    ASSUME IInv, NEW f \in Readings, NEW t \in Begin .. End, now < t, Fix(f, t)
    PROVE  LET s == StartChecked(f, gates', t)
               b == event' = "start"
           IN  /\ rules \in RuleSet /\ t \in Nat /\ now \in Nat
               /\ gates' \in Gates
               /\ GateOpened(gates', t)
               /\ s \in TaskType /\ Last \in Nat \ {0} /\ f.turns \subseteq Turns
               /\ b => /\ s.active = 1 /\ s.entered = {}
                       /\ s.validStart /\ ~s.validFinish
                       /\ s.startTime = TaskStartTime(rules.gates, GP, gates', t)
                       /\ ~rules.ga => ReadyToAdvance(task, f, TRUE) /\ ~s.armed
                       /\ ValidGate(rules.gates, GP, gates', t)
                       /\ task.active \in {0, 1} /\ task.active # Last
               /\ ~b => /\ s.active = task.active
                        /\ \/ s.entered = task.entered
                           \/ s.entered = {} /\ ~task.validStart
                        /\ task.validStart => s.validStart
                        /\ s.validFinish => task.validFinish
                        /\ s.armed => task.armed
               /\ task.active = 0 => task' = s
               /\ task.active = Last => task' = CheckFinish(s, f)
               /\ task.active \notin {0, Last} => task' = CheckInSector(s, f)
               /\ event' \in {"none", "start"}
               /\ hands' = (hands /\ ~b)
               /\ reached' = LET r == IF b THEN 0 ELSE reached
                             IN  IF r + 1 \in f.turns THEN r + 1 ELSE r
               /\ now' = t /\ inStart' = ("start" \in f.at) /\ rules' = rules
<1> DEFINE g == IF ChecksStart(task, t)
                THEN NotifyGateState(rules.gates, GP, gates, t) ELSE gates
<1> DEFINE s == StartChecked(f, g, t)
<1> DEFINE b == ChecksStart(task, t) /\ Begins(task, f, g, t)
<1>1. TypeOK /\ GateOpened(gates, now)
  BY DEF IInv, GatesInv, Opened, GateOpened
<1>2. rules \in RuleSet /\ t \in Nat /\ now \in Nat /\ GP \in BOOLEAN
  BY <1>1, TaskAssumption DEF TypeOK, GP
<1>3. gates \in Gates /\ GateOpened(gates, t)
  <2>1. gates \in Gates /\ GateOpened(gates, now)
    BY <1>1 DEF TypeOK
  <2>2. gates.next > 0 => GateTime(gates, gates.next - 1) \in Nat
    <3>1. gates.next > 0 => gates.next - 1 \in Nat
      BY <2>1 DEF Gates
    <3> QED
      BY <2>1, <3>1, GateTimes
  <2> QED
    BY <1>2, <2>1, <2>2 DEF GateOpened
<1>4. g \in Gates /\ GateOpened(g, t)
  <2>1. rules.gates \in GateKind
    BY <1>2 DEF RuleSet
  <2>2. LET h == NotifyGateState(rules.gates, GP, gates, t)
        IN  h \in Gates /\ GateOpened(h, t)
    BY <1>2, <1>3, <2>1, Notified
  <2> QED
    BY <1>3, <2>2
<1>5. /\ gates' = g
      /\ task' = InSector(f, g, t)
      /\ event' = IF b THEN "start" ELSE "none"
      /\ hands' = (hands /\ ~b)
      /\ reached' = LET r == IF b THEN 0 ELSE reached
                    IN  IF r + 1 \in f.turns THEN r + 1 ELSE r
      /\ now' = t /\ inStart' = ("start" \in f.at) /\ rules' = rules
  BY DEF Fix
<1>6. /\ task.active = 0 => task' = s
      /\ task.active = Last => task' = CheckFinish(s, f)
      /\ task.active \notin {0, Last} => task' = CheckInSector(s, f)
  <2>1. Last # 0
    BY TaskAssumption
  <2> QED
    BY <1>5, <2>1 DEF InSector, StartChecked
<1>7. task \in TaskType /\ Last \in Nat \ {0} /\ f.turns \subseteq Turns
  BY <1>1, TaskAssumption DEF TypeOK, ReadingSet
<1> HIDE DEF g
<1>8. LET r == CheckStart(task, f, g, t)
          c == Begins(task, f, g, t)
      IN  /\ r \in TaskType
          /\ c => /\ r.active = 1 /\ r.entered = {}
                  /\ r.validStart /\ ~r.validFinish
                  /\ r.startTime = TaskStartTime(rules.gates, GP, g, t)
                  /\ ~rules.ga => ReadyToAdvance(task, f, TRUE) /\ ~r.armed
          /\ ~c => /\ r.active = task.active
                   /\ r.entered = task.entered \/ (r.entered = {} /\ ~task.validStart)
                   /\ task.validStart => r.validStart
                   /\ r.validFinish => task.validFinish
                   /\ r.armed => task.armed
  BY <1>2, <1>4, <1>7, CheckStartFacts
<1>9. b => /\ ValidGate(rules.gates, GP, g, t)
           /\ task.active \in {0, 1} /\ task.active # Last
  BY <1>7 DEF Begins, ChecksStart, ChecksRestart
<1>10. (event' = "start") <=> b
  BY <1>5
<1>11. s \in TaskType
  BY <1>7, <1>8 DEF StartChecked
<1>12. b => /\ s.active = 1 /\ s.entered = {}
            /\ s.validStart /\ ~s.validFinish
            /\ s.startTime = TaskStartTime(rules.gates, GP, g, t)
            /\ ~rules.ga => ReadyToAdvance(task, f, TRUE) /\ ~s.armed
  BY <1>8 DEF StartChecked
<1>13. ~b => /\ s.active = task.active
             /\ s.entered = task.entered \/ (s.entered = {} /\ ~task.validStart)
             /\ task.validStart => s.validStart
             /\ s.validFinish => task.validFinish
             /\ s.armed => task.armed
  BY <1>8 DEF StartChecked
<1> HIDE DEF s, b
<1>14. s = StartChecked(f, gates', t)
  BY <1>5 DEF s
<1> QED
  BY <1>2, <1>4, <1>5, <1>6, <1>7, <1>9, <1>10, <1>11, <1>12, <1>13, <1>14

\* What the look for the turn point or the finish does after that for the start.
LEMMA Looked ==
    ASSUME IInv, NEW f \in Readings, NEW t \in Begin .. End, now < t, Fix(f, t)
    PROVE  LET s == StartChecked(f, gates', t)
           IN  /\ task' \in TaskType /\ task'.validStart = s.validStart
               /\ task'.startTime = s.startTime
               /\ \/ task' = s /\ task.active = 0
                  \/ /\ task' = CheckFinish(s, f) /\ s.active = Last
                     /\ task.active = Last /\ event' # "start"
                  \/ /\ task' = CheckInSector(s, f) /\ 0 < s.active /\ s.active < Last
                     /\ task.active \notin {0, Last}
<1> DEFINE s == StartChecked(f, gates', t)
<1>1. s \in TaskType /\ Last \in Nat \ {0} /\ rules \in RuleSet
  BY FixFacts
<1>2. CASE task.active = 0
  <2>1. task' = s
    BY <1>2, FixFacts
  <2> QED
    BY <1>1, <1>2, <2>1
<1>3. CASE task.active = Last
  <2>1. task' = CheckFinish(s, f) /\ s.active = Last /\ event' # "start"
    BY <1>3, FixFacts
  <2> HIDE DEF s
  <2>2. task' \in TaskType /\ task'.validStart = s.validStart /\ task'.startTime = s.startTime
    BY <1>1, <2>1, CheckFinishFacts
  <2> QED
    BY <1>3, <2>1, <2>2 DEF s
<1>4. CASE task.active \notin {0, Last}
  <2>1. task' = CheckInSector(s, f)
    BY <1>4, FixFacts
  <2>2. task.active \in 0 .. Last
    BY DEF IInv, TypeOK, TaskType
  <2>3. event' = "start" => s.active = 1 /\ task.active \in {0, 1}
    BY FixFacts
  <2>4. event' # "start" => s.active = task.active
    BY FixFacts
  <2>5. 0 < s.active /\ s.active < Last
    BY <1>1, <1>4, <2>2, <2>3, <2>4
  <2> HIDE DEF s
  <2>6. task' \in TaskType /\ task'.validStart = s.validStart /\ task'.startTime = s.startTime
    BY <1>1, <2>1, <2>5, CheckInSectorFacts
  <2> QED
    BY <1>4, <2>1, <2>5, <2>6 DEF s
<1> QED
  BY <1>2, <1>3, <1>4

\* A fix keeps the types.
LEMMA FixTypes ==
    ASSUME IInv, NEW f \in Readings, NEW t \in Begin .. End, now < t, Fix(f, t)
    PROVE  TypeOK'
<1>1. /\ rules' = rules /\ now' = t /\ event' \in {"none", "start"}
      /\ hands' = (hands /\ event' # "start") /\ inStart' = ("start" \in f.at)
      /\ gates' \in Gates
  BY FixFacts
<1>2. task' \in TaskType
  BY Looked
<1>3. reached' \in 0 .. Last
  <2>1. /\ reached' = LET r == IF event' = "start" THEN 0 ELSE reached
                      IN  IF r + 1 \in f.turns THEN r + 1 ELSE r
        /\ f.turns \subseteq 1 .. Last /\ Last \in Nat
    BY FixFacts DEF Turns
  <2>2. reached \in 0 .. Last
    BY DEF IInv, TypeOK
  <2> QED
    BY <2>1, <2>2
<1>4. hands' \in BOOLEAN /\ inStart' \in BOOLEAN
  <2>1. (hands /\ event' # "start") \in BOOLEAN /\ ("start" \in f.at) \in BOOLEAN
    OBVIOUS
  <2> QED
    BY <1>1, <2>1, Zenon
<1>5. rules' \in Rules /\ now' \in Begin .. End
  BY <1>1 DEF IInv, TypeOK
<1> QED
  BY <1>1, <1>2, <1>3, <1>4, <1>5 DEF TypeOK

\* A fix that begins the task does so within the gates.
LEMMA FixStarts ==
    ASSUME IInv, NEW f \in Readings, NEW t \in Begin .. End, now < t, Fix(f, t)
    PROVE  GatesInv'
<1>1. now' = t /\ rules' = rules /\ gates' \in Gates /\ rules.gates \in GateKind
      /\ t \in Nat /\ GateOpened(gates', t)
  BY FixFacts DEF RuleSet
<1>2. NeverAhead => Opened'
  BY <1>1 DEF Opened, GateTime, GateOpened
<1>4. NotBeforeFirst'
  <2> SUFFICES ASSUME event' = "start", Use' PROVE gates'.open <= task'.startTime
    BY DEF NotBeforeFirst
  <2>1. /\ task'.startTime = TaskStartTime(rules.gates, GP, gates', t)
        /\ ValidGate(rules.gates, GP, gates', t)
    BY FixFacts, Looked
  <2>2. GP \in BOOLEAN /\ GP' = GP
    BY <1>1 DEF GP
  <2>3. UseGates(rules.gates, GP, gates')
    BY <1>1, <2>2 DEF Use, UseGates
  <2> QED
    BY <1>1, <2>1, <2>2, <2>3, StartTimes
<1>3. ASSUME event' = "start", NeverAhead
      PROVE  /\ task'.startTime <= now'
             /\ Use' => task'.startTime \in gates'.open .. gates'.close
  <2>1. /\ task'.startTime = TaskStartTime(rules.gates, GP, gates', t)
        /\ ValidGate(rules.gates, GP, gates', t)
    BY <1>3, FixFacts, Looked
  <2>2. GP \in BOOLEAN /\ GP' = GP
    BY <1>1 DEF GP
  <2>3. /\ TaskStartTime(rules.gates, GP, gates', t) <= t
        /\ UseGates(rules.gates, GP, gates') =>
               TaskStartTime(rules.gates, GP, gates', t) \in gates'.open .. gates'.close
    BY <1>1, <1>3, <2>1, <2>2, StartTimes
  <2>4. Use' <=> UseGates(rules.gates, GP, gates')
    BY <1>1, <2>2 DEF Use, UseGates
  <2> QED
    BY <1>1, <2>1, <2>3, <2>4
<1> QED
  BY <1>2, <1>3, <1>4 DEF StartInWindow, GatesInv

\* A fix keeps the account of the points reached since the start.
LEMMA FixBegun ==
    ASSUME IInv, NEW f \in Readings, NEW t \in Begin .. End, now < t, Fix(f, t)
    PROVE  Begun'
<1> DEFINE s == StartChecked(f, gates', t)
<1> DEFINE r == IF event' = "start" THEN 0 ELSE reached
<1> SUFFICES ASSUME ~hands' PROVE Begun'
  BY DEF Begun
<1>1. /\ rules' = rules /\ rules \in RuleSet /\ s \in TaskType
      /\ Last \in Nat \ {0} /\ f.turns \subseteq Turns
      /\ reached' = (IF r + 1 \in f.turns THEN r + 1 ELSE r)
  BY FixFacts
<1>2. r \in Nat /\ reached' \in {r, r + 1}
  BY <1>1 DEF IInv, TypeOK
<1>3. /\ s.validStart /\ s.active > 0
      /\ s.validFinish => s.active = Last
      /\ ~(GP /\ rules.turn = "circle") => s.active <= r + 1
      /\ s.entered \subseteq 1 .. r \cup {Last}
      /\ rules.type # "AAT" => s.entered = {}
      /\ Last \in s.entered => s.active = Last
  <2>1. CASE event' = "start"
    <3>1. s.active = 1 /\ s.entered = {} /\ s.validStart /\ ~s.validFinish
      BY <2>1, FixFacts
    <3> HIDE DEF s
    <3> QED
      BY <1>2, <3>1
  <2>2. CASE event' # "start"
    <3>1. /\ ~hands /\ s.active = task.active
          /\ s.entered = task.entered \/ (s.entered = {} /\ ~task.validStart)
          /\ task.validStart => s.validStart
          /\ s.validFinish => task.validFinish
      BY <2>2, FixFacts
    <3>2. r = reached
      BY <2>2
    <3> HIDE DEF s, r
    <3>3. /\ task.validStart /\ task.active > 0
          /\ task.validFinish => task.active = Last
          /\ ~(GP /\ rules.turn = "circle") => task.active <= reached + 1
          /\ task.entered \subseteq 1 .. reached \cup {Last}
          /\ rules.type # "AAT" => task.entered = {}
          /\ Last \in task.entered => task.active = Last
      BY <3>1 DEF IInv, Begun
    <3> QED
      BY <3>1, <3>2, <3>3
  <2> QED
    BY <2>1, <2>2
<1>4. GP' = GP /\ (rules.type = "AAT" => ~GP)
  BY <1>1 DEF GP
<1>5. task'.validStart
  BY <1>3, Looked
<1>6. \/ task' = s
      \/ task' = CheckFinish(s, f) /\ s.active = Last
      \/ task' = CheckInSector(s, f) /\ 0 < s.active /\ s.active < Last
  BY Looked
<1> HIDE DEF s, r
<1>7. s.active \in Int /\ s.entered \subseteq 1 .. Last /\ f.turns \subseteq 1 .. Last
  BY <1>1 DEF TaskType, Turns
<1>8. 1 .. r \subseteq 1 .. reached'
  BY <1>2
<1>9. rules.type = "AAT" => /\ s.active <= r + 1
                            /\ {s.active - 1, s.active} \cap f.turns \subseteq 1 .. reached'
  <2>1. rules.type = "AAT" => s.active <= r + 1
    BY <1>3, <1>4
  <2>2. \A i \in f.turns : i <= r + 1 => i \in 1 .. reached'
    BY <1>1, <1>2, <1>7
  <2> QED
    BY <1>7, <2>1, <2>2, <1>2
<1>10. CASE task' = s
  <2>1. s.active <= r + 1 => s.active <= reached' + 1
    BY <1>2, <1>7
  <2>2. s.entered \subseteq 1 .. reached' \cup {Last}
    BY <1>3, <1>8
  <2> QED
    BY <1>1, <1>3, <1>4, <1>10, <2>1, <2>2 DEF Begun
<1>11. CASE task' = CheckFinish(s, f) /\ s.active = Last
  <2>1. /\ task'.active = Last
        /\ task'.entered \subseteq s.entered \cup ({Last - 1} \cap f.turns) \cup {Last}
        /\ rules.type # "AAT" => task'.entered = s.entered
    BY <1>1, <1>11, CheckFinishFacts
  <2>2. Last > 0
    BY <1>1
  <2>3. s.active <= r + 1 => s.active <= reached' + 1
    BY <1>2, <1>7
  <2>4. task'.entered \subseteq 1 .. reached' \cup {Last}
    BY <1>3, <1>8, <1>9, <1>11, <2>1
  <2> QED
    BY <1>1, <1>3, <1>4, <1>5, <1>11, <2>1, <2>2, <2>3, <2>4 DEF Begun
<1>12. CASE task' = CheckInSector(s, f) /\ 0 < s.active /\ s.active < Last
  <2> DEFINE n == task'
  <2>1. /\ n.active \in {s.active, s.active + 1}
        /\ n.active = s.active + 1 => \/ GP /\ rules.turn = "circle"
                                      \/ s.active \in f.turns \/ s.active \in s.entered
        /\ n.validFinish => s.validFinish
        /\ n.entered = IF rules.type = "AAT"
                       THEN s.entered \cup ({s.active - 1, s.active} \cap f.turns)
                       ELSE s.entered
    BY <1>1, <1>12, CheckInSectorFacts
  <2> HIDE DEF n
  <2>2. n.active > 0 /\ ~n.validFinish
    BY <1>3, <1>7, <1>12, <2>1
  <2>3. Last \notin s.entered /\ s.active - 1 # Last /\ s.active # Last
    BY <1>1, <1>3, <1>7, <1>12
  <2>4. Last \notin n.entered
    BY <2>1, <2>3
  <2>5. n.entered \subseteq 1 .. reached' \cup {Last}
    BY <1>3, <1>8, <1>9, <2>1
  <2>6. s.active \in f.turns /\ s.active <= r + 1 => s.active <= reached'
    BY <1>1, <1>2, <1>7
  <2>7. s.active \in s.entered => s.active <= r
    BY <1>2, <1>3, <1>7, <2>3
  <2>8. ~(GP /\ rules.turn = "circle") => n.active <= reached' + 1
    BY <1>2, <1>3, <1>7, <2>1, <2>6, <2>7
  <2>9. rules.type # "AAT" => n.entered = {}
    BY <1>3, <2>1
  <2> QED
    BY <1>1, <1>4, <1>5, <2>2, <2>4, <2>5, <2>8, <2>9 DEF Begun, n
<1> QED
  BY <1>6, <1>10, <1>11, <1>12

\* A fix advances only as the mode allows, and uses up the arming.
LEMMA FixArmed ==
    ASSUME IInv, NEW f \in Readings, NEW t \in Begin .. End, now < t, Fix(f, t), ~rules.ga
    PROVE  LET began == event' = "start"
               turned == task'.active > (IF began THEN 1 ELSE task.active)
           IN  /\ rules.mode = "manual" => ~began /\ ~turned
               /\ rules.mode \in {"arm", "armstart"} /\ began => task.armed /\ ~task'.armed
               /\ rules.mode \in {"arm", "armtps"} /\ turned => task.armed /\ ~task'.armed
               /\ rules.mode = "arm" => ~(began /\ turned)
<1> DEFINE s == StartChecked(f, gates', t)
<1> DEFINE began == event' = "start"
<1> DEFINE turned == task'.active > (IF began THEN 1 ELSE task.active)
<1>1. /\ rules \in RuleSet /\ s \in TaskType /\ Last \in Nat \ {0}
      /\ began => /\ s.active = 1 /\ ReadyToAdvance(task, f, TRUE) /\ ~s.armed
      /\ ~began => s.active = task.active /\ (s.armed => task.armed)
  BY FixFacts
<1>2. \/ task' = s /\ task.active = 0
      \/ /\ task' = CheckFinish(s, f) /\ s.active = Last
         /\ task.active = Last /\ event' # "start"
      \/ /\ task' = CheckInSector(s, f) /\ 0 < s.active /\ s.active < Last
         /\ task.active \notin {0, Last}
  BY Looked
<1> HIDE DEF s
<1>3. task.active \in Int /\ s.active \in Int /\ task.armed \in BOOLEAN
  BY <1>1 DEF IInv, TypeOK, TaskType
<1>4. turned => /\ task'.active = s.active + 1 /\ task' = CheckInSector(s, f)
                /\ 0 < s.active /\ s.active < Last
  <2>1. turned <=> task'.active > s.active
    BY <1>1
  <2>2. ASSUME task' = CheckFinish(s, f), s.active = Last
        PROVE  task'.active = s.active
    BY <1>1, <2>2, CheckFinishFacts
  <2>3. ASSUME task' = CheckInSector(s, f), 0 < s.active, s.active < Last
        PROVE  task'.active \in {s.active, s.active + 1}
    BY <1>1, <2>3, CheckInSectorFacts
  <2>4. ~(s.active > s.active)
    BY <1>3
  <2> QED
    BY <1>2, <2>1, <2>2, <2>3, <2>4
<1>5. turned => ReadyToAdvance(s, f, FALSE) /\ ~task'.armed
  BY <1>1, <1>4, CheckInSectorFacts
<1>6. turned => task'.active # 1
  BY <1>3, <1>4
<1>7. rules.mode = "manual" => ~began /\ ~turned
  BY <1>1, <1>5 DEF ReadyToAdvance
<1>8. rules.mode \in {"arm", "armstart"} /\ began => task.armed
  BY <1>1 DEF ReadyToAdvance
<1>9. rules.mode \in {"arm", "armtps"} /\ turned => s.armed
  <2>1. turned => s.active # 0
    BY <1>4, <1>3
  <2> QED
    BY <1>1, <1>5, <2>1 DEF ReadyToAdvance
<1>10. rules.mode \in {"arm", "armtps"} /\ turned => task.armed /\ ~began
  BY <1>1, <1>9
<1>11. began => ~task'.armed
  <2>1. ASSUME began, task' = CheckInSector(s, f), 0 < s.active, s.active < Last, ~turned
        PROVE  ~task'.armed
    BY <1>1, <2>1, CheckInSectorFacts
  <2> QED
    BY <1>1, <1>2, <1>5, <2>1
<1> QED
  BY <1>5, <1>7, <1>8, <1>10, <1>11 DEF turned, began

------------------------------------------------------------------------------
(* The pilot *)

\* Resetting the task leaves a task.
LEMMA ResetFacts ==
    ASSUME NEW s \in TaskType, NEW written \in BOOLEAN
    PROVE  Reset(s, written) \in TaskType
<1>1. 0 \in 0 .. Last /\ 0 \in Nat
  BY TaskAssumption
<1>2. (s.validStart /\ ~written) \in BOOLEAN /\ (s.validFinish /\ ~written) \in BOOLEAN
  OBVIOUS
<1>3. (IF written THEN 0 ELSE s.startTime) \in Nat
  BY DEF TaskType
<1> QED
  BY <1>1, <1>2, <1>3 DEF Reset, TaskType

\* What is common to the commands that take the task out of the hands of the
\* fixes: there is nothing to account for any more.
LEMMA CommandKeeps ==
    ASSUME IInv, Commanded, task' \in TaskType, inStart' \in BOOLEAN,
           gates' \in Gates, GateOpened(gates', now)
    PROVE  IInv'
<1>1. /\ rules' = rules /\ now' = now /\ reached' = reached
      /\ event' = "none" /\ hands' = TRUE
  BY DEF Commanded
<1>2. TypeOK'
  BY <1>1 DEF IInv, TypeOK
<1>3. NeverAhead => Opened'
  BY <1>1 DEF Opened, GateTime, GateOpened
<1>4. Begun' /\ StartInWindow' /\ NotBeforeFirst'
  BY <1>1 DEF Begun, StartInWindow, NotBeforeFirst
<1> QED
  BY <1>2, <1>3, <1>4 DEF IInv, GatesInv

\* Every step keeps the inductive invariant.
LEMMA Inductive == IInv /\ [Next]_vars => IInv'
<1> SUFFICES ASSUME IInv, [Next]_vars PROVE IInv'
  OBVIOUS
<1>1. /\ rules \in RuleSet /\ now \in Begin .. End /\ task \in TaskType
      /\ gates \in Gates /\ inStart \in BOOLEAN
      /\ GateOpened(gates, now)
  BY TaskAssumption DEF IInv, TypeOK, GatesInv, Opened, GateOpened
<1>2. now \in Nat /\ now \in 0 .. DayEnd /\ gates.number \in Nat /\ rules.gates \in GateKind /\ task.active \in 0 .. Last
      /\ Last \in Nat \ {0}
  BY <1>1, TaskAssumption, GatesAssumption DEF RuleSet, TaskType, Gates
<1>3. LET g == ResetGates(rules.gates, gates.number, now)
      IN  g \in Gates /\ GateOpened(g, now)
  BY <1>1, <1>2, ResetGatesFacts
<1>4. CASE \E f \in Readings, t \in Begin .. End : now < t /\ t <= now + Step /\ Fix(f, t)
  BY <1>4, FixTypes, FixStarts, FixBegun DEF IInv
<1>5. CASE ArmAdvance
  <2>1. /\ task' = [task EXCEPT !.armed = ~@] /\ event' = "none"
        /\ rules' = rules /\ now' = now /\ gates' = gates /\ hands' = hands
        /\ reached' = reached /\ inStart' = inStart
    BY <1>5 DEF ArmAdvance
  <2>2. /\ task' \in TaskType /\ task'.active = task.active
        /\ task'.validStart = task.validStart /\ task'.validFinish = task.validFinish
        /\ task'.entered = task.entered
    BY <1>1, <2>1 DEF TaskType
  <2>3. TypeOK'
    BY <2>1, <2>2 DEF IInv, TypeOK
  <2>4. Begun'
    BY <2>1, <2>2 DEF IInv, Begun, GP
  <2>5. GatesInv'
    BY <2>1 DEF IInv, GatesInv, Opened, GateTime, StartInWindow, NotBeforeFirst, Use, UseGates, GP
  <2> QED
    BY <2>3, <2>4, <2>5 DEF IInv
<1>6. CASE NextPoint
  <2>1. PICK written \in BOOLEAN :
            task' = [task EXCEPT !.active = @ + 1, !.armed = FALSE,
                                 !.startTime = IF task.active = 0 /\ @ = 0 /\ written
                                               THEN now ELSE @]
    BY <1>6 DEF NextPoint
  <2>2. task.active + 1 \in 0 .. Last
    BY <1>2, <1>6 DEF NextPoint
  <2>3. task' \in TaskType
    BY <1>1, <1>2, <2>1, <2>2 DEF TaskType
  <2> QED
    BY <1>1, <1>6, <2>3, CommandKeeps DEF NextPoint
<1>7. CASE FirstPoint
  <2>1. 0 \in 0 .. Last
    BY <1>2
  <2>2. task' = [task EXCEPT !.active = 0, !.armed = FALSE]
    BY <1>7 DEF FirstPoint
  <2>3. task' \in TaskType
    BY <1>1, <2>1, <2>2 DEF TaskType
  <2> QED
    BY <1>1, <1>7, <2>3, CommandKeeps DEF FirstPoint
<1>8. CASE PreviousPoint
  <2> DEFINE s == [task EXCEPT !.active = @ - 1, !.entered = @ \ {task.active - 1}]
  <2>1. task.active - 1 \in 0 .. Last
    BY <1>2, <1>8 DEF PreviousPoint
  <2>2. s \in TaskType
    BY <1>1, <2>1 DEF TaskType
  <2>3. \/ task' = s /\ gates' = gates
        \/ /\ \E written \in BOOLEAN : task' = Reset(s, written)
           /\ gates' = ResetGates(rules.gates, gates.number, now)
    BY <1>8 DEF PreviousPoint
  <2> HIDE DEF s
  <2>4. task' \in TaskType
    BY <2>2, <2>3, ResetFacts
  <2>5. gates' \in Gates /\ GateOpened(gates', now)
    BY <1>1, <1>3, <2>3
  <2> QED
    BY <1>1, <1>8, <2>4, <2>5, CommandKeeps DEF PreviousPoint
<1>9. CASE ResetTask
  <2>1. task' \in TaskType
    BY <1>1, <1>9, ResetFacts DEF ResetTask
  <2> QED
    BY <1>1, <1>3, <1>9, <2>1, CommandKeeps DEF ResetTask
<1>10. CASE ReverseTask
  <2>1. task' \in TaskType
    BY <1>1, <1>10, ResetFacts DEF ReverseTask
  <2> QED
    BY <1>3, <1>10, <2>1, CommandKeeps DEF ReverseTask
<1>11. CASE LoadTask
  <2>1. task' \in TaskType
    BY <1>1, <1>2, <1>11 DEF LoadTask, TaskType
  <2>2. gates' \in Gates /\ gates'.next = -1
    BY <1>2, <1>11, GatesAssumption, InitGates DEF LoadTask
  <2>3. GateOpened(gates', now)
    BY <2>2 DEF GateOpened
  <2> QED
    BY <1>11, <2>1, <2>2, <2>3, CommandKeeps DEF LoadTask
<1>12. CASE PilotEvent
  <2>1. /\ gates' = PevGates(now) /\ event' = "none" /\ rules' = rules /\ now' = now
        /\ task' = task /\ hands' = hands /\ reached' = reached /\ inStart' = inStart
    BY <1>12 DEF PilotEvent
  <2>2. gates' \in Gates /\ ~(gates'.next > 0)
    BY <1>2, <2>1, GatesAssumption DEF PevGates, Gates
  <2>3. TypeOK'
    BY <2>1, <2>2 DEF IInv, TypeOK
  <2>4. Begun'
    BY <2>1 DEF IInv, Begun, GP
  <2>5. GatesInv'
    BY <2>1, <2>2 DEF GatesInv, Opened, StartInWindow, NotBeforeFirst
  <2> QED
    BY <2>3, <2>4, <2>5 DEF IInv
<1>13. CASE UNCHANGED vars
  BY <1>13 DEF vars, IInv, TypeOK, Begun, GatesInv, Opened, StartInWindow, NotBeforeFirst, Use, UseGates, GP, GateTime
<1> QED
  BY <1>4, <1>5, <1>6, <1>7, <1>8, <1>9, <1>10, <1>11, <1>12, <1>13 DEF Next, Pilot

------------------------------------------------------------------------------
(* The theorems *)

\* The types, the account of the points, the gates: one inductive invariant.
THEOREM Strengthening == Spec => []IInv
<1>1. Init => IInv
  <2> SUFFICES ASSUME Init PROVE IInv
    OBVIOUS
  <2>1. rules \in RuleSet /\ Begin \in Nat /\ Last \in Nat \ {0}
    BY TaskAssumption DEF Init
  <2>2. gates \in Gates /\ gates.next = -1
    BY <2>1, GatesAssumption, InitGates DEF Init, RuleSet
  <2>3. task \in TaskType
    BY <2>1 DEF Init, TaskType
  <2>4. now \in Begin .. End
    BY TaskAssumption DEF Init
  <2>5. TypeOK
    <3>1. 0 \in 0 .. Last
      BY <2>1
    <3>2. /\ rules \in Rules /\ reached = 0 /\ event = "none"
          /\ hands = TRUE /\ inStart = FALSE
      BY DEF Init
    <3> QED
      BY <2>2, <2>3, <2>4, <3>1, <3>2 DEF TypeOK
  <2>6. Begun /\ GatesInv
    BY <2>2 DEF Init, Begun, GatesInv, Opened, StartInWindow, NotBeforeFirst
  <2> QED
    BY <2>5, <2>6 DEF IInv
<1> QED
  BY <1>1, Inductive, PTL DEF Spec

\* The task, the gates and the clock keep their types for every task.
THEOREM TypeCorrect == Spec => []TypeOK
<1>1. IInv => TypeOK
  BY DEF IInv
<1> QED
  BY <1>1, Strengthening, PTL

\* No turn point is passed over between a start and a finish, for any number
\* of turn points and whatever the areas have in common.
THEOREM TurnsFlown == Spec => []FlownInOrder
<1>1. IInv => FlownInOrder
  BY DEF IInv, Begun, FlownInOrder
<1> QED
  BY <1>1, Strengthening, PTL

\* A start is never recorded before the first gate opens, whatever the gates and
\* the time zone (the part of StartInWindow that the double conversion spares).
THEOREM NoEarlyStart == Spec => []NotBeforeFirst
<1>1. IInv => NotBeforeFirst
  BY DEF IInv, GatesInv
<1> QED
  BY <1>1, Strengthening, PTL

\* The gate before the next one has opened (Opened), wherever a local time that is
\* converted once more is not a later one: the only way to break it.
THEOREM GatesOpened == ASSUME NeverAhead PROVE Spec => []Opened
<1>1. IInv => Opened
  BY DEF IInv, GatesInv
<1> QED
  BY <1>1, Strengthening, PTL

\* There a start is recorded within the gates and not in the future, for every
\* gate configuration (StartInWindow).
THEOREM StartsThroughGate == ASSUME NeverAhead PROVE Spec => []StartInWindow
<1>1. IInv => StartInWindow
  BY DEF IInv, GatesInv
<1> QED
  BY <1>1, Strengthening, PTL

\* Arming once allows one start or one turn point.
THEOREM ArmedOnce == Spec => OneArmOneStep
<1> DEFINE step == now' # now /\ ~rules.ga =>
        LET began == event' = "start"
            turned == task'.active > (IF began THEN 1 ELSE task.active)
        IN  /\ rules.mode = "manual" => ~began /\ ~turned
            /\ rules.mode \in {"arm", "armstart"} /\ began => task.armed /\ ~task'.armed
            /\ rules.mode \in {"arm", "armtps"} /\ turned => task.armed /\ ~task'.armed
            /\ rules.mode = "arm" => ~(began /\ turned)
<1>1. IInv /\ [Next]_vars => [step]_vars
  <2> SUFFICES ASSUME IInv, Next, now' # now, ~rules.ga PROVE step
    OBVIOUS
  <2>1. PICK f \in Readings, t \in Begin .. End : now < t /\ Fix(f, t)
    BY DEF Next, Pilot, ArmAdvance, NextPoint, FirstPoint, PreviousPoint, ResetTask,
           ReverseTask, LoadTask, PilotEvent, Commanded
  <2> QED
    BY <2>1, FixArmed
<1> QED
  BY <1>1, Strengthening, PTL DEF Spec, OneArmOneStep
==============================================================================
