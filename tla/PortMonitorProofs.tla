--------------------------- MODULE PortMonitorProofs ---------------------------
(***************************************************************************)
(* Proofs of the safety properties of PortMonitor, for any number of       *)
(* slots, any sharing of ports and any thresholds that satisfy             *)
(* PortMonitorAssumption.                                                  *)
(***************************************************************************)
EXTENDS PortMonitor, TLAPS

USE PortMonitorAssumption DEF Dev, NoSlot, Never, Age

\* The initial states.
LEMMA InitInductive == Init => TypeOK /\ IInv
<1> SUFFICES ASSUME Init PROVE TypeOK /\ IInv
  OBVIOUS
<1>1. hb \in [Dev -> Age \cup {Never}] /\ heard \in [Dev -> Age] /\ fix \in [Dev -> Age]
  BY DEF Init
<1>2. TypeOK
  <2>1. /\ active \in Dev \cup {NoSlot} /\ owner \in Dev \cup {NoSlot}
        /\ phase \in 0 .. Period /\ runs \in 0 .. Reset - 1
    BY DEF Init
  <2>2. /\ enabled \in SUBSET Dev /\ silent \in SUBSET Dev
        /\ connected \in SUBSET enabled /\ valid \in SUBSET enabled
        /\ gga \in SUBSET enabled
    BY DEF Init
  <2>3. QED
    BY <1>1, <2>1, <2>2 DEF Init, TypeOK
<1>3. TimerInv
  BY DEF Init, TimerInv
<1>4. FixInv /\ OwnerInv
  BY DEF Init, FixInv, OwnerInv
<1>5. QED
  BY <1>2, <1>3, <1>4 DEF IInv

\* Ages grow by at most one and never fall.
LEMMA OlderAge ==
  ASSUME NEW a \in Age
  PROVE  Older(a) \in Age /\ Older(a) >= a /\ (a < MaxAge => Older(a) = a + 1)
BY DEF Older

\* The candidates for the active GPS are slots.
LEMMA CandidatesAreSlots == TypeOK => Candidates \in SUBSET Dev
<1> SUFFICES ASSUME TypeOK, NEW a \in Candidates PROVE a \in Dev
  OBVIOUS
<1>1. a \in Fresh \/ a \in connected \/ a \in enabled \/ a = 0
  <2>1. CASE Fresh # {}
    BY <2>1 DEF Candidates
  <2>2. CASE Fresh = {} /\ connected # {}
    BY <2>2 DEF Candidates
  <2>3. CASE Fresh = {} /\ connected = {}
    BY <2>3 DEF Candidates
  <2>4. QED
    BY <2>1, <2>2, <2>3
<1>2. Fresh \subseteq enabled /\ connected \subseteq enabled /\ enabled \subseteq Dev
  BY DEF Fresh, TypeOK
<1>3. 0 \in Dev
  OBVIOUS
<1>4. QED
  BY <1>1, <1>2, <1>3

-----------------------------------------------------------------------------
\* Messages keep the types.
LEMMA DataType == TypeOK /\ Data => TypeOK'
<1> SUFFICES ASSUME TypeOK, NEW p \in Dev, NEW ok \in BOOLEAN,
                    Value(p) \/ RMC(p, ok) \/ GGA(p, ok)
                      \/ StreamHeartbeat(p, ok) \/ StreamReport(p, ok)
             PROVE  TypeOK'
  BY DEF Data
<1>1. PICK line \in BOOLEAN : Receive(p, line)
  BY DEF Value, RMC, GGA, StreamHeartbeat, StreamReport
<1>2. /\ p \in enabled
      /\ UNCHANGED <<enabled, active, silent, timer, wishes>>
      /\ heard' \in [Dev -> Age] /\ hb' \in [Dev -> Age \cup {Never}]
  BY <1>1 DEF Receive, TypeOK
<1>3. /\ connected' \in SUBSET enabled /\ valid' \in SUBSET enabled
      /\ gga' \in SUBSET enabled /\ fix' \in [Dev -> Age]
  <2>1. \/ UNCHANGED <<connected, valid, fix>>
        \/ Fix(p, ok)
    BY DEF Value, RMC, GGA, StreamHeartbeat, StreamReport, parser
  <2>2. gga' = gga \/ gga' = gga \cup {p}
    BY DEF Value, RMC, GGA, StreamHeartbeat, StreamReport, parser
  <2>3. 0 \in Age
    OBVIOUS
  <2>4. CASE Fix(p, ok)
    BY <1>2, <2>2, <2>3, <2>4 DEF Fix, With, TypeOK
  <2>5. QED
    BY <1>2, <2>1, <2>2, <2>4 DEF TypeOK
<1>4. owner' \in Dev \cup {NoSlot} /\ navWarning' \in BOOLEAN
  BY DEF TypeOK, Value, RMC, GGA, StreamHeartbeat, StreamReport, Update
<1>5. QED
  BY <1>2, <1>3, <1>4 DEF TypeOK, timer, wishes

\* The timer's steps keep the types.
LEMMA TimerType == TypeOK /\ TimerInv /\ Timer => TypeOK'
<1> SUFFICES ASSUME TypeOK, TimerInv, Timer PROVE TypeOK'
  OBVIOUS
<1>1. CASE OnTimer
  <2>1. hb' \in [Dev -> Age \cup {Never}]
    BY <1>1, OlderAge DEF OnTimer, TypeOK
  <2>2. heard' \in [Dev -> Age] /\ fix' \in [Dev -> Age]
    BY <1>1, OlderAge DEF OnTimer, TypeOK
  <2>3. beats' \in 1 .. Startup + Period /\ phase' \in 0 .. Period
    BY <1>1 DEF OnTimer, TypeOK, TimerInv
  <2>4. QED
    BY <1>1, <2>1, <2>2, <2>3 DEF OnTimer, TypeOK, wishes
<1>2. CASE UpdateMonitor
  <2>1. PICK a \in Candidates : active' = a
    BY <1>2 DEF UpdateMonitor
  <2>2. active' \in Dev
    BY <2>1, CandidatesAreSlots
  <2>3. PICK gone \in SUBSET Dev : ResetParsers(gone)
    <3>1. CASE beats < Startup
      BY <1>2, <3>1 DEF UpdateMonitor
    <3>2. CASE ~(beats < Startup)
      <4>1. PICK b \in Candidates, faulty \in BOOLEAN : Monitor(b, faulty)
        BY <1>2, <3>2 DEF UpdateMonitor
      <4>2. (Expired \ silent) \cup (Expired \cap Fresh \cap {b}) \in SUBSET Dev
        BY DEF Expired, TypeOK
      <4>3. QED
        BY <4>1, <4>2 DEF Monitor
    <3>3. QED
      BY <3>1, <3>2
  <2>4. /\ connected' \in SUBSET enabled /\ valid' \in SUBSET enabled
        /\ gga' \in SUBSET enabled
    BY <2>3 DEF ResetParsers, Fresh, TypeOK
  <2>5. /\ navWarning' \in BOOLEAN /\ owner' \in Dev \cup {NoSlot}
        /\ silent' \in SUBSET Dev
    BY <1>2 DEF UpdateMonitor, Monitor, TypeOK, Expired
  <2>6. QED
    <3>1. runs' \in 0 .. Reset - 1 /\ phase' \in 0 .. Period
      BY <1>2 DEF UpdateMonitor, TypeOK
    <3>2. gps' \in BOOLEAN
      BY <1>2 DEF UpdateMonitor
    <3>3. /\ UNCHANGED <<enabled, hb, heard, fix, beats, lastGps, waiting, extGps,
                         force, busy>>
          /\ pc' = "connect"
      BY <1>2 DEF UpdateMonitor, wishes
    <3>4. QED
      BY <2>2, <2>4, <2>5, <3>1, <3>2, <3>3 DEF TypeOK
<1>3. CASE ConnectionProcessTimer
  <2>1. navWarning' \in BOOLEAN /\ extGps' \in BOOLEAN
    BY <1>3 DEF ConnectionProcessTimer
  <2>2. waiting' \in BOOLEAN
    BY <1>3 DEF ConnectionProcessTimer, TypeOK
  <2>3. runs' \in 0 .. Reset - 1 /\ pc' \in {"idle", "timeout", "forced"}
    BY <1>3 DEF ConnectionProcessTimer, TypeOK
  <2>4. /\ UNCHANGED <<enabled, hb, heard, connected, valid, gga, fix, active, silent,
                       owner, beats, phase, gps>>
        /\ lastGps' = gps /\ force' = FALSE /\ busy' = FALSE
    BY <1>3 DEF ConnectionProcessTimer, parser
  <2>5. QED
    BY <2>1, <2>2, <2>3, <2>4 DEF TypeOK
<1>4. CASE \E why \in {"timeout", "forced"} : RestartCommPorts(why)
  BY <1>4 DEF RestartCommPorts, TypeOK, wishes
<1>5. QED
  BY <1>1, <1>2, <1>3, <1>4 DEF Timer

-----------------------------------------------------------------------------
\* The monitor runs when it is due.
LEMMA TimerStep == TypeOK /\ TimerInv /\ [Next]_vars => TimerInv'
<1> SUFFICES ASSUME TypeOK, TimerInv, [Next]_vars PROVE TimerInv'
  OBVIOUS
<1>1. CASE Data
  <2>1. UNCHANGED <<silent, timer>>
    BY <1>1 DEF Data, Value, RMC, GGA, StreamHeartbeat, StreamReport, Receive
  <2>2. QED
    BY <2>1 DEF timer, TimerInv
<1>2. CASE OnTimer
  BY <1>2 DEF OnTimer, TimerInv, TypeOK
<1>3. CASE UpdateMonitor
  <2>1. pc' = "connect" /\ phase' = 0 /\ beats' = beats
    BY <1>3 DEF UpdateMonitor
  <2>2. beats < Startup => silent' = silent
    BY <1>3 DEF UpdateMonitor
  <2>3. phase' < Period
    BY <2>1
  <2>4. QED
    BY <2>1, <2>2, <2>3 DEF TimerInv
<1>4. CASE ConnectionProcessTimer
  BY <1>4 DEF ConnectionProcessTimer, TimerInv
<1>5. CASE \E why \in {"timeout", "forced"} : RestartCommPorts(why)
  BY <1>5 DEF RestartCommPorts, TimerInv
<1>6. CASE UNCHANGED vars
  BY <1>6 DEF vars, timer, TimerInv
<1>7. QED
  BY <1>1, <1>2, <1>3, <1>4, <1>5, <1>6 DEF Next, Timer

\* A message cannot make an old fix be believed: only a valid fix of the active
\* GPS takes the warning away.
LEMMA FixData == TypeOK /\ FixInv /\ Data => FixInv'
<1> SUFFICES ASSUME TypeOK, FixInv, NEW p \in Dev, NEW ok \in BOOLEAN,
                    Value(p) \/ RMC(p, ok) \/ GGA(p, ok)
                      \/ StreamHeartbeat(p, ok) \/ StreamReport(p, ok)
             PROVE  FixInv'
  BY DEF Data
<1>1. UNCHANGED <<active, beats, phase>>
  BY DEF Value, RMC, GGA, StreamHeartbeat, StreamReport, Receive, timer
<1>2. /\ fix' = fix \/ fix' = [fix EXCEPT ![p] = 0]
      /\ \/ navWarning' = navWarning
         \/ navWarning'
         \/ p = active /\ fix' = [fix EXCEPT ![p] = 0]
  BY DEF Value, RMC, GGA, StreamHeartbeat, StreamReport, Fix, parser
<1>3. QED
  <2>1. CASE fix' = [fix EXCEPT ![p] = 0]
    BY <1>1, <1>2, <2>1 DEF FixInv, TypeOK
  <2>2. CASE fix' = fix
    BY <1>1, <1>2, <2>2 DEF FixInv, TypeOK
  <2>3. QED
    BY <1>2, <2>1, <2>2

\* Every step keeps FixInv.
LEMMA FixStep == TypeOK /\ TimerInv /\ FixInv /\ [Next]_vars => FixInv'
<1> SUFFICES ASSUME TypeOK, TimerInv, FixInv, [Next]_vars PROVE FixInv'
  OBVIOUS
<1>1. CASE OnTimer
  <2> SUFFICES ASSUME beats' >= Startup + phase', ~navWarning'
               PROVE  active' \in Dev /\ fix'[active'] <= FixLife + phase'
    BY DEF FixInv
  <2>1. /\ UNCHANGED <<active, navWarning>> /\ phase' = phase + 1
        /\ phase < Period /\ beats >= Startup + phase
    BY <1>1 DEF OnTimer, TimerInv, TypeOK
  <2>2. active \in Dev /\ fix[active] <= FixLife + phase
    BY <2>1 DEF FixInv
  <2>3. fix[active] < MaxAge /\ fix'[active] = Older(fix[active])
    BY <1>1, <2>1, <2>2 DEF OnTimer, TypeOK
  <2>4. QED
    BY <2>1, <2>2, <2>3, OlderAge DEF TypeOK
<1>2. CASE UpdateMonitor
  <2> SUFFICES ASSUME beats' >= Startup + phase', ~navWarning'
               PROVE  active' \in Dev /\ fix'[active'] <= FixLife + phase'
    BY DEF FixInv
  <2>1. beats >= Startup /\ phase' = 0 /\ fix' = fix
    BY <1>2 DEF UpdateMonitor, TypeOK
  <2>2. PICK a \in Candidates, faulty \in BOOLEAN : active' = a /\ Monitor(a, faulty)
    BY <1>2, <2>1 DEF UpdateMonitor, TypeOK
  <2>3. a \in Fresh
    BY <2>2 DEF Monitor
  <2>4. QED
    BY <2>1, <2>2, <2>3 DEF Fresh, TypeOK
<1>3. CASE ConnectionProcessTimer
  BY <1>3 DEF ConnectionProcessTimer, FixInv, parser
<1>4. CASE \E why \in {"timeout", "forced"} : RestartCommPorts(why)
  BY <1>4 DEF RestartCommPorts, FixInv
<1>5. CASE UNCHANGED vars
  BY <1>5 DEF vars, FixInv, parser, timer
<1>6. QED
  BY <1>1, <1>2, <1>3, <1>4, <1>5, FixData DEF Next, Timer

-----------------------------------------------------------------------------
\* Slots whose driver reads the stream have a port of their own.
OwnStream == \A d \in Stream : Master[d] = d

\* A message that stores a value also marks its slot as alive; others leave the
\* owner as it was or hear from it.
LEMMA OwnerData == ASSUME OwnStream PROVE TypeOK /\ OwnerInv /\ Data => OwnerInv'
<1> SUFFICES ASSUME TypeOK, OwnerInv, NEW p \in Dev, NEW ok \in BOOLEAN,
                    Value(p) \/ RMC(p, ok) \/ GGA(p, ok)
                      \/ StreamHeartbeat(p, ok) \/ StreamReport(p, ok)
             PROVE  OwnerInv'
  BY DEF Data
<1>1. PICK line \in BOOLEAN : Receive(p, line) /\ (line \/ HasStream(p))
  BY DEF Value, RMC, GGA, StreamHeartbeat, StreamReport
<1>2. UNCHANGED <<enabled, silent, beats, phase>> /\ p \in enabled
  BY <1>1 DEF Receive, timer
<1>3. hb' = [hb EXCEPT ![p] = 0] /\ heard' = [heard EXCEPT ![p] = 0]
  <2>1. ~line => p \in Stream \cap enabled /\ Master[p] = p
    BY <1>1 DEF HasStream, OwnStream, TypeOK
  <2>2. \A d \in Stream \cap enabled : Master[d] = p => d = p
    BY DEF OwnStream, TypeOK
  <2>3. \A d \in Dev : ((d = p /\ line) \/ (d \in Stream \cap enabled /\ Master[d] = p))
                          <=> d = p
    BY <2>1, <2>2
  <2>4. QED
    BY <1>1, <2>3 DEF Receive, TypeOK
<1>4. owner' = owner \/ owner' = p
  BY DEF Value, RMC, GGA, StreamHeartbeat, StreamReport, Update
<1>5. QED
  <2> SUFFICES ASSUME owner' # NoSlot PROVE OwnerInv'
    BY DEF OwnerInv
  <2>1. CASE owner' = p
    BY <1>2, <1>3, <2>1 DEF OwnerInv, TypeOK
  <2>2. CASE owner' = owner /\ owner # p
    <3>1. hb'[owner] = hb[owner] /\ heard'[owner] = heard[owner]
      BY <1>3, <2>2 DEF TypeOK
    <3>2. QED
      BY <1>2, <2>2, <3>1 DEF OwnerInv
  <2>3. QED
    BY <1>4, <2>1, <2>2

\* Every step keeps OwnerInv.
LEMMA OwnerStep ==
  ASSUME OwnStream
  PROVE  TypeOK /\ TimerInv /\ OwnerInv /\ [Next]_vars => OwnerInv'
<1> SUFFICES ASSUME TypeOK, TimerInv, OwnerInv, [Next]_vars PROVE OwnerInv'
  OBVIOUS
<1>1. CASE OnTimer
  <2> SUFFICES ASSUME owner # NoSlot PROVE OwnerInv'
    BY <1>1 DEF OnTimer, OwnerInv
  <2>1. /\ UNCHANGED <<owner, enabled, silent>> /\ phase' = phase + 1
        /\ phase < Period /\ phase \in Int /\ Silence \in Int /\ owner \in Dev
        /\ beats' >= Startup + phase' => beats >= Startup + phase
    BY <1>1 DEF OnTimer, TimerInv, TypeOK
  <2>2. /\ owner \in enabled /\ hb[owner] \in Age /\ heard[owner] \in Age
        /\ heard[owner] <= hb[owner]
        /\ beats >= Startup + phase => hb[owner] <= Silence + phase
        /\ owner \in silent => hb[owner] <= phase
    BY <2>1 DEF OwnerInv, TypeOK
  <2>3. /\ hb'[owner] = Older(hb[owner]) /\ heard'[owner] = Older(heard[owner])
    BY <1>1, <2>1, <2>2 DEF OnTimer
  <2>4. hb'[owner] \in Age /\ heard'[owner] <= hb'[owner] /\ hb'[owner] <= hb[owner] + 1
    BY <2>2, <2>3 DEF Older
  <2>5. QED
    <3>1. hb'[owner] # Never
      BY <2>4
    <3>2. beats' >= Startup + phase' => hb'[owner] <= Silence + phase'
      BY <2>1, <2>2, <2>4
    <3>3. owner \in silent => hb'[owner] <= phase'
      BY <2>1, <2>2, <2>4
    <3>4. QED
      BY <2>1, <2>2, <2>4, <3>1, <3>2, <3>3 DEF OwnerInv
<1>2. CASE UpdateMonitor
  <2>1. /\ UNCHANGED <<enabled, hb, heard, beats>> /\ phase = Period /\ phase' = 0
    BY <1>2 DEF UpdateMonitor, TimerInv
  <2>2. CASE beats < Startup
    <3>1. UNCHANGED <<owner, silent>> /\ silent = {}
      BY <1>2, <2>2 DEF UpdateMonitor, TimerInv
    <3>2. QED
      BY <2>1, <2>2, <3>1 DEF OwnerInv, TypeOK
  <2>3. CASE ~(beats < Startup)
    <3> SUFFICES ASSUME owner' # NoSlot PROVE OwnerInv'
      BY DEF OwnerInv
    <3>1. PICK a \in Candidates, faulty \in BOOLEAN : Monitor(a, faulty)
      BY <1>2, <2>3 DEF UpdateMonitor
    <3>2. /\ owner' = owner /\ owner \in Dev /\ owner \notin Expired \ silent
          /\ silent' = (silent \ {d \in enabled : hb[d] # Never}) \cup Expired
      BY <3>1 DEF Monitor, TypeOK
    <3>3. owner \in enabled /\ hb[owner] # Never /\ heard[owner] <= hb[owner]
      BY <3>2 DEF OwnerInv
    <3>4. owner \notin Expired
      BY <2>1, <3>2, <3>3 DEF OwnerInv, Expired, TypeOK
    <3>5. hb[owner] <= Silence /\ owner \notin silent'
      BY <3>2, <3>3, <3>4 DEF Expired, TypeOK
    <3>6. QED
      BY <2>1, <3>2, <3>3, <3>5 DEF OwnerInv
  <2>4. QED
    BY <2>2, <2>3
<1>3. CASE ConnectionProcessTimer
  BY <1>3 DEF ConnectionProcessTimer, OwnerInv
<1>4. CASE \E why \in {"timeout", "forced"} : RestartCommPorts(why)
  BY <1>4 DEF RestartCommPorts, OwnerInv
<1>5. CASE UNCHANGED vars
  BY <1>5 DEF vars, OwnerInv, timer
<1>6. QED
  BY <1>1, <1>2, <1>3, <1>4, <1>5, OwnerData DEF Next, Timer

-----------------------------------------------------------------------------
\* The types and the beat of the monitor.
LEMMA TypeInductive == Spec => [](TypeOK /\ TimerInv)
<1>1. Init => TypeOK /\ TimerInv
  BY InitInductive DEF IInv
<1>2. TypeOK /\ TimerInv /\ [Next]_vars => TypeOK'
  <2> SUFFICES ASSUME TypeOK, TimerInv, [Next]_vars PROVE TypeOK'
    OBVIOUS
  <2>1. CASE UNCHANGED vars
    BY <2>1 DEF vars, TypeOK, parser, timer, wishes
  <2>2. QED
    BY <2>1, DataType, TimerType DEF Next
<1>3. QED
  BY <1>1, <1>2, TimerStep, PTL DEF Spec

\* Every variable keeps its type; in particular no disabled slot is connected
\* or has a fix (TypeOK).
THEOREM TypeCorrect == Spec => []TypeOK
BY TypeInductive, PTL

\* Navigation never goes on without a warning on a fix that the active GPS
\* has not confirmed for FixLife + Period heartbeats (NoStaleFix): it holds
\* however ports are shared.
THEOREM FixIsFresh == Spec => []NoStaleFix
<1>1. Init => FixInv
  BY InitInductive DEF IInv
<1>2. Spec => []FixInv
  BY <1>1, TypeInductive, FixStep, PTL DEF Spec
<1>3. TypeOK /\ FixInv => NoStaleFix
  <2> SUFFICES ASSUME TypeOK, FixInv, beats >= Startup + Period, ~navWarning
               PROVE  active \in Dev /\ fix[active] <= FixLife + Period
    BY DEF NoStaleFix
  <2>1. beats >= Startup + phase /\ phase <= Period
    BY DEF TypeOK
  <2>2. active \in Dev /\ fix[active] <= FixLife + phase
    BY <2>1 DEF FixInv
  <2>3. QED
    BY <2>1, <2>2 DEF TypeOK
<1>4. QED
  BY <1>2, <1>3, TypeInductive, PTL

\* Silence is worn down run by run.
LEMMA UntilFollowing ==
  ASSUME NEW r \in 0 .. Reset - 1
  PROVE  /\ Following(r) \in 0 .. Reset - 1
         /\ Until(r) \in 1 .. Reset
         /\ r # 0 => Until(Following(r)) = Until(r) - 1
         /\ Until(r) <= 1 + Until(Following(r))
BY DEF Following, Until

LEMMA PatienceRange == TypeOK => Patience \in 1 .. Reset + 2
<1> SUFFICES ASSUME TypeOK PROVE Patience \in 1 .. Reset + 2
  OBVIOUS
<1>1. NextRun \in 0 .. Reset - 1
  BY UntilFollowing DEF NextRun, TypeOK
<1>2. Following(NextRun) \in 0 .. Reset - 1
  BY <1>1, UntilFollowing
<1>3. Following(Following(NextRun)) \in 0 .. Reset - 1
  BY <1>2, UntilFollowing
<1>4. /\ Until(NextRun) \in 1 .. Reset
      /\ Until(Following(NextRun)) \in 1 .. Reset
      /\ Until(Following(Following(NextRun))) \in 1 .. Reset
  BY <1>1, <1>2, <1>3, UntilFollowing
<1>5. QED
  BY <1>4 DEF Patience

\* Between two runs of ConnectionProcessTimer nothing changes.
LEMMA PatienceKept ==
  ASSUME TypeOK, Data \/ OnTimer \/ UpdateMonitor \/ UNCHANGED vars
                 \/ \E why \in {"timeout", "forced"} : RestartCommPorts(why)
  PROVE  Patience' = Patience /\ ~(pc = "connect" /\ pc' # "connect")
<1>1. UNCHANGED <<lastGps, waiting>>
  BY DEF Data, Value, RMC, GGA, StreamHeartbeat, StreamReport, Receive, OnTimer,
         UpdateMonitor, RestartCommPorts, vars, timer
<1>2. NextRun' = NextRun /\ ~(pc = "connect" /\ pc' # "connect")
  <2>1. CASE UpdateMonitor
    BY <2>1 DEF UpdateMonitor, NextRun, Following
  <2>2. CASE OnTimer
    BY <2>2 DEF OnTimer, NextRun, Following
  <2>3. CASE \E why \in {"timeout", "forced"} : RestartCommPorts(why)
    BY <2>3 DEF RestartCommPorts, NextRun, Following
  <2>4. CASE Data \/ UNCHANGED vars
    <3>1. UNCHANGED timer
      BY <2>4 DEF Data, Value, RMC, GGA, StreamHeartbeat, StreamReport, Receive, vars
    <3>2. QED
      BY <3>1 DEF timer, NextRun, Following
  <2>5. QED
    BY <2>1, <2>2, <2>3, <2>4
<1>3. Patience' = Patience
  BY <1>1, <1>2 DEF Patience, Until, Following
<1>4. QED
  BY <1>2, <1>3

\* A run without a GPS brings the restart, or brings it nearer.
LEMMA PatienceWanes ==
  ASSUME TypeOK, ConnectionProcessTimer, ~gps, ~busy, enabled # {},
         pc' \notin {"timeout", "forced"}
  PROVE  Patience' < Patience
<1>1. /\ pc = "connect" /\ pc' = "idle" /\ ~TimedOut /\ ~lastGps'
      /\ runs' = runs /\ waiting' = (waiting \/ ~lastGps)
      /\ runs \in 0 .. Reset - 1
  BY DEF ConnectionProcessTimer, TypeOK
<1>2. NextRun = runs /\ NextRun' = Following(runs)
  BY <1>1 DEF NextRun, Following
<1>3. Following(runs) \in 0 .. Reset - 1
  BY <1>1, UntilFollowing
<1>4. /\ Until(runs) \in 1 .. Reset
      /\ Until(Following(runs)) \in 1 .. Reset
      /\ runs # 0 => Until(Following(runs)) = Until(runs) - 1
  BY <1>1, <1>3, UntilFollowing
<1>5. CASE lastGps
  <2>1. /\ Following(Following(runs)) \in 0 .. Reset - 1
        /\ Until(Following(Following(runs))) \in 1 .. Reset
        /\ Until(Following(runs)) <= 1 + Until(Following(Following(runs)))
    BY <1>3, UntilFollowing
  <2>2. Patience = 2 + Until(Following(Following(runs)))
    BY <1>2, <1>5 DEF Patience
  <2>3. Patience' = IF waiting THEN Until(Following(runs))
                    ELSE 1 + Until(Following(Following(runs)))
    BY <1>1, <1>2, <1>5 DEF Patience, Until, Following
  <2>4. QED
    BY <1>4, <2>1, <2>2, <2>3
<1>6. CASE ~lastGps
  <2>1. Patience' = Until(Following(runs))
    BY <1>1, <1>2, <1>6 DEF Patience, Until, Following
  <2>2. CASE waiting
    <3>1. runs # 0 /\ Patience = Until(runs)
      BY <1>1, <1>2, <1>6, <2>2 DEF TimedOut, Patience
    <3>2. QED
      BY <1>4, <2>1, <3>1
  <2>3. CASE ~waiting
    <3>1. Patience = 1 + Until(Following(runs))
      BY <1>2, <1>6, <2>3 DEF Patience
    <3>2. QED
      BY <1>4, <2>1, <3>1
  <2>4. QED
    BY <2>2, <2>3
<1>7. QED
  BY <1>5, <1>6

\* Ports that stay silent are restarted within Reset + 2 runs of the monitor
\* (RestartNears), for any intervals and however GPS were found and lost before.
THEOREM SilenceEnds == Spec => RestartNears
<1> DEFINE due == pc = "connect" /\ pc' # "connect"
           met == due /\ pc' \in {"timeout", "forced"}
           Nears == /\ Patience \in 1 .. Reset + 2
                    /\ due /\ ~gps /\ ~busy /\ enabled # {} => met \/ Patience' < Patience
                    /\ Patience' > Patience =>
                          met \/ (due /\ (gps \/ busy \/ enabled = {}))
<1>1. TypeOK /\ TypeOK' /\ [Next]_vars => Nears
  <2> SUFFICES ASSUME TypeOK, TypeOK', [Next]_vars PROVE Nears
    OBVIOUS
  <2>1. Patience \in 1 .. Reset + 2 /\ Patience' \in 1 .. Reset + 2
    <3>1. (Patience \in 1 .. Reset + 2)'
      BY PatienceRange, PTL
    <3>2. QED
      BY <3>1, PatienceRange
  <2>2. CASE ConnectionProcessTimer
    <3>1. due
      BY <2>2 DEF ConnectionProcessTimer
    <3>2. ~gps /\ ~busy /\ enabled # {} => met \/ Patience' < Patience
      BY <2>2, <3>1, PatienceWanes
    <3>3. QED
      BY <2>1, <3>1, <3>2
  <2>3. CASE ~ConnectionProcessTimer
    <3>1. Patience' = Patience /\ ~due
      BY <2>3, PatienceKept DEF Next, Timer
    <3>2. QED
      BY <2>1, <3>1
  <2>4. QED
    BY <2>2, <2>3
<1>2. QED
  BY <1>1, TypeInductive, PTL DEF Spec, RestartNears

\* The inductive invariant behind both expiries (IInv), provided that a driver
\* that reads the byte stream has a port of its own.
THEOREM Strengthening == ASSUME OwnStream PROVE Spec => []IInv
<1>1. Init => FixInv /\ OwnerInv
  BY InitInductive DEF IInv
<1>2. TypeOK /\ TimerInv /\ OwnerInv /\ [Next]_vars => OwnerInv'
  BY OwnerStep
<1>3. Spec => [](FixInv /\ OwnerInv)
  BY <1>1, <1>2, TypeInductive, FixStep, PTL DEF Spec
<1>4. FixInv /\ OwnerInv /\ TimerInv => IInv
  BY DEF IInv
<1>5. QED
  BY <1>3, <1>4, TypeInductive, PTL

\* No value outlives the silence of its device by more than one run of the
\* monitor (ValueExpires), provided that a driver that reads the byte stream
\* has a port of its own.
THEOREM ValuesExpire == ASSUME OwnStream PROVE Spec => []ValueExpires
<1>1. Init => OwnerInv
  BY InitInductive DEF IInv
<1>2. TypeOK /\ TimerInv /\ OwnerInv /\ [Next]_vars => OwnerInv'
  BY OwnerStep
<1>3. Spec => []OwnerInv
  BY <1>1, <1>2, TypeInductive, PTL DEF Spec
<1>4. TypeOK /\ OwnerInv => ValueExpires
  <2> SUFFICES ASSUME TypeOK, OwnerInv, beats >= Startup + Period, owner # NoSlot
               PROVE  owner \in enabled /\ heard[owner] <= Silence + Period
    BY DEF ValueExpires
  <2>1. beats >= Startup + phase /\ phase <= Period /\ owner \in Dev
    BY DEF TypeOK
  <2>2. /\ owner \in enabled /\ hb[owner] # Never
        /\ heard[owner] <= hb[owner] /\ hb[owner] <= Silence + phase
    BY <2>1 DEF OwnerInv
  <2>3. QED
    BY <2>1, <2>2 DEF TypeOK
<1>5. QED
  BY <1>3, <1>4, TypeInductive, PTL
===============================================================================
