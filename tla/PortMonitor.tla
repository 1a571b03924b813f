------------------------------ MODULE PortMonitor ------------------------------
(***************************************************************************)
(* Which device LK8000 believes, and for how long.                         *)
(*                                                                         *)
(*  - Receive threads hand what the ports receive to the parsers, which    *)
(*    note that the slot is alive (HB, in heartbeats of the 2 Hz timer),   *)
(*    whether it is a GPS and whether it has a fix, and store values that  *)
(*    belong to the slot they came from (from_device_data).                *)
(*  - The main thread's timer counts heartbeats; every Period of them it   *)
(*    chooses the active GPS and takes away what silent devices left       *)
(*    behind (UpdateMonitor), then decides whether to restart the ports    *)
(*    (ConnectionProcessTimer).                                            *)
(*                                                                         *)
(* Both work under CritSec_Comm, so that a message and UpdateMonitor are   *)
(* one action each; messages come between the steps of the timer.          *)
(* Time is counted in heartbeats; ages stop at MaxAge.                     *)
(***************************************************************************)
EXTENDS Integers

CONSTANTS
    NumDev,    \* NUMDEV
    Master,    \* the slot whose port a slot uses: SharedPortNum, or itself
    Stream,    \* slots whose driver reads the byte stream (ParseStream)
    Period,    \* heartbeats between two runs of UpdateMonitor: 10
    Silence,   \* a slot has expired after more heartbeats than this: 10
    FixLife,   \* a fix is too old after more than this: 6 s, 12 heartbeats
    Recent,    \* port_with_data: fewer heartbeats than this, 10
    Startup,   \* no monitoring in the first heartbeats: 20
    Reset,     \* ports are restarted at every Reset-th run: 90 / 10
    MaxAge     \* bound: older ages are not told apart

Dev    == 0 .. NumDev - 1
NoSlot == NumDev      \* the invalid index of default_device_priority_index
Never  == -1          \* HB is 0: no data since the slot was initialised

ASSUME PortMonitorAssumption ==
    /\ NumDev \in Nat \ {0} /\ Reset \in Nat \ {0} /\ Period \in Nat \ {0}
    /\ Silence \in Nat /\ FixLife \in Nat /\ Recent \in Nat /\ Startup \in Nat
    /\ Master \in [Dev -> Dev] /\ Stream \subseteq Dev
    /\ \A d \in Dev : Master[Master[d]] = Master[d] /\ Master[d] <= d
    /\ Period <= Silence
    /\ MaxAge \in Nat /\ MaxAge > FixLife + Period /\ MaxAge > Silence + Period

VARIABLES
    enabled,    \* slots that are not DeviceDescriptor_t::Disabled
    hb,         \* heartbeats since DeviceDescriptor_t::HB was set, or Never
    heard,      \* heartbeats since the port of the slot received anything
    connected,  \* slots with NMEAParser::connected
    valid,      \* slots with NMEAParser::gpsValid
    gga,        \* slots with NMEAParser::GGAAvailable
    fix,        \* age of NMEAParser::lastGpsValid
    active,     \* the slot with NMEAParser::activeGPS, or NoSlot
    silent,     \* wasSilent of UpdateMonitor
    navWarning, \* GPS_INFO.NAVWarning
    owner,      \* the device a value of GPS_INFO is from, or NoSlot
    beats,      \* LKHearthBeats, up to Startup + Period
    phase,      \* heartbeats since UpdateMonitor ran: itimeout % Period
    runs,       \* (itimeout / Period) % Reset
    pc,         \* what the timer is doing
    gps,        \* gpsconnect
    lastGps,    \* s_lastGpsConnect
    waiting,    \* s_connectWait
    extGps,     \* extGPSCONNECT
    force,      \* LKForceComPortReset, as ConnectionProcessTimer finds it
    busy        \* LKDoNotResetComms or MenuActive, likewise

parser == <<connected, valid, gga, fix>>
timer  == <<beats, phase, runs, pc, gps, lastGps, waiting, extGps>>
wishes == <<force, busy>>
vars   == <<enabled, hb, heard, parser, active, silent, navWarning, owner,
            timer, wishes>>

Age == 0 .. MaxAge

TypeOK ==
    /\ enabled \in SUBSET Dev
    /\ hb \in [Dev -> Age \cup {Never}] /\ heard \in [Dev -> Age]
    /\ connected \in SUBSET enabled /\ valid \in SUBSET enabled
    /\ gga \in SUBSET enabled
    /\ fix \in [Dev -> Age]
    /\ active \in Dev \cup {NoSlot} /\ owner \in Dev \cup {NoSlot}
    /\ silent \in SUBSET Dev
    /\ beats \in 1 .. Startup + Period
    /\ phase \in 0 .. Period /\ runs \in 0 .. Reset - 1
    /\ pc \in {"idle", "monitor", "connect", "timeout", "forced"}
    /\ navWarning \in BOOLEAN /\ gps \in BOOLEAN /\ lastGps \in BOOLEAN
    /\ waiting \in BOOLEAN /\ extGps \in BOOLEAN
    /\ force \in BOOLEAN /\ busy \in BOOLEAN

\* devInit has run (lk8000.cpp), the timer has run since the start-up dialog,
\* and the first ProcessTimer (itimeout = -1) is about to run UpdateMonitor.
Init ==
    /\ enabled \in SUBSET Dev /\ \A d \in enabled : Master[d] \in enabled
    /\ hb = [d \in Dev |-> Never] /\ heard = [d \in Dev |-> MaxAge]
    /\ connected = {} /\ valid = {} /\ gga = {} /\ fix = [d \in Dev |-> MaxAge]
    /\ active = NoSlot /\ silent = {} /\ navWarning = TRUE /\ owner = NoSlot
    /\ beats \in 1 .. Startup + Period
    /\ phase = Period - 1 /\ runs = Reset - 1 /\ pc = "idle"
    /\ gps = FALSE /\ lastGps = FALSE /\ waiting = FALSE /\ extGps = FALSE
    /\ force = FALSE /\ busy = FALSE

-----------------------------------------------------------------------------
(* A receive thread: devParseStream, devParseNMEA, and the parsers.        *)

\* Data came on the port of slot p.  A sentence (line) marks p as alive; the
\* byte stream marks the slots on that port whose drivers read the stream.
Receive(p, line) ==
    /\ p \in enabled /\ Master[p] = p
    /\ heard' = [heard EXCEPT ![p] = 0]
    /\ hb' = [d \in Dev |->
                IF (d = p /\ line) \/ (d \in Stream \cap enabled /\ Master[d] = p)
                THEN 0 ELSE hb[d]]
    /\ UNCHANGED <<enabled, active, silent, timer, wishes>>

With(S, d, b) == IF b THEN S \cup {d} ELSE S \ {d}

\* The parser of slot p learns whether it has a fix.  (lastGpsValid may be reset
\* when it has none: its age matters only while there is one.)
Fix(p, ok) ==
    /\ connected' = connected \cup {p}
    /\ valid' = With(valid, p, ok)
    /\ fix' = IF ok THEN [fix EXCEPT ![p] = 0] ELSE fix

RMC(p, ok) ==
    /\ Receive(p, TRUE) /\ Fix(p, ok)
    /\ navWarning' = IF p = active /\ (p \notin gga \/ ~ok) THEN ~ok ELSE navWarning
    /\ UNCHANGED <<gga, owner>>

GGA(p, ok) ==
    /\ Receive(p, TRUE) /\ Fix(p, ok)
    /\ gga' = gga \cup {p}
    /\ navWarning' = IF p = active THEN ~ok ELSE navWarning
    /\ UNCHANGED owner

\* from_device_data::update: lower slots have priority.
Update(p) == owner' = IF owner >= p THEN p ELSE owner

\* A sentence with a value and no position.
Value(p) ==
    /\ Receive(p, TRUE) /\ Update(p)
    /\ UNCHANGED <<parser, navWarning>>

\* The stream drivers on p's port act for slot p (GDL90): heartbeats with the
\* state of the fix, and reports of the own position with values.
HasStream(p) == \E d \in Stream \cap enabled : Master[d] = p

StreamHeartbeat(p, ok) ==
    /\ HasStream(p) /\ Receive(p, FALSE) /\ Fix(p, ok)
    /\ UNCHANGED <<gga, navWarning, owner>>

StreamReport(p, ok) ==
    /\ HasStream(p) /\ Receive(p, FALSE) /\ Fix(p, ok)
    /\ navWarning' = IF p = active THEN ~ok ELSE navWarning
    /\ Update(p)
    /\ UNCHANGED gga

-----------------------------------------------------------------------------
(* The main thread. *)

Older(a) == IF a < MaxAge THEN a + 1 ELSE a

\* WndMain::OnTimer and ProcessTimer: LKHearthBeats and itimeout advance.  When
\* the monitor is due, the user may have asked for a restart, or be in a menu.
OnTimer ==
    /\ pc = "idle"
    /\ hb' = [d \in Dev |-> IF hb[d] = Never THEN Never ELSE Older(hb[d])]
    /\ heard' = [d \in Dev |-> Older(heard[d])]
    /\ fix' = [d \in Dev |-> Older(fix[d])]
    /\ beats' = IF beats < Startup + Period THEN beats + 1 ELSE beats
    /\ phase' = phase + 1
    /\ IF phase + 1 = Period
       THEN pc' = "monitor" /\ force' \in BOOLEAN /\ busy' \in BOOLEAN
       ELSE pc' = "idle" /\ UNCHANGED wishes
    /\ UNCHANGED <<enabled, connected, valid, gga, active, silent, navWarning, owner,
                   runs, gps, lastGps, waiting, extGps>>

\* Mutant of Fresh: check_gps_valid is not called.
Fresh_Unchecked == valid

\* Slots with a fix after check_gps_valid.
Fresh == {d \in valid : fix[d] <= FixLife}

\* The candidates for the active GPS, best kind first.
Candidates ==
    LET withData == {d \in enabled : (IF hb[d] = Never THEN beats ELSE hb[d]) < Recent}
    IN  IF Fresh # {} THEN Fresh
        ELSE IF connected # {} THEN connected
        ELSE IF withData # {} THEN withData
        ELSE IF enabled # {} THEN enabled
        ELSE {0}

\* Mutant of Expired: at the boundary a slot is taken for silent too early.
Expired_Early == {d \in enabled : hb[d] # Never /\ hb[d] >= Silence}

\* Slots that have received something, but not lately (Expired).
Expired == {d \in enabled : hb[d] # Never /\ hb[d] > Silence}

\* The parsers of the slots in gone are reset (NMEAParser::Reset).
ResetParsers(gone) ==
    /\ connected' = connected \ gone
    /\ valid' = Fresh \ gone
    /\ gga' = gga \ gone

\* The monitoring proper.  A slot just gone silent loses its fix and its
\* values.  A baro altitude found faulty resets every parser and every value; a
\* change of the active GPS resets the values.
Monitor(a, faulty) ==
    LET gone == (Expired \ silent) \cup (Expired \cap Fresh \cap {a})
    IN  /\ navWarning' = (navWarning \/ a \notin connected \cap Fresh)
        /\ faulty => ~navWarning'
        /\ ResetParsers(IF faulty THEN Dev ELSE gone)
        /\ owner' = IF faulty \/ a # active \/ a \notin enabled \/ owner \in Expired \ silent
                    THEN NoSlot ELSE owner
        /\ silent' = (silent \ {d \in enabled : hb[d] # Never}) \cup Expired

\* UpdateMonitor, under CritSec_Comm from end to end.
UpdateMonitor ==
    /\ pc = "monitor" /\ pc' = "connect"
    /\ phase' = 0 /\ runs' = IF runs + 1 = Reset THEN 0 ELSE runs + 1
    /\ \E a \in Candidates :
          /\ \A d \in Candidates : a <= d
          /\ active' = a
          /\ IF beats < Startup
             THEN ResetParsers({}) /\ UNCHANGED <<navWarning, owner, silent>>
             ELSE \E faulty \in BOOLEAN : Monitor(a, faulty)
    /\ gps' = (active' \in connected')
    /\ UNCHANGED <<enabled, hb, heard, fix, beats, lastGps, waiting, extGps, wishes>>

\* Mutant of TimedOut: the branches that set and that test s_connectWait are
\* swapped.
TimedOut_Swapped == ~gps /\ ~lastGps /\ ~waiting /\ runs = 0 /\ ~busy

\* No GPS in this run and the one before, known for a run, and itimeout is a
\* multiple of 90.
TimedOut == ~gps /\ ~lastGps /\ waiting /\ runs = 0 /\ ~busy

\* The rest of ConnectionProcessTimer.
ConnectionProcessTimer ==
    /\ pc = "connect"
    /\ LET restart == TimedOut /\ enabled # {}
           ext     == extGps \/ gps
       IN  /\ navWarning' = (navWarning \/ ~ext)
           /\ extGps' = (ext /\ ~restart /\ (gps \/ lastGps \/ waiting))
           /\ pc' = IF force THEN "forced" ELSE IF restart THEN "timeout" ELSE "idle"
    /\ waiting' = IF gps /\ ~lastGps THEN FALSE
                  ELSE waiting \/ (~gps /\ ~lastGps)
    /\ runs' = IF TimedOut \/ (gps /\ ~lastGps) THEN 0 ELSE runs
    /\ lastGps' = gps
    /\ force' = FALSE /\ busy' = FALSE
    /\ UNCHANGED <<enabled, hb, heard, parser, active, silent, owner, beats, phase, gps>>

\* Mutant of RestartCommPorts: the parsers are not reset with their slots.
RestartCommPorts_KeepsParsers(why) ==
    /\ pc = why /\ pc' = "idle"
    /\ \E E \in IF why = "timeout" THEN {enabled} ELSE SUBSET Dev :
          /\ \A d \in E : Master[d] \in E
          /\ enabled' = E
    /\ hb' = [d \in Dev |-> Never]
    /\ owner' = NoSlot
    /\ UNCHANGED <<heard, parser, active, silent, navWarning, beats, phase, runs,
                   gps, lastGps, waiting, extGps, wishes>>

\* RestartCommPorts (see DeviceList): every slot is reset; after a change of
\* the configuration other slots may be enabled.
RestartCommPorts(why) ==
    /\ pc = why /\ pc' = "idle"
    /\ \E E \in IF why = "timeout" THEN {enabled} ELSE SUBSET Dev :
          /\ \A d \in E : Master[d] \in E
          /\ enabled' = E
    /\ hb' = [d \in Dev |-> Never]
    /\ connected' = {} /\ valid' = {} /\ gga' = {}
    /\ owner' = NoSlot
    /\ UNCHANGED <<heard, fix, active, silent, navWarning, beats, phase, runs,
                   gps, lastGps, waiting, extGps, wishes>>

-----------------------------------------------------------------------------
Data ==
    \E p \in Dev :
        \/ Value(p)
        \/ \E ok \in BOOLEAN :
              RMC(p, ok) \/ GGA(p, ok) \/ StreamHeartbeat(p, ok) \/ StreamReport(p, ok)

Timer ==
    \/ OnTimer \/ UpdateMonitor \/ ConnectionProcessTimer
    \/ \E why \in {"timeout", "forced"} : RestartCommPorts(why)

Next == Data \/ Timer

Spec == Init /\ [][Next]_vars

\* The timer never stops; data need not come.
FairSpec == Spec /\ WF_vars(Timer)

-----------------------------------------------------------------------------
(* Safety. *)

\* Navigation never goes on without a warning when the active GPS has reported
\* no valid fix for longer than a fix lives plus one run of the monitor:
\* whatever the mix of sentences, changes of the active device and restarts.
NoStaleFix ==
    beats >= Startup + Period /\ ~navWarning =>
        active \in Dev /\ fix[active] <= FixLife + Period

\* No value outlives the silence of the device it is from by more than one run
\* of the monitor, though each silence is acted on once only (wasSilent): a
\* device that wakes up and falls silent again is noticed again.
ValueExpires ==
    beats >= Startup + Period /\ owner # NoSlot =>
        owner \in enabled /\ heard[owner] <= Silence + Period

-----------------------------------------------------------------------------
(* The inductive invariants behind the two.                                *)

\* The monitor runs every Period heartbeats and never before Startup.
TimerInv ==
    /\ IF pc = "monitor" THEN phase = Period ELSE phase < Period
    /\ beats < Startup => silent = {}

\* A fix that is believed was at most FixLife old when the monitor last ran.
FixInv ==
    beats >= Startup + phase /\ ~navWarning =>
        active \in Dev /\ fix[active] <= FixLife + phase

\* The owner of a value had not expired when the monitor last ran; if it was
\* known to be silent then, it has been heard of since.
OwnerInv ==
    owner # NoSlot =>
        /\ owner \in enabled /\ hb[owner] # Never
        /\ heard[owner] <= hb[owner]
        /\ beats >= Startup + phase => hb[owner] <= Silence + phase
        /\ owner \in silent => hb[owner] <= phase

IInv == TimerInv /\ FixInv /\ OwnerInv

-----------------------------------------------------------------------------
(* How soon silent ports are restarted.                                    *)

\* runs after the next UpdateMonitor, and where the next ConnectionProcessTimer
\* finds it.
Following(r) == IF r + 1 = Reset THEN 0 ELSE r + 1
NextRun == IF pc = "connect" THEN runs ELSE Following(runs)

\* Runs of the monitor up to the next one that may restart the ports, from one
\* that finds runs = r.
Until(r) == IF r = 0 THEN 1 ELSE Reset - r + 1

\* Runs without a GPS that bring the restart: the first and the second only set
\* s_lastGpsConnect and s_connectWait.
Patience ==
    IF lastGps THEN 2 + Until(Following(Following(NextRun)))
    ELSE IF waiting THEN Until(NextRun)
    ELSE 1 + Until(Following(NextRun))

\* However GPS were found and lost before, ports that stay silent are restarted
\* within Reset + 2 runs of the monitor (110 heartbeats, 55 s): every run
\* without a GPS brings the restart nearer, and nothing else puts it off but a
\* GPS, a restart, the user in a menu, and slots that are all disabled.
RestartNears ==
    [][LET due == pc = "connect" /\ pc' # "connect"
           met == due /\ pc' \in {"timeout", "forced"}
       IN  /\ Patience \in 1 .. Reset + 2
           /\ due /\ ~gps /\ ~busy /\ enabled # {} => met \/ Patience' < Patience
           /\ Patience' > Patience => met \/ (due /\ (gps \/ busy \/ enabled = {}))]_vars

-----------------------------------------------------------------------------
(* Liveness. *)

\* Silent ports are restarted again and again, unless the user is in a menu.
KeepsRestarting ==
    []<>(\/ pc \in {"timeout", "forced"}
         \/ busy \/ enabled = {}
         \/ \E d \in Dev : heard[d] = 0)
===============================================================================
