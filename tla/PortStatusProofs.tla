--------------------------- MODULE PortStatusProofs ---------------------------
(***************************************************************************)
(* Proofs of the safety properties of PortStatus, with or without spurious *)
(* wake-ups.                                                               *)
(***************************************************************************)
EXTENDS PortStatus, TLAPS

USE DEF bridge, local, flags, vars, NotifyOne, StatusStep

\* The initial states.
LEMMA InitInductive == Init => TypeOK /\ IInv
BY DEF Init, TypeOK, FlagsOK, ThreadsOK, RxStates, StStates, MainStates,
       IInv, NoLostWakeup, LinkInv, UpInv, ToldInv

\* Every flag stays a Boolean.
LEMMA FlagsStep == TypeOK /\ IInv /\ [Next]_vars => FlagsOK'
<1> SUFFICES ASSUME TypeOK, IInv, [Next]_vars PROVE FlagsOK'
  OBVIOUS
<1> USE DEF TypeOK, IInv, FlagsOK
<1>1. CASE Java
  BY <1>1 DEF Java, LinkChanges, LinkChangesSilently, PortStateChanged, DataReceived
<1>2. CASE RxTake \/ RxEnd \/ RxProcessed
  BY <1>2 DEF RxTake, RxEnd, RxProcessed
<1>3. CASE RxDecide
  BY <1>3 DEF RxDecide
<1>4. CASE NotifyConnected \/ WakeConnected \/ PostConnected
  BY <1>4 DEF NotifyConnected, WakeConnected, PostConnected
<1>5. CASE NotifyDisconnected \/ WakeDisconnected
  BY <1>5 DEF NotifyDisconnected, WakeDisconnected
<1>6. CASE Status
  BY <1>6 DEF Status, StLoop, StReport, StStopped, StExpire, StSpurious
<1>7. CASE Declare
  BY <1>7 DEF Declare, StopRxThread, JoinedRxThread, StartRxThread
<1>8. CASE ClosePort
  BY <1>8 DEF ClosePort, Close, StopStatus, WakeStop, JoinStatus, DeletePort
<1>9. CASE UNCHANGED vars
  BY <1>9
<1>10. QED
  BY <1>1, <1>2, <1>3, <1>4, <1>5, <1>6, <1>7, <1>8, <1>9 DEF Next, Receive, Ended

\* Every thread is in one of its states.
LEMMA ThreadsStep == TypeOK /\ IInv /\ [Next]_vars => ThreadsOK'
<1> SUFFICES ASSUME TypeOK, IInv, [Next]_vars PROVE ThreadsOK'
  OBVIOUS
<1> USE DEF TypeOK, IInv, ThreadsOK, RxStates, StStates, MainStates
<1>1. CASE Java
  BY <1>1 DEF Java, LinkChanges, LinkChangesSilently, PortStateChanged, DataReceived
<1>2. CASE RxTake \/ RxEnd \/ RxProcessed
  BY <1>2 DEF RxTake, RxEnd, RxProcessed
<1>3. CASE RxDecide
  BY <1>3 DEF RxDecide
<1>4. CASE NotifyConnected \/ WakeConnected \/ PostConnected
  BY <1>4 DEF NotifyConnected, WakeConnected, PostConnected
<1>5. CASE NotifyDisconnected \/ WakeDisconnected
  BY <1>5 DEF NotifyDisconnected, WakeDisconnected
<1>6. CASE Status
  BY <1>6 DEF Status, StLoop, StReport, StStopped, StExpire, StSpurious
<1>7. CASE Declare
  BY <1>7 DEF Declare, StopRxThread, JoinedRxThread, StartRxThread
<1>8. CASE ClosePort
  BY <1>8 DEF ClosePort, Close, StopStatus, WakeStop, JoinStatus, DeletePort
<1>9. CASE UNCHANGED vars
  BY <1>9
<1>10. QED
  BY <1>1, <1>2, <1>3, <1>4, <1>5, <1>6, <1>7, <1>8, <1>9 DEF Next, Receive, Ended

\* No wake-up is lost.
LEMMA WakeupStep == TypeOK /\ IInv /\ [Next]_vars => NoLostWakeup'
<1> SUFFICES ASSUME TypeOK, IInv, [Next]_vars PROVE NoLostWakeup'
  OBVIOUS
<1> USE DEF TypeOK, IInv, NoLostWakeup, ThreadsOK
<1>1. CASE Java
  BY <1>1 DEF Java, LinkChanges, LinkChangesSilently, PortStateChanged, DataReceived
<1>2. CASE RxTake \/ RxEnd \/ RxProcessed
  BY <1>2 DEF RxTake, RxEnd, RxProcessed
<1>3. CASE RxDecide
  BY <1>3 DEF RxDecide
<1>4. CASE NotifyConnected \/ WakeConnected \/ PostConnected
  BY <1>4 DEF NotifyConnected, WakeConnected, PostConnected
<1>5. CASE NotifyDisconnected \/ WakeDisconnected
  BY <1>5 DEF NotifyDisconnected, WakeDisconnected
<1>6. CASE Status
  BY <1>6 DEF Status, StLoop, StReport, StStopped, StExpire, StSpurious
<1>7. CASE Declare
  <2>1. CASE StopRxThread
    BY <2>1 DEF StopRxThread
  <2>2. CASE JoinedRxThread
    BY <2>2 DEF JoinedRxThread
  <2>3. CASE StartRxThread
    BY <2>3 DEF StartRxThread
  <2>4. QED
    BY <1>7, <2>1, <2>2, <2>3 DEF Declare
<1>8. CASE ClosePort
  BY <1>8 DEF ClosePort, Close, StopStatus, WakeStop, JoinStatus, DeletePort
<1>9. CASE UNCHANGED vars
  BY <1>9
<1>10. QED
  BY <1>1, <1>2, <1>3, <1>4, <1>5, <1>6, <1>7, <1>8, <1>9 DEF Next, Receive, Ended

\* What the receive thread knows of the link.
LEMMA LinkStep == TypeOK /\ IInv /\ [Next]_vars => LinkInv'
<1> SUFFICES ASSUME TypeOK, IInv, [Next]_vars PROVE LinkInv'
  OBVIOUS
<1> USE DEF TypeOK, IInv, LinkInv, FlagsOK, ThreadsOK
<1>1. CASE Java
  BY <1>1 DEF Java, LinkChanges, LinkChangesSilently, PortStateChanged, DataReceived
<1>2. CASE RxTake \/ RxEnd \/ RxProcessed
  BY <1>2 DEF RxTake, RxEnd, RxProcessed
<1>3. CASE RxDecide
  BY <1>3 DEF RxDecide
<1>4. CASE NotifyConnected \/ WakeConnected \/ PostConnected
  BY <1>4 DEF NotifyConnected, WakeConnected, PostConnected
<1>5. CASE NotifyDisconnected \/ WakeDisconnected
  BY <1>5 DEF NotifyDisconnected, WakeDisconnected
<1>6. CASE Status
  BY <1>6 DEF Status, StLoop, StReport, StStopped, StExpire, StSpurious
<1>7. CASE Declare
  <2>1. CASE StopRxThread
    BY <2>1 DEF StopRxThread
  <2>2. CASE JoinedRxThread
    BY <2>2 DEF JoinedRxThread
  <2>3. CASE StartRxThread
    BY <2>3 DEF StartRxThread
  <2>4. QED
    BY <1>7, <2>1, <2>2, <2>3 DEF Declare
<1>8. CASE ClosePort
  BY <1>8 DEF ClosePort, Close, StopStatus, WakeStop, JoinStatus, DeletePort
<1>9. CASE UNCHANGED vars
  BY <1>9
<1>10. QED
  BY <1>1, <1>2, <1>3, <1>4, <1>5, <1>6, <1>7, <1>8, <1>9 DEF Next, Receive, Ended

\* What it does about it.
LEMMA UpStep == TypeOK /\ IInv /\ [Next]_vars => UpInv'
<1> SUFFICES ASSUME TypeOK, IInv, [Next]_vars PROVE UpInv'
  OBVIOUS
<1> USE DEF TypeOK, IInv, UpInv, FlagsOK, ThreadsOK
<1>1. CASE Java
  BY <1>1 DEF Java, LinkChanges, LinkChangesSilently, PortStateChanged, DataReceived
<1>2. CASE RxTake \/ RxEnd \/ RxProcessed
  BY <1>2 DEF RxTake, RxEnd, RxProcessed
<1>3. CASE RxDecide
  BY <1>3 DEF RxDecide
<1>4. CASE NotifyConnected \/ WakeConnected \/ PostConnected
  BY <1>4 DEF NotifyConnected, WakeConnected, PostConnected
<1>5. CASE NotifyDisconnected \/ WakeDisconnected
  BY <1>5 DEF NotifyDisconnected, WakeDisconnected
<1>6. CASE Status
  BY <1>6 DEF Status, StLoop, StReport, StStopped, StExpire, StSpurious
<1>7. CASE Declare
  <2>1. CASE StopRxThread
    BY <2>1 DEF StopRxThread
  <2>2. CASE JoinedRxThread
    BY <2>2 DEF JoinedRxThread
  <2>3. CASE StartRxThread
    BY <2>3 DEF StartRxThread
  <2>4. QED
    BY <1>7, <2>1, <2>2, <2>3 DEF Declare
<1>8. CASE ClosePort
  BY <1>8 DEF ClosePort, Close, StopStatus, WakeStop, JoinStatus, DeletePort
<1>9. CASE UNCHANGED vars
  BY <1>9
<1>10. QED
  BY <1>1, <1>2, <1>3, <1>4, <1>5, <1>6, <1>7, <1>8, <1>9 DEF Next, Receive, Ended

\* What the user was told.
LEMMA ToldStep == TypeOK /\ IInv /\ [Next]_vars => ToldInv'
<1> SUFFICES ASSUME TypeOK, IInv, [Next]_vars PROVE ToldInv'
  OBVIOUS
<1> USE DEF TypeOK, IInv, ToldInv, UpInv, FlagsOK, ThreadsOK
<1>1. CASE Java
  BY <1>1 DEF Java, LinkChanges, LinkChangesSilently, PortStateChanged, DataReceived
<1>2. CASE RxTake \/ RxEnd \/ RxProcessed
  BY <1>2 DEF RxTake, RxEnd, RxProcessed
<1>3. CASE RxDecide
  BY <1>3 DEF RxDecide
<1>4. CASE NotifyConnected \/ WakeConnected \/ PostConnected
  BY <1>4 DEF NotifyConnected, WakeConnected, PostConnected
<1>5. CASE NotifyDisconnected \/ WakeDisconnected
  BY <1>5 DEF NotifyDisconnected, WakeDisconnected
<1>6. CASE Status
  BY <1>6 DEF Status, StLoop, StReport, StStopped, StExpire, StSpurious
<1>7. CASE Declare
  <2>1. CASE StopRxThread
    BY <2>1 DEF StopRxThread
  <2>2. CASE JoinedRxThread
    BY <2>2 DEF JoinedRxThread
  <2>3. CASE StartRxThread
    BY <2>3 DEF StartRxThread
  <2>4. QED
    BY <1>7, <2>1, <2>2, <2>3 DEF Declare
<1>8. CASE ClosePort
  BY <1>8 DEF ClosePort, Close, StopStatus, WakeStop, JoinStatus, DeletePort
<1>9. CASE UNCHANGED vars
  BY <1>9
<1>10. QED
  BY <1>1, <1>2, <1>3, <1>4, <1>5, <1>6, <1>7, <1>8, <1>9 DEF Next, Receive, Ended

\* The invariant holds in every state.
LEMMA Inductive == Spec => [](TypeOK /\ IInv)
<1>1. TypeOK /\ IInv /\ [Next]_vars => (TypeOK /\ IInv)'
  BY FlagsStep, ThreadsStep, WakeupStep, LinkStep, UpStep, ToldStep DEF TypeOK, IInv
<1>2. QED
  BY <1>1, InitInductive, PTL DEF Spec

\* Every variable keeps its type (TypeOK).
THEOREM TypeCorrect == Spec => []TypeOK
BY Inductive, PTL

\* The status thread never sleeps on a request to report or to stop whose
\* notify_one has already been called (NoLostWakeup).
THEOREM WakeupsArrive == Spec => []NoLostWakeup
<1>1. IInv => NoLostWakeup
  BY DEF IInv
<1>2. QED
  BY <1>1, Inductive, PTL

\* When nothing is pending, the last message tells the status (StatusSettled).
THEOREM MessageMatchesStatus == Spec => []StatusSettled
<1>1. TypeOK /\ IInv => StatusSettled
  BY DEF TypeOK, IInv, ToldInv, StatusSettled
<1>2. QED
  BY <1>1, Inductive, PTL

\* The receive thread sleeps on a wrong view of the link only after a change that
\* Java has not reported, or not yet: its last look at the link missed nothing
\* (LinkSeen).
THEOREM SleepsInformed == Spec => []LinkSeen
<1>1. TypeOK /\ IInv => LinkSeen
  BY DEF TypeOK, IInv, LinkInv, UpInv, LinkSeen
<1>2. QED
  BY <1>1, Inductive, PTL

\* Every report of a disconnection takes back a "connected" (ReportsAlternate).
THEOREM OneReportPerLoss == Spec => ReportsAlternate
<1>1. TypeOK /\ IInv => [StReport /\ ~connected => last = "connected"]_vars
  BY DEF IInv, ToldInv, StReport
<1>2. QED
  BY <1>1, Inductive, PTL DEF Spec, ReportsAlternate

\* The strengthening behind these properties holds in every state (IInv): what
\* the receive thread knows, what the user was told, and no lost wake-up.
THEOREM Strengthening == Spec => []IInv
BY Inductive, PTL

-----------------------------------------------------------------------------
(* The refinement. *)

\* Every step of the threads is a step of LinkReport, or leaves it alone.
LEMMA ReportStep == TypeOK /\ IInv /\ [Next]_vars => [Report!Next]_(Report!vars)
<1> SUFFICES ASSUME TypeOK, IInv, [Next]_vars PROVE [Report!Next]_(Report!vars)
  OBVIOUS
<1> USE DEF Report!vars, Due
<1>1. CASE Java
  BY <1>1 DEF Java, LinkChanges, LinkChangesSilently, PortStateChanged, DataReceived
<1>2. CASE RxTake \/ RxEnd \/ RxProcessed \/ RxDecide
  BY <1>2 DEF RxTake, RxEnd, RxProcessed, RxDecide
<1>3. CASE NotifyConnected
  <2>1. Report!Connect
    BY <1>3 DEF NotifyConnected, Report!Connect
  <2>2. QED
    BY <2>1 DEF Report!Next
<1>4. CASE WakeConnected \/ WakeDisconnected
  BY <1>4 DEF WakeConnected, WakeDisconnected
<1>5. CASE PostConnected
  <2>1. Report!TellConnected
    BY <1>5 DEF PostConnected, Report!TellConnected
  <2>2. QED
    BY <2>1 DEF Report!Next
<1>6. CASE NotifyDisconnected
  <2>1. connected
    BY <1>6 DEF IInv, ToldInv, NotifyDisconnected
  <2>2. Report!Disconnect
    BY <1>6, <2>1 DEF NotifyDisconnected, Report!Disconnect
  <2>3. QED
    BY <2>2 DEF Report!Next
<1>7. CASE StReport
  <2>1. notify
    BY <1>7 DEF IInv, ToldInv, StReport
  <2>2. Report!TellDisconnected
    BY <1>7, <2>1 DEF StReport, Report!TellDisconnected
  <2>3. QED
    BY <2>2 DEF Report!Next
<1>8. CASE StLoop \/ StStopped \/ StExpire \/ StSpurious
  BY <1>8 DEF StLoop, StStopped, StExpire, StSpurious
<1>9. CASE Declare
  <2>1. Due' = Due
    <3>1. CASE StopRxThread
      BY <3>1 DEF StopRxThread
    <3>2. CASE JoinedRxThread
      BY <3>2 DEF JoinedRxThread
    <3>3. CASE StartRxThread
      BY <3>3 DEF StartRxThread, TypeOK, ThreadsOK
    <3>4. QED
      BY <1>9, <3>1, <3>2, <3>3 DEF Declare
  <2>2. UNCHANGED <<connected, last, stop>>
    BY <1>9 DEF Declare, StopRxThread, JoinedRxThread, StartRxThread
  <2>3. QED
    BY <2>1, <2>2
<1>10. CASE StopStatus
  <2>1. CASE ~stop
    <3>1. Report!Close
      BY <1>10, <2>1 DEF StopStatus, Report!Close
    <3>2. QED
      BY <3>1 DEF Report!Next
  <2>2. CASE stop
    BY <1>10, <2>2 DEF StopStatus, TypeOK, FlagsOK
  <2>3. QED
    BY <2>1, <2>2
<1>11. CASE Close \/ WakeStop \/ JoinStatus \/ DeletePort
  BY <1>11 DEF Close, WakeStop, JoinStatus, DeletePort
<1>12. CASE UNCHANGED vars
  BY <1>12
<1>13. QED
  BY <1>1, <1>2, <1>3, <1>4, <1>5, <1>6, <1>7, <1>8, <1>9, <1>10, <1>11, <1>12
     DEF Next, Receive, Status, ClosePort, Ended

\* The threads of a port implement the abstract specification of what its user
\* is told (ImplementsLinkReport).
THEOREM Refinement == Spec => ImplementsLinkReport
<1>1. Init => Report!Init
  BY DEF Init, Report!Init, Due
<1>2. QED
  BY <1>1, ReportStep, Inductive, PTL DEF Spec, ImplementsLinkReport, Report!Spec

\* So the user of a port knows the state of its link, or the thread that is to
\* tell it is on its way (LinkReport's Truthful).
THEOREM UserInformed == Spec => []Report!Truthful
<1>1. TypeOK /\ IInv => Report!Truthful
  BY DEF TypeOK, FlagsOK, ThreadsOK, IInv, ToldInv, Report!Truthful, Due
<1>2. QED
  BY <1>1, Inductive, PTL
===============================================================================
