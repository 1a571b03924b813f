-------------------------- MODULE DeviceListProofs --------------------------
(***************************************************************************)
(* Proofs of the safety properties of DeviceList, for any number of slots, *)
(* ports, names and threads.                                               *)
(***************************************************************************)
EXTENDS DeviceList, TLAPS

USE DEF Dev, Threads, table, ports, loop, vars

\* Every variable keeps its type.
LEMMA TypeStep == TypeOK /\ LoopInv /\ [Next]_vars => TypeOK'
<1> SUFFICES ASSUME TypeOK, LoopInv, [Next]_vars PROVE TypeOK'
  OBVIOUS
<1> USE DeviceListAssumption DEF TypeOK, RxStates, MainStates, DeviceListAssumption
<1>1. CASE \E d \in Dev, n \in Names \cup {Null} : Configure(d, n)
  BY <1>1 DEF Configure
<1>2. CASE \E leave \in BOOLEAN : RestartCommPorts(leave)
  BY <1>2 DEF RestartCommPorts
<1>3. CASE DetachCom
  BY <1>3 DEF DetachCom
<1>4. CASE StopPort
  BY <1>4 DEF StopPort, LoopInv
<1>5. CASE DeletePort
  BY <1>5 DEF DeletePort, LoopInv
<1>6. CASE AllClosed
  BY <1>6 DEF AllClosed
<1>7. CASE InitDisabled
  BY <1>7 DEF InitDisabled, InitTurn
<1>8. CASE InitShared
  BY <1>8 DEF InitShared, InitTurn, Masters
<1>9. CASE InitFail
  BY <1>9 DEF InitFail, InitTurn
<1>10. CASE \E p \in Ports : InitOpen(p)
  BY <1>10 DEF InitOpen, InitTurn
<1>11. CASE AllOpened
  BY <1>11 DEF AllOpened
<1>12. CASE \E p \in Ports : Receive(p)
  <2> PICK p \in Ports : Receive(p)
    BY <1>12
  <2> USE DEF RxStep, Release, Fed
  <2>1. CASE RxTake(p) \/ RxStop(p) \/ RxLost(p) \/ RxContinue(p)
    BY <2>1 DEF RxTake, RxStop, RxLost, RxContinue
  <2>2. CASE RxProcess(p) \/ RxReplay(p)
    <3>1. Fed(p) \in Dev \cup {Null}
      OBVIOUS
    <3>2. using' \in [Threads -> Dev \cup {Null}]
      BY <2>2, <3>1 DEF RxProcess, RxReplay
    <3>3. QED
      BY <2>2, <3>2 DEF RxProcess, RxReplay
  <2>3. CASE \E d \in Dev : RxOut(p, d)
    BY <2>3 DEF RxOut
  <2>4. CASE RxProcessed(p) \/ RxOpened(p)
    BY <2>4 DEF RxProcessed, RxOpened
  <2>5. CASE \E from \in {"data", "took"} : RxOpen(p, from)
    BY <2>5 DEF RxOpen
  <2>6. QED
    BY <2>1, <2>2, <2>3, <2>4, <2>5 DEF Receive
<1>13. CASE \E u \in Users : UserReturn(u) \/ \E d \in Dev : UserCall(u, d)
  <2>1. PICK u \in Users : UserReturn(u) \/ \E d \in Dev : UserCall(u, d)
    BY <1>13
  <2>2. CASE UserReturn(u)
    BY <2>2 DEF UserReturn, Release
  <2>3. CASE \E d \in Dev : UserCall(u, d)
    BY <2>3 DEF UserCall
  <2>4. QED
    BY <2>1, <2>2, <2>3
<1>14. CASE UNCHANGED vars
  BY <1>14
<1>15. QED
  BY <1>1, <1>2, <1>3, <1>4, <1>5, <1>6, <1>7, <1>8, <1>9, <1>10, <1>11,
     <1>12, <1>13, <1>14 DEF Next, MainThread, InitSlot, Ended

\* Only the main thread touches the table, the ports and its own variables.
LEMMA OthersStep ==
    \/ \E p \in Ports : Receive(p)
    \/ \E u \in Users : UserReturn(u) \/ \E d \in Dev : UserCall(u, d)
    => UNCHANGED <<table, ports, loop>>
BY DEF Receive, RxStep, RxTake, RxStop, RxLost, RxProcess, RxReplay, RxOut,
       RxProcessed, RxContinue, RxOpen, RxOpened, UserReturn, UserCall

\* The initial states.
LEMMA InitInductive == Init => TypeOK /\ IInv
<1> SUFFICES ASSUME Init PROVE TypeOK /\ IInv
  OBVIOUS
<1> USE DeviceListAssumption DEF Init, DeviceListAssumption
<1>1. TypeOK
  <2>1. 0 \in Dev /\ 0 \in 0 .. NumDev
    OBVIOUS
  <2>2. devIdx \in [Ports -> Dev] /\ i \in 0 .. NumDev
    BY <2>1
  <2>3. using \in [Threads -> Dev \cup {Null}]
    OBVIOUS
  <2>4. rx \in [Ports -> RxStates] /\ name \in [Ports -> Names \cup {Null}]
    BY DEF RxStates
  <2>5. QED
    BY <2>2, <2>3, <2>4 DEF TypeOK, MainStates
<1>2. LoopInv
  BY DEF LoopInv
<1>3. PortInv
  BY DEF PortInv, Owner
<1>4. LockInv
  BY DEF LockInv, Looked
<1>5. SlotInv
  BY DEF SlotInv
<1>6. ExclusiveOpen
  BY DEF ExclusiveOpen
<1>7. QED
  BY <1>1, <1>2, <1>3, <1>4, <1>5, <1>6 DEF IInv

\* The main thread's loops.
LEMMA LoopStep == TypeOK /\ IInv /\ [Next]_vars => LoopInv'
<1> SUFFICES ASSUME TypeOK, IInv, [Next]_vars PROVE LoopInv'
  OBVIOUS
<1> USE DeviceListAssumption
    DEF TypeOK, IInv, LoopInv, MainStates, DeviceListAssumption
<1>1. CASE \E d \in Dev, n \in Names \cup {Null} : Configure(d, n)
  BY <1>1 DEF Configure
<1>2. CASE \E leave \in BOOLEAN : RestartCommPorts(leave)
  BY <1>2 DEF RestartCommPorts
<1>3. CASE DetachCom
  BY <1>3 DEF DetachCom, PortInv, Owner
<1>4. CASE StopPort
  BY <1>4 DEF StopPort
<1>5. CASE DeletePort
  BY <1>5 DEF DeletePort
<1>6. CASE AllClosed
  BY <1>6 DEF AllClosed
<1>7. CASE InitDisabled
  BY <1>7 DEF InitDisabled, InitTurn
<1>8. CASE InitShared
  BY <1>8 DEF InitShared, InitTurn, Masters
<1>9. CASE InitFail
  BY <1>9 DEF InitFail, InitTurn
<1>10. CASE \E p \in Ports : InitOpen(p)
  BY <1>10 DEF InitOpen, InitTurn
<1>11. CASE AllOpened
  BY <1>11 DEF AllOpened
<1>12. CASE UNCHANGED <<table, ports, loop>>
  BY <1>12
<1>13. QED
  BY <1>1, <1>2, <1>3, <1>4, <1>5, <1>6, <1>7, <1>8, <1>9, <1>10, <1>11,
     <1>12, OthersStep
  DEF Next, MainThread, InitSlot, Ended

\* The ports and the slots that own them.
LEMMA PortStep == TypeOK /\ IInv /\ [Next]_vars => PortInv'
<1> SUFFICES ASSUME TypeOK, IInv, [Next]_vars PROVE PortInv'
  OBVIOUS
<1> USE DeviceListAssumption
    DEF TypeOK, IInv, PortInv, Owner, MainStates, DeviceListAssumption
<1>1. CASE \E d \in Dev, n \in Names \cup {Null} : Configure(d, n)
  BY <1>1 DEF Configure, LoopInv
<1>2. CASE \E leave \in BOOLEAN : RestartCommPorts(leave)
  BY <1>2 DEF RestartCommPorts, LoopInv
<1>3. CASE DetachCom
  BY <1>3 DEF DetachCom, LoopInv
<1>4. CASE StopPort
  BY <1>4 DEF StopPort, LoopInv
<1>5. CASE DeletePort
  BY <1>5 DEF DeletePort, LoopInv
<1>6. CASE AllClosed
  BY <1>6 DEF AllClosed, LoopInv
<1>7. CASE InitDisabled
  BY <1>7 DEF InitDisabled, InitTurn, LoopInv
<1>8. CASE InitShared
  BY <1>8 DEF InitShared, InitTurn, Masters, LoopInv
<1>9. CASE InitFail
  BY <1>9 DEF InitFail, InitTurn, LoopInv
<1>10. CASE \E p \in Ports : InitOpen(p)
  BY <1>10 DEF InitOpen, InitTurn, Masters, LoopInv
<1>11. CASE AllOpened
  BY <1>11 DEF AllOpened, LoopInv
<1>12. CASE \E p \in Ports : Receive(p)
  <2>1. UNCHANGED <<table, ports, loop>>
    BY <1>12, OthersStep
  <2>2. PICK p \in Ports : Receive(p)
    BY <1>12
  <2>3. \A q \in Ports : rx'[q] = "none" <=> rx[q] = "none"
    BY <2>2 DEF Receive, RxStep, RxTake, RxStop, RxLost, RxProcess, RxReplay,
                RxOut, RxProcessed, RxContinue, RxOpen, RxOpened
  <2>4. QED
    BY <2>1, <2>3
<1>13. CASE \E u \in Users : UserReturn(u) \/ \E d \in Dev : UserCall(u, d)
  BY <1>13 DEF UserReturn, UserCall
<1>14. CASE UNCHANGED vars
  BY <1>14
<1>15. QED
  BY <1>1, <1>2, <1>3, <1>4, <1>5, <1>6, <1>7, <1>8, <1>9, <1>10, <1>11,
     <1>12, <1>13, <1>14 DEF Next, MainThread, InitSlot, Ended

\* Whoever looked a port up holds the lock.
LEMMA LockStep == TypeOK /\ IInv /\ [Next]_vars => LockInv'
<1> SUFFICES ASSUME TypeOK, IInv, [Next]_vars PROVE LockInv'
  OBVIOUS
<1> USE DeviceListAssumption
    DEF TypeOK, IInv, LockInv, Looked, DeviceListAssumption
<1>1. CASE \E d \in Dev, n \in Names \cup {Null} : Configure(d, n)
  BY <1>1 DEF Configure
<1>2. CASE \E leave \in BOOLEAN : RestartCommPorts(leave)
  BY <1>2 DEF RestartCommPorts
<1>3. CASE DetachCom
  BY <1>3 DEF DetachCom
<1>4. CASE StopPort
  BY <1>4 DEF StopPort
<1>5. CASE DeletePort
  BY <1>5 DEF DeletePort
<1>6. CASE AllClosed
  BY <1>6 DEF AllClosed
<1>7. CASE InitDisabled
  BY <1>7 DEF InitDisabled, InitTurn
<1>8. CASE InitShared
  BY <1>8 DEF InitShared, InitTurn, Masters
<1>9. CASE InitFail
  BY <1>9 DEF InitFail, InitTurn
<1>10. CASE \E p \in Ports : InitOpen(p)
  BY <1>10 DEF InitOpen, InitTurn, Masters
<1>11. CASE AllOpened
  BY <1>11 DEF AllOpened
<1>12. CASE \E p \in Ports : Receive(p)
  <2> PICK p \in Ports : Receive(p)
    BY <1>12
  <2> USE DEF RxStep, Release, Fed
  <2>1. CASE RxTake(p) \/ RxStop(p) \/ RxLost(p) \/ RxContinue(p)
    BY <2>1 DEF RxTake, RxStop, RxLost, RxContinue
  <2>2. CASE RxProcess(p)
    BY <2>2 DEF RxProcess
  <2>3. CASE RxReplay(p)
    BY <2>3 DEF RxReplay
  <2>4. CASE \E d \in Dev : RxOut(p, d)
    BY <2>4 DEF RxOut
  <2>5. CASE RxProcessed(p) \/ RxOpened(p)
    BY <2>5 DEF RxProcessed, RxOpened
  <2>6. CASE \E from \in {"data", "took"} : RxOpen(p, from)
    BY <2>6 DEF RxOpen
  <2>7. QED
    BY <2>1, <2>2, <2>3, <2>4, <2>5, <2>6 DEF Receive
<1>13. CASE \E u \in Users : UserReturn(u) \/ \E d \in Dev : UserCall(u, d)
  <2>1. PICK u \in Users : UserReturn(u) \/ \E d \in Dev : UserCall(u, d)
    BY <1>13
  <2>2. CASE UserReturn(u)
    BY <2>2 DEF UserReturn, Release
  <2>3. CASE \E d \in Dev : UserCall(u, d)
    BY <2>3 DEF UserCall
  <2>4. QED
    BY <2>1, <2>2, <2>3
<1>14. CASE UNCHANGED vars
  BY <1>14
<1>15. QED
  BY <1>1, <1>2, <1>3, <1>4, <1>5, <1>6, <1>7, <1>8, <1>9, <1>10, <1>11,
     <1>12, <1>13, <1>14 DEF Next, MainThread, InitSlot, Ended

\* What devInit leaves behind.
LEMMA SlotInvStep == TypeOK /\ IInv /\ [Next]_vars => SlotInv'
<1> SUFFICES ASSUME TypeOK, IInv, [Next]_vars PROVE SlotInv'
  OBVIOUS
<1> USE DeviceListAssumption
    DEF TypeOK, IInv, SlotInv, Initialised, Owner, MainStates, DeviceListAssumption
<1>1. CASE \E d \in Dev, n \in Names \cup {Null} : Configure(d, n)
  BY <1>1 DEF Configure, LoopInv, PortInv
<1>2. CASE \E leave \in BOOLEAN : RestartCommPorts(leave)
  BY <1>2 DEF RestartCommPorts, LoopInv, PortInv
<1>3. CASE DetachCom
  BY <1>3 DEF DetachCom, LoopInv, PortInv
<1>4. CASE StopPort
  BY <1>4 DEF StopPort, LoopInv, PortInv
<1>5. CASE DeletePort
  BY <1>5 DEF DeletePort, LoopInv, PortInv
<1>6. CASE AllClosed
  BY <1>6 DEF AllClosed, LoopInv, PortInv
<1>7. CASE InitDisabled
  BY <1>7 DEF InitDisabled, InitTurn, LoopInv, PortInv
<1>8. CASE InitShared
  BY <1>8 DEF InitShared, InitTurn, Masters, LoopInv, PortInv
<1>9. CASE InitFail
  BY <1>9 DEF InitFail, InitTurn, LoopInv, PortInv
<1>10. CASE \E p \in Ports : InitOpen(p)
  BY <1>10 DEF InitOpen, InitTurn, Masters, LoopInv, PortInv
<1>11. CASE AllOpened
  BY <1>11 DEF AllOpened, LoopInv, PortInv
<1>12. CASE UNCHANGED <<table, ports, loop>>
  BY <1>12
<1>13. QED
  BY <1>1, <1>2, <1>3, <1>4, <1>5, <1>6, <1>7, <1>8, <1>9, <1>10, <1>11,
     <1>12, OthersStep
  DEF Next, MainThread, InitSlot, Ended

\* No shareable port is opened twice.
LEMMA ExclusiveOpenStep == TypeOK /\ IInv /\ [Next]_vars => ExclusiveOpen'
<1> SUFFICES ASSUME TypeOK, IInv, [Next]_vars PROVE ExclusiveOpen'
  OBVIOUS
<1> USE DeviceListAssumption
    DEF TypeOK, IInv, ExclusiveOpen, MainStates, DeviceListAssumption
<1>1. CASE \E d \in Dev, n \in Names \cup {Null} : Configure(d, n)
  BY <1>1 DEF Configure, LoopInv, PortInv, SlotInv, Initialised, Owner
<1>2. CASE \E leave \in BOOLEAN : RestartCommPorts(leave)
  BY <1>2 DEF RestartCommPorts, LoopInv, PortInv, SlotInv, Initialised, Owner
<1>3. CASE DetachCom
  BY <1>3 DEF DetachCom, LoopInv, PortInv, SlotInv, Initialised, Owner
<1>4. CASE StopPort
  BY <1>4 DEF StopPort, LoopInv, PortInv, SlotInv, Initialised, Owner
<1>5. CASE DeletePort
  BY <1>5 DEF DeletePort, LoopInv, PortInv, SlotInv, Initialised, Owner
<1>6. CASE AllClosed
  BY <1>6 DEF AllClosed, LoopInv, PortInv, SlotInv, Initialised, Owner
<1>7. CASE InitDisabled
  BY <1>7 DEF InitDisabled, InitTurn, LoopInv, PortInv, SlotInv, Initialised, Owner
<1>8. CASE InitShared
  BY <1>8 DEF InitShared, InitTurn, Masters, LoopInv, PortInv, SlotInv, Initialised, Owner
<1>9. CASE InitFail
  BY <1>9 DEF InitFail, InitTurn, LoopInv, PortInv, SlotInv, Initialised, Owner
<1>10. CASE \E p \in Ports : InitOpen(p)
  BY <1>10 DEF InitOpen, InitTurn, Masters, LoopInv, PortInv, SlotInv, Initialised, Owner
<1>11. CASE AllOpened
  BY <1>11 DEF AllOpened, LoopInv, PortInv, SlotInv, Initialised, Owner
<1>12. CASE UNCHANGED <<table, ports, loop>>
  BY <1>12
<1>13. QED
  BY <1>1, <1>2, <1>3, <1>4, <1>5, <1>6, <1>7, <1>8, <1>9, <1>10, <1>11,
     <1>12, OthersStep
  DEF Next, MainThread, InitSlot, Ended

-----------------------------------------------------------------------------
\* The whole invariant holds in every state.
LEMMA Inductive == Spec => [](TypeOK /\ IInv)
<1>1. TypeOK /\ IInv /\ [Next]_vars => (TypeOK /\ IInv)'
  BY TypeStep, LoopStep, PortStep, LockStep, SlotInvStep, ExclusiveOpenStep DEF IInv
<1>2. QED
  BY <1>1, InitInductive, PTL DEF Spec

\* The invariant gives the properties it was built for.
LEMMA Consequences ==
    TypeOK /\ IInv => RxOwnsItsSlot /\ HeldPortAlive /\ SharedFollowsMaster
                      /\ ExclusiveOpen /\ NoPortLost /\ NothingLeft
<1> SUFFICES ASSUME TypeOK, IInv
             PROVE  RxOwnsItsSlot /\ HeldPortAlive /\ SharedFollowsMaster
                    /\ ExclusiveOpen /\ NoPortLost /\ NothingLeft
  OBVIOUS
<1> USE DeviceListAssumption DEF TypeOK, IInv, PortInv, Owner, DeviceListAssumption
<1>1. NoPortLost
  BY DEF NoPortLost
<1>2. HeldPortAlive
  <2> SUFFICES ASSUME NEW t \in Threads, Looked(t)
               PROVE  /\ Com[using[t]] # Null
                      /\ SharedPortNum[using[t]] = Null => port[Com[using[t]]] = "open"
    BY DEF HeldPortAlive
  <2>1. using[t] \in Dev
    BY DEF Looked
  <2>2. QED
    BY <2>1 DEF LockInv
<1>3. SharedFollowsMaster
  BY DEF SharedFollowsMaster, SlotInv, Initialised
<1>4. NothingLeft
  BY DEF NothingLeft, LoopInv
<1>5. RxOwnsItsSlot
  <2> SUFFICES ASSUME NEW p \in Ports, rx[p] \notin {"none", "done"}
               PROVE  Com[devIdx[p]] \in {p, Null}
    BY DEF RxOwnsItsSlot
  <2>1. port[p] # "free"
    OBVIOUS
  <2>2. QED
    BY <2>1 DEF LoopInv
<1>6. QED
  BY <1>1, <1>2, <1>3, <1>4, <1>5

-----------------------------------------------------------------------------
(* The table implements PortTable.                                         *)

\* A port that is open is in its slot, but for the one devClose is taking away.
LEMMA StateIs ==
    ASSUME TypeOK, IInv, NEW p \in Ports
    PROVE  /\ State[p] \in {"free", "open", "closing"}
           /\ State[p] = "free" <=> port[p] = "free"
           /\ State[p] = "open" <=> Com[devIdx[p]] = p /\ Owner(devIdx[p])
           /\ State[p] = "open" => port[p] = "open"
BY DeviceListAssumption
DEF State, TypeOK, IInv, PortInv, LoopInv, Owner, DeviceListAssumption

\* The port a thread uses is open; only the holder of the lock uses one.
UseInv ==
    \A t \in Threads :
        /\ PortInUse[t] \in Ports \cup {Null}
        /\ PortInUse[t] # Null => State[PortInUse[t]] = "open" /\ comm = t

LEMMA InUseIs == TypeOK /\ IInv => UseInv
<1> SUFFICES ASSUME TypeOK, IInv, NEW t \in Threads
             PROVE  /\ PortInUse[t] \in Ports \cup {Null}
                    /\ PortInUse[t] # Null => State[PortInUse[t]] = "open" /\ comm = t
  BY DEF UseInv
<1>1. CASE Looked(t) /\ Owner(using[t])
  <2>1. using[t] \in Dev
    BY <1>1 DEF Looked, TypeOK
  <2>2. Com[using[t]] \in Ports /\ devIdx[Com[using[t]]] = using[t]
    BY <1>1, <2>1 DEF TypeOK, IInv, PortInv, Owner
  <2>3. PortInUse[t] = Com[using[t]]
    BY <1>1 DEF PortInUse
  <2>4. QED
    BY <1>1, <2>2, <2>3, StateIs DEF IInv, LockInv
<1>2. CASE ~(Looked(t) /\ Owner(using[t]))
  BY <1>2 DEF PortInUse
<1>3. QED
  BY <1>1, <1>2

\* A step in which one thread begins, ends or goes on using a port is one that
\* PortTable knows.
LEMMA UseStep ==
    ASSUME TypeOK, IInv, TypeOK', IInv', UNCHANGED <<table, ports, loop>>,
           Running' = Running, NEW t \in Threads,
           \A u \in Threads \ {t} : using'[u] = using[u] /\ (Looked(u)' <=> Looked(u))
    PROVE  Table!Next
<1>0. UseInv'
  BY InUseIs, PTL
<1> USE DEF UseInv
<1>1. State' = State
  BY DEF State
<1>2. PortInUse' = [PortInUse EXCEPT ![t] = PortInUse'[t]]
  BY DEF PortInUse, Owner
<1>3. CASE PortInUse'[t] = Null
  <2>1. Table!Return(t)
    BY <1>1, <1>2, <1>3 DEF Table!Return
  <2>2. QED
    BY <2>1 DEF Table!Next
<1>4. CASE PortInUse'[t] # Null
  <2>1. State'[PortInUse'[t]] = "open" /\ comm' = t /\ PortInUse'[t] \in Ports
    BY <1>0, <1>4
  <2>2. \A u \in Threads : u # t => PortInUse[u] = Null
    <3> SUFFICES ASSUME NEW u \in Threads, u # t PROVE PortInUse[u] = Null
      OBVIOUS
    <3>1. PortInUse'[u] = PortInUse[u]
      BY <1>2 DEF PortInUse
    <3>2. PortInUse'[u] # Null => comm' = u
      BY <1>0
    <3>3. QED
      BY <2>1, <3>1, <3>2
  <2>3. Table!Use(t, PortInUse'[t])
    BY <1>1, <1>2, <2>1, <2>2 DEF Table!Use
  <2>4. QED
    BY <2>1, <2>3 DEF Table!Next
<1>5. QED
  BY <1>3, <1>4

\* A step of the main thread that takes no port away and gives none out.
LEMMA MainStutter ==
    ASSUME UNCHANGED <<devIdx, name>>, Running' = Running,
           \A p \in Ports : State'[p] = State[p],
           \A t \in Threads : PortInUse'[t] = PortInUse[t]
    PROVE  UNCHANGED Table!vars
<1>1. State' = State /\ PortInUse' = PortInUse
  BY DEF State, PortInUse
<1>2. QED
  BY <1>1 DEF Table!vars

\* While the lock is free nobody uses a port.
LEMMA NobodyUses ==
    ASSUME TypeOK, IInv, comm = Null
    PROVE  \A t \in Threads : PortInUse[t] = Null /\ ~Looked(t)
BY InUseIs, DeviceListAssumption
DEF UseInv, IInv, LockInv, DeviceListAssumption

\* Nor can a step that leaves the lock free, and every thread where it was or
\* before its data, make anyone use one.
LEMMA StillNobodyUses ==
    ASSUME TypeOK, IInv, comm = Null, UNCHANGED <<comm, using>>,
           \A p \in Ports : rx'[p] = "parse" => rx[p] = "parse" /\ name'[p] = name[p]
    PROVE  \A t \in Threads : PortInUse'[t] = Null
<1>1. \A t \in Threads : ~Looked(t)'
  BY NobodyUses DEF Looked
<1>2. QED
  BY <1>1 DEF PortInUse

\* Every step of the table is one of PortTable, or changes nothing there.
LEMMA TableStep ==
    TypeOK /\ IInv /\ [Next]_vars /\ TypeOK' /\ IInv' => [Table!Next]_(Table!vars)
<1> SUFFICES ASSUME TypeOK, IInv, [Next]_vars, TypeOK', IInv'
             PROVE  [Table!Next]_(Table!vars)
  OBVIOUS
<1> USE DeviceListAssumption DEF DeviceListAssumption
<1>1. CASE (\E d \in Dev, n \in Names \cup {Null} : Configure(d, n))
           \/ (\E leave \in BOOLEAN : RestartCommPorts(leave))
           \/ AllClosed \/ AllOpened
  <2>1. UNCHANGED <<Com, SharedPortNum, ports, rx, comm, using>>
    BY <1>1 DEF Configure, RestartCommPorts, AllClosed, AllOpened
  <2>2. QED
    BY <2>1 DEF Table!vars, State, Running, PortInUse, Looked, Owner
<1>2. CASE StopPort
  <2>1. UNCHANGED <<Com, SharedPortNum, devIdx, name, rx, comm, using>>
    BY <1>2 DEF StopPort
  <2>2. \A p \in Ports : State'[p] = State[p]
    BY <1>2 DEF StopPort, State, TypeOK, IInv, PortInv, LoopInv
  <2>3. QED
    BY <2>1, <2>2, MainStutter DEF Running, PortInUse, Looked, Owner
<1>3. CASE DeletePort
  <2>1. victim \in Ports /\ State[victim] = "closing" /\ victim \notin Running
    BY <1>3 DEF DeletePort, State, Running, IInv, LoopInv
  <2>2. State' = [State EXCEPT ![victim] = "free"]
    BY <1>3, <2>1 DEF DeletePort, State, TypeOK
  <2>3. Running' = Running
    BY <1>3, <2>1 DEF DeletePort, Running, TypeOK
  <2>4. PortInUse' = PortInUse
    BY <1>3, <2>1 DEF DeletePort, PortInUse, Looked, Owner, TypeOK
  <2>5. Table!Delete(victim)
    BY <1>3, <2>1, <2>2, <2>3, <2>4 DEF DeletePort, Table!Delete
  <2>6. QED
    BY <2>1, <2>5 DEF Table!Next
<1>4. CASE DetachCom
  <2>1. UNCHANGED <<SharedPortNum, port, devIdx, name, rx, comm, using>> /\ comm = Null
    BY <1>4 DEF DetachCom
  <2>2. \A t \in Threads : PortInUse[t] = Null /\ PortInUse'[t] = Null
    BY <2>1, NobodyUses, StillNobodyUses
  <2>3. Running' = Running
    BY <2>1 DEF Running
  <2>4. CASE Owner(i)
    <3>1. Com[i] \in Ports /\ State[Com[i]] = "open" /\ devIdx[Com[i]] = i
      BY <1>4, <2>4 DEF DetachCom, State, TypeOK, IInv, PortInv, Owner
    <3>2. State' = [State EXCEPT ![Com[i]] = "closing"]
      <4>1. \A d \in Dev : Com'[d] = IF d = i THEN Null ELSE Com[d]
        BY <1>4 DEF DetachCom, TypeOK
      <4>2. State'[Com[i]] = "closing"
        <5>1. i \in Dev /\ port[Com[i]] = "open"
          BY <1>4, <3>1, StateIs DEF DetachCom, TypeOK
        <5>2. Com'[devIdx[Com[i]]] # Com[i]
          BY <3>1, <4>1, <5>1
        <5>3. QED
          BY <2>1, <3>1, <5>1, <5>2 DEF State
      <4>3. \A q \in Ports \ {Com[i]} : State'[q] = State[q]
        BY <2>1, <3>1, <4>1 DEF State, TypeOK
      <4>4. QED
        BY <3>1, <4>2, <4>3 DEF State
    <3>3. PortInUse' = PortInUse
      BY <2>2 DEF PortInUse
    <3>4. Table!Close(Com[i])
      BY <2>1, <2>2, <2>3, <3>1, <3>2, <3>3 DEF Table!Close
    <3>5. QED
      BY <3>1, <3>4 DEF Table!Next
  <2>5. CASE ~Owner(i)
    <3>1. \A p \in Ports : State'[p] = State[p]
      BY <1>4, <2>1, <2>5 DEF DetachCom, State, TypeOK, IInv, PortInv, LoopInv, Owner
    <3>2. QED
      BY <2>1, <2>2, <2>3, <3>1, MainStutter
  <2>6. QED
    BY <2>4, <2>5
<1>5. CASE InitDisabled \/ InitShared \/ InitFail
  <2>1. UNCHANGED <<port, devIdx, name, rx, comm, using>> /\ comm = Null
    BY <1>5 DEF InitDisabled, InitShared, InitFail, InitTurn
  <2>2. \A t \in Threads : PortInUse[t] = Null /\ PortInUse'[t] = Null
    BY <2>1, NobodyUses, StillNobodyUses
  <2>3. Running' = Running
    BY <2>1 DEF Running
  <2>4. \A p \in Ports : State'[p] = State[p]
    <3> SUFFICES ASSUME NEW p \in Ports PROVE State'[p] = State[p]
      OBVIOUS
    <3>1. CASE port[p] = "open"
      <4>1. Owner(devIdx[p]) /\ Com[devIdx[p]] = p
        BY <1>5, <3>1 DEF InitDisabled, InitShared, InitFail, InitTurn, IInv, PortInv
      <4>2. devIdx[p] \in Dev /\ devIdx[p] # i
        BY <1>5, <4>1 DEF InitDisabled, InitShared, InitFail, InitTurn, TypeOK,
                          IInv, LoopInv, Owner
      <4>3. Com'[devIdx[p]] = p
        BY <1>5, <4>1, <4>2 DEF InitDisabled, InitShared, InitFail, TypeOK
      <4>4. QED
        BY <2>1, <4>1, <4>3 DEF State
    <3>2. CASE port[p] # "open"
      BY <2>1, <3>2 DEF State
    <3>3. QED
      BY <3>1, <3>2
  <2>5. QED
    BY <2>1, <2>2, <2>3, <2>4, MainStutter
<1>6. CASE \E p \in Ports : InitOpen(p)
  <2> PICK p \in Ports : InitOpen(p)
    BY <1>6
  <2>1. comm = Null /\ i \in Dev /\ config[i] \in Names /\ port[p] = "free"
    BY DEF InitOpen, InitTurn, TypeOK
  <2>2. PortInUse' = PortInUse
    <3>1. \A q \in Ports : rx'[q] = "parse" => rx[q] = "parse" /\ name'[q] = name[q]
      BY DEF InitOpen, TypeOK
    <3>2. UNCHANGED <<comm, using>>
      BY DEF InitOpen, InitTurn
    <3>3. \A t \in Threads : PortInUse[t] = Null /\ PortInUse'[t] = Null
      BY <2>1, <3>1, <3>2, NobodyUses, StillNobodyUses
    <3>4. QED
      BY <3>3 DEF PortInUse
  <2>3. Running' = Running \cup {p}
    BY DEF InitOpen, Running, TypeOK
  <2>4. State[p] = "free"
    BY <2>1, StateIs
  <2>5. \A q \in Ports : State[q] = "open" => devIdx[q] # i
    BY <2>1, StateIs DEF InitOpen, InitTurn, IInv, LoopInv, Owner
  <2>6. State' = [State EXCEPT ![p] = "open"]
    <3>1. State'[p] = "open"
      BY <2>1 DEF InitOpen, InitTurn, State, TypeOK
    <3>2. \A q \in Ports \ {p} : State'[q] = State[q]
      <4> SUFFICES ASSUME NEW q \in Ports \ {p} PROVE State'[q] = State[q]
        OBVIOUS
      <4>1. port'[q] = port[q] /\ devIdx'[q] = devIdx[q]
        BY DEF InitOpen, TypeOK
      <4>2. port[q] = "open" => Com[devIdx[q]] = q /\ devIdx[q] # i /\ devIdx[q] \in Dev
        BY DEF InitOpen, InitTurn, TypeOK, IInv, PortInv, LoopInv, Owner
      <4>3. port[q] = "open" => Com'[devIdx[q]] = q
        BY <4>2 DEF InitOpen, TypeOK
      <4>4. QED
        BY <4>1, <4>2, <4>3 DEF State
    <3>3. QED
      BY <3>1, <3>2 DEF State
  <2>7. config[i] \notin Unshared =>
            \A q \in Ports : State[q] # "free" => name[q] # config[i]
    <3> SUFFICES ASSUME config[i] \notin Unshared, NEW q \in Ports, State[q] # "free"
                 PROVE  name[q] # config[i]
      OBVIOUS
    <3>1. port[q] # "free" /\ q # p
      BY <2>1, StateIs
    <3>2. port'[q] # "free" /\ name'[q] = name[q] /\ port'[p] # "free" /\ name'[p] = config[i]
      BY <2>1, <3>1 DEF InitOpen, TypeOK
    <3>3. QED
      BY <3>1, <3>2 DEF IInv, ExclusiveOpen
  <2>8. devIdx' = [devIdx EXCEPT ![p] = i] /\ name' = [name EXCEPT ![p] = config[i]]
    BY DEF InitOpen
  <2>9. Table!Open(p, i, config[i])
    BY <2>2, <2>3, <2>4, <2>5, <2>6, <2>7, <2>8 DEF Table!Open
  <2>10. QED
    BY <2>1, <2>9 DEF Table!Next
<1>7. CASE \E p \in Ports : Receive(p)
  <2>1. UNCHANGED <<table, ports, loop>>
    BY <1>7, OthersStep
  <2>2. PICK p \in Ports : Receive(p)
    BY <1>7
  <2>3. CASE RxStop(p) \/ RxLost(p)
    <3>1. rx[p] = "wait" /\ rx' = [rx EXCEPT ![p] = "done"] /\ UNCHANGED using
      BY <2>3 DEF RxStop, RxLost, RxStep
    <3>2. p \in Running /\ Running' = Running \ {p}
      BY <3>1 DEF Running, TypeOK
    <3>3. State' = State /\ PortInUse[p] = Null
      BY <2>1, <3>1 DEF State, PortInUse, Looked
    <3>4. PortInUse' = PortInUse
      BY <2>1, <3>1 DEF PortInUse, Looked, Owner, TypeOK
    <3>5. Table!Ends(p)
      BY <2>1, <3>2, <3>3, <3>4 DEF Table!Ends
    <3>6. QED
      BY <3>5 DEF Table!Next
  <2>4. CASE ~(RxStop(p) \/ RxLost(p))
    <3>1. \E s \in RxStates \ {"none", "done"} :
              rx[p] \notin {"none", "done"} /\ rx' = [rx EXCEPT ![p] = s]
      BY <2>2, <2>4 DEF Receive, RxStates, RxStep, RxTake, RxProcess, RxReplay, RxOut,
                        RxProcessed, RxContinue, RxOpen, RxOpened
    <3>2. Running' = Running
      BY <3>1 DEF Running, TypeOK
    <3>3. \A u \in Threads \ {p} : using'[u] = using[u]
      BY <2>2, <2>4 DEF Receive, RxTake, RxProcess, RxReplay, RxOut,
                        RxProcessed, RxContinue, RxOpen, RxOpened, Release, TypeOK
    <3>4. \A u \in Threads \ {p} : Looked(u)' <=> Looked(u)
      BY <2>1, <3>1, <3>3 DEF Looked, TypeOK
    <3>5. QED
      BY <2>1, <3>2, <3>3, <3>4, UseStep
  <2>5. QED
    BY <2>3, <2>4
<1>8. CASE \E u \in Users : UserReturn(u) \/ \E d \in Dev : UserCall(u, d)
  <2>1. PICK u \in Users : UserReturn(u) \/ \E d \in Dev : UserCall(u, d)
    BY <1>8
  <2>2. UNCHANGED <<table, ports, loop, rx>>
    BY <2>1 DEF UserReturn, UserCall
  <2>3. \A t \in Threads \ {u} : using'[t] = using[t]
    BY <2>1 DEF UserReturn, UserCall, Release, TypeOK
  <2>4. \A t \in Threads \ {u} : Looked(t)' <=> Looked(t)
    BY <2>2, <2>3 DEF Looked
  <2>5. QED
    BY <2>2, <2>3, <2>4, UseStep DEF Running
<1>9. CASE UNCHANGED vars
  BY <1>9 DEF Table!vars, State, Running, PortInUse, Looked, Owner
<1>10. QED
  BY <1>1, <1>2, <1>3, <1>4, <1>5, <1>6, <1>7, <1>8, <1>9
  DEF Next, MainThread, InitSlot, Ended

\* The inductive invariant the others rest on (IInv): what every port, slot and
\* thread is up to between two statements of devInit and devCloseAll.
THEOREM Strengthening == Spec => []IInv
BY Inductive, PTL

\* Every variable keeps its type (TypeOK).
THEOREM TypeCorrect == Spec => []TypeOK
BY Inductive, PTL

\* A receive thread only ever feeds the slot its port was made for, or nothing
\* once devClose has detached the port (RxOwnsItsSlot).
THEOREM ReceiveOwnSlot == Spec => []RxOwnsItsSlot
BY Inductive, Consequences, PTL

\* A thread that found a slot's own port under CritSec_Comm never sees it closed
\* or deleted before it releases the lock (HeldPortAlive).
THEOREM PortHeldIsAlive == Spec => []HeldPortAlive
BY Inductive, Consequences, PTL

\* After devInit a sharing slot points to the port of its master (SharedFollowsMaster).
THEOREM SharingIsConsistent == Spec => []SharedFollowsMaster
BY Inductive, Consequences, PTL

\* No port that can be shared is open twice at a time (ExclusiveOpen).
THEOREM PortsOpenOnce == Spec => []ExclusiveOpen
BY Inductive, Consequences, PTL

\* Every port object is owned by its slot or is being closed (NoPortLost).
THEOREM PortsAccountedFor == Spec => []NoPortLost
BY Inductive, Consequences, PTL

\* devCloseAll leaves no port and no receive thread behind (NothingLeft).
THEOREM CloseAllComplete == Spec => []NothingLeft
BY Inductive, Consequences, PTL

\* A pointer to a port that is closed or gone is found only while ports are being
\* closed, in a slot that shares its port (DanglingOnlyWhileClosing).
THEOREM DanglingDelimited == Spec => []DanglingOnlyWhileClosing
<1>1. TypeOK /\ IInv => DanglingOnlyWhileClosing
  <2> SUFFICES ASSUME TypeOK, IInv, NEW t \in Threads, Looked(t), Com[using[t]] # Null,
                      port[Com[using[t]]] # "open"
               PROVE  pc \in {"close", "stop", "join"} /\ SharedPortNum[using[t]] # Null
    BY DEF DanglingOnlyWhileClosing
  <2>1. using[t] \in Dev
    BY DEF Looked, TypeOK
  <2>2. \A d \in Dev : Owner(d) => port[Com[d]] = "open"
    BY DEF IInv, PortInv
  <2>3. SharedPortNum[using[t]] # Null
    BY <2>1, <2>2 DEF Owner
  <2>4. ~Initialised(using[t])
    <3> SUFFICES ASSUME Initialised(using[t]) PROVE FALSE
      OBVIOUS
    <3>1. PICK m \in Dev : SharedPortNum[m] = Null /\ Com[using[t]] = Com[m]
      BY <2>1, <2>3 DEF Initialised, TypeOK
    <3>2. QED
      BY <2>2, <3>1 DEF Owner
  <2>5. pc # "idle" /\ ~(pc = "init" /\ using[t] < i)
    BY <2>1, <2>4 DEF IInv, SlotInv
  <2>6. pc # "down" /\ ~(pc = "init" /\ using[t] >= i)
    BY <2>1 DEF IInv, LoopInv
  <2>7. pc # "init"
    BY <2>1, <2>5, <2>6, DeviceListAssumption DEF TypeOK, DeviceListAssumption
  <2>8. QED
    BY <2>3, <2>5, <2>6, <2>7 DEF TypeOK, MainStates
<1>2. QED
  BY <1>1, Inductive, PTL

\* The thread that holds CritSec_Comm is at work.
HolderWorks == comm # Null => comm \in Users \/ rx[comm] \in {"parse", "open"}

LEMMA HolderStep == TypeOK /\ HolderWorks /\ [Next]_vars => HolderWorks'
<1> SUFFICES ASSUME TypeOK, HolderWorks, [Next]_vars PROVE HolderWorks'
  OBVIOUS
<1> USE DeviceListAssumption DEF DeviceListAssumption, HolderWorks
<1>1. CASE \/ \E d \in Dev, n \in Names \cup {Null} : Configure(d, n)
           \/ \E leave \in BOOLEAN : RestartCommPorts(leave)
           \/ DetachCom \/ StopPort \/ AllClosed \/ AllOpened
           \/ InitDisabled \/ InitShared \/ InitFail
  BY <1>1 DEF Configure, RestartCommPorts, DetachCom, StopPort, AllClosed, AllOpened,
              InitDisabled, InitShared, InitFail, InitTurn
<1>2. CASE DeletePort
  BY <1>2 DEF DeletePort, TypeOK
<1>3. CASE \E p \in Ports : InitOpen(p)
  BY <1>3 DEF InitOpen, InitTurn
<1>4. CASE \E p \in Ports : Receive(p)
  <2> PICK p \in Ports : Receive(p)
    BY <1>4
  <2>1. CASE RxTake(p) \/ RxStop(p) \/ RxLost(p) \/ RxContinue(p)
    BY <2>1 DEF RxTake, RxStop, RxLost, RxContinue, RxStep, TypeOK
  <2>2. CASE RxProcess(p) \/ RxReplay(p) \/ \E d \in Dev : RxOut(p, d)
    BY <2>2 DEF RxProcess, RxReplay, RxOut, RxStep, TypeOK
  <2>3. CASE RxProcessed(p) \/ RxOpened(p)
    BY <2>3 DEF RxProcessed, RxOpened, Release, RxStep, TypeOK
  <2>4. CASE \E from \in {"data", "took"} : RxOpen(p, from)
    BY <2>4 DEF RxOpen, RxStep, TypeOK
  <2>5. QED
    BY <2>1, <2>2, <2>3, <2>4 DEF Receive
<1>5. CASE \E u \in Users : UserReturn(u) \/ \E d \in Dev : UserCall(u, d)
  BY <1>5 DEF UserReturn, UserCall, Release
<1>6. CASE UNCHANGED vars
  BY <1>6
<1>7. QED
  BY <1>1, <1>2, <1>3, <1>4, <1>5, <1>6 DEF Next, MainThread, InitSlot, Ended

\* Neither a thread that waits for CritSec_Comm nor the main thread, which waits
\* for such a thread, waits for one that waits (NoDeadlock).
THEOREM NobodyStuck == Spec => []NoDeadlock
<1>1. Init => HolderWorks
  BY DEF Init, HolderWorks
<1>2. Spec => []HolderWorks
  BY <1>1, HolderStep, Inductive, PTL DEF Spec
<1>3. IInv => (pc = "join" => rx[victim] # "none")
  BY DEF IInv, LoopInv, PortInv
<1>4. HolderWorks /\ IInv => NoDeadlock
  BY <1>3 DEF HolderWorks, NoDeadlock
<1>5. QED
  BY <1>2, <1>4, Inductive, PTL

\* The table with its shared ports, loops and lock implements PortTable: ports
\* are opened, used, closed and deleted only as that allows (ImplementsPortTable).
THEOREM Refinement == Spec => ImplementsPortTable
<1>1. Init => Table!Init
  <2> SUFFICES ASSUME Init PROVE Table!Init
    OBVIOUS
  <2>1. TypeOK
    BY InitInductive
  <2>2. State = [p \in Ports |-> "free"] /\ Running = {}
    BY DEF Init, State, Running
  <2>3. PortInUse = [t \in Threads |-> Null]
    BY DEF Init, PortInUse, Looked
  <2>4. QED
    BY <2>1, <2>2, <2>3 DEF Table!Init, TypeOK
<1>2. QED
  BY <1>1, TableStep, Inductive, PTL DEF Spec, ImplementsPortTable, Table!Spec

\* So at any moment one thread at most uses a slot's own port, and that is open;
\* no receive thread runs for a port that is gone; and neither a slot nor a name
\* that cannot be shared has two ports (PortTable's Sound).
THEOREM TableSound == Spec => []Table!Sound
<1>1. TypeOK /\ IInv => Table!Sound
  <2> SUFFICES ASSUME TypeOK, IInv PROVE Table!Sound
    OBVIOUS
  <2>1. \A t \in Threads : PortInUse[t] # Null => State[PortInUse[t]] = "open"
    BY InUseIs DEF UseInv
  <2>2. \A t, u \in Threads : PortInUse[t] # Null /\ PortInUse[u] # Null => t = u
    BY InUseIs DEF UseInv
  <2>3. \A p \in Running : State[p] # "free"
    BY StateIs DEF Running, IInv, PortInv
  <2>4. \A p, q \in Ports :
            State[p] = "open" /\ State[q] = "open" /\ devIdx[p] = devIdx[q] => p = q
    BY StateIs
  <2>5. \A p, q \in Ports :
            /\ State[p] # "free" /\ State[q] # "free"
            /\ name[p] = name[q] /\ name[p] \notin Unshared
            => p = q
    BY StateIs DEF IInv, ExclusiveOpen
  <2>6. QED
    BY <2>1, <2>2, <2>3, <2>4, <2>5 DEF Table!Sound
<1>2. QED
  BY <1>1, Inductive, PTL
=============================================================================
