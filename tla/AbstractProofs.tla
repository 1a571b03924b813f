---------------------------- MODULE AbstractProofs ----------------------------
(***************************************************************************)
(* The abstract specifications give what their users rely on: the reports  *)
(* of a link, and the table of ports.  PortStatus and DeviceList implement *)
(* them (PortStatusProofs, DeviceListProofs).                              *)
(***************************************************************************)
EXTENDS TLAPS

CONSTANTS Ports, Slots, Names, Unshared, Threads, Null

VARIABLES connected, due, told, closed
VARIABLES state, slot, title, running, using

Report == INSTANCE LinkReport
Table == INSTANCE PortTable

-----------------------------------------------------------------------------
(* The reports of a link: the invariant is inductive as it stands.         *)

\* Every step of LinkReport keeps the user informed.
LEMMA TruthfulStep ==
    Report!TypeOK /\ Report!Truthful /\ [Report!Next]_(Report!vars)
    => Report!TypeOK' /\ Report!Truthful'
<1> SUFFICES ASSUME Report!TypeOK, Report!Truthful, [Report!Next]_(Report!vars)
             PROVE  Report!TypeOK' /\ Report!Truthful'
  OBVIOUS
<1> USE DEF Report!TypeOK, Report!Truthful, Report!Messages
<1>1. CASE Report!Connect
  BY <1>1 DEF Report!Connect
<1>2. CASE Report!TellConnected
  BY <1>2 DEF Report!TellConnected
<1>3. CASE Report!Disconnect
  <2>1. told = "connected"
    BY <1>3 DEF Report!Disconnect
  <2>2. QED
    BY <1>3, <2>1 DEF Report!Disconnect
<1>4. CASE Report!TellDisconnected
  <2>1. CASE connected
    BY <1>4, <2>1 DEF Report!TellDisconnected
  <2>2. CASE ~connected
    BY <1>4, <2>2 DEF Report!TellDisconnected
  <2>3. QED
    BY <2>1, <2>2
<1>5. CASE Report!Close
  BY <1>5 DEF Report!Close
<1>6. CASE UNCHANGED Report!vars
  BY <1>6 DEF Report!vars
<1>7. QED
  BY <1>1, <1>2, <1>3, <1>4, <1>5, <1>6 DEF Report!Next

\* The user knows the state of the link, or is about to be told it (Truthful).
THEOREM UserInformed == Report!Spec => []Report!Truthful
<1>1. Report!Init => Report!TypeOK /\ Report!Truthful
  BY DEF Report!Init, Report!TypeOK, Report!Truthful, Report!Messages
<1>2. QED
  BY <1>1, TruthfulStep, PTL DEF Report!Spec

-----------------------------------------------------------------------------
(* The table of ports: the invariant is inductive as it stands.            *)

\* Every step of PortTable keeps the table sound.
LEMMA SoundStep ==
    Table!TypeOK /\ Table!Sound /\ [Table!Next]_(Table!vars)
    => Table!TypeOK' /\ Table!Sound'
<1> SUFFICES ASSUME Table!TypeOK, Table!Sound, [Table!Next]_(Table!vars)
             PROVE  Table!TypeOK' /\ Table!Sound'
  OBVIOUS
<1> USE DEF Table!TypeOK, Table!Sound
<1>1. ASSUME NEW p \in Ports, NEW d \in Slots, NEW n \in Names, Table!Open(p, d, n)
      PROVE  Table!TypeOK' /\ Table!Sound'
  BY <1>1 DEF Table!Open
<1>2. ASSUME NEW p \in Ports, Table!Close(p) PROVE Table!TypeOK' /\ Table!Sound'
  BY <1>2 DEF Table!Close
<1>3. ASSUME NEW p \in Ports, Table!Ends(p) PROVE Table!TypeOK' /\ Table!Sound'
  BY <1>3 DEF Table!Ends
<1>4. ASSUME NEW p \in Ports, Table!Delete(p) PROVE Table!TypeOK' /\ Table!Sound'
  BY <1>4 DEF Table!Delete
<1>5. ASSUME NEW t \in Threads, Table!Return(t) PROVE Table!TypeOK' /\ Table!Sound'
  BY <1>5 DEF Table!Return
<1>6. ASSUME NEW t \in Threads, NEW p \in Ports, Table!Use(t, p)
      PROVE  Table!TypeOK' /\ Table!Sound'
  BY <1>6 DEF Table!Use
<1>7. CASE UNCHANGED Table!vars
  BY <1>7 DEF Table!vars
<1>8. QED
  BY <1>1, <1>2, <1>3, <1>4, <1>5, <1>6, <1>7 DEF Table!Next

\* Ports are used one thread at a time and only while they are open, and no slot
\* and no name that cannot be shared has two of them (Sound).
THEOREM TableSound == Table!Spec => []Table!Sound
<1>1. Table!Init => Table!TypeOK /\ Table!Sound
  BY DEF Table!Init, Table!TypeOK, Table!Sound
<1>2. QED
  BY <1>1, SoundStep, PTL DEF Table!Spec
===============================================================================
