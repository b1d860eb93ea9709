------------------------- MODULE SocketHandoff_proofs -------------------------
(***************************************************************************)
(* Proofs about the socket handoff, for every number of sockets.           *)
(*                                                                         *)
(* HandoffComplete speaks only of the end of the call.  It holds because   *)
(* of what each side knows at each stage: the helper's sockets are always  *)
(* 1..k for the k made so far, and all of them when it sends; a message    *)
(* carries none or all of them; once the orchestrator has closed its end   *)
(* nothing more can be queued to it; and the count assert, the wait and    *)
(* the status check each pass on what they established.  IInv states it.   *)
(***************************************************************************)
EXTENDS SocketHandoff, FiniteSetTheorems, TLAPS

(* The helper's sockets are those made so far, in order. *)
HSocksShape == \E k \in 0 .. NumSocks : hsocks = 1 .. k

(* The helper sends only once every socket is made. *)
SendReady == hpc = "send" => hsocks = Socks

(* A message carries every socket or none, and only a sent one any. *)
InflightShape ==
  /\ inflight \in {{}, Socks}
  /\ msg # "sent" => inflight = {}

(* The orchestrator received every socket or none. *)
OsocksShape == osocks \in {{}, Socks}

(* Once the orchestrator's end is closed, nothing is queued to it. *)
ClosedNoInflight == oconn = "closed" => inflight = {}

(* What the orchestrator has established at each stage. *)
OPhase ==
  /\ opc = "closing" => raised
  /\ opc = "count" => oconn = "closed"
  /\ opc = "wait" /\ ~raised => oconn = "closed" /\ osocks = Socks
  /\ opc = "check" =>
       ~raised /\ oconn = "closed" /\ osocks = Socks /\ hpc = "exited"
  /\ opc = "done" /\ ~raised =>
       /\ oconn = "closed" /\ osocks = Socks /\ hpc = "exited"
       /\ hrc = "zero"

(* An exited helper holds no socket. *)
ExitedClean == hpc = "exited" => hsocks = {}

IInv ==
  /\ TypeOK
  /\ HSocksShape
  /\ SendReady
  /\ InflightShape
  /\ OsocksShape
  /\ ClosedNoInflight
  /\ OPhase
  /\ ExitedClean

(* TypeOK less its Boolean-valued conjuncts, with the rest of IInv: the   *)
(* SMT backend proves this part, Zenon the Booleans.                       *)
Core ==
  /\ opc \in OPCs
  /\ hpc \in HPCs
  /\ hrc \in {"none", "zero", "nonzero"}
  /\ oconn \in ConnStates
  /\ hconn \in ConnStates
  /\ msg \in {"none", "sent", "read", "dropped"}
  /\ inflight \in SUBSET Socks
  /\ hsocks \in SUBSET Socks
  /\ osocks \in SUBSET Socks
  /\ HSocksShape
  /\ SendReady
  /\ InflightShape
  /\ OsocksShape
  /\ ClosedNoInflight
  /\ OPhase
  /\ ExitedClean

USE NumSocksAssumption

LEMMA CardInterval == ASSUME NEW k \in Nat PROVE Cardinality(1 .. k) = k
BY FS_Interval

LEMMA IInvSplit == IInv <=> Core /\ raised \in BOOLEAN /\ pending \in BOOLEAN
BY Zenon DEF IInv, Core, TypeOK

LEMMA InitIInv == Init => IInv
<1> SUFFICES ASSUME Init PROVE IInv
  OBVIOUS
<1>1. Core
  <2>1. HSocksShape
    BY DEF Init, HSocksShape
  <2>2. QED
    BY <2>1 DEF Init, Core, SendReady, InflightShape, OsocksShape,
               ClosedNoInflight, OPhase, ExitedClean, OPCs, HPCs, ConnStates
<1>2. raised \in BOOLEAN /\ pending \in BOOLEAN
  BY Zenon DEF Init
<1>3. QED
  BY <1>1, <1>2, IInvSplit

LEMMA NextBooleans ==
  IInv /\ [Next]_vars => raised' \in BOOLEAN /\ pending' \in BOOLEAN
BY Zenon DEF IInv, TypeOK, Next, vars, OSpawn, OConnect, ORecv,
             ORecvTimeout, OClose, OCount, OWait, OCheck, HStart, HAccept,
             HCreate, HSend, HRaise, HCloseSock, HExit, HKill, Terminated

LEMMA NextCore == IInv /\ [Next]_vars => Core'
<1> SUFFICES ASSUME Core, [Next]_vars PROVE Core'
  BY IInvSplit
<1> USE DEF Core, SendReady, InflightShape, OsocksShape, ClosedNoInflight,
           OPhase, ExitedClean, OPCs, HPCs, ConnStates, Socks
<1>1. CASE OSpawn
  BY <1>1 DEF OSpawn, HSocksShape
<1>2. CASE OConnect
  BY <1>2 DEF OConnect, HSocksShape
<1>3. CASE ORecv
  <2>1. CASE msg = "sent"
    BY <1>3, <2>1 DEF ORecv, HSocksShape
  <2>2. CASE msg = "none"
    BY <1>3, <2>2 DEF ORecv, HSocksShape
  <2>3. QED
    BY <1>3, <2>1, <2>2 DEF ORecv
<1>4. CASE ORecvTimeout
  BY <1>4 DEF ORecvTimeout, HSocksShape
<1>5. CASE OClose
  BY <1>5 DEF OClose, HSocksShape
<1>6. CASE OCount
  <2>1. Cardinality({}) = 0 /\ Cardinality(Socks) = NumSocks
    BY CardInterval, FS_EmptySet
  <2>2. ~raised' => osocks = Socks
    <3>1. CASE osocks = Socks
      BY <3>1
    <3>2. CASE osocks = {}
      <4>1. ~raised' => NumSocks = 0
        BY <1>6, <2>1, <3>2 DEF OCount
      <4>2. NumSocks = 0 => Socks = {}
        OBVIOUS
      <4>3. QED
        BY <3>2, <4>1, <4>2
    <3>3. QED
      BY <3>1, <3>2
  <2>3. QED
    BY <1>6, <2>2 DEF OCount, HSocksShape
<1>7. CASE OWait
  BY <1>7 DEF OWait, HSocksShape
<1>8. CASE OCheck
  BY <1>8 DEF OCheck, HSocksShape
<1>9. CASE HStart
  BY <1>9 DEF HStart, HSocksShape
<1>10. CASE HAccept
  BY <1>10 DEF HAccept, HSocksShape
<1>11. CASE HCreate
  <2>1. PICK k \in 0 .. NumSocks : hsocks = 1 .. k
    BY DEF HSocksShape
  <2>2. Cardinality(hsocks) = k
    BY <2>1, CardInterval
  <2>3. k < NumSocks /\ hsocks' = 1 .. (k + 1)
    BY <1>11, <2>2 DEF HCreate
  <2>4. HSocksShape'
    BY <2>3 DEF HSocksShape
  <2>5. QED
    BY <1>11, <2>1, <2>2, <2>3, <2>4 DEF HCreate
<1>12. CASE HSend
  BY <1>12 DEF HSend, HSocksShape
<1>13. CASE HRaise
  BY <1>13 DEF HRaise, HSocksShape
<1>14. CASE HCloseSock
  <2>1. PICK k \in 0 .. NumSocks : hsocks = 1 .. k
    BY DEF HSocksShape
  <2>2. Cardinality(hsocks) = k
    BY <2>1, CardInterval
  <2>3. k > 0 /\ hsocks' = 1 .. (k - 1)
    BY <1>14, <2>1, <2>2 DEF HCloseSock
  <2>4. HSocksShape' /\ hsocks' \in SUBSET Socks
    BY <2>1, <2>3 DEF HSocksShape
  <2>5. QED
    BY <1>14, <2>4 DEF HCloseSock
<1>15. CASE HExit
  BY <1>15 DEF HExit, HSocksShape
<1>16. CASE HKill
  <2>1. HSocksShape'
    BY <1>16 DEF HKill, HSocksShape
  <2>2. QED
    BY <1>16, <2>1 DEF HKill
<1>17. CASE Terminated \/ UNCHANGED vars
  <2>1. /\ opc' = opc /\ raised' = raised /\ hpc' = hpc /\ hrc' = hrc
        /\ pending' = pending /\ oconn' = oconn /\ hconn' = hconn
        /\ msg' = msg /\ inflight' = inflight /\ hsocks' = hsocks
        /\ osocks' = osocks
    BY <1>17 DEF Terminated, vars
  <2>2. QED
    BY <2>1 DEF HSocksShape
<1>19. QED
  BY <1>1, <1>2, <1>3, <1>4, <1>5, <1>6, <1>7, <1>8, <1>9, <1>10, <1>11,
     <1>12, <1>13, <1>14, <1>15, <1>16, <1>17 DEF Next

LEMMA NextIInv == IInv /\ [Next]_vars => IInv'
<1> SUFFICES ASSUME IInv, [Next]_vars PROVE IInv'
  OBVIOUS
<1>1. Core' /\ raised' \in BOOLEAN /\ pending' \in BOOLEAN
  BY NextCore, NextBooleans
<1>2. QED
  BY <1>1, Zenon DEF IInv, TypeOK, Core

(* The handoff's state is always well-typed, whatever NumSocks is. *)
THEOREM HandoffTypeCorrect == Spec => []TypeOK
<1>1. IInv => TypeOK
  BY DEF IInv
<1>2. QED
  BY InitIInv, NextIInv, <1>1, PTL DEF Spec

(* For every number of sockets, whatever the helper does and whenever it   *)
(* dies or times out: when _create_sockets_inside_netns returns, it        *)
(* returns all the sockets, from a helper that exited 0 and kept none,     *)
(* with none left queued.                                                  *)
THEOREM HandoffCorrect == Spec => []HandoffComplete
<1>1. IInv => HandoffComplete
  BY DEF IInv, OPhase, ExitedClean, ClosedNoInflight, HandoffComplete
<1>2. QED
  BY InitIInv, NextIInv, <1>1, PTL DEF Spec

=============================================================================
