------------------------ MODULE NspawnLifecycle_proofs ------------------------
(***************************************************************************)
(* Proofs about the isolation lifecycle.                                   *)
(*                                                                         *)
(* Neither property is inductive as it stands.  SnapshotOutlivesProcess    *)
(* holds because a snapshot is deleted only by the `with`'s exit, which    *)
(* comes after Popen.__exit__ has reaped the process unless a              *)
(* KeyboardInterrupt cut its wait short; SnapshotReleased                  *)
(* because a persisted snapshot that reaches the setup's body unfailed     *)
(* has had its mounts cloned, and no exception is raised before the        *)
(* caller's body.  IInv states those facts about each stage.               *)
(***************************************************************************)
EXTENDS NspawnLifecycle, TLAPS

(* Before the process starts there is none; once the `with` around it has *)
(* exited it is reaped, unless that exit ran under a KeyboardInterrupt.   *)
ProcByStage ==
  /\ stage \in {"enter", "clone_mounts", "build", "caller"} => proc = "none"
  /\ stage \in {"release", "done"} => proc \in {"none", "reaped"} \/ sigint

(* Only TempSubvolumes deletes, and only at the end. *)
DeletedOnlyAtEnd == snap = "deleted" => stage = "done" /\ mode = "ephemeral"

(* Nothing has raised before the caller's body. *)
NoFailureBeforeBody ==
  stage \in {"enter", "clone_mounts", "build", "caller", "running"}
    => ~failed /\ ~sigint

(* A persisted snapshot past _snapshot_subvol without failure is mounted. *)
PersistedMounted ==
  (/\ mode = "persisted" /\ ~failed
   /\ stage \in {"build", "caller", "running", "wait", "release", "done"})
    => snap = "mounted"

(* Without opts.snapshot no snapshot is made, and no mounts cloned. *)
SnapByMode == mode = "none" => snap = "absent" /\ stage # "clone_mounts"

IInv ==
  /\ TypeOK
  /\ ProcByStage
  /\ DeletedOnlyAtEnd
  /\ NoFailureBeforeBody
  /\ PersistedMounted
  /\ SnapByMode
  /\ SnapshotReleased

(* IInv without the Boolean-valued conjuncts of TypeOK: the SMT backend   *)
(* proves the rest, Zenon that `failed` and `sigint` stay Boolean.          *)
Core ==
  /\ mode \in Modes
  /\ stage \in Stages
  /\ snap \in SnapStates
  /\ proc \in ProcStates
  /\ ProcByStage
  /\ DeletedOnlyAtEnd
  /\ NoFailureBeforeBody
  /\ PersistedMounted
  /\ SnapByMode
  /\ SnapshotReleased

LEMMA IInvSplit == IInv <=> Core /\ failed \in BOOLEAN /\ sigint \in BOOLEAN
BY Zenon DEF IInv, Core, TypeOK

LEMMA InitIInv == Init => IInv
<1> SUFFICES ASSUME Init PROVE IInv
  OBVIOUS
<1>1. Core
  BY DEF Init, Core, ProcByStage, DeletedOnlyAtEnd, NoFailureBeforeBody,
         PersistedMounted, SnapByMode, SnapshotReleased,
         Modes, Stages, SnapStates, ProcStates
<1>2. failed \in BOOLEAN /\ sigint \in BOOLEAN
  BY Zenon DEF Init
<1>3. QED
  BY <1>1, <1>2, IInvSplit

LEMMA NextFailed ==
  IInv /\ [Next]_lvars => failed' \in BOOLEAN /\ sigint' \in BOOLEAN
BY Zenon DEF IInv, TypeOK, Next, lvars, Snapshot, CloneMounts, Build, Launch,
             Raise, ProcExit, Body, Wait, InterruptedWait, Release, Done

LEMMA NextCore == IInv /\ [Next]_lvars => Core'
<1> SUFFICES ASSUME Core, [Next]_lvars PROVE Core'
  BY IInvSplit
<1> USE DEF Core, ProcByStage, DeletedOnlyAtEnd, NoFailureBeforeBody,
           PersistedMounted, SnapByMode, SnapshotReleased,
           Modes, Stages, SnapStates, ProcStates
<1>1. CASE Snapshot
  BY <1>1 DEF Snapshot, Raise
<1>2. CASE CloneMounts
  BY <1>2 DEF CloneMounts, Raise
<1>3. CASE Build
  BY <1>3 DEF Build, Raise
<1>4. CASE Launch
  BY <1>4 DEF Launch, Raise
<1>5. CASE ProcExit
  BY <1>5 DEF ProcExit
<1>6. CASE Body
  BY <1>6 DEF Body
<1>7. CASE Wait
  BY <1>7 DEF Wait
<1>8. CASE InterruptedWait
  BY <1>8 DEF InterruptedWait
<1>9. CASE Release
  BY <1>9 DEF Release
<1>10. CASE Done
  BY <1>10 DEF Done, lvars
<1>11. CASE UNCHANGED lvars
  BY <1>11 DEF lvars
<1>12. QED
  BY <1>1, <1>2, <1>3, <1>4, <1>5, <1>6, <1>7, <1>8, <1>9, <1>10, <1>11
  DEF Next

LEMMA NextIInv == IInv /\ [Next]_lvars => IInv'
<1> SUFFICES ASSUME IInv, [Next]_lvars PROVE IInv'
  OBVIOUS
<1>1. Core' /\ failed' \in BOOLEAN /\ sigint' \in BOOLEAN
  BY NextCore, NextFailed
<1>2. QED
  BY <1>1, Zenon DEF IInv, TypeOK, Core

(* The lifecycle's state is always well-typed. *)
THEOREM LifecycleTypeCorrect == Spec => []TypeOK
<1>1. IInv => TypeOK
  BY DEF IInv
<1>2. QED
  BY InitIInv, NextIInv, <1>1, PTL DEF Spec

(* On every path through _nspawn_setup and the caller's                    *)
(* `with maybe_popen_and_inject_fds(...)` that a KeyboardInterrupt does    *)
(* not cut short, the temporary snapshot is deleted only after the         *)
(* container process has been reaped: the only deletion under a live      *)
(* container is the cancellation path of Popen.__exit__.                    *)
THEOREM SnapshotAfterProcess == Spec => []SnapshotOutlivesProcess
<1>1. IInv => SnapshotOutlivesProcess
  BY DEF IInv, ProcByStage, DeletedOnlyAtEnd, SnapshotOutlivesProcess
<1>2. QED
  BY InitIInv, NextIInv, <1>1, PTL DEF Spec

(* Whatever raises and wherever, by the end of the call the ephemeral     *)
(* snapshot is gone and a persisted one that was set up without error is   *)
(* left intact with its mounts.                                            *)
THEOREM SnapshotAlwaysReleased == Spec => []SnapshotReleased
<1>1. IInv => SnapshotReleased
  BY DEF IInv
<1>2. QED
  BY InitIInv, NextIInv, <1>1, PTL DEF Spec

=============================================================================
