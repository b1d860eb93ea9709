--------------------------- MODULE NspawnRun_proofs ---------------------------
(***************************************************************************)
(* Proofs about a sandboxed run with repo servers, for every number of     *)
(* ports.                                                                  *)
(*                                                                         *)
(* The supervisor's steps touch none of the lifecycle's variables, and     *)
(* the caller's body is the lifecycle's Body with a guard added, so every  *)
(* step of NspawnRun is a step of the lifecycle or leaves its variables    *)
(* alone.  The lifecycle's inductive invariant then carries over to the    *)
(* whole run unchanged.                                                    *)
(***************************************************************************)
EXTENDS NspawnRun, NspawnLifecycle_proofs, TLAPS

(* A step of the run is a step of the lifecycle, or leaves it alone. *)
LEMMA LifecycleOfRun == [RunNext]_vars => [Next]_lvars
<1> SUFFICES ASSUME [RunNext]_vars PROVE [Next]_lvars
  OBVIOUS
<1>1. CASE LifecycleStep
  BY <1>1 DEF LifecycleStep, Next
<1>2. CASE ServerStep
  BY <1>2 DEF ServerStep, lvars
<1>3. CASE ServeBody
  BY <1>3 DEF ServeBody, Next
<1>4. CASE UNCHANGED vars
  BY <1>4 DEF vars
<1>5. QED
  BY <1>1, <1>2, <1>3, <1>4 DEF RunNext

LEMMA RunInitIInv == RunInit => IInv
BY InitIInv DEF RunInit

LEMMA RunNextIInv == IInv /\ [RunNext]_vars => IInv'
BY LifecycleOfRun, NextIInv

(* The lifecycle's two safety properties hold of the whole run: serving   *)
(* repo servers inside the container changes neither.  The temporary     *)
(* snapshot is deleted under a live container only when a                 *)
(* KeyboardInterrupt cut Popen.__exit__'s wait short, and on every path   *)
(* the ephemeral snapshot is gone by the end of the call.                 *)
THEOREM RunSnapshotSafety ==
  RunSpec => [](SnapshotOutlivesProcess /\ SnapshotReleased)
<1>1. IInv => SnapshotOutlivesProcess /\ SnapshotReleased
  BY DEF IInv, ProcByStage, DeletedOnlyAtEnd, SnapshotOutlivesProcess
<1>2. QED
  BY <1>1, RunInitIInv, RunNextIInv, PTL DEF RunSpec

=============================================================================
