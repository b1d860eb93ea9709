--------------------------- MODULE NspawnLifecycle ---------------------------
(***************************************************************************)
(* The isolation lifecycle of nspawn_in_subvol/cmd.py: _nspawn_setup with  *)
(* _snapshot_subvol, and the container process started through            *)
(* maybe_popen_and_inject_fds while the setup is held.                     *)
(*                                                                         *)
(* _nspawn_setup enters one of three contexts: nullcontext(opts.layer)     *)
(* when opts.snapshot is false; a snapshot into snapshot_into, which        *)
(* nothing deletes; or a TempSubvolumes snapshot, which TempSubvolumes      *)
(* deletes when the `with` ends.  Snapshot and clone_mounts may each       *)
(* raise, and so may the filesystem lookups of the command builder.  The   *)
(* caller then starts the container with `with maybe_popen_and_inject_fds  *)
(* (...) as proc`, whose Popen.__exit__ waits for the process; the         *)
(* container runs concurrently and exits on its own.  Under a              *)
(* KeyboardInterrupt, Popen.__exit__ (Python 3.7 and later) waits only     *)
(* _sigint_wait_secs = 0.25 s and returns without reaping a process that   *)
(* is still running.                                                       *)
(*                                                                         *)
(* The two ways of starting the process (popen, or                         *)
(* popen_and_inject_fds_after_sudo when opts.forward_fd is set) are one    *)
(* action: both are context managers that wait for the process on exit.    *)
(***************************************************************************)

VARIABLES
  mode,    \* "none" (opts.snapshot false), "ephemeral" or "persisted"
  stage,   \* where the setup and its caller are
  snap,    \* the snapshot subvolume _snapshot_subvol makes, if any
  proc,    \* the container process, as the OS sees it
  failed,  \* an exception propagates out of the `with`
  sigint   \* that exception is a KeyboardInterrupt (external cancellation)

lvars == <<mode, stage, snap, proc, failed, sigint>>

Modes == {"none", "ephemeral", "persisted"}

Stages == {"enter", "clone_mounts", "build", "caller", "running", "wait",
           "release", "done"}

(* "absent": not made; "created": snapshotted; "mounted": clone_mounts     *)
(* done; "deleted": removed by TempSubvolumes.                             *)
SnapStates == {"absent", "created", "mounted", "deleted"}

ProcStates == {"none", "running", "exited", "reaped"}

TypeOK ==
  /\ mode \in Modes
  /\ stage \in Stages
  /\ snap \in SnapStates
  /\ proc \in ProcStates
  /\ failed \in BOOLEAN
  /\ sigint \in BOOLEAN

(* opts.snapshot and opts.debug_only_opts.snapshot_into pick the context. *)
Init ==
  /\ mode \in Modes
  /\ stage = "enter"
  /\ snap = "absent"
  /\ proc = "none"
  /\ failed = FALSE
  /\ sigint = FALSE

(* Go to the `with`'s exit with an exception.  Before the process starts *)
(* a KeyboardInterrupt unwinds like any other exception.                   *)
Raise ==
  /\ stage' = "release"
  /\ failed' = TRUE
  /\ UNCHANGED sigint

(* nullcontext(opts.layer), or Subvol.snapshot / tmp_subvols.snapshot,    *)
(* which may fail and then makes nothing.                                  *)
Snapshot ==
  /\ stage = "enter"
  /\ \/ /\ mode = "none"
        /\ stage' = "build"
        /\ UNCHANGED <<snap, failed, sigint>>
     \/ /\ mode # "none"
        /\ snap' = "created"
        /\ stage' = "clone_mounts"
        /\ UNCHANGED <<failed, sigint>>
     \/ /\ mode # "none"
        /\ Raise
        /\ UNCHANGED snap
  /\ UNCHANGED <<mode, proc>>

(* clone_mounts(src_subvol, nspawn_subvol), which may fail. *)
CloneMounts ==
  /\ stage = "clone_mounts"
  /\ \/ /\ snap' = "mounted"
        /\ stage' = "build"
        /\ UNCHANGED <<failed, sigint>>
     \/ /\ Raise
        /\ UNCHANGED snap
  /\ UNCHANGED <<mode, proc>>

(* _extra_nspawn_args_and_env and the yield of the _NspawnSetup; the       *)
(* filesystem lookups (_exists_in_image, _artifacts_may_require_repo) may  *)
(* raise.                                                                  *)
Build ==
  /\ stage = "build"
  /\ \/ /\ stage' = "caller"
        /\ UNCHANGED <<failed, sigint>>
     \/ Raise
  /\ UNCHANGED <<mode, snap, proc>>

(* `with maybe_popen_and_inject_fds(...) as proc`: the process starts, or *)
(* the Popen raises and nothing was started.                               *)
Launch ==
  /\ stage = "caller"
  /\ \/ /\ proc' = "running"
        /\ stage' = "running"
        /\ UNCHANGED <<failed, sigint>>
     \/ /\ Raise
        /\ UNCHANGED proc
  /\ UNCHANGED <<mode, snap>>

(* The container's process exits on its own. *)
ProcExit ==
  /\ proc = "running"
  /\ proc' = "exited"
  /\ UNCHANGED <<mode, stage, snap, failed, sigint>>

(* The caller's body inside the `with ... as proc` ends: it returns, it   *)
(* raises, or the user's Ctrl-C raises KeyboardInterrupt in it.            *)
Body ==
  /\ stage = "running"
  /\ stage' = "wait"
  /\ \E r \in {"return", "error", "interrupt"} :
       /\ failed' = (r # "return")
       /\ sigint' = (r = "interrupt")
  /\ UNCHANGED <<mode, snap, proc>>

(* Bug variant of Wait: the process is not waited for, as with a popen    *)
(* result used without entering it.                                        *)
WaitNoBlock ==
  /\ stage = "wait"
  /\ stage' = "release"
  /\ UNCHANGED <<mode, snap, proc, failed, sigint>>

(* Popen.__exit__ without a KeyboardInterrupt: self.wait() blocks until   *)
(* the container process exits, and reaps it.                              *)
Wait ==
  /\ stage = "wait"
  /\ ~sigint
  /\ proc = "exited"
  /\ proc' = "reaped"
  /\ stage' = "release"
  /\ UNCHANGED <<mode, snap, failed, sigint>>

(* Popen.__exit__ under KeyboardInterrupt, raised by the body or arriving *)
(* while self.wait() blocks (Popen.wait then waits 0.25 s and re-raises):  *)
(* self._wait(timeout=0.25) reaps a process that has exited, and a         *)
(* TimeoutExpired is swallowed, so a running one is left unreaped; the     *)
(* KeyboardInterrupt goes on to the setup's `with`.                        *)
InterruptedWait ==
  /\ stage = "wait"
  /\ sigint \/ proc = "running"
  /\ proc' = IF proc = "exited" THEN "reaped" ELSE proc
  /\ failed' = TRUE
  /\ sigint' = TRUE
  /\ stage' = "release"
  /\ UNCHANGED <<mode, snap>>

(* Bug variant of Release: the temporary snapshot deleted only when the   *)
(* `with` ends normally, as code after the yield rather than in a         *)
(* `finally` would.                                                        *)
ReleaseOnSuccess ==
  /\ stage = "release"
  /\ snap' = IF mode = "ephemeral" /\ snap # "absent" /\ ~failed
               THEN "deleted" ELSE snap
  /\ stage' = "done"
  /\ UNCHANGED <<mode, proc, failed, sigint>>

(* The `with` around the setup exits: TempSubvolumes.__exit__ deletes the  *)
(* temporary snapshot whatever happened; a persisted one is left, and      *)
(* nullcontext does nothing.                                               *)
Release ==
  /\ stage = "release"
  /\ snap' = IF mode = "ephemeral" /\ snap # "absent" THEN "deleted" ELSE snap
  /\ stage' = "done"
  /\ UNCHANGED <<mode, proc, failed, sigint>>

(* The call has returned or raised. *)
Done ==
  /\ stage = "done"
  /\ UNCHANGED lvars

Next ==
  \/ Snapshot \/ CloneMounts \/ Build \/ Launch \/ ProcExit \/ Body
  \/ Wait \/ InterruptedWait \/ Release \/ Done

Spec == Init /\ [][Next]_lvars

-----------------------------------------------------------------------------
(***************************************************************************)
(* Properties.                                                             *)
(***************************************************************************)

(* Spec 4.3 and 5 want the snapshot released only after the isolation    *)
(* process is terminated.  The code ensures it on every path but one: a    *)
(* deleted temporary snapshot has a container process still running in    *)
(* it, or unreaped, only when a KeyboardInterrupt cut Popen.__exit__'s     *)
(* wait short.  On that path the deletion under a live container is        *)
(* reachable, against spec 4.3's "external cancellation".                  *)
SnapshotOutlivesProcess ==
  snap = "deleted" /\ proc \notin {"none", "reaped"} => sigint

(* Spec 4.3: on every exit path, normal, failing or cancelled, the         *)
(* ephemeral snapshot is removed by the end of the call, and a persisted  *)
(* one that was fully prepared is left intact.                             *)
SnapshotReleased ==
  stage = "done" =>
    /\ mode = "ephemeral" => snap \in {"absent", "deleted"}
    /\ mode = "persisted" /\ ~failed => snap = "mounted"

=============================================================================
