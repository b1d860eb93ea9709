--------------------------- MODULE SocketHandoff ---------------------------
(***************************************************************************)
(* The cross-namespace socket handoff of                                   *)
(* nspawn_in_subvol/launch_repo_servers.py: _create_sockets_inside_netns   *)
(* (the orchestrator) and the script of _make_sockets_and_send_via (the    *)
(* helper that `sudo nsenter --net --target PID` runs inside the           *)
(* container's network namespace).                                         *)
(*                                                                         *)
(* The orchestrator makes a listening Unix socket and passes it to the     *)
(* helper as its FD 1.  It then connects to that socket itself and waits,  *)
(* with a timeout, for one message (recv_fds_from_unix_sock).  The helper  *)
(* accepts that connection (with a timeout), makes NumSocks TCP sockets    *)
(* in its namespace, sends all of them in one SCM_RIGHTS message and exits *)
(* closing its copies.  The orchestrator asserts that it got NumSocks      *)
(* descriptors, waits for the helper to exit (Popen.__exit__) and raises   *)
(* if its exit status is not 0 (check_popen_returncode).                   *)
(*                                                                         *)
(* listen_temporary_unix_socket, recv_fds_from_unix_sock and               *)
(* check_popen_returncode live in fs_image/common.py, which is not among   *)
(* the sources; they are modelled from the spec (4.4).  The helper may die *)
(* at any point: sudo or nsenter failing, a timeout, EMFILE, EPIPE, a      *)
(* signal.  Sockets are 1..NumSocks.                                       *)
(***************************************************************************)
EXTENDS Naturals, FiniteSets

CONSTANT NumSocks   \* num_socks: one per repo-server port

ASSUME NumSocksAssumption == NumSocks \in Nat

Socks == 1 .. NumSocks

VARIABLES
  opc,       \* where the orchestrator is
  raised,    \* an exception propagates in the orchestrator
  hpc,       \* where the helper process is
  hrc,       \* the helper's exit status
  pending,   \* a connection waits, not yet accepted, on the listening socket
  oconn,     \* the orchestrator's end of the connection
  hconn,     \* the helper's end of the connection (csock)
  msg,       \* the one SCM_RIGHTS message: "none", "sent", "read", "dropped"
  inflight,  \* descriptors queued in that message
  hsocks,    \* sockets the helper holds open
  osocks     \* sockets the orchestrator has received

vars == <<opc, raised, hpc, hrc, pending, oconn, hconn, msg, inflight,
          hsocks, osocks>>

OPCs == {"spawn", "connect", "recv", "closing", "count", "wait", "check",
         "done"}

HPCs == {"idle", "start", "accept", "create", "send", "exit", "unwind",
         "exited"}

ConnStates == {"none", "open", "closed"}

TypeOK ==
  /\ opc \in OPCs
  /\ raised \in BOOLEAN
  /\ hpc \in HPCs
  /\ hrc \in {"none", "zero", "nonzero"}
  /\ pending \in BOOLEAN
  /\ oconn \in ConnStates
  /\ hconn \in ConnStates
  /\ msg \in {"none", "sent", "read", "dropped"}
  /\ inflight \in SUBSET Socks
  /\ hsocks \in SUBSET Socks
  /\ osocks \in SUBSET Socks

Init ==
  /\ opc = "spawn"
  /\ raised = FALSE
  /\ hpc = "idle"
  /\ hrc = "none"
  /\ pending = FALSE
  /\ oconn = "none"
  /\ hconn = "none"
  /\ msg = "none"
  /\ inflight = {}
  /\ hsocks = {}
  /\ osocks = {}

-----------------------------------------------------------------------------
(* Orchestrator: _create_sockets_inside_netns. *)

(* `with listen_temporary_unix_socket() ..., subprocess.Popen(['sudo', ... *)
(* 'nsenter', ...], stdout=list_sock.fileno())`: the helper starts, or     *)
(* Popen raises and the listening socket is closed.                        *)
OSpawn ==
  /\ opc = "spawn"
  /\ \/ /\ hpc' = "start"
        /\ opc' = "connect"
        /\ UNCHANGED raised
     \/ /\ opc' = "done"
        /\ raised' = TRUE
        /\ UNCHANGED hpc
  /\ UNCHANGED <<hrc, pending, oconn, hconn, msg, inflight, hsocks, osocks>>

(* recv_fds_from_unix_sock connects to the listening socket: the           *)
(* connection is queued in its backlog whether or not the helper accepts.  *)
OConnect ==
  /\ opc = "connect"
  /\ pending' = TRUE
  /\ oconn' = "open"
  /\ opc' = "recv"
  /\ UNCHANGED <<raised, hpc, hrc, hconn, msg, inflight, hsocks, osocks>>

(* recvmsg returns the message with its descriptors, or, once the helper   *)
(* has closed its end, end-of-file and no descriptors; the `with` around   *)
(* the connected socket then closes it.                                    *)
ORecv ==
  /\ opc = "recv"
  /\ \/ /\ msg = "sent"
        /\ osocks' = inflight
        /\ inflight' = {}
        /\ msg' = "read"
     \/ /\ msg = "none"
        /\ hconn = "closed"
        /\ UNCHANGED <<osocks, inflight, msg>>
  /\ oconn' = "closed"
  /\ opc' = "count"
  /\ UNCHANGED <<raised, hpc, hrc, pending, hconn, hsocks>>

(* FD_UNIX_SOCK_TIMEOUT passes with nothing to read: socket.timeout. *)
ORecvTimeout ==
  /\ opc = "recv"
  /\ msg = "none"
  /\ hconn # "closed"
  /\ opc' = "closing"
  /\ raised' = TRUE
  /\ UNCHANGED <<hpc, hrc, pending, oconn, hconn, msg, inflight, hsocks,
                 osocks>>

(* The timed-out connection is closed on the way out of the `with`; a      *)
(* message queued on it meanwhile is purged and its descriptors closed.    *)
OClose ==
  /\ opc = "closing"
  /\ oconn' = "closed"
  /\ inflight' = {}
  /\ msg' = IF msg = "sent" THEN "dropped" ELSE msg
  /\ opc' = "wait"
  /\ UNCHANGED <<raised, hpc, hrc, pending, hconn, hsocks, osocks>>

(* assert len(repo_server_socks) == num_socks *)
OCount ==
  /\ opc = "count"
  /\ opc' = "wait"
  /\ raised' = (Cardinality(osocks) # NumSocks)
  /\ UNCHANGED <<hpc, hrc, pending, oconn, hconn, msg, inflight, hsocks,
                 osocks>>

(* Popen.__exit__ waits for the helper, then the listening socket and its  *)
(* backlog are closed; an exception raised inside the `with` propagates.   *)
OWait ==
  /\ opc = "wait"
  /\ hpc = "exited"
  /\ pending' = FALSE
  /\ opc' = IF raised THEN "done" ELSE "check"
  /\ UNCHANGED <<raised, hpc, hrc, oconn, hconn, msg, inflight, hsocks,
                 osocks>>

(* Bug variant of OCheck: check_popen_returncode left out. *)
OCheckNoStatus ==
  /\ opc = "check"
  /\ opc' = "done"
  /\ raised' = FALSE
  /\ UNCHANGED <<hpc, hrc, pending, oconn, hconn, msg, inflight, hsocks,
                 osocks>>

(* check_popen_returncode(sock_proc), then return repo_server_socks. *)
OCheck ==
  /\ opc = "check"
  /\ opc' = "done"
  /\ raised' = (hrc # "zero")
  /\ UNCHANGED <<hpc, hrc, pending, oconn, hconn, msg, inflight, hsocks,
                 osocks>>

-----------------------------------------------------------------------------
(* Helper: the script of _make_sockets_and_send_via under sudo nsenter. *)

(* sudo, env, nsenter and python3 start and reach the script. *)
HStart ==
  /\ hpc = "start"
  /\ hpc' = "accept"
  /\ UNCHANGED <<opc, raised, hrc, pending, oconn, hconn, msg, inflight,
                 hsocks, osocks>>

(* csock = lsock.accept()[0] *)
HAccept ==
  /\ hpc = "accept"
  /\ pending
  /\ pending' = FALSE
  /\ hconn' = "open"
  /\ hpc' = IF NumSocks = 0 THEN "send" ELSE "create"
  /\ UNCHANGED <<opc, raised, hrc, oconn, msg, inflight, hsocks, osocks>>

(* Bug variant of HCreate: the script makes range(num_socks + 1) sockets. *)
HCreateOneMore ==
  /\ hpc = "create"
  /\ Cardinality(hsocks) < NumSocks + 1
  /\ hsocks' = 1 .. (Cardinality(hsocks) + 1)
  /\ hpc' = IF Cardinality(hsocks) = NumSocks THEN "send" ELSE "create"
  /\ UNCHANGED <<opc, raised, hrc, pending, oconn, hconn, msg, inflight,
                 osocks>>

(* Bug variant of HCreate: the last socket is counted before it is made, *)
(* so the script never gets past the list comprehension.                   *)
HCreateEndless ==
  /\ hpc = "create"
  /\ Cardinality(hsocks) < NumSocks
  /\ hsocks' = 1 .. (Cardinality(hsocks) + 1)
  /\ hpc' = IF Cardinality(hsocks) = NumSocks THEN "send" ELSE "create"
  /\ UNCHANGED <<opc, raised, hrc, pending, oconn, hconn, msg, inflight,
                 osocks>>

(* The list comprehension makes the sockets one by one; send_fds is only  *)
(* called once all num_socks exist.                                        *)
HCreate ==
  /\ hpc = "create"
  /\ Cardinality(hsocks) < NumSocks
  /\ hsocks' = 1 .. (Cardinality(hsocks) + 1)
  /\ hpc' = IF Cardinality(hsocks) + 1 = NumSocks THEN "send" ELSE "create"
  /\ UNCHANGED <<opc, raised, hrc, pending, oconn, hconn, msg, inflight,
                 osocks>>

(* send_fds(csock, b'ohai', fds): one sendmsg carries every descriptor;    *)
(* it needs the orchestrator's end to be open (else EPIPE: HRaise).         *)
HSend ==
  /\ hpc = "send"
  /\ oconn = "open"
  /\ msg' = "sent"
  /\ inflight' = hsocks
  /\ hpc' = "exit"
  /\ UNCHANGED <<opc, raised, hrc, pending, oconn, hconn, hsocks, osocks>>

(* An exception in the script: the accept times out with no connection,  *)
(* socket() fails (EMFILE), or sendmsg finds the peer closed (EPIPE).  It  *)
(* unwinds the script's ExitStack before Python exits with status 1.       *)
HRaise ==
  /\ \/ hpc = "accept" /\ ~pending
     \/ hpc = "create"
     \/ hpc = "send" /\ oconn = "closed"
  /\ hpc' = "unwind"
  /\ UNCHANGED <<opc, raised, hrc, pending, oconn, hconn, msg, inflight,
                 hsocks, osocks>>

(* Leaving the script's ExitStack, normally or by the exception, closes    *)
(* the sockets last entered first, from the last made down to the first... *)
HCloseSock ==
  /\ hpc \in {"exit", "unwind"}
  /\ hsocks # {}
  /\ hsocks' = 1 .. (Cardinality(hsocks) - 1)
  /\ UNCHANGED <<opc, raised, hpc, hrc, pending, oconn, hconn, msg, inflight,
                 osocks>>

(* ... then csock and lsock; the script ends, with status 0 unless it      *)
(* raised.                                                                 *)
HExit ==
  /\ hpc \in {"exit", "unwind"}
  /\ hsocks = {}
  /\ hconn' = IF hconn = "open" THEN "closed" ELSE hconn
  /\ hpc' = "exited"
  /\ hrc' = IF hpc = "exit" THEN "zero" ELSE "nonzero"
  /\ UNCHANGED <<opc, raised, pending, oconn, msg, inflight, hsocks, osocks>>

(* The helper dies at once: sudo or nsenter fails before the script, or a  *)
(* signal kills it.  The kernel closes its descriptors; status is not 0.   *)
HKill ==
  /\ hpc \in {"start", "accept", "create", "send", "exit", "unwind"}
  /\ hsocks' = {}
  /\ hconn' = IF hconn = "open" THEN "closed" ELSE hconn
  /\ hpc' = "exited"
  /\ hrc' = "nonzero"
  /\ UNCHANGED <<opc, raised, pending, oconn, msg, inflight, osocks>>

(* _create_sockets_inside_netns has returned or raised. *)
Terminated ==
  /\ opc = "done"
  /\ hpc \in {"idle", "exited"}
  /\ UNCHANGED vars

Next ==
  \/ OSpawn \/ OConnect \/ ORecv \/ ORecvTimeout \/ OClose \/ OCount
  \/ OWait \/ OCheck
  \/ HStart \/ HAccept \/ HCreate \/ HSend \/ HRaise \/ HCloseSock \/ HExit
  \/ HKill
  \/ Terminated

Spec == Init /\ [][Next]_vars

(***************************************************************************)
(* Fairness.  The orchestrator is one thread that keeps running; its recv  *)
(* has FD_UNIX_SOCK_TIMEOUT, so it returns or times out.  The helper       *)
(* script runs to its end: its accept has the same timeout, and a send to  *)
(* a closed peer fails at once with EPIPE.  That sudo and nsenter start    *)
(* the script (HStart) is assumed: the sudo policy must not prompt.  A     *)
(* failure while making the sockets (EMFILE) and a kill are never owed.   *)
(***************************************************************************)
Fairness ==
  /\ WF_vars(OSpawn \/ OConnect \/ ORecv \/ ORecvTimeout \/ OClose \/ OCount
             \/ OWait \/ OCheck)
  /\ WF_vars(HStart \/ HAccept \/ HCreate \/ HSend \/ HCloseSock \/ HExit)
  /\ WF_vars(HRaise /\ hpc # "create")

FairSpec == Spec /\ Fairness

-----------------------------------------------------------------------------
(***************************************************************************)
(* Properties.                                                             *)
(***************************************************************************)

(* When _create_sockets_inside_netns returns (rather than raising), it     *)
(* returns every one of the NumSocks sockets, the helper has exited with   *)
(* status 0 and holds none of them, and none is left queued: the caller    *)
(* owns them alone.                                                        *)
HandoffComplete ==
  (opc = "done" /\ ~raised) =>
    /\ osocks = Socks
    /\ hrc = "zero"
    /\ hsocks = {}
    /\ inflight = {}

(* Spec 5: no wait blocks forever.  Popen.__exit__ waits for the helper   *)
(* with no timeout, after the orchestrator may have given up on recv; the  *)
(* call still ends, because the helper's own steps each end or time out.   *)
HandoffTerminates == <>(opc = "done")

=============================================================================
