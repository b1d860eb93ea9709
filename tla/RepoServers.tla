---------------------------- MODULE RepoServers ----------------------------
(***************************************************************************)
(* The repo-server supervisor of nspawn_in_subvol/launch_repo_servers.py:  *)
(* launch_repo_servers_for_netns and the _launch_repo_server context       *)
(* manager it enters once per port.                                        *)
(*                                                                         *)
(* The orchestrator holds an ExitStack.  It obtains one socket per port    *)
(* from inside the container's network namespace, then for each (socket,   *)
(* port) pair it binds the socket, spawns a repo-server subprocess that    *)
(* inherits it, polls until the server exits or the socket listens, and    *)
(* pushes the server's context onto the stack.  It then yields to its      *)
(* caller; on the way out, normal or exceptional, the ExitStack unwinds    *)
(* last-in first-out: kill the server, reap it, close the parent's copy    *)
(* of its socket.                                                          *)
(*                                                                         *)
(* The repo-server subprocesses run concurrently with the orchestrator:    *)
(* each may start listening or die at any moment.  The socket handoff      *)
(* (_create_sockets_inside_netns) is one step here that yields all the     *)
(* sockets or raises; SocketHandoff.tla models its protocol.               *)
(*                                                                         *)
(* Servers and sockets are indexed by their position in the zip of         *)
(* sockets with ports, 1..NumPorts.                                        *)
(***************************************************************************)
EXTENDS Naturals, Sequences

CONSTANT NumPorts   \* len(repo_server_ports), the distinct ports read

ASSUME NumPortsAssumption == NumPorts \in Nat

Idx == 1 .. NumPorts

VARIABLES
  pc,         \* where launch_repo_servers_for_netns is
  cur,        \* index of the (sock, port) pair the for loop is at
  stack,      \* the ExitStack: indices of the entered server contexts
  server,     \* each repo-server subprocess, as the OS sees it
  listening,  \* SO_ACCEPTCONN of each socket
  sock,       \* the orchestrator's copy of each socket
  raised      \* an exception propagates out of `with ExitStack()`

vars == <<pc, cur, stack, server, listening, sock, raised>>

PCs == {"create", "bind", "spawn", "wait", "serving", "unwind", "done"}

(* "none": not spawned; "running": alive; "exited": dead, not yet reaped; *)
(* "reaped": waited for by Popen.__exit__.                                *)
ServerStates == {"none", "running", "exited", "reaped"}

SockStates == {"none", "open", "bound", "closed"}

(* Servers whose process exists: a live one, or a zombie not yet reaped. *)
Alive(i) == server[i] \in {"running", "exited"}

TypeOK ==
  /\ pc \in PCs
  /\ cur \in 1 .. NumPorts + 1
  /\ stack \in Seq(Idx)
  /\ server \in [Idx -> ServerStates]
  /\ listening \in [Idx -> BOOLEAN]
  /\ sock \in [Idx -> SockStates]
  /\ raised \in BOOLEAN

Init ==
  /\ pc = "create"
  /\ cur = 1
  /\ stack = << >>
  /\ server = [i \in Idx |-> "none"]
  /\ listening = [i \in Idx |-> FALSE]
  /\ sock = [i \in Idx |-> "none"]
  /\ raised = FALSE

(* Bug variant of CreateSockets: one socket more than there are ports. *)
CreateSocketsOneMore ==
  /\ pc = "create"
  /\ \/ /\ sock' = [i \in 1 .. NumPorts + 1 |-> "open"]
        /\ pc' = IF NumPorts = 0 THEN "serving" ELSE "bind"
        /\ UNCHANGED raised
     \/ /\ pc' = "unwind"
        /\ raised' = TRUE
        /\ UNCHANGED sock
  /\ UNCHANGED <<cur, stack, server, listening>>

(***************************************************************************)
(* _create_sockets_inside_netns(target_pid, len(repo_server_ports)): all   *)
(* the sockets arrive, or it raises with nothing on the stack yet.         *)
(***************************************************************************)
CreateSockets ==
  /\ pc = "create"
  /\ \/ /\ sock' = [i \in Idx |-> "open"]
        /\ pc' = IF NumPorts = 0 THEN "serving" ELSE "bind"
        /\ UNCHANGED raised
     \/ /\ pc' = "unwind"
        /\ raised' = TRUE
        /\ UNCHANGED sock
  /\ UNCHANGED <<cur, stack, server, listening>>

(* sock.bind(('127.0.0.1', port)); EADDRINUSE raises, and the socket is    *)
(* in no `with`, so nothing closes it.                                     *)
Bind ==
  /\ pc = "bind"
  /\ \/ /\ sock' = [sock EXCEPT ![cur] = "bound"]
        /\ pc' = "spawn"
        /\ UNCHANGED raised
     \/ /\ pc' = "unwind"
        /\ raised' = TRUE
        /\ UNCHANGED sock
  /\ UNCHANGED <<cur, stack, server, listening>>

(* `with sock, subprocess.Popen([...], pass_fds=[sock.fileno()])`: the     *)
(* server starts; if Popen raises, `with sock` closes the socket.          *)
Spawn ==
  /\ pc = "spawn"
  /\ \/ /\ server' = [server EXCEPT ![cur] = "running"]
        /\ pc' = "wait"
        /\ UNCHANGED <<sock, raised>>
     \/ /\ sock' = [sock EXCEPT ![cur] = "closed"]
        /\ pc' = "unwind"
        /\ raised' = TRUE
        /\ UNCHANGED server
  /\ UNCHANGED <<cur, stack, listening>>

(* Bug variants of Ready, each a plausible slip in the code it models:   *)
(* the context entered outside the ExitStack (`__enter__()` by hand), and  *)
(* the loop waiting on SO_ACCEPTCONN alone, without poll().                *)
ReadyOutsideStack ==
  /\ pc = "wait"
  /\ server[cur] = "exited" \/ listening[cur]
  /\ cur' = cur + 1
  /\ pc' = IF cur = NumPorts THEN "serving" ELSE "bind"
  /\ UNCHANGED <<stack, server, listening, sock, raised>>

ReadyOnListenOnly ==
  /\ pc = "wait"
  /\ listening[cur]
  /\ stack' = Append(stack, cur)
  /\ cur' = cur + 1
  /\ pc' = IF cur = NumPorts THEN "serving" ELSE "bind"
  /\ UNCHANGED <<server, listening, sock, raised>>

(***************************************************************************)
(* The readiness loop `while server_proc.poll() is None: if SO_ACCEPTCONN: *)
(* break; sleep(0.1)` ends when the server has died or the socket listens; *)
(* either way the generator yields, stack.enter_context returns and the    *)
(* context is on the stack.  Sleeping is a stutter.                        *)
(***************************************************************************)
Ready ==
  /\ pc = "wait"
  /\ server[cur] = "exited" \/ listening[cur]
  /\ stack' = Append(stack, cur)
  /\ cur' = cur + 1
  /\ pc' = IF cur = NumPorts THEN "serving" ELSE "bind"
  /\ UNCHANGED <<server, listening, sock, raised>>

(* An exception (KeyboardInterrupt) in the readiness loop: the `finally`  *)
(* kills the server, Popen.__exit__ reaps it, `with sock` closes it.      *)
Interrupt ==
  /\ pc = "wait"
  /\ server' = [server EXCEPT ![cur] = "reaped"]
  /\ sock' = [sock EXCEPT ![cur] = "closed"]
  /\ pc' = "unwind"
  /\ raised' = TRUE
  /\ UNCHANGED <<cur, stack, listening>>

(* The caller's `with` body ends, by returning or raising. *)
Leave ==
  /\ pc = "serving"
  /\ pc' = "unwind"
  /\ \E r \in BOOLEAN : raised' = r
  /\ UNCHANGED <<cur, stack, server, listening, sock>>

(* Bug variant of Unwind: the contexts exited oldest first. *)
UnwindOldestFirst ==
  /\ pc = "unwind"
  /\ stack # << >>
  /\ LET t == stack[1]
     IN  /\ server' = [server EXCEPT ![t] = "reaped"]
         /\ sock' = [sock EXCEPT ![t] = "closed"]
  /\ stack' = SubSeq(stack, 2, Len(stack))
  /\ UNCHANGED <<pc, cur, listening, raised>>

(***************************************************************************)
(* ExitStack.__exit__ exits the last entered context: the `finally` kills  *)
(* the server, Popen.__exit__ waits for it, `with sock` closes the socket. *)
(***************************************************************************)
Unwind ==
  /\ pc = "unwind"
  /\ stack # << >>
  /\ LET t == stack[Len(stack)]
     IN  /\ server' = [server EXCEPT ![t] = "reaped"]
         /\ sock' = [sock EXCEPT ![t] = "closed"]
  /\ stack' = SubSeq(stack, 1, Len(stack) - 1)
  /\ UNCHANGED <<pc, cur, listening, raised>>

(* The ExitStack is empty: the `with` ends and the exception, if any,     *)
(* propagates to the caller.                                               *)
Finish ==
  /\ pc = "unwind"
  /\ stack = << >>
  /\ pc' = "done"
  /\ UNCHANGED <<cur, stack, server, listening, sock, raised>>

(* The repo-server calls listen() on the inherited socket. *)
Listen(i) ==
  /\ server[i] = "running"
  /\ ~listening[i]
  /\ listening' = [listening EXCEPT ![i] = TRUE]
  /\ UNCHANGED <<pc, cur, stack, server, sock, raised>>

(* The repo-server dies: bad arguments, a crash, before or after listen(). *)
Exit(i) ==
  /\ server[i] = "running"
  /\ server' = [server EXCEPT ![i] = "exited"]
  /\ UNCHANGED <<pc, cur, stack, listening, sock, raised>>

(* launch_repo_servers_for_netns has returned or raised. *)
Terminated ==
  /\ pc = "done"
  /\ UNCHANGED vars

Orchestrator ==
  \/ CreateSockets \/ Bind \/ Spawn \/ Ready \/ Interrupt
  \/ Leave \/ Unwind \/ Finish

Next ==
  \/ Orchestrator
  \/ \E i \in Idx : Listen(i) \/ Exit(i)
  \/ Terminated

(***************************************************************************)
(* Fairness.  The orchestrator is one thread that keeps running while it   *)
(* can (a KeyboardInterrupt is never owed).  A repo-server that runs       *)
(* eventually listens or dies: the binary calls listen() on start-up.      *)
(***************************************************************************)
Fairness ==
  /\ WF_vars(CreateSockets \/ Bind \/ Spawn \/ Ready \/ Leave
             \/ Unwind \/ Finish)
  /\ \A i \in Idx : WF_vars(Listen(i) \/ Exit(i))

Spec == Init /\ [][Next]_vars

FairSpec == Spec /\ Fairness

-----------------------------------------------------------------------------
(***************************************************************************)
(* Properties.                                                             *)
(***************************************************************************)

(* No orphan servers: once launch_repo_servers_for_netns has returned or   *)
(* raised, whatever failed and wherever, every repo-server it spawned has  *)
(* been killed and reaped by the ExitStack or by its own `finally`.        *)
NoOrphanServers ==
  pc = "done" => \A i \in Idx : server[i] \in {"none", "reaped"}

(* Teardown runs in reverse start order: a step that reaps server i only   *)
(* happens when every server started after it is already gone.             *)
ReverseTeardown ==
  [][\A i \in Idx :
       (server[i] # "reaped" /\ server'[i] = "reaped")
         => \A j \in Idx : j > i => ~Alive(j)]_vars

(* The readiness wait ends: unless interrupted, the orchestrator always    *)
(* gets past the poll loop of every server and returns or raises.          *)
Termination == <>(pc = "done")

(* Spec (4.5): a server that exits before its socket listens is a fatal    *)
(* startup failure, so by the time the servers are handed to the caller   *)
(* every socket is listening.                                              *)
ServedSocketsListen ==
  pc = "serving" => \A i \in Idx : listening[i]

(* Spec (5): cleanup closes the sockets the orchestrator still owns, so    *)
(* once it is done none of its copies is left open.                        *)
SocketsClosedWhenDone ==
  pc = "done" => \A i \in Idx : sock[i] \in {"none", "closed"}

=============================================================================
