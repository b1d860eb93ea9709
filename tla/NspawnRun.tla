------------------------------ MODULE NspawnRun ------------------------------
(***************************************************************************)
(* One sandboxed run with RPM repo servers: the isolation lifecycle        *)
(* (NspawnLifecycle) composed with the repo-server supervisor              *)
(* (RepoServers).  While the container process runs, the caller serves     *)
(* the requested RPM snapshots from inside the container's network         *)
(* namespace with launch_repo_servers_for_netns, and its `with` nests      *)
(* inside the one that holds the container process; so the servers are     *)
(* torn down before the process is waited for and before the snapshot is  *)
(* released.  The caller that nests the two (the run/booted drivers) is    *)
(* not in this repository: the nesting is taken from spec sections 4.3,    *)
(* 4.5 and 5.                                                              *)
(*                                                                         *)
(* Each component keeps its own actions; the composition adds only the     *)
(* guards of the nesting.                                                  *)
(***************************************************************************)
EXTENDS NspawnLifecycle, Naturals

CONSTANT NumPorts

(* len(repo_server_ports): a count, as the supervisor assumes. *)
ASSUME PortsAssumption == NumPorts \in Nat

VARIABLES
  serve,                                  \* --serve-rpm-snapshot was given
  rpc, rcur, rstack, rserver, rlistening, rsock, rraised

rvars == <<rpc, rcur, rstack, rserver, rlistening, rsock, rraised>>

vars == <<lvars, serve, rvars>>

RS == INSTANCE RepoServers
        WITH pc <- rpc, cur <- rcur, stack <- rstack, server <- rserver,
             listening <- rlistening, sock <- rsock, raised <- rraised

RunInit == Init /\ RS!Init /\ serve \in BOOLEAN

(* A step of the setup or of the container process; the servers do not   *)
(* move.                                                                   *)
LifecycleStep ==
  /\ \/ Snapshot \/ CloneMounts \/ Build \/ Launch \/ ProcExit \/ Wait
     \/ InterruptedWait \/ Release \/ Done
  /\ UNCHANGED <<serve, rvars>>

(* A step of the supervisor or of a repo server, inside the container's   *)
(* lifetime.                                                               *)
ServerStep ==
  /\ serve
  /\ stage = "running"
  /\ \/ RS!Orchestrator
     \/ \E i \in RS!Idx : RS!Listen(i) \/ RS!Exit(i)
  /\ UNCHANGED <<lvars, serve>>

(* The caller's body ends once the supervisor's `with`, nested inside it, *)
(* has exited.                                                             *)
ServeBody ==
  /\ Body
  /\ ~serve \/ rpc = "done"
  /\ UNCHANGED <<serve, rvars>>

RunNext == LifecycleStep \/ ServerStep \/ ServeBody

RunSpec == RunInit /\ [][RunNext]_vars

=============================================================================
