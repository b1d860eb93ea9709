--------------------------- MODULE MCRepoServers ---------------------------
(* Three ports: enough for a failure at the first, a middle and the last   *)
(* pair, and for the ExitStack to unwind two servers in some order.        *)
EXTENDS RepoServers

MCNumPorts == 3

=============================================================================
