----------------------------- MODULE MCNspawnRun -----------------------------
(* A run with two repo-server ports: the supervisor can fail with zero,   *)
(* one or two servers started, at every stage of the container's life.    *)
EXTENDS NspawnRun

MCNumPorts == 2

=============================================================================
