-------------------------- MODULE MCSocketHandoff --------------------------
(* Five sockets: a batch, so a partial delivery would be visible, and a   *)
(* failure can strike after any number of them are made or closed.       *)
EXTENDS SocketHandoff

MCNumSocks == 5

=============================================================================
