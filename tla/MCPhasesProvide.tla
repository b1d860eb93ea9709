--------------------------- MODULE MCPhasesProvide ---------------------------
(* Two names, one of them the meta directory, and paths two deep: enough  *)
(* for a mount below a directory, a mount at the top, and a name reused   *)
(* at both depths.                                                         *)
EXTENDS PhasesProvide

MCNames == {"a", "m"}
MCMaxDepth == 2
MCMetaDir == << "m" >>

(* PhasesProvideItem.provides() passes "/". *)
MCRoot == {<< >>}

(* A subtree other than "/" that is no protected path itself. *)
MCSubtreeA == {<< "a" >>}

(* ... and is not a mount or below one. *)
MCSubtreeUnprotected == ~\E q \in protected : Under(subtree, q)

=============================================================================
