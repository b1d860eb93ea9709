--------------------------- MODULE MCNspawnOpts ---------------------------
(* Two snapshots, so a version lock can name one that is not served; one  *)
(* version-lock file; root and nobody; command lines of up to three       *)
(* options, enough for two options on the same dest plus a third, or a    *)
(* version lock named twice for a served snapshot.                         *)
EXTENDS NspawnOpts

MCSnapshots == {"/snap/a", "/snap/b"}
MCVersionLocks == {"/vl"}
MCUsers == {"root", "nobody"}
MCMaxArgs == 3

=============================================================================
