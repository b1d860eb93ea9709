--------------------------- MODULE BindArgsCheck ---------------------------
(***************************************************************************)
(* bind_args checked against systemd-nspawn's parsing, for every pair of   *)
(* paths up to a length over an alphabet with both special characters.    *)
(***************************************************************************)
EXTENDS BindArgs

CONSTANTS
  Chars,       \* the alphabet of paths
  MaxPathLen   \* the longest path considered

Paths == BoundedSeq(Chars, MaxPathLen)

VARIABLES src, dest, readonly, out

vars == <<src, dest, readonly, out>>

(* Any source and destination a caller may pass. *)
Init ==
  /\ src \in Paths
  /\ dest \in Paths
  /\ readonly \in BOOLEAN
  /\ out = << >>

(* One call of bind_args. *)
Quote ==
  /\ out = << >>
  /\ out' = BindArgs(src, dest, readonly)
  /\ UNCHANGED <<src, dest, readonly>>

(* The result is a value; nothing more happens. *)
Done ==
  /\ out # << >>
  /\ UNCHANGED vars

Next == Quote \/ Done

Spec == Init /\ [][Next]_vars

(* Whatever backslashes and colons the two paths hold, systemd-nspawn     *)
(* reads back exactly the source and the destination bind_args was given, *)
(* and no mount options.                                                   *)
QuoteRoundTrip ==
  out # << >> => NspawnFields(out.arg) = <<src, dest>>

=============================================================================
