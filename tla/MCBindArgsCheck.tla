-------------------------- MODULE MCBindArgsCheck --------------------------
(* Backslash, colon and one ordinary character; paths of up to three, so  *)
(* a path can end in a backslash, hold "\:" or hold two colons.           *)
EXTENDS BindArgsCheck

MCChars == {"a", ":", "\\"}
MCMaxPathLen == 3

=============================================================================
