----------------------------- MODULE MCMakeDirs -----------------------------
(* Two names and paths two deep: into_dir at the root or one down, a      *)
(* path_to_make of one or two names, its first name already there as a    *)
(* directory, as a file, or not at all.                                    *)
EXTENDS MakeDirs

MCNames == {"a", "b"}
MCMaxDepth == 2

=============================================================================
