---------------------------- MODULE PhasesProvide ----------------------------
(***************************************************************************)
(* compiler/items/phases_provide.py: gen_subvolume_subtree_provides, which *)
(* PhasesProvideItem uses to tell the dependency sorter what the image     *)
(* holds once the phases have run.                                         *)
(*                                                                         *)
(* Paths are sequences of names, image-relative; << >> is the root (or,    *)
(* for a path relative to the subtree, ".").  The call first marks every   *)
(* protected path at or below the subtree as DoNotAccess, then runs        *)
(* `find -P` from the subtree, pruning the protected paths, provides each  *)
(* path found as a file or a directory, and asserts on the way that no     *)
(* found path is protected and that the subtree itself was found.  Types   *)
(* b, c, p, f, l and s are all provided as files: they are one type here.  *)
(* The "unknown type" branch is unreachable (`pragma: no cover`) and left  *)
(* out, and so is the has_leading_dot_dot assert, which `find` run from    *)
(* the subtree cannot trip.                                                *)
(***************************************************************************)
EXTENDS Sequences, SequencesExt

CONSTANTS
  Names,      \* the names a path is made of
  MaxDepth,   \* the deepest path in an image
  MetaDir,    \* protected_path_set always holds META_DIR
  Subtrees    \* the subtrees callers pass

Paths == BoundedSeq(Names, MaxDepth)

(* An image: a tree of paths closed under parents, whose inner nodes are  *)
(* directories.                                                            *)
Images == {S \in SUBSET Paths : << >> \in S /\ \A p \in S \ {<< >>} : Front(p) \in S}

TypesOf(S) ==
  {t \in [S -> {"f", "d"}] : \A p \in S \ {<< >>} : t[Front(p)] = "d"}

VARIABLES
  image,       \* the paths in the subvolume
  ftype,       \* what find's %y prints for each
  protected,   \* protected_path_set(subvol): META_DIR and the mountpoints
  subtree,     \* the `subtree` argument
  out          \* the result of iterating the generator

vars == <<image, ftype, protected, subtree, out>>

Init ==
  /\ image \in Images
  /\ ftype \in TypesOf(image)
  /\ protected \in {P \in SUBSET (Paths \ {<< >>}) : MetaDir \in P}
  /\ subtree \in Subtrees
  /\ out = [status |-> "pending"]

(* p is q or lies below it. *)
Under(p, q) == IsPrefix(q, p)

(* os.path.relpath of a path at or below the subtree. *)
Rel(p) == SubSeq(p, Len(subtree) + 1, Len(p))

(* is_path_protected (compiler/items/common.py): the path is a protected   *)
(* path or lies below one; protected paths are image-relative.             *)
IsPathProtected(rel) == \E q \in protected : Under(rel, q)

(* The first loop: protected paths whose relpath to the subtree has no     *)
(* leading "..".                                                           *)
DoNotAccess == {Rel(q) : q \in {q \in protected : Under(q, subtree)}}

(* find -P subtree ( -path prot1 -o ... ) -prune -o -printf: a path is     *)
(* printed when nothing from the subtree down to it is a protected path;  *)
(* the paths above the subtree are never tested.                           *)
Pruned(p) == \E q \in protected : Under(q, subtree) /\ Under(p, q)

(* Bug variant of Found: the protected paths not pruned from the find.    *)
FoundUnpruned == {p \in image : Under(p, subtree)}

Found == {p \in image : Under(p, subtree) /\ ~Pruned(p)}

(* Iterating gen_subvolume_subtree_provides to its end: find fails on a   *)
(* missing subtree; a found path that is protected, or a subtree that was *)
(* not found, trips an assert; else the provides.                          *)
Provide ==
  /\ out.status = "pending"
  /\ out' =
       CASE subtree \notin image -> [status |-> "find_error"]
         [] \E p \in Found : IsPathProtected(Rel(p)) -> [status |-> "assert"]
         [] subtree \notin Found -> [status |-> "assert"]
         [] OTHER -> [status |-> "ok",
                      dna  |-> DoNotAccess,
                      file |-> {Rel(p) : p \in {p \in Found : ftype[p] = "f"}},
                      dir  |-> {Rel(p) : p \in {p \in Found : ftype[p] = "d"}}]
  /\ UNCHANGED <<image, ftype, protected, subtree>>

(* The result is a value; nothing more happens. *)
Done ==
  /\ out.status # "pending"
  /\ UNCHANGED vars

Next == Provide \/ Done

Spec == Init /\ [][Next]_vars

-----------------------------------------------------------------------------
(* What PhasesProvideItem.provides() gives the dependency sorter: the call *)
(* on "/" never raises, and every path of the image is accounted for      *)
(* exactly once: provided as what it is, or lying at or below a path      *)
(* provided as DoNotAccess.  Nothing inside a mount is provided, and       *)
(* nothing outside one is hidden.                                          *)
PhasesProvideCover ==
  out.status # "pending" =>
    /\ out.status = "ok"
    /\ \A p \in image :
         \/ /\ p \in (IF ftype[p] = "f" THEN out.file ELSE out.dir)
            /\ \A d \in out.dna : ~Under(p, d)
         \/ /\ \E d \in out.dna : Under(p, d)
            /\ p \notin out.file \cup out.dir

(* The asserts of gen_subvolume_subtree_provides: a protected path "should *)
(* have been filtered out by `find`", and a missing subtree makes find     *)
(* fail before the last assert; so neither assert fires, for any subtree. *)
AssertionsHold == out.status # "assert"

=============================================================================
