------------------------------ MODULE MakeDirs ------------------------------
(***************************************************************************)
(* compiler/items/make_dirs.py: MakeDirsItem.  The dependency sorter asks *)
(* the item what it requires and provides, orders it after the provider   *)
(* of into_dir, and builds it: `mkdir -p into_dir/path_to_make` in the     *)
(* subvolume, then the stat options on the outermost directory made.       *)
(*                                                                         *)
(* Paths are sequences of names, image-relative; both fields are normal   *)
(* relative paths (coerce_path_field_normal_relative), path_to_make not    *)
(* empty.  The build appliance and the direct `run_as_root` branch both   *)
(* run mkdir -p on the same path and are one action.                       *)
(***************************************************************************)
EXTENDS Sequences, SequencesExt

CONSTANTS
  Names,      \* the names a path is made of
  MaxDepth    \* the deepest path considered

Paths == BoundedSeq(Names, MaxDepth)

(* An image: a tree of paths closed under parents, whose inner nodes are  *)
(* directories.                                                            *)
Images == {S \in SUBSET Paths : << >> \in S /\ \A p \in S \ {<< >>} : Front(p) \in S}

TypesOf(S) ==
  {t \in [S -> {"f", "d"}] : \A p \in S \ {<< >>} : t[Front(p)] = "d"}

VARIABLES
  into_dir, path_to_make,
  image,      \* the paths in the subvolume
  ftype,      \* file or directory, for each
  provided,   \* what provides() yielded
  statted,    \* where build_stat_options applied mode and owner
  status      \* "planned", "built" or "failed"

vars == <<into_dir, path_to_make, image, ftype, provided, statted, status>>

(* requires(): require_directory(into_dir).  The sorter builds the item  *)
(* only once that is met; an image without it never reaches this item.    *)
RequiresMet == into_dir \in image /\ ftype[into_dir] = "d"

Init ==
  /\ into_dir \in Paths
  /\ path_to_make \in Paths \ {<< >>}
  /\ Len(into_dir) + Len(path_to_make) <= MaxDepth
  /\ image \in Images
  /\ ftype \in TypesOf(image)
  /\ RequiresMet
  /\ provided = {}
  /\ statted = << >>
  /\ status = "planned"

(* Bug variant of Provides: the loop stops one directory short, at the     *)
(* child of into_dir, without yielding it.                                 *)
ProvidesShort(into, ptm) ==
  LET full == into \o ptm
      gen[n \in Len(into) .. Len(full)] ==
        IF n <= Len(into) + 1 THEN {} ELSE {SubSeq(full, 1, n)} \cup gen[n - 1]
  IN gen[Len(full)]

(* provides(): from into_dir/path_to_make, yield the path and step to its  *)
(* dirname until the path is into_dir.  The n-th step holds the first n    *)
(* names of the joined path; the loop never goes above into_dir, so n runs *)
(* from the length of the joined path down to that of into_dir.           *)
Provides(into, ptm) ==
  LET full == into \o ptm
      gen[n \in Len(into) .. Len(full)] ==
        IF SubSeq(full, 1, n) = into THEN {}
        ELSE {SubSeq(full, 1, n)} \cup gen[n - 1]
  IN gen[Len(full)]

(* The sorter calls provides(). *)
Plan ==
  /\ status = "planned"
  /\ provided = {}
  /\ provided' = Provides(into_dir, path_to_make)
  /\ UNCHANGED <<into_dir, path_to_make, image, ftype, statted, status>>

(* build(): mkdir -p makes every missing directory of the joined path, or  *)
(* fails on a name that exists and is not a directory; then the stat       *)
(* options go on into_dir/<first name of path_to_make>.                   *)
Build ==
  /\ status = "planned"
  /\ provided # {}
  /\ LET full == into_dir \o path_to_make
         made == {SubSeq(full, 1, n) : n \in 1 .. Len(full)}
     IN \/ /\ \E p \in made \cap image : ftype[p] = "f"
           /\ status' = "failed"
           /\ UNCHANGED <<image, ftype, statted>>
        \/ /\ \A p \in made \cap image : ftype[p] = "d"
           /\ image' = image \cup made
           /\ ftype' = [p \in image' |-> IF p \in image THEN ftype[p] ELSE "d"]
           /\ statted' = Append(into_dir, path_to_make[1])
           /\ status' = "built"
  /\ UNCHANGED <<into_dir, path_to_make, provided>>

(* The build has ended. *)
Done ==
  /\ status # "planned"
  /\ UNCHANGED vars

Next == Plan \/ Build \/ Done

Spec == Init /\ [][Next]_vars

-----------------------------------------------------------------------------
(* What the dependency sorter relies on: every directory the build makes  *)
(* was provided, so no other item can claim it unordered; everything       *)
(* provided exists as a directory afterwards; and the stat options land    *)
(* on the outermost provided directory, above every other.                 *)
MadeAsProvided ==
  [][status = "planned" /\ status' = "built" =>
       /\ image' \ image \subseteq provided
       /\ \A p \in provided : p \in image' /\ ftype'[p] = "d"
       /\ statted' \in provided
       /\ \A p \in provided : IsPrefix(statted', p)]_vars

=============================================================================
