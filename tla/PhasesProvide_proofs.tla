------------------------ MODULE PhasesProvide_proofs ------------------------
(***************************************************************************)
(* Proofs about gen_subvolume_subtree_provides called on "/", as           *)
(* PhasesProvideItem.provides() calls it, for every set of names, every    *)
(* depth and every meta directory.                                         *)
(*                                                                         *)
(* The image, its types and the protected paths never change; the call    *)
(* computes its result in one step.  At the root, relpath is the identity, *)
(* every protected path is below the subtree, so DoNotAccess is the whole  *)
(* protected set and find prunes exactly the paths at or below one of     *)
(* them; the root itself is never protected.  Everything then follows     *)
(* from what Found is.                                                     *)
(***************************************************************************)
EXTENDS PhasesProvide, TLAPS

(* What the call reads: an image closed under parents with its types, and *)
(* protected paths other than the root; the subtree is the root.          *)
AtRoot ==
  /\ image \in Images
  /\ ftype \in TypesOf(image)
  /\ protected \subseteq Paths \ {<< >>}
  /\ subtree = << >>

IInv == AtRoot /\ PhasesProvideCover

(* A path of the model is a finite sequence of names. *)
LEMMA PathsAreSeqs == ASSUME NEW p \in Paths PROVE p \in Seq(Names)
<1>1. PICK m \in 0 .. MaxDepth : p \in [1 .. m -> Names]
  BY DEF Paths, BoundedSeq, SeqOf
<1>2. QED
  BY <1>1

(* os.path.relpath(p, "/") is p. *)
LEMMA RelAtRoot ==
  ASSUME NEW p \in Seq(Names), subtree = << >>
  PROVE  Rel(p) = p
BY DEF Rel

(* Every path lies below the root, and the root below no other path. *)
LEMMA UnderRoot ==
  ASSUME NEW p \in Seq(Names)
  PROVE  /\ Under(p, << >>)
         /\ p # << >> => ~Under(<< >>, p)
BY DEF Under, IsPrefix

LEMMA InitIInv == ASSUME Subtrees = {<< >>} PROVE Init => IInv
BY DEF Init, IInv, AtRoot, PhasesProvideCover

(* At the root the call returns its provides: find prunes exactly the     *)
(* protected paths and what lies below them, and each path of the image    *)
(* is found or hidden by a DoNotAccess.                                    *)
LEMMA ProvideAtRoot ==
  ASSUME AtRoot, Provide
  PROVE  PhasesProvideCover'
<1> USE DEF AtRoot
<1>1. \A p \in image \cup protected : p \in Seq(Names)
  BY PathsAreSeqs DEF Images
<1>2. \A p \in image : Pruned(p) <=> \E q \in protected : Under(p, q)
  BY <1>1, UnderRoot DEF Pruned
<1>3. DoNotAccess = protected
  BY <1>1, RelAtRoot, UnderRoot DEF DoNotAccess
<1>4. \A p \in Found : ~IsPathProtected(Rel(p))
  BY <1>1, <1>2, RelAtRoot DEF Found, IsPathProtected
<1>5. subtree \in image /\ subtree \in Found
  <2>1. << >> \in image
    BY DEF Images
  <2>2. ~Pruned(<< >>)
    BY <1>1, UnderRoot DEF Pruned
  <2>3. QED
    BY <2>1, <2>2, <1>1, UnderRoot DEF Found
<1>6. /\ {Rel(p) : p \in {p \in Found : ftype[p] = "f"}} =
           {p \in Found : ftype[p] = "f"}
      /\ {Rel(p) : p \in {p \in Found : ftype[p] = "d"}} =
           {p \in Found : ftype[p] = "d"}
  BY <1>1, RelAtRoot DEF Found
<1>7. out' = [status |-> "ok",
              dna  |-> protected,
              file |-> {p \in Found : ftype[p] = "f"},
              dir  |-> {p \in Found : ftype[p] = "d"}]
  BY <1>3, <1>4, <1>5, <1>6 DEF Provide
<1>8. \A p \in image : ftype[p] \in {"f", "d"}
  BY DEF TypesOf
<1>9. image' = image /\ ftype' = ftype
  BY DEF Provide
<1>10. ASSUME NEW p \in image
       PROVE  \/ /\ p \in (IF ftype[p] = "f" THEN out'.file ELSE out'.dir)
                 /\ \A d \in out'.dna : ~Under(p, d)
              \/ /\ \E d \in out'.dna : Under(p, d)
                 /\ p \notin out'.file \cup out'.dir
  <2>1. CASE Pruned(p)
    BY <1>2, <1>7, <2>1 DEF Found
  <2>2. CASE ~Pruned(p)
    <3>1. p \in Found /\ \A d \in protected : ~Under(p, d)
      BY <1>1, <1>2, <2>2, UnderRoot DEF Found
    <3>2. CASE ftype[p] = "f"
      BY <1>7, <3>1, <3>2
    <3>3. CASE ftype[p] = "d"
      BY <1>7, <3>1, <3>3
    <3>4. QED
      BY <1>8, <3>2, <3>3
  <2>3. QED
    BY <2>1, <2>2
<1>11. QED
  BY <1>7, <1>9, <1>10 DEF PhasesProvideCover

LEMMA NextIInv == IInv /\ [Next]_vars => IInv'
<1> SUFFICES ASSUME IInv, [Next]_vars PROVE IInv'
  OBVIOUS
<1>1. AtRoot'
  BY DEF IInv, AtRoot, Next, Provide, Done, vars
<1>2. CASE Provide
  BY <1>1, <1>2, ProvideAtRoot DEF IInv
<1>3. CASE Done \/ UNCHANGED vars
  BY <1>1, <1>3 DEF IInv, Done, vars, PhasesProvideCover
<1>4. QED
  BY <1>1, <1>2, <1>3 DEF IInv, Next

(* For every set of names, depth and meta directory, and every image and  *)
(* set of mounts: gen_subvolume_subtree_provides on "/" returns, and      *)
(* accounts for every path of the image exactly once, as what it is or as *)
(* lying at or below a DoNotAccess.                                        *)
THEOREM RootProvideCover ==
  ASSUME Subtrees = {<< >>}
  PROVE  Spec => []PhasesProvideCover
<1>1. IInv => PhasesProvideCover
  BY DEF IInv
<1>2. QED
  BY InitIInv, NextIInv, <1>1, PTL DEF Spec

=============================================================================
