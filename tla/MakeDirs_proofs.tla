---------------------------- MODULE MakeDirs_proofs ----------------------------
(***************************************************************************)
(* Proofs about MakeDirsItem for every set of names and every depth.       *)
(*                                                                         *)
(* provides() is a loop over the joined path, modelled as a recursive      *)
(* function over its length; ProvidesIs computes its result in closed     *)
(* form.  A recursive function fixes its values only through its defining *)
(* equation, so the closed form rests on the well-foundedness of < on the *)
(* naturals (WFMin): a least length at which the two differed would have   *)
(* to differ at the length below it.  The same least-counterexample        *)
(* argument shows an image closed under parents is closed under prefixes,  *)
(* so mkdir -p only makes directories below into_dir.                      *)
(***************************************************************************)
EXTENDS MakeDirs, SequenceTheorems, WellFoundedInduction, TLAPS

(* The first n names of a path form a path of length n that agrees with   *)
(* it on them.                                                             *)
LEMMA PrefixProps ==
  ASSUME NEW s \in Seq(Names), NEW n \in 0 .. Len(s)
  PROVE  /\ SubSeq(s, 1, n) \in Seq(Names)
         /\ Len(SubSeq(s, 1, n)) = n
         /\ \A i \in 1 .. n : SubSeq(s, 1, n)[i] = s[i]
BY SubSeqProperties

(* os.path.join(into, ptm) begins with into. *)
LEMMA JoinPrefix ==
  ASSUME NEW into \in Seq(Names), NEW ptm \in Seq(Names)
  PROVE  /\ into \o ptm \in Seq(Names)
         /\ Len(into \o ptm) = Len(into) + Len(ptm)
         /\ SubSeq(into \o ptm, 1, Len(into)) = into
<1>1. /\ into \o ptm \in Seq(Names)
      /\ Len(into \o ptm) = Len(into) + Len(ptm)
      /\ \A i \in 1 .. Len(into) : (into \o ptm)[i] = into[i]
  BY ConcatProperties
<1>2. QED
  BY <1>1, PrefixProps, SeqEqual

(* provides() yields the joined path and each dirname of it down to, and *)
(* not including, into_dir: the first k names for k above Len(into).      *)
LEMMA ProvidesIs ==
  ASSUME NEW into \in Seq(Names), NEW ptm \in Seq(Names)
  PROVE  Provides(into, ptm) =
           {SubSeq(into \o ptm, 1, k) : k \in Len(into) + 1 .. Len(into \o ptm)}
<1> DEFINE full == into \o ptm
           D == Len(into) .. Len(full)
           Step(g, n) == IF SubSeq(full, 1, n) = into THEN {}
                         ELSE {SubSeq(full, 1, n)} \cup g[n - 1]
           gen == CHOOSE g : g = [n \in D |-> Step(g, n)]
           Upto(n) == {SubSeq(full, 1, k) : k \in Len(into) + 1 .. n}
           g0 == [n \in D |-> Upto(n)]

<1>1. Provides(into, ptm) = gen[Len(full)]
  BY DEF Provides
<1>2. Len(full) = Len(into) + Len(ptm) /\ full \in Seq(Names)
  BY JoinPrefix
<1>3. SubSeq(full, 1, Len(into)) = into
  BY JoinPrefix
<1>4. \A n \in D : n > Len(into) => SubSeq(full, 1, n) # into
  BY <1>2, PrefixProps DEF D
<1>5. \A n \in D : g0[n] = Step(g0, n)
  <2> SUFFICES ASSUME NEW n \in D PROVE Upto(n) = Step(g0, n)
    BY DEF g0
  <2>0. n \in Nat /\ n >= Len(into)
    BY <1>2 DEF D
  <2>1. CASE n = Len(into)
    BY <1>3, <2>1 DEF Upto, Step
  <2>2. CASE n > Len(into)
    <3>1. Upto(n) = {SubSeq(full, 1, n)} \cup Upto(n - 1)
      <4>1. \A k : k \in Len(into) + 1 .. n <=> k = n \/ k \in Len(into) + 1 .. n - 1
        BY <2>0, <2>2
      <4>2. QED
        BY <4>1, Zenon DEF Upto
    <3>2. g0[n - 1] = Upto(n - 1)
      <4>1. n - 1 \in D
        BY <1>2, <2>0, <2>2 DEF D
      <4>2. QED
        BY <4>1, Zenon DEF g0
    <3>3. QED
      BY <1>4, <2>2, <3>1, <3>2 DEF Step
  <2>3. n = Len(into) \/ n > Len(into)
    BY <2>0
  <2>4. QED
    BY <2>1, <2>2, <2>3, Zenon
<1>6. gen = [n \in D |-> Step(gen, n)]
  <2>1. g0 = [n \in D |-> Step(g0, n)]
    BY <1>5, Zenon DEF g0
  <2>2. QED
    BY <2>1, Zenon DEF gen
<1>7. \A n \in D : gen[n] = g0[n]
  <2> SUFFICES ASSUME ~\A n \in D : gen[n] = g0[n] PROVE FALSE
    OBVIOUS
  <2> DEFINE T == {n \in D : gen[n] # g0[n]}
  <2>1. D \subseteq Nat
    BY <1>2 DEF D
  <2>2. T \subseteq Nat /\ T # {}
    BY <2>1 DEF T
  <2>3. PICK m \in T : \A y \in T : ~(<<y, m>> \in OpToRel(<, Nat))
    BY <2>2, WFMin, NatLessThanWellFounded
  <2>4. \A y \in T : ~(y < m)
    BY <2>2, <2>3 DEF OpToRel
  <2>5. m \in D /\ gen[m] # g0[m]
    BY <2>3 DEF T
  <2>6. gen[m] = Step(gen, m) /\ g0[m] = Step(g0, m)
    <3>1. gen[m] = Step(gen, m)
      BY <1>6, <2>5
    <3>2. g0[m] = Step(g0, m)
      BY <1>5, <2>5
    <3>3. QED
      BY <3>1, <3>2
  <2>7. CASE m = Len(into)
    BY <1>3, <2>5, <2>6, <2>7 DEF Step
  <2>8. CASE m # Len(into)
    <3>1. m - 1 \in D /\ m > Len(into)
      BY <1>2, <2>1, <2>5, <2>8 DEF D
    <3>2. gen[m - 1] = g0[m - 1]
      <4>0. m - 1 < m
        BY <2>1, <2>5
      <4>1. m - 1 \notin T
        BY <2>4, <4>0, Zenon
      <4>2. QED
        BY <3>1, <4>1, Zenon DEF T
    <3>3. QED
      BY <2>5, <2>6, <3>2 DEF Step
  <2>9. QED
    BY <2>7, <2>8
<1>9. QED
  <2>1. Len(full) \in D
    BY <1>2 DEF D
  <2>2. g0[Len(full)] = Upto(Len(full))
    BY <2>1, Zenon DEF g0
  <2>3. QED
    BY <1>1, <1>7, <2>1, <2>2, Zenon DEF Upto, full
(* A path of the model is a finite sequence of names. *)
LEMMA PathsAreSeqs == ASSUME NEW p \in Paths PROVE p \in Seq(Names)
<1>1. PICK m \in 0 .. MaxDepth : p \in [1 .. m -> Names]
  BY DEF Paths, BoundedSeq, SeqOf
<1>2. QED
  BY <1>1

(* os.path.dirname of the first j names of a path is its first j - 1. *)
LEMMA FrontPrefix ==
  ASSUME NEW s \in Seq(Names), NEW j \in 1 .. Len(s)
  PROVE  Front(SubSeq(s, 1, j)) = SubSeq(s, 1, j - 1)
<1>1. /\ SubSeq(s, 1, j) \in Seq(Names)
      /\ Len(SubSeq(s, 1, j)) = j
      /\ \A i \in 1 .. j : SubSeq(s, 1, j)[i] = s[i]
  BY PrefixProps
<1>2. /\ SubSeq(SubSeq(s, 1, j), 1, j - 1) \in Seq(Names)
      /\ Len(SubSeq(SubSeq(s, 1, j), 1, j - 1)) = j - 1
      /\ \A i \in 1 .. j - 1 : SubSeq(SubSeq(s, 1, j), 1, j - 1)[i] = s[i]
  BY <1>1, PrefixProps
<1>3. /\ SubSeq(s, 1, j - 1) \in Seq(Names)
      /\ Len(SubSeq(s, 1, j - 1)) = j - 1
      /\ \A i \in 1 .. j - 1 : SubSeq(s, 1, j - 1)[i] = s[i]
  BY PrefixProps
<1>4. QED
  BY <1>1, <1>2, <1>3, SeqEqual DEF Front

(* The first i names of the first j names are the first i names. *)
LEMMA PrefixOfPrefix ==
  ASSUME NEW s \in Seq(Names), NEW j \in 0 .. Len(s), NEW i \in 0 .. j
  PROVE  SubSeq(SubSeq(s, 1, j), 1, i) = SubSeq(s, 1, i)
<1>1. /\ SubSeq(s, 1, j) \in Seq(Names)
      /\ Len(SubSeq(s, 1, j)) = j
      /\ \A k \in 1 .. j : SubSeq(s, 1, j)[k] = s[k]
  BY PrefixProps
<1>2. /\ SubSeq(SubSeq(s, 1, j), 1, i) \in Seq(Names)
      /\ Len(SubSeq(SubSeq(s, 1, j), 1, i)) = i
      /\ \A k \in 1 .. i : SubSeq(SubSeq(s, 1, j), 1, i)[k] = SubSeq(s, 1, j)[k]
  BY <1>1, PrefixProps
<1>3. /\ SubSeq(s, 1, i) \in Seq(Names)
      /\ Len(SubSeq(s, 1, i)) = i
      /\ \A k \in 1 .. i : SubSeq(s, 1, i)[k] = s[k]
  BY PrefixProps
<1>4. QED
  BY <1>1, <1>2, <1>3, SeqEqual

(* into_dir with the first name of path_to_make appended is the first     *)
(* Len(into_dir) + 1 names of the joined path.                             *)
LEMMA JoinOuter ==
  ASSUME NEW into \in Seq(Names), NEW ptm \in Seq(Names), ptm # << >>
  PROVE  Append(into, ptm[1]) = SubSeq(into \o ptm, 1, Len(into) + 1)
<1>1. /\ into \o ptm \in Seq(Names)
      /\ Len(into \o ptm) = Len(into) + Len(ptm)
      /\ \A i \in 1 .. Len(into) + Len(ptm) : (into \o ptm)[i] =
                 IF i <= Len(into) THEN into[i] ELSE ptm[i - Len(into)]
  BY ConcatProperties
<1>2. Len(ptm) >= 1 /\ ptm[1] \in Names
  BY EmptySeq
<1>3. /\ Append(into, ptm[1]) \in Seq(Names)
      /\ Len(Append(into, ptm[1])) = Len(into) + 1
      /\ \A i \in 1 .. Len(into) : Append(into, ptm[1])[i] = into[i]
      /\ Append(into, ptm[1])[Len(into) + 1] = ptm[1]
  BY <1>2, AppendProperties
<1>4. /\ SubSeq(into \o ptm, 1, Len(into) + 1) \in Seq(Names)
      /\ Len(SubSeq(into \o ptm, 1, Len(into) + 1)) = Len(into) + 1
      /\ \A i \in 1 .. Len(into) + 1 :
            SubSeq(into \o ptm, 1, Len(into) + 1)[i] = (into \o ptm)[i]
  BY <1>1, <1>2, PrefixProps
<1>5. QED
  BY <1>1, <1>2, <1>3, <1>4, SeqEqual

(* An image is closed under parents, hence under every prefix: the parents *)
(* of into_dir exist whenever into_dir does.                               *)
LEMMA ImagePrefixClosed ==
  ASSUME NEW S \in Images, NEW p \in S, NEW k \in 0 .. Len(p)
  PROVE  SubSeq(p, 1, k) \in S
<1>1. p \in Seq(Names) /\ S \subseteq Paths
  BY PathsAreSeqs DEF Images
<1> SUFFICES ASSUME SubSeq(p, 1, k) \notin S PROVE FALSE
  OBVIOUS
<1> DEFINE T == {j \in 0 .. Len(p) : SubSeq(p, 1, Len(p) - j) \notin S}
<1>2. T \subseteq Nat /\ Len(p) - k \in T
  BY <1>1 DEF T
<1>3. PICK m \in T : \A y \in T : ~(<<y, m>> \in OpToRel(<, Nat))
  BY <1>2, WFMin, NatLessThanWellFounded
<1>4. m \in 0 .. Len(p) /\ SubSeq(p, 1, Len(p) - m) \notin S
  BY <1>3 DEF T
<1>5. CASE m = 0
  <2>1. SubSeq(p, 1, Len(p) - m) = SubSeq(p, 1, Len(p))
    BY <1>1, <1>5
  <2>2. QED
    BY <1>1, <1>4, <2>1, SubSeqFull
<1>6. CASE m # 0
  <2> DEFINE q == SubSeq(p, 1, Len(p) - (m - 1))
  <2>0. m - 1 \in 0 .. Len(p) /\ m - 1 < m /\ Len(p) - (m - 1) \in 1 .. Len(p)
    BY <1>1, <1>4, <1>6
  <2>1. \A y \in T : ~(y < m)
    BY <1>2, <1>3, <1>4 DEF OpToRel
  <2>2. m - 1 \notin T
    BY <2>0, <2>1, Zenon
  <2>3. q \in S
    BY <2>0, <2>2, Zenon DEF T, q
  <2>4. Len(q) = Len(p) - (m - 1)
    BY <1>1, <2>0, PrefixProps DEF q
  <2>5. q # << >>
    BY <2>0, <2>4
  <2>6. Front(q) \in S
    BY <2>3, <2>5 DEF Images
  <2>7. Front(q) = SubSeq(p, 1, Len(p) - m)
    <3>1. Front(q) = SubSeq(p, 1, Len(p) - (m - 1) - 1)
      BY <1>1, <2>0, FrontPrefix DEF q
    <3>2. QED
      BY <1>1, <3>1
  <2>8. QED
    BY <1>4, <2>6, <2>7
<1>7. QED
  BY <1>5, <1>6

-----------------------------------------------------------------------------
(* What holds until the item is built: the fields are paths, path_to_make *)
(* not empty; the image is closed under parents with its types, into_dir   *)
(* a directory in it; provided is empty or what provides() yields.         *)
IInv ==
  /\ into_dir \in Paths
  /\ path_to_make \in Paths \ {<< >>}
  /\ status \in {"planned", "built", "failed"}
  /\ status = "planned" =>
       /\ image \in Images
       /\ ftype \in [image -> {"f", "d"}]
       /\ RequiresMet
       /\ provided \in {{}, Provides(into_dir, path_to_make)}

(* The item starts as the sorter finds it: IInv holds initially. *)
LEMMA InitIInv == Init => IInv
BY DEF Init, IInv, TypesOf

(* provides() and build() keep IInv. *)
LEMMA NextIInv == IInv /\ [Next]_vars => IInv'
<1> SUFFICES ASSUME IInv, [Next]_vars PROVE IInv'
  OBVIOUS
<1>1. CASE Plan
  BY <1>1 DEF Plan, IInv, RequiresMet
<1>2. CASE Build
  BY <1>2 DEF Build, IInv
<1>3. CASE Done \/ UNCHANGED vars
  BY <1>3 DEF Done, vars, IInv, RequiresMet
<1>4. QED
  BY <1>1, <1>2, <1>3 DEF Next

(* build() after provides(): mkdir -p into_dir/path_to_make adds only   *)
(* provided paths, since every directory above and at into_dir exists;    *)
(* every provided path is then a directory; the stat options land on the  *)
(* shortest provided path, a prefix of every other.                        *)
LEMMA BuildMade ==
  ASSUME IInv, Build, status' = "built"
  PROVE  /\ image' \ image \subseteq provided
         /\ \A p \in provided : p \in image' /\ ftype'[p] = "d"
         /\ statted' \in provided
         /\ \A p \in provided : IsPrefix(statted', p)
<1> DEFINE into == into_dir
           ptm == path_to_make
           full == into \o ptm
           L == Len(into)
           made == {SubSeq(full, 1, n) : n \in 1 .. Len(full)}
<1>1. into \in Seq(Names) /\ ptm \in Seq(Names) /\ ptm # << >>
  BY PathsAreSeqs DEF IInv
<1>2. status = "planned" /\ provided # {}
  BY DEF Build
<1>3. provided = {SubSeq(full, 1, k) : k \in L + 1 .. Len(full)}
  <2>1. provided = Provides(into, ptm)
    BY <1>2 DEF IInv
  <2>2. QED
    BY <1>1, <2>1, ProvidesIs
<1>4. image \in Images /\ ftype \in [image -> {"f", "d"}] /\ into \in image
  BY <1>2 DEF IInv, RequiresMet
<1>5. /\ full \in Seq(Names)
      /\ Len(full) = L + Len(ptm)
      /\ SubSeq(full, 1, L) = into
      /\ Len(ptm) >= 1
  BY <1>1, JoinPrefix, EmptySeq
<1>6. /\ \A p \in made \cap image : ftype[p] = "d"
      /\ image' = image \cup made
      /\ ftype' = [p \in image' |-> IF p \in image THEN ftype[p] ELSE "d"]
      /\ statted' = Append(into, ptm[1])
  BY Zenon DEF Build
<1>7. \A n \in 1 .. L : SubSeq(full, 1, n) \in image
  <2> TAKE n \in 1 .. L
  <2>1. SubSeq(full, 1, n) = SubSeq(into, 1, n)
    <3>1. SubSeq(SubSeq(full, 1, L), 1, n) = SubSeq(full, 1, n)
      BY <1>5, PrefixOfPrefix
    <3>2. QED
      BY <1>5, <3>1
  <2>2. n \in 0 .. Len(into)
    BY DEF L
  <2>3. SubSeq(into, 1, n) \in image
    BY <1>4, <2>2, ImagePrefixClosed
  <2>4. QED
    BY <2>1, <2>3
<1>8. provided \subseteq made
  BY <1>3, <1>5
<1>9. image' \ image \subseteq provided
  <2> SUFFICES ASSUME NEW n \in 1 .. Len(full), SubSeq(full, 1, n) \notin image
               PROVE  SubSeq(full, 1, n) \in provided
    BY <1>6
  <2>1. n \in L + 1 .. Len(full)
    BY <1>7
  <2>2. QED
    BY <1>3, <2>1
<1>10. \A p \in provided : p \in image' /\ ftype'[p] = "d"
  BY <1>6, <1>8
<1>11. statted' = SubSeq(full, 1, L + 1) /\ L + 1 \in L + 1 .. Len(full)
  BY <1>1, <1>5, <1>6, JoinOuter
<1>12. ASSUME NEW k \in L + 1 .. Len(full)
       PROVE  IsPrefix(statted', SubSeq(full, 1, k))
  <2>1. Len(statted') = L + 1 /\ Len(SubSeq(full, 1, k)) = k
    BY <1>5, <1>11, PrefixProps
  <2>2. SubSeq(statted', 1, L + 1) = statted'
    BY <1>5, <1>11, PrefixOfPrefix
  <2>3. SubSeq(SubSeq(full, 1, k), 1, L + 1) = statted'
    BY <1>5, <1>11, PrefixOfPrefix
  <2>4. QED
    BY <2>1, <2>2, <2>3 DEF IsPrefix
<1>13. QED
  BY <1>3, <1>9, <1>10, <1>11, <1>12

(* For every set of names and every depth: when MakeDirsItem.build() runs *)
(* mkdir -p after provides(), every directory it makes was provided, all   *)
(* of them exist as directories afterwards, and the stat options land on  *)
(* the outermost provided directory, a prefix of every other.              *)
THEOREM MakeDirsMadeAsProvided == Spec => MadeAsProvided
<1>1. IInv /\ [Next]_vars =>
        [status = "planned" /\ status' = "built" =>
           /\ image' \ image \subseteq provided
           /\ \A p \in provided : p \in image' /\ ftype'[p] = "d"
           /\ statted' \in provided
           /\ \A p \in provided : IsPrefix(statted', p)]_vars
  <2> SUFFICES ASSUME IInv, [Next]_vars, status = "planned", status' = "built"
               PROVE  /\ image' \ image \subseteq provided
                      /\ \A p \in provided : p \in image' /\ ftype'[p] = "d"
                      /\ statted' \in provided
                      /\ \A p \in provided : IsPrefix(statted', p)
    OBVIOUS
  <2>1. Build
    BY DEF Next, Plan, Done, vars
  <2>2. QED
    BY <2>1, BuildMade
<1>2. QED
  BY InitIInv, NextIInv, <1>1, PTL DEF Spec, MadeAsProvided

================================================================================
