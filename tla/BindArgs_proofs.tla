---------------------------- MODULE BindArgs_proofs ----------------------------
(***************************************************************************)
(* Proof that bind_args round-trips through systemd-nspawn's parsing, for  *)
(* every alphabet and every length of paths.                               *)
(*                                                                         *)
(* ColonQuote and Split are recursive functions over prefix lengths; the  *)
(* provers see each as the CHOOSE of a function that satisfies its         *)
(* defining equation.  SplitRunDef and QuoteRunDef show that such a        *)
(* function exists, by building it one length at a time; SplitRunUnique    *)
(* that it is the only one, so that the run over Append(u, c) restricted   *)
(* to u is the run over u (SplitSnoc).  Each induction is over the prefix  *)
(* lengths 0 .. N and rests on UpToInduction, which takes a least length  *)
(* outside the set from the well-foundedness of < on Nat.                  *)
(*                                                                         *)
(* QuoteParse is the heart: reading the quoting of the first i characters *)
(* of a path from a state outside an escape appends those i characters to *)
(* the current field and leaves the scanner outside an escape.  RoundTrip  *)
(* applies it to the source, reads the unescaped colon, and applies it to  *)
(* the destination.                                                        *)
(***************************************************************************)
EXTENDS BindArgsCheck, SequenceTheorems, WellFoundedInduction, TLAPS

(* The scanner run of Split, and the quoting run of ColonQuote, as the    *)
(* functions over prefix lengths that their definitions choose.           *)
SplitRun(st0, arg) ==
  CHOOSE st : st = [i \in 0 .. Len(arg) |->
                      IF i = 0 THEN st0 ELSE SplitStep(st[i - 1], arg[i])]

(* st is a scanner run over arg from st0. *)
SplitEq(st0, arg, st) ==
  st = [i \in 0 .. Len(arg) |-> IF i = 0 THEN st0 ELSE SplitStep(st[i - 1], arg[i])]

(* One step of the quoting run, kept opaque so that the provers match it *)
(* as a whole.                                                             *)
QStep(q, c) == q \o Escaped(c)

(* q is a quoting run over path. *)
QuoteEq(path, q) ==
  q = [i \in 0 .. Len(path) |-> IF i = 0 THEN << >> ELSE QStep(q[i - 1], path[i])]

QuoteRun(path) ==
  CHOOSE q : q = [i \in 0 .. Len(path) |->
                    IF i = 0 THEN << >> ELSE QStep(q[i - 1], path[i])]

(* Split reads off the last state of the scanner run. *)
LEMMA SplitIsRun ==
  ASSUME NEW st0, NEW arg
  PROVE  Split(st0, arg) = SplitRun(st0, arg)[Len(arg)]
BY DEF Split, SplitRun

(* ColonQuote is the last value of the quoting run. *)
LEMMA QuoteIsRun ==
  ASSUME NEW path
  PROVE  ColonQuote(path) = QuoteRun(path)[Len(path)]
BY DEF ColonQuote, QuoteRun, QStep

(* Induction over the prefix lengths 0 .. N, from the well-foundedness of *)
(* < on the naturals: a least length outside S cannot exist.               *)
LEMMA UpToInduction ==
  ASSUME NEW N \in Nat, NEW S, 0 \in S,
         \A n \in 1 .. N : n - 1 \in S => n \in S
  PROVE  0 .. N \subseteq S
<1> SUFFICES ASSUME (0 .. N) \ S # {} PROVE FALSE
  OBVIOUS
<1>0. (0 .. N) \ S \subseteq Nat
  OBVIOUS
<1>1. PICK m \in (0 .. N) \ S : \A y \in (0 .. N) \ S : ~(<<y, m>> \in OpToRel(<, Nat))
  BY <1>0, WFMin, NatLessThanWellFounded
<1>2. \A y \in (0 .. N) \ S : ~(y < m)
  BY <1>0, <1>1 DEF OpToRel
<1>3. m \in 0 .. N /\ m \notin S /\ m # 0
  BY <1>1, Zenon
<1>4. m - 1 \in 0 .. N /\ m - 1 < m /\ m \in 1 .. N
  BY <1>3
<1>5. m - 1 \in S
  BY <1>2, <1>4, Zenon
<1>6. QED
  BY <1>3, <1>4, <1>5, Zenon

(* The scanner run is well defined: it starts at st0 and takes one       *)
(* SplitStep per character.  A run up to each length extends the run up   *)
(* to the length below by one step.                                        *)
LEMMA SplitRunDef ==
  ASSUME NEW st0, NEW arg, Len(arg) \in Nat
  PROVE  SplitEq(st0, arg, SplitRun(st0, arg))
<1> DEFINE Eq(h, n) ==
             h = [i \in 0 .. n |-> IF i = 0 THEN st0 ELSE SplitStep(h[i - 1], arg[i])]
           S == {n \in Nat : \E h : Eq(h, n)}
<1>0. Len(arg) \in Nat
  OBVIOUS
<1>1. 0 \in S
  <2>1. Eq([i \in 0 .. 0 |-> st0], 0)
    OBVIOUS
  <2>2. QED
    BY <2>1, Zenon DEF S
<1>2. \A n \in 1 .. Len(arg) : n - 1 \in S => n \in S
  <2> TAKE n \in 1 .. Len(arg)
  <2> HAVE n - 1 \in S
  <2>1. PICK h : Eq(h, n - 1)
    BY Zenon DEF S
  <2> DEFINE h2 == [i \in 0 .. n |-> IF i < n THEN h[i] ELSE SplitStep(h[n - 1], arg[n])]
  <2>2. Eq(h2, n)
    BY <2>1
  <2>3. n \in Nat
    OBVIOUS
  <2>4. QED
    BY <2>2, <2>3, Zenon DEF S
<1>3. 0 .. Len(arg) \subseteq S
  BY <1>0, <1>1, <1>2, UpToInduction
<1>4. PICK h : Eq(h, Len(arg))
  <2>1. Len(arg) \in S
    <3>1. Len(arg) \in 0 .. Len(arg)
      BY <1>0
    <3>2. QED
      BY <1>3, <3>1, Zenon
  <2>2. QED
    BY <2>1, Zenon DEF S
<1>5. QED
  BY <1>4, Zenon DEF SplitRun, SplitEq

(* The quoting run is well defined in the same way: it starts empty and  *)
(* appends what re.sub puts in place of each character.                    *)
LEMMA QuoteRunDef ==
  ASSUME NEW arg, Len(arg) \in Nat
  PROVE  QuoteEq(arg, QuoteRun(arg))
<1> DEFINE Eq(h, n) ==
             h = [i \in 0 .. n |-> IF i = 0 THEN << >> ELSE QStep(h[i - 1], arg[i])]
           S == {n \in Nat : \E h : Eq(h, n)}
<1>0. Len(arg) \in Nat
  OBVIOUS
<1>1. 0 \in S
  <2>1. Eq([i \in 0 .. 0 |-> << >>], 0)
    OBVIOUS
  <2>2. QED
    BY <2>1, Zenon DEF S
<1>2. \A n \in 1 .. Len(arg) : n - 1 \in S => n \in S
  <2> TAKE n \in 1 .. Len(arg)
  <2> HAVE n - 1 \in S
  <2>1. PICK h : Eq(h, n - 1)
    BY Zenon DEF S
  <2> DEFINE h2 == [i \in 0 .. n |-> IF i < n THEN h[i] ELSE QStep(h[n - 1], arg[n])]
  <2>2. Eq(h2, n)
    BY <2>1
  <2>3. n \in Nat
    OBVIOUS
  <2>4. QED
    BY <2>2, <2>3, Zenon DEF S
<1>3. 0 .. Len(arg) \subseteq S
  BY <1>0, <1>1, <1>2, UpToInduction
<1>4. PICK h : Eq(h, Len(arg))
  <2>1. Len(arg) \in S
    <3>1. Len(arg) \in 0 .. Len(arg)
      BY <1>0
    <3>2. QED
      BY <1>3, <3>1, Zenon
  <2>2. QED
    BY <2>1, Zenon DEF S
<1>5. QED
  BY <1>4, Zenon DEF QuoteRun, QuoteEq

(* The scanner run is the only function over prefix lengths that starts  *)
(* at st0 and takes one SplitStep per character.                           *)
LEMMA SplitRunUnique ==
  ASSUME NEW st0, NEW A, NEW arg \in Seq(A), NEW h, SplitEq(st0, arg, h)
  PROVE  h = SplitRun(st0, arg)
<1> DEFINE g == SplitRun(st0, arg)
           S == {n \in Nat : h[n] = g[n]}
<1>0. Len(arg) \in Nat
  OBVIOUS
<1>1. g = [i \in 0 .. Len(arg) |-> IF i = 0 THEN st0 ELSE SplitStep(g[i - 1], arg[i])]
  BY SplitRunDef DEF SplitEq
<1>1a. h = [i \in 0 .. Len(arg) |-> IF i = 0 THEN st0 ELSE SplitStep(h[i - 1], arg[i])]
  BY DEF SplitEq
<1>2. 0 \in S
  BY <1>0, <1>1, <1>1a DEF S
<1>3. \A n \in 1 .. Len(arg) : n - 1 \in S => n \in S
  <2> TAKE n \in 1 .. Len(arg)
  <2> HAVE n - 1 \in S
  <2>1. h[n - 1] = g[n - 1]
    BY Zenon DEF S
  <2>2. h[n] = g[n] /\ n \in Nat
    BY <1>1, <1>1a, <2>1
  <2>3. QED
    BY <2>2, Zenon DEF S
<1>4. 0 .. Len(arg) \subseteq S
  BY <1>0, <1>2, <1>3, UpToInduction
<1>5. QED
  BY <1>1, <1>1a, <1>4 DEF S

(* The scanner on nothing stays where it is. *)
LEMMA SplitEmpty ==
  ASSUME NEW st0
  PROVE  Split(st0, << >>) = st0
<1>0. << >> \in Seq(Chars) /\ Len(<< >>) = 0
  BY EmptySeq
<1>1. SplitRun(st0, << >>) =
        [i \in 0 .. Len(<< >>) |->
           IF i = 0 THEN st0 ELSE SplitStep(SplitRun(st0, << >>)[i - 1], << >>[i])]
  BY <1>0, SplitRunDef DEF SplitEq
<1>2. SplitRun(st0, << >>)[0] = st0
  BY <1>0, <1>1
<1>3. QED
  BY <1>0, <1>2, SplitIsRun

(* Reading one more character is one more SplitStep. *)
LEMMA SplitSnoc ==
  ASSUME NEW st0, NEW A, NEW u \in Seq(A), NEW c \in A
  PROVE  Split(st0, Append(u, c)) = SplitStep(Split(st0, u), c)
<1> DEFINE w == Append(u, c)
           g == SplitRun(st0, w)
           h == [i \in 0 .. Len(u) |-> g[i]]
<1>1. /\ w \in Seq(A)
      /\ Len(w) = Len(u) + 1
      /\ \A i \in 1 .. Len(u) : w[i] = u[i]
      /\ w[Len(u) + 1] = c
  BY AppendProperties
<1>2. g = [i \in 0 .. Len(w) |-> IF i = 0 THEN st0 ELSE SplitStep(g[i - 1], w[i])]
  <2>1. Len(w) \in Nat
    BY <1>1
  <2>2. SplitEq(st0, w, g)
    BY <2>1, SplitRunDef
  <2>3. QED
    BY <2>2 DEF SplitEq
<1>3. h = [i \in 0 .. Len(u) |-> IF i = 0 THEN st0 ELSE SplitStep(h[i - 1], u[i])]
  BY <1>1, <1>2
<1>4. h = SplitRun(st0, u)
  <2>1. SplitEq(st0, u, h)
    BY <1>3 DEF SplitEq
  <2>2. QED
    BY <2>1, SplitRunUnique
<1>5. g[Len(u) + 1] = SplitStep(h[Len(u)], c)
  BY <1>1, <1>2
<1>6. QED
  BY <1>1, <1>4, <1>5, SplitIsRun

(* The scanner state with the given fields and current field, outside an *)
(* escape and just after a backslash.  They name the two records so that  *)
(* no lemma states a Boolean literal, which the provers cannot match.     *)
Idle(F, C) == [fields |-> F, cur |-> C, esc |-> FALSE]
Escaping(F, C) == [fields |-> F, cur |-> C, esc |-> TRUE]

(* One step of the systemd-nspawn scanner, case by case. *)
LEMMA StepFacts ==
  ASSUME NEW F, NEW C, NEW x
  PROVE  /\ SplitStep(Idle(F, C), Backslash) = Escaping(F, C)
         /\ SplitStep(Escaping(F, C), x) = Idle(F, Append(C, x))
         /\ SplitStep(Idle(F, C), Colon) = Idle(Append(F, C), << >>)
<1>0. Backslash # Colon
  BY DEF Backslash, Colon
<1>1. SplitStep(Idle(F, C), Backslash) = Escaping(F, C)
  BY <1>0, Zenon DEF SplitStep, Idle, Escaping
<1>2. SplitStep(Escaping(F, C), x) = Idle(F, Append(C, x))
  BY Zenon DEF SplitStep, Idle, Escaping
<1>3. SplitStep(Idle(F, C), Colon) = Idle(Append(F, C), << >>)
  BY <1>0, Zenon DEF SplitStep, Idle, Escaping
<1>4. QED
  BY <1>1, <1>2, <1>3

(* An ordinary character outside an escape joins the current field. *)
LEMMA StepPlain ==
  ASSUME NEW F, NEW C, NEW x, x \notin {Backslash, Colon}
  PROVE  SplitStep(Idle(F, C), x) = Idle(F, Append(C, x))
BY Zenon DEF SplitStep, Idle, Escaping

(* Appending one character after a concatenation. *)
LEMMA ConcatSnoc ==
  ASSUME NEW B, NEW u \in Seq(B), NEW v \in Seq(B), NEW a \in B
  PROVE  u \o (v \o << a >>) = Append(u \o v, a)
<1>1. << a >> \in Seq(B) /\ u \o v \in Seq(B)
  OBVIOUS
<1>2. QED
  BY <1>1, ConcatAssociative, AppendIsConcat

(* Appending two characters after a concatenation. *)
LEMMA ConcatSnoc2 ==
  ASSUME NEW B, NEW u \in Seq(B), NEW v \in Seq(B), NEW a \in B, NEW e \in B
  PROVE  u \o (v \o << a, e >>) = Append(Append(u \o v, a), e)
<1>1. << a >> \in Seq(B) /\ << e >> \in Seq(B) /\ u \o v \in Seq(B)
  OBVIOUS
<1>2. u \o (v \o << a >>) = Append(u \o v, a)
  BY <1>1, ConcatSnoc
<1>3. << a, e >> = << a >> \o << e >>
  <2>1. /\ << a >> \o << e >> \in Seq(B)
        /\ Len(<< a >> \o << e >>) = 2
        /\ \A k \in 1 .. 2 : (<< a >> \o << e >>)[k] = IF k <= 1 THEN a ELSE e
    BY <1>1, ConcatProperties
  <2>2. << a, e >> \in Seq(B) /\ Len(<< a, e >>) = 2
    OBVIOUS
  <2>3. \A k \in 1 .. Len(<< a, e >>) : << a, e >>[k] = (<< a >> \o << e >>)[k]
    BY <2>1, <2>2
  <2>4. QED
    BY <2>1, <2>2, <2>3, SeqEqual
<1>4. v \o << a, e >> = (v \o << a >>) \o << e >>
  BY <1>1, <1>3, ConcatAssociative
<1>5. PICK W \in Seq(B) : W = v \o << a >>
  BY <1>1, ConcatProperties
<1>6. u \o (W \o << e >>) = Append(u \o W, e)
  BY ConcatSnoc
<1>7. QED
  BY <1>2, <1>4, <1>5, <1>6

(* The first i characters are the first i - 1 and the i-th. *)
LEMMA PrefixSnoc ==
  ASSUME NEW B, NEW C \in Seq(B), NEW p \in Seq(B), NEW i \in 1 .. Len(p)
  PROVE  /\ SubSeq(p, 1, i - 1) \in Seq(B)
         /\ Append(C \o SubSeq(p, 1, i - 1), p[i]) = C \o SubSeq(p, 1, i)
<1>1. SubSeq(p, 1, i - 1) \in Seq(B) /\ p[i] \in B
  <2>1. \A k \in 1 .. i - 1 : p[k] \in B
    OBVIOUS
  <2>2. QED
    BY <2>1, SubSeqProperties
<1>2. SubSeq(p, 1, i) = SubSeq(p, 1, i - 1) \o << p[i] >>
  BY SubSeqRecursiveSecond
<1>3. C \o (SubSeq(p, 1, i - 1) \o << p[i] >>) = Append(C \o SubSeq(p, 1, i - 1), p[i])
  BY <1>1, ConcatSnoc
<1>4. QED
  BY <1>1, <1>2, <1>3

(* A quoted character appended after a concatenation. *)
LEMMA EscConcat ==
  ASSUME NEW B, NEW u \in Seq(B), NEW v \in Seq(B), NEW e \in B, Backslash \in B
  PROVE  u \o (v \o << Backslash, e >>) = Append(Append(u \o v, Backslash), e)
BY ConcatSnoc2

(* One character of _colon_quote_path read back: the escaped form of a   *)
(* character, read outside an escape, adds that character to the current  *)
(* field and leaves the scanner outside an escape.                        *)
LEMMA QuoteStep ==
  ASSUME NEW B, Backslash \in B, NEW s, NEW X \in Seq(B), NEW W \in Seq(B),
         NEW F, NEW C, NEW ch \in B
  PROVE  /\ W \o Escaped(ch) \in Seq(B)
         /\ Split(s, X \o W) = Idle(F, C) =>
              Split(s, X \o (W \o Escaped(ch))) = Idle(F, Append(C, ch))
<1>1. X \o W \in Seq(B) /\ Append(X \o W, Backslash) \in Seq(B)
  OBVIOUS
<1>2. Split(s, Append(X \o W, Backslash)) = SplitStep(Split(s, X \o W), Backslash)
  BY <1>1, SplitSnoc
<1>3. Split(s, Append(Append(X \o W, Backslash), ch)) =
        SplitStep(Split(s, Append(X \o W, Backslash)), ch)
  BY <1>1, SplitSnoc
<1>4. Split(s, Append(X \o W, ch)) = SplitStep(Split(s, X \o W), ch)
  BY <1>1, SplitSnoc
<1>5. /\ SplitStep(Idle(F, C), Backslash) = Escaping(F, C)
      /\ SplitStep(Escaping(F, C), ch) = Idle(F, Append(C, ch))
  BY StepFacts
<1>6. ASSUME ch \notin {Backslash, Colon}
      PROVE  SplitStep(Idle(F, C), ch) = Idle(F, Append(C, ch))
  BY <1>6, StepPlain
<1>7. X \o (W \o << Backslash, ch >>) = Append(Append(X \o W, Backslash), ch)
  BY EscConcat
<1>8. X \o (W \o << ch >>) = Append(X \o W, ch)
  BY ConcatSnoc
<1>9. W \o << Backslash, ch >> \in Seq(B) /\ W \o << ch >> \in Seq(B)
  OBVIOUS
<1>10. CASE ch \in {Backslash, Colon}
  <2>1. Escaped(ch) = << Backslash, ch >>
    BY <1>10 DEF Escaped
  <2>2. QED
    BY <1>2, <1>3, <1>5, <1>7, <1>9, <2>1
<1>11. CASE ch \notin {Backslash, Colon}
  <2>1. Escaped(ch) = << ch >>
    BY <1>11 DEF Escaped
  <2>2. QED
    BY <1>4, <1>6, <1>8, <1>9, <1>11, <2>1
<1>12. QED
  BY <1>10, <1>11

(* The heart of _colon_quote_path: from a state outside an escape, the   *)
(* scanner reads the quoted path into the current field character for     *)
(* character, and ends outside an escape: a quoted colon ends no field,   *)
(* and a quoted backslash escapes nothing after it.                        *)
LEMMA QuoteParse ==
  ASSUME NEW B, Backslash \in B, Colon \in B, NEW p \in Seq(B),
         NEW s, NEW X \in Seq(B), NEW F, NEW C \in Seq(B)
  PROVE  Split(s, X) = Idle(F, C) =>
         \A i \in 0 .. Len(p) :
           /\ QuoteRun(p)[i] \in Seq(B)
           /\ Split(s, X \o QuoteRun(p)[i]) = Idle(F, C \o SubSeq(p, 1, i))
<1> DEFINE q == QuoteRun(p)
           P(i) == /\ q[i] \in Seq(B)
                   /\ Split(s, X \o q[i]) = Idle(F, C \o SubSeq(p, 1, i))
           S == {i \in Nat : P(i)}
<1>0. Len(p) \in Nat
  OBVIOUS
<1>1. q = [i \in 0 .. Len(p) |-> IF i = 0 THEN << >> ELSE QStep(q[i - 1], p[i])]
  BY <1>0, QuoteRunDef DEF QuoteEq
<1>2. Split(s, X) = Idle(F, C) => 0 \in S
  <2>1. q[0] = << >>
    BY <1>1
  <2>2. X \o << >> = X /\ C \o SubSeq(p, 1, 0) = C
    BY ConcatEmptySeq
  <2>3. QED
    BY <2>1, <2>2, EmptySeq DEF S
<1>3. \A i \in 1 .. Len(p) : i - 1 \in S => i \in S
  <2> TAKE i \in 1 .. Len(p)
  <2> HAVE i - 1 \in S
  <2>1. PICK W \in Seq(B), C1 \in Seq(B) :
          /\ W = q[i - 1]
          /\ C1 = C \o SubSeq(p, 1, i - 1)
          /\ Split(s, X \o W) = Idle(F, C1)
    <3>1. q[i - 1] \in Seq(B) /\ Split(s, X \o q[i - 1]) = Idle(F, C \o SubSeq(p, 1, i - 1))
      BY Zenon DEF S, P
    <3>2. C \o SubSeq(p, 1, i - 1) \in Seq(B)
      BY PrefixSnoc
    <3>3. QED
      BY <3>1, <3>2, Zenon
  <2>2. PICK ch \in B : ch = p[i]
    OBVIOUS
  <2>3. Append(C1, ch) = C \o SubSeq(p, 1, i)
    BY <2>1, <2>2, PrefixSnoc
  <2>4. q[i] = W \o Escaped(ch)
    <3>1. i \in 0 .. Len(p) /\ i # 0
      OBVIOUS
    <3>2. q[i] = QStep(q[i - 1], p[i])
      BY <1>1, <3>1
    <3>3. QED
      BY <2>1, <2>2, <3>2 DEF QStep
  <2>5. W \o Escaped(ch) \in Seq(B) /\ Split(s, X \o (W \o Escaped(ch))) = Idle(F, Append(C1, ch))
    <3>1. W \in Seq(B) /\ ch \in B
      BY <2>1, <2>2
    <3>2. /\ W \o Escaped(ch) \in Seq(B)
          /\ Split(s, X \o W) = Idle(F, C1) =>
               Split(s, X \o (W \o Escaped(ch))) = Idle(F, Append(C1, ch))
      BY <3>1, QuoteStep
    <3>3. QED
      BY <2>1, <3>2
  <2>6. i \in Nat
    OBVIOUS
  <2>7. QED
    BY <2>3, <2>4, <2>5, <2>6, Zenon DEF S, P
<1>4. ASSUME Split(s, X) = Idle(F, C)
      PROVE  0 .. Len(p) \subseteq S
  BY <1>0, <1>2, <1>3, <1>4, UpToInduction
<1>5. QED
  BY <1>4 DEF S

(* bind_args round trip: whatever backslashes and colons the two paths  *)
(* hold, systemd-nspawn splits ColonQuote(src) : ColonQuote(dest) into    *)
(* exactly the two paths.                                                   *)
LEMMA RoundTrip ==
  ASSUME NEW B, Backslash \in B, Colon \in B, NEW sp \in Seq(B), NEW dp \in Seq(B)
  PROVE  NspawnFields(ColonQuote(sp) \o << Colon >> \o ColonQuote(dp)) = << sp, dp >>
<1>1. PICK E : E = << >>
  OBVIOUS
<1>2. PICK G : G = << sp >>
  OBVIOUS
<1>3. E \in Seq(B)
  BY <1>1, EmptySeq
<1>4. Split(SplitStart, E) = Idle(E, E)
  BY <1>1, SplitEmpty DEF SplitStart, Idle
<1>5. PICK Q1 \in Seq(B) : Q1 = ColonQuote(sp) /\ Split(SplitStart, Q1) = Idle(E, sp)
  <2>1. \A i \in 0 .. Len(sp) :
          /\ QuoteRun(sp)[i] \in Seq(B)
          /\ Split(SplitStart, E \o QuoteRun(sp)[i]) = Idle(E, E \o SubSeq(sp, 1, i))
    BY <1>3, <1>4, QuoteParse
  <2>2. /\ QuoteRun(sp)[Len(sp)] \in Seq(B)
        /\ Split(SplitStart, E \o QuoteRun(sp)[Len(sp)]) = Idle(E, E \o SubSeq(sp, 1, Len(sp)))
    BY <2>1
  <2>3. E \o QuoteRun(sp)[Len(sp)] = QuoteRun(sp)[Len(sp)]
    BY <1>1, <2>2, ConcatEmptySeq
  <2>4. E \o SubSeq(sp, 1, Len(sp)) = sp
    BY <1>1, SubSeqFull, ConcatEmptySeq
  <2>5. QED
    BY <2>2, <2>3, <2>4, QuoteIsRun
<1>6. PICK A1 \in Seq(B) : A1 = Q1 \o << Colon >> /\ Split(SplitStart, A1) = Idle(G, E)
  <2>1. Q1 \o << Colon >> = Append(Q1, Colon)
    BY <1>5, AppendIsConcat
  <2>2. Split(SplitStart, Append(Q1, Colon)) = SplitStep(Split(SplitStart, Q1), Colon)
    BY <1>5, SplitSnoc
  <2>3. SplitStep(Idle(E, sp), Colon) = Idle(Append(E, sp), << >>)
    BY StepFacts
  <2>4. Append(E, sp) = G
    BY <1>1, <1>2
  <2>5. Append(Q1, Colon) \in Seq(B)
    BY <1>5
  <2>6. QED
    BY <1>1, <1>5, <2>1, <2>2, <2>3, <2>4, <2>5
<1>7. Split(SplitStart, A1 \o ColonQuote(dp)) = Idle(G, dp)
  <2>0. A1 \in Seq(B) /\ Split(SplitStart, A1) = Idle(G, E)
    BY <1>6
  <2>1. \A i \in 0 .. Len(dp) :
          /\ QuoteRun(dp)[i] \in Seq(B)
          /\ Split(SplitStart, A1 \o QuoteRun(dp)[i]) = Idle(G, E \o SubSeq(dp, 1, i))
    BY <1>3, <2>0, QuoteParse
  <2>2. Split(SplitStart, A1 \o QuoteRun(dp)[Len(dp)]) = Idle(G, E \o SubSeq(dp, 1, Len(dp)))
    BY <2>1
  <2>3. E \o SubSeq(dp, 1, Len(dp)) = dp
    BY <1>1, SubSeqFull, ConcatEmptySeq
  <2>4. QED
    BY <2>2, <2>3, QuoteIsRun
<1>8. NspawnFields(A1 \o ColonQuote(dp)) = Append(G, dp)
  BY <1>7 DEF NspawnFields, Idle
<1>9. QED
  BY <1>2, <1>5, <1>6, <1>8

(* The inductive invariant: the paths are paths, and out is empty or the *)
(* arguments bind_args built from them.                                    *)
IInv ==
  /\ src \in Paths
  /\ dest \in Paths
  /\ out = << >> \/ out = BindArgs(src, dest, readonly)

(* Every character a path may hold, and the two the quoting escapes. *)
Alphabet == Chars \cup {Backslash, Colon}

(* A path of the model is a finite sequence of characters. *)
LEMMA PathsAreSeqs ==
  ASSUME NEW p \in Paths
  PROVE  p \in Seq(Alphabet)
<1>1. PICK m \in 0 .. MaxPathLen : p \in [1 .. m -> Chars]
  BY DEF Paths, BoundedSeq, SeqOf
<1>2. m \in Nat /\ p \in [1 .. m -> Alphabet]
  BY <1>1 DEF Alphabet
<1>3. QED
  BY <1>2

(* Before bind_args runs, out is empty and the paths are any paths. *)
LEMMA InitIInv == Init => IInv
BY DEF Init, IInv

(* bind_args builds out from the paths it is given and changes neither. *)
LEMMA NextIInv == IInv /\ [Next]_vars => IInv'
BY DEF IInv, Next, Quote, Done, vars

(* For every alphabet and every bound on the length of paths: once        *)
(* bind_args has run, systemd-nspawn splits its --bind value back into     *)
(* exactly the source and destination it was given, whatever backslashes  *)
(* and colons they hold.                                                   *)
THEOREM QuoteRoundTripHolds == Spec => []QuoteRoundTrip
<1>1. IInv => QuoteRoundTrip
  <2> SUFFICES ASSUME IInv, out # << >>
               PROVE  NspawnFields(out.arg) = << src, dest >>
    BY DEF QuoteRoundTrip
  <2>1. out.arg = ColonQuote(src) \o << Colon >> \o ColonQuote(dest)
    BY DEF IInv, BindArgs
  <2>2. src \in Seq(Alphabet) /\ dest \in Seq(Alphabet)
    BY PathsAreSeqs DEF IInv
  <2>3. Backslash \in Alphabet /\ Colon \in Alphabet
    BY DEF Alphabet
  <2>4. QED
    BY <2>1, <2>2, <2>3, RoundTrip
<1>2. QED
  BY InitIInv, NextIInv, <1>1, PTL DEF Spec

=============================================================================
