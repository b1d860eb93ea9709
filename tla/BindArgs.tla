----------------------------- MODULE BindArgs -----------------------------
(***************************************************************************)
(* The bind-mount arguments of nspawn_in_subvol/cmd.py.  systemd-nspawn    *)
(* reads `--bind[-ro]=SRC:DEST[:OPTIONS]` split at colons, a backslash     *)
(* escaping the next character; _colon_quote_path escapes `\` and `:` in   *)
(* each path so that any host and guest path survives that syntax.         *)
(*                                                                         *)
(* A path is a sequence of characters; only `\`, `:` and some other        *)
(* character matter to the syntax, so the alphabet is a small constant.    *)
(***************************************************************************)
EXTENDS Sequences, SequencesExt

Backslash == "\\"
Colon == ":"

(* What re.sub puts in place of one character: a backslash or a colon   *)
(* gets a backslash before it, anything else stays.                        *)
Escaped(c) == IF c \in {Backslash, Colon} THEN <<Backslash, c>> ELSE <<c>>

(* Bug variant of Escaped: re.sub(b'[:]', ...), the backslash left         *)
(* unescaped.                                                              *)
EscapedColonOnly(c) == IF c = Colon THEN <<Backslash, c>> ELSE <<c>>

(* Bug variant of ColonQuote, with EscapedColonOnly. *)
ColonQuoteColonOnly(path) ==
  LET q[i \in 0 .. Len(path)] ==
        IF i = 0 THEN << >> ELSE q[i - 1] \o EscapedColonOnly(path[i])
  IN  q[Len(path)]

(* _colon_quote_path: re.sub(b'[\\\\:]', lambda m: b'\\' + m.group(0), p) *)
(* scans the path left to right; the first i characters quote to q[i].    *)
ColonQuote(path) ==
  LET q[i \in 0 .. Len(path)] ==
        IF i = 0 THEN << >> ELSE q[i - 1] \o Escaped(path[i])
  IN  q[Len(path)]

(* bind_args(src, dest, readonly=...): the option and its SRC:DEST value.  *)
(* Callers that pass no dest get dest = src (BindArgsSame).                *)
BindArgs(src, dest, readonly) ==
  [flag |-> IF readonly THEN "--bind-ro" ELSE "--bind",
   arg  |-> ColonQuote(src) \o <<Colon>> \o ColonQuote(dest)]

BindArgsSame(src, readonly) == BindArgs(src, src, readonly)

(***************************************************************************)
(* Reference: how systemd-nspawn splits a --bind value.  Scanning left to  *)
(* right, a backslash makes the next character literal, an unescaped colon *)
(* ends a field, anything else is part of the current field.               *)
(***************************************************************************)
SplitStep(st, c) ==
  IF st.esc THEN [st EXCEPT !.cur = Append(@, c), !.esc = FALSE]
  ELSE CASE c = Backslash -> [st EXCEPT !.esc = TRUE]
         [] c = Colon     -> [st EXCEPT !.fields = Append(@, st.cur), !.cur = << >>]
         [] OTHER         -> [st EXCEPT !.cur = Append(@, c)]

(* The scanner's state after reading arg from st0: after its first i     *)
(* characters it is st[i].                                                 *)
Split(st0, arg) ==
  LET st[i \in 0 .. Len(arg)] ==
        IF i = 0 THEN st0 ELSE SplitStep(st[i - 1], arg[i])
  IN  st[Len(arg)]

SplitStart == [fields |-> << >>, cur |-> << >>, esc |-> FALSE]

NspawnFields(arg) ==
  LET st == Split(SplitStart, arg)
  IN  Append(st.fields, st.cur)

=============================================================================
