------------------------------- MODULE TextSanitize ------------------------------
(***************************************************************************)
(* The phone's text made ASCII (Util/TextSanitize): one code point of the  *)
(* UTF-8 input per step of the loop, with the separator that waits for     *)
(* what follows it.  The bytes are those at which a decision of the code   *)
(* turns; the tables of letters are kept for the letters they spell.       *)
(***************************************************************************)
EXTENDS Integers, Sequences, SequencesExt

CONSTANT MaxBytes   \* bound of the model: the length of the input

VARIABLES textIn, textAt, textOut, separator

textVars == <<textIn, textAt, textOut, separator>>

(* A, newline, space; continuations; leads of two (the first too short for *)
(* anything), three and four bytes.                                        *)
Bytes == {65, 10, 32} \cup {128, 160, 166, 173} \cup {193, 194, 195} \cup {224, 226, 237} \cup {240, 244}

NewLine == 10
Space   == 32
NoSeparator == 0
Invalid == -1

TextInit ==
  /\ textIn \in BoundedSeq(Bytes, MaxBytes)
  /\ textAt = 1 /\ textOut = <<>> /\ separator = NoSeparator

-----------------------------------------------------------------------------
(* mutant: any byte continues *)
Cont_Any(in, i, k) == IF i + k \in DOMAIN in THEN in[i + k] % 64 ELSE -1

(* The six bits of the k-th byte after the i-th, or -1. *)
Cont(in, i, k) == IF i + k \in DOMAIN in /\ in[i + k] \in 128..191 THEN in[i + k] % 64 ELSE -1

(* Overlong forms, surrogates and what is beyond the last code point are   *)
(* refused; a refused byte is passed alone.                                *)
DecodeUtf8(in, i) ==
  LET b == in[i]  c == [k \in 1..3 |-> Cont(in, i, k)]
      Scalar(cp, n, ok) == IF ok /\ \A k \in 1..n - 1 : c[k] >= 0 THEN [cp |-> cp, len |-> n] ELSE [cp |-> Invalid, len |-> 1]
      two == (b % 32) * 64 + c[1]  three == (b % 16) * 4096 + c[1] * 64 + c[2]
      four == (b % 8) * 262144 + c[1] * 4096 + c[2] * 64 + c[3]
  IN CASE b < 128 -> [cp |-> b, len |-> 1]
       [] b \in 192..223 -> Scalar(two, 2, two >= 128)
       [] b \in 224..239 -> Scalar(three, 3, three >= 2048 /\ three \notin 55296..57343)
       [] b \in 240..247 -> Scalar(four, 4, four \in 65536..1114111)
       [] OTHER -> [cp |-> Invalid, len |-> 1]

IsWhitespace(cp) ==
  cp \in {9, 11, 12, 13, 32, 133, 160, 5760, 8232, 8233, 8239, 8287, 10240, 12288} \cup (8192..8202)

IsInvisible(cp) ==
  cp \in {173, 847, 1564, 4447, 4448, 6068, 6069, 12644, 65279, 65440} \cup (6155..6159) \cup (8203..8207)
         \cup (8234..8238) \cup (8288..8292) \cup (8294..8303) \cup (65024..65039)
         \cup (113824..113827) \cup (119155..119162) \cup (917504..917631) \cup (917760..917999)

(* The tables, for the letters that Bytes spell: A and a with a grave, i   *)
(* with an acute, the ligature ae, and the ellipsis.  The rest is dropped. *)
Latin1Supp(cp) ==
  CASE cp = 192 -> <<65>> [] cp = 224 -> <<97>> [] cp = 237 -> <<105>> [] cp = 230 -> <<97, 101>> [] OTHER -> <<>>

Transliterate(cp) ==
  IF cp \in 192..255 THEN Latin1Supp(cp) ELSE IF cp = 8230 THEN <<46, 46, 46>> ELSE <<>>

Spelt(cp) ==
  IF cp < 32 \/ cp = 127 THEN <<>> ELSE IF cp <= 126 THEN <<cp>>
  ELSE IF IsInvisible(cp) THEN <<>> ELSE Transliterate(cp)

-----------------------------------------------------------------------------
Flush == IF textOut = <<>> \/ separator = NoSeparator THEN textOut ELSE Append(textOut, separator)

Sanitize ==
  /\ textAt <= Len(textIn)
  /\ LET s == DecodeUtf8(textIn, textAt) IN
     /\ textAt' = textAt + s.len
     /\ \/ s.cp = Invalid /\ UNCHANGED <<textOut, separator>>
        \/ s.cp = NewLine /\ separator' = NewLine /\ UNCHANGED textOut
        \/ /\ IsWhitespace(s.cp) /\ UNCHANGED textOut
           /\ separator' = IF separator = NoSeparator THEN Space ELSE separator
        \/ /\ s.cp \notin {Invalid, NewLine} /\ ~IsWhitespace(s.cp)
           /\ IF Spelt(s.cp) = <<>> THEN UNCHANGED <<textOut, separator>>
              ELSE textOut' = Flush \o Spelt(s.cp) /\ separator' = NoSeparator
  /\ UNCHANGED textIn

-----------------------------------------------------------------------------
(* The Unicode standard's table of well-formed byte sequences: the ranges  *)
(* of the first and the second byte, and the length.                       *)
WellFormed ==
  {<<0..127, 0..255, 1>>, <<194..223, 128..191, 2>>, <<224..224, 160..191, 3>>, <<225..236, 128..191, 3>>,
   <<237..237, 128..159, 3>>, <<238..239, 128..191, 3>>, <<240..240, 144..191, 4>>, <<241..243, 128..191, 4>>,
   <<244..244, 128..143, 4>>}

(* Where a scalar begins in the input, and which it is. *)
Begins(i, n) ==
  /\ i + n - 1 <= Len(textIn)
  /\ \E row \in WellFormed : row[3] = n /\ textIn[i] \in row[1] /\ (n > 1 => textIn[i + 1] \in row[2])
  /\ \A k \in 2..n - 1 : textIn[i + k] \in 128..191

ScalarAt(i) ==
  LET n == CHOOSE n \in 1..4 : Begins(i, n)
      Mark(k) == <<0, 192, 224, 240>>[k]
      Six(k) == textIn[i + k] - 128
  IN CASE n = 1 -> textIn[i]
       [] n = 2 -> (textIn[i] - Mark(2)) * 64 + Six(1)
       [] n = 3 -> ((textIn[i] - Mark(3)) * 64 + Six(1)) * 64 + Six(2)
       [] n = 4 -> (((textIn[i] - Mark(4)) * 64 + Six(1)) * 64 + Six(2)) * 64 + Six(3)

Scalars == {i \in DOMAIN textIn : \E n \in 1..4 : Begins(i, n)}
Visible == {i \in Scalars : ScalarAt(i) # NewLine /\ ~IsWhitespace(ScalarAt(i)) /\ Spelt(ScalarAt(i)) # <<>>}

(* What stands before a visible scalar: the line break, or else a space,   *)
(* if there is one between it and the visible scalar before.               *)
Gap(i) ==
  LET between == {j \in Scalars : j < i /\ \A k \in Visible : k < i => k < j} IN
  IF \A k \in Visible : k >= i THEN <<>>
  ELSE IF \E j \in between : ScalarAt(j) = NewLine THEN <<NewLine>>
  ELSE IF \E j \in between : IsWhitespace(ScalarAt(j)) THEN <<Space>> ELSE <<>>

(* The text is what the standard reads in the bytes, wherever a wrong byte *)
(* stands and wherever the phone has cut it: no scalar is lost or invented *)
(* by going on after a refused byte, one separator stands for a run of     *)
(* them, a line break wins, and none is first or last.                     *)
TextInv ==
  textAt > Len(textIn) =>
    textOut = FoldLeft(LAMBDA out, i : IF i \in Visible THEN out \o Gap(i) \o Spelt(ScalarAt(i)) ELSE out,
                       <<>>, [i \in DOMAIN textIn |-> i])
==================================================================================
