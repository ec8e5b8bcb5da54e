-------------------------------- MODULE Text --------------------------------
(***************************************************************************)
(* The conversions a text goes through around its translation: Split and   *)
(* Join (utils.cpp), nmt::spm_segment and nmt::spm_detokenize_str          *)
(* (nmt.cpp).  A string is a sequence of characters.                       *)
(***************************************************************************)
EXTENDS Integers, Sequences, SequencesExt

Space == " "
Mark  == "_"   \* the character with which SentencePiece marks the start of a word

\* line.find(del, begin), or the end of the line when there is none.
Find(line, del, begin) ==
  LET At == {p \in begin .. Len(line) - Len(del) + 1 : SubSeq(line, p, p + Len(del) - 1) = del}
  IN  IF At = {} THEN Len(line) + 1 ELSE CHOOSE p \in At : \A q \in At : p <= q

NonEmpty(piece) == IF piece = <<>> THEN <<>> ELSE <<piece>>

\* begin and pieces after a round of the loop, or after what follows it.
Round(line, del, s) ==
  LET pos == Find(line, del, s.begin)
  IN  [begin  |-> pos + Len(del),
       pieces |-> s.pieces \o NonEmpty(SubSeq(line, s.begin, pos - 1))]

\* The pieces of a line between its separators, but for the empty ones: no round finds
\* any once begin is past the end.
Split(line, del) ==
  LET after[n \in 0 .. Len(line)] ==
        IF n = 0 THEN [begin |-> 1, pieces |-> <<>>] ELSE Round(line, del, after[n - 1])
  IN  after[Len(line)].pieces

\* Words with a separator between two of them; spm_segment does so with spaces.
Join(words, del) ==
  FlattenSeq([k \in DOMAIN words |-> IF k = 1 THEN words[k] ELSE del \o words[k]])

spm_segment(pieces) == Join(pieces, <<Space>>)

\* The spaces go and the marks become spaces; then a space in front goes.
Shown(c)    == IF c = Space THEN <<>> ELSE IF c = Mark THEN <<Space>> ELSE <<c>>
Strip(text) == IF text # <<>> /\ text[1] = Space THEN Tail(text) ELSE text

spm_detokenize_str(input) == Strip(FlattenSeq([k \in DOMAIN input |-> Shown(input[k])]))
=============================================================================
