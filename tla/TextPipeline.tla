---------------------------- MODULE TextPipeline ----------------------------
(***************************************************************************)
(* What becomes of a text: its pieces are cut into sentences               *)
(* (Segmentation), each sentence is sent to the backend, and the           *)
(* translations are put together (Text).  The backend here sends back      *)
(* what it receives, so that the text that comes out can be compared with  *)
(* the one that went in.                                                   *)
(*                                                                         *)
(* tokenized_vec is made of the pieces of SentencePiece, joined with       *)
(* spaces by spm_segment and split again.                                  *)
(***************************************************************************)
EXTENDS Segmentation, Text

CONSTANT Characters  \* what pieces are made of

\* SentencePiece leaves no space; and no piece is taken for the end of a field.
ASSUME PiecesAssumption  == Tokens \subseteq Seq(Characters \ {Space}) \ {<<>>}
ASSUME NoFieldAssumption ==
  \A t \in Tokens : Len(t) > 2 => SubSeq(t, Len(t) - 2, Len(t)) # <<"|", "|", "|">>

VARIABLES translated,  \* how many sentences are translated
          translation  \* translation_output[0], or <<>> while there is none

pipeline_vars == <<vars, translated, translation>>

PipelineInit == Init /\ translated = 0 /\ translation = <<>>

Cut == Next /\ UNCHANGED <<translated, translation>>

\* The n-th sentence, as tokenized_tmp puts it together.
Pieces(S)   == FlattenSeq([k \in DOMAIN tokenized_vec |->
                             IF k \in S THEN <<tokenized_vec[k]>> ELSE <<>>])
Sentence(n) == Join(Pieces(tokenized_batched[n]), <<Space>>)

Bars == <<"|", "|", "|", " ">>

\* The backend's only line: number, pieces, features and score.
Echo(sentence) ==
  <<"0", " ">> \o Bars \o sentence \o <<" ">> \o Bars \o <<"F", " ">> \o Bars \o <<"1">>

\* Mutant: the sentences are put together without the space.
PutCloseUp(text) == translation \o text

\* The first sentence makes the hypothesis, the others are appended after a space.
Put(text) == IF translated = 0 THEN text ELSE translation \o <<Space>> \o text

Translate ==
  /\ pc = "done"
  /\ translated < Len(tokenized_batched)
  /\ translation' = Put(spm_detokenize_str(Split(Echo(Sentence(translated + 1)), Bars)[2]))
  /\ translated' = translated + 1
  /\ UNCHANGED vars

PipelineNext == Cut \/ Translate

PipelineSpec == PipelineInit /\ [][PipelineNext]_pipeline_vars

-----------------------------------------------------------------------------
AllTranslated == pc = "done" /\ translated = Len(tokenized_batched)

\* The text that went in: the pieces without their marks.
Original == spm_detokenize_str(spm_segment(tokenized_vec))

Printed(text) == FlattenSeq([k \in DOMAIN text |->
                               IF text[k] = Space THEN <<>> ELSE <<text[k]>>])

\* An end marker inside a word: the next piece does not start a word, as in 3.14.
CutsAWord(k) == /\ k < Len(tokenized_vec)
                /\ tokenized_vec[k] \in EndMarkers
                /\ tokenized_vec[k + 1][1] # Mark

\* The pieces come whole through the string they are joined into; and with a faithful
\* backend the text comes back as it was, exactly when no end marker stands inside a
\* word: otherwise it comes back with a space after each such marker and no other
\* change (rest_server.cpp:259, nmt.cpp:224-225, :293-325, utils.cpp:13-30).
TextComesBack ==
  AllTranslated =>
    /\ Split(spm_segment(tokenized_vec), <<Space>>) = tokenized_vec
    /\ translation = Original <=> \A k \in DOMAIN tokenized_vec : ~ CutsAWord(k)
    /\ Len(translation) = Len(Original) + Cardinality({k \in DOMAIN tokenized_vec : CutsAWord(k)})
    /\ Printed(translation) = Printed(Original)
=============================================================================
