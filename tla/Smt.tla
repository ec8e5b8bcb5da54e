-------------------------------- MODULE Smt --------------------------------
(***************************************************************************)
(* The Moses client: one call of qsmt::NMTBatchSMT, smt.cpp:40-166.  It    *)
(* sends the sentences of a batch one by one, each over a connection that  *)
(* the server closes after its answer, and gathers the translations in the *)
(* first entry of the caller's vectors.                                    *)
(*                                                                         *)
(* A text is the sequence of what stands between its spaces: Empty stands  *)
(* for nothing, between two spaces.  Scores count in shares of the batch,  *)
(* 1/n each for a batch of n sentences.                                    *)
(***************************************************************************)
EXTENDS Integers, Sequences, SequencesExt, FiniteSets

CONSTANTS Words, Empty,
          Batches,  \* the batches it is called with
          Earlier,  \* what the caller's vector of translations may hold already
          Texts     \* the texts the Moses server may answer

ASSUME EmptyAssumption   == Empty \notin Words
ASSUME BatchesAssumption == Batches \subseteq Seq(Seq(Words))
ASSUME EarlierAssumption == Earlier \subseteq Seq(Seq(Words))
ASSUME TextsAssumption   == Texts \subseteq Seq(Words \cup {Empty})

VARIABLES batch_tokens,
          earlier,              \* output_batch_tokens when the call starts
          sentence,             \* the sentences that are done with
          output_batch_tokens,
          output_batch_scores,  \* as many shares as its entries are worth
          received,             \* the text received for each sentence, or <<>>
          answered,             \* the sentences whose answer had a text
          at                    \* "next", "connecting", "reading" or "done"

smt_vars == <<batch_tokens, earlier, sentence, output_batch_tokens, output_batch_scores,
              received, answered, at>>

SmtInit == /\ batch_tokens \in Batches
           /\ earlier \in Earlier
           /\ sentence = 0
           /\ output_batch_tokens = earlier
           /\ output_batch_scores = [n \in DOMAIN earlier |-> 0]
           /\ received = <<>>
           /\ answered = {}
           /\ at = "next"

-----------------------------------------------------------------------------
\* Split drops what is empty.
NonEmpty(piece) == IF piece = Empty THEN <<>> ELSE <<piece>>
Split(text)     == FlattenSeq([k \in DOMAIN text |-> NonEmpty(text[k])])

\* The loop over the sentences; SMTBatch resolves, connects and sends.
NextSentence == /\ at = "next"
                /\ sentence < Len(batch_tokens)
                /\ at' = "connecting"
                /\ UNCHANGED <<batch_tokens, earlier, sentence, output_batch_tokens,
                               output_batch_scores, received, answered>>

Connect == /\ at = "connecting"
           /\ at' = "reading"
           /\ UNCHANGED <<batch_tokens, earlier, sentence, output_batch_tokens,
                          output_batch_scores, received, answered>>

\* Mutants: the later sentences go in front; a sentence counts whether it was
\* translated or not.
InFront(pieces) ==
  IF sentence = 0 THEN Append(output_batch_tokens, pieces)
  ELSE [output_batch_tokens EXCEPT ![1] = pieces \o @]
CountedAnyway(score) == IF sentence = 0 THEN Append(output_batch_scores, 1)
                        ELSE [output_batch_scores EXCEPT ![1] = @ + 1]

\* The first sentence of the batch makes an entry, the others go to the first entry.
WithTokens(pieces) == IF sentence = 0 THEN Append(output_batch_tokens, pieces)
                      ELSE [output_batch_tokens EXCEPT ![1] = @ \o pieces]
WithScore(score)   == IF sentence = 0 THEN Append(output_batch_scores, score)
                      ELSE [output_batch_scores EXCEPT ![1] = @ + score]

\* What is done with the output of SMTBatch, which always returns 1.
Gather(text, score) ==
  /\ output_batch_tokens' = WithTokens(Split(text))
  /\ output_batch_scores' = WithScore(score)
  /\ received' = Append(received, text)
  /\ answered' = IF score = 1 THEN answered \cup {sentence + 1} ELSE answered
  /\ sentence' = sentence + 1
  /\ at' = "next"
  /\ UNCHANGED <<batch_tokens, earlier>>

\* The server closes after an answer with a "result" and its "text".
Translated == /\ at = "reading"
              /\ \E text \in Texts : Gather(text, 1)

\* No connection; a reading error; an answer that cannot be parsed, has no "result",
\* or a "result" without a "text": the output is empty, or left empty.
Untranslated == /\ at \in {"connecting", "reading"}
                /\ Gather(<<>>, 0)

Return == /\ at = "next"
          /\ sentence = Len(batch_tokens)
          /\ at' = "done"
          /\ UNCHANGED <<batch_tokens, earlier, sentence, output_batch_tokens, output_batch_scores,
                         received, answered>>

SmtNext == NextSentence \/ Connect \/ Translated \/ Untranslated \/ Return

SmtSpec == SmtInit /\ [][SmtNext]_smt_vars

-----------------------------------------------------------------------------
SmtTypeOK == /\ batch_tokens \in Batches
             /\ earlier \in Earlier
             /\ sentence \in 0 .. Len(batch_tokens)
             /\ output_batch_tokens \in Seq(Seq(Words))
             /\ output_batch_scores \in Seq(Nat)
             /\ Len(output_batch_scores) = Len(output_batch_tokens)
             /\ received \in Seq(Texts \cup {<<>>})
             /\ answered \subseteq 1 .. sentence
             /\ at \in {"next", "connecting", "reading", "done"}

\* The words received for the sentences from the n-th on, in their order.
WordsFrom(n) ==
  FlattenSeq([k \in 1 .. Len(received) - n + 1 |-> Split(received[k + n - 1])])

\* With vectors that are empty, the batch has one translation: the words received, in
\* the order of the sentences, whichever of them failed.  With vectors that are not, it
\* is torn apart: its first sentence is a new entry, the others are appended to the
\* entry of an earlier call; but no word is lost, and no other entry touched
\* (smt.cpp:146-163).
Gathered ==
  IF earlier = <<>>
  THEN output_batch_tokens = IF sentence = 0 THEN <<>> ELSE <<WordsFrom(1)>>
  ELSE sentence > 0 =>
    /\ Len(output_batch_tokens) = Len(earlier) + 1
    /\ output_batch_tokens[1] = earlier[1] \o WordsFrom(2)
    /\ output_batch_tokens[Len(earlier) + 1] = Split(received[1])
    /\ \A n \in 2 .. Len(earlier) : output_batch_tokens[n] = earlier[n]

\* The score is all that tells a failure, as the call returns true whatever happens:
\* the scores it adds, over those of an earlier call, come to one share for each
\* sentence that was answered (smt.cpp:130-134, 156, 161).
ScoreTells ==
  sentence > 0 => output_batch_scores[1]
                    + (IF earlier = <<>> THEN 0 ELSE output_batch_scores[Len(earlier) + 1])
                  = Cardinality(answered)

\* Inductive: the sentences done with are the texts received, and until the first of
\* them the vectors are as they were.
Underway == /\ Len(received) = sentence
            /\ at \in {"connecting", "reading"} => sentence < Len(batch_tokens)
            /\ Len(output_batch_tokens) = Len(earlier) + (IF sentence = 0 THEN 0 ELSE 1)
            /\ sentence = 0 =>
                 /\ output_batch_tokens = earlier
                 /\ \A n \in DOMAIN output_batch_scores : output_batch_scores[n] = 0

SmtInv == SmtTypeOK /\ Underway /\ Gathered /\ ScoreTells
=============================================================================
