---------------------------- MODULE NmtTranslate ----------------------------
(***************************************************************************)
(* One call of nmt::NMTTranslateBatch (nmt.cpp:246-259) and its calls of   *)
(* nmt::NMTTranslate (nmt.cpp:185-244), with the backend they talk to over *)
(* a WebSocket: Marian, started with --n-best, one connection a sentence.  *)
(*                                                                         *)
(* Answers, lines and pieces are represented as in TranslateCall: the      *)
(* strings that the code concatenates are the sequences of the sentences   *)
(* they come from; so are the sums of scores.                              *)
(***************************************************************************)
EXTENDS Integers, Sequences

CONSTANTS N,       \* batch_sentence_to_translate.size()
          Answers  \* the messages the backend may send

ASSUME NAssumption       == N \in Nat
ASSUME AnswersAssumption == Answers \subseteq Seq(Nat)

VARIABLES
  pc,                       \* "connect" and "poll": in NMTTranslate's try block;
                            \* "merge": in its loop over the lines; "true",
                            \* "false": returned; "dead": null dereference;
                            \* "undefined": read or write out of range
  sentence,                 \* 1 + NMTTranslateBatch's inc_hyp
  inc_hyp,                  \* NMTTranslate's: the lines merged so far
  link,                     \* the WebSocket: "none", "open" or "closed"
  inbox,                    \* what the backend has sent on it: one message at most
  heard,                    \* the messages of the sentences so far
  translation_output,       \* so too translation_raw_output
  output_translation_scores,
  output_alignement_scores

lists == <<translation_output, output_translation_scores, output_alignement_scores>>
vars  == <<pc, sentence, inc_hyp, link, inbox, heard, lists>>

-----------------------------------------------------------------------------
\* Mutants: NMTTranslateBatch goes past the last sentence, or stops before it; the
\* poll loop does not notice that the peer has closed; a piece overwrites the last
\* one; alignments are indexed before they are pushed.
PastTheEnd(s)      == IF s <= N THEN "connect" ELSE "true"
StopsEarly(s)      == IF s + 1 < N THEN "connect" ELSE "true"
OnlyMessages       == inbox # <<>>
PutOver(list, h, piece) ==
  IF h = Len(list) + 1 THEN Append(list, <<piece>>) ELSE [list EXCEPT ![h] = <<piece>>]
InRangeUnpushed(fields, h) ==
  fields >= 4 /\ (fields > 4 => h <= Len(output_alignement_scores))

\* NMTTranslateBatch's loop: what follows a sentence.
AfterSentence(s) == IF s < N THEN "connect" ELSE "true"

Init == /\ pc = AfterSentence(0)
        /\ sentence = 1
        /\ inc_hyp = 0
        /\ link = "none"
        /\ inbox = <<>>
        /\ heard = <<>>
        /\ translation_output = <<>>
        /\ output_translation_scores = <<>>
        /\ output_alignement_scores = <<>>

\* WebSocket::from_url and send.  When the backend cannot be reached from_url
\* returns NULL; assert(ws) is compiled out (RelWithDebInfo) and ws->send
\* dereferences it.
Connect == /\ pc = "connect"
           /\ \/ pc' = "poll" /\ link' = "open"
              \/ pc' = "dead" /\ UNCHANGED link
           /\ UNCHANGED <<sentence, inc_hyp, inbox, heard, lists>>

\* A std::exception inside the try block: NMTTranslate and its caller return false.
Raise == /\ pc \in {"connect", "poll"}
         /\ pc' = "false"
         /\ link' = "none"
         /\ inbox' = <<>>
         /\ UNCHANGED <<sentence, inc_hyp, heard, lists>>

\* The poll loop ends with a message, or with the connection closed by the
\* peer: then the message is empty, and has no lines.
LoopEnds == inbox # <<>> \/ link = "closed"
Message  == IF inbox # <<>> THEN Head(inbox) ELSE <<>>

Poll == /\ pc = "poll"
        /\ LoopEnds
        /\ heard' = Append(heard, Message)
        /\ pc' = "merge"
        /\ inc_hyp' = 0
        /\ link' = "none"
        /\ inbox' = <<>>
        /\ UNCHANGED <<sentence, lists>>

\* list[h] with the piece appended; a new hypothesis when the list ends at h - 1.
Put(list, h, piece) == IF h = Len(list) + 1
                       THEN Append(list, <<piece>>)
                       ELSE [list EXCEPT ![h] = Append(@, piece)]

\* data.size() > 4: the line carries an alignment.
HasAlignment(fields) == fields > 4

\* Every data[..] the code reads exists, and every list it writes at h has
\* h - 1 elements at least.
InRange(fields, h) ==
  /\ fields >= 4
  /\ HasAlignment(fields) => h <= Len(output_alignement_scores) + 1

Line == heard[sentence][inc_hyp + 1]

\* One iteration of the loop over the lines.
MergeLine ==
  /\ pc = "merge"
  /\ inc_hyp < Len(heard[sentence])
  /\ InRange(Line, inc_hyp + 1)
  /\ translation_output' = Put(translation_output, inc_hyp + 1, sentence)
  /\ output_translation_scores' = Put(output_translation_scores, inc_hyp + 1, sentence)
  /\ output_alignement_scores' =
       IF HasAlignment(Line) THEN Put(output_alignement_scores, inc_hyp + 1, sentence)
                             ELSE output_alignement_scores
  /\ inc_hyp' = inc_hyp + 1
  /\ UNCHANGED <<pc, sentence, link, inbox, heard>>

\* The same iteration when a vector is indexed out of range.
MergeBeyond == /\ pc = "merge"
               /\ inc_hyp < Len(heard[sentence])
               /\ ~ InRange(Line, inc_hyp + 1)
               /\ pc' = "undefined"
               /\ UNCHANGED <<sentence, inc_hyp, link, inbox, heard, lists>>

\* NMTTranslate returns true: the next sentence, or the end of the batch.
NextSentence == /\ pc = "merge"
                /\ inc_hyp = Len(heard[sentence])
                /\ sentence' = sentence + 1
                /\ pc' = AfterSentence(sentence)
                /\ UNCHANGED <<inc_hyp, link, inbox, heard, lists>>

\* The backend: it answers a sentence once, and may close the connection.
Answer == /\ link = "open" /\ inbox = <<>>
          /\ \E a \in Answers : inbox' = <<a>>
          /\ UNCHANGED <<pc, sentence, inc_hyp, link, heard, lists>>

Close == /\ link = "open"
         /\ link' = "closed"
         /\ UNCHANGED <<pc, sentence, inc_hyp, inbox, heard, lists>>

Client == Connect \/ Poll \/ MergeLine \/ MergeBeyond \/ NextSentence
Next   == Client \/ Raise \/ Answer \/ Close

Spec == Init /\ [][Next]_vars

\* The caller's thread runs, with or without exceptions; the backend does not
\* leave a sentence unanswered on an open connection for ever (the code has no
\* timeout of its own).
FairSpec == Spec /\ WF_vars(Client) /\ WF_vars(Answer \/ Close)

-----------------------------------------------------------------------------
Returned == {"true", "false", "dead", "undefined"}

Call == INSTANCE TranslateCall
          WITH outcome    <- IF pc \in Returned THEN pc ELSE "pending",
               answers    <- heard,
               hypotheses <- IF pc = "true" THEN translation_output ELSE <<>>

\* Lists of hypotheses, each a sequence of sentence numbers.
Hypotheses == Seq(Seq(Int))

TypeOK ==
  /\ pc \in {"connect", "poll", "merge"} \cup Returned
  /\ sentence \in 1 .. N + 1
  /\ inc_hyp \in Nat
  /\ link \in {"none", "open", "closed"}
  /\ inbox \in {<<>>} \cup {<<a>> : a \in Answers}
  /\ heard \in Seq(Answers \cup {<<>>})
  /\ translation_output \in Hypotheses
  /\ output_translation_scores \in Hypotheses
  /\ output_alignement_scores \in Hypotheses

\* The lines merged so far: of the current sentence, the first inc_hyp ones.
MergedLines(i) == IF pc \in {"merge", "undefined"} /\ i = sentence
                  THEN inc_hyp ELSE Len(heard[i])
Merged == [i \in DOMAIN heard |-> [h \in 1 .. MergedLines(i) |-> heard[i][h]]]

\* Hypothesis h of the text is made of hypothesis h of every sentence that has
\* one, in the order of the text, whatever the lengths of the n-best lists
\* (nmt.cpp:224-227): no piece is lost, duplicated or put under another number.
HypothesisExact == Call!Merges(translation_output, Merged)

\* Each score is the sum of the scores of the pieces of its hypothesis.
ScoresMatchPieces == output_translation_scores = translation_output

\* Alignments go with the pieces of the lines that carried one, under the same
\* hypothesis number, and none is lost (nmt.cpp:229-234).
AlignedSentences(h) == {i \in Call!Contributors(Merged, h) : HasAlignment(Merged[i][h])}
AlignmentsExact ==
  /\ \A h \in DOMAIN output_alignement_scores :
       Call!PiecesOf(output_alignement_scores[h], AlignedSentences(h))
  /\ \A i \in DOMAIN Merged : \A h \in DOMAIN Merged[i] :
       HasAlignment(Merged[i][h]) => h \in DOMAIN output_alignement_scores

\* A backend whose lines all have the same shape, with or without alignments,
\* never makes the code index a vector out of range (nmt.cpp:220-237).
UniformAnswersAreSafe == pc = "undefined" => ~ Call!Uniform(heard)

\* What is heard belongs to the sentence being translated.
OneAnswerPerSentence ==
  /\ Len(heard) = sentence - (IF pc \in {"merge", "undefined"} THEN 0 ELSE 1)
  /\ link # "none" <=> pc = "poll"
  /\ pc # "poll" => inbox = <<>>

\* Where the calls stand: with the properties above, an inductive invariant.
Control ==
  /\ pc \in {"connect", "poll", "merge", "undefined"} => sentence <= N
  /\ pc \in {"merge", "undefined"} => inc_hyp <= Len(heard[sentence])
  /\ pc = "true" => sentence = N + 1

IInv == /\ TypeOK /\ OneAnswerPerSentence /\ Control
        /\ HypothesisExact /\ ScoresMatchPieces /\ AlignmentsExact
        /\ UniformAnswersAreSafe

\* NMTTranslateBatch does what TranslateCall promises.
ImplementsCall == Call!Spec

\* The call returns, or takes the process down: it does not poll a closed
\* connection for ever (nmt.cpp:194).
Returns == <>(pc \in Returned)

\* nmt.cpp:254 reports a sentence that cannot be translated and returns false;
\* so a call that returns true has a first hypothesis for every sentence.
TrueMeansTranslated ==
  pc = "true" => \A i \in 1 .. N : heard[i] # <<>>
=============================================================================
