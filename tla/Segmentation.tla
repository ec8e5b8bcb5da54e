---------------------------- MODULE Segmentation ----------------------------
(***************************************************************************)
(* How the REST server cuts one text into the sentences it sends to the    *)
(* translation backend: rest_server::askTranslation on a text,             *)
(* rest_server.cpp:248-268.                                                *)
(*                                                                         *)
(* The text has already been tokenised and cut into pieces; Split leaves   *)
(* no empty token.  The strings the code glues together with " " are       *)
(* represented by the set of positions, in tokenized_vec, of the tokens    *)
(* they are made of: tokens are only ever added in increasing position.    *)
(***************************************************************************)
EXTENDS Integers, Sequences, FiniteSets

CONSTANTS Tokens,     \* the pieces a text is made of
          EndMarkers, \* those the code compares with: ".", "!", "?", "..."
                      \* (with or without the word boundary mark), and "\n"
          Texts       \* the texts, as sequences of tokens

ASSUME EndMarkersAssumption == EndMarkers \subseteq Tokens
ASSUME TextsAssumption      == Texts \subseteq Seq(Tokens)

VARIABLES tokenized_vec,     \* the tokens of the text
          l_inc,             \* how many of them the loop has consumed
          tokenized_tmp,     \* the sentence being put together
          tokenized_batched, \* the finished sentences, in order
          pc                 \* "loop", then "done" after the trailing flush

vars == <<tokenized_vec, l_inc, tokenized_tmp, tokenized_batched, pc>>

-----------------------------------------------------------------------------
Init == /\ tokenized_vec \in Texts
        /\ l_inc = 0
        /\ tokenized_tmp = {}
        /\ tokenized_batched = <<>>
        /\ pc = "loop"

\* Mutants: the last token is forgotten; the next token is taken; the sentence
\* under construction is overwritten, or not cleared.
EndsAtMarkersOnly(n)    == tokenized_vec[n] \in EndMarkers
ExtendedByNext(n)       == tokenized_tmp \cup {n + 1}
Overwritten(n)          == {n}
KeptAfterPush(sentence) == sentence

\* Does the sentence end with the token at position n?
EndsSentence(n) == \/ n = Len(tokenized_vec)
                   \/ tokenized_vec[n] \in EndMarkers

\* tokenized_tmp once the token at position n has been added to it.
Extended(n) == tokenized_tmp \cup {n}

\* tokenized_tmp after a push_back: the code clears it.
AfterPush(sentence) == {}

\* One iteration of the loop over the tokens.
Consume ==
  /\ pc = "loop"
  /\ l_inc < Len(tokenized_vec)
  /\ l_inc' = l_inc + 1
  /\ IF EndsSentence(l_inc + 1)
     THEN /\ tokenized_batched' = Append(tokenized_batched, Extended(l_inc + 1))
          /\ tokenized_tmp' = AfterPush(Extended(l_inc + 1))
     ELSE /\ tokenized_tmp' = Extended(l_inc + 1)
          /\ UNCHANGED tokenized_batched
  /\ UNCHANGED <<tokenized_vec, pc>>

\* After the loop, a sentence that is still open is pushed too.
Flush ==
  /\ pc = "loop"
  /\ l_inc = Len(tokenized_vec)
  /\ tokenized_batched' = IF tokenized_tmp = {} THEN tokenized_batched
                          ELSE Append(tokenized_batched, tokenized_tmp)
  /\ pc' = "done"
  /\ UNCHANGED <<tokenized_vec, l_inc, tokenized_tmp>>

Next == Consume \/ Flush

Spec == Init /\ [][Next]_vars

-----------------------------------------------------------------------------
TypeOK == /\ tokenized_vec \in Texts
          /\ l_inc \in 0 .. Len(tokenized_vec)
          /\ tokenized_tmp \in SUBSET (1 .. l_inc)
          /\ tokenized_batched \in Seq(SUBSET (1 .. l_inc))
          /\ pc \in {"loop", "done"}

Sentences == DOMAIN tokenized_batched

\* The sentences carry every token the loop has consumed.
NoTokenLost ==
  \A n \in 1 .. l_inc : \/ n \in tokenized_tmp
                        \/ \E i \in Sentences : n \in tokenized_batched[i]

\* Each sentence lies entirely before the next ones, and before the open one.
InTextOrder ==
  /\ \A i, j \in Sentences : i < j =>
       \A m \in tokenized_batched[i], n \in tokenized_batched[j] : m < n
  /\ \A i \in Sentences : \A m \in tokenized_batched[i], n \in tokenized_tmp : m < n

\* The sentences sent to the backend are a partition of the text in its own
\* order: no token is lost, sent twice or moved (rest_server.cpp:254-268).
Partition == NoTokenLost /\ InTextOrder

\* The last token of a sentence is an end marker or the last of the text, and
\* no other token of it is; the backend is never sent an empty sentence.
SentenceShape ==
  \A i \in Sentences :
    /\ tokenized_batched[i] # {}
    /\ \A n \in tokenized_batched[i] :
         EndsSentence(n) <=> \A m \in tokenized_batched[i] : m <= n

\* The loop always closes the last sentence itself: the flush that follows it
\* (rest_server.cpp:265-268) never finds anything to push.
NothingLeftOver == l_inc = Len(tokenized_vec) => tokenized_tmp = {}

\* What the sentence under construction looks like; with the three properties
\* above it makes them inductive.
OpenSentence == \A n \in tokenized_tmp : ~ EndsSentence(n)

IInv == TypeOK /\ Partition /\ SentenceShape /\ OpenSentence
=============================================================================
