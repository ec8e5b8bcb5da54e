------------------------- MODULE NmtTranslate_proofs -------------------------
(* For every number of sentences and every set of answers a backend may      *)
(* give, NMTTranslateBatch merges the answers exactly and implements         *)
(* TranslateCall.                                                            *)
EXTENDS NmtTranslate, TLAPS

-----------------------------------------------------------------------------
(* Facts about Put and PiecesOf.                                             *)

LEMMA PutIsAList ==
  ASSUME NEW list \in Hypotheses, NEW h \in 1 .. Len(list) + 1, NEW p \in Int
  PROVE  /\ Put(list, h, p) \in Hypotheses
         /\ DOMAIN Put(list, h, p) = DOMAIN list \cup {h}
         /\ \A k \in DOMAIN list : k # h => Put(list, h, p)[k] = list[k]
         /\ h \in DOMAIN list => Put(list, h, p)[h] = Append(list[h], p)
         /\ h \notin DOMAIN list => Put(list, h, p)[h] = <<p>>
<1>. DEFINE T == Seq(Int)
            L == Len(list)
<1>1. list \in Seq(T) /\ L \in Nat /\ DOMAIN list = 1 .. L
  BY DEF Hypotheses
<1>2. CASE h = L + 1
  <2>1. Put(list, h, p) = Append(list, <<p>>)
    BY <1>2 DEF Put
  <2>2. <<p>> \in T
    OBVIOUS
  <2>. HIDE DEF T
  <2>3. /\ Append(list, <<p>>) \in Seq(T)
        /\ DOMAIN Append(list, <<p>>) = 1 .. (L + 1)
        /\ \A k \in 1 .. L : Append(list, <<p>>)[k] = list[k]
        /\ Append(list, <<p>>)[L + 1] = <<p>>
    BY <1>1, <2>2
  <2>4. h \notin DOMAIN list /\ DOMAIN list \cup {h} = 1 .. (L + 1)
    BY <1>1, <1>2
  <2>. QED
    BY <1>1, <1>2, <2>1, <2>3, <2>4 DEF T, Hypotheses
<1>3. CASE h # L + 1
  <2>1. Put(list, h, p) = [list EXCEPT ![h] = Append(list[h], p)]
    BY <1>3 DEF Put
  <2>2. h \in DOMAIN list
    BY <1>1, <1>3
  <2>3. Append(list[h], p) \in T
    <3>1. list[h] \in Seq(Int)
      BY <1>1, <2>2
    <3>. QED
      BY <3>1
  <2>. HIDE DEF T
  <2>4. [list EXCEPT ![h] = Append(list[h], p)] \in Seq(T)
    BY <1>1, <2>2, <2>3
  <2>. QED
    BY <1>1, <2>1, <2>2, <2>4 DEF T, Hypotheses
<1>. QED
  BY <1>2, <1>3

LEMMA PiecesAppended ==
  ASSUME NEW pieces \in Seq(Int), NEW S \in SUBSET Int, NEW s \in Int,
         Call!PiecesOf(pieces, S), \A i \in S : i < s
  PROVE  Call!PiecesOf(Append(pieces, s), S \cup {s})
<1>. DEFINE L == Len(pieces)
            new == Append(pieces, s)
<1>1. /\ L \in Nat
      /\ DOMAIN pieces = 1 .. L
      /\ DOMAIN new = 1 .. (L + 1)
      /\ \A p \in 1 .. L : new[p] = pieces[p]
      /\ new[L + 1] = s
  OBVIOUS
<1>2. \A p \in 1 .. L : pieces[p] \in S
  BY <1>1 DEF Call!PiecesOf
<1>3. \A p \in DOMAIN new : new[p] \in S \cup {s}
  BY <1>1, <1>2
<1>4. \A i \in S \cup {s} : \E p \in DOMAIN new : new[p] = i
  BY <1>1, SMTT(60) DEF Call!PiecesOf
<1>5. ASSUME NEW p \in DOMAIN new, NEW q \in DOMAIN new, p < q
      PROVE  new[p] < new[q]
  <2>1. p \in 1 .. L
    BY <1>1, <1>5
  <2>2. CASE q = L + 1
    BY <1>1, <1>2, <2>1, <2>2
  <2>3. CASE q \in 1 .. L
    BY <1>1, <1>5, <2>1, <2>3 DEF Call!PiecesOf
  <2>. QED
    BY <1>1, <2>2, <2>3
<1>. QED
  BY <1>3, <1>4, <1>5 DEF Call!PiecesOf

LEMMA OnePiece == ASSUME NEW s \in Int PROVE Call!PiecesOf(<<s>>, {s})
BY DEF Call!PiecesOf

\* A list whose hypotheses are made of the pieces in C[k], once s is put at h,
\* where C[k] says which sentences contribute to hypothesis k.
LEMMA PutPieces ==
  ASSUME NEW list \in Hypotheses, NEW h \in 1 .. Len(list) + 1, NEW s \in Int,
         NEW C, C \in [Nat \ {0} -> SUBSET Int],
         \A k \in DOMAIN list : Call!PiecesOf(list[k], C[k]),
         h \notin DOMAIN list => C[h] = {},
         \A i \in C[h] : i < s
  PROVE  \A k \in DOMAIN Put(list, h, s) :
           Call!PiecesOf(Put(list, h, s)[k], IF k = h THEN C[h] \cup {s} ELSE C[k])
<1>. DEFINE new == Put(list, h, s)
<1>1. /\ DOMAIN new = DOMAIN list \cup {h}
      /\ \A k \in DOMAIN list : k # h => new[k] = list[k]
      /\ h \in DOMAIN list => new[h] = Append(list[h], s)
      /\ h \notin DOMAIN list => new[h] = <<s>>
  BY PutIsAList
<1>. HIDE DEF new
<1>2. Call!PiecesOf(new[h], C[h] \cup {s})
  <2>1. CASE h \in DOMAIN list
    <3>1. list[h] \in Seq(Int)
      BY <2>1 DEF Hypotheses
    <3>2. C[h] \in SUBSET Int
      OBVIOUS
    <3>3. Call!PiecesOf(list[h], C[h])
      BY <2>1
    <3>4. Call!PiecesOf(Append(list[h], s), C[h] \cup {s})
      BY <3>1, <3>2, <3>3, PiecesAppended
    <3>. QED
      BY <1>1, <2>1, <3>4
  <2>2. CASE h \notin DOMAIN list
    <3>1. C[h] \cup {s} = {s} /\ new[h] = <<s>>
      BY <1>1, <2>2
    <3>. QED
      BY <3>1, OnePiece
  <2>. QED
    BY <2>1, <2>2
<1>. QED
  BY <1>1, <1>2 DEF new

-----------------------------------------------------------------------------
(* The inductive invariant.                                                  *)

Exact == HypothesisExact /\ ScoresMatchPieces /\ AlignmentsExact

\* A step that changes no list and leaves the same lines merged.
LEMMA SameLines ==
  ASSUME Exact, UNCHANGED <<heard, lists>>,
         \A i \in DOMAIN heard : MergedLines(i)' = MergedLines(i)
  PROVE  Exact'
<1>1. Merged' = Merged
  BY DEF Merged
<1>. QED
  BY <1>1 DEF Exact, HypothesisExact, ScoresMatchPieces, AlignmentsExact, lists,
     AlignedSentences, Call!Merges, Call!Contributors, Call!PiecesOf

LEMMA InitInvariant == Init => IInv
<1>. SUFFICES ASSUME Init PROVE IInv
  OBVIOUS
<1>1. TypeOK
  BY NAssumption DEF Init, TypeOK, AfterSentence, Returned, Hypotheses
<1>2. DOMAIN Merged = {} /\ DOMAIN heard = {}
  BY DEF Init, Merged
<1>3. HypothesisExact /\ ScoresMatchPieces /\ AlignmentsExact
  BY <1>2 DEF Init, HypothesisExact, ScoresMatchPieces, AlignmentsExact, Call!Merges
<1>4. OneAnswerPerSentence /\ Control /\ UniformAnswersAreSafe
  BY NAssumption DEF Init, OneAnswerPerSentence, Control, UniformAnswersAreSafe,
     AfterSentence
<1>. QED
  BY <1>1, <1>3, <1>4 DEF IInv

LEMMA ConnectInvariant == IInv /\ Connect => IInv'
<1>. SUFFICES ASSUME IInv, Connect PROVE IInv'
  OBVIOUS
<1>1. TypeOK' /\ OneAnswerPerSentence' /\ Control' /\ UniformAnswersAreSafe'
  BY DEF IInv, TypeOK, OneAnswerPerSentence, Control, UniformAnswersAreSafe, Connect,
     Returned, lists
<1>2. Exact'
  BY SameLines DEF IInv, Exact, Connect, MergedLines
<1>. QED
  BY <1>1, <1>2 DEF IInv, Exact

LEMMA RaiseInvariant == IInv /\ Raise => IInv'
<1>. SUFFICES ASSUME IInv, Raise PROVE IInv'
  OBVIOUS
<1>1. TypeOK' /\ OneAnswerPerSentence' /\ Control' /\ UniformAnswersAreSafe'
  BY DEF IInv, TypeOK, OneAnswerPerSentence, Control, UniformAnswersAreSafe, Raise,
     Returned, lists
<1>2. Exact'
  BY SameLines DEF IInv, Exact, Raise, MergedLines
<1>. QED
  BY <1>1, <1>2 DEF IInv, Exact

LEMMA BackendInvariant == IInv /\ (Answer \/ Close) => IInv'
<1>. SUFFICES ASSUME IInv, Answer \/ Close PROVE IInv'
  OBVIOUS
<1>1. TypeOK' /\ OneAnswerPerSentence' /\ Control'
  BY DEF IInv, TypeOK, OneAnswerPerSentence, Control, Answer, Close, Returned, lists
<1>2. UniformAnswersAreSafe'
  BY DEF IInv, UniformAnswersAreSafe, Call!Uniform, Answer, Close
<1>3. Exact'
  BY SameLines DEF IInv, Exact, Answer, Close, MergedLines
<1>. QED
  BY <1>1, <1>2, <1>3 DEF IInv, Exact

\* heard while a sentence is being merged.
LEMMA MergingFacts ==
  ASSUME IInv, pc = "merge"
  PROVE  /\ sentence \in 1 .. N /\ N \in Nat
         /\ DOMAIN heard = 1 .. sentence
         /\ heard[sentence] \in Seq(Nat)
         /\ inc_hyp \in 0 .. Len(heard[sentence])
<1>1. sentence \in 1 .. N /\ N \in Nat
  BY NAssumption DEF IInv, TypeOK, Control
<1>2. Len(heard) = sentence /\ DOMAIN heard = 1 .. sentence
  BY <1>1 DEF IInv, TypeOK, OneAnswerPerSentence
<1>3. heard[sentence] \in Answers \cup {<<>>}
  BY <1>1, <1>2 DEF IInv, TypeOK
<1>4. heard[sentence] \in Seq(Nat)
  <2>1. <<>> \in Seq(Nat)
    OBVIOUS
  <2>. QED
    BY <1>3, <2>1, AnswersAssumption, Zenon
<1>. QED
  BY <1>1, <1>2, <1>4 DEF IInv, TypeOK, Control

LEMMA NextSentenceInvariant == IInv /\ NextSentence => IInv'
<1>. SUFFICES ASSUME IInv, NextSentence PROVE IInv'
  OBVIOUS
<1>1. /\ sentence \in 1 .. N /\ N \in Nat
      /\ DOMAIN heard = 1 .. sentence
  BY MergingFacts DEF NextSentence
<1>2. TypeOK' /\ OneAnswerPerSentence' /\ Control' /\ UniformAnswersAreSafe'
  BY <1>1 DEF IInv, TypeOK, OneAnswerPerSentence, Control, UniformAnswersAreSafe,
     NextSentence, AfterSentence, Returned, lists
<1>3. \A i \in DOMAIN heard : MergedLines(i)' = MergedLines(i)
  BY DEF NextSentence, MergedLines, AfterSentence
<1>4. Exact'
  BY <1>3, SameLines DEF IInv, Exact, NextSentence
<1>. QED
  BY <1>2, <1>4 DEF IInv, Exact

LEMMA PollInvariant == IInv /\ Poll => IInv'
<1>. SUFFICES ASSUME IInv, Poll PROVE IInv'
  OBVIOUS
<1>1. /\ N \in Nat /\ sentence \in 1 .. N
      /\ heard \in Seq(Answers \cup {<<>>})
      /\ DOMAIN heard = 1 .. sentence - 1
      /\ Len(heard) = sentence - 1
  BY NAssumption DEF IInv, TypeOK, OneAnswerPerSentence, Control, Poll
<1>2. Message \in Answers \cup {<<>>}
  BY DEF IInv, TypeOK, Message
<1>3. Message \in Seq(Nat)
  <2>1. <<>> \in Seq(Nat)
    OBVIOUS
  <2>. QED
    BY <1>2, <2>1, AnswersAssumption, Zenon
<1>4. /\ heard' \in Seq(Answers \cup {<<>>})
      /\ DOMAIN heard' = 1 .. sentence
      /\ Len(heard') = sentence
      /\ heard'[sentence] = Message
      /\ \A i \in 1 .. sentence - 1 : heard'[i] = heard[i]
  <2>1. heard' = Append(heard, Message)
    BY DEF Poll
  <2>. HIDE DEF Message
  <2>. QED
    BY <1>1, <1>2, <2>1
<1>5. TypeOK'
  BY <1>4 DEF IInv, TypeOK, Poll, Returned, lists
<1>6. OneAnswerPerSentence' /\ Control'
  BY <1>1, <1>3, <1>4 DEF OneAnswerPerSentence, Control, Poll
<1>7. UniformAnswersAreSafe'
  BY DEF UniformAnswersAreSafe, Poll
<1>8. /\ DOMAIN Merged = 1 .. sentence - 1
      /\ DOMAIN Merged' = 1 .. sentence
      /\ \A i \in 1 .. sentence - 1 : Merged'[i] = Merged[i]
      /\ DOMAIN Merged'[sentence] = {}
  <2>1. /\ \A i \in 1 .. sentence - 1 : MergedLines(i) = Len(heard[i])
        /\ \A i \in 1 .. sentence - 1 : MergedLines(i)' = Len(heard[i])
        /\ \A i \in 1 .. sentence : i = sentence => MergedLines(i)' = 0
    BY <1>1, <1>4 DEF MergedLines, Poll
  <2>2. DOMAIN Merged = 1 .. sentence - 1 /\ DOMAIN Merged' = 1 .. sentence
    BY <1>1, <1>4 DEF Merged
  <2>3. ASSUME NEW i \in 1 .. sentence - 1 PROVE Merged'[i] = Merged[i]
    <3>1. i \in DOMAIN heard /\ i \in DOMAIN heard' /\ heard'[i] = heard[i]
      BY <1>1, <1>4
    <3>. QED
      BY <2>1, <3>1 DEF Merged
  <2>4. \A i \in DOMAIN heard' : DOMAIN Merged'[i] = 1 .. MergedLines(i)'
    BY DEF Merged
  <2>5. DOMAIN Merged'[sentence] = {}
    BY <1>1, <1>4, <2>1, <2>4
  <2>. QED
    BY <2>2, <2>3, <2>5
<1>9. \A h : Call!Contributors(Merged, h)' = Call!Contributors(Merged, h)
  BY <1>1, <1>8 DEF Call!Contributors
<1>10. HypothesisExact'
  BY <1>1, <1>8, <1>9 DEF IInv, HypothesisExact, Call!Merges, Call!PiecesOf, Poll, lists
<1>11. AlignmentsExact'
  <2>1. \A h : AlignedSentences(h)' = AlignedSentences(h)
    BY <1>1, <1>8, <1>9 DEF AlignedSentences, Call!Contributors
  <2>. QED
    BY <1>1, <1>8, <2>1 DEF IInv, AlignmentsExact, Call!PiecesOf, Poll, lists
<1>12. ScoresMatchPieces'
  BY DEF IInv, ScoresMatchPieces, Poll, lists
<1>. QED
  BY <1>5, <1>6, <1>7, <1>10, <1>11, <1>12 DEF IInv

\* How many lines of the current sentence the lists already hold.
LEMMA ListsReach ==
  ASSUME IInv, pc = "merge"
  PROVE  /\ DOMAIN Merged = 1 .. sentence
         /\ DOMAIN Merged[sentence] = 1 .. inc_hyp
         /\ \A k \in 1 .. inc_hyp : Merged[sentence][k] = heard[sentence][k]
         /\ 1 .. inc_hyp \subseteq DOMAIN translation_output
         /\ inc_hyp + 1 \in 1 .. Len(translation_output) + 1
<1>1. MergedLines(sentence) = inc_hyp
  BY DEF MergedLines
<1>2. /\ DOMAIN Merged = 1 .. sentence
      /\ DOMAIN Merged[sentence] = 1 .. inc_hyp
      /\ \A k \in 1 .. inc_hyp : Merged[sentence][k] = heard[sentence][k]
  BY <1>1, MergingFacts DEF Merged
<1>3. 1 .. inc_hyp \subseteq DOMAIN translation_output
  BY <1>2, MergingFacts DEF IInv, HypothesisExact, Call!Merges
<1>4. inc_hyp <= Len(translation_output)
  BY <1>3, MergingFacts DEF IInv, TypeOK, Hypotheses
<1>. QED
  BY <1>2, <1>3, <1>4, MergingFacts DEF IInv, TypeOK, Hypotheses

\* The code reads or writes beyond a vector only when the lines heard differ in
\* shape or are too short.
LEMMA BeyondIsNotUniform == IInv /\ MergeBeyond => ~ Call!Uniform(heard)
<1>. SUFFICES ASSUME IInv, MergeBeyond, Call!Uniform(heard) PROVE FALSE
  OBVIOUS
<1>. DEFINE h == inc_hyp + 1
<1>1. /\ sentence \in DOMAIN heard
      /\ h \in DOMAIN heard[sentence]
      /\ \A k \in 1 .. inc_hyp : k \in DOMAIN heard[sentence]
  BY MergingFacts DEF MergeBeyond
<1>2. /\ heard[sentence][h] >= 4
      /\ \A k \in 1 .. inc_hyp : heard[sentence][h] > 4 <=> heard[sentence][k] > 4
  BY <1>1 DEF Call!Uniform
<1>3. HasAlignment(heard[sentence][h]) /\ ~ (h <= Len(output_alignement_scores) + 1)
  BY <1>2 DEF MergeBeyond, InRange, Line
<1>4. \A k \in 1 .. inc_hyp : k \in DOMAIN output_alignement_scores
  <2>1. sentence \in DOMAIN Merged
    BY ListsReach, MergingFacts DEF MergeBeyond
  <2>2. \A k \in 1 .. inc_hyp : /\ k \in DOMAIN Merged[sentence]
                               /\ HasAlignment(Merged[sentence][k])
    BY <1>2, <1>3, ListsReach DEF MergeBeyond, HasAlignment
  <2>. QED
    BY <2>1, <2>2 DEF IInv, AlignmentsExact
<1>5. inc_hyp <= Len(output_alignement_scores)
  BY <1>4, MergingFacts DEF IInv, TypeOK, Hypotheses, MergeBeyond
<1>. QED
  BY <1>3, <1>5 DEF IInv, TypeOK, Hypotheses

LEMMA MergeBeyondInvariant == IInv /\ MergeBeyond => IInv'
<1>. SUFFICES ASSUME IInv, MergeBeyond PROVE IInv'
  OBVIOUS
<1>1. TypeOK' /\ OneAnswerPerSentence' /\ Control'
  BY DEF IInv, TypeOK, OneAnswerPerSentence, Control, MergeBeyond, Returned, lists
<1>2. \A i \in DOMAIN heard : MergedLines(i)' = MergedLines(i)
  BY DEF MergeBeyond, MergedLines
<1>3. Exact'
  BY <1>2, SameLines DEF IInv, Exact, MergeBeyond
<1>4. UniformAnswersAreSafe'
  BY BeyondIsNotUniform DEF UniformAnswersAreSafe, Call!Uniform, MergeBeyond
<1>. QED
  BY <1>1, <1>3, <1>4 DEF IInv, Exact

LEMMA MergeLineInvariant == IInv /\ MergeLine => IInv'
<1>. SUFFICES ASSUME IInv, MergeLine,
                     NEW s, s = sentence, NEW h, h = inc_hyp + 1
              PROVE  IInv'
  OBVIOUS
<1>1. /\ N \in Nat /\ s \in 1 .. N
      /\ DOMAIN heard = 1 .. s
      /\ h \in 1 .. Len(heard[s]) /\ Len(heard[s]) \in Nat
      /\ inc_hyp \in Nat
      /\ s \in Int /\ h \in Nat \ {0}
  BY MergingFacts DEF MergeLine
<1>2. /\ translation_output \in Hypotheses
      /\ output_alignement_scores \in Hypotheses
      /\ h \in 1 .. Len(translation_output) + 1
  BY ListsReach DEF MergeLine, IInv, TypeOK
<1>3. HasAlignment(Line) => h \in 1 .. Len(output_alignement_scores) + 1
  BY <1>1, <1>2 DEF MergeLine, InRange, Hypotheses
<1>4. /\ translation_output' = Put(translation_output, h, s)
      /\ output_translation_scores' = Put(output_translation_scores, h, s)
      /\ HasAlignment(Line) => output_alignement_scores' = Put(output_alignement_scores, h, s)
      /\ ~ HasAlignment(Line) => output_alignement_scores' = output_alignement_scores
      /\ inc_hyp' = h
      /\ UNCHANGED <<pc, sentence, link, inbox, heard>>
      /\ pc = "merge"
  BY DEF MergeLine
<1>. DEFINE al == output_alignement_scores
<1>aligned. ASSUME HasAlignment(Line)
            PROVE  /\ al' \in Hypotheses
                   /\ al' = Put(al, h, s)
                   /\ h \in 1 .. Len(al) + 1
                   /\ DOMAIN al' = DOMAIN al \cup {h}
  <2>1. h \in 1 .. Len(al) + 1 /\ al' = Put(al, h, s)
    BY <1>aligned, <1>3, <1>4, Zenon
  <2>. QED
    BY <1>1, <1>2, <2>1, PutIsAList
<1>5. ScoresMatchPieces'
  BY <1>4 DEF IInv, ScoresMatchPieces
<1>6. TypeOK'
  <2>1. translation_output' \in Hypotheses
    BY <1>1, <1>2, <1>4, PutIsAList
  <2>2. output_alignement_scores' \in Hypotheses
    <3>1. CASE HasAlignment(Line)
      BY <1>aligned, <3>1
    <3>2. CASE ~ HasAlignment(Line)
      BY <1>2, <1>4, <3>2
    <3>. QED
      BY <3>1, <3>2
  <2>. QED
    BY <1>1, <1>4, <1>5, <2>1, <2>2 DEF IInv, TypeOK, ScoresMatchPieces
<1>7. OneAnswerPerSentence' /\ Control' /\ UniformAnswersAreSafe'
  BY <1>1, <1>4 DEF IInv, OneAnswerPerSentence, Control, UniformAnswersAreSafe
<1>8. /\ DOMAIN Merged' = 1 .. s /\ DOMAIN Merged = 1 .. s
      /\ \A i \in 1 .. s : i # s => Merged'[i] = Merged[i]
      /\ DOMAIN Merged'[s] = 1 .. h
      /\ DOMAIN Merged[s] = 1 .. inc_hyp
      /\ \A k \in 1 .. inc_hyp : Merged'[s][k] = Merged[s][k]
      /\ Merged'[s][h] = Line
  <2>1. /\ MergedLines(s)' = h
        /\ \A i \in 1 .. s : i # s => MergedLines(i)' = MergedLines(i)
    BY <1>4 DEF MergedLines
  <2>2. Merged'[s] = [k \in 1 .. h |-> heard[s][k]]
    BY <1>1, <1>4, <2>1 DEF Merged
  <2>3. \A i \in 1 .. s : i # s => Merged'[i] = Merged[i]
    BY <1>1, <1>4, <2>1 DEF Merged
  <2>4. DOMAIN Merged' = 1 .. s
    BY <1>1, <1>4 DEF Merged
  <2>. QED
    BY <1>1, <1>4, <2>2, <2>3, <2>4, ListsReach DEF Line
<1>9. \A k \in Nat \ {0}, i \in 1 .. s :
        k \in DOMAIN Merged'[i] <=> (k \in DOMAIN Merged[i] \/ (k = h /\ i = s))
  <2>. SUFFICES ASSUME NEW k \in Nat \ {0}, NEW i \in 1 .. s
                PROVE  k \in DOMAIN Merged'[i] <=>
                         (k \in DOMAIN Merged[i] \/ (k = h /\ i = s))
    OBVIOUS
  <2>1. CASE i = s
    <3>1. k \in 1 .. h <=> (k \in 1 .. inc_hyp \/ k = h)
      BY <1>1
    <3>. QED
      BY <1>8, <2>1, <3>1
  <2>2. CASE i # s
    BY <1>8, <2>2
  <2>. QED
    BY <2>1, <2>2
<1>. DEFINE C == [k \in Nat \ {0} |-> {i \in 1 .. s : k \in DOMAIN Merged[i]}]
            D == [k \in Nat \ {0} |-> {i \in 1 .. s : k \in DOMAIN Merged'[i]}]
<1>10. /\ C \in [Nat \ {0} -> SUBSET Int]
       /\ \A k \in Nat \ {0} : Call!Contributors(Merged, k) = C[k]
       /\ \A k \in Nat \ {0} : Call!Contributors(Merged, k)' = D[k]
  BY <1>8 DEF Call!Contributors
<1>11. \A k \in Nat \ {0} : D[k] = IF k = h THEN C[h] \cup {s} ELSE C[k]
  <2>. SUFFICES ASSUME NEW k \in Nat \ {0}
                PROVE  D[k] = IF k = h THEN C[h] \cup {s} ELSE C[k]
    OBVIOUS
  <2>1. /\ D[k] = {i \in 1 .. s : k \in DOMAIN Merged'[i]}
        /\ C[k] = {i \in 1 .. s : k \in DOMAIN Merged[i]}
    OBVIOUS
  <2>. HIDE DEF C, D
  <2>2. CASE k = h
    <3>1. s \in 1 .. s
      BY <1>1
    <3>2. \A i \in 1 .. s : k \in DOMAIN Merged'[i] <=>
                               (k \in DOMAIN Merged[i] \/ i = s)
      BY <1>9, <2>2
    <3>. QED
      BY <2>1, <2>2, <3>1, <3>2
  <2>3. CASE k # h
    BY <1>9, <2>1, <2>3
  <2>. QED
    BY <2>2, <2>3
<1>12. \A i \in C[h] : i < s
  BY <1>1, <1>8
<1>. HIDE DEF C, D
<1>13. HypothesisExact'
  <2>1. DOMAIN translation_output' = DOMAIN translation_output \cup {h}
    BY <1>1, <1>2, <1>4, PutIsAList
  <2>2. \A k \in DOMAIN translation_output' : k \in Nat \ {0}
    BY <1>1, <1>2, <2>1 DEF Hypotheses
  <2>3. \A k \in DOMAIN translation_output : /\ Call!PiecesOf(translation_output[k], C[k])
                                            /\ C[k] # {}
    BY <1>10, <2>1, <2>2 DEF IInv, HypothesisExact, Call!Merges
  <2>4. h \notin DOMAIN translation_output => C[h] = {}
    <3>. SUFFICES ASSUME NEW i \in C[h] PROVE h \in DOMAIN translation_output
      OBVIOUS
    <3>1. i \in DOMAIN Merged /\ h \in DOMAIN Merged[i]
      BY <1>1, <1>8 DEF C
    <3>. QED
      BY <3>1 DEF IInv, HypothesisExact, Call!Merges
  <2>5. \A k \in DOMAIN translation_output' :
          Call!PiecesOf(translation_output'[k], IF k = h THEN C[h] \cup {s} ELSE C[k])
    BY <1>1, <1>2, <1>4, <1>10, <1>12, <2>3, <2>4, PutPieces, ZenonT(60)
  <2>6. \A k \in DOMAIN translation_output' : Call!PiecesOf(translation_output'[k], D[k])
    BY <1>11, <2>2, <2>5
  <2>7. \A k \in DOMAIN translation_output' : D[k] # {}
    BY <1>11, <2>1, <2>2, <2>3
  <2>8. \A i \in DOMAIN Merged' : DOMAIN Merged'[i] \subseteq DOMAIN translation_output'
    <3>1. \A i \in 1 .. s : DOMAIN Merged[i] \subseteq DOMAIN translation_output
      BY <1>8 DEF IInv, HypothesisExact, Call!Merges
    <3>2. 1 .. h = 1 .. inc_hyp \cup {h}
      BY <1>1
    <3>. QED
      BY <1>1, <1>8, <2>1, <3>1, <3>2
  <2>9. \A k \in DOMAIN translation_output' :
          /\ Call!PiecesOf(translation_output'[k], Call!Contributors(Merged, k)')
          /\ Call!Contributors(Merged, k)' # {}
    BY <1>10, <2>2, <2>6, <2>7
  <2>. QED
    BY <2>8, <2>9 DEF HypothesisExact, Call!Merges, Call!PiecesOf, Call!Contributors
<1>. DEFINE A == [k \in Nat \ {0} |-> {i \in C[k] : HasAlignment(Merged[i][k])}]
            B == [k \in Nat \ {0} |-> {i \in D[k] : HasAlignment(Merged'[i][k])}]
<1>14. /\ A \in [Nat \ {0} -> SUBSET Int]
       /\ \A k \in Nat \ {0} : AlignedSentences(k) = A[k]
       /\ \A k \in Nat \ {0} : AlignedSentences(k)' = B[k]
  BY <1>10 DEF AlignedSentences
<1>15. ASSUME NEW k \in Nat \ {0}
       PROVE  B[k] = IF k = h /\ HasAlignment(Line) THEN A[h] \cup {s} ELSE A[k]
  <2>1. /\ \A i \in 1 .. s : i # s => Merged'[i][k] = Merged[i][k]
        /\ k \in 1 .. inc_hyp => Merged'[s][k] = Merged[s][k]
        /\ Merged'[s][h] = Line
    BY <1>8
  <2>2. /\ C[k] = {i \in 1 .. s : k \in DOMAIN Merged[i]}
        /\ s \in C[k] => k \in 1 .. inc_hyp
        /\ s \notin C[h]
    BY <1>1, <1>8 DEF C
  <2>3. CASE k = h
    <3>1. \A i \in C[h] : i # s /\ Merged'[i][h] = Merged[i][h]
      BY <2>1, <2>2, <2>3
    <3>2. D[h] = C[h] \cup {s}
      BY <1>1, <1>11
    <3>3. A[h] = {i \in C[h] : HasAlignment(Merged[i][h])} /\
          B[h] = {i \in D[h] : HasAlignment(Merged'[i][h])}
      BY <1>1
    <3>. HIDE DEF A, B
    <3>. QED
      BY <2>1, <2>3, <3>1, <3>2, <3>3
  <2>4. CASE k # h
    <3>1. D[k] = C[k] /\ \A i \in C[k] : Merged'[i][k] = Merged[i][k]
      BY <1>11, <2>1, <2>2, <2>4
    <3>. QED
      BY <2>4, <3>1
  <2>. QED
    BY <2>3, <2>4
<1>. HIDE DEF A, B
<1>16. \A k \in DOMAIN output_alignement_scores :
         k \in Nat \ {0} /\ Call!PiecesOf(output_alignement_scores[k], A[k])
  BY <1>2, <1>14, SMTT(60) DEF IInv, AlignmentsExact, Hypotheses
<1>17. \A k \in DOMAIN output_alignement_scores' :
         k \in Nat \ {0} /\ Call!PiecesOf(output_alignement_scores'[k], B[k])
  <2>1. CASE HasAlignment(Line)
    <3>1. DOMAIN output_alignement_scores' = DOMAIN output_alignement_scores \cup {h}
      BY <1>aligned, <2>1
    <3>2. h \notin DOMAIN output_alignement_scores => A[h] = {}
      <4>. SUFFICES ASSUME NEW i \in A[h] PROVE h \in DOMAIN output_alignement_scores
        OBVIOUS
      <4>1. i \in DOMAIN Merged /\ h \in DOMAIN Merged[i] /\ HasAlignment(Merged[i][h])
        BY <1>1, <1>8 DEF A, C
      <4>. QED
        BY <4>1 DEF IInv, AlignmentsExact
    <3>3. \A i \in A[h] : i < s
      BY <1>1, <1>12 DEF A
    <3>4. \A k \in DOMAIN output_alignement_scores' :
            Call!PiecesOf(output_alignement_scores'[k], IF k = h THEN A[h] \cup {s} ELSE A[k])
      <4>1. h \in 1 .. Len(al) + 1 /\ al' = Put(al, h, s)
        BY <1>aligned, <2>1
      <4>. QED
        BY <1>1, <1>2, <1>14, <1>16, <3>2, <3>3, <4>1, PutPieces
    <3>. QED
      BY <1>1, <1>15, <1>16, <2>1, <3>1, <3>4
  <2>2. CASE ~ HasAlignment(Line)
    BY <1>4, <1>15, <1>16, <2>2
  <2>. QED
    BY <2>1, <2>2
<1>18. ASSUME NEW i \in DOMAIN Merged', NEW k \in DOMAIN Merged'[i], HasAlignment(Merged'[i][k])
       PROVE  k \in DOMAIN output_alignement_scores'
  <2>1. CASE i = s /\ k = h
    <3>1. HasAlignment(Line)
      BY <1>8, <1>18, <2>1
    <3>. QED
      BY <1>1, <1>aligned, <2>1, <3>1
  <2>2. CASE ~ (i = s /\ k = h)
    <3>1. k \in DOMAIN Merged[i] /\ Merged'[i][k] = Merged[i][k] /\ i \in DOMAIN Merged
      <4>1. i \in 1 .. s
        BY <1>8
      <4>2. CASE i = s
        <5>1. k \in 1 .. h /\ k # h
          BY <1>8, <2>2, <4>2
        <5>2. k \in 1 .. inc_hyp
          BY <1>1, <5>1
        <5>. QED
          BY <1>8, <4>1, <4>2, <5>2
      <4>3. CASE i # s
        BY <1>8, <4>1, <4>3
      <4>. QED
        BY <4>2, <4>3
    <3>2. k \in DOMAIN output_alignement_scores
      BY <1>18, <3>1 DEF IInv, AlignmentsExact
    <3>3. DOMAIN output_alignement_scores \subseteq DOMAIN output_alignement_scores'
      <4>1. CASE HasAlignment(Line)
        BY <1>aligned, <4>1
      <4>2. CASE ~ HasAlignment(Line)
        BY <1>4, <4>2
      <4>. QED
        BY <4>1, <4>2
    <3>. QED
      BY <3>2, <3>3
  <2>. QED
    BY <2>1, <2>2
<1>19. AlignmentsExact'
  <2>1. \A k \in DOMAIN output_alignement_scores' :
          Call!PiecesOf(output_alignement_scores'[k], AlignedSentences(k)')
    BY <1>14, <1>17
  <2>. QED
    BY <1>18, <2>1 DEF AlignmentsExact, Call!PiecesOf
<1>. QED
  BY <1>5, <1>6, <1>7, <1>13, <1>19 DEF IInv

LEMMA StepInvariant == IInv /\ [Next]_vars => IInv'
<1>1. ASSUME IInv, UNCHANGED vars PROVE IInv'
  <2>1. TypeOK' /\ OneAnswerPerSentence' /\ Control' /\ UniformAnswersAreSafe'
    BY <1>1 DEF IInv, TypeOK, OneAnswerPerSentence, Control, UniformAnswersAreSafe,
       Call!Uniform, vars, lists
  <2>2. Exact'
    BY <1>1, SameLines DEF IInv, Exact, vars, MergedLines
  <2>. QED
    BY <2>1, <2>2 DEF IInv, Exact
<1>. QED
  BY <1>1, ConnectInvariant, RaiseInvariant, PollInvariant, MergeLineInvariant,
     MergeBeyondInvariant, NextSentenceInvariant, BackendInvariant DEF Next, Client

LEMMA Invariant == Spec => []IInv
BY InitInvariant, StepInvariant, PTL DEF Spec

\* The variables keep their types.
THEOREM TypeCorrect == Spec => []TypeOK
BY Invariant, PTL DEF IInv

\* Hypothesis h of the text is the pieces of hypothesis h of the sentences that
\* have one, each once and in the text's order, however long the n-best lists of
\* the sentences are (nmt.cpp:224-227).
THEOREM HypothesesAreExact == Spec => []HypothesisExact
BY Invariant, PTL DEF IInv

\* So are the alignments, among the lines that carry one (nmt.cpp:229-234).
THEOREM AlignmentsAreExact == Spec => []AlignmentsExact
BY Invariant, PTL DEF IInv

\* A backend whose lines all have the same shape never makes the code index a
\* vector out of range (nmt.cpp:220-237).
THEOREM UniformBackendIsSafe == Spec => []UniformAnswersAreSafe
BY Invariant, PTL DEF IInv

-----------------------------------------------------------------------------
(* The refinement of TranslateCall.                                          *)

\* Once every line is merged, the merged answers are the answers heard.
CompleteResult == pc = "true" => Call!Merges(translation_output, heard)

LEMMA AllMerged == IInv => CompleteResult
<1>. SUFFICES ASSUME IInv, pc = "true" PROVE Call!Merges(translation_output, heard)
  BY DEF CompleteResult
<1>1. DOMAIN Merged = DOMAIN heard
  BY DEF Merged
<1>2. ASSUME NEW i \in DOMAIN heard PROVE DOMAIN Merged[i] = DOMAIN heard[i]
  <2>1. MergedLines(i) = Len(heard[i])
    BY DEF MergedLines
  <2>2. heard[i] \in Seq(Nat)
    <3>1. heard[i] \in Answers \cup {<<>>}
      BY DEF IInv, TypeOK
    <3>2. <<>> \in Seq(Nat)
      OBVIOUS
    <3>. QED
      BY <3>1, <3>2, AnswersAssumption, Zenon
  <2>. QED
    BY <2>1, <2>2 DEF Merged
<1>3. \A h : Call!Contributors(Merged, h) = Call!Contributors(heard, h)
  BY <1>1, <1>2 DEF Call!Contributors
<1>. QED
  BY <1>1, <1>2, <1>3 DEF IInv, HypothesisExact, Call!Merges

LEMMA InitImplements == Init => Call!Init
BY NAssumption DEF Init, Call!Init, AfterSentence, Returned

\* Before a sentence is answered, and while it is merged.
LEMMA Pending ==
  ASSUME IInv
  PROVE  /\ pc \in {"connect", "poll"} => Len(heard) < N
         /\ pc = "merge" => Len(heard) = sentence
BY NAssumption DEF IInv, TypeOK, OneAnswerPerSentence, Control

LEMMA StepImplements ==
  IInv /\ CompleteResult' /\ [Next]_vars => [Call!Next]_(Call!vars)
<1>. SUFFICES ASSUME IInv, CompleteResult', [Next]_vars PROVE [Call!Next]_(Call!vars)
  OBVIOUS
<1>1. CASE Connect
  <2>1. CASE pc' = "poll"
    BY <1>1, <2>1 DEF Connect, Call!vars, Returned, lists
  <2>2. CASE pc' = "dead"
    BY <1>1, <2>2, Pending DEF Connect, Call!Next, Call!Fail, Returned, lists
  <2>. QED
    BY <1>1, <2>1, <2>2 DEF Connect
<1>2. CASE Raise
  BY <1>2, Pending DEF Raise, Call!Next, Call!Fail, Returned, lists
<1>3. CASE Poll
  <2>1. Message \in Answers \cup {<<>>}
    BY DEF IInv, TypeOK, Message
  <2>2. Call!Hear(Message)
    BY <1>3, Pending DEF Poll, Call!Hear, Returned, lists
  <2>. QED
    BY <2>1, <2>2 DEF Call!Next
<1>4. CASE MergeLine
  BY <1>4 DEF MergeLine, Call!vars, Returned
<1>5. CASE MergeBeyond
  <2>1. ~ Call!Uniform(heard)
    BY <1>5, BeyondIsNotUniform
  <2>. QED
    BY <1>5, <2>1 DEF MergeBeyond, Call!Next, Call!Misread, Returned, lists
<1>6. CASE NextSentence
  <2>1. CASE sentence < N
    BY <1>6, <2>1 DEF NextSentence, AfterSentence, Call!vars, Returned, lists
  <2>2. CASE ~ sentence < N
    <3>1. sentence = N /\ Len(heard) = N /\ pc = "merge" /\ pc' = "true"
      BY <1>6, <2>2, Pending, NAssumption DEF NextSentence, AfterSentence, IInv, TypeOK, Control
    <3>2. Call!Merges(translation_output', heard')
      BY <3>1 DEF CompleteResult
    <3>3. Call!Merges(translation_output', heard)
      BY <1>6, <3>2 DEF NextSentence
    <3>. QED
      BY <1>6, <3>1, <3>3 DEF NextSentence, Call!Next, Call!Succeed, Returned, lists
  <2>. QED
    BY <2>1, <2>2
<1>7. CASE Answer \/ Close
  BY <1>7 DEF Answer, Close, Call!vars, Returned, lists
<1>8. CASE UNCHANGED vars
  BY <1>8 DEF vars, Call!vars, Returned, lists
<1>. QED
  BY <1>1, <1>2, <1>3, <1>4, <1>5, <1>6, <1>7, <1>8 DEF Next, Client

\* NMTTranslateBatch (nmt.cpp:246-259) implements the contract of TranslateCall:
\* one answer a sentence, in order, and true only for a complete, exact result.
THEOREM Implements == Spec => ImplementsCall
BY Invariant, AllMerged, InitImplements, StepImplements, PTL DEF Spec, Call!Spec, ImplementsCall
=============================================================================
