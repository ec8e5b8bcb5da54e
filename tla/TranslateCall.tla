---------------------------- MODULE TranslateCall ----------------------------
(***************************************************************************)
(* What nmt::NMTTranslateBatch promises its caller: the sentences are      *)
(* submitted in order, one answer at most is heard for each, and a call    *)
(* that returns true has submitted them all and gives back, for each       *)
(* hypothesis number, the pieces the sentences' answers had for it.        *)
(*                                                                         *)
(* An answer is the sequence of its n-best lines; a line is known by its   *)
(* number of "||| "-separated fields.  A piece is known by the sentence it *)
(* comes from, so a list of hypotheses is a sequence of sequences of       *)
(* sentence numbers.                                                       *)
(***************************************************************************)
EXTENDS Integers, Sequences

CONSTANTS N,       \* how many sentences the text has
          Answers  \* the answers a backend may give

VARIABLES outcome, answers, hypotheses

vars == <<outcome, answers, hypotheses>>

-----------------------------------------------------------------------------
\* Do all lines have the fields the caller reads, and either all of them an
\* alignment or none?
Uniform(heard) ==
  \A i, j \in DOMAIN heard : \A h \in DOMAIN heard[i], k \in DOMAIN heard[j] :
    /\ heard[i][h] >= 4
    /\ heard[i][h] > 4 <=> heard[j][k] > 4

\* The sentences whose answer has a line for hypothesis h.
Contributors(heard, h) == {i \in DOMAIN heard : h \in DOMAIN heard[i]}

\* The pieces are those of the sentences in S, each once, in the text's order.
PiecesOf(pieces, S) ==
  /\ \A p \in DOMAIN pieces : pieces[p] \in S
  /\ \A i \in S : \E p \in DOMAIN pieces : pieces[p] = i
  /\ \A p, q \in DOMAIN pieces : p < q => pieces[p] < pieces[q]

\* Each hypothesis is made of the pieces its contributors gave, and there are
\* as many hypotheses as the longest answer has lines.
Merges(list, heard) ==
  /\ \A h \in DOMAIN list : PiecesOf(list[h], Contributors(heard, h))
  /\ \A h \in DOMAIN list : Contributors(heard, h) # {}
  /\ \A i \in DOMAIN heard : DOMAIN heard[i] \subseteq DOMAIN list

-----------------------------------------------------------------------------
Init == /\ outcome = IF N = 0 THEN "true" ELSE "pending"
        /\ answers = <<>>
        /\ hypotheses = <<>>

\* An answer, or the lack of one, is heard for the next sentence.
Hear(a) == /\ outcome = "pending"
           /\ Len(answers) < N
           /\ answers' = Append(answers, a)
           /\ UNCHANGED <<outcome, hypotheses>>

Succeed == /\ outcome = "pending"
           /\ Len(answers) = N
           /\ outcome' = "true"
           /\ Merges(hypotheses', answers)
           /\ UNCHANGED answers

\* An exception, or the loss of the whole process.
Fail == /\ outcome = "pending"
        /\ Len(answers) < N
        /\ outcome' \in {"false", "dead"}
        /\ UNCHANGED <<answers, hypotheses>>

\* Reading fields a line does not have: undefined behaviour.
Misread == /\ outcome = "pending"
           /\ ~ Uniform(answers)
           /\ outcome' = "undefined"
           /\ UNCHANGED <<answers, hypotheses>>

Next == \/ \E a \in Answers \cup {<<>>} : Hear(a)
        \/ Succeed \/ Fail \/ Misread

Spec == Init /\ [][Next]_vars
=============================================================================
