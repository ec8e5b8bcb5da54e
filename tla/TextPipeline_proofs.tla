------------------------- MODULE TextPipeline_proofs -------------------------
(* A text is cut into its sentences correctly, for every alphabet, every set *)
(* of end markers and every text; and with a backend that answers what it is *)
(* asked, it comes back, for every vocabulary without a piece that ends a    *)
(* field of the backend's line.                                              *)
EXTENDS TextPipeline, SequenceTheorems, FiniteSetTheorems, WellFoundedInduction, TLAPS

-----------------------------------------------------------------------------
(* The segmentation of a text.                                               *)

\* The open sentence, when there is one, holds the last token consumed: every
\* other token of the text so far lies before it in a finished sentence.
LEMMA OpenSentenceHoldsLast ==
  ASSUME TypeOK, Partition, tokenized_tmp # {}
  PROVE  l_inc \in tokenized_tmp
<1>1. PICK n \in tokenized_tmp : n \in 1 .. l_inc
  BY DEF TypeOK
<1>2. l_inc \in 1 .. l_inc
  BY <1>1 DEF TypeOK
<1>3. CASE \E i \in Sentences : l_inc \in tokenized_batched[i]
  BY <1>1, <1>2, <1>3 DEF Partition, InTextOrder
<1>. QED
  BY <1>2, <1>3 DEF Partition, NoTokenLost

\* The trailing flush finds nothing.
LEMMA FlushFindsNothing == IInv => NothingLeftOver
<1>. SUFFICES ASSUME IInv, l_inc = Len(tokenized_vec), tokenized_tmp # {}
              PROVE  FALSE
  BY DEF NothingLeftOver
<1>1. l_inc \in tokenized_tmp
  BY OpenSentenceHoldsLast DEF IInv
<1>. QED
  BY <1>1 DEF IInv, OpenSentence, EndsSentence

LEMMA InitInvariant == Init => IInv
BY TextsAssumption DEF Init, IInv, TypeOK, Partition, NoTokenLost, InTextOrder,
   SentenceShape, OpenSentence, Sentences

\* What pushing the sentence extended by token n does to tokenized_batched.
LEMMA Pushed ==
  ASSUME TypeOK, NEW s \in SUBSET (1 .. (l_inc + 1)),
         tokenized_batched' = Append(tokenized_batched, s)
  PROVE  /\ Len(tokenized_batched') = Len(tokenized_batched) + 1
         /\ Len(tokenized_batched) \in Nat
         /\ Sentences = 1 .. Len(tokenized_batched)
         /\ Sentences' = 1 .. (Len(tokenized_batched) + 1)
         /\ \A i \in Sentences : tokenized_batched'[i] = tokenized_batched[i]
         /\ tokenized_batched'[Len(tokenized_batched) + 1] = s
BY DEF TypeOK, Sentences

LEMMA ConsumeInvariant == IInv /\ Consume => IInv'
<1>. SUFFICES ASSUME IInv, Consume PROVE IInv'
  OBVIOUS
<1>. DEFINE n == l_inc + 1
            L == Len(tokenized_batched)
<1>1. /\ n \in 1 .. Len(tokenized_vec)
      /\ Len(tokenized_vec) \in Nat
      /\ l_inc' = n
      /\ Extended(n) \in SUBSET (1 .. n)
      /\ Extended(n) # {}
      /\ tokenized_batched \in Seq(SUBSET (1 .. n))
  <2>1. Len(tokenized_vec) \in Nat
    BY TextsAssumption DEF IInv, TypeOK
  <2>2. 1 .. l_inc \subseteq 1 .. n
    BY DEF IInv, TypeOK
  <2>3. tokenized_batched \in Seq(SUBSET (1 .. n))
    BY <2>2 DEF IInv, TypeOK
  <2>. QED
    BY <2>1, <2>2, <2>3 DEF IInv, TypeOK, Consume, Extended
<1>2. \A m \in tokenized_tmp : m < n
  BY DEF IInv, TypeOK
<1>3. \A i \in Sentences : tokenized_batched[i] \subseteq 1 .. l_inc
  BY DEF IInv, TypeOK, Sentences
<1>4. CASE EndsSentence(n)
  <2>1. /\ tokenized_batched' = Append(tokenized_batched, Extended(n))
        /\ tokenized_tmp' = {}
    BY <1>4 DEF Consume, AfterPush
  <2>2. /\ Sentences = 1 .. L
        /\ L \in Nat
        /\ Sentences' = 1 .. (L + 1)
        /\ \A i \in Sentences : tokenized_batched'[i] = tokenized_batched[i]
        /\ tokenized_batched'[L + 1] = Extended(n)
    BY <1>1, <2>1, Pushed DEF IInv
  <2>3. TypeOK'
    BY <1>1, <2>1 DEF IInv, TypeOK, Consume
  <2>4. NoTokenLost'
    BY <1>1, <2>2 DEF IInv, TypeOK, Partition, NoTokenLost, Extended
  <2>5. InTextOrder'
    <3>1. SUFFICES ASSUME NEW i \in Sentences', NEW j \in Sentences', i < j,
                          NEW m \in tokenized_batched'[i],
                          NEW k \in tokenized_batched'[j]
                   PROVE  m < k
      BY <2>1 DEF InTextOrder
    <3>2. i \in Sentences /\ m \in tokenized_batched[i] /\ m \in 1 .. l_inc
      BY <1>3, <2>2, <3>1
    <3>3. CASE j = L + 1
      <4>1. k \in tokenized_tmp \/ k = n
        BY <2>2, <3>3 DEF Extended
      <4>2. CASE k \in tokenized_tmp
        BY <3>2, <4>2 DEF IInv, Partition, InTextOrder
      <4>3. CASE k = n
        BY <3>2, <4>3 DEF IInv, TypeOK
      <4>. QED
        BY <4>1, <4>2, <4>3
    <3>4. CASE j \in Sentences
      <4>1. k \in tokenized_batched[j]
        BY <2>2, <3>4
      <4>. QED
        BY <3>1, <3>2, <3>4, <4>1 DEF IInv, Partition, InTextOrder
    <3>. QED
      BY <2>2, <3>3, <3>4
  <2>6. SentenceShape'
    <3>1. \A m : EndsSentence(m)' = EndsSentence(m)
      BY DEF EndsSentence, Consume
    <3>2. \A m \in Extended(n) : EndsSentence(m) <=> m = n
      BY <1>4 DEF IInv, OpenSentence, Extended
    <3>3. \A m \in Extended(n) : m <= n
      BY <1>1
    <3>4. \A m \in Extended(n) : EndsSentence(m) <=> \A k \in Extended(n) : k <= m
      <4>1. n \in Extended(n) /\ n \in Int /\ \A m \in Extended(n) : m \in Int
        BY <1>1 DEF Extended
      <4>2. SUFFICES ASSUME NEW m \in Extended(n)
                     PROVE  m = n <=> \A k \in Extended(n) : k <= m
        BY <3>2
      <4>3. ASSUME \A k \in Extended(n) : k <= m PROVE m = n
        <5>1. n <= m /\ m <= n
          BY <3>3, <4>1, <4>3
        <5>. QED
          BY <4>1, <5>1
      <4>. QED
        BY <3>3, <4>3
    <3>5. SUFFICES ASSUME NEW i \in Sentences'
                   PROVE  /\ tokenized_batched'[i] # {}
                          /\ \A m \in tokenized_batched'[i] :
                               EndsSentence(m) <=> \A k \in tokenized_batched'[i] : k <= m
      BY <3>1 DEF SentenceShape
    <3>6. CASE i = L + 1
      BY <1>1, <2>2, <3>4, <3>6
    <3>7. CASE i \in Sentences
      BY <2>2, <3>7 DEF IInv, SentenceShape
    <3>. QED
      BY <2>2, <3>6, <3>7
  <2>7. OpenSentence'
    BY <2>1 DEF OpenSentence
  <2>. QED
    BY <2>3, <2>4, <2>5, <2>6, <2>7 DEF IInv, Partition
<1>5. CASE ~ EndsSentence(n)
  <2>1. /\ tokenized_batched' = tokenized_batched
        /\ tokenized_tmp' = Extended(n)
    BY <1>5 DEF Consume
  <2>2. TypeOK'
    BY <1>1, <2>1 DEF IInv, TypeOK, Consume
  <2>3. NoTokenLost'
    BY <1>1, <2>1 DEF IInv, TypeOK, Partition, NoTokenLost, Extended, Sentences
  <2>4. InTextOrder'
    BY <1>1, <1>3, <2>1 DEF IInv, TypeOK, Partition, InTextOrder, Extended, Sentences
  <2>5. SentenceShape' /\ OpenSentence'
    BY <1>5, <2>1 DEF IInv, SentenceShape, OpenSentence, EndsSentence, Extended,
                      Sentences, Consume
  <2>. QED
    BY <2>2, <2>3, <2>4, <2>5 DEF IInv, Partition
<1>. QED
  BY <1>4, <1>5

LEMMA FlushInvariant == IInv /\ Flush => IInv'
<1>. SUFFICES ASSUME IInv, Flush PROVE IInv'
  OBVIOUS
<1>1. tokenized_tmp = {}
  BY FlushFindsNothing DEF Flush, NothingLeftOver
<1>2. UNCHANGED <<tokenized_vec, l_inc, tokenized_tmp, tokenized_batched>> /\ pc' = "done"
  BY <1>1 DEF Flush
<1>. QED
  BY <1>2 DEF IInv, TypeOK, Partition, NoTokenLost, InTextOrder, SentenceShape,
              OpenSentence, EndsSentence, Sentences

LEMMA Invariant == Spec => []IInv
<1>1. IInv /\ UNCHANGED vars => IInv'
  BY DEF vars, IInv, TypeOK, Partition, NoTokenLost, InTextOrder, SentenceShape,
         OpenSentence, EndsSentence, Sentences
<1>2. IInv /\ [Next]_vars => IInv'
  BY <1>1, ConsumeInvariant, FlushInvariant DEF Next
<1>. QED
  BY InitInvariant, <1>2, PTL DEF Spec

\* The types of the loop, for any text.
THEOREM TypeCorrect == Spec => []TypeOK
BY Invariant, PTL DEF IInv

\* The sentences sent to the backend partition the text, in its own order:
\* rest_server.cpp:254-268 loses, repeats and moves no token, whatever the text.
THEOREM PartitionHolds == Spec => []Partition
BY Invariant, PTL DEF IInv

\* Every sentence is non-empty and ends at its first end marker, or with the
\* text (the condition of rest_server.cpp:259).
THEOREM SentenceShapeHolds == Spec => []SentenceShape
BY Invariant, PTL DEF IInv

\* The flush after the loop (rest_server.cpp:265-268) is dead code.
THEOREM NothingLeftOverHolds == Spec => []NothingLeftOver
BY Invariant, FlushFindsNothing, PTL

-----------------------------------------------------------------------------
(* Induction.  The principle is the library's WFMin, which takes no operator: *)
(* a property of numbers is given as the set of those that have it; and what *)
(* FlattenSeq computes.                                                      *)

LEMMA LeastElement ==
  ASSUME NEW T, T \subseteq Nat, T # {}
  PROVE  \E x \in T : \A y \in T : x <= y
<1>. DEFINE R == {ss \in Nat \X Nat : ss[1] < ss[2]}
<1>1. IsWellFoundedOn(R, Nat)
  BY NatLessThanWellFounded DEF OpToRel
<1>2. \E x \in T : \A y \in T : ~ (<<y, x>> \in R)
  <2>. HIDE DEF R
  <2>. QED
    BY <1>1, WFMin
<1>3. PICK x \in T : \A y \in T : ~ (<<y, x>> \in R)
  BY <1>2
<1>4. ASSUME NEW y \in T PROVE x <= y
  <2>1. <<y, x>> \in Nat \X Nat
    OBVIOUS
  <2>2. ~ (<<y, x>>[1] < <<y, x>>[2])
    BY <1>3, <2>1
  <2>. QED
    BY <2>2
<1>. QED
  BY <1>4

\* Induction up to L, from a number a.
LEMMA Induction ==
  ASSUME NEW a \in Nat, NEW L \in Nat, NEW T, a \in T,
         \A n \in a .. L - 1 : n \in T => n + 1 \in T
  PROVE  \A n \in a .. L : n \in T
<1>. DEFINE C == (a .. L) \ T
<1>1. SUFFICES ASSUME C # {} PROVE FALSE
  OBVIOUS
<1>2. C \subseteq Nat
  OBVIOUS
<1>3. PICK x \in C : \A y \in C : x <= y
  <2>. HIDE DEF C
  <2>. QED
    BY <1>1, <1>2, LeastElement
<1>4. x \in a .. L /\ x \notin T /\ x - 1 \in a .. L - 1
  OBVIOUS
<1>5. x - 1 \notin C
  <2>. HIDE DEF C
  <2>. QED
    BY <1>2, <1>3
<1>6. x - 1 \in T
  BY <1>4, <1>5
<1>. QED
  BY <1>4, <1>6

\* Induction on a sequence, by its last element.
LEMMA SeqInduction ==
  ASSUME NEW S, NEW T, <<>> \in T, \A s \in Seq(S), e \in S : s \in T => Append(s, e) \in T
  PROVE  \A s \in Seq(S) : s \in T
<1>. SUFFICES ASSUME NEW s \in Seq(S) PROVE s \in T
  OBVIOUS
<1>. DEFINE prefix(n) == SubSeq(s, 1, n)
            P == {n \in 0 .. Len(s) : prefix(n) \in T}
<1>1. Len(s) \in Nat /\ prefix(Len(s)) = s /\ prefix(0) = <<>>
  BY SubSeqFull, SubSeqEmpty
<1>2. \A n \in 0 .. Len(s) - 1 : /\ prefix(n) \in Seq(S) /\ s[n + 1] \in S
                                 /\ prefix(n + 1) = Append(prefix(n), s[n + 1])
  <2>. SUFFICES ASSUME NEW n \in 0 .. Len(s) - 1
                PROVE  /\ prefix(n) \in Seq(S) /\ s[n + 1] \in S
                       /\ prefix(n + 1) = Append(prefix(n), s[n + 1])
    OBVIOUS
  <2>. QED
    BY <1>1
<1>. HIDE DEF prefix
<1>3. 0 \in P
  BY <1>1
<1>4. ASSUME NEW n \in 0 .. Len(s) - 1, n \in P
      PROVE  n + 1 \in P
  <2>1. Append(prefix(n), s[n + 1]) \in T
    BY <1>2, <1>4
  <2>2. prefix(n + 1) \in T
    BY <1>2, <2>1
  <2>. QED
    BY <1>1, <2>2
<1>5. \A n \in 0 .. Len(s) : n \in P
  <2>. HIDE DEF P
  <2>. QED
    BY <1>1, <1>3, <1>4, Induction
<1>6. Len(s) \in P
  BY <1>1, <1>5
<1>. QED
  BY <1>1, <1>6

\* A recursive definition over 0 .. L, one step at a time, has a solution.
Solution(f, A, L, b, step) ==
  f \in [0 .. L -> A] /\ f[0] = b /\ \A n \in 1 .. L : f[n] = step[<<n, f[n - 1]>>]

LEMMA SolutionExists ==
  ASSUME NEW A, NEW L \in Nat, NEW b \in A, NEW step \in [(1 .. L) \X A -> A]
  PROVE  \E f : Solution(f, A, L, b, step)
<1>. DEFINE Solves(f, m) == f[0] = b /\ \A n \in 1 .. m : f[n] = step[<<n, f[n - 1]>>]
            P == {m \in 0 .. L : \E f \in [0 .. m -> A] : Solves(f, m)}
<1>1. 0 \in P
  <2>1. [n \in 0 .. 0 |-> b] \in [0 .. 0 -> A] /\ Solves([n \in 0 .. 0 |-> b], 0)
    OBVIOUS
  <2>2. \E f \in [0 .. 0 -> A] : Solves(f, 0)
    BY <2>1
  <2>. HIDE DEF Solves
  <2>. QED
    BY <2>2
<1>2. ASSUME NEW m \in 0 .. L - 1, m \in P
      PROVE  m + 1 \in P
  <2>0. \E f \in [0 .. m -> A] : Solves(f, m)
    <3>. HIDE DEF Solves
    <3>. QED
      BY <1>2
  <2>1. PICK f \in [0 .. m -> A] : Solves(f, m)
    BY <2>0
  <2>. DEFINE g == [n \in 0 .. m + 1 |-> IF n = m + 1 THEN step[<<m + 1, f[m]>>] ELSE f[n]]
  <2>2. step[<<m + 1, f[m]>>] \in A
    OBVIOUS
  <2>3. g \in [0 .. m + 1 -> A]
    BY <2>2
  <2>4. Solves(g, m + 1)
    <3>1. g[0] = b /\ \A n \in 1 .. m : g[n] = f[n] /\ g[n - 1] = f[n - 1]
      BY <2>1
    <3>2. g[m + 1] = step[<<m + 1, g[m]>>]
      <4>1. g[m] = f[m] /\ m + 1 \in 0 .. m + 1
        OBVIOUS
      <4>. QED
        BY <4>1
    <3>. HIDE DEF g
    <3>3. ASSUME NEW n \in 1 .. m + 1 PROVE g[n] = step[<<n, g[n - 1]>>]
      <4>1. CASE n = m + 1
        BY <3>2, <4>1
      <4>2. CASE n \in 1 .. m
        BY <2>1, <3>1, <4>2
      <4>. QED
        BY <4>1, <4>2
    <3>. QED
      BY <3>1, <3>3
  <2>. HIDE DEF g, Solves
  <2>. QED
    BY <2>3, <2>4
<1>3. \A m \in 0 .. L : m \in P
  <2>. HIDE DEF P
  <2>. QED
    BY <1>1, <1>2, Induction
<1>4. \E f \in [0 .. L -> A] : Solves(f, L)
  <2>. HIDE DEF Solves
  <2>. QED
    BY <1>3
<1>. QED
  BY <1>4 DEF Solution

\* Functions that start alike and go on alike are alike.
Agree(f, g, a, L) == f[a] = g[a] /\ \A n \in a .. L - 1 : f[n] = g[n] => f[n + 1] = g[n + 1]

LEMMA SolutionUnique ==
  ASSUME NEW a \in Nat, NEW L \in Nat, NEW f, NEW g, Agree(f, g, a, L)
  PROVE  \A n \in a .. L : f[n] = g[n]
<1>. DEFINE P == {n \in Nat : f[n] = g[n]}
<1>1. a \in P /\ \A n \in a .. L - 1 : n \in P => n + 1 \in P
  BY DEF Agree
<1>2. \A n \in a .. L : n \in P
  <2>. HIDE DEF P
  <2>. QED
    BY <1>1, Induction
<1>. QED
  BY <1>2

\* The strings joined from the left.
Joins(f, s, S) ==
  /\ f \in [0 .. Len(s) -> Seq(S)]
  /\ f[0] = <<>>
  /\ \A n \in 1 .. Len(s) : f[n] = f[n - 1] \o s[n]
  /\ FlattenSeq(s) = f[Len(s)]

LEMMA FlattenUnfolds ==
  ASSUME NEW S, NEW s \in Seq(Seq(S))
  PROVE  \E f : Joins(f, s, S)
<1>. DEFINE Eq(g) == g = [n \in 1 .. Len(s) |-> IF n = 1 THEN s[n] ELSE g[n - 1] \o s[n]]
            F == CHOOSE g : Eq(g)
<1>0. PICK L \in Nat : L = Len(s)
  OBVIOUS
<1>1. \A n \in 1 .. L : s[n] \in Seq(S)
  BY <1>0
<1>2. PICK step \in [(1 .. L) \X Seq(S) -> Seq(S)] :
        \A n \in 1 .. L, m \in Seq(S) : step[<<n, m>>] = m \o s[n]
  <2>. DEFINE st == [x \in (1 .. L) \X Seq(S) |-> x[2] \o s[x[1]]]
  <2>1. st \in [(1 .. L) \X Seq(S) -> Seq(S)]
    BY <1>1, ConcatProperties
  <2>2. \A n \in 1 .. L, m \in Seq(S) : st[<<n, m>>] = m \o s[n]
    OBVIOUS
  <2>. HIDE DEF st
  <2>. QED
    BY <2>1, <2>2
<1>3. PICK f : Solution(f, Seq(S), L, <<>>, step)
  <2>1. <<>> \in Seq(S)
    OBVIOUS
  <2>. QED
    BY <2>1, SolutionExists
<1>4. \A n \in 1 .. L : f[n] = f[n - 1] \o s[n]
  <2>1. \A n \in 1 .. L : n - 1 \in 0 .. L
    OBVIOUS
  <2>. QED
    BY <1>2, <1>3, <2>1 DEF Solution
<1>5. CASE L = 0
  <2>1. s = <<>> /\ f[0] = <<>>
    BY <1>0, <1>3, <1>5, EmptySeq DEF Solution
  <2>2. FlattenSeq(s) = s
    BY <1>0, <1>5 DEF FlattenSeq
  <2>3. Joins(f, s, S)
    BY <1>0, <1>3, <1>4, <1>5, <2>1, <2>2 DEF Joins, Solution
  <2>. QED
    BY <2>3
<1>6. CASE L # 0
  <2>1. f[1] = s[1]
    <3>1. 1 \in 1 .. L
      BY <1>6
    <3>2. f[1] = f[1 - 1] \o s[1] /\ s[1] \in Seq(S)
      BY <1>1, <1>4, <3>1
    <3>3. f[1 - 1] = <<>>
      BY <1>3 DEF Solution
    <3>. QED
      BY <3>2, <3>3, ConcatEmptySeq
  <2>. DEFINE g == [n \in 1 .. L |-> f[n]]
  <2>2. Eq(g)
    <3>1. \A n \in 1 .. L : g[n] = IF n = 1 THEN s[n] ELSE g[n - 1] \o s[n]
      <4>. SUFFICES ASSUME NEW n \in 1 .. L
                    PROVE  g[n] = IF n = 1 THEN s[n] ELSE g[n - 1] \o s[n]
        OBVIOUS
      <4>1. CASE n = 1
        BY <2>1, <4>1
      <4>2. CASE n # 1
        <5>1. n - 1 \in 1 .. L
          BY <4>2
        <5>. QED
          BY <1>4, <4>2, <5>1
      <4>. QED
        BY <4>1, <4>2
    <3>. QED
      BY <1>0, <3>1
  <2>3. Eq(F)
    <3>. HIDE DEF Eq, g
    <3>. QED
      BY <2>2
  <2>4. PICK h : h = F
    OBVIOUS
  <2>5. \A n \in 1 .. L : h[n] = f[n]
    <3>0. Eq(h)
      <4>. HIDE DEF Eq, F
      <4>. QED
        BY <2>3, <2>4
    <3>. HIDE DEF F
    <3>1. h[1] = s[1]
      BY <1>0, <1>6, <3>0
    <3>2. \A n \in 1 .. L - 1 : h[n + 1] = h[n] \o s[n + 1]
      <4>1. \A n \in 1 .. L - 1 : n + 1 \in 1 .. L /\ n + 1 # 1 /\ (n + 1) - 1 = n
        OBVIOUS
      <4>. QED
        BY <1>0, <3>0, <4>1
    <3>3. \A n \in 1 .. L - 1 : f[n + 1] = f[n] \o s[n + 1]
      <4>1. \A n \in 1 .. L - 1 : n + 1 \in 1 .. L /\ (n + 1) - 1 = n
        OBVIOUS
      <4>. QED
        BY <1>4, <4>1
    <3>4. Agree(h, f, 1, L)
      BY <2>1, <3>1, <3>2, <3>3 DEF Agree
    <3>. QED
      BY <3>4, SolutionUnique
  <2>6. FlattenSeq(s) = F[L]
    BY <1>0, <1>6 DEF FlattenSeq
  <2>7. Joins(f, s, S)
    <3>. HIDE DEF F
    <3>1. FlattenSeq(s) = f[L]
      BY <1>6, <2>4, <2>5, <2>6
    <3>. QED
      BY <1>0, <1>3, <1>4, <3>1 DEF Joins, Solution
  <2>. QED
    BY <2>7
<1>. QED
  BY <1>5, <1>6

LEMMA FlattenAppend ==
  ASSUME NEW S
  PROVE  /\ FlattenSeq(<<>>) = <<>>
         /\ \A s \in Seq(Seq(S)) : FlattenSeq(s) \in Seq(S)
         /\ \A s \in Seq(Seq(S)), e \in Seq(S) :
              FlattenSeq(Append(s, e)) = FlattenSeq(s) \o e
<1>1. FlattenSeq(<<>>) = <<>>
  BY DEF FlattenSeq
<1>2. ASSUME NEW s \in Seq(Seq(S)) PROVE FlattenSeq(s) \in Seq(S)
  <2>1. PICK f : Joins(f, s, S)
    BY FlattenUnfolds
  <2>2. Len(s) \in 0 .. Len(s)
    OBVIOUS
  <2>. QED
    BY <2>1, <2>2 DEF Joins
<1>3. ASSUME NEW s \in Seq(Seq(S)), NEW e \in Seq(S)
      PROVE  FlattenSeq(Append(s, e)) = FlattenSeq(s) \o e
  <2>1. PICK L \in Nat : L = Len(s)
    OBVIOUS
  <2>2. PICK t \in Seq(Seq(S)) : t = Append(s, e)
    BY AppendProperties
  <2>3. Len(t) = L + 1 /\ t[L + 1] = e /\ \A i \in 1 .. L : t[i] = s[i]
    BY <2>1, <2>2, AppendProperties
  <2>4. PICK f : Joins(f, s, S)
    BY FlattenUnfolds
  <2>5. PICK g : Joins(g, t, S)
    BY FlattenUnfolds
  <2>6. \A n \in 0 .. L - 1 : f[n + 1] = f[n] \o s[n + 1] /\ g[n + 1] = g[n] \o s[n + 1]
    <3>1. \A n \in 0 .. L - 1 : n + 1 \in 1 .. L /\ n + 1 \in 1 .. L + 1 /\ (n + 1) - 1 = n
      OBVIOUS
    <3>. QED
      BY <2>1, <2>3, <2>4, <2>5, <3>1 DEF Joins
  <2>7. Agree(f, g, 0, L)
    BY <2>4, <2>5, <2>6 DEF Agree, Joins
  <2>8. f[L] = g[L]
    BY <2>7, SolutionUnique
  <2>9. g[L + 1] = g[L] \o e
    <3>1. L + 1 \in 1 .. L + 1 /\ (L + 1) - 1 = L
      OBVIOUS
    <3>. QED
      BY <2>3, <2>5, <3>1 DEF Joins
  <2>10. FlattenSeq(s) = f[L]
    BY <2>1, <2>4 DEF Joins
  <2>11. FlattenSeq(t) = g[L + 1]
    BY <2>3, <2>5 DEF Joins
  <2>. QED
    BY <2>2, <2>8, <2>9, <2>10, <2>11
<1>. QED
  BY <1>1, <1>2, <1>3

-----------------------------------------------------------------------------
(* Strings: each element replaced by a string, and words joined.             *)

LEMMA IsSeq ==
  ASSUME NEW S, NEW n \in Nat, NEW s \in [1 .. n -> S] PROVE s \in Seq(S) /\ Len(s) = n
BY SeqDef, LenProperties

LEMMA OneMore ==
  ASSUME NEW S, NEW L \in Nat, NEW g \in [1 .. L + 1 -> S], NEW h \in [1 .. L -> S],
         \A k \in 1 .. L : h[k] = g[k]
  PROVE  h \in Seq(S) /\ Len(h) = L /\ g = Append(h, g[L + 1])
<1>1. h \in Seq(S) /\ Len(h) = L
  BY SeqDef, LenProperties
<1>2. g \in Seq(S) /\ Len(g) = L + 1
  BY SeqDef, LenProperties
<1>3. PICK t : t = Append(h, g[L + 1])
  OBVIOUS
<1>4. g[L + 1] \in S
  OBVIOUS
<1>5. t \in Seq(S) /\ Len(t) = L + 1 /\ t[L + 1] = g[L + 1] /\ \A k \in 1 .. L : t[k] = h[k]
  BY <1>1, <1>3, <1>4, AppendProperties
<1>6. \A k \in 1 .. L + 1 : g[k] = t[k]
  <2>. SUFFICES ASSUME NEW k \in 1 .. L + 1 PROVE g[k] = t[k]
    OBVIOUS
  <2>1. k = L + 1 \/ k \in 1 .. L
    OBVIOUS
  <2>. QED
    BY <1>5, <2>1
<1>7. g = t
  BY <1>2, <1>5, <1>6, SeqEqual
<1>. QED
  BY <1>1, <1>3, <1>7

LEMMA Associative ==
  ASSUME NEW S PROVE \A x, y, z \in Seq(S) : (x \o y) \o z = x \o (y \o z)
BY ConcatAssociative

\* Each element of a sequence replaced by a string.
Mapped(x, f) == FlattenSeq([k \in DOMAIN x |-> f[x[k]]])

LEMMA MappedAppend ==
  ASSUME NEW A, NEW B, NEW f \in [A -> Seq(B)]
  PROVE  /\ Mapped(<<>>, f) = <<>>
         /\ \A x \in Seq(A) : Mapped(x, f) \in Seq(B)
         /\ \A x \in Seq(A), c \in A : Mapped(Append(x, c), f) = Mapped(x, f) \o f[c]
<1>1. Mapped(<<>>, f) = <<>>
  <2>1. [k \in DOMAIN <<>> |-> f[(<<>>)[k]]] = <<>>
    OBVIOUS
  <2>. QED
    BY <2>1, FlattenAppend DEF Mapped
<1>2. ASSUME NEW x \in Seq(A) PROVE [k \in DOMAIN x |-> f[x[k]]] \in [1 .. Len(x) -> Seq(B)]
  OBVIOUS
<1>3. ASSUME NEW x \in Seq(A) PROVE Mapped(x, f) \in Seq(B)
  <2>1. PICK s : s = [k \in DOMAIN x |-> f[x[k]]]
    OBVIOUS
  <2>2. s \in Seq(Seq(B))
    <3>1. PICK n \in Nat : n = Len(x)
      OBVIOUS
    <3>2. s \in [1 .. n -> Seq(B)]
      BY <1>2, <2>1, <3>1
    <3>. QED
      BY <3>2, IsSeq
  <2>3. FlattenSeq(s) \in Seq(B)
    BY <2>2, FlattenAppend
  <2>. QED
    BY <2>1, <2>3 DEF Mapped
<1>4. ASSUME NEW x \in Seq(A), NEW c \in A
      PROVE  Mapped(Append(x, c), f) = Mapped(x, f) \o f[c]
  <2>1. PICK L \in Nat : L = Len(x)
    OBVIOUS
  <2>2. PICK t \in Seq(A) : t = Append(x, c)
    BY AppendProperties
  <2>3. Len(t) = L + 1 /\ t[L + 1] = c /\ \A k \in 1 .. L : t[k] = x[k]
    BY <2>1, <2>2, AppendProperties
  <2>4. PICK h : h = [k \in DOMAIN x |-> f[x[k]]]
    OBVIOUS
  <2>5. PICK g : g = [k \in DOMAIN t |-> f[t[k]]]
    OBVIOUS
  <2>6. h \in [1 .. L -> Seq(B)] /\ g \in [1 .. L + 1 -> Seq(B)]
    BY <1>2, <2>1, <2>3, <2>4, <2>5
  <2>7. g[L + 1] = f[c] /\ \A k \in 1 .. L : h[k] = g[k]
    <3>1. DOMAIN t = 1 .. L + 1 /\ DOMAIN x = 1 .. L /\ L + 1 \in 1 .. L + 1
      BY <2>1, <2>3
    <3>2. \A k \in 1 .. L : k \in 1 .. L + 1
      OBVIOUS
    <3>. QED
      BY <2>3, <2>4, <2>5, <3>1, <3>2
  <2>8. h \in Seq(Seq(B)) /\ g = Append(h, f[c])
    <3>1. h \in Seq(Seq(B)) /\ g = Append(h, g[L + 1])
      BY <2>6, <2>7, OneMore, ZenonT(60)
    <3>. QED
      BY <2>7, <3>1
  <2>9. f[c] \in Seq(B)
    OBVIOUS
  <2>10. FlattenSeq(g) = FlattenSeq(h) \o f[c]
    BY <2>8, <2>9, FlattenAppend
  <2>. QED
    BY <2>2, <2>4, <2>5, <2>10 DEF Mapped
<1>. QED
  BY <1>1, <1>3, <1>4

LEMMA AppendConcat ==
  ASSUME NEW A PROVE \A x, y \in Seq(A), c \in A : x \o Append(y, c) = Append(x \o y, c)
<1>. SUFFICES ASSUME NEW x \in Seq(A), NEW y \in Seq(A), NEW c \in A
              PROVE  x \o Append(y, c) = Append(x \o y, c)
  OBVIOUS
<1>1. Append(y, c) = y \o <<c>> /\ x \o y \in Seq(A) /\ <<c>> \in Seq(A)
  BY AppendIsConcat, ConcatProperties
<1>2. Append(x \o y, c) = (x \o y) \o <<c>>
  BY <1>1, AppendIsConcat
<1>3. (x \o y) \o <<c>> = x \o (y \o <<c>>)
  BY <1>1, Associative
<1>. QED
  BY <1>1, <1>2, <1>3

LEMMA MappedConcat ==
  ASSUME NEW A, NEW B, NEW f \in [A -> Seq(B)]
  PROVE  \A x, y \in Seq(A) : Mapped(x \o y, f) = Mapped(x, f) \o Mapped(y, f)
<1>. SUFFICES ASSUME NEW x \in Seq(A)
              PROVE  \A y \in Seq(A) : Mapped(x \o y, f) = Mapped(x, f) \o Mapped(y, f)
  OBVIOUS
<1>0. /\ Mapped(<<>>, f) = <<>>
      /\ \A z \in Seq(A) : Mapped(z, f) \in Seq(B)
      /\ \A z \in Seq(A), c \in A : Mapped(Append(z, c), f) = Mapped(z, f) \o f[c]
  BY MappedAppend
<1>. DEFINE T == {y \in Seq(A) : Mapped(x \o y, f) = Mapped(x, f) \o Mapped(y, f)}
<1>1. <<>> \in T
  <2>1. x \o <<>> = x /\ <<>> \in Seq(A)
    BY ConcatEmptySeq
  <2>2. Mapped(x, f) \in Seq(B) /\ Mapped(<<>>, f) = <<>>
    BY <1>0
  <2>3. Mapped(x, f) \o <<>> = Mapped(x, f)
    BY <2>2, ConcatEmptySeq
  <2>. QED
    BY <2>1, <2>2, <2>3
<1>2. ASSUME NEW y \in Seq(A), NEW c \in A, y \in T PROVE Append(y, c) \in T
  <2>1. PICK z \in Seq(A) : z = x \o y
    BY ConcatProperties
  <2>2. x \o Append(y, c) = Append(z, c) /\ Append(y, c) \in Seq(A)
    BY <2>1, AppendConcat, AppendProperties
  <2>3. Mapped(Append(z, c), f) = Mapped(z, f) \o f[c]
    BY <1>0
  <2>4. Mapped(Append(y, c), f) = Mapped(y, f) \o f[c]
    BY <1>0
  <2>5. Mapped(z, f) = Mapped(x, f) \o Mapped(y, f)
    BY <1>2, <2>1
  <2>6. Mapped(x, f) \in Seq(B) /\ Mapped(y, f) \in Seq(B) /\ f[c] \in Seq(B)
    BY <1>0
  <2>7. (Mapped(x, f) \o Mapped(y, f)) \o f[c] = Mapped(x, f) \o (Mapped(y, f) \o f[c])
    BY <2>6, Associative, SMTT(60)
  <2>. QED
    BY <2>2, <2>3, <2>4, <2>5, <2>7
<1>3. \A y \in Seq(A) : y \in T
  <2>. HIDE DEF T
  <2>. QED
    BY <1>1, <1>2, SeqInduction
<1>. QED
  BY <1>3

\* Join, one word more at a time.
JoinsBy(S, del) ==
  /\ Join(<<>>, del) = <<>>
  /\ \A ws \in Seq(Seq(S)) : Join(ws, del) \in Seq(S)
  /\ \A ws \in Seq(Seq(S)), w \in Seq(S) :
       /\ ws = <<>> => Join(Append(ws, w), del) = w
       /\ ws # <<>> => Join(Append(ws, w), del) = Join(ws, del) \o (del \o w)

LEMMA JoinAppend == ASSUME NEW S, NEW del \in Seq(S) PROVE JoinsBy(S, del)
<1>. DEFINE D(ws) == [k \in DOMAIN ws |-> IF k = 1 THEN ws[k] ELSE del \o ws[k]]
<1>1. Join(<<>>, del) = <<>>
  <2>1. D(<<>>) = <<>>
    OBVIOUS
  <2>. QED
    BY <2>1, FlattenAppend DEF Join
<1>2. ASSUME NEW ws \in Seq(Seq(S)) PROVE D(ws) \in [1 .. Len(ws) -> Seq(S)]
  <2>1. \A k \in DOMAIN ws : ws[k] \in Seq(S) /\ del \o ws[k] \in Seq(S)
    BY ConcatProperties
  <2>2. DOMAIN ws = 1 .. Len(ws)
    OBVIOUS
  <2>. QED
    BY <2>1, <2>2
<1>3. ASSUME NEW ws \in Seq(Seq(S)) PROVE Join(ws, del) \in Seq(S)
  <2>1. PICK s : s = D(ws)
    OBVIOUS
  <2>2. s \in Seq(Seq(S))
    <3>1. PICK n \in Nat : n = Len(ws)
      OBVIOUS
    <3>2. s \in [1 .. n -> Seq(S)]
      BY <1>2, <2>1, <3>1
    <3>. QED
      BY <3>2, IsSeq
  <2>3. FlattenSeq(s) \in Seq(S)
    BY <2>2, FlattenAppend
  <2>. QED
    BY <2>1, <2>3 DEF Join
<1>4. ASSUME NEW ws \in Seq(Seq(S)), NEW w \in Seq(S)
      PROVE  /\ ws = <<>> => Join(Append(ws, w), del) = w
             /\ ws # <<>> => Join(Append(ws, w), del) = Join(ws, del) \o (del \o w)
  <2>1. PICK L \in Nat : L = Len(ws)
    OBVIOUS
  <2>2. PICK t \in Seq(Seq(S)) : t = Append(ws, w)
    BY AppendProperties
  <2>3. Len(t) = L + 1 /\ t[L + 1] = w /\ \A k \in 1 .. L : t[k] = ws[k]
    BY <2>1, <2>2, AppendProperties
  <2>4. PICK h : h = D(ws)
    OBVIOUS
  <2>5. PICK g : g = D(t)
    OBVIOUS
  <2>6. h \in [1 .. L -> Seq(S)] /\ g \in [1 .. L + 1 -> Seq(S)]
    <3>1. h \in [1 .. L -> Seq(S)]
      BY <1>2, <2>1, <2>4
    <3>2. g \in [1 .. L + 1 -> Seq(S)]
      BY <1>2, <2>3, <2>5
    <3>. QED
      BY <3>1, <3>2
  <2>7. /\ g[L + 1] = IF L = 0 THEN w ELSE del \o w
        /\ \A k \in 1 .. L : h[k] = g[k]
    <3>1. DOMAIN t = 1 .. L + 1 /\ DOMAIN ws = 1 .. L /\ L + 1 \in 1 .. L + 1
      BY <2>1, <2>3
    <3>2. \A k \in 1 .. L : k \in 1 .. L + 1
      OBVIOUS
    <3>3. L + 1 = 1 <=> L = 0
      OBVIOUS
    <3>. QED
      BY <2>3, <2>4, <2>5, <3>1, <3>2, <3>3
  <2>8. PICK e \in Seq(S) : e = g[L + 1]
    BY <2>6
  <2>9. h \in Seq(Seq(S)) /\ g = Append(h, e)
    BY <2>6, <2>7, <2>8, OneMore
  <2>10. FlattenSeq(g) = FlattenSeq(h) \o e
    BY <2>9, FlattenAppend
  <2>11. Join(Append(ws, w), del) = Join(ws, del) \o e
    BY <2>2, <2>4, <2>5, <2>10 DEF Join
  <2>12. CASE ws = <<>>
    <3>1. e = w /\ Join(ws, del) = <<>>
      BY <1>1, <2>1, <2>7, <2>8, <2>12
    <3>2. <<>> \o w = w
      BY ConcatEmptySeq
    <3>. QED
      BY <2>11, <2>12, <3>1, <3>2
  <2>13. CASE ws # <<>>
    <3>1. L # 0
      BY <2>1, <2>13, EmptySeq
    <3>. QED
      BY <2>7, <2>8, <2>11, <2>13, <3>1
  <2>. QED
    BY <2>12, <2>13
<1>. QED
  BY <1>1, <1>3, <1>4 DEF JoinsBy

-----------------------------------------------------------------------------
(* Split: what Find finds, and what a round does.                            *)

At(line, del, p) == SubSeq(line, p, p + Len(del) - 1) = del

LEMMA FindMeets ==
  ASSUME NEW C, NEW line \in Seq(C), NEW del \in Seq(C), NEW b \in Nat \ {0}, NEW p \in Nat,
         b <= p, p <= Len(line) - Len(del) + 1, At(line, del, p),
         \A q \in b .. p - 1 : ~ At(line, del, q)
  PROVE  Find(line, del, b) = p
<1>. DEFINE T == {q \in b .. Len(line) - Len(del) + 1 : SubSeq(line, q, q + Len(del) - 1) = del}
<1>1. PICK L \in Nat : L = Len(line)
  OBVIOUS
<1>2. PICK d \in Nat : d = Len(del)
  OBVIOUS
<1>3. p \in T
  BY <1>1, <1>2 DEF At
<1>4. \A q \in T : p <= q
  BY <1>1, <1>2 DEF At
<1>5. T \subseteq Nat
  BY <1>1, <1>2
<1>6. Find(line, del, b) = CHOOSE x \in T : \A q \in T : x <= q
  BY <1>3 DEF Find
<1>. HIDE DEF T
<1>7. \A x \in T : (\A q \in T : x <= q) => x = p
  BY <1>3, <1>4, <1>5
<1>8. \E x \in T : \A q \in T : x <= q
  BY <1>3, <1>4
<1>. QED
  BY <1>6, <1>7, <1>8

LEMMA FindMisses ==
  ASSUME NEW C, NEW line \in Seq(C), NEW del \in Seq(C), NEW b \in Nat \ {0},
         \A q \in b .. Len(line) - Len(del) + 1 : ~ At(line, del, q)
  PROVE  Find(line, del, b) = Len(line) + 1
BY DEF Find, At

LEMMA FindTyped ==
  ASSUME NEW C, NEW line \in Seq(C), NEW del \in Seq(C), NEW b \in Nat \ {0}
  PROVE  /\ Find(line, del, b) \in 1 .. Len(line) + 1
         /\ Find(line, del, b) >= b \/ Find(line, del, b) = Len(line) + 1
<1>. DEFINE T == {q \in b .. Len(line) - Len(del) + 1 : At(line, del, q)}
<1>1. PICK L \in Nat : L = Len(line)
  OBVIOUS
<1>2. PICK d \in Nat : d = Len(del)
  OBVIOUS
<1>3. CASE T = {}
  <2>1. \A q \in b .. Len(line) - Len(del) + 1 : ~ At(line, del, q)
    BY <1>3
  <2>2. Find(line, del, b) = L + 1
    BY <1>1, <2>1, FindMisses
  <2>. QED
    BY <1>1, <2>2
<1>4. CASE T # {}
  <2>1. T \subseteq Nat
    BY <1>1, <1>2
  <2>2. PICK p \in T : \A q \in T : p <= q
    <3>. HIDE DEF T
    <3>. QED
      BY <1>4, <2>1, LeastElement
  <2>3. p \in Nat /\ b <= p /\ p <= L - d + 1 /\ At(line, del, p)
    BY <1>1, <1>2
  <2>4. \A q \in b .. p - 1 : ~ At(line, del, q)
    <3>1. ASSUME NEW q \in b .. p - 1, At(line, del, q) PROVE FALSE
      <4>1. q \in Nat /\ q <= L - d + 1 /\ b <= q /\ q < p
        BY <2>3
      <4>2. q \in T
        BY <1>1, <1>2, <3>1, <4>1
      <4>. QED
        BY <2>2, <4>1, <4>2
    <3>. QED
      BY <3>1
  <2>5. Find(line, del, b) = p
    BY <1>1, <1>2, <2>3, <2>4, FindMeets
  <2>. QED
    BY <1>1, <1>2, <2>3, <2>5
<1>. QED
  BY <1>3, <1>4

States(C) == [begin : Nat \ {0}, pieces : Seq(Seq(C))]

\* What a round does, by the place p where it finds the separator, and the piece w before it.
RoundTo(line, del, s, p, w, t) ==
  /\ p = Find(line, del, s.begin) /\ w = SubSeq(line, s.begin, p - 1)
  /\ w = <<>> => t = [begin |-> p + Len(del), pieces |-> s.pieces]
  /\ w # <<>> => t = [begin |-> p + Len(del), pieces |-> Append(s.pieces, w)]

LEMMA RoundIs ==
  ASSUME NEW C, NEW line \in Seq(C), NEW del \in Seq(C), NEW s \in States(C)
  PROVE  /\ \E p \in Nat, w \in Seq(C) : RoundTo(line, del, s, p, w, Round(line, del, s))
         /\ Round(line, del, s) \in States(C)
<1>1. s.begin \in Nat \ {0} /\ s.pieces \in Seq(Seq(C))
  BY DEF States
<1>2. PICK L \in Nat : L = Len(line)
  OBVIOUS
<1>3. PICK p \in 1 .. L + 1 : p = Find(line, del, s.begin)
  BY <1>1, <1>2, FindTyped
<1>4. PICK w \in Seq(C) : w = SubSeq(line, s.begin, p - 1)
  <2>1. \A i \in s.begin .. p - 1 : line[i] \in C
    BY <1>1, <1>2, <1>3
  <2>2. s.begin \in Int /\ p - 1 \in Int
    BY <1>1, <1>3
  <2>. QED
    BY <2>1, <2>2, SubSeqProperties
<1>5. PICK q \in Nat \ {0} : q = p + Len(del)
  BY <1>3
<1>6. s.pieces \o <<>> = s.pieces /\ s.pieces \o <<w>> = Append(s.pieces, w)
  BY <1>1, <1>4, ConcatEmptySeq, AppendIsConcat
<1>7. PICK t : t = Round(line, del, s)
  OBVIOUS
<1>8. t = [begin |-> q, pieces |-> s.pieces \o NonEmpty(w)]
  BY <1>3, <1>4, <1>5, <1>7 DEF Round
<1>9. /\ w = <<>> => t = [begin |-> q, pieces |-> s.pieces]
      /\ w # <<>> => t = [begin |-> q, pieces |-> Append(s.pieces, w)]
  BY <1>6, <1>8 DEF NonEmpty
<1>10. t \in States(C)
  <2>1. CASE w = <<>>
    BY <1>1, <1>5, <1>9, <2>1 DEF States
  <2>2. CASE w # <<>>
    <3>1. PICK P \in Seq(Seq(C)) : P = Append(s.pieces, w)
      BY <1>1, <1>4, AppendProperties
    <3>2. t = [begin |-> q, pieces |-> P]
      BY <1>9, <2>2, <3>1
    <3>. QED
      BY <1>5, <3>2 DEF States
  <2>. QED
    BY <2>1, <2>2
<1>11. RoundTo(line, del, s, p, w, t) /\ p \in Nat
  BY <1>3, <1>4, <1>5, <1>9, SMTT(60) DEF RoundTo
<1>. QED
  BY <1>4, <1>7, <1>10, <1>11

Rounds(f, line, del, C) ==
  /\ f \in [0 .. Len(line) -> States(C)]
  /\ f[0] = [begin |-> 1, pieces |-> <<>>]
  /\ \A n \in 1 .. Len(line) : f[n] = Round(line, del, f[n - 1])
  /\ Split(line, del) = f[Len(line)].pieces

LEMMA SplitUnfolds ==
  ASSUME NEW C, NEW line \in Seq(C), NEW del \in Seq(C)
  PROVE  \E f : Rounds(f, line, del, C)
<1>. DEFINE none == [begin |-> 1, pieces |-> <<>>]
            Eq(g) == g = [n \in 0 .. Len(line) |-> IF n = 0 THEN none ELSE Round(line, del, g[n - 1])]
            F == CHOOSE g : Eq(g)
<1>0. PICK L \in Nat : L = Len(line)
  OBVIOUS
<1>1. \A a \in States(C) : Round(line, del, a) \in States(C)
  BY RoundIs
<1>2. PICK step \in [(1 .. L) \X States(C) -> States(C)] :
        \A n \in 1 .. L, m \in States(C) : step[<<n, m>>] = Round(line, del, m)
  <2>. DEFINE st == [x \in (1 .. L) \X States(C) |-> Round(line, del, x[2])]
  <2>1. st \in [(1 .. L) \X States(C) -> States(C)]
    BY <1>1
  <2>2. \A n \in 1 .. L, m \in States(C) : st[<<n, m>>] = Round(line, del, m)
    OBVIOUS
  <2>. HIDE DEF st
  <2>. QED
    BY <2>1, <2>2
<1>3. PICK f : Solution(f, States(C), L, none, step)
  <2>1. none \in States(C)
    BY DEF States
  <2>. HIDE DEF none
  <2>. QED
    BY <2>1, SolutionExists
<1>4. \A n \in 1 .. L : f[n] = Round(line, del, f[n - 1])
  <2>1. \A n \in 1 .. L : n - 1 \in 0 .. L
    OBVIOUS
  <2>. QED
    BY <1>2, <1>3, <2>1 DEF Solution
<1>. HIDE DEF none
<1>5. Eq(f)
  BY <1>0, <1>3, <1>4 DEF Solution
<1>6. Eq(F)
  <2>. HIDE DEF Eq
  <2>. QED
    BY <1>5
<1>7. PICK h : h = F
  OBVIOUS
<1>8. \A n \in 0 .. L : h[n] = f[n]
  <2>1. h[0] = f[0] /\ \A n \in 0 .. L - 1 : h[n] = f[n] => h[n + 1] = f[n + 1]
    <3>. HIDE DEF F
    <3>. QED
      BY <1>0, <1>3, <1>4, <1>6, <1>7 DEF Solution
  <2>2. Agree(h, f, 0, L)
    BY <2>1 DEF Agree
  <2>. QED
    BY <2>2, SolutionUnique
<1>9. Split(line, del) = F[L].pieces
  BY <1>0 DEF Split, none
<1>10. Rounds(f, line, del, C)
  <2>. HIDE DEF F
  <2>1. f[0] = none /\ Split(line, del) = f[L].pieces /\ f \in [0 .. L -> States(C)]
    BY <1>3, <1>7, <1>8, <1>9 DEF Solution
  <2>. QED
    BY <1>0, <1>4, <2>1 DEF Rounds, none
<1>. QED
  BY <1>10

-----------------------------------------------------------------------------
(* Split undoes Join: a round for each word, then rounds that change nothing. *)

LEMMA Middle ==
  ASSUME NEW C, NEW line \in Seq(C), NEW w \in Seq(C), NEW a \in Nat, a + Len(w) <= Len(line),
         \A i \in 1 .. Len(w) : line[a + i] = w[i]
  PROVE  SubSeq(line, a + 1, a + Len(w)) = w
<1>1. PICK L \in Nat : L = Len(line)
  OBVIOUS
<1>2. PICK m \in Nat : m = Len(w)
  OBVIOUS
<1>3. \A i \in a + 1 .. a + m : line[i] \in C
  BY <1>1, <1>2
<1>4. PICK t : t = SubSeq(line, a + 1, a + m)
  OBVIOUS
<1>5. /\ t \in Seq(C)
      /\ Len(t) = IF a + 1 <= a + m THEN (a + m) - (a + 1) + 1 ELSE 0
      /\ \A i \in 1 .. (a + m) - (a + 1) + 1 : t[i] = line[(a + 1) + i - 1]
  <2>1. a + 1 \in Int /\ a + m \in Int
    OBVIOUS
  <2>. QED
    BY <1>3, <1>4, <2>1, SubSeqProperties
<1>6. Len(t) = m
  BY <1>5
<1>7. \A i \in 1 .. m : t[i] = w[i]
  <2>1. \A i \in 1 .. m : i \in 1 .. (a + m) - (a + 1) + 1 /\ (a + 1) + i - 1 = a + i
    OBVIOUS
  <2>. QED
    BY <1>2, <1>5, <2>1
<1>8. t = w
  BY <1>2, <1>5, <1>6, <1>7, SeqEqual
<1>. QED
  BY <1>2, <1>4, <1>8

LEMMA AtSpace ==
  ASSUME NEW C, Space \in C, NEW line \in Seq(C), NEW q \in 1 .. Len(line)
  PROVE  At(line, <<Space>>, q) <=> line[q] = Space
<1>1. Len(<<Space>>) = 1 /\ <<Space>> \in Seq(C) /\ (<<Space>>)[1] = Space
  OBVIOUS
<1>2. q \in Nat /\ q <= Len(line) /\ q + 1 - 1 = q /\ line[q] \in C
  OBVIOUS
<1>3. PICK t : t = SubSeq(line, q, q)
  OBVIOUS
<1>4. t \in Seq(C) /\ Len(t) = 1 /\ t[1] = line[q]
  <2>1. /\ t \in Seq(C)
        /\ Len(t) = IF q <= q THEN q - q + 1 ELSE 0
        /\ \A i \in 1 .. q - q + 1 : t[i] = line[q + i - 1]
    BY <1>2, <1>3, SubSeqProperties
  <2>2. 1 \in 1 .. q - q + 1 /\ q - q + 1 = 1
    BY <1>2
  <2>. QED
    BY <1>2, <2>1, <2>2
<1>5. t = <<Space>> <=> line[q] = Space
  BY <1>1, <1>4, SeqEqual
<1>. QED
  BY <1>1, <1>2, <1>3, <1>5 DEF At

Words(C) == Seq(C \ {Space}) \ {<<>>}

WordAt(line, w, a) ==
  /\ a + Len(w) <= Len(line)
  /\ \A i \in 1 .. Len(w) : line[a + i] = w[i]
  /\ a + Len(w) = Len(line) \/ line[a + Len(w) + 1] = Space

LEMMA WordRound ==
  ASSUME NEW C, Space \in C, NEW line \in Seq(C), NEW s \in States(C),
         NEW w \in Words(C), NEW a \in Nat, s.begin = a + 1, WordAt(line, w, a)
  PROVE  Round(line, <<Space>>, s) =
           [begin |-> a + Len(w) + 2, pieces |-> Append(s.pieces, w)]
<1>0. /\ a + Len(w) <= Len(line)
      /\ \A i \in 1 .. Len(w) : line[a + i] = w[i]
      /\ a + Len(w) = Len(line) \/ line[a + Len(w) + 1] = Space
  BY DEF WordAt
<1>1. PICK L \in Nat : L = Len(line)
  OBVIOUS
<1>2. PICK m \in Nat : m = Len(w)
  BY DEF Words
<1>3. <<Space>> \in Seq(C) /\ Len(<<Space>>) = 1
  OBVIOUS
<1>4. w \in Seq(C) /\ w # <<>> /\ \A i \in 1 .. m : w[i] # Space
  BY <1>2, SeqMonotonic DEF Words
<1>5. \A q \in a + 1 .. a + m : ~ At(line, <<Space>>, q)
  <2>. SUFFICES ASSUME NEW q \in a + 1 .. a + m PROVE ~ At(line, <<Space>>, q)
    OBVIOUS
  <2>1. q - a \in 1 .. m /\ a + (q - a) = q /\ q \in 1 .. L
    BY <1>0, <1>1, <1>2
  <2>2. line[q] # Space
    BY <1>0, <1>2, <1>4, <2>1
  <2>. QED
    BY <1>1, <2>1, <2>2, AtSpace
<1>6. Find(line, <<Space>>, a + 1) = a + m + 1
  <2>0. a + 1 \in Nat \ {0}
    OBVIOUS
  <2>1. CASE a + m = L
    <3>1. \A q \in a + 1 .. L - 1 + 1 : ~ At(line, <<Space>>, q)
      BY <1>5, <2>1
    <3>. QED
      BY <1>1, <1>3, <2>0, <2>1, <3>1, FindMisses
  <2>2. CASE a + m # L
    <3>1. line[a + m + 1] = Space /\ a + m + 1 \in 1 .. L
      BY <1>0, <1>1, <1>2, <2>2
    <3>2. At(line, <<Space>>, a + m + 1)
      BY <1>1, <3>1, AtSpace
    <3>3. \A q \in a + 1 .. (a + m + 1) - 1 : ~ At(line, <<Space>>, q)
      BY <1>5
    <3>4. a + m + 1 \in Nat /\ a + 1 <= a + m + 1 /\ a + m + 1 <= L - 1 + 1
      BY <3>1
    <3>. QED
      BY <1>1, <1>3, <2>0, <3>2, <3>3, <3>4, FindMeets, ZenonT(60)
  <2>. QED
    BY <2>1, <2>2
<1>7. SubSeq(line, a + 1, (a + m + 1) - 1) = w
  <2>1. SubSeq(line, a + 1, a + m) = w
    BY <1>0, <1>2, <1>4, Middle
  <2>. QED
    BY <2>1
<1>8. PICK p \in Nat, v \in Seq(C) : RoundTo(line, <<Space>>, s, p, v, Round(line, <<Space>>, s))
  BY <1>3, RoundIs
<1>9. p = a + m + 1 /\ v = w
  BY <1>6, <1>7, <1>8 DEF RoundTo
<1>10. Round(line, <<Space>>, s) = [begin |-> p + Len(<<Space>>), pieces |-> Append(s.pieces, w)]
  BY <1>4, <1>8, <1>9 DEF RoundTo
<1>11. p + Len(<<Space>>) = a + Len(w) + 2
  BY <1>2, <1>3, <1>9
<1>. QED
  BY <1>10, <1>11

\* Past the end of the line a round changes nothing.
Idle(line, s, t) == t.begin > Len(line) /\ t.pieces = s.pieces

LEMMA IdleRound ==
  ASSUME NEW C, NEW line \in Seq(C), NEW del \in Seq(C), NEW s \in States(C),
         s.begin > Len(line)
  PROVE  Idle(line, s, Round(line, del, s))
<1>1. PICK L \in Nat : L = Len(line)
  OBVIOUS
<1>2. s.begin \in Nat \ {0}
  BY DEF States
<1>3. Find(line, del, s.begin) = L + 1
  <2>1. /\ Find(line, del, s.begin) \in 1 .. L + 1
        /\ Find(line, del, s.begin) >= s.begin \/ Find(line, del, s.begin) = L + 1
    BY <1>1, <1>2, FindTyped
  <2>. QED
    BY <1>1, <1>2, <2>1
<1>4. SubSeq(line, s.begin, (L + 1) - 1) = <<>>
  BY <1>1, <1>2, SubSeqEmpty
<1>5. PICK p \in Nat, v \in Seq(C) : RoundTo(line, del, s, p, v, Round(line, del, s))
  BY RoundIs
<1>6. p = L + 1 /\ v = <<>>
  BY <1>3, <1>4, <1>5 DEF RoundTo
<1>. QED
  BY <1>1, <1>5, <1>6 DEF RoundTo, Idle

LEMMA JoinSpace == ASSUME NEW C, Space \in C PROVE JoinsBy(C, <<Space>>)
<1>1. <<Space>> \in Seq(C)
  OBVIOUS
<1>. QED
  BY <1>1, JoinAppend

\* What follows the first n words once they are joined with spaces.
FirstWords(ws, n, r) ==
  /\ Join(ws, <<Space>>) = Join(SubSeq(ws, 1, n), <<Space>>) \o r
  /\ n < Len(ws) => r # <<>> /\ r[1] = Space
  /\ n = Len(ws) => r = <<>>

PrefixJoins(ws, C) == \A n \in 1 .. Len(ws) : \E r \in Seq(C) : FirstWords(ws, n, r)

LEMMA JoinPrefixes ==
  ASSUME NEW C, Space \in C
  PROVE  \A ws \in Seq(Seq(C)) : PrefixJoins(ws, C)
<1>. DEFINE T == {ws \in Seq(Seq(C)) : PrefixJoins(ws, C)}
<1>0. <<Space>> \in Seq(C)
  OBVIOUS
<1>9. /\ Join(<<>>, <<Space>>) = <<>>
      /\ \A ws \in Seq(Seq(C)) : Join(ws, <<Space>>) \in Seq(C)
      /\ \A ws \in Seq(Seq(C)), w \in Seq(C) :
           /\ ws = <<>> => Join(Append(ws, w), <<Space>>) = w
           /\ ws # <<>> => Join(Append(ws, w), <<Space>>) = Join(ws, <<Space>>) \o (<<Space>> \o w)
  BY JoinSpace DEF JoinsBy
<1>1. <<>> \in T
  BY DEF PrefixJoins
<1>2. ASSUME NEW ws \in Seq(Seq(C)), NEW w \in Seq(C), ws \in T PROVE Append(ws, w) \in T
  <2>1. PICK L \in Nat : L = Len(ws)
    OBVIOUS
  <2>2. PICK v \in Seq(Seq(C)) : v = Append(ws, w)
    BY AppendProperties
  <2>3. Len(v) = L + 1
    BY <2>1, <2>2, AppendProperties
  <2>4. SubSeq(v, 1, L + 1) = v
    BY <2>3, SubSeqFull
  <2>5. Join(v, <<Space>>) \o <<>> = Join(v, <<Space>>)
    BY <1>9, <2>2, ConcatEmptySeq
  <2>6. ASSUME NEW n \in 1 .. L PROVE \E r \in Seq(C) : FirstWords(v, n, r)
    <3>1. PICK r \in Seq(C) : FirstWords(ws, n, r)
      BY <1>2, <2>1 DEF PrefixJoins
    <3>2. PICK u \in Seq(C) : u = <<Space>> \o w
      BY <1>0, ConcatProperties
    <3>3. SubSeq(v, 1, n) = SubSeq(ws, 1, n)
      <4>1. v = ws \o <<w>> /\ <<w>> \in Seq(Seq(C))
        BY <2>2, AppendIsConcat
      <4>2. 1 \in 1 .. Len(ws) /\ n \in 1 .. Len(ws)
        BY <2>1
      <4>. QED
        BY <4>1, <4>2, SubSeqOfConcat1
    <3>4. PICK J \in Seq(C) : J = Join(SubSeq(ws, 1, n), <<Space>>)
      <4>1. SubSeq(ws, 1, n) \in Seq(Seq(C))
        <5>1. \A i \in 1 .. n : ws[i] \in Seq(C)
          BY <2>1
        <5>. QED
          BY <5>1, SubSeqProperties
      <4>. QED
        BY <1>9, <4>1
    <3>5. Join(v, <<Space>>) = (J \o r) \o u
      <4>1. ws # <<>>
        BY <2>1, EmptySeq
      <4>2. Join(v, <<Space>>) = Join(ws, <<Space>>) \o u
        BY <1>9, <2>2, <3>2, <4>1
      <4>. QED
        BY <3>1, <3>4, <4>2 DEF FirstWords
    <3>6. PICK q \in Seq(C) : q = r \o u
      BY ConcatProperties
    <3>7. Join(v, <<Space>>) = J \o q
      <4>1. (J \o r) \o u = J \o (r \o u)
        BY Associative, SMTT(60)
      <4>. QED
        BY <3>5, <3>6, <4>1
    <3>8. q # <<>> /\ q[1] = Space
      <4>1. Len(u) >= 1 /\ u[1] = Space
        BY <1>0, <3>2, ConcatProperties
      <4>2. CASE n = L
        <5>1. r = <<>>
          BY <2>1, <3>1, <4>2 DEF FirstWords
        <5>. QED
          BY <3>6, <4>1, <5>1, ConcatEmptySeq
      <4>3. CASE n # L
        <5>1. r # <<>> /\ r[1] = Space
          BY <2>1, <3>1, <4>3 DEF FirstWords
        <5>2. Len(r) >= 1
          BY <5>1, EmptySeq
        <5>3. Len(q) = Len(r) + Len(u) /\ q[1] = r[1]
          BY <3>6, <5>2, ConcatProperties
        <5>. QED
          BY <5>1, <5>2, <5>3
      <4>. QED
        BY <4>2, <4>3
    <3>9. n # L + 1 /\ n < L + 1
      OBVIOUS
    <3>. QED
      BY <2>3, <3>3, <3>4, <3>7, <3>8, <3>9 DEF FirstWords
  <2>7. FirstWords(v, L + 1, <<>>)
    <3>1. ~ (L + 1 < L + 1)
      OBVIOUS
    <3>2. Join(v, <<Space>>) = Join(SubSeq(v, 1, L + 1), <<Space>>) \o <<>>
      BY <2>4, <2>5
    <3>. QED
      BY <2>3, <3>1, <3>2 DEF FirstWords
  <2>8. \A n \in 1 .. L + 1 : n = L + 1 \/ n \in 1 .. L
    OBVIOUS
  <2>9. <<>> \in Seq(C)
    OBVIOUS
  <2>10. PrefixJoins(v, C)
    BY <2>3, <2>6, <2>7, <2>8, <2>9 DEF PrefixJoins
  <2>. QED
    BY <2>2, <2>10
<1>3. \A ws \in Seq(Seq(C)) : ws \in T
  <2>. HIDE DEF T
  <2>. QED
    BY <1>1, <1>2, SeqInduction
<1>. QED
  BY <1>3

\* Words that are not empty are not more than the characters of their join.
LEMMA JoinLonger ==
  ASSUME NEW C, Space \in C
  PROVE  \A ws \in Seq(Words(C)) : Len(ws) <= Len(Join(ws, <<Space>>))
<1>. DEFINE T == {ws \in Seq(Words(C)) : Len(ws) <= Len(Join(ws, <<Space>>))}
<1>0. <<Space>> \in Seq(C) /\ Len(<<Space>>) = 1
  OBVIOUS
<1>9. /\ Join(<<>>, <<Space>>) = <<>>
      /\ \A ws \in Seq(Seq(C)) : Join(ws, <<Space>>) \in Seq(C)
      /\ \A ws \in Seq(Seq(C)), w \in Seq(C) :
           /\ ws = <<>> => Join(Append(ws, w), <<Space>>) = w
           /\ ws # <<>> => Join(Append(ws, w), <<Space>>) = Join(ws, <<Space>>) \o (<<Space>> \o w)
  BY JoinSpace DEF JoinsBy
<1>1. <<>> \in T
  <2>1. Join(<<>>, <<Space>>) = <<>>
    BY JoinSpace DEF JoinsBy
  <2>. QED
    BY <2>1
<1>2. ASSUME NEW ws \in Seq(Words(C)), NEW w \in Words(C), ws \in T PROVE Append(ws, w) \in T
  <2>1. w \in Seq(C) /\ w # <<>> /\ Words(C) \subseteq Seq(C)
    BY SeqMonotonic DEF Words
  <2>2. ws \in Seq(Seq(C))
    BY <2>1, SeqMonotonic
  <2>3. Len(Append(ws, w)) = Len(ws) + 1 /\ Append(ws, w) \in Seq(Words(C))
    BY AppendProperties
  <2>4. Len(w) >= 1
    BY <2>1, EmptySeq
  <2>5. PICK J \in Seq(C) : J = Join(ws, <<Space>>)
    BY <1>9, <2>2
  <2>6. Len(ws) \in Nat /\ Len(J) \in Nat /\ Len(ws) <= Len(J) /\ Len(w) \in Nat
    BY <1>2, <2>1, <2>5
  <2>7. PICK M : M = Join(Append(ws, w), <<Space>>)
    OBVIOUS
  <2>8. CASE ws = <<>>
    <3>1. M = w /\ Len(ws) = 0
      BY <1>9, <2>1, <2>2, <2>7, <2>8
    <3>. QED
      BY <2>3, <2>4, <2>6, <2>7, <3>1
  <2>9. CASE ws # <<>>
    <3>1. M = J \o (<<Space>> \o w)
      BY <1>9, <2>1, <2>2, <2>5, <2>7, <2>9
    <3>2. <<Space>> \o w \in Seq(C) /\ Len(<<Space>> \o w) = 1 + Len(w)
      BY <1>0, <2>1, ConcatProperties
    <3>3. Len(M) = Len(J) + (1 + Len(w))
      BY <3>1, <3>2, ConcatProperties
    <3>. QED
      BY <2>3, <2>6, <2>7, <3>3
  <2>. QED
    BY <2>8, <2>9
<1>3. \A ws \in Seq(Words(C)) : ws \in T
  <2>. HIDE DEF T
  <2>. QED
    BY <1>1, <1>2, SeqInduction
<1>. QED
  BY <1>3

\* Words come whole through the string they are joined into.
LEMMA SplitJoin ==
  ASSUME NEW C, Space \in C, NEW ws \in Seq(Words(C))
  PROVE  Split(Join(ws, <<Space>>), <<Space>>) = ws
<1>0. <<Space>> \in Seq(C)
  OBVIOUS
<1>1. PICK N \in Nat : N = Len(ws)
  OBVIOUS
<1>2. ws \in Seq(Seq(C)) /\ \A n \in 1 .. N : ws[n] \in Words(C) /\ ws[n] \in Seq(C)
  <2>1. Words(C) \subseteq Seq(C)
    <3>. SUFFICES ASSUME NEW w \in Words(C) PROVE w \in Seq(C)
      OBVIOUS
    <3>. QED
      BY SeqMonotonic DEF Words
  <2>. QED
    BY <1>1, <2>1, SeqMonotonic
<1>3. /\ Join(<<>>, <<Space>>) = <<>>
      /\ \A vs \in Seq(Seq(C)) : Join(vs, <<Space>>) \in Seq(C)
      /\ \A vs \in Seq(Seq(C)), w \in Seq(C) :
           /\ vs = <<>> => Join(Append(vs, w), <<Space>>) = w
           /\ vs # <<>> => Join(Append(vs, w), <<Space>>) = Join(vs, <<Space>>) \o (<<Space>> \o w)
  BY JoinSpace DEF JoinsBy
<1>4. PICK line \in Seq(C) : line = Join(ws, <<Space>>)
  BY <1>2, <1>3
<1>5. PICK L \in Nat : L = Len(line) /\ N <= L
  BY <1>1, <1>4, JoinLonger
<1>6. PICK f : Rounds(f, line, <<Space>>, C)
  BY <1>0, SplitUnfolds
<1>7. /\ f[0] = [begin |-> 1, pieces |-> <<>>]
      /\ \A n \in 0 .. L : f[n] \in States(C)
      /\ \A n \in 1 .. L : f[n] = Round(line, <<Space>>, f[n - 1])
      /\ Split(line, <<Space>>) = f[L].pieces
  BY <1>5, <1>6 DEF Rounds
<1>. DEFINE Pre(n) == SubSeq(ws, 1, n)
<1>8. ASSUME NEW n \in 0 .. N
      PROVE  Pre(n) \in Seq(Words(C)) /\ Pre(n) \in Seq(Seq(C)) /\ Len(Pre(n)) = n
  <2>1. n \in Int /\ 1 \in Int /\ \A i \in 1 .. n : ws[i] \in Words(C) /\ ws[i] \in Seq(C)
    BY <1>2
  <2>2. /\ Pre(n) \in Seq(Words(C))
        /\ Len(Pre(n)) = IF 1 <= n THEN n - 1 + 1 ELSE 0
    BY <2>1, SubSeqProperties
  <2>3. Pre(n) \in Seq(Seq(C))
    BY <2>1, SubSeqProperties
  <2>. QED
    BY <2>2, <2>3
<1>9. Pre(0) = <<>> /\ Pre(N) = ws
  BY <1>1, SubSeqEmpty, SubSeqFull
<1>10. ASSUME NEW n \in 1 .. N PROVE Pre(n) = Append(Pre(n - 1), ws[n])
  <2>1. n - 1 \in 0 .. N /\ 1 \in 1 .. Len(ws) /\ n \in 1 .. Len(ws)
    BY <1>1
  <2>2. SubSeq(ws, 1, n) = SubSeq(ws, 1, n - 1) \o <<ws[n]>>
    BY <2>1, SubSeqRecursiveSecond
  <2>3. SubSeq(ws, 1, n - 1) \in Seq(Seq(C)) /\ ws[n] \in Seq(C)
    BY <1>2, <1>8, <2>1
  <2>. QED
    BY <2>2, <2>3, AppendIsConcat
<1>. HIDE DEF Pre
<1>. DEFINE J(n) == Join(Pre(n), <<Space>>)
<1>11. \A n \in 0 .. N : J(n) \in Seq(C) /\ J(n) = Join(Pre(n), <<Space>>)
  BY <1>3, <1>8
<1>. HIDE DEF J
<1>. DEFINE T == {n \in 1 .. N : f[n] = [begin |-> Len(J(n)) + 2, pieces |-> Pre(n)]}
<1>12. ASSUME NEW n \in 1 .. N, n = 1 \/ n - 1 \in T PROVE n \in T
  <2>0. n \in 0 .. N
    OBVIOUS
  <2>1. PICK w \in Seq(C) : w = ws[n] /\ w \in Words(C)
    BY <1>2
  <2>2. PICK m \in Nat : m = Len(w)
    OBVIOUS
  <2>3. PICK r \in Seq(C) : /\ line = J(n) \o r
                            /\ n < N => r # <<>> /\ r[1] = Space
                            /\ n = N => r = <<>>
    <3>1. \E r \in Seq(C) : FirstWords(ws, n, r)
      BY <1>1, <1>2, JoinPrefixes DEF PrefixJoins
    <3>. QED
      BY <1>1, <1>4, <3>1 DEF FirstWords, Pre, J
  <2>4. PICK K \in Seq(C) : K = J(n)
    BY <1>11, <2>0
  <2>5. PICK k \in Nat : k = Len(K)
    OBVIOUS
  <2>6. PICK s \in States(C) : s = f[n - 1]
    <3>1. n - 1 \in 0 .. L
      BY <1>5
    <3>. QED
      BY <1>7, <3>1
  <2>7. PICK a \in Nat : /\ k = a + m
                         /\ s.begin = a + 1 /\ s.pieces = Pre(n - 1)
                         /\ \A i \in 1 .. m : K[a + i] = w[i]
    <3>1. CASE n = 1
      <4>1. Pre(1) = Append(<<>>, w) /\ Pre(n - 1) = <<>>
        <5>1. 1 - 1 = 0 /\ 1 \in 1 .. N
          BY <3>1
        <5>. QED
          BY <1>9, <1>10, <2>1, <3>1, <5>1
      <4>2. K = w
        <5>1. <<>> \in Seq(Seq(C))
          OBVIOUS
        <5>2. Join(Append(<<>>, w), <<Space>>) = w
          BY <1>3, <2>1, <5>1
        <5>3. K = Join(Pre(1), <<Space>>)
          BY <1>11, <2>0, <2>4, <3>1
        <5>. QED
          BY <4>1, <5>2, <5>3
      <4>3. s = [begin |-> 1, pieces |-> <<>>]
        <5>1. n - 1 = 0
          BY <3>1
        <5>. QED
          BY <1>7, <2>6, <5>1
      <4>4. k = 0 + m /\ \A i \in 1 .. m : K[0 + i] = w[i]
        BY <2>2, <2>5, <4>2
      <4>5. s.begin = 0 + 1 /\ s.pieces = Pre(n - 1)
        BY <4>1, <4>3
      <4>. QED
        BY <4>4, <4>5
    <3>2. CASE n # 1
      <4>1. n - 1 \in 1 .. N /\ n - 1 \in T /\ n - 1 \in 0 .. N
        BY <1>12, <3>2
      <4>2. PICK I \in Seq(C) : I = J(n - 1)
        BY <1>11, <4>1
      <4>3. PICK h \in Nat : h = Len(I)
        OBVIOUS
      <4>4. s = [begin |-> h + 2, pieces |-> Pre(n - 1)]
        BY <2>6, <4>1, <4>2, <4>3
      <4>5. PICK v \in Seq(Seq(C)) : v = Pre(n - 1) /\ Len(v) = n - 1
        BY <1>8, <4>1
      <4>6. v # <<>>
        BY <4>1, <4>5, EmptySeq
      <4>7. Pre(n) = Append(v, w)
        BY <1>10, <2>1, <4>5
      <4>8. K = I \o (<<Space>> \o w)
        <5>1. Join(Append(v, w), <<Space>>) = Join(v, <<Space>>) \o (<<Space>> \o w)
          BY <1>3, <2>1, <4>5, <4>6
        <5>2. I = Join(v, <<Space>>) /\ K = Join(Append(v, w), <<Space>>)
          BY <1>11, <2>0, <2>4, <4>1, <4>2, <4>5, <4>7
        <5>. QED
          BY <5>1, <5>2
      <4>9. PICK u \in Seq(C) : u = <<Space>> \o w
        BY <1>0, ConcatProperties
      <4>10. Len(u) = 1 + m /\ \A i \in 1 .. m : u[1 + i] = w[i]
        <5>1. Len(<<Space>>) = 1 /\ \A i \in 1 .. m : 1 + i \in 1 .. 1 + m /\ ~ (1 + i <= 1) /\ (1 + i) - 1 = i
          OBVIOUS
        <5>2. /\ Len(u) = Len(<<Space>>) + m
              /\ \A i \in 1 .. Len(<<Space>>) + m :
                   u[i] = IF i <= Len(<<Space>>) THEN (<<Space>>)[i] ELSE w[i - Len(<<Space>>)]
          BY <1>0, <2>2, <4>9, ConcatProperties
        <5>. QED
          BY <5>1, <5>2
      <4>11. k = h + (1 + m) /\ \A i \in 1 .. 1 + m : K[h + i] = u[i]
        <5>1. \A i \in 1 .. 1 + m : h + i \in 1 .. h + (1 + m) /\ ~ (h + i <= h) /\ (h + i) - h = i
          OBVIOUS
        <5>2. /\ Len(K) = h + (1 + m)
              /\ \A i \in 1 .. h + (1 + m) : K[i] = IF i <= h THEN I[i] ELSE u[i - h]
          <6>1. K = I \o u /\ Len(u) = 1 + m
            BY <4>8, <4>9, <4>10
          <6>2. /\ Len(I \o u) = Len(I) + Len(u)
                /\ \A i \in 1 .. Len(I) + Len(u) :
                     (I \o u)[i] = IF i <= Len(I) THEN I[i] ELSE u[i - Len(I)]
            BY ConcatProperties
          <6>. QED
            BY <4>3, <6>1, <6>2
        <5>. QED
          BY <2>5, <5>1, <5>2
      <4>12. k = (h + 1) + m /\ \A i \in 1 .. m : K[(h + 1) + i] = w[i]
        <5>1. \A i \in 1 .. m : (h + 1) + i = h + (1 + i) /\ 1 + i \in 1 .. 1 + m
          OBVIOUS
        <5>2. \A i \in 1 .. m : K[h + (1 + i)] = u[1 + i]
          BY <4>11, <5>1
        <5>3. k = (h + 1) + m
          BY <4>11
        <5>. QED
          BY <4>10, <5>1, <5>2, <5>3
      <4>13. s.begin = (h + 1) + 1 /\ s.pieces = Pre(n - 1)
        BY <4>4
      <4>14. h + 1 \in Nat
        OBVIOUS
      <4>. QED
        BY <4>12, <4>13, <4>14
    <3>. QED
      BY <3>1, <3>2
  <2>8. /\ L = k + Len(r)
        /\ \A i \in 1 .. k : line[i] = K[i]
        /\ Len(r) >= 1 => line[k + 1] = r[1]
    <3>1. /\ Len(line) = k + Len(r)
          /\ \A i \in 1 .. k + Len(r) : line[i] = IF i <= k THEN K[i] ELSE r[i - k]
      BY <2>3, <2>4, <2>5, ConcatProperties
    <3>2. Len(r) \in Nat /\ ~ (k + 1 <= k) /\ (k + 1) - k = 1
      OBVIOUS
    <3>3. \A i \in 1 .. k : i \in 1 .. k + Len(r) /\ i <= k
      BY <3>2
    <3>4. Len(r) >= 1 => k + 1 \in 1 .. k + Len(r)
      BY <3>2
    <3>. QED
      BY <1>5, <3>1, <3>2, <3>3, <3>4
  <2>9. \A i \in 1 .. m : line[a + i] = w[i]
    <3>1. \A i \in 1 .. m : a + i \in 1 .. k
      BY <2>7
    <3>. QED
      BY <2>7, <2>8, <3>1
  <2>10. a + m <= L /\ (a + m = L \/ line[a + m + 1] = Space)
    <3>1. CASE n = N
      <4>1. Len(r) = 0
        BY <2>3, <3>1
      <4>. QED
        BY <2>7, <2>8, <4>1
    <3>2. CASE n # N
      <4>1. r # <<>> /\ r[1] = Space
        BY <2>3, <3>2
      <4>2. Len(r) \in Nat /\ Len(r) >= 1
        BY <4>1, EmptySeq
      <4>. QED
        BY <2>7, <2>8, <4>1, <4>2
    <3>. QED
      BY <3>1, <3>2
  <2>11. Round(line, <<Space>>, s) = [begin |-> a + m + 2, pieces |-> Append(s.pieces, w)]
    <3>1. w \in Words(C) /\ s.begin = a + 1 /\ WordAt(line, w, a)
      BY <1>5, <2>1, <2>2, <2>7, <2>9, <2>10 DEF WordAt
    <3>2. Round(line, <<Space>>, s) = [begin |-> a + Len(w) + 2, pieces |-> Append(s.pieces, w)]
      BY <3>1, WordRound
    <3>. QED
      BY <2>2, <3>2
  <2>12. f[n] = Round(line, <<Space>>, s)
    <3>1. n \in 1 .. L
      BY <1>5
    <3>. QED
      BY <1>7, <2>6, <3>1
  <2>13. Append(s.pieces, w) = Pre(n)
    BY <1>10, <2>1, <2>7
  <2>14. Len(J(n)) = a + m
    BY <2>4, <2>5, <2>7
  <2>15. f[n] = [begin |-> Len(J(n)) + 2, pieces |-> Pre(n)]
    BY <2>11, <2>12, <2>13, <2>14
  <2>. QED
    BY <2>15
<1>13. CASE N = 0
  <2>1. ws = <<>>
    BY <1>9, <1>13
  <2>2. line = <<>> /\ L = 0
    BY <1>3, <1>4, <1>5, <2>1
  <2>. QED
    BY <1>4, <1>7, <2>1, <2>2
<1>14. CASE N # 0
  <2>1. \A n \in 1 .. N : n \in T
    <3>1. 1 \in T
      <4>1. 1 \in 1 .. N
        BY <1>14
      <4>. HIDE DEF T
      <4>. QED
        BY <1>12, <4>1
    <3>2. \A n \in 1 .. N - 1 : n \in T => n + 1 \in T
      <4>. SUFFICES ASSUME NEW n \in 1 .. N - 1, n \in T PROVE n + 1 \in T
        OBVIOUS
      <4>1. n + 1 \in 1 .. N /\ (n + 1) - 1 = n
        OBVIOUS
      <4>. HIDE DEF T
      <4>. QED
        BY <1>12, <4>1
    <3>3. 1 \in Nat /\ N \in Nat
      OBVIOUS
    <3>. HIDE DEF T
    <3>. QED
      BY <3>1, <3>2, <3>3, Induction
  <2>. DEFINE U == {n \in N .. L : f[n].pieces = ws /\ f[n].begin > L}
  <2>2. N \in U
    <3>1. N \in 1 .. N /\ N \in 0 .. N /\ N \in N .. L
      BY <1>5, <1>14
    <3>2. f[N] = [begin |-> Len(J(N)) + 2, pieces |-> Pre(N)]
      BY <2>1, <3>1
    <3>3. J(N) = line
      BY <1>4, <1>9, <1>11, <3>1
    <3>4. L + 2 > L
      OBVIOUS
    <3>. QED
      BY <1>5, <1>9, <3>1, <3>2, <3>3, <3>4
  <2>3. \A n \in N .. L - 1 : n \in U => n + 1 \in U
    <3>. SUFFICES ASSUME NEW n \in N .. L - 1, n \in U PROVE n + 1 \in U
      OBVIOUS
    <3>1. n + 1 \in N .. L /\ n + 1 \in 1 .. L /\ n \in 0 .. L /\ (n + 1) - 1 = n
      BY <1>5
    <3>2. f[n + 1] = Round(line, <<Space>>, f[n]) /\ f[n] \in States(C)
      BY <1>7, <3>1
    <3>3. f[n].begin > L /\ f[n].pieces = ws
      OBVIOUS
    <3>4. Round(line, <<Space>>, f[n]).begin > L /\ Round(line, <<Space>>, f[n]).pieces = ws
      <4>1. PICK s \in States(C) : s = f[n] /\ s.begin > Len(line)
        BY <1>5, <3>2, <3>3
      <4>2. Idle(line, s, Round(line, <<Space>>, s))
        BY <1>0, <4>1, IdleRound
      <4>. QED
        BY <1>5, <3>3, <4>1, <4>2 DEF Idle
    <3>. QED
      BY <3>1, <3>2, <3>4
  <2>4. L \in U
    <3>1. L \in N .. L
      BY <1>5
    <3>. HIDE DEF U
    <3>. QED
      BY <2>2, <2>3, <3>1, Induction
  <2>. QED
    BY <1>4, <1>7, <2>4
<1>. QED
  BY <1>13, <1>14

-----------------------------------------------------------------------------
(* The second field of the backend's line is the string it was sent, and a   *)
(* space, when no field ends inside that string.                             *)

\* A field of the backend's line does not end inside the string.
NoField(s) ==
  \A p \in 1 .. Len(s) - 2 :
    s[p] = "|" /\ s[p + 1] = "|" /\ s[p + 2] = "|" => p + 2 < Len(s) /\ s[p + 3] # Space

Alphabet == Characters \cup {" ", "0", "1", "F", "|"}

LEMMA Short ==
  ASSUME NEW S
  PROVE  /\ \A a \in S : <<a>> \in Seq(S) /\ Len(<<a>>) = 1 /\ (<<a>>)[1] = a
         /\ \A a, b \in S : /\ <<a, b>> \in Seq(S) /\ Len(<<a, b>>) = 2
                            /\ (<<a, b>>)[1] = a /\ (<<a, b>>)[2] = b
OBVIOUS

LEMMA AlphabetHas ==
  /\ Space \in Alphabet
  /\ " " \in Alphabet /\ "0" \in Alphabet /\ "1" \in Alphabet /\ "F" \in Alphabet
  /\ Bars \in Seq(Alphabet) /\ Len(Bars) = 4
  /\ Bars[1] = "|" /\ Bars[2] = "|" /\ Bars[3] = "|" /\ Bars[4] = " "
BY DEF Alphabet, Space, Bars

BarsAt(line, q) ==
  line[q] = "|" /\ line[q + 1] = "|" /\ line[q + 2] = "|" /\ line[q + 3] = " "

LEMMA AtBars ==
  ASSUME NEW line \in Seq(Alphabet), NEW q \in Nat \ {0}, q + 3 <= Len(line)
  PROVE  At(line, Bars, q) <=> BarsAt(line, q)
<1>1. PICK L \in Nat : L = Len(line)
  OBVIOUS
<1>2. PICK t : t = SubSeq(line, q, q + 4 - 1)
  OBVIOUS
<1>3. /\ t \in Seq(Alphabet)
      /\ Len(t) = IF q <= q + 4 - 1 THEN (q + 4 - 1) - q + 1 ELSE 0
      /\ \A i \in 1 .. (q + 4 - 1) - q + 1 : t[i] = line[q + i - 1]
  <2>1. q \in Int /\ q + 4 - 1 \in Int /\ \A i \in q .. q + 4 - 1 : line[i] \in Alphabet
    BY <1>1
  <2>. QED
    BY <1>2, <2>1, SubSeqProperties
<1>4. Len(t) = 4 /\ t[1] = line[q] /\ t[2] = line[q + 1] /\ t[3] = line[q + 2] /\ t[4] = line[q + 3]
  <2>1. /\ (q + 4 - 1) - q + 1 = 4 /\ q <= q + 4 - 1
        /\ q + 1 - 1 = q /\ q + 2 - 1 = q + 1 /\ q + 3 - 1 = q + 2 /\ q + 4 - 1 = q + 3
    OBVIOUS
  <2>2. 1 \in 1 .. 4 /\ 2 \in 1 .. 4 /\ 3 \in 1 .. 4 /\ 4 \in 1 .. 4
    OBVIOUS
  <2>. QED
    BY <1>3, <2>1, <2>2
<1>5. t = Bars <=> t[1] = "|" /\ t[2] = "|" /\ t[3] = "|" /\ t[4] = " "
  <2>1. ASSUME t[1] = "|", t[2] = "|", t[3] = "|", t[4] = " " PROVE t = Bars
    <3>1. \A i \in 1 .. 4 : i = 1 \/ i = 2 \/ i = 3 \/ i = 4
      OBVIOUS
    <3>2. \A i \in 1 .. 4 : t[i] = Bars[i]
      BY <2>1, <3>1, AlphabetHas
    <3>. QED
      BY <1>3, <1>4, <3>2, AlphabetHas, SeqEqual
  <2>. QED
    BY <2>1, AlphabetHas
<1>6. At(line, Bars, q) <=> t = Bars
  BY <1>2, AlphabetHas DEF At
<1>. QED
  BY <1>4, <1>5, <1>6 DEF BarsAt

\* What the backend's line is made of.
EchoAt(line, s, n) ==
  /\ Len(line) = n + 18
  /\ line[1] = "0" /\ line[2] = " " /\ line[3] = "|" /\ line[4] = "|" /\ line[5] = "|" /\ line[6] = " "
  /\ \A i \in 1 .. n : line[6 + i] = s[i]
  /\ line[n + 7] = " " /\ line[n + 8] = "|" /\ line[n + 9] = "|" /\ line[n + 10] = "|" /\ line[n + 11] = " "

ConcatAt(x, y, z) ==
  /\ Len(z) = Len(x) + Len(y)
  /\ \A i \in 1 .. Len(x) : z[i] = x[i]
  /\ \A i \in 1 .. Len(y) : z[Len(x) + i] = y[i]

LEMMA ConcatIs ==
  ASSUME NEW C, NEW x \in Seq(C), NEW y \in Seq(C)
  PROVE  x \o y \in Seq(C) /\ ConcatAt(x, y, x \o y)
<1>. DEFINE z == x \o y
<1>1. /\ z \in Seq(C) /\ Len(z) = Len(x) + Len(y)
      /\ \A i \in 1 .. Len(x) + Len(y) : z[i] = IF i <= Len(x) THEN x[i] ELSE y[i - Len(x)]
  BY ConcatProperties
<1>. HIDE DEF z
<1>2. Len(x) \in Nat /\ Len(y) \in Nat
  OBVIOUS
<1>3. \A i \in 1 .. Len(x) : i \in 1 .. Len(x) + Len(y) /\ i <= Len(x)
  BY <1>2
<1>4. \A i \in 1 .. Len(y) :
        /\ Len(x) + i \in 1 .. Len(x) + Len(y) /\ ~ (Len(x) + i <= Len(x)) /\ (Len(x) + i) - Len(x) = i
  BY <1>2
<1>5. ConcatAt(x, y, z)
  BY <1>1, <1>3, <1>4 DEF ConcatAt
<1>. QED
  BY <1>1, <1>5 DEF z

LEMMA EchoIs ==
  ASSUME NEW s \in Seq(Alphabet)
  PROVE  Echo(s) \in Seq(Alphabet) /\ EchoAt(Echo(s), s, Len(s))
<1>0. PICK n \in Nat : n = Len(s)
  OBVIOUS
<1>1. PICK A \in Seq(Alphabet) : A = <<"0", " ">> \o Bars
  <2>1. <<"0", " ">> \in Seq(Alphabet)
    BY AlphabetHas, Short
  <2>. QED
    BY <2>1, AlphabetHas, ConcatIs
<1>2. /\ Len(A) = 6
      /\ A[1] = "0" /\ A[2] = " " /\ A[3] = "|" /\ A[4] = "|" /\ A[5] = "|" /\ A[6] = " "
  <2>1. PICK z \in Seq(Alphabet) : z = <<"0", " ">> /\ Len(z) = 2 /\ z[1] = "0" /\ z[2] = " "
    <3>1. <<"0", " ">> \in Seq(Alphabet)
      BY AlphabetHas, Short
    <3>. QED
      BY <3>1
  <2>2. ConcatAt(z, Bars, A)
    BY <1>1, <2>1, AlphabetHas, ConcatIs
  <2>3. /\ Len(A) = 2 + 4
        /\ \A i \in 1 .. 2 : A[i] = z[i]
        /\ \A i \in 1 .. 4 : A[2 + i] = Bars[i]
    BY <2>1, <2>2, AlphabetHas DEF ConcatAt
  <2>4. /\ 1 \in 1 .. 2 /\ 2 \in 1 .. 2
        /\ 1 \in 1 .. 4 /\ 2 \in 1 .. 4 /\ 3 \in 1 .. 4 /\ 4 \in 1 .. 4
        /\ 2 + 1 = 3 /\ 2 + 2 = 4 /\ 2 + 3 = 5 /\ 2 + 4 = 6
    OBVIOUS
  <2>. QED
    BY <2>1, <2>3, <2>4, AlphabetHas
<1>3. PICK B \in Seq(Alphabet) : B = A \o s
  BY ConcatProperties
<1>4. /\ Len(B) = 6 + n
      /\ \A i \in 1 .. 6 : B[i] = A[i]
      /\ \A i \in 1 .. n : B[6 + i] = s[i]
  <2>8. ConcatAt(A, s, B)
    BY <1>3, ConcatIs
  <2>. QED
    BY <2>8, <1>0, <1>2 DEF ConcatAt
<1>5. PICK e \in Seq(Alphabet) : e = <<" ">> /\ Len(e) = 1 /\ e[1] = " "
  <2>1. <<" ">> \in Seq(Alphabet)
    BY AlphabetHas, Short
  <2>. QED
    BY <2>1
<1>6. PICK D \in Seq(Alphabet) : D = B \o e
  BY ConcatProperties
<1>7. Len(D) = (6 + n) + 1 /\ (\A i \in 1 .. 6 + n : D[i] = B[i]) /\ D[(6 + n) + 1] = " "
  <2>1. 1 \in 1 .. 1
    OBVIOUS
  <2>8. ConcatAt(B, e, D)
    BY <1>6, ConcatIs
  <2>. QED
    BY <2>8, <1>4, <1>5, <2>1 DEF ConcatAt
<1>8. PICK E \in Seq(Alphabet) : E = D \o Bars
  BY AlphabetHas, ConcatProperties
<1>9. PICK m \in Nat : m = n + 7
  OBVIOUS
<1>10. /\ Len(E) = m + 4
       /\ \A i \in 1 .. m : E[i] = D[i]
       /\ E[m + 1] = "|" /\ E[m + 2] = "|" /\ E[m + 3] = "|" /\ E[m + 4] = " "
  <2>1. Len(D) = m
    <3>1. Len(D) = (6 + n) + 1
      BY <1>7
    <3>2. (6 + n) + 1 = n + 7
      OBVIOUS
    <3>. QED
      BY <1>9, <3>1, <3>2
  <2>2. 1 \in 1 .. 4 /\ 2 \in 1 .. 4 /\ 3 \in 1 .. 4 /\ 4 \in 1 .. 4
    OBVIOUS
  <2>3. /\ Len(E) = m + Len(Bars)
        /\ \A i \in 1 .. m : E[i] = D[i]
        /\ \A i \in 1 .. Len(Bars) : E[m + i] = Bars[i]
    <3>1. ConcatAt(D, Bars, E)
      BY <1>8, AlphabetHas, ConcatIs
    <3>. QED
      BY <2>1, <3>1 DEF ConcatAt
  <2>. QED
    BY <2>2, <2>3, AlphabetHas
<1>11. PICK G \in Seq(Alphabet) : G = <<"F", " ">> /\ Len(G) = 2
  <2>1. <<"F", " ">> \in Seq(Alphabet)
    BY AlphabetHas, Short
  <2>. QED
    BY <2>1
<1>12. PICK H \in Seq(Alphabet) : H = <<"1">> /\ Len(H) = 1
  <2>1. <<"1">> \in Seq(Alphabet)
    BY AlphabetHas, Short
  <2>. QED
    BY <2>1
<1>13. PICK X \in Seq(Alphabet) : X = E \o G
  BY ConcatProperties
<1>14. Len(X) = m + 6 /\ \A i \in 1 .. m + 4 : X[i] = E[i]
  <2>1. (m + 4) + 2 = m + 6
    OBVIOUS
  <2>8. ConcatAt(E, G, X)
    BY <1>13, ConcatIs
  <2>. QED
    BY <2>8, <1>10, <1>11, <2>1 DEF ConcatAt
<1>15. PICK Y \in Seq(Alphabet) : Y = X \o Bars
  BY AlphabetHas, ConcatProperties
<1>16. Len(Y) = m + 10 /\ \A i \in 1 .. m + 6 : Y[i] = X[i]
  <2>1. (m + 6) + 4 = m + 10
    OBVIOUS
  <2>8. ConcatAt(X, Bars, Y)
    BY <1>15, AlphabetHas, ConcatIs
  <2>. QED
    BY <2>8, <1>14, <2>1, AlphabetHas DEF ConcatAt
<1>17. PICK Z \in Seq(Alphabet) : Z = Y \o H
  BY ConcatProperties
<1>18. Len(Z) = m + 11 /\ \A i \in 1 .. m + 10 : Z[i] = Y[i]
  <2>1. (m + 10) + 1 = m + 11
    OBVIOUS
  <2>8. ConcatAt(Y, H, Z)
    BY <1>17, ConcatIs
  <2>. QED
    BY <2>8, <1>12, <1>16, <2>1 DEF ConcatAt
<1>19. Echo(s) = Z
  BY <1>1, <1>3, <1>5, <1>6, <1>8, <1>11, <1>12, <1>13, <1>15, <1>17 DEF Echo
<1>20. \A i \in 1 .. m + 4 : Z[i] = E[i]
  <2>1. \A i \in 1 .. m + 4 : i \in 1 .. m + 6 /\ i \in 1 .. m + 10
    OBVIOUS
  <2>. QED
    BY <1>14, <1>16, <1>18, <2>1
<1>100. \A i \in 1 .. 6 + n : Z[i] = B[i]
  <2>1. \A i \in 1 .. 6 + n : i \in 1 .. m + 4 /\ i \in 1 .. m
    BY <1>9
  <2>2. \A i \in 1 .. 6 + n : Z[i] = E[i] /\ E[i] = D[i] /\ D[i] = B[i]
    BY <1>7, <1>10, <1>20, <2>1
  <2>. QED
    BY <2>2
<1>21. \A i \in 1 .. 6 : Z[i] = A[i]
  <2>1. \A i \in 1 .. 6 : i \in 1 .. 6 + n
    OBVIOUS
  <2>. QED
    BY <1>4, <1>100, <2>1
<1>22. \A i \in 1 .. n : Z[6 + i] = s[i]
  <2>1. \A i \in 1 .. n : 6 + i \in 1 .. 6 + n
    OBVIOUS
  <2>. QED
    BY <1>4, <1>100, <2>1
<1>23. Z[n + 7] = " "
  <2>1. (6 + n) + 1 = n + 7 /\ n + 7 \in 1 .. m /\ n + 7 \in 1 .. m + 4
    BY <1>9
  <2>. QED
    BY <1>7, <1>10, <1>20, <2>1
<1>24. Z[n + 8] = "|" /\ Z[n + 9] = "|" /\ Z[n + 10] = "|" /\ Z[n + 11] = " "
  <2>1. m + 1 = n + 8 /\ m + 2 = n + 9 /\ m + 3 = n + 10 /\ m + 4 = n + 11
    BY <1>9
  <2>2. m + 1 \in 1 .. m + 4 /\ m + 2 \in 1 .. m + 4 /\ m + 3 \in 1 .. m + 4 /\ m + 4 \in 1 .. m + 4
    OBVIOUS
  <2>. QED
    BY <1>10, <1>20, <2>1, <2>2
<1>25. Z[1] = "0" /\ Z[2] = " " /\ Z[3] = "|" /\ Z[4] = "|" /\ Z[5] = "|" /\ Z[6] = " "
  <2>1. 1 \in 1 .. 6 /\ 2 \in 1 .. 6 /\ 3 \in 1 .. 6 /\ 4 \in 1 .. 6 /\ 5 \in 1 .. 6 /\ 6 \in 1 .. 6
    OBVIOUS
  <2>. QED
    BY <1>2, <1>21, <2>1
<1>26. Len(Z) = n + 18
  <2>1. m + 11 = n + 18
    BY <1>9
  <2>. QED
    BY <1>18, <2>1
<1>27. EchoAt(Z, s, n)
  BY <1>22, <1>23, <1>24, <1>25, <1>26 DEF EchoAt
<1>. QED
  BY <1>0, <1>19, <1>27

RoundPieces(s, t, w) ==
  /\ w = <<>> => t.pieces = s.pieces
  /\ w # <<>> => t.pieces = Append(s.pieces, w)

LEMMA RoundGives ==
  ASSUME NEW line, NEW del, NEW s, NEW p, NEW w, NEW t, RoundTo(line, del, s, p, w, t)
  PROVE  RoundPieces(s, t, w)
BY DEF RoundTo, RoundPieces

LEMMA AppendTwo ==
  ASSUME NEW S
  PROVE  \A a, b \in S : Append(<<>>, a) = <<a>> /\ Append(<<a>>, b) = <<a, b>>
<1>. SUFFICES ASSUME NEW a \in S, NEW b \in S
              PROVE  Append(<<>>, a) = <<a>> /\ Append(<<a>>, b) = <<a, b>>
  OBVIOUS
<1>1. <<>> \in Seq(S) /\ <<a>> \in Seq(S) /\ <<a, b>> \in Seq(S)
  OBVIOUS
<1>2. Append(<<>>, a) = <<a>>
  OBVIOUS
<1>3. Append(<<a>>, b) = <<a, b>>
  <2>1. PICK x \in Seq(S) : x = <<a>> /\ Len(x) = 1 /\ x[1] = a
    BY Short
  <2>2. PICK y \in Seq(S) : y = <<a, b>> /\ Len(y) = 2 /\ y[1] = a /\ y[2] = b
    <3>1. /\ <<a, b>> \in Seq(S) /\ Len(<<a, b>>) = 2
          /\ (<<a, b>>)[1] = a /\ (<<a, b>>)[2] = b
      BY Short, Zenon
    <3>2. PICK y : y = <<a, b>>
      OBVIOUS
    <3>3. y \in Seq(S) /\ Len(y) = 2 /\ y[1] = a /\ y[2] = b
      BY <3>1, <3>2, Zenon
    <3>. QED
      BY <3>2, <3>3, Zenon
  <2>3. PICK z \in Seq(S) : z = Append(x, b)
    BY AppendProperties
  <2>4. Len(z) = 1 + 1 /\ z[1] = a /\ z[1 + 1] = b
    <3>1. 1 \in 1 .. 1
      OBVIOUS
    <3>. QED
      BY <2>1, <2>3, <3>1, AppendProperties
  <2>5. \A i \in 1 .. 2 : z[i] = y[i]
    <3>1. \A i \in 1 .. 2 : i = 1 \/ i = 2
      OBVIOUS
    <3>. QED
      BY <2>2, <2>4, <3>1
  <2>6. z = y
    BY <2>2, <2>4, <2>5, SeqEqual
  <2>. QED
    BY <2>1, <2>2, <2>3, <2>6
<1>. QED
  BY <1>2, <1>3

LEMMA EchoSplit ==
  ASSUME NEW s \in Seq(Alphabet), NoField(s)
  PROVE  Split(Echo(s), Bars)[2] = s \o <<Space>>
<1>0. PICK n \in Nat : n = Len(s)
  OBVIOUS
<1>1. PICK line \in Seq(Alphabet) : line = Echo(s) /\ EchoAt(line, s, n)
  BY <1>0, EchoIs
<1>2. PICK L \in Nat : L = Len(line) /\ L = n + 18
  <2>1. Len(line) = n + 18 /\ Len(line) \in Nat
    <3>1. Len(line) = n + 18
      BY <1>1, Zenon DEF EchoAt
    <3>. QED
      BY <3>1
  <2>. QED
    BY <2>1
<1>100. Bars \in Seq(Alphabet) /\ Len(Bars) = 4
  BY AlphabetHas
<1>3. PICK f : Rounds(f, line, Bars, Alphabet)
  BY AlphabetHas, SplitUnfolds
<1>4. /\ f[0] = [begin |-> 1, pieces |-> <<>>]
      /\ \A k \in 0 .. L : f[k] \in States(Alphabet)
      /\ \A k \in 1 .. L : f[k] = Round(line, Bars, f[k - 1])
      /\ Split(line, Bars) = f[L].pieces
  BY <1>2, <1>3 DEF Rounds
<1>5. ASSUME NEW k \in 1 .. L
      PROVE  \E p \in Nat, w \in Seq(Alphabet) :
               RoundTo(line, Bars, f[k - 1], p, w, f[k]) /\ RoundPieces(f[k - 1], f[k], w)
  <2>1. k - 1 \in 0 .. L
    OBVIOUS
  <2>2. PICK t \in States(Alphabet) : t = f[k - 1]
    BY <1>4, <2>1
  <2>3. f[k] = Round(line, Bars, t)
    BY <1>4, <2>2
  <2>4. PICK p \in Nat, w \in Seq(Alphabet) : RoundTo(line, Bars, t, p, w, Round(line, Bars, t))
    BY <1>100, RoundIs
  <2>5. RoundPieces(t, Round(line, Bars, t), w)
    BY <2>4, RoundGives
  <2>. QED
    BY <2>2, <2>3, <2>4, <2>5
<1>6. Find(line, Bars, 1) = 3
  <2>1. At(line, Bars, 3)
    <3>1. 3 \in Nat \ {0} /\ 3 + 3 <= Len(line) /\ 3 + 1 = 4 /\ 3 + 2 = 5 /\ 3 + 3 = 6
      BY <1>2
    <3>2. BarsAt(line, 3)
      BY <1>1, <3>1 DEF EchoAt, BarsAt
    <3>3. PICK q \in Nat \ {0} : q = 3
      OBVIOUS
    <3>4. At(line, Bars, q) <=> BarsAt(line, q)
      BY <3>1, <3>3, AtBars
    <3>. QED
      BY <3>2, <3>3, <3>4
  <2>2. \A q \in 1 .. 3 - 1 : ~ At(line, Bars, q)
    <3>. SUFFICES ASSUME NEW q \in 1 .. 2 PROVE ~ At(line, Bars, q)
      OBVIOUS
    <3>1. q \in Nat \ {0} /\ q + 3 <= Len(line) /\ (q = 1 \/ q = 2)
      BY <1>2
    <3>2. line[q] # "|"
      BY <1>1, <3>1 DEF EchoAt
    <3>. QED
      BY <3>1, <3>2, AtBars DEF BarsAt
  <2>3. 1 \in Nat \ {0} /\ 3 \in Nat /\ 1 <= 3 /\ 3 <= Len(line) - Len(Bars) + 1
    <3>1. Len(line) - Len(Bars) + 1 = n + 15
      BY <1>2, <1>100
    <3>. QED
      BY <3>1
  <2>. QED
    BY <1>100, <2>1, <2>2, <2>3, FindMeets
<1>7. PICK v \in Seq(Alphabet) : f[1] = [begin |-> 7, pieces |-> <<v>>]
  <2>1. 1 \in 1 .. L /\ 1 - 1 = 0 /\ 3 + 4 = 7
    BY <1>2
  <2>2. PICK p \in Nat, w \in Seq(Alphabet) : 
          RoundTo(line, Bars, f[0], p, w, f[1]) /\ RoundPieces(f[0], f[1], w)
    BY <1>5, <2>1
  <2>3. f[0].begin = 1 /\ f[0].pieces = <<>>
    BY <1>4
  <2>4. p = 3
    BY <1>6, <2>2, <2>3 DEF RoundTo
  <2>5. w = SubSeq(line, 1, 2)
    <3>1. 3 - 1 = 2
      OBVIOUS
    <3>. QED
      BY <2>2, <2>3, <2>4, <3>1 DEF RoundTo
  <2>6. w # <<>>
    <3>1. \A i \in 1 .. 2 : line[i] \in Alphabet
      <4>1. \A i \in 1 .. 2 : i \in 1 .. L
        BY <1>2
      <4>2. \A i \in 1 .. L : line[i] \in Alphabet
        BY <1>2, ElementOfSeq
      <4>. QED
        BY <4>1, <4>2
    <3>2. Len(w) = IF 1 <= 2 THEN 2 - 1 + 1 ELSE 0
      BY <2>5, <3>1, SubSeqProperties
    <3>3. Len(w) = 2
      BY <3>2
    <3>. QED
      BY <3>3
  <2>7. Append(<<>>, w) = <<w>>
    BY AppendTwo
  <2>8. f[1] = [begin |-> p + Len(Bars), pieces |-> Append(f[0].pieces, w)]
    BY <2>2, <2>6 DEF RoundTo
  <2>9. f[1] = [begin |-> 7, pieces |-> <<w>>]
    BY <2>1, <2>3, <2>4, <2>7, <2>8, AlphabetHas
  <2>. QED
    BY <2>9
<1>8. Find(line, Bars, 7) = n + 8
  <2>1. At(line, Bars, n + 8)
    <3>1. /\ n + 8 \in Nat \ {0} /\ (n + 8) + 3 <= Len(line)
          /\ (n + 8) + 1 = n + 9 /\ (n + 8) + 2 = n + 10 /\ (n + 8) + 3 = n + 11
      BY <1>2
    <3>2. BarsAt(line, n + 8)
      BY <1>1, <3>1 DEF EchoAt, BarsAt
    <3>3. PICK q \in Nat \ {0} : q = n + 8
      BY <3>1
    <3>4. At(line, Bars, q) <=> BarsAt(line, q)
      BY <3>1, <3>3, AtBars
    <3>. QED
      BY <3>2, <3>3, <3>4
  <2>2. ASSUME NEW q \in 7 .. (n + 8) - 1 PROVE ~ At(line, Bars, q)
    <3>1. q \in Nat \ {0} /\ q + 3 <= Len(line)
      BY <1>2
    <3>2. SUFFICES ASSUME line[q] = "|", line[q + 1] = "|", line[q + 2] = "|", line[q + 3] = " "
                   PROVE  FALSE
      BY <3>1, AtBars DEF BarsAt
    <3>3. PICK i \in 1 .. n + 1 : q = 6 + i
      <4>1. q - 6 \in 1 .. n + 1 /\ q = 6 + (q - 6)
        OBVIOUS
      <4>. QED
        BY <4>1
    <3>4. q # n + 7 /\ q + 1 # n + 7 /\ q + 2 # n + 7
      BY <1>1, <3>2 DEF EchoAt
    <3>5. /\ i \in 1 .. n - 2 /\ i \in 1 .. n /\ i + 1 \in 1 .. n /\ i + 2 \in 1 .. n
          /\ q + 1 = 6 + (i + 1) /\ q + 2 = 6 + (i + 2) /\ q + 3 = 6 + (i + 3)
      BY <3>3, <3>4
    <3>6. s[i] = "|" /\ s[i + 1] = "|" /\ s[i + 2] = "|"
      <4>1. \A k \in 1 .. n : line[6 + k] = s[k]
        BY <1>1 DEF EchoAt
      <4>2. line[6 + i] = s[i] /\ line[6 + (i + 1)] = s[i + 1] /\ line[6 + (i + 2)] = s[i + 2]
        BY <3>5, <4>1
      <4>. QED
        BY <3>2, <3>3, <3>5, <4>2
    <3>7. i + 2 < n /\ s[i + 3] # Space
      BY <1>0, <3>5, <3>6 DEF NoField
    <3>8. i + 3 \in 1 .. n
      BY <3>5, <3>7
    <3>9. line[6 + (i + 3)] = s[i + 3]
      BY <1>1, <3>8 DEF EchoAt
    <3>. QED
      BY <3>2, <3>5, <3>7, <3>9 DEF Space
  <2>3. 7 \in Nat \ {0} /\ n + 8 \in Nat /\ 7 <= n + 8 /\ n + 8 <= Len(line) - Len(Bars) + 1
    <3>1. Len(line) - Len(Bars) + 1 = n + 15
      BY <1>2, <1>100
    <3>. QED
      BY <3>1
  <2>4. \A q \in 7 .. (n + 8) - 1 : ~ At(line, Bars, q)
    BY <2>2
  <2>. QED
    BY <1>100, <2>1, <2>3, <2>4, FindMeets
<1>9. PICK u \in Seq(Alphabet) : /\ u = s \o <<Space>> /\ Len(u) = n + 1
                                 /\ \A i \in 1 .. n : u[i] = s[i]
                                 /\ u[n + 1] = Space
  <2>1. PICK e \in Seq(Alphabet) : e = <<Space>> /\ Len(e) = 1 /\ e[1] = Space
    <3>1. <<Space>> \in Seq(Alphabet)
      BY AlphabetHas, Short
    <3>. QED
      BY <3>1
  <2>2. s \o e \in Seq(Alphabet) /\ ConcatAt(s, e, s \o e)
    BY ConcatIs
  <2>3. 1 \in 1 .. 1
    OBVIOUS
  <2>4. Len(s \o e) = n + 1 /\ (\A i \in 1 .. n : (s \o e)[i] = s[i]) /\ (s \o e)[n + 1] = Space
    BY <1>0, <2>1, <2>2, <2>3 DEF ConcatAt
  <2>. QED
    BY <2>1, <2>2, <2>4
<1>10. SubSeq(line, 7, n + 7) = u
  <2>1. 6 \in Nat /\ 6 + Len(u) <= Len(line) /\ 6 + 1 = 7 /\ 6 + Len(u) = n + 7
    BY <1>2, <1>9
  <2>2. ASSUME NEW i \in 1 .. Len(u) PROVE line[6 + i] = u[i]
    <3>1. CASE i = n + 1
      <4>1. 6 + i = n + 7
        BY <3>1
      <4>2. line[n + 7] = " "
        BY <1>1 DEF EchoAt
      <4>. QED
        BY <1>9, <3>1, <4>1, <4>2 DEF Space
    <3>2. CASE i # n + 1
      <4>1. i \in 1 .. n
        BY <1>9, <3>2
      <4>2. line[6 + i] = s[i]
        BY <1>1, <4>1 DEF EchoAt
      <4>. QED
        BY <1>9, <4>1, <4>2
    <3>. QED
      BY <3>1, <3>2
  <2>3. SubSeq(line, 6 + 1, 6 + Len(u)) = u
    BY <2>1, <2>2, Middle
  <2>. QED
    BY <2>1, <2>3
<1>11. f[2].pieces = <<v, u>>
  <2>1. 2 \in 1 .. L /\ 2 - 1 = 1
    BY <1>2
  <2>2. PICK p \in Nat, w \in Seq(Alphabet) : 
          RoundTo(line, Bars, f[1], p, w, f[2]) /\ RoundPieces(f[1], f[2], w)
    BY <1>5, <2>1
  <2>3. f[1].begin = 7 /\ f[1].pieces = <<v>>
    BY <1>7
  <2>4. p = n + 8
    BY <1>8, <2>2, <2>3 DEF RoundTo
  <2>5. w = u
    <3>1. (n + 8) - 1 = n + 7
      OBVIOUS
    <3>. QED
      BY <1>10, <2>2, <2>3, <2>4, <3>1 DEF RoundTo
  <2>6. w # <<>>
    BY <1>9, <2>5
  <2>7. Append(<<v>>, w) = <<v, w>>
    BY AppendTwo
  <2>8. f[2].pieces = Append(f[1].pieces, w)
    BY <2>2, <2>6 DEF RoundPieces
  <2>. QED
    BY <2>3, <2>5, <2>7, <2>8
<1>. DEFINE T == {k \in 2 .. L : Len(f[k].pieces) >= 2 /\ f[k].pieces[2] = u}
<1>12. 2 \in T
  <2>1. 2 \in 2 .. L
    BY <1>2
  <2>2. PICK x : x = f[2].pieces
    OBVIOUS
  <2>3. Len(x) = 2 /\ x[2] = u
    <3>1. Len(<<v, u>>) = 2 /\ (<<v, u>>)[2] = u
      BY Short, Zenon
    <3>. QED
      BY <1>11, <2>2, <3>1, Zenon
  <2>. QED
    BY <2>1, <2>2, <2>3
<1>13. \A k \in 2 .. L - 1 : k \in T => k + 1 \in T
  <2>. SUFFICES ASSUME NEW k \in 2 .. L - 1, k \in T PROVE k + 1 \in T
    OBVIOUS
  <2>1. k + 1 \in 2 .. L /\ k + 1 \in 1 .. L /\ k \in 0 .. L /\ (k + 1) - 1 = k
    OBVIOUS
  <2>2. PICK p \in Nat, w \in Seq(Alphabet) : 
          RoundTo(line, Bars, f[k], p, w, f[k + 1]) /\ RoundPieces(f[k], f[k + 1], w)
    BY <1>5, <2>1
  <2>3. PICK q \in Seq(Seq(Alphabet)) : q = f[k].pieces /\ Len(q) >= 2 /\ q[2] = u
    BY <1>4, <2>1 DEF States
  <2>4. f[k + 1].pieces = q \/ f[k + 1].pieces = Append(q, w)
    BY <2>2, <2>3 DEF RoundPieces
  <2>5. Len(Append(q, w)) = Len(q) + 1 /\ \A i \in 1 .. Len(q) : Append(q, w)[i] = q[i]
    BY AppendProperties
  <2>6. 2 \in 1 .. Len(q) /\ Len(q) + 1 >= 2
    BY <2>3
  <2>. QED
    BY <2>1, <2>3, <2>4, <2>5, <2>6
<1>14. L \in T
  <2>1. L \in 2 .. L /\ 2 \in Nat
    BY <1>2
  <2>. HIDE DEF T
  <2>. QED
    BY <1>12, <1>13, <2>1, Induction
<1>. QED
  BY <1>1, <1>4, <1>9, <1>14

-----------------------------------------------------------------------------
(* Pieces that end no field make sentences that end none.                    *)

Spaced(x, y, z) ==
  /\ Len(z) = Len(x) + 1 + Len(y)
  /\ \A i \in 1 .. Len(x) : z[i] = x[i]
  /\ z[Len(x) + 1] = Space
  /\ \A i \in 1 .. Len(y) : z[Len(x) + 1 + i] = y[i]

LEMMA SpacedOut ==
  ASSUME NEW C, Space \in C, NEW x \in Seq(C), NEW y \in Seq(C)
  PROVE  x \o (<<Space>> \o y) \in Seq(C) /\ Spaced(x, y, x \o (<<Space>> \o y))
<1>1. PICK e \in Seq(C) : e = <<Space>> /\ Len(e) = 1 /\ e[1] = Space
  <2>1. <<Space>> \in Seq(C) /\ Len(<<Space>>) = 1 /\ (<<Space>>)[1] = Space
    BY Short
  <2>. QED
    BY <2>1
<1>2. PICK u \in Seq(C) : u = e \o y /\ ConcatAt(e, y, u)
  <2>1. e \o y \in Seq(C) /\ ConcatAt(e, y, e \o y)
    BY ConcatIs
  <2>. QED
    BY <2>1
<1>3. PICK z \in Seq(C) : z = x \o u /\ ConcatAt(x, u, z)
  <2>1. x \o u \in Seq(C) /\ ConcatAt(x, u, x \o u)
    BY ConcatIs
  <2>. QED
    BY <2>1
<1>4. PICK k \in Nat : k = Len(x)
  OBVIOUS
<1>5. PICK m \in Nat : m = Len(y)
  OBVIOUS
<1>6. Len(u) = 1 + m /\ u[1] = Space /\ \A i \in 1 .. m : u[1 + i] = y[i]
  <2>1. 1 \in 1 .. 1
    OBVIOUS
  <2>. QED
    BY <1>1, <1>2, <1>5, <2>1 DEF ConcatAt
<1>7. Len(z) = k + (1 + m) /\ (\A i \in 1 .. k : z[i] = x[i]) /\ \A i \in 1 .. 1 + m : z[k + i] = u[i]
  BY <1>3, <1>4, <1>6 DEF ConcatAt
<1>8. z[k + 1] = Space
  <2>1. 1 \in 1 .. 1 + m
    OBVIOUS
  <2>. QED
    BY <1>6, <1>7, <2>1
<1>9. \A i \in 1 .. m : z[k + 1 + i] = y[i]
  <2>1. \A i \in 1 .. m : 1 + i \in 1 .. 1 + m /\ k + (1 + i) = k + 1 + i
    OBVIOUS
  <2>2. \A i \in 1 .. m : z[k + (1 + i)] = u[1 + i]
    BY <1>7, <2>1
  <2>. QED
    BY <1>6, <2>1, <2>2
<1>10. Len(z) = k + 1 + m
  BY <1>7
<1>11. Spaced(x, y, z)
  BY <1>4, <1>5, <1>7, <1>8, <1>9, <1>10 DEF Spaced
<1>. QED
  BY <1>1, <1>2, <1>3, <1>11

LEMMA SpacedNoField ==
  ASSUME NEW C, NEW x \in Seq(C), NEW y \in Seq(C), NEW z \in Seq(C), Spaced(x, y, z),
         NoField(x), NoField(y)
  PROVE  NoField(z)
<1>1. PICK k \in Nat : k = Len(x)
  OBVIOUS
<1>2. PICK m \in Nat : m = Len(y)
  OBVIOUS
<1>3. /\ Len(z) = k + 1 + m
      /\ \A i \in 1 .. k : z[i] = x[i]
      /\ z[k + 1] = Space
      /\ \A i \in 1 .. m : z[k + 1 + i] = y[i]
  BY <1>1, <1>2 DEF Spaced
<1>4. SUFFICES ASSUME NEW p \in 1 .. k + 1 + m - 2, z[p] = "|", z[p + 1] = "|", z[p + 2] = "|"
               PROVE  p + 2 < k + 1 + m /\ z[p + 3] # Space
  BY <1>3 DEF NoField
<1>5. p # k + 1 /\ p + 1 # k + 1 /\ p + 2 # k + 1
  BY <1>3, <1>4 DEF Space
<1>6. CASE p + 2 < k + 1
  <2>1. p \in 1 .. k - 2 /\ p \in 1 .. k /\ p + 1 \in 1 .. k /\ p + 2 \in 1 .. k
    BY <1>6
  <2>2. x[p] = "|" /\ x[p + 1] = "|" /\ x[p + 2] = "|"
    BY <1>3, <1>4, <2>1
  <2>3. p + 2 < k /\ x[p + 3] # Space
    BY <1>1, <2>1, <2>2 DEF NoField
  <2>4. p + 3 \in 1 .. k
    BY <2>1, <2>3
  <2>. QED
    BY <1>3, <2>3, <2>4
<1>7. CASE p > k + 1
  <2>1. PICK q \in 1 .. m - 2 : p = k + 1 + q
    <3>1. p - (k + 1) \in 1 .. m - 2 /\ p = k + 1 + (p - (k + 1))
      BY <1>7
    <3>. QED
      BY <3>1
  <2>2. /\ q \in 1 .. m /\ q + 1 \in 1 .. m /\ q + 2 \in 1 .. m
        /\ p + 1 = k + 1 + (q + 1) /\ p + 2 = k + 1 + (q + 2) /\ p + 3 = k + 1 + (q + 3)
    BY <2>1
  <2>3. y[q] = "|" /\ y[q + 1] = "|" /\ y[q + 2] = "|"
    <3>1. /\ z[k + 1 + q] = y[q] /\ z[k + 1 + (q + 1)] = y[q + 1]
          /\ z[k + 1 + (q + 2)] = y[q + 2]
      BY <1>3, <2>2
    <3>. QED
      BY <1>4, <2>1, <2>2, <3>1
  <2>4. q + 2 < m /\ y[q + 3] # Space
    BY <1>2, <2>1, <2>3 DEF NoField
  <2>5. q + 3 \in 1 .. m
    BY <2>1, <2>4
  <2>6. z[k + 1 + (q + 3)] = y[q + 3]
    BY <1>3, <2>5
  <2>7. p + 2 < k + 1 + m
    BY <2>1, <2>4
  <2>8. z[p + 3] = z[k + 1 + (q + 3)]
    BY <2>2
  <2>. QED
    BY <2>4, <2>6, <2>7, <2>8
<1>. QED
  BY <1>5, <1>6, <1>7

Clean == {w \in Words(Alphabet) : NoField(w)}

LEMMA CleanJoin == \A ws \in Seq(Clean) : NoField(Join(ws, <<Space>>))
<1>. DEFINE T == {ws \in Seq(Clean) : NoField(Join(ws, <<Space>>))}
<1>0. Clean \subseteq Seq(Alphabet)
  <2>. SUFFICES ASSUME NEW w \in Words(Alphabet) PROVE w \in Seq(Alphabet)
    BY DEF Clean
  <2>. QED
    BY SeqMonotonic DEF Words
<1>1. /\ Join(<<>>, <<Space>>) = <<>>
      /\ \A vs \in Seq(Seq(Alphabet)) : Join(vs, <<Space>>) \in Seq(Alphabet)
      /\ \A vs \in Seq(Seq(Alphabet)), w \in Seq(Alphabet) :
           /\ vs = <<>> => Join(Append(vs, w), <<Space>>) = w
           /\ vs # <<>> => Join(Append(vs, w), <<Space>>) = Join(vs, <<Space>>) \o (<<Space>> \o w)
  BY AlphabetHas, JoinSpace DEF JoinsBy
<1>2. <<>> \in T
  <2>1. NoField(<<>>)
    BY DEF NoField
  <2>2. <<>> \in Seq(Clean)
    OBVIOUS
  <2>. QED
    BY <1>1, <2>1, <2>2
<1>3. ASSUME NEW ws \in Seq(Clean), NEW w \in Clean, ws \in T PROVE Append(ws, w) \in T
  <2>1. ws \in Seq(Seq(Alphabet)) /\ w \in Seq(Alphabet) /\ NoField(w)
    BY <1>0, SeqMonotonic DEF Clean
  <2>2. Append(ws, w) \in Seq(Clean)
    BY AppendProperties
  <2>3. NoField(Join(ws, <<Space>>))
    BY <1>3
  <2>4. PICK J \in Seq(Alphabet) : J = Join(ws, <<Space>>)
    BY <1>1, <2>1
  <2>5. CASE ws = <<>>
    <3>1. Join(Append(ws, w), <<Space>>) = w
      BY <1>1, <2>1, <2>5
    <3>. QED
      BY <2>1, <2>2, <3>1
  <2>6. CASE ws # <<>>
    <3>1. Join(Append(ws, w), <<Space>>) = J \o (<<Space>> \o w)
      BY <1>1, <2>1, <2>4, <2>6
    <3>2. PICK z \in Seq(Alphabet) : z = J \o (<<Space>> \o w) /\ Spaced(J, w, z)
      <4>1. J \o (<<Space>> \o w) \in Seq(Alphabet) /\ Spaced(J, w, J \o (<<Space>> \o w))
        BY <2>1, AlphabetHas, SpacedOut
      <4>. QED
        BY <4>1
    <3>3. NoField(z)
      BY <2>1, <2>3, <2>4, <3>2, SpacedNoField
    <3>. QED
      BY <2>2, <3>1, <3>2, <3>3
  <2>. QED
    BY <2>5, <2>6
<1>4. \A ws \in Seq(Clean) : ws \in T
  <2>. HIDE DEF T
  <2>. QED
    BY <1>2, <1>3, SeqInduction
<1>. QED
  BY <1>4

LEMMA TokensClean == Tokens \subseteq Clean
<1>. SUFFICES ASSUME NEW t \in Tokens PROVE t \in Clean
  OBVIOUS
<1>1. t \in Seq(Characters \ {Space}) /\ t # <<>>
  BY PiecesAssumption
<1>2. t \in Words(Alphabet)
  <2>1. Characters \ {Space} \subseteq Alphabet \ {Space}
    BY DEF Alphabet
  <2>2. t \in Seq(Alphabet \ {Space})
    BY <1>1, <2>1, SeqMonotonic
  <2>. QED
    BY <1>1, <2>2 DEF Words
<1>3. PICK n \in Nat : n = Len(t)
  BY <1>1
<1>4. ASSUME NEW p \in 1 .. n - 2, t[p] = "|", t[p + 1] = "|", t[p + 2] = "|"
      PROVE  p + 2 < n /\ t[p + 3] # Space
  <2>1. CASE p + 2 = n
    <3>1. PICK b \in Seq({"|"}) : b = <<"|", "|", "|">> /\ Len(b) = 3 /\ b[1] = "|" /\ b[2] = "|" /\ b[3] = "|"
      <4>1. \A S : \A a \in S : /\ <<a, a, a>> \in Seq(S) /\ Len(<<a, a, a>>) = 3
                               /\ (<<a, a, a>>)[1] = a /\ (<<a, a, a>>)[2] = a /\ (<<a, a, a>>)[3] = a
        OBVIOUS
      <4>2. "|" \in {"|"}
        OBVIOUS
      <4>. QED
        BY <4>1, <4>2
    <3>2. PICK u : u = SubSeq(t, p, p + 2)
      OBVIOUS
    <3>3. /\ u \in Seq({"|"})
          /\ Len(u) = IF p <= p + 2 THEN (p + 2) - p + 1 ELSE 0
          /\ \A i \in 1 .. (p + 2) - p + 1 : u[i] = t[p + i - 1]
      <4>1. \A i \in p .. p + 2 : t[i] \in {"|"}
        <5>1. \A i \in p .. p + 2 : i = p \/ i = p + 1 \/ i = p + 2
          OBVIOUS
        <5>. QED
          BY <1>4, <5>1
      <4>2. p \in Int /\ p + 2 \in Int
        OBVIOUS
      <4>. QED
        BY <3>2, <4>1, <4>2, SubSeqProperties
    <3>4. Len(u) = 3
      BY <3>3
    <3>5. \A i \in 1 .. 3 : u[i] = "|" /\ b[i] = "|"
      <4>1. \A i \in 1 .. 3 : u[i] \in {"|"} /\ b[i] \in {"|"}
        BY <3>1, <3>3, <3>4, ElementOfSeq
      <4>. QED
        BY <4>1
    <3>6. u = b
      BY <3>1, <3>3, <3>4, <3>5, SeqEqual
    <3>7. n > 2 /\ n - 2 = p
      BY <2>1
    <3>. QED
      BY <1>3, <2>1, <3>1, <3>2, <3>6, <3>7, NoFieldAssumption
  <2>2. CASE p + 2 # n
    <3>1. p + 2 < n /\ p + 3 \in 1 .. n
      BY <2>2
    <3>2. t[p + 3] \in Characters \ {Space}
      BY <1>1, <1>3, <3>1, ElementOfSeq
    <3>. QED
      BY <3>1, <3>2
  <2>. QED
    BY <2>1, <2>2
<1>5. NoField(t)
  BY <1>3, <1>4 DEF NoField
<1>. QED
  BY <1>2, <1>5 DEF Clean

-----------------------------------------------------------------------------
(* What the detokenisation shows of a word, and of words that are joined.    *)

\* What Shown leaves of a string, and of a word of a sequence of them.
Sh == [c \in Alphabet |-> Shown(c)]
Spoken(x) == Mapped(x, Sh)
Sw == [w \in Seq(Alphabet) |-> Spoken(w)]

LEMMA ShIs == Sh \in [Alphabet -> Seq(Alphabet)]
<1>. SUFFICES ASSUME NEW c \in Alphabet PROVE Shown(c) \in Seq(Alphabet)
  BY DEF Sh
<1>1. \A d \in Alphabet : <<d>> \in Seq(Alphabet)
  BY Short
<1>2. Space \in Alphabet /\ <<>> \in Seq(Alphabet)
  <2>1. <<>> \in Seq(Alphabet)
    OBVIOUS
  <2>. QED
    BY <2>1, AlphabetHas
<1>. QED
  BY <1>1, <1>2 DEF Shown

SpokenWell ==
  /\ Spoken(<<>>) = <<>>
  /\ \A x \in Seq(Alphabet) : Spoken(x) \in Seq(Alphabet)
  /\ \A x, y \in Seq(Alphabet) : Spoken(x \o y) = Spoken(x) \o Spoken(y)
  /\ \A c \in Alphabet : Spoken(<<c>>) = Shown(c)
  /\ \A x \in Seq(Alphabet) : spm_detokenize_str(x) = Strip(Spoken(x))

LEMMA OneOf ==
  ASSUME NEW A, NEW B, NEW f \in [A -> Seq(B)]
  PROVE  \A c \in A : Mapped(<<c>>, f) = f[c]
<1>. SUFFICES ASSUME NEW c \in A PROVE Mapped(<<c>>, f) = f[c]
  OBVIOUS
<1>1. /\ Mapped(<<>>, f) = <<>>
      /\ \A z \in Seq(A), d \in A : Mapped(Append(z, d), f) = Mapped(z, f) \o f[d]
  BY MappedAppend
<1>2. Mapped(Append(<<>>, c), f) = <<>> \o f[c]
  <2>1. <<>> \in Seq(A)
    OBVIOUS
  <2>. QED
    BY <1>1, <2>1
<1>3. Append(<<>>, c) = <<c>>
  BY AppendTwo
<1>4. <<>> \o f[c] = f[c]
  <2>1. f[c] \in Seq(B)
    OBVIOUS
  <2>. QED
    BY <2>1, ConcatEmptySeq
<1>. QED
  BY <1>2, <1>3, <1>4

LEMMA SpokenIs == SpokenWell
<1>0. PICK A : A = Alphabet
  OBVIOUS
<1>1. PICK f \in [A -> Seq(A)] : f = Sh
  BY <1>0, ShIs
<1>2. /\ Mapped(<<>>, f) = <<>>
      /\ \A x \in Seq(A) : Mapped(x, f) \in Seq(A)
  BY MappedAppend
<1>3. \A x, y \in Seq(A) : Mapped(x \o y, f) = Mapped(x, f) \o Mapped(y, f)
  BY MappedConcat
<1>4. \A c \in A : Mapped(<<c>>, f) = f[c]
  BY OneOf
<1>5. \A c \in A : f[c] = Shown(c)
  BY <1>0, <1>1 DEF Sh
<1>6. ASSUME NEW x \in Seq(A) PROVE spm_detokenize_str(x) = Strip(Mapped(x, f))
  <2>1. \A k \in DOMAIN x : x[k] \in A
    OBVIOUS
  <2>2. [k \in DOMAIN x |-> Shown(x[k])] = [k \in DOMAIN x |-> f[x[k]]]
    BY <1>5, <2>1
  <2>. QED
    BY <2>2 DEF spm_detokenize_str, Mapped
<1>7. \A x \in Seq(A) : Mapped(x, f) = Spoken(x)
  BY <1>1 DEF Spoken
<1>8. <<>> \in Seq(A) /\ (\A c \in A : <<c>> \in Seq(A)) /\ \A x, y \in Seq(A) : x \o y \in Seq(A)
  BY Short, ConcatProperties
<1>9. \A x, y \in Seq(A) : Spoken(x \o y) = Spoken(x) \o Spoken(y)
  BY <1>3, <1>7, <1>8
<1>10. \A c \in A : Spoken(<<c>>) = Shown(c)
  BY <1>4, <1>5, <1>7, <1>8
<1>11. Spoken(<<>>) = <<>> /\ \A x \in Seq(A) : Spoken(x) \in Seq(A)
  BY <1>2, <1>7, <1>8
<1>12. \A x \in Seq(A) : spm_detokenize_str(x) = Strip(Spoken(x))
  BY <1>6, <1>7
<1>. QED
  BY <1>0, <1>9, <1>10, <1>11, <1>12 DEF SpokenWell

LEMMA SpokenJoin == \A ws \in Seq(Seq(Alphabet)) : Spoken(Join(ws, <<Space>>)) = Mapped(ws, Sw)
<1>. DEFINE T == {ws \in Seq(Seq(Alphabet)) : Spoken(Join(ws, <<Space>>)) = Mapped(ws, Sw)}
<1>0. Sw \in [Seq(Alphabet) -> Seq(Alphabet)] /\ \A w \in Seq(Alphabet) : Sw[w] = Spoken(w)
  BY SpokenIs DEF Sw, SpokenWell
<1>1. /\ Join(<<>>, <<Space>>) = <<>>
      /\ \A vs \in Seq(Seq(Alphabet)) : Join(vs, <<Space>>) \in Seq(Alphabet)
      /\ \A vs \in Seq(Seq(Alphabet)), w \in Seq(Alphabet) :
           /\ vs = <<>> => Join(Append(vs, w), <<Space>>) = w
           /\ vs # <<>> => Join(Append(vs, w), <<Space>>) = Join(vs, <<Space>>) \o (<<Space>> \o w)
  BY AlphabetHas, JoinSpace DEF JoinsBy
<1>2. /\ Mapped(<<>>, Sw) = <<>>
      /\ \A x \in Seq(Seq(Alphabet)) : Mapped(x, Sw) \in Seq(Alphabet)
      /\ \A x \in Seq(Seq(Alphabet)), c \in Seq(Alphabet) : Mapped(Append(x, c), Sw) = Mapped(x, Sw) \o Sw[c]
  BY <1>0, MappedAppend, ZenonT(60)
<1>3. /\ Spoken(<<>>) = <<>>
      /\ \A x \in Seq(Alphabet) : Spoken(x) \in Seq(Alphabet)
      /\ \A x, y \in Seq(Alphabet) : Spoken(x \o y) = Spoken(x) \o Spoken(y)
  BY SpokenIs DEF SpokenWell
<1>4. PICK e \in Seq(Alphabet) : e = <<Space>> /\ Spoken(e) = <<>>
  <2>1. Spoken(<<Space>>) = Shown(Space) /\ Shown(Space) = <<>>
    BY SpokenIs, AlphabetHas DEF SpokenWell, Shown
  <2>2. <<Space>> \in Seq(Alphabet)
    BY AlphabetHas, Short
  <2>. QED
    BY <2>1, <2>2
<1>5. <<>> \in T
  <2>1. <<>> \in Seq(Seq(Alphabet))
    OBVIOUS
  <2>. QED
    BY <1>1, <1>2, <1>3, <2>1
<1>6. ASSUME NEW ws \in Seq(Seq(Alphabet)), NEW w \in Seq(Alphabet), ws \in T PROVE Append(ws, w) \in T
  <2>1. PICK J \in Seq(Alphabet) : J = Join(ws, <<Space>>) /\ Spoken(J) = Mapped(ws, Sw)
    BY <1>1, <1>6
  <2>2. PICK v \in Seq(Seq(Alphabet)) : v = Append(ws, w)
    BY AppendProperties
  <2>3. Mapped(v, Sw) = Spoken(J) \o Spoken(w)
    BY <1>0, <1>2, <2>1, <2>2
  <2>4. CASE ws = <<>>
    <3>1. Join(v, <<Space>>) = w /\ J = <<>>
      BY <1>1, <2>1, <2>2, <2>4
    <3>2. <<>> \o Spoken(w) = Spoken(w)
      BY <1>3, ConcatEmptySeq
    <3>3. Spoken(J) = <<>>
      BY <1>3, <3>1
    <3>. QED
      BY <2>2, <2>3, <3>1, <3>2, <3>3
  <2>5. CASE ws # <<>>
    <3>1. Join(v, <<Space>>) = J \o (e \o w)
      BY <1>1, <1>4, <2>1, <2>2, <2>5
    <3>2. PICK u \in Seq(Alphabet) : u = e \o w
      BY ConcatProperties
    <3>3. Spoken(u) = <<>> \o Spoken(w)
      BY <1>3, <1>4, <3>2
    <3>4. <<>> \o Spoken(w) = Spoken(w)
      BY <1>3, ConcatEmptySeq
    <3>5. Spoken(J \o u) = Spoken(J) \o Spoken(u)
      BY <1>3
    <3>. QED
      BY <2>2, <2>3, <3>1, <3>2, <3>3, <3>4, <3>5
  <2>. QED
    BY <2>4, <2>5
<1>7. \A ws \in Seq(Seq(Alphabet)) : ws \in T
  <2>. HIDE DEF T
  <2>. QED
    BY <1>5, <1>6, SeqInduction
<1>. QED
  BY <1>7

\* A word is never without a character to show, and its mark shows as a space in front.
SpokenFrom(w, x) ==
  /\ Len(x) >= 1
  /\ w[1] = Mark => x[1] = Space
  /\ w[1] # Mark => x[1] # Space

LEMMA SpokenFirst ==
  ASSUME NEW w \in Words(Alphabet)
  PROVE  SpokenFrom(w, Spoken(w))
<1>1. w \in Seq(Alphabet) /\ w # <<>> /\ w[1] # Space /\ Len(w) >= 1
  <2>1. w \in Seq(Alphabet \ {Space}) /\ w # <<>>
    BY DEF Words
  <2>2. Len(w) \in Nat \ {0}
    BY <2>1, EmptySeq
  <2>3. 1 \in 1 .. Len(w)
    BY <2>2
  <2>4. w[1] \in Alphabet \ {Space}
    BY <2>1, <2>3, ElementOfSeq
  <2>5. w \in Seq(Alphabet)
    <3>1. Alphabet \ {Space} \subseteq Alphabet
      OBVIOUS
    <3>. QED
      BY <2>1, <3>1, SeqMonotonic
  <2>. QED
    BY <2>1, <2>2, <2>4, <2>5
<1>2. PICK c \in Alphabet : c = w[1]
  <2>1. 1 \in 1 .. Len(w)
    BY <1>1
  <2>. QED
    BY <1>1, <2>1, ElementOfSeq
<1>3. PICK r \in Seq(Alphabet) : w = <<c>> \o r
  <2>1. w = SubSeq(w, 1, Len(w))
    BY <1>1, SubSeqFull
  <2>2. 1 \in 1 .. Len(w) /\ Len(w) \in 1 .. Len(w) /\ Len(w) \in Nat
    BY <1>1
  <2>3. SubSeq(w, 1, Len(w)) = <<w[1]>> \o SubSeq(w, 1 + 1, Len(w))
    BY <1>1, <2>2, SubSeqRecursiveFirst
  <2>4. SubSeq(w, 1 + 1, Len(w)) \in Seq(Alphabet)
    <3>1. \A i \in 1 + 1 .. Len(w) : w[i] \in Alphabet
      BY <1>1, <2>2
    <3>. QED
      BY <2>2, <3>1, SubSeqProperties
  <2>. QED
    BY <1>2, <2>1, <2>3, <2>4
<1>4. PICK y \in Seq(Alphabet) : y = Spoken(r)
  BY SpokenIs DEF SpokenWell
<1>5. PICK d \in Alphabet : /\ Shown(c) = <<d>>
                            /\ c = Mark => d = Space
                            /\ c # Mark => d # Space
  <2>1. CASE c = Mark
    <3>1. Mark # Space
      BY DEF Mark, Space
    <3>. QED
      BY <1>1, <1>2, <2>1, <3>1, AlphabetHas DEF Shown
  <2>2. CASE c # Mark
    BY <1>1, <1>2, <2>2 DEF Shown
  <2>. QED
    BY <2>1, <2>2
<1>6. PICK z \in Seq(Alphabet) : z = <<d>> /\ Len(z) = 1 /\ z[1] = d
  BY Short
<1>7. Spoken(w) = z \o y
  <2>1. <<c>> \in Seq(Alphabet) /\ Spoken(<<c>>) = Shown(c)
    BY Short, SpokenIs DEF SpokenWell
  <2>2. Spoken(<<c>> \o r) = Spoken(<<c>>) \o Spoken(r)
    BY <2>1, SpokenIs DEF SpokenWell
  <2>. QED
    BY <1>3, <1>4, <1>5, <1>6, <2>1, <2>2
<1>8. ConcatAt(z, y, z \o y)
  BY ConcatIs
<1>9. Len(z \o y) >= 1 /\ (z \o y)[1] = d
  <2>1. 1 \in 1 .. 1 /\ Len(y) \in Nat
    OBVIOUS
  <2>. QED
    BY <1>6, <1>8, <2>1 DEF ConcatAt
<1>. QED
  BY <1>2, <1>5, <1>7, <1>9 DEF SpokenFrom

\* A string in front of another is what is stripped.
LEMMA StripConcat ==
  ASSUME NEW S, NEW x \in Seq(S), NEW y \in Seq(S), x # <<>>
  PROVE  Strip(x \o y) = Strip(x) \o y
<1>1. PICK z \in Seq(S) : z = x \o y /\ ConcatAt(x, y, z)
  <2>1. x \o y \in Seq(S) /\ ConcatAt(x, y, x \o y)
    BY ConcatIs
  <2>. QED
    BY <2>1
<1>2. PICK m \in Nat \ {0} : m = Len(x)
  BY EmptySeq
<1>3. PICK n \in Nat : n = Len(y)
  OBVIOUS
<1>4. /\ Len(z) = m + n /\ (\A i \in 1 .. m : z[i] = x[i]) /\ \A i \in 1 .. n : z[m + i] = y[i]
  BY <1>1, <1>2, <1>3 DEF ConcatAt
<1>5. z # <<>> /\ z[1] = x[1]
  <2>1. Len(z) # 0 /\ 1 \in 1 .. m
    BY <1>4
  <2>. QED
    BY <1>4, <2>1
<1>6. CASE x[1] = Space
  <2>1. Strip(x) = Tail(x) /\ Strip(z) = Tail(z)
    BY <1>5, <1>6 DEF Strip
  <2>2. PICK t \in Seq(S) : t = Tail(x) /\ Len(t) = m - 1 /\ \A i \in 1 .. m - 1 : t[i] = x[i + 1]
    <3>1. /\ Tail(x) \in Seq(S) /\ Len(Tail(x)) = Len(x) - 1
          /\ \A i \in 1 .. Len(Tail(x)) : Tail(x)[i] = x[i + 1]
      BY HeadTailProperties
    <3>. QED
      BY <1>2, <3>1
  <2>3. PICK u \in Seq(S) : u = Tail(z) /\ Len(u) = m + n - 1 /\ \A i \in 1 .. m + n - 1 : u[i] = z[i + 1]
    <3>1. /\ Tail(z) \in Seq(S) /\ Len(Tail(z)) = Len(z) - 1
          /\ \A i \in 1 .. Len(Tail(z)) : Tail(z)[i] = z[i + 1]
      BY <1>5, HeadTailProperties
    <3>2. PICK u : u = Tail(z)
      OBVIOUS
    <3>3. u \in Seq(S) /\ Len(u) = m + n - 1
      BY <1>4, <3>1, <3>2
    <3>4. \A i \in 1 .. m + n - 1 : u[i] = z[i + 1]
      BY <3>1, <3>2, <3>3
    <3>. QED
      BY <3>2, <3>3, <3>4
  <2>4. PICK v \in Seq(S) : v = t \o y /\ ConcatAt(t, y, v)
    <3>1. t \o y \in Seq(S) /\ ConcatAt(t, y, t \o y)
      BY ConcatIs
    <3>. QED
      BY <3>1
  <2>5. /\ Len(v) = m - 1 + n
        /\ \A i \in 1 .. m - 1 : v[i] = t[i]
        /\ \A i \in 1 .. n : v[m - 1 + i] = y[i]
    BY <1>3, <2>2, <2>4 DEF ConcatAt
  <2>6. ASSUME NEW i \in 1 .. m + n - 1 PROVE u[i] = v[i]
    <3>1. u[i] = z[i + 1]
      BY <2>3
    <3>2. CASE i \in 1 .. m - 1
      <4>1. i + 1 \in 1 .. m
        BY <3>2
      <4>. QED
        BY <1>4, <2>2, <2>5, <3>1, <3>2, <4>1
    <3>3. CASE i \notin 1 .. m - 1
      <4>1. PICK j \in 1 .. n : i = m - 1 + j /\ i + 1 = m + j
        <5>1. i - (m - 1) \in 1 .. n /\ i = m - 1 + (i - (m - 1)) /\ i + 1 = m + (i - (m - 1))
          BY <3>3
        <5>. QED
          BY <5>1
      <4>. QED
        BY <1>4, <2>5, <3>1, <4>1
    <3>. QED
      BY <3>2, <3>3
  <2>7. u = v
    <3>1. Len(u) = m + n - 1 /\ Len(v) = m + n - 1
      BY <2>3, <2>5
    <3>. QED
      BY <2>6, <3>1, SeqEqual
  <2>. QED
    BY <1>1, <2>1, <2>2, <2>3, <2>4, <2>7
<1>7. CASE x[1] # Space
  BY <1>1, <1>5, <1>7 DEF Strip
<1>. QED
  BY <1>6, <1>7

\* What Strip takes away.
LEMMA StripIs ==
  ASSUME NEW S, NEW x \in Seq(S), x # <<>>
  PROVE  /\ Strip(x) \in Seq(S)
         /\ x[1] = Space => x = <<Space>> \o Strip(x)
         /\ x[1] # Space => Strip(x) = x
<1>1. Tail(x) \in Seq(S)
  BY HeadTailProperties
<1>2. Strip(x) = IF x[1] = Space THEN Tail(x) ELSE x
  BY DEF Strip
<1>3. x = <<x[1]>> \o Tail(x)
  <2>1. Len(x) \in Nat \ {0}
    BY EmptySeq
  <2>2. 1 \in 1 .. Len(x) /\ Len(x) \in 1 .. Len(x) /\ 1 + 1 = 2
    BY <2>1
  <2>3. SubSeq(x, 1, Len(x)) = <<x[1]>> \o SubSeq(x, 1 + 1, Len(x))
    BY <2>2, SubSeqRecursiveFirst
  <2>4. Tail(x) = SubSeq(x, 2, Len(x))
    BY TailIsSubSeq
  <2>5. SubSeq(x, 1, Len(x)) = x
    BY SubSeqFull
  <2>. QED
    BY <2>2, <2>3, <2>4, <2>5
<1>. QED
  BY <1>1, <1>2, <1>3

-----------------------------------------------------------------------------
(* The text that comes out, sentence by sentence: Flow is the text with a    *)
(* space at each cut inside a word, Plain is the text without.               *)

\* The first l strings of a function, one after the other.
Run(f, l) == FlattenSeq([k \in 1 .. l |-> f[k]])

Runs(f, S, N) ==
  /\ Run(f, 0) = <<>>
  /\ \A l \in 0 .. N : Run(f, l) \in Seq(S)
  /\ \A l \in 1 .. N : Run(f, l) = Run(f, l - 1) \o f[l]

LEMMA RunIs ==
  ASSUME NEW S, NEW N \in Nat, NEW f \in [1 .. N -> Seq(S)]
  PROVE  Runs(f, S, N) /\ FlattenSeq(f) = Run(f, N)
<1>1. Run(f, 0) = <<>>
  <2>1. [k \in 1 .. 0 |-> f[k]] = <<>>
    OBVIOUS
  <2>. QED
    BY <2>1, FlattenAppend DEF Run
<1>2. ASSUME NEW l \in 0 .. N
      PROVE  /\ [k \in 1 .. l |-> f[k]] \in [1 .. l -> Seq(S)]
             /\ [k \in 1 .. l |-> f[k]] \in Seq(Seq(S))
  <2>1. \A k \in 1 .. l : f[k] \in Seq(S)
    OBVIOUS
  <2>2. PICK g : g = [k \in 1 .. l |-> f[k]]
    OBVIOUS
  <2>3. g \in [1 .. l -> Seq(S)] /\ l \in Nat
    BY <2>1, <2>2
  <2>4. g \in Seq(Seq(S))
    BY <2>3, IsSeq
  <2>. QED
    BY <2>2, <2>3, <2>4
<1>3. ASSUME NEW l \in 0 .. N PROVE Run(f, l) \in Seq(S)
  BY <1>2, FlattenAppend DEF Run
<1>4. ASSUME NEW l \in 1 .. N PROVE Run(f, l) = Run(f, l - 1) \o f[l]
  <2>1. PICK j \in Nat : l = j + 1 /\ j = l - 1 /\ j \in 0 .. N
    <3>1. l - 1 \in Nat /\ l = (l - 1) + 1 /\ l - 1 \in 0 .. N
      OBVIOUS
    <3>. QED
      BY <3>1
  <2>2. PICK g : g = [k \in 1 .. j + 1 |-> f[k]]
    OBVIOUS
  <2>3. PICK h : h = [k \in 1 .. j |-> f[k]]
    OBVIOUS
  <2>4. g \in [1 .. j + 1 -> Seq(S)] /\ h \in [1 .. j -> Seq(S)] /\ h \in Seq(Seq(S))
    <3>1. j + 1 \in 0 .. N
      BY <2>1
    <3>. QED
      BY <1>2, <2>1, <2>2, <2>3, <3>1
  <2>5. g[j + 1] = f[l] /\ \A k \in 1 .. j : h[k] = g[k]
    <3>1. j + 1 \in 1 .. j + 1 /\ \A k \in 1 .. j : k \in 1 .. j + 1
      OBVIOUS
    <3>. QED
      BY <2>1, <2>2, <2>3, <3>1
  <2>6. g = Append(h, g[j + 1])
    BY <2>4, <2>5, OneMore, ZenonT(60)
  <2>7. f[l] \in Seq(S)
    OBVIOUS
  <2>8. FlattenSeq(g) = FlattenSeq(h) \o f[l]
    BY <2>4, <2>5, <2>6, <2>7, FlattenAppend
  <2>. QED
    BY <2>1, <2>2, <2>3, <2>8 DEF Run
<1>5. FlattenSeq(f) = Run(f, N)
  <2>1. [k \in 1 .. N |-> f[k]] = f
    OBVIOUS
  <2>. QED
    BY <2>1 DEF Run
<1>. QED
  BY <1>1, <1>3, <1>4, <1>5 DEF Runs

\* Where the text v gains a space, and v with these spaces and without them.
Cuts(v, k) == k < Len(v) /\ v[k] \in EndMarkers /\ v[k + 1][1] # Mark
Gap(v, k)  == IF k > 0 /\ Cuts(v, k) THEN <<Space>> ELSE <<>>
FlowOf(v)  == [k \in 1 .. Len(v) |-> Gap(v, k - 1) \o Spoken(v[k])]
PlainOf(v) == [k \in 1 .. Len(v) |-> Spoken(v[k])]
Flow(v, l)  == Run(FlowOf(v), l)
Plain(v, l) == Run(PlainOf(v), l)

LEMMA TokenIs ==
  ASSUME NEW v \in Seq(Tokens), NEW k \in 1 .. Len(v)
  PROVE  /\ v[k] \in Words(Alphabet) /\ v[k] \in Seq(Alphabet)
         /\ Spoken(v[k]) \in Seq(Alphabet) /\ Spoken(v[k]) # <<>>
         /\ SpokenFrom(v[k], Spoken(v[k]))
<1>1. PICK t \in Tokens : t = v[k]
  BY ElementOfSeq
<1>2. t \in Words(Alphabet)
  BY TokensClean DEF Clean
<1>3. t \in Seq(Alphabet)
  <2>1. t \in Seq(Alphabet \ {Space}) /\ Alphabet \ {Space} \subseteq Alphabet
    BY <1>2 DEF Words
  <2>. QED
    BY <2>1, SeqMonotonic
<1>4. Spoken(t) \in Seq(Alphabet)
  BY <1>3, SpokenIs DEF SpokenWell
<1>5. SpokenFrom(t, Spoken(t))
  BY <1>2, SpokenFirst
<1>6. Spoken(t) # <<>>
  <2>1. Len(Spoken(t)) >= 1
    BY <1>5 DEF SpokenFrom
  <2>. QED
    BY <2>1
<1>. QED
  BY <1>1, <1>2, <1>3, <1>4, <1>5, <1>6

LEMMA GapIs ==
  ASSUME NEW v, NEW k
  PROVE  Gap(v, k) \in Seq(Alphabet)
<1>1. <<Space>> \in Seq(Alphabet)
  BY AlphabetHas, Short
<1>2. <<>> \in Seq(Alphabet)
  OBVIOUS
<1>. QED
  BY <1>1, <1>2 DEF Gap

FlowRuns(v, N) ==
  /\ Flow(v, 0) = <<>> /\ Plain(v, 0) = <<>>
  /\ \A l \in 0 .. N : Flow(v, l) \in Seq(Alphabet) /\ Plain(v, l) \in Seq(Alphabet)
  /\ \A l \in 1 .. N : /\ Flow(v, l) = Flow(v, l - 1) \o (Gap(v, l - 1) \o Spoken(v[l]))
                       /\ Plain(v, l) = Plain(v, l - 1) \o Spoken(v[l])

LEMMA FlowIs ==
  ASSUME NEW v \in Seq(Tokens)
  PROVE  FlowRuns(v, Len(v))
<1>0. PICK N \in Nat : N = Len(v)
  OBVIOUS
<1>1. \A k \in 1 .. N : Spoken(v[k]) \in Seq(Alphabet) /\ Gap(v, k - 1) \o Spoken(v[k]) \in Seq(Alphabet)
  BY <1>0, TokenIs, GapIs, ConcatProperties
<1>2. PICK f \in [1 .. N -> Seq(Alphabet)] : f = FlowOf(v)
  BY <1>0, <1>1 DEF FlowOf
<1>3. PICK g \in [1 .. N -> Seq(Alphabet)] : g = PlainOf(v)
  BY <1>0, <1>1 DEF PlainOf
<1>4. Runs(f, Alphabet, N)
  BY RunIs
<1>5. Runs(g, Alphabet, N)
  BY RunIs
<1>6. \A l \in 1 .. N : f[l] = Gap(v, l - 1) \o Spoken(v[l]) /\ g[l] = Spoken(v[l])
  BY <1>0, <1>2, <1>3 DEF FlowOf, PlainOf
<1>7. \A l : Flow(v, l) = Run(f, l) /\ Plain(v, l) = Run(g, l)
  BY <1>2, <1>3 DEF Flow, Plain
<1>. HIDE DEF Run
<1>. QED
  BY <1>0, <1>4, <1>5, <1>6, <1>7, ZenonT(60) DEF FlowRuns, Runs

\* The pieces of v at the positions of S.
PieceOf(v, S) == [k \in DOMAIN v |-> IF k \in S THEN <<v[k]>> ELSE <<>>]

PiecesGo(f, v, e, m) ==
  /\ \A l \in 0 .. Len(v) : Run(f, l) \in Seq(Tokens)
  /\ \A l \in e + 1 .. m : Run(f, l) = Append(Run(f, l - 1), v[l])
  /\ Run(f, e) = <<>>
  /\ FlattenSeq(f) = Run(f, m)

LEMMA PiecesRun ==
  ASSUME NEW v \in Seq(Tokens), NEW e \in Nat, NEW m \in Nat, e < m, m <= Len(v),
         NEW f, f = PieceOf(v, e + 1 .. m)
  PROVE  PiecesGo(f, v, e, m)
<1>0. PICK N \in Nat : N = Len(v)
  OBVIOUS
<1>1. \A k \in 1 .. N : v[k] \in Tokens /\ <<v[k]>> \in Seq(Tokens)
  <2>1. \A k \in 1 .. N : v[k] \in Tokens
    BY <1>0, ElementOfSeq
  <2>. QED
    BY <2>1, Short
<1>2. f \in [1 .. N -> Seq(Tokens)] /\ \A k \in 1 .. N : f[k] = IF k \in e + 1 .. m THEN <<v[k]>> ELSE <<>>
  <2>1. DOMAIN v = 1 .. N
    BY <1>0
  <2>2. <<>> \in Seq(Tokens)
    OBVIOUS
  <2>. QED
    BY <1>1, <2>1, <2>2 DEF PieceOf
<1>3. Runs(f, Tokens, N) /\ FlattenSeq(f) = Run(f, N)
  BY <1>2, RunIs
<1>. HIDE DEF Run
<1>4. /\ Run(f, 0) = <<>>
      /\ \A l \in 0 .. N : Run(f, l) \in Seq(Tokens)
      /\ \A l \in 1 .. N : Run(f, l) = Run(f, l - 1) \o f[l]
  BY <1>3 DEF Runs
<1>5. ASSUME NEW l \in 1 .. N, l \notin e + 1 .. m PROVE Run(f, l) = Run(f, l - 1)
  <2>1. l - 1 \in 0 .. N
    OBVIOUS
  <2>2. Run(f, l - 1) \o <<>> = Run(f, l - 1)
    BY <1>4, <2>1, ConcatEmptySeq
  <2>. QED
    BY <1>2, <1>4, <1>5, <2>2
<1>6. ASSUME NEW l \in e + 1 .. m PROVE Run(f, l) = Append(Run(f, l - 1), v[l])
  <2>1. l - 1 \in 0 .. N /\ l \in 1 .. N
    BY <1>0
  <2>2. PICK r \in Seq(Tokens) : r = Run(f, l - 1)
    BY <1>4, <2>1
  <2>3. PICK t \in Tokens : t = v[l]
    BY <1>1, <2>1
  <2>4. Run(f, l) = r \o <<t>>
    BY <1>2, <1>4, <2>1, <2>2, <2>3
  <2>5. Append(r, t) = r \o <<t>>
    BY AppendIsConcat
  <2>. QED
    BY <2>2, <2>3, <2>4, <2>5
<1>7. Run(f, e) = <<>>
  <2>. DEFINE T == {l \in 0 .. e : Run(f, l) = <<>>}
  <2>1. 0 \in T
    BY <1>4
  <2>2. \A l \in 0 .. e - 1 : l \in T => l + 1 \in T
    <3>. SUFFICES ASSUME NEW l \in 0 .. e - 1, l \in T PROVE l + 1 \in T
      OBVIOUS
    <3>1. l + 1 \in 1 .. N /\ l + 1 \notin e + 1 .. m /\ (l + 1) - 1 = l /\ l + 1 \in 0 .. e
      BY <1>0
    <3>. QED
      BY <1>5, <3>1
  <2>3. e \in 0 .. e
    OBVIOUS
  <2>4. e \in T
    <3>. HIDE DEF T
    <3>. QED
      BY <2>1, <2>2, <2>3, Induction
  <2>. QED
    BY <2>4
<1>8. Run(f, N) = Run(f, m)
  <2>. DEFINE T == {l \in m .. N : Run(f, l) = Run(f, m)}
  <2>1. m \in T
    BY <1>0
  <2>2. \A l \in m .. N - 1 : l \in T => l + 1 \in T
    <3>. SUFFICES ASSUME NEW l \in m .. N - 1, l \in T PROVE l + 1 \in T
      OBVIOUS
    <3>1. l + 1 \in 1 .. N /\ l + 1 \notin e + 1 .. m /\ (l + 1) - 1 = l /\ l + 1 \in m .. N
      OBVIOUS
    <3>. QED
      BY <1>5, <3>1
  <2>3. N \in m .. N
    BY <1>0
  <2>4. N \in T
    <3>. HIDE DEF T
    <3>. QED
      BY <2>1, <2>2, <2>3, Induction
  <2>. QED
    BY <2>4
<1>. QED
  BY <1>0, <1>3, <1>4, <1>6, <1>7, <1>8 DEF PiecesGo

\* What a sentence of v, from e + 1 to m, is once it is shown.
Stretch(v, e, m) == Run(PieceOf(v, e + 1 .. m), m)

SwWell ==
  /\ Mapped(<<>>, Sw) = <<>>
  /\ \A x \in Seq(Seq(Alphabet)) : Mapped(x, Sw) \in Seq(Alphabet)
  /\ \A x \in Seq(Seq(Alphabet)), c \in Seq(Alphabet) :
       Mapped(Append(x, c), Sw) = Mapped(x, Sw) \o Spoken(c)

LEMMA SwMaps == SwWell
<1>1. Sw \in [Seq(Alphabet) -> Seq(Alphabet)] /\ \A w \in Seq(Alphabet) : Sw[w] = Spoken(w)
  BY SpokenIs DEF Sw, SpokenWell
<1>2. /\ Mapped(<<>>, Sw) = <<>>
      /\ \A x \in Seq(Seq(Alphabet)) : Mapped(x, Sw) \in Seq(Alphabet)
      /\ \A x \in Seq(Seq(Alphabet)), c \in Seq(Alphabet) : Mapped(Append(x, c), Sw) = Mapped(x, Sw) \o Sw[c]
  BY <1>1, MappedAppend, ZenonT(60)
<1>. QED
  BY <1>1, <1>2 DEF SwWell

Regroups(a, b, c, d) == (a \o (b \o c)) \o d = a \o (b \o (c \o d))

LEMMA FourParts ==
  ASSUME NEW S, NEW a \in Seq(S), NEW b \in Seq(S), NEW c \in Seq(S), NEW d \in Seq(S)
  PROVE  Regroups(a, b, c, d)
<1>1. PICK t \in Seq(S) : t = b \o c
  BY ConcatProperties
<1>2. (a \o t) \o d = a \o (t \o d)
  BY Associative, SMTT(60)
<1>3. (b \o c) \o d = b \o (c \o d)
  BY Associative, SMTT(60)
<1>. QED
  BY <1>1, <1>2, <1>3 DEF Regroups

LEMMA SentenceFlow ==
  ASSUME NEW v \in Seq(Tokens), NEW e \in Nat, NEW m \in Nat, e < m, m <= Len(v),
         \A k \in e + 1 .. m - 1 : v[k] \notin EndMarkers
  PROVE  /\ FlattenSeq(PieceOf(v, e + 1 .. m)) = Stretch(v, e, m)
         /\ Stretch(v, e, m) \in Seq(Tokens)
         /\ Mapped(Stretch(v, e, m), Sw) \in Seq(Alphabet)
         /\ SpokenFrom(v[e + 1], Mapped(Stretch(v, e, m), Sw))
         /\ Flow(v, m) = Flow(v, e) \o (Gap(v, e) \o Mapped(Stretch(v, e, m), Sw))
<1>0. PICK N \in Nat : N = Len(v)
  OBVIOUS
<1>1. PICK f : f = PieceOf(v, e + 1 .. m)
  OBVIOUS
<1>2. /\ \A l \in 0 .. N : Run(f, l) \in Seq(Tokens)
      /\ \A l \in e + 1 .. m : Run(f, l) = Append(Run(f, l - 1), v[l])
      /\ Run(f, e) = <<>>
      /\ FlattenSeq(f) = Run(f, m)
  <2>1. PiecesGo(f, v, e, m)
    BY <1>1, PiecesRun
  <2>. QED
    BY <1>0, <2>1 DEF PiecesGo
<1>3. /\ \A l \in 0 .. N : Flow(v, l) \in Seq(Alphabet)
      /\ \A l \in 1 .. N : Flow(v, l) = Flow(v, l - 1) \o (Gap(v, l - 1) \o Spoken(v[l]))
  BY <1>0, FlowIs DEF FlowRuns
<1>4. Tokens \subseteq Seq(Alphabet)
  <2>. SUFFICES ASSUME NEW t \in Tokens PROVE t \in Seq(Alphabet)
    OBVIOUS
  <2>1. t \in Seq(Alphabet \ {Space}) /\ Alphabet \ {Space} \subseteq Alphabet
    BY TokensClean DEF Clean, Words
  <2>. QED
    BY <2>1, SeqMonotonic
<1>6. /\ Mapped(<<>>, Sw) = <<>>
      /\ \A x \in Seq(Seq(Alphabet)) : Mapped(x, Sw) \in Seq(Alphabet)
      /\ \A x \in Seq(Seq(Alphabet)), c \in Seq(Alphabet) :
           Mapped(Append(x, c), Sw) = Mapped(x, Sw) \o Spoken(c)
  BY SwMaps DEF SwWell
<1>. DEFINE B(l) == Mapped(Run(f, l), Sw)
<1>7. \A l \in 0 .. N : B(l) \in Seq(Alphabet)
  <2>1. Seq(Tokens) \subseteq Seq(Seq(Alphabet))
    BY <1>4, SeqMonotonic
  <2>. QED
    BY <1>2, <1>6, <2>1
<1>8. B(e) = <<>>
  BY <1>2, <1>6
<1>9. ASSUME NEW l \in e + 1 .. m PROVE B(l) = B(l - 1) \o Spoken(v[l])
  <2>1. l - 1 \in 0 .. N /\ l \in 1 .. N
    BY <1>0
  <2>2. PICK r \in Seq(Seq(Alphabet)) : r = Run(f, l - 1)
    <3>1. Run(f, l - 1) \in Seq(Tokens)
      BY <1>2, <2>1
    <3>. QED
      BY <1>4, <3>1, SeqMonotonic
  <2>3. PICK w \in Seq(Alphabet) : w = v[l]
    BY <1>0, <2>1, TokenIs
  <2>4. Run(f, l) = Append(r, w)
    BY <1>2, <2>2, <2>3
  <2>5. Mapped(Append(r, w), Sw) = Mapped(r, Sw) \o Spoken(w)
    BY <1>6
  <2>. QED
    BY <2>2, <2>3, <2>4, <2>5
<1>. HIDE DEF B
<1>10. PICK F \in Seq(Alphabet) : F = Flow(v, e)
  BY <1>0, <1>3
<1>11. PICK G \in Seq(Alphabet) : G = Gap(v, e)
  BY GapIs
<1>90. ASSUME NEW b \in Seq(Alphabet), NEW x \in Seq(Alphabet)
       PROVE  Regroups(F, G, b, x)
  BY FourParts
<1>. DEFINE T == {l \in e + 1 .. m : Flow(v, l) = F \o (G \o B(l)) /\ SpokenFrom(v[e + 1], B(l))}
<1>12. e + 1 \in T
  <2>1. e + 1 \in e + 1 .. m /\ e + 1 \in 1 .. N /\ (e + 1) - 1 = e
    BY <1>0
  <2>2. PICK x \in Seq(Alphabet) : x = Spoken(v[e + 1]) /\ SpokenFrom(v[e + 1], x)
    BY <1>0, <2>1, TokenIs
  <2>3. B(e + 1) = <<>> \o x
    BY <1>8, <1>9, <2>1, <2>2
  <2>4. <<>> \o x = x
    BY ConcatEmptySeq
  <2>5. Flow(v, e + 1) = F \o (G \o x)
    BY <1>3, <1>10, <1>11, <2>1, <2>2
  <2>. QED
    BY <2>1, <2>2, <2>3, <2>4, <2>5
<1>13. \A l \in e + 1 .. m - 1 : l \in T => l + 1 \in T
  <2>. SUFFICES ASSUME NEW l \in e + 1 .. m - 1, l \in T PROVE l + 1 \in T
    OBVIOUS
  <2>1. l + 1 \in e + 1 .. m /\ l + 1 \in 1 .. N /\ (l + 1) - 1 = l /\ l \in 0 .. N
    BY <1>0
  <2>2. PICK x \in Seq(Alphabet) : x = Spoken(v[l + 1])
    BY <1>0, <2>1, TokenIs
  <2>3. PICK b \in Seq(Alphabet) : b = B(l)
    BY <1>7, <2>1
  <2>4. B(l + 1) = b \o x
    BY <1>9, <2>1, <2>2, <2>3
  <2>5. Gap(v, l) = <<>>
    BY DEF Gap, Cuts
  <2>6. Flow(v, l + 1) = Flow(v, l) \o (<<>> \o x)
    BY <1>3, <2>1, <2>2, <2>5
  <2>7. <<>> \o x = x
    BY ConcatEmptySeq
  <2>8. Flow(v, l) = F \o (G \o b) /\ SpokenFrom(v[e + 1], b)
    BY <2>3
  <2>9. (F \o (G \o b)) \o x = F \o (G \o (b \o x))
    BY <1>90 DEF Regroups
  <2>10. SpokenFrom(v[e + 1], b \o x)
    <3>1. ConcatAt(b, x, b \o x)
      BY ConcatIs
    <3>2. Len(b) \in Nat /\ Len(x) \in Nat /\ Len(b) >= 1
      BY <2>8 DEF SpokenFrom
    <3>3. Len(b \o x) >= 1 /\ (b \o x)[1] = b[1]
      <4>1. 1 \in 1 .. Len(b)
        BY <3>2
      <4>. QED
        BY <3>1, <3>2, <4>1 DEF ConcatAt
    <3>. QED
      BY <2>8, <3>3 DEF SpokenFrom
  <2>. QED
    BY <2>1, <2>4, <2>6, <2>7, <2>8, <2>9, <2>10
<1>14. m \in T
  <2>1. m \in e + 1 .. m /\ e + 1 \in Nat
    OBVIOUS
  <2>. HIDE DEF T
  <2>. QED
    BY <1>12, <1>13, <2>1, Induction
<1>15. Run(f, m) = Stretch(v, e, m) /\ m \in 0 .. N
  BY <1>0, <1>1 DEF Stretch
<1>16. B(m) = Mapped(Stretch(v, e, m), Sw)
  BY <1>15 DEF B
<1>17. B(m) \in Seq(Alphabet) /\ Run(f, m) \in Seq(Tokens)
  BY <1>2, <1>7, <1>15
<1>18. Flow(v, m) = Flow(v, e) \o (Gap(v, e) \o B(m)) /\ SpokenFrom(v[e + 1], B(m))
  BY <1>10, <1>11, <1>14
<1>. HIDE DEF Stretch
<1>. QED
  BY <1>1, <1>2, <1>15, <1>16, <1>17, <1>18

LEMMA FlowNotEmpty ==
  ASSUME NEW v \in Seq(Tokens), NEW l \in 1 .. Len(v)
  PROVE  Flow(v, l) # <<>> /\ Plain(v, l) # <<>>
<1>1. /\ \A k \in 0 .. Len(v) : Flow(v, k) \in Seq(Alphabet) /\ Plain(v, k) \in Seq(Alphabet)
      /\ \A k \in 1 .. Len(v) : /\ Flow(v, k) = Flow(v, k - 1) \o (Gap(v, k - 1) \o Spoken(v[k]))
                                /\ Plain(v, k) = Plain(v, k - 1) \o Spoken(v[k])
  BY FlowIs DEF FlowRuns
<1>2. l - 1 \in 0 .. Len(v)
  OBVIOUS
<1>3. PICK x \in Seq(Alphabet) : x = Spoken(v[l]) /\ x # <<>>
  BY TokenIs
<1>4. PICK g \in Seq(Alphabet) : g = Gap(v, l - 1) \o x /\ g # <<>>
  <2>1. Gap(v, l - 1) \in Seq(Alphabet)
    BY GapIs
  <2>2. Gap(v, l - 1) \o x \in Seq(Alphabet)
    BY <2>1, ConcatProperties
  <2>3. Gap(v, l - 1) \o x # <<>>
    BY <1>3, <2>1, ConcatEqualIffEmpty
  <2>. QED
    BY <2>2, <2>3
<1>5. Flow(v, l) = Flow(v, l - 1) \o g /\ Plain(v, l) = Plain(v, l - 1) \o x
  BY <1>1, <1>3, <1>4
<1>6. Flow(v, l - 1) \in Seq(Alphabet) /\ Plain(v, l - 1) \in Seq(Alphabet)
  BY <1>1, <1>2
<1>. QED
  BY <1>3, <1>4, <1>5, <1>6, ConcatEqualIffEmpty

\* One sentence more: the space put before it is the one that it was stripped of, or a gap.
AfterEnd(v, e)         == e = 0 \/ v[e] \in EndMarkers
GoesOn(v, e, F, B, M)  == M = F \o (Gap(v, e) \o B)
Follows(e, F, B, M)    ==
  /\ e = 0 => Strip(M) = Strip(B)
  /\ e # 0 => Strip(F) \in Seq(Alphabet) /\ Strip(M) = Strip(F) \o (<<Space>> \o Strip(B))

LEMMA NextFlow ==
  ASSUME NEW v \in Seq(Tokens), NEW e \in Nat, NEW m \in Nat, e < m, m <= Len(v), AfterEnd(v, e),
         NEW F \in Seq(Alphabet), F = Flow(v, e), NEW B \in Seq(Alphabet), SpokenFrom(v[e + 1], B),
         NEW M, GoesOn(v, e, F, B, M)
  PROVE  Strip(B) \in Seq(Alphabet) /\ Follows(e, F, B, M)
<1>0. M = F \o (Gap(v, e) \o B)
  BY DEF GoesOn
<1>1. B # <<>> /\ (v[e + 1][1] = Mark => B[1] = Space) /\ (v[e + 1][1] # Mark => B[1] # Space)
  BY DEF SpokenFrom
<1>2. /\ Strip(B) \in Seq(Alphabet)
      /\ B[1] = Space => B = <<Space>> \o Strip(B)
      /\ B[1] # Space => Strip(B) = B
  BY <1>1, StripIs
<1>3. CASE e = 0
  <2>1. F = <<>> /\ Gap(v, e) = <<>>
    BY <1>3, FlowIs DEF FlowRuns, Gap
  <2>2. <<>> \o B = B
    BY ConcatEmptySeq
  <2>. QED
    BY <1>0, <1>2, <1>3, <2>1, <2>2 DEF Follows
<1>4. CASE e # 0
  <2>1. PICK g \in Seq(Alphabet) : g = Gap(v, e) \o B
    BY GapIs, ConcatProperties
  <2>2. F # <<>>
    <3>1. e \in 1 .. Len(v)
      BY <1>4
    <3>. QED
      BY <3>1, FlowNotEmpty
  <2>3. Strip(M) = Strip(F) \o g /\ Strip(F) \in Seq(Alphabet)
    BY <1>0, <2>1, <2>2, StripConcat, StripIs, ZenonT(60)
  <2>4. g = <<Space>> \o Strip(B)
    <3>1. Cuts(v, e) <=> v[e + 1][1] # Mark
      BY <1>4 DEF Cuts, AfterEnd
    <3>2. e > 0
      BY <1>4
    <3>3. CASE v[e + 1][1] # Mark
      <4>1. Gap(v, e) = <<Space>>
        BY <3>1, <3>2, <3>3 DEF Gap
      <4>. QED
        BY <1>1, <1>2, <2>1, <3>3, <4>1
    <3>4. CASE v[e + 1][1] = Mark
      <4>1. Gap(v, e) = <<>>
        BY <3>1, <3>4 DEF Gap
      <4>2. <<>> \o B = B
        BY ConcatEmptySeq
      <4>. QED
        BY <1>1, <1>2, <2>1, <3>4, <4>1, <4>2
    <3>. QED
      BY <3>3, <3>4
  <2>. QED
    BY <1>2, <1>4, <2>3, <2>4 DEF Follows
<1>. QED
  BY <1>3, <1>4

\* What comes back from the backend, and the text without its cuts.
LEMMA Heard ==
  ASSUME NEW ws \in Seq(Tokens)
  PROVE  /\ spm_detokenize_str(Split(Echo(Join(ws, <<Space>>)), Bars)[2]) = Strip(Mapped(ws, Sw))
         /\ spm_detokenize_str(Join(ws, <<Space>>)) = Strip(Mapped(ws, Sw))
         /\ Split(Join(ws, <<Space>>), <<Space>>) = ws
<1>1. ws \in Seq(Clean) /\ ws \in Seq(Words(Alphabet)) /\ ws \in Seq(Seq(Alphabet))
  <2>1. Tokens \subseteq Clean /\ Tokens \subseteq Words(Alphabet)
    BY TokensClean DEF Clean
  <2>2. Tokens \subseteq Seq(Alphabet)
    <3>. SUFFICES ASSUME NEW t \in Tokens PROVE t \in Seq(Alphabet)
      OBVIOUS
    <3>1. t \in Seq(Alphabet \ {Space}) /\ Alphabet \ {Space} \subseteq Alphabet
      BY <2>1 DEF Words
    <3>. QED
      BY <3>1, SeqMonotonic
  <2>. QED
    BY <2>1, <2>2, SeqMonotonic
<1>2. PICK J \in Seq(Alphabet) : J = Join(ws, <<Space>>)
  BY <1>1, JoinSpace, AlphabetHas DEF JoinsBy
<1>3. NoField(J)
  BY <1>1, <1>2, CleanJoin
<1>4. Split(Echo(J), Bars)[2] = J \o <<Space>>
  BY <1>3, EchoSplit
<1>5. PICK y \in Seq(Alphabet) : y = <<Space>> /\ Spoken(y) = <<>>
  <2>1. Spoken(<<Space>>) = Shown(Space) /\ Shown(Space) = <<>>
    BY SpokenIs, AlphabetHas DEF SpokenWell, Shown
  <2>2. <<Space>> \in Seq(Alphabet)
    BY AlphabetHas, Short
  <2>. QED
    BY <2>1, <2>2
<1>6. Spoken(J) = Mapped(ws, Sw) /\ Spoken(J) \in Seq(Alphabet)
  BY <1>1, <1>2, SpokenJoin, SpokenIs DEF SpokenWell
<1>7. Spoken(J \o y) = Spoken(J) \o <<>>
  BY <1>5, SpokenIs DEF SpokenWell
<1>8. Spoken(J) \o <<>> = Spoken(J)
  BY <1>6, ConcatEmptySeq
<1>9. J \o y \in Seq(Alphabet)
  BY ConcatProperties
<1>10. spm_detokenize_str(J \o y) = Strip(Spoken(J \o y)) /\ spm_detokenize_str(J) = Strip(Spoken(J))
  BY <1>9, SpokenIs DEF SpokenWell
<1>11. Split(J, <<Space>>) = ws
  BY <1>1, <1>2, SplitJoin, AlphabetHas
<1>. QED
  BY <1>2, <1>4, <1>5, <1>6, <1>7, <1>8, <1>10, <1>11

LEMMA PlainIs ==
  ASSUME NEW v \in Seq(Tokens)
  PROVE  spm_detokenize_str(spm_segment(v)) = Strip(Plain(v, Len(v)))
<1>0. PICK N \in Nat : N = Len(v) /\ DOMAIN v = 1 .. N
  OBVIOUS
<1>1. \A k \in 1 .. N : v[k] \in Seq(Alphabet) /\ Spoken(v[k]) \in Seq(Alphabet)
  BY <1>0, TokenIs
<1>2. PICK g \in [1 .. N -> Seq(Alphabet)] : g = PlainOf(v)
  BY <1>0, <1>1 DEF PlainOf
<1>3. FlattenSeq(g) = Run(g, N)
  BY RunIs
<1>4. [k \in DOMAIN v |-> Sw[v[k]]] = PlainOf(v)
  BY <1>0, <1>1 DEF PlainOf, Sw
<1>5. Mapped(v, Sw) = FlattenSeq(PlainOf(v))
  BY <1>4 DEF Mapped
<1>6. Mapped(v, Sw) = Plain(v, Len(v))
  BY <1>0, <1>2, <1>3, <1>5 DEF Plain
<1>. QED
  BY <1>6, Heard DEF spm_segment

-----------------------------------------------------------------------------
(* How Flow and Plain differ.                                                *)

Pr == [c \in Alphabet |-> IF c = Space THEN <<>> ELSE <<c>>]

PrintedWell ==
  /\ Printed(<<>>) = <<>> /\ Printed(<<Space>>) = <<>>
  /\ \A x \in Seq(Alphabet) : Printed(x) \in Seq(Alphabet)
  /\ \A x, y \in Seq(Alphabet) : Printed(x \o y) = Printed(x) \o Printed(y)

LEMMA PrintedIs == PrintedWell
<1>0. PICK A : A = Alphabet
  OBVIOUS
<1>1. \A d \in A : <<d>> \in Seq(A)
  BY Short
<1>2. <<>> \in Seq(A)
  OBVIOUS
<1>3. PICK f \in [A -> Seq(A)] : f = Pr /\ \A c \in A : f[c] = IF c = Space THEN <<>> ELSE <<c>>
  <2>1. Pr \in [A -> Seq(A)]
    BY <1>0, <1>1, <1>2 DEF Pr
  <2>. QED
    BY <1>0, <2>1 DEF Pr
<1>4. ASSUME NEW x \in Seq(A) PROVE Printed(x) = Mapped(x, f)
  <2>1. \A k \in DOMAIN x : x[k] \in A
    OBVIOUS
  <2>2. [k \in DOMAIN x |-> IF x[k] = Space THEN <<>> ELSE <<x[k]>>] = [k \in DOMAIN x |-> f[x[k]]]
    BY <1>3, <2>1
  <2>. QED
    BY <2>2 DEF Printed, Mapped
<1>5. Mapped(<<>>, f) = <<>> /\ \A x \in Seq(A) : Mapped(x, f) \in Seq(A)
  BY MappedAppend
<1>6. \A x, y \in Seq(A) : Mapped(x \o y, f) = Mapped(x, f) \o Mapped(y, f)
  BY MappedConcat
<1>7. \A c \in A : Mapped(<<c>>, f) = f[c]
  BY OneOf
<1>8. \A x, y \in Seq(A) : x \o y \in Seq(A)
  BY ConcatProperties
<1>9. Printed(<<Space>>) = <<>>
  <2>1. Space \in A /\ f[Space] = <<>>
    BY <1>0, <1>3, AlphabetHas
  <2>. QED
    BY <1>1, <1>4, <1>7, <2>1
<1>10. \A x, y \in Seq(A) : Printed(x \o y) = Printed(x) \o Printed(y)
  BY <1>4, <1>6, <1>8
<1>11. Printed(<<>>) = <<>> /\ \A x \in Seq(A) : Printed(x) \in Seq(A)
  BY <1>2, <1>4, <1>5
<1>. QED
  BY <1>0, <1>9, <1>10, <1>11 DEF PrintedWell

\* The spaces that v gains among its first l words.
CutSet(v, l) == {k \in 1 .. l - 1 : Cuts(v, k)}

Counted(v, l, F, P) ==
  /\ Len(F) = Len(P) + Cardinality(CutSet(v, l))
  /\ Printed(F) = Printed(P)
  /\ CutSet(v, l) = {} => F = P

LEMMA CountedOne ==
  ASSUME NEW v, NEW l \in Nat \ {0}, NEW F \in Seq(Alphabet), NEW P \in Seq(Alphabet),
         Counted(v, l, F, P), NEW x \in Seq(Alphabet)
  PROVE  Counted(v, l + 1, F \o (Gap(v, l) \o x), P \o x)
<1>1. /\ Len(F) = Len(P) + Cardinality(CutSet(v, l))
      /\ Printed(F) = Printed(P)
      /\ CutSet(v, l) = {} => F = P
  BY DEF Counted
<1>2. PICK C : C = CutSet(v, l)
  OBVIOUS
<1>3. IsFiniteSet(C) /\ Cardinality(C) \in Nat /\ l \notin C
  <2>1. IsFiniteSet(1 .. l - 1)
    BY FS_Interval
  <2>2. C \subseteq 1 .. l - 1
    BY <1>2 DEF CutSet
  <2>3. IsFiniteSet(C)
    BY <2>1, <2>2, FS_Subset
  <2>. QED
    BY <2>2, <2>3, FS_CardinalityType
<1>4. PICK g \in Seq(Alphabet) : g = Gap(v, l)
  BY GapIs
<1>5. PICK u \in Seq(Alphabet) : u = g \o x /\ Len(u) = Len(g) + Len(x)
  BY ConcatProperties
<1>6. /\ Len(F \o u) = Len(F) + Len(u) /\ Len(P \o x) = Len(P) + Len(x)
      /\ Len(F) \in Nat /\ Len(P) \in Nat /\ Len(g) \in Nat /\ Len(x) \in Nat
  BY ConcatProperties
<1>7. Printed(g) = <<>>
  BY <1>4, PrintedIs DEF PrintedWell, Gap
<1>8. Printed(F \o u) = Printed(P \o x)
  <2>1. Printed(u) = <<>> \o Printed(x)
    BY <1>5, <1>7, PrintedIs, ZenonT(60) DEF PrintedWell
  <2>2. Printed(x) \in Seq(Alphabet)
    BY PrintedIs DEF PrintedWell
  <2>3. <<>> \o Printed(x) = Printed(x)
    BY <2>2, ConcatEmptySeq
  <2>4. Printed(F \o u) = Printed(F) \o Printed(u) /\ Printed(P \o x) = Printed(P) \o Printed(x)
    BY PrintedIs DEF PrintedWell
  <2>. QED
    BY <1>1, <2>1, <2>3, <2>4
<1>9. CASE Cuts(v, l)
  <2>1. g = <<Space>> /\ Len(g) = 1
    <3>1. l > 0
      OBVIOUS
    <3>2. Len(<<Space>>) = 1
      BY Short, AlphabetHas
    <3>. QED
      BY <1>4, <1>9, <3>1, <3>2 DEF Gap
  <2>2. CutSet(v, l + 1) = C \cup {l}
    <3>1. \A k : k \in 1 .. (l + 1) - 1 <=> k \in 1 .. l - 1 \/ k = l
      OBVIOUS
    <3>. QED
      BY <1>2, <1>9, <3>1 DEF CutSet
  <2>3. Cardinality(C \cup {l}) = Cardinality(C) + 1
    BY <1>3, FS_AddElement
  <2>4. Len(F \o u) = Len(P \o x) + (Cardinality(C) + 1)
    BY <1>1, <1>2, <1>3, <1>5, <1>6, <2>1
  <2>5. CutSet(v, l + 1) # {}
    BY <2>2
  <2>. QED
    BY <1>4, <1>5, <1>8, <2>2, <2>3, <2>4, <2>5 DEF Counted
<1>10. CASE ~ Cuts(v, l)
  <2>1. g = <<>> /\ Len(g) = 0
    BY <1>4, <1>10 DEF Gap
  <2>2. CutSet(v, l + 1) = C
    <3>1. \A k : k \in 1 .. (l + 1) - 1 <=> k \in 1 .. l - 1 \/ k = l
      OBVIOUS
    <3>. QED
      BY <1>2, <1>10, <3>1 DEF CutSet
  <2>3. Len(F \o u) = Len(P \o x) + Cardinality(C)
    BY <1>1, <1>2, <1>3, <1>5, <1>6, <2>1
  <2>4. u = x
    BY <1>5, <2>1, ConcatEmptySeq
  <2>. QED
    BY <1>1, <1>2, <1>4, <1>5, <1>8, <2>2, <2>3, <2>4 DEF Counted
<1>. QED
  BY <1>9, <1>10

LEMMA FlowCounts ==
  ASSUME NEW v \in Seq(Tokens)
  PROVE  Counted(v, Len(v), Strip(Flow(v, Len(v))), Strip(Plain(v, Len(v))))
<1>0. PICK N \in Nat : N = Len(v)
  OBVIOUS
<1>1. /\ Flow(v, 0) = <<>> /\ Plain(v, 0) = <<>>
      /\ \A l \in 0 .. N : Flow(v, l) \in Seq(Alphabet) /\ Plain(v, l) \in Seq(Alphabet)
      /\ \A l \in 1 .. N : /\ Flow(v, l) = Flow(v, l - 1) \o (Gap(v, l - 1) \o Spoken(v[l]))
                           /\ Plain(v, l) = Plain(v, l - 1) \o Spoken(v[l])
  BY <1>0, FlowIs DEF FlowRuns
<1>2. \A x : \A l \in {0, 1} : Counted(v, l, x, x) <=> Len(x) = Len(x) + 0
  <2>1. \A l \in {0, 1} : CutSet(v, l) = {}
    BY DEF CutSet
  <2>2. Cardinality({}) = 0
    BY FS_EmptySet
  <2>. QED
    BY <2>1, <2>2 DEF Counted
<1>3. \A x \in Seq(Alphabet) : Len(x) = Len(x) + 0
  OBVIOUS
<1>4. CASE N = 0
  <2>1. Flow(v, N) = Plain(v, N)
    BY <1>1, <1>4
  <2>2. Strip(<<>>) = <<>>
    BY DEF Strip
  <2>3. Len(<<>>) = Len(<<>>) + 0
    OBVIOUS
  <2>. QED
    BY <1>0, <1>1, <1>2, <1>4, <2>1, <2>2, <2>3
<1>5. CASE N # 0
  <2>. DEFINE T == {l \in 1 .. N : Counted(v, l, Strip(Flow(v, l)), Strip(Plain(v, l)))}
  <2>0. \A l \in 1 .. N : Flow(v, l) # <<>> /\ Plain(v, l) # <<>>
    BY <1>0, FlowNotEmpty
  <2>1. 1 \in T
    <3>1. 1 \in 1 .. N /\ 1 - 1 = 0
      BY <1>5
    <3>2. PICK x \in Seq(Alphabet) : x = Spoken(v[1])
      BY <1>0, <3>1, TokenIs
    <3>3. Gap(v, 0) = <<>>
      BY DEF Gap
    <3>4. <<>> \o x = x
      BY ConcatEmptySeq
    <3>5. Flow(v, 1) = <<>> \o (<<>> \o x) /\ Plain(v, 1) = <<>> \o x
      BY <1>1, <3>1, <3>2, <3>3
    <3>6. Flow(v, 1) = x /\ Plain(v, 1) = x
      BY <3>4, <3>5
    <3>7. x # <<>>
      BY <2>0, <3>1, <3>6
    <3>8. Strip(x) \in Seq(Alphabet)
      BY <3>7, StripIs
    <3>. QED
      BY <1>2, <1>3, <3>1, <3>6, <3>8
  <2>2. \A l \in 1 .. N - 1 : l \in T => l + 1 \in T
    <3>. SUFFICES ASSUME NEW l \in 1 .. N - 1, l \in T PROVE l + 1 \in T
      OBVIOUS
    <3>1. l + 1 \in 1 .. N /\ l \in 1 .. N /\ l \in 0 .. N /\ (l + 1) - 1 = l /\ l \in Nat \ {0}
      OBVIOUS
    <3>2. PICK x \in Seq(Alphabet) : x = Spoken(v[l + 1])
      BY <1>0, <3>1, TokenIs
    <3>3. PICK f \in Seq(Alphabet) : f = Flow(v, l) /\ f # <<>>
      BY <1>1, <2>0, <3>1
    <3>4. PICK p \in Seq(Alphabet) : p = Plain(v, l) /\ p # <<>>
      BY <1>1, <2>0, <3>1
    <3>5. PICK g \in Seq(Alphabet) : g = Gap(v, l) \o x
      BY GapIs, ConcatProperties
    <3>6. Flow(v, l + 1) = f \o g /\ Plain(v, l + 1) = p \o x
      BY <1>1, <3>1, <3>2, <3>3, <3>4, <3>5
    <3>7. Strip(f \o g) = Strip(f) \o g /\ Strip(p \o x) = Strip(p) \o x
      BY <3>3, <3>4, StripConcat
    <3>8. Strip(f) \in Seq(Alphabet) /\ Strip(p) \in Seq(Alphabet)
      BY <3>3, <3>4, StripIs
    <3>9. Counted(v, l, Strip(f), Strip(p))
      BY <3>3, <3>4
    <3>10. Counted(v, l + 1, Strip(f) \o (Gap(v, l) \o x), Strip(p) \o x)
      BY <3>1, <3>8, <3>9, CountedOne
    <3>. QED
      BY <3>1, <3>5, <3>6, <3>7, <3>10
  <2>3. N \in 1 .. N /\ 1 \in Nat
    BY <1>5
  <2>4. N \in T
    <3>. HIDE DEF T
    <3>. QED
      BY <2>1, <2>2, <2>3, Induction
  <2>. QED
    BY <1>0, <2>4
<1>. QED
  BY <1>4, <1>5

-----------------------------------------------------------------------------
(* The invariant: what is translated so far is the flow of the text up to the *)
(* end of a sentence.                                                        *)

\* How far in the text the sentences that are translated go.
Reached(e) ==
  /\ e \in 0 .. Len(tokenized_vec)
  /\ e = 0 \/ EndsSentence(e)
  /\ \A n \in 1 .. Len(tokenized_vec) :
       n <= e <=> \E i \in 1 .. translated : n \in tokenized_batched[i]

Told == \E e \in Nat : Reached(e) /\ translation = Strip(Flow(tokenized_vec, e))

PipeInv ==
  /\ IInv
  /\ translated \in 0 .. Len(tokenized_batched)
  /\ pc = "loop" => translated = 0
  /\ pc = "done" => l_inc = Len(tokenized_vec)
  /\ Told

LEMMA Texted ==
  ASSUME IInv
  PROVE  tokenized_vec \in Seq(Tokens) /\ tokenized_batched \in Seq(SUBSET (1 .. l_inc))
         /\ l_inc \in 0 .. Len(tokenized_vec) /\ Len(tokenized_vec) \in Nat
BY TextsAssumption DEF IInv, TypeOK

LEMMA NoneTold ==
  ASSUME tokenized_vec \in Seq(Tokens), translated = 0, translation = <<>>
  PROVE  Told
<1>1. Reached(0)
  BY DEF Reached
<1>2. Flow(tokenized_vec, 0) = <<>>
  BY FlowIs DEF FlowRuns
<1>3. Strip(<<>>) = <<>>
  BY DEF Strip
<1>. QED
  BY <1>1, <1>2, <1>3 DEF Told

LEMMA PipeInit == PipelineInit => PipeInv
<1>. SUFFICES ASSUME PipelineInit PROVE PipeInv
  OBVIOUS
<1>1. IInv
  BY InitInvariant DEF PipelineInit
<1>2. translated = 0 /\ translation = <<>> /\ pc = "loop" /\ tokenized_batched = <<>>
  BY DEF PipelineInit, Init
<1>3. Told
  BY <1>1, <1>2, NoneTold, Texted
<1>. QED
  BY <1>1, <1>2, <1>3 DEF PipeInv

\* While no sentence is translated, no text is told.
LEMMA NotYet ==
  ASSUME PipeInv, translated = 0
  PROVE  translation = <<>>
<1>1. PICK e \in Nat : Reached(e) /\ translation = Strip(Flow(tokenized_vec, e))
  BY DEF PipeInv, Told
<1>2. Len(tokenized_vec) \in Nat /\ tokenized_vec \in Seq(Tokens)
  BY Texted DEF PipeInv
<1>3. e = 0
  <2>. SUFFICES ASSUME e # 0 PROVE FALSE
    OBVIOUS
  <2>1. 1 \in 1 .. Len(tokenized_vec) /\ 1 <= e
    BY <1>1, <1>2 DEF Reached
  <2>2. PICK i \in 1 .. 0 : 1 \in tokenized_batched[i]
    BY <1>1, <2>1 DEF Reached
  <2>. QED
    BY <2>2
<1>4. Flow(tokenized_vec, 0) = <<>>
  BY <1>2, FlowIs DEF FlowRuns
<1>. QED
  BY <1>1, <1>3, <1>4 DEF Strip

LEMMA CutStep == PipeInv /\ Cut => PipeInv'
<1>. SUFFICES ASSUME PipeInv, Cut PROVE PipeInv'
  OBVIOUS
<1>1. IInv'
  BY ConsumeInvariant, FlushInvariant DEF PipeInv, Cut, Next
<1>2. pc = "loop" /\ translated = 0 /\ translated' = 0 /\ translation' = translation
  BY DEF PipeInv, Cut, Next, Consume, Flush
<1>3. translation' = <<>>
  BY <1>2, NotYet
<1>4. (tokenized_vec \in Seq(Tokens))' /\ (Len(tokenized_batched) \in Nat)'
  BY <1>1, TextsAssumption DEF IInv, TypeOK
<1>5. Told'
  <2>1. Reached(0)'
    BY <1>2, <1>4 DEF Reached
  <2>2. Flow(tokenized_vec', 0) = <<>>
    BY <1>4, FlowIs DEF FlowRuns
  <2>3. Strip(<<>>) = <<>>
    BY DEF Strip
  <2>. QED
    BY <1>3, <2>1, <2>2, <2>3 DEF Told
<1>6. (pc = "done" => l_inc = Len(tokenized_vec))'
  BY <1>2 DEF Cut, Next, Consume, Flush
<1>. QED
  BY <1>1, <1>2, <1>4, <1>5, <1>6 DEF PipeInv

LEMMA GreatestElement ==
  ASSUME NEW N \in Nat, NEW S, S \subseteq 1 .. N, S # {}
  PROVE  \E m \in S : \A n \in S : n <= m
<1>. DEFINE T == {N - n : n \in S}
<1>1. T \subseteq Nat /\ T # {}
  <2>1. ASSUME NEW n \in S PROVE N - n \in Nat
    <3>1. n \in 1 .. N
      OBVIOUS
    <3>. QED
      BY <3>1
  <2>2. PICK n \in S : TRUE
    OBVIOUS
  <2>3. N - n \in T
    OBVIOUS
  <2>. QED
    BY <2>1, <2>3
<1>2. PICK t \in T : \A x \in T : t <= x
  <2>. HIDE DEF T
  <2>. QED
    BY <1>1, LeastElement
<1>3. PICK m \in S : t = N - m
  OBVIOUS
<1>4. ASSUME NEW n \in S PROVE n <= m
  <2>1. N - n \in T
    OBVIOUS
  <2>2. t <= N - n
    BY <1>2, <2>1
  <2>3. n \in 1 .. N /\ m \in 1 .. N
    OBVIOUS
  <2>. QED
    BY <1>3, <2>2, <2>3
<1>. QED
  BY <1>4

\* The next sentence goes from where the others stop to an end of sentence.
LEMMA NextSentence ==
  ASSUME PipeInv, pc = "done", translated < Len(tokenized_batched), NEW e \in Nat, Reached(e)
  PROVE  \E m \in 1 .. Len(tokenized_vec) :
           /\ e < m /\ EndsSentence(m)
           /\ tokenized_batched[translated + 1] = e + 1 .. m
           /\ \A k \in e + 1 .. m - 1 : ~ EndsSentence(k)
<1>0. PICK N \in Nat : N = Len(tokenized_vec)
  BY Texted DEF PipeInv
<1>1. l_inc = N /\ tokenized_tmp = {}
  BY <1>0, FlushFindsNothing DEF PipeInv, NothingLeftOver
<1>2. PICK M \in Nat : M = Len(tokenized_batched) /\ DOMAIN tokenized_batched = 1 .. M
  BY Texted DEF PipeInv
<1>3. \A i \in 1 .. M : tokenized_batched[i] \subseteq 1 .. N
  BY <1>1, <1>2, Texted DEF PipeInv
<1>4. PICK t \in 0 .. M - 1 : t = translated
  BY <1>2 DEF PipeInv
<1>5. PICK S : S = tokenized_batched[t + 1]
  OBVIOUS
<1>6. t + 1 \in 1 .. M
  OBVIOUS
<1>7. /\ S # {}
      /\ \A n \in S : EndsSentence(n) <=> \A k \in S : k <= n
  BY <1>2, <1>5, <1>6 DEF PipeInv, IInv, SentenceShape, Sentences
<1>8. PICK m \in S : \A n \in S : n <= m
  BY <1>3, <1>5, <1>6, <1>7, GreatestElement
<1>9. \A i, j \in 1 .. M : i < j => \A a \in tokenized_batched[i], b \in tokenized_batched[j] : a < b
  BY <1>2 DEF PipeInv, IInv, Partition, InTextOrder, Sentences
<1>10. \A n \in 1 .. N : \E i \in 1 .. M : n \in tokenized_batched[i]
  BY <1>1, <1>2 DEF PipeInv, IInv, Partition, NoTokenLost, Sentences
<1>11. \A n \in 1 .. N : n <= e <=> \E i \in 1 .. t : n \in tokenized_batched[i]
  BY <1>0, <1>4 DEF Reached
<1>12. S \subseteq 1 .. N
  BY <1>3, <1>5, <1>6
<1>13. ASSUME NEW n \in S PROVE n > e
  <2>. SUFFICES ASSUME n <= e PROVE FALSE
    BY <1>12
  <2>1. PICK i \in 1 .. t : n \in tokenized_batched[i]
    BY <1>11, <1>12
  <2>2. i \in 1 .. M /\ i < t + 1
    OBVIOUS
  <2>3. n < n
    BY <1>5, <1>6, <1>9, <2>1, <2>2
  <2>. QED
    BY <1>12, <2>3
<1>14. ASSUME NEW n \in e + 1 .. m PROVE n \in S
  <2>1. n \in 1 .. N /\ ~ (n <= e) /\ n <= m
    BY <1>12
  <2>2. PICK i \in 1 .. M : n \in tokenized_batched[i]
    BY <1>10, <2>1
  <2>3. i \notin 1 .. t
    BY <1>11, <2>1, <2>2
  <2>4. i = t + 1 \/ t + 1 < i
    BY <2>3
  <2>5. ~ (t + 1 < i)
    <3>. SUFFICES ASSUME t + 1 < i PROVE FALSE
      OBVIOUS
    <3>1. m < n
      BY <1>5, <1>6, <1>9, <2>2
    <3>2. m \in 1 .. N
      BY <1>12
    <3>. QED
      BY <2>1, <3>1, <3>2
  <2>. QED
    BY <1>5, <2>2, <2>4, <2>5
<1>15. S = e + 1 .. m
  <2>1. ASSUME NEW n \in S PROVE n \in e + 1 .. m
    <3>1. n \in 1 .. N /\ m \in 1 .. N /\ n > e /\ n <= m
      BY <1>8, <1>12, <1>13
    <3>. QED
      BY <3>1
  <2>. QED
    BY <1>14, <2>1
<1>16. EndsSentence(m) /\ m \in 1 .. N /\ e < m
  BY <1>7, <1>8, <1>12, <1>13
<1>17. ASSUME NEW k \in e + 1 .. m - 1 PROVE ~ EndsSentence(k)
  <2>1. k \in S /\ ~ (m <= k)
    <3>1. m \in Nat /\ k \in e + 1 .. m
      BY <1>16
    <3>. QED
      BY <1>14, <3>1
  <2>. QED
    BY <1>7, <2>1
<1>. QED
  BY <1>0, <1>4, <1>5, <1>15, <1>16, <1>17

\* The sentence to translate, and what the backend's answer makes of it.
Heeds(v, e, m, B, r) ==
  /\ B \in Seq(Alphabet)
  /\ SpokenFrom(v[e + 1], B)
  /\ Flow(v, m) = Flow(v, e) \o (Gap(v, e) \o B)
  /\ r = Strip(B)

LEMMA SentenceHeard ==
  ASSUME PipeInv, NEW e \in Nat, NEW m \in 1 .. Len(tokenized_vec), e < m, NEW n,
         tokenized_batched[n] = e + 1 .. m,
         \A k \in e + 1 .. m - 1 : ~ EndsSentence(k)
  PROVE  \E B : Heeds(tokenized_vec, e, m, B,
                      spm_detokenize_str(Split(Echo(Sentence(n)), Bars)[2]))
<1>1. PICK v : v = tokenized_vec
  OBVIOUS
<1>2. v \in Seq(Tokens) /\ Len(v) \in Nat
  BY <1>1, Texted DEF PipeInv
<1>3. m \in Nat /\ m <= Len(v) /\ m \in 1 .. Len(v)
  BY <1>1, <1>2
<1>4. \A k \in e + 1 .. m - 1 : v[k] \notin EndMarkers
  BY <1>1 DEF EndsSentence
<1>5. /\ FlattenSeq(PieceOf(v, e + 1 .. m)) = Stretch(v, e, m)
      /\ Stretch(v, e, m) \in Seq(Tokens)
      /\ Mapped(Stretch(v, e, m), Sw) \in Seq(Alphabet)
      /\ SpokenFrom(v[e + 1], Mapped(Stretch(v, e, m), Sw))
      /\ Flow(v, m) = Flow(v, e) \o (Gap(v, e) \o Mapped(Stretch(v, e, m), Sw))
  BY <1>2, <1>3, <1>4, SentenceFlow
<1>6. Sentence(n) = Join(Stretch(v, e, m), <<Space>>)
  <2>1. Pieces(e + 1 .. m) = FlattenSeq(PieceOf(v, e + 1 .. m))
    BY <1>1 DEF Pieces, PieceOf
  <2>. QED
    BY <1>5, <2>1 DEF Sentence
<1>7. spm_detokenize_str(Split(Echo(Sentence(n)), Bars)[2]) = Strip(Mapped(Stretch(v, e, m), Sw))
  BY <1>5, <1>6, Heard
<1>. QED
  BY <1>1, <1>5, <1>7 DEF Heeds

\* The tokens up to m are those of the sentences that are translated.
LEMMA ReachedNext ==
  ASSUME PipeInv, pc = "done", Translate, NEW e \in Nat, Reached(e),
         NEW m \in 1 .. Len(tokenized_vec), e < m, EndsSentence(m),
         tokenized_batched[translated + 1] = e + 1 .. m
  PROVE  Reached(m)'
<1>1. PICK N \in Nat : N = Len(tokenized_vec) /\ m \in 1 .. N
  BY Texted DEF PipeInv
<1>2. PICK t \in Nat : t = translated
  BY DEF PipeInv
<1>3. /\ translated' = t + 1 /\ tokenized_vec' = tokenized_vec
      /\ tokenized_batched' = tokenized_batched
  BY <1>2 DEF Translate, vars
<1>4. EndsSentence(m)'
  BY <1>3 DEF EndsSentence
<1>5. \A n \in 1 .. N : n <= e <=> \E i \in 1 .. t : n \in tokenized_batched[i]
  BY <1>1, <1>2 DEF Reached
<1>6. ASSUME NEW n \in 1 .. N
      PROVE  n <= m <=> \E i \in 1 .. t + 1 : n \in tokenized_batched[i]
  <2>1. n \in e + 1 .. m <=> n \in tokenized_batched[t + 1]
    BY <1>2
  <2>2. n <= m <=> n <= e \/ n \in e + 1 .. m
    BY <1>1
  <2>3. \A i : i \in 1 .. t + 1 <=> i \in 1 .. t \/ i = t + 1
    BY <1>2
  <2>. QED
    BY <1>5, <2>1, <2>2, <2>3
<1>7. m \in 0 .. N
  BY <1>1
<1>. QED
  BY <1>1, <1>3, <1>4, <1>6, <1>7 DEF Reached

\* Putting the next sentence after the others, or first.
LEMMA PutNext ==
  ASSUME PipeInv, NEW e \in Nat, Reached(e), translation = Strip(Flow(tokenized_vec, e)),
         NEW m \in 1 .. Len(tokenized_vec), e < m, NEW B, NEW r,
         Heeds(tokenized_vec, e, m, B, r),
         translated < Len(tokenized_batched)
  PROVE  Put(r) = Strip(Flow(tokenized_vec, m))
<1>1. PICK v : v = tokenized_vec
  OBVIOUS
<1>2. v \in Seq(Tokens) /\ Len(v) \in Nat
  BY <1>1, Texted DEF PipeInv
<1>3. m \in Nat /\ m <= Len(v) /\ e < Len(v) /\ e \in 0 .. Len(v)
  BY <1>1, <1>2
<1>4. AfterEnd(v, e)
  BY <1>1, <1>3 DEF Reached, EndsSentence, AfterEnd
<1>5. PICK F : F = Flow(v, e)
  OBVIOUS
<1>51. F \in Seq(Alphabet)
  BY <1>2, <1>3, <1>5, FlowIs DEF FlowRuns
<1>6. PICK M : GoesOn(v, e, F, B, M)
  BY DEF GoesOn
<1>61. M = Flow(v, m)
  BY <1>1, <1>5, <1>6 DEF Heeds, GoesOn
<1>7. B \in Seq(Alphabet) /\ SpokenFrom(v[e + 1], B)
  BY <1>1 DEF Heeds
<1>71. r = Strip(B)
  BY DEF Heeds
<1>8. Strip(B) \in Seq(Alphabet) /\ Follows(e, F, B, M)
  BY <1>2, <1>3, <1>4, <1>5, <1>51, <1>6, <1>7, NextFlow
<1>9. translated = 0 <=> e = 0
  <2>1. ASSUME translated = 0 PROVE e = 0
    <3>. SUFFICES ASSUME e # 0 PROVE FALSE
      OBVIOUS
    <3>1. 1 \in 1 .. Len(tokenized_vec) /\ 1 <= e
      BY <1>1, <1>2, <1>3
    <3>2. PICK i \in 1 .. 0 : 1 \in tokenized_batched[i]
      BY <2>1, <3>1 DEF Reached
    <3>. QED
      BY <3>2
  <2>2. ASSUME translated # 0 PROVE e # 0
    <3>1. translated \in Nat /\ tokenized_batched \in Seq(SUBSET (1 .. l_inc))
          /\ l_inc \in 0 .. Len(tokenized_vec) /\ Len(tokenized_batched) \in Nat
      BY Texted DEF PipeInv
    <3>2. 1 \in 1 .. translated /\ 1 \in 1 .. Len(tokenized_batched)
      BY <2>2, <3>1
    <3>3. tokenized_batched[1] # {} /\ tokenized_batched[1] \subseteq 1 .. l_inc
      BY <3>1, <3>2 DEF PipeInv, IInv, SentenceShape, Sentences
    <3>4. PICK n : n \in tokenized_batched[1] /\ n \in 1 .. l_inc
      BY <3>3
    <3>5. n \in 1 .. Len(tokenized_vec)
      BY <1>1, <1>2, <3>1, <3>4
    <3>6. n <= e
      BY <3>2, <3>4, <3>5 DEF Reached
    <3>. QED
      BY <3>5, <3>6
  <2>. QED
    BY <2>1, <2>2
<1>10. CASE translated = 0
  BY <1>1, <1>61, <1>71, <1>8, <1>9, <1>10 DEF Put, Follows
<1>11. CASE translated # 0
  <2>1. Strip(F) \in Seq(Alphabet) /\ Strip(M) = Strip(F) \o (<<Space>> \o Strip(B))
    BY <1>8, <1>9, <1>11 DEF Follows
  <2>2. <<Space>> \in Seq(Alphabet)
    BY AlphabetHas, Short
  <2>3. (Strip(F) \o <<Space>>) \o Strip(B) = Strip(F) \o (<<Space>> \o Strip(B))
    BY <1>8, <2>1, <2>2, Associative, SMTT(60)
  <2>4. translation = Strip(F)
    BY <1>1, <1>5
  <2>5. Put(r) = (translation \o <<Space>>) \o r
    BY <1>11, <2>1, <2>2, <2>3, <2>4, <1>71, <1>8, Associative DEF Put
  <2>. QED
    BY <1>1, <1>61, <1>71, <2>1, <2>3, <2>4, <2>5
<1>. QED
  BY <1>10, <1>11

LEMMA TranslateStep == PipeInv /\ Translate => PipeInv'
<1>. SUFFICES ASSUME PipeInv, Translate PROVE PipeInv'
  OBVIOUS
<1>1. /\ pc = "done" /\ translated < Len(tokenized_batched) /\ translated' = translated + 1
      /\ translation' = Put(spm_detokenize_str(Split(Echo(Sentence(translated + 1)), Bars)[2]))
      /\ tokenized_vec' = tokenized_vec /\ l_inc' = l_inc /\ tokenized_tmp' = tokenized_tmp
      /\ tokenized_batched' = tokenized_batched /\ pc' = pc
  BY DEF Translate, vars
<1>2. PICK e \in Nat : Reached(e) /\ translation = Strip(Flow(tokenized_vec, e))
  BY DEF PipeInv, Told
<1>3. PICK m \in 1 .. Len(tokenized_vec) :
        /\ e < m /\ EndsSentence(m)
        /\ tokenized_batched[translated + 1] = e + 1 .. m
        /\ \A k \in e + 1 .. m - 1 : ~ EndsSentence(k)
  BY <1>1, <1>2, NextSentence
<1>4. PICK r : r = spm_detokenize_str(Split(Echo(Sentence(translated + 1)), Bars)[2])
  OBVIOUS
<1>5. PICK B : Heeds(tokenized_vec, e, m, B, r)
  BY <1>3, <1>4, SentenceHeard
<1>6. translation' = Strip(Flow(tokenized_vec, m))
  BY <1>1, <1>2, <1>3, <1>4, <1>5, PutNext
<1>7. Told'
  <2>1. Reached(m)'
    BY <1>1, <1>2, <1>3, ReachedNext
  <2>2. m \in Nat
    OBVIOUS
  <2>. QED
    BY <1>1, <1>6, <2>1, <2>2 DEF Told
<1>8. IInv'
  BY <1>1 DEF PipeInv, IInv, TypeOK, Partition, NoTokenLost, InTextOrder, SentenceShape,
              OpenSentence, Sentences, EndsSentence
<1>9. (translated \in 0 .. Len(tokenized_batched))'
  BY <1>1, Texted DEF PipeInv
<1>10. (pc = "loop" => translated = 0)' /\ (pc = "done" => l_inc = Len(tokenized_vec))'
  BY <1>1 DEF PipeInv
<1>. QED
  BY <1>7, <1>8, <1>9, <1>10 DEF PipeInv

LEMMA PipelineInvariant == PipelineSpec => []PipeInv
<1>1. PipeInv /\ UNCHANGED pipeline_vars => PipeInv'
  BY DEF pipeline_vars, vars, PipeInv, IInv, TypeOK, Partition, NoTokenLost, InTextOrder,
         SentenceShape, OpenSentence, Sentences, EndsSentence, Told, Reached
<1>2. PipeInv /\ [PipelineNext]_pipeline_vars => PipeInv'
  BY <1>1, CutStep, TranslateStep DEF PipelineNext
<1>. QED
  BY <1>2, PipeInit, PTL DEF PipelineSpec

\* Once all sentences are translated, the text that came out is the flow of all of it.
LEMMA AllTold ==
  ASSUME PipeInv, AllTranslated
  PROVE  translation = Strip(Flow(tokenized_vec, Len(tokenized_vec)))
<1>1. PICK N \in Nat : N = Len(tokenized_vec)
  BY Texted DEF PipeInv
<1>2. PICK e \in Nat : Reached(e) /\ translation = Strip(Flow(tokenized_vec, e))
  BY DEF PipeInv, Told
<1>3. l_inc = N /\ tokenized_tmp = {}
  BY <1>1, FlushFindsNothing DEF PipeInv, AllTranslated, NothingLeftOver
<1>4. PICK M \in Nat : M = translated /\ DOMAIN tokenized_batched = 1 .. M
  BY Texted DEF PipeInv, AllTranslated
<1>5. e = N
  <2>. SUFFICES ASSUME e # N PROVE FALSE
    OBVIOUS
  <2>1. N \in 1 .. N /\ ~ (N <= e)
    BY <1>1, <1>2 DEF Reached
  <2>2. PICK i \in 1 .. M : N \in tokenized_batched[i]
    BY <1>3, <1>4, <2>1 DEF PipeInv, IInv, Partition, NoTokenLost, Sentences
  <2>. QED
    BY <1>1, <1>2, <1>4, <2>1, <2>2 DEF Reached
<1>. QED
  BY <1>1, <1>2, <1>5

\* The positions at which the text is cut inside a word.
LEMMA CutsFound ==
  ASSUME IInv
  PROVE  /\ {k \in DOMAIN tokenized_vec : CutsAWord(k)} = CutSet(tokenized_vec, Len(tokenized_vec))
         /\ IsFiniteSet(CutSet(tokenized_vec, Len(tokenized_vec)))
         /\ Len(tokenized_vec) \in Nat
<1>1. PICK N \in Nat : N = Len(tokenized_vec) /\ DOMAIN tokenized_vec = 1 .. N
  BY Texted
<1>2. {k \in DOMAIN tokenized_vec : CutsAWord(k)} = CutSet(tokenized_vec, N)
  BY <1>1 DEF CutsAWord, CutSet, Cuts
<1>3. CutSet(tokenized_vec, N) \subseteq 1 .. N /\ IsFiniteSet(1 .. N)
  BY FS_Interval DEF CutSet
<1>. QED
  BY <1>1, <1>2, <1>3, FS_Subset

LEMMA StripTyped ==
  ASSUME NEW S, NEW x \in Seq(S)
  PROVE  Strip(x) \in Seq(S)
BY HeadTailProperties DEF Strip

LEMMA ComesBack == PipeInv => TextComesBack
<1>. SUFFICES ASSUME PipeInv, AllTranslated
              PROVE  /\ Split(spm_segment(tokenized_vec), <<Space>>) = tokenized_vec
                     /\ translation = Original <=> \A k \in DOMAIN tokenized_vec : ~ CutsAWord(k)
                     /\ Len(translation) = Len(Original)
                          + Cardinality({k \in DOMAIN tokenized_vec : CutsAWord(k)})
                     /\ Printed(translation) = Printed(Original)
  BY DEF TextComesBack
<1>1. PICK v \in Seq(Tokens) : v = tokenized_vec
  BY Texted DEF PipeInv
<1>2. PICK K : K = {k \in DOMAIN tokenized_vec : CutsAWord(k)}
  OBVIOUS
<1>3. K = CutSet(v, Len(v)) /\ IsFiniteSet(K)
  BY <1>1, <1>2, CutsFound DEF PipeInv
<1>4. translation = Strip(Flow(v, Len(v)))
  BY <1>1, AllTold
<1>5. Original = Strip(Plain(v, Len(v)))
  BY <1>1, PlainIs DEF Original
<1>6. Counted(v, Len(v), translation, Original)
  BY <1>4, <1>5, FlowCounts
<1>7. /\ Len(translation) = Len(Original) + Cardinality(K)
      /\ Printed(translation) = Printed(Original)
      /\ K = {} => translation = Original
  BY <1>3, <1>6 DEF Counted
<1>8. Len(Original) \in Nat
  <2>1. Plain(v, Len(v)) \in Seq(Alphabet)
    BY FlowIs, <1>1, LenProperties DEF FlowRuns
  <2>2. Strip(Plain(v, Len(v))) \in Seq(Alphabet)
    BY <2>1, StripTyped
  <2>. QED
    BY <1>5, <2>2
<1>9. translation = Original => K = {}
  <2>. SUFFICES ASSUME translation = Original PROVE K = {}
    OBVIOUS
  <2>1. Cardinality(K) \in Nat
    BY <1>3, FS_CardinalityType
  <2>2. Cardinality(K) = 0
    BY <1>7, <1>8, <2>1
  <2>. QED
    BY <1>3, <2>2, FS_EmptySet
<1>10. K = {} <=> \A k \in DOMAIN tokenized_vec : ~ CutsAWord(k)
  BY <1>2
<1>11. Split(spm_segment(v), <<Space>>) = v
  BY Heard DEF spm_segment
<1>. QED
  BY <1>1, <1>2, <1>7, <1>9, <1>10, <1>11

\* With a backend that answers what it is asked, every text comes back with its own
\* characters, and exactly as it was when no end marker stands inside a word; otherwise
\* with one space more for each that does (rest_server.cpp:248-297, nmt.cpp:293-325).
THEOREM TextComesBackHolds == PipelineSpec => []TextComesBack
BY PipelineInvariant, ComesBack, PTL
=============================================================================
