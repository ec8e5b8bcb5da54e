--------------------------- MODULE BpeSmt_proofs ---------------------------
(* Byte pair encoding keeps its types, Postprocess undoes it, and it gives   *)
(* what the codes file gives line by line, for every codes file and all      *)
(* words.  The Moses client gathers translations as they are received, for   *)
(* every batch and every server.  Both rest on what FlattenSeq computes,     *)
(* which is proved first.                                                    *)
EXTENDS Bpe, Smt, SequenceTheorems, FiniteSetTheorems, WellFoundedInduction, TLAPS

-----------------------------------------------------------------------------
(* Induction.  The principle is the library's WFMin, which takes no operator: *)
(* a property of numbers is given as the set of those that have it.           *)

LEMMA LeastElement ==
  ASSUME NEW T, T \subseteq Nat, T # {}
  PROVE  \E x \in T : \A y \in T : x <= y
<1>. DEFINE R == {ss \in Nat \X Nat : ss[1] < ss[2]}
<1>1. IsWellFoundedOn(R, Nat)
  BY NatLessThanWellFounded DEF OpToRel
<1>2. \E x \in T : \A y \in T : ~ (<<y, x>> \in R)
  <2>. HIDE DEF R
  <2>. QED
    BY <1>1, WFMin
<1>3. PICK x \in T : \A y \in T : ~ (<<y, x>> \in R)
  BY <1>2
<1>4. ASSUME NEW y \in T PROVE x <= y
  <2>1. <<y, x>> \in Nat \X Nat
    OBVIOUS
  <2>2. ~ (<<y, x>>[1] < <<y, x>>[2])
    BY <1>3, <2>1
  <2>. QED
    BY <2>2
<1>. QED
  BY <1>4

\* Induction up to L, from a number a.
LEMMA Induction ==
  ASSUME NEW a \in Nat, NEW L \in Nat, NEW T, a \in T,
         \A n \in a .. L - 1 : n \in T => n + 1 \in T
  PROVE  \A n \in a .. L : n \in T
<1>. DEFINE C == (a .. L) \ T
<1>1. SUFFICES ASSUME C # {} PROVE FALSE
  OBVIOUS
<1>2. C \subseteq Nat
  OBVIOUS
<1>3. PICK x \in C : \A y \in C : x <= y
  <2>. HIDE DEF C
  <2>. QED
    BY <1>1, <1>2, LeastElement
<1>4. x \in a .. L /\ x \notin T /\ x - 1 \in a .. L - 1
  OBVIOUS
<1>5. x - 1 \notin C
  <2>. HIDE DEF C
  <2>. QED
    BY <1>2, <1>3
<1>6. x - 1 \in T
  BY <1>4, <1>5
<1>. QED
  BY <1>4, <1>6

\* Induction on a sequence, by its last element.
LEMMA SeqInduction ==
  ASSUME NEW S, NEW T, <<>> \in T, \A s \in Seq(S), e \in S : s \in T => Append(s, e) \in T
  PROVE  \A s \in Seq(S) : s \in T
<1>. SUFFICES ASSUME NEW s \in Seq(S) PROVE s \in T
  OBVIOUS
<1>. DEFINE prefix(n) == SubSeq(s, 1, n)
            P == {n \in 0 .. Len(s) : prefix(n) \in T}
<1>1. Len(s) \in Nat /\ prefix(Len(s)) = s /\ prefix(0) = <<>>
  BY SubSeqFull, SubSeqEmpty
<1>2. \A n \in 0 .. Len(s) - 1 : /\ prefix(n) \in Seq(S) /\ s[n + 1] \in S
                                 /\ prefix(n + 1) = Append(prefix(n), s[n + 1])
  <2>. SUFFICES ASSUME NEW n \in 0 .. Len(s) - 1
                PROVE  /\ prefix(n) \in Seq(S) /\ s[n + 1] \in S
                       /\ prefix(n + 1) = Append(prefix(n), s[n + 1])
    OBVIOUS
  <2>. QED
    BY <1>1
<1>. HIDE DEF prefix
<1>3. 0 \in P
  BY <1>1
<1>4. ASSUME NEW n \in 0 .. Len(s) - 1, n \in P
      PROVE  n + 1 \in P
  <2>1. Append(prefix(n), s[n + 1]) \in T
    BY <1>2, <1>4
  <2>2. prefix(n + 1) \in T
    BY <1>2, <2>1
  <2>. QED
    BY <1>1, <2>2
<1>5. \A n \in 0 .. Len(s) : n \in P
  <2>. HIDE DEF P
  <2>. QED
    BY <1>1, <1>3, <1>4, Induction
<1>6. Len(s) \in P
  BY <1>1, <1>5
<1>. QED
  BY <1>1, <1>6

\* A recursive definition over 0 .. L, one step at a time, has a solution.
Solution(f, A, L, b, step) ==
  f \in [0 .. L -> A] /\ f[0] = b /\ \A n \in 1 .. L : f[n] = step[<<n, f[n - 1]>>]

LEMMA SolutionExists ==
  ASSUME NEW A, NEW L \in Nat, NEW b \in A, NEW step \in [(1 .. L) \X A -> A]
  PROVE  \E f : Solution(f, A, L, b, step)
<1>. DEFINE Solves(f, m) == f[0] = b /\ \A n \in 1 .. m : f[n] = step[<<n, f[n - 1]>>]
            P == {m \in 0 .. L : \E f \in [0 .. m -> A] : Solves(f, m)}
<1>1. 0 \in P
  <2>1. [n \in 0 .. 0 |-> b] \in [0 .. 0 -> A] /\ Solves([n \in 0 .. 0 |-> b], 0)
    OBVIOUS
  <2>2. \E f \in [0 .. 0 -> A] : Solves(f, 0)
    BY <2>1
  <2>. HIDE DEF Solves
  <2>. QED
    BY <2>2
<1>2. ASSUME NEW m \in 0 .. L - 1, m \in P
      PROVE  m + 1 \in P
  <2>0. \E f \in [0 .. m -> A] : Solves(f, m)
    <3>. HIDE DEF Solves
    <3>. QED
      BY <1>2
  <2>1. PICK f \in [0 .. m -> A] : Solves(f, m)
    BY <2>0
  <2>. DEFINE g == [n \in 0 .. m + 1 |-> IF n = m + 1 THEN step[<<m + 1, f[m]>>] ELSE f[n]]
  <2>2. step[<<m + 1, f[m]>>] \in A
    OBVIOUS
  <2>3. g \in [0 .. m + 1 -> A]
    BY <2>2
  <2>4. Solves(g, m + 1)
    <3>1. g[0] = b /\ \A n \in 1 .. m : g[n] = f[n] /\ g[n - 1] = f[n - 1]
      BY <2>1
    <3>2. g[m + 1] = step[<<m + 1, g[m]>>]
      <4>1. g[m] = f[m] /\ m + 1 \in 0 .. m + 1
        OBVIOUS
      <4>. QED
        BY <4>1
    <3>. HIDE DEF g
    <3>3. ASSUME NEW n \in 1 .. m + 1 PROVE g[n] = step[<<n, g[n - 1]>>]
      <4>1. CASE n = m + 1
        BY <3>2, <4>1
      <4>2. CASE n \in 1 .. m
        BY <2>1, <3>1, <4>2
      <4>. QED
        BY <4>1, <4>2
    <3>. QED
      BY <3>1, <3>3
  <2>. HIDE DEF g, Solves
  <2>. QED
    BY <2>3, <2>4
<1>3. \A m \in 0 .. L : m \in P
  <2>. HIDE DEF P
  <2>. QED
    BY <1>1, <1>2, Induction
<1>4. \E f \in [0 .. L -> A] : Solves(f, L)
  <2>. HIDE DEF Solves
  <2>. QED
    BY <1>3
<1>. QED
  BY <1>4 DEF Solution

\* Functions that start alike and go on alike are alike.
Agree(f, g, a, L) == f[a] = g[a] /\ \A n \in a .. L - 1 : f[n] = g[n] => f[n + 1] = g[n + 1]

LEMMA SolutionUnique ==
  ASSUME NEW a \in Nat, NEW L \in Nat, NEW f, NEW g, Agree(f, g, a, L)
  PROVE  \A n \in a .. L : f[n] = g[n]
<1>. DEFINE P == {n \in Nat : f[n] = g[n]}
<1>1. a \in P /\ \A n \in a .. L - 1 : n \in P => n + 1 \in P
  BY DEF Agree
<1>2. \A n \in a .. L : n \in P
  <2>. HIDE DEF P
  <2>. QED
    BY <1>1, Induction
<1>. QED
  BY <1>2

-----------------------------------------------------------------------------
(* Sequences. *)

LEMMA FrontLast ==
  ASSUME NEW S, NEW s \in Seq(S), s # <<>>
  PROVE  /\ Front(s) \in Seq(S) /\ Last(s) \in S
         /\ s = Append(Front(s), Last(s))
         /\ Len(Front(s)) = Len(s) - 1
         /\ \A i \in 1 .. Len(s) - 1 : Front(s)[i] = s[i]
<1>1. Len(s) \in Nat /\ Len(s) # 0
  BY EmptySeq
<1>2. PICK k \in Nat : k = Len(s) - 1
  BY <1>1
<1>3. /\ Front(s) \in Seq(S) /\ Len(Front(s)) = Len(s) - 1
      /\ \A i \in 1 .. Len(s) - 1 : Front(s)[i] = s[i]
  <2>1. \A i \in 1 .. k : s[i] \in S
    BY <1>1, <1>2
  <2>2. /\ SubSeq(s, 1, k) \in Seq(S)
        /\ Len(SubSeq(s, 1, k)) = IF 1 <= k THEN k - 1 + 1 ELSE 0
        /\ \A i \in 1 .. k - 1 + 1 : SubSeq(s, 1, k)[i] = s[1 + i - 1]
    BY <2>1, SubSeqProperties
  <2>3. Len(SubSeq(s, 1, k)) = k /\ \A i \in 1 .. k : SubSeq(s, 1, k)[i] = s[i]
    BY <2>2
  <2>. QED
    BY <1>2, <2>2, <2>3 DEF Front
<1>4. Last(s) \in S
  BY <1>1 DEF Last
<1>5. s = Append(Front(s), Last(s))
  <2>1. Append(Front(s), Last(s)) \in Seq(S) /\ Len(Append(Front(s), Last(s))) = Len(s)
    BY <1>1, <1>3, <1>4
  <2>2. \A i \in 1 .. Len(s) : Append(Front(s), Last(s))[i] = s[i]
    BY <1>1, <1>3, <1>4 DEF Last
  <2>. QED
    BY <2>1, <2>2, SeqEqual
<1>. QED
  BY <1>3, <1>4, <1>5

LEMMA FrontAppend ==
  ASSUME NEW S, NEW s \in Seq(S), NEW e \in S
  PROVE  Front(Append(s, e)) = s /\ Last(Append(s, e)) = e
<1>1. /\ Append(s, e) \in Seq(S) /\ Append(s, e) # <<>> /\ Len(Append(s, e)) = Len(s) + 1
      /\ Len(s) \in Nat
  BY AppendProperties
<1>2. Last(Append(s, e)) = e
  BY <1>1 DEF Last
<1>. DEFINE a == Append(s, e)
<1>3. Front(a) \in Seq(S) /\ a = Append(Front(a), Last(a)) /\ Last(a) \in S
  <2>. HIDE DEF a
  <2>. QED
    BY <1>1, FrontLast DEF a
<1>4. Append(s, e) = Append(Front(a), e)
  BY <1>2, <1>3
<1>5. s = Front(a)
  <2>. HIDE DEF a
  <2>. QED
    BY <1>3, <1>4, AppendInjective
<1>. QED
  BY <1>2, <1>5

\* The two strings of a code, and the string they make.
LEMMA CodeTyped ==
  ASSUME NEW c \in Strings \X Strings
  PROVE  /\ c[1] \in Strings /\ c[2] \in Strings /\ c = <<c[1], c[2]>>
         /\ c[1] \o c[2] \in Strings
         /\ Len(c[1]) \in Nat \ {0} /\ Len(c[2]) \in Nat \ {0}
         /\ Len(c[1] \o c[2]) = Len(c[1]) + Len(c[2])
         /\ c[1] \o c[2] # c[1] /\ c[1] \o c[2] # c[2]
<1>1. c[1] \in Strings /\ c[2] \in Strings /\ c = <<c[1], c[2]>>
  OBVIOUS
<1>2. \A x \in Strings : Len(x) \in Nat \ {0}
  BY EmptySeq DEF Strings
<1>3. \A x, y \in Strings : x \o y \in Seq(Letters \cup {EndOfWord}) /\ Len(x \o y) = Len(x) + Len(y)
  BY DEF Strings
<1>4. Len(c[1] \o c[2]) = Len(c[1]) + Len(c[2]) /\ c[1] \o c[2] \in Seq(Letters \cup {EndOfWord})
  BY <1>1, <1>3
<1>5. Len(c[1]) \in Nat \ {0} /\ Len(c[2]) \in Nat \ {0}
  BY <1>1, <1>2
<1>6. Len(c[1] \o c[2]) # 0 /\ Len(<<>>) = 0
  BY <1>4, <1>5
<1>7. c[1] \o c[2] # <<>>
  BY <1>6
<1>8. c[1] \o c[2] # c[1] /\ c[1] \o c[2] # c[2]
  BY <1>4, <1>5
<1>. QED
  BY <1>1, <1>4, <1>5, <1>7, <1>8 DEF Strings

-----------------------------------------------------------------------------
(* One merge. *)

\* A string that is pushed ends an occurrence of the pair, or is added.
LEMMA PushCases ==
  ASSUME NEW m \in Seq(Strings), NEW s \in Strings, NEW c \in Strings \X Strings
  PROVE  \/ /\ m # <<>> /\ m = Append(Front(m), c[1]) /\ s = c[2] /\ Front(m) \in Seq(Strings)
            /\ Push(m, s, c) = Append(Front(m), c[1] \o c[2])
         \/ /\ ~ (m # <<>> /\ Last(m) = c[1] /\ s = c[2])
            /\ Push(m, s, c) = Append(m, s)
<1>1. CASE m # <<>> /\ Last(m) = c[1] /\ s = c[2]
  <2>1. m = Append(Front(m), c[1]) /\ Front(m) \in Seq(Strings)
    BY <1>1, FrontLast
  <2>. QED
    BY <1>1, <2>1 DEF Push
<1>2. CASE ~ (m # <<>> /\ Last(m) = c[1] /\ s = c[2])
  BY <1>2 DEF Push
<1>. QED
  BY <1>1, <1>2

LEMMA PushTyped ==
  ASSUME NEW m \in Seq(Strings), NEW s \in Strings, NEW c \in Strings \X Strings
  PROVE  Push(m, s, c) \in Seq(Strings) /\ Push(m, s, c) # <<>>
<1>1. c[1] \o c[2] \in Strings
  BY CodeTyped
<1>2. CASE Push(m, s, c) = Append(Front(m), c[1] \o c[2]) /\ Front(m) \in Seq(Strings)
  BY <1>1, <1>2, AppendProperties
<1>3. CASE Push(m, s, c) = Append(m, s)
  BY <1>3, AppendProperties
<1>. QED
  BY <1>2, <1>3, PushCases

\* The strings of the word pushed one after the other.
Pushed(f, w, c) ==
  /\ f \in [0 .. Len(w) -> Seq(Strings)]
  /\ f[0] = <<>>
  /\ \A n \in 1 .. Len(w) : f[n] = Push(f[n - 1], w[n], c)
  /\ MergePair(w, c) = f[Len(w)]

LEMMA MergePairUnfolds ==
  ASSUME NEW w \in Seq(Strings), NEW c \in Strings \X Strings
  PROVE  \E f : Pushed(f, w, c)
<1>. DEFINE Eq(g) == g = [n \in 0 .. Len(w) |-> IF n = 0 THEN <<>> ELSE Push(g[n - 1], w[n], c)]
            F == CHOOSE g : Eq(g)
<1>0. PICK L \in Nat : L = Len(w)
  OBVIOUS
<1>1. \A n \in 1 .. L : w[n] \in Strings
  BY <1>0
<1>2. PICK step \in [(1 .. L) \X Seq(Strings) -> Seq(Strings)] :
        \A n \in 1 .. L, m \in Seq(Strings) : step[<<n, m>>] = Push(m, w[n], c)
  <2>. DEFINE st == [x \in (1 .. L) \X Seq(Strings) |-> Push(x[2], w[x[1]], c)]
  <2>1. st \in [(1 .. L) \X Seq(Strings) -> Seq(Strings)]
    BY <1>1, PushTyped
  <2>2. \A n \in 1 .. L, m \in Seq(Strings) : st[<<n, m>>] = Push(m, w[n], c)
    OBVIOUS
  <2>. HIDE DEF st
  <2>. QED
    BY <2>1, <2>2
<1>3. PICK f : Solution(f, Seq(Strings), L, <<>>, step)
  <2>1. <<>> \in Seq(Strings)
    OBVIOUS
  <2>. QED
    BY <2>1, SolutionExists
<1>4. \A n \in 1 .. L : f[n] = Push(f[n - 1], w[n], c)
  <2>1. \A n \in 1 .. L : n - 1 \in 0 .. L
    OBVIOUS
  <2>. QED
    BY <1>2, <1>3, <2>1 DEF Solution
<1>5. Eq(f)
  BY <1>0, <1>3, <1>4 DEF Solution
<1>6. Eq(F)
  <2>. HIDE DEF Eq
  <2>. QED
    BY <1>5
<1>7. PICK h : h = F
  OBVIOUS
<1>8. \A n \in 0 .. L : h[n] = f[n]
  <2>1. h[0] = f[0] /\ \A n \in 0 .. L - 1 : h[n] = f[n] => h[n + 1] = f[n + 1]
    <3>. HIDE DEF F
    <3>. QED
      BY <1>0, <1>3, <1>4, <1>6, <1>7 DEF Solution
  <2>2. Agree(h, f, 0, L)
    BY <2>1 DEF Agree
  <2>. QED
    BY <2>2, SolutionUnique
<1>9. MergePair(w, c) = F[L]
  BY <1>0 DEF MergePair
<1>10. Pushed(f, w, c)
  <2>. HIDE DEF F
  <2>. QED
    BY <1>0, <1>3, <1>4, <1>7, <1>8, <1>9 DEF Pushed, Solution
<1>. QED
  BY <1>10

LEMMA MergePairTyped ==
  ASSUME NEW w \in Seq(Strings), NEW c \in Strings \X Strings
  PROVE  MergePair(w, c) \in Seq(Strings) /\ (w # <<>> => MergePair(w, c) # <<>>)
<1>1. PICK f : Pushed(f, w, c)
  BY MergePairUnfolds
<1>2. PICK L \in Nat : L = Len(w)
  OBVIOUS
<1>3. MergePair(w, c) \in Seq(Strings)
  BY <1>1, <1>2 DEF Pushed
<1>4. ASSUME w # <<>> PROVE MergePair(w, c) # <<>>
  <2>1. L # 0
    BY <1>2, <1>4, EmptySeq
  <2>2. f[L] = Push(f[L - 1], w[L], c) /\ f[L - 1] \in Seq(Strings) /\ w[L] \in Strings
    BY <1>1, <1>2, <2>1 DEF Pushed
  <2>3. Push(f[L - 1], w[L], c) # <<>>
    BY <2>2, PushTyped
  <2>. QED
    BY <1>1, <1>2, <2>2, <2>3 DEF Pushed
<1>. QED
  BY <1>3, <1>4

LEMMA PairsAppend ==
  ASSUME NEW S, NEW s \in Seq(S), NEW e \in S
  PROVE  GetPairs(Append(s, e)) = GetPairs(s) \cup (IF s = <<>> THEN {} ELSE {<<Last(s), e>>})
<1>1. PICK L \in Nat : L = Len(s)
  OBVIOUS
<1>2. /\ Len(Append(s, e)) = L + 1
      /\ \A i \in 1 .. L : Append(s, e)[i] = s[i]
      /\ Append(s, e)[L + 1] = e
  BY <1>1, AppendProperties
<1>3. s = <<>> <=> L = 0
  BY <1>1, EmptySeq
<1>4. GetPairs(s) = {<<s[i], s[i + 1]>> : i \in 1 .. L - 1}
  BY <1>1 DEF GetPairs
<1>5. GetPairs(Append(s, e)) = {<<Append(s, e)[i], Append(s, e)[i + 1]>> : i \in 1 .. L}
  BY <1>2 DEF GetPairs
<1>6. \A i \in 1 .. L - 1 : <<Append(s, e)[i], Append(s, e)[i + 1]>> = <<s[i], s[i + 1]>>
  BY <1>2
<1>7. L # 0 => <<Append(s, e)[L], Append(s, e)[L + 1]>> = <<Last(s), e>>
  BY <1>1, <1>2 DEF Last
<1>8. CASE L = 0
  BY <1>3, <1>4, <1>5, <1>8
<1>9. CASE L # 0
  <2>. DEFINE p(i) == <<s[i], s[i + 1]>>
              q(i) == <<Append(s, e)[i], Append(s, e)[i + 1]>>
  <2>1. 1 .. L = (1 .. L - 1) \cup {L}
    BY <1>9
  <2>2. (\A i \in 1 .. L - 1 : q(i) = p(i)) /\ q(L) = <<Last(s), e>>
    BY <1>6, <1>7, <1>9
  <2>3. GetPairs(s) = {p(i) : i \in 1 .. L - 1} /\ GetPairs(Append(s, e)) = {q(i) : i \in 1 .. L}
    BY <1>4, <1>5
  <2>. HIDE DEF p, q
  <2>4. {q(i) : i \in 1 .. L} = {q(i) : i \in 1 .. L - 1} \cup {q(L)}
    BY <2>1
  <2>5. {q(i) : i \in 1 .. L - 1} = {p(i) : i \in 1 .. L - 1}
    BY <2>2
  <2>. QED
    BY <1>3, <1>9, <2>2, <2>3, <2>4, <2>5
<1>. QED
  BY <1>8, <1>9

\* A pair that does not occur is not merged.
LEMMA MergeIdentity ==
  ASSUME NEW w \in Seq(Strings), NEW c \in Strings \X Strings, c \notin GetPairs(w)
  PROVE  MergePair(w, c) = w
<1>1. PICK f : Pushed(f, w, c)
  BY MergePairUnfolds
<1>2. PICK L \in Nat : L = Len(w)
  OBVIOUS
<1>. DEFINE prefix(n) == SubSeq(w, 1, n)
            P == {n \in Nat : f[n] = prefix(n)}
<1>3. prefix(0) = <<>> /\ prefix(L) = w
  BY <1>2, SubSeqEmpty, SubSeqFull
<1>4. \A n \in 0 .. L - 1 :
        /\ prefix(n) \in Seq(Strings) /\ w[n + 1] \in Strings /\ Len(prefix(n)) = n
        /\ n # 0 => prefix(n)[n] = w[n]
        /\ prefix(n + 1) = Append(prefix(n), w[n + 1])
  BY <1>2
<1>5. ASSUME NEW n \in 0 .. L - 1, n \in P
      PROVE  n + 1 \in P
  <2>. HIDE DEF prefix
  <2>1. f[n] = prefix(n) /\ f[n + 1] = Push(prefix(n), w[n + 1], c)
    BY <1>1, <1>2, <1>5 DEF Pushed
  <2>2. ASSUME prefix(n) # <<>>, Last(prefix(n)) = c[1], w[n + 1] = c[2]
        PROVE  FALSE
    <3>1. n \in 1 .. L - 1 /\ Last(prefix(n)) = w[n]
      BY <1>4, <2>2, EmptySeq DEF Last
    <3>2. <<w[n], w[n + 1]>> \in GetPairs(w)
      BY <1>2, <3>1 DEF GetPairs
    <3>. QED
      BY <2>2, <3>1, <3>2, CodeTyped
  <2>3. Push(prefix(n), w[n + 1], c) = Append(prefix(n), w[n + 1])
    BY <2>2 DEF Push
  <2>4. f[n + 1] = prefix(n + 1) /\ n + 1 \in Nat
    BY <1>4, <2>1, <2>3
  <2>. QED
    BY <2>4
<1>. HIDE DEF prefix
<1>6. 0 \in P
  BY <1>1, <1>3 DEF Pushed
<1>7. \A n \in 0 .. L : n \in P
  <2>. HIDE DEF P
  <2>. QED
    BY <1>5, <1>6, Induction
<1>. QED
  BY <1>1, <1>2, <1>3, <1>7 DEF Pushed

\* A merge leaves no occurrence of the pair, and brings only pairs with the new string.
LEMMA MergeRemoves ==
  ASSUME NEW w \in Seq(Strings), NEW c \in Strings \X Strings
  PROVE  \A d \in GetPairs(MergePair(w, c)) :
           d # c /\ (d \in GetPairs(w) \/ d[1] = c[1] \o c[2] \/ d[2] = c[1] \o c[2])
<1>1. PICK f : Pushed(f, w, c)
  BY MergePairUnfolds
<1>2. PICK L \in Nat : L = Len(w)
  OBVIOUS
<1>3. PICK new : new = c[1] \o c[2]
  OBVIOUS
<1>. DEFINE Good(d) == d # c /\ (d \in GetPairs(w) \/ d[1] = new \/ d[2] = new)
            P == {n \in Nat : /\ \A d \in GetPairs(f[n]) : Good(d)
                              /\ n = 0 => f[n] = <<>>
                              /\ n # 0 => Last(f[n]) = w[n] \/ Last(f[n]) = new}
<1>4. new \in Strings /\ new # c[1] /\ new # c[2] /\ c = <<c[1], c[2]>> /\ c[1] \in Strings
  BY <1>3, CodeTyped
<1>5. 0 \in P
  <2>1. GetPairs(<<>>) = {}
    BY DEF GetPairs
  <2>. QED
    BY <1>1, <2>1 DEF Pushed
<1>6. ASSUME NEW n \in 0 .. L - 1, n \in P
      PROVE  n + 1 \in P
  <2>0. n \in 0 .. L /\ n + 1 \in 1 .. L /\ (n + 1) - 1 = n
    OBVIOUS
  <2>1. f[n] \in Seq(Strings) /\ w[n + 1] \in Strings /\ f[n + 1] = Push(f[n], w[n + 1], c)
    <3>. HIDE DEF P
    <3>1. \A k \in 1 .. L : f[k] = Push(f[k - 1], w[k], c)
      BY <1>1, <1>2 DEF Pushed
    <3>2. f[n + 1] = Push(f[(n + 1) - 1], w[n + 1], c)
      BY <2>0, <3>1
    <3>3. f[n] \in Seq(Strings)
      <4>1. f \in [0 .. L -> Seq(Strings)]
        BY <1>1, <1>2 DEF Pushed
      <4>. QED
        BY <2>0, <4>1
    <3>4. w[n + 1] \in Strings
      BY <1>2, <2>0
    <3>5. f[n + 1] = Push(f[n], w[n + 1], c)
      BY <2>0, <3>2
    <3>. QED
      BY <3>3, <3>4, <3>5
  <2>2. PICK m \in Seq(Strings), e \in Strings : m = f[n] /\ e = w[n + 1]
    BY <2>1
  <2>3. /\ \A d \in GetPairs(m) : Good(d)
        /\ n = 0 => m = <<>>
        /\ n # 0 => Last(m) = w[n] \/ Last(m) = new
    BY <1>6, <2>2
  <2>4. CASE /\ m # <<>> /\ m = Append(Front(m), c[1]) /\ e = c[2] /\ Front(m) \in Seq(Strings)
             /\ Push(m, e, c) = Append(Front(m), new)
    <3>1. PICK v \in Seq(Strings) : v = Front(m) /\ m = Append(v, c[1])
      BY <2>4
    <3>2. GetPairs(v) \subseteq GetPairs(m)
      <4>1. GetPairs(Append(v, c[1])) = GetPairs(v) \cup (IF v = <<>> THEN {} ELSE {<<Last(v), c[1]>>})
        BY <1>4, PairsAppend
      <4>. QED
        BY <3>1, <4>1
    <3>3. GetPairs(Append(v, new)) \subseteq GetPairs(v) \cup {<<Last(v), new>>}
      BY <1>4, PairsAppend
    <3>4. Good(<<Last(v), new>>)
      BY <1>4
    <3>5. Last(Append(v, new)) = new
      BY <1>4, FrontAppend
    <3>6. f[n + 1] = Append(v, new)
      BY <2>1, <2>2, <2>4, <3>1
    <3>7. \A d \in GetPairs(f[n + 1]) : Good(d)
      <4>. HIDE DEF Good
      <4>. QED
        BY <2>3, <3>2, <3>3, <3>4, <3>6
    <3>. HIDE DEF Good
    <3>8. n + 1 \in Nat /\ n + 1 # 0
      OBVIOUS
    <3>. QED
      BY <3>5, <3>6, <3>7, <3>8
  <2>5. CASE /\ ~ (m # <<>> /\ Last(m) = c[1] /\ e = c[2])
             /\ Push(m, e, c) = Append(m, e)
    <3>1. GetPairs(Append(m, e)) = GetPairs(m) \cup (IF m = <<>> THEN {} ELSE {<<Last(m), e>>})
      BY PairsAppend
    <3>2. ASSUME m # <<>> PROVE Good(<<Last(m), e>>)
      <4>1. <<Last(m), e>> # c
        BY <1>4, <2>5, <3>2
      <4>2. n \in 1 .. L - 1
        BY <2>3, <3>2
      <4>3. <<w[n], e>> \in GetPairs(w)
        BY <1>2, <2>2, <4>2 DEF GetPairs
      <4>. QED
        BY <2>3, <4>1, <4>2, <4>3
    <3>3. Last(Append(m, e)) = e
      BY FrontAppend
    <3>4. f[n + 1] = Append(m, e)
      BY <2>1, <2>2, <2>5
    <3>. HIDE DEF Good
    <3>5. \A d \in GetPairs(f[n + 1]) : Good(d)
      BY <2>3, <3>1, <3>2, <3>4
    <3>6. n + 1 \in Nat /\ n + 1 # 0
      OBVIOUS
    <3>. QED
      BY <2>2, <3>3, <3>4, <3>5, <3>6
  <2>. QED
    BY <1>3, <2>4, <2>5, PushCases
<1>7. \A n \in 0 .. L : n \in P
  <2>. HIDE DEF P
  <2>. QED
    BY <1>5, <1>6, Induction
<1>. QED
  BY <1>1, <1>2, <1>3, <1>7 DEF Pushed

-----------------------------------------------------------------------------
(* Strings put together. *)

Chars == Letters \cup {EndOfWord}

\* The strings joined from the left.
Joins(f, s, S) ==
  /\ f \in [0 .. Len(s) -> Seq(S)]
  /\ f[0] = <<>>
  /\ \A n \in 1 .. Len(s) : f[n] = f[n - 1] \o s[n]
  /\ FlattenSeq(s) = f[Len(s)]

LEMMA FlattenUnfolds ==
  ASSUME NEW S, NEW s \in Seq(Seq(S))
  PROVE  \E f : Joins(f, s, S)
<1>. DEFINE Eq(g) == g = [n \in 1 .. Len(s) |-> IF n = 1 THEN s[n] ELSE g[n - 1] \o s[n]]
            F == CHOOSE g : Eq(g)
<1>0. PICK L \in Nat : L = Len(s)
  OBVIOUS
<1>1. \A n \in 1 .. L : s[n] \in Seq(S)
  BY <1>0
<1>2. PICK step \in [(1 .. L) \X Seq(S) -> Seq(S)] :
        \A n \in 1 .. L, m \in Seq(S) : step[<<n, m>>] = m \o s[n]
  <2>. DEFINE st == [x \in (1 .. L) \X Seq(S) |-> x[2] \o s[x[1]]]
  <2>1. st \in [(1 .. L) \X Seq(S) -> Seq(S)]
    BY <1>1, ConcatProperties
  <2>2. \A n \in 1 .. L, m \in Seq(S) : st[<<n, m>>] = m \o s[n]
    OBVIOUS
  <2>. HIDE DEF st
  <2>. QED
    BY <2>1, <2>2
<1>3. PICK f : Solution(f, Seq(S), L, <<>>, step)
  <2>1. <<>> \in Seq(S)
    OBVIOUS
  <2>. QED
    BY <2>1, SolutionExists
<1>4. \A n \in 1 .. L : f[n] = f[n - 1] \o s[n]
  <2>1. \A n \in 1 .. L : n - 1 \in 0 .. L
    OBVIOUS
  <2>. QED
    BY <1>2, <1>3, <2>1 DEF Solution
<1>5. CASE L = 0
  <2>1. s = <<>> /\ f[0] = <<>>
    BY <1>0, <1>3, <1>5, EmptySeq DEF Solution
  <2>2. FlattenSeq(s) = s
    BY <1>0, <1>5 DEF FlattenSeq
  <2>3. Joins(f, s, S)
    BY <1>0, <1>3, <1>4, <1>5, <2>1, <2>2 DEF Joins, Solution
  <2>. QED
    BY <2>3
<1>6. CASE L # 0
  <2>1. f[1] = s[1]
    <3>1. 1 \in 1 .. L
      BY <1>6
    <3>2. f[1] = f[1 - 1] \o s[1] /\ s[1] \in Seq(S)
      BY <1>1, <1>4, <3>1
    <3>3. f[1 - 1] = <<>>
      BY <1>3 DEF Solution
    <3>. QED
      BY <3>2, <3>3, ConcatEmptySeq
  <2>. DEFINE g == [n \in 1 .. L |-> f[n]]
  <2>2. Eq(g)
    <3>1. \A n \in 1 .. L : g[n] = IF n = 1 THEN s[n] ELSE g[n - 1] \o s[n]
      <4>. SUFFICES ASSUME NEW n \in 1 .. L
                    PROVE  g[n] = IF n = 1 THEN s[n] ELSE g[n - 1] \o s[n]
        OBVIOUS
      <4>1. CASE n = 1
        BY <2>1, <4>1
      <4>2. CASE n # 1
        <5>1. n - 1 \in 1 .. L
          BY <4>2
        <5>. QED
          BY <1>4, <4>2, <5>1
      <4>. QED
        BY <4>1, <4>2
    <3>. QED
      BY <1>0, <3>1
  <2>3. Eq(F)
    <3>. HIDE DEF Eq, g
    <3>. QED
      BY <2>2
  <2>4. PICK h : h = F
    OBVIOUS
  <2>5. \A n \in 1 .. L : h[n] = f[n]
    <3>0. Eq(h)
      <4>. HIDE DEF Eq, F
      <4>. QED
        BY <2>3, <2>4
    <3>. HIDE DEF F
    <3>1. h[1] = s[1]
      BY <1>0, <1>6, <3>0
    <3>2. \A n \in 1 .. L - 1 : h[n + 1] = h[n] \o s[n + 1]
      <4>1. \A n \in 1 .. L - 1 : n + 1 \in 1 .. L /\ n + 1 # 1 /\ (n + 1) - 1 = n
        OBVIOUS
      <4>. QED
        BY <1>0, <3>0, <4>1
    <3>3. \A n \in 1 .. L - 1 : f[n + 1] = f[n] \o s[n + 1]
      <4>1. \A n \in 1 .. L - 1 : n + 1 \in 1 .. L /\ (n + 1) - 1 = n
        OBVIOUS
      <4>. QED
        BY <1>4, <4>1
    <3>4. Agree(h, f, 1, L)
      BY <2>1, <3>1, <3>2, <3>3 DEF Agree
    <3>. QED
      BY <3>4, SolutionUnique
  <2>6. FlattenSeq(s) = F[L]
    BY <1>0, <1>6 DEF FlattenSeq
  <2>7. Joins(f, s, S)
    <3>. HIDE DEF F
    <3>1. FlattenSeq(s) = f[L]
      BY <1>6, <2>4, <2>5, <2>6
    <3>. QED
      BY <1>0, <1>3, <1>4, <3>1 DEF Joins, Solution
  <2>. QED
    BY <2>7
<1>. QED
  BY <1>5, <1>6

LEMMA FlattenAppend ==
  ASSUME NEW S
  PROVE  /\ FlattenSeq(<<>>) = <<>>
         /\ \A s \in Seq(Seq(S)) : FlattenSeq(s) \in Seq(S)
         /\ \A s \in Seq(Seq(S)), e \in Seq(S) :
              FlattenSeq(Append(s, e)) = FlattenSeq(s) \o e
<1>1. FlattenSeq(<<>>) = <<>>
  BY DEF FlattenSeq
<1>2. ASSUME NEW s \in Seq(Seq(S)) PROVE FlattenSeq(s) \in Seq(S)
  <2>1. PICK f : Joins(f, s, S)
    BY FlattenUnfolds
  <2>2. Len(s) \in 0 .. Len(s)
    OBVIOUS
  <2>. QED
    BY <2>1, <2>2 DEF Joins
<1>3. ASSUME NEW s \in Seq(Seq(S)), NEW e \in Seq(S)
      PROVE  FlattenSeq(Append(s, e)) = FlattenSeq(s) \o e
  <2>1. PICK L \in Nat : L = Len(s)
    OBVIOUS
  <2>2. PICK t \in Seq(Seq(S)) : t = Append(s, e)
    BY AppendProperties
  <2>3. Len(t) = L + 1 /\ t[L + 1] = e /\ \A i \in 1 .. L : t[i] = s[i]
    BY <2>1, <2>2, AppendProperties
  <2>4. PICK f : Joins(f, s, S)
    BY FlattenUnfolds
  <2>5. PICK g : Joins(g, t, S)
    BY FlattenUnfolds
  <2>6. \A n \in 0 .. L - 1 : f[n + 1] = f[n] \o s[n + 1] /\ g[n + 1] = g[n] \o s[n + 1]
    <3>1. \A n \in 0 .. L - 1 : n + 1 \in 1 .. L /\ n + 1 \in 1 .. L + 1 /\ (n + 1) - 1 = n
      OBVIOUS
    <3>. QED
      BY <2>1, <2>3, <2>4, <2>5, <3>1 DEF Joins
  <2>7. Agree(f, g, 0, L)
    BY <2>4, <2>5, <2>6 DEF Agree, Joins
  <2>8. f[L] = g[L]
    BY <2>7, SolutionUnique
  <2>9. g[L + 1] = g[L] \o e
    <3>1. L + 1 \in 1 .. L + 1 /\ (L + 1) - 1 = L
      OBVIOUS
    <3>. QED
      BY <2>3, <2>5, <3>1 DEF Joins
  <2>10. FlattenSeq(s) = f[L]
    BY <2>1, <2>4 DEF Joins
  <2>11. FlattenSeq(t) = g[L + 1]
    BY <2>3, <2>5 DEF Joins
  <2>. QED
    BY <2>2, <2>8, <2>9, <2>10, <2>11
<1>. QED
  BY <1>1, <1>2, <1>3

\* A sequence of strings is a sequence of sequences of letters and "</w>".
LEMMA StringsAreSequences ==
  /\ \A s \in Seq(Strings) : s \in Seq(Seq(Chars))
  /\ \A x : x \in Strings <=> x \in Seq(Chars) /\ x # <<>>
<1>1. \A x : x \in Strings <=> x \in Seq(Chars) /\ x # <<>>
  BY DEF Strings, Chars
<1>. QED
  BY <1>1, SeqMonotonic

\* A merge does not change the text.
LEMMA PushKeepsText ==
  ASSUME NEW m \in Seq(Strings), NEW s \in Strings, NEW c \in Strings \X Strings
  PROVE  FlattenSeq(Push(m, s, c)) = FlattenSeq(m) \o s
<1>1. m \in Seq(Seq(Chars)) /\ s \in Seq(Chars)
  BY StringsAreSequences
<1>2. CASE Push(m, s, c) = Append(m, s)
  BY <1>1, <1>2, FlattenAppend
<1>3. CASE /\ m = Append(Front(m), c[1]) /\ s = c[2] /\ Front(m) \in Seq(Strings)
           /\ Push(m, s, c) = Append(Front(m), c[1] \o c[2])
  <2>1. PICK v \in Seq(Seq(Chars)) : v = Front(m)
    BY <1>3, StringsAreSequences
  <2>2. c[1] \in Seq(Chars) /\ c[2] \in Seq(Chars) /\ c[1] \o c[2] \in Seq(Chars)
    BY CodeTyped, StringsAreSequences
  <2>3. FlattenSeq(m) = FlattenSeq(v) \o c[1] /\ FlattenSeq(v) \in Seq(Chars)
    <3>1. FlattenSeq(Append(v, c[1])) = FlattenSeq(v) \o c[1] /\ FlattenSeq(v) \in Seq(Chars)
      BY <2>2, FlattenAppend
    <3>. QED
      BY <1>3, <2>1, <3>1
  <2>4. FlattenSeq(Append(v, c[1] \o c[2])) = FlattenSeq(v) \o (c[1] \o c[2])
    BY <2>2, FlattenAppend
  <2>5. (FlattenSeq(v) \o c[1]) \o c[2] = FlattenSeq(v) \o (c[1] \o c[2])
    <3>1. \A p, q, r \in Seq(Chars) : (p \o q) \o r = p \o (q \o r)
      BY ConcatAssociative
    <3>. QED
      BY <2>2, <2>3, <3>1
  <2>. QED
    BY <1>3, <2>1, <2>3, <2>4, <2>5
<1>. QED
  BY <1>2, <1>3, PushCases

LEMMA MergeKeepsText ==
  ASSUME NEW w \in Seq(Strings), NEW c \in Strings \X Strings
  PROVE  FlattenSeq(MergePair(w, c)) = FlattenSeq(w)
<1>1. PICK f : Pushed(f, w, c)
  BY MergePairUnfolds
<1>2. PICK g : Joins(g, w, Chars)
  BY FlattenUnfolds, StringsAreSequences
<1>3. PICK L \in Nat : L = Len(w)
  OBVIOUS
<1>. DEFINE P == {n \in Nat : FlattenSeq(f[n]) = g[n]}
<1>4. 0 \in P
  BY <1>1, <1>2, FlattenAppend DEF Pushed, Joins
<1>5. ASSUME NEW n \in 0 .. L - 1, n \in P
      PROVE  n + 1 \in P
  <2>1. n \in 0 .. L /\ n + 1 \in 1 .. L /\ (n + 1) - 1 = n /\ n + 1 \in Nat
    OBVIOUS
  <2>2. FlattenSeq(f[n]) = g[n]
    BY <1>5
  <2>. HIDE DEF P
  <2>3. f[n] \in Seq(Strings)
    <3>1. f \in [0 .. L -> Seq(Strings)]
      BY <1>1, <1>3 DEF Pushed
    <3>. QED
      BY <2>1, <3>1
  <2>4. w[n + 1] \in Strings
    BY <1>3, <2>1
  <2>5. f[n + 1] = Push(f[n], w[n + 1], c)
    BY <1>1, <1>3, <2>1 DEF Pushed
  <2>6. g[n + 1] = g[n] \o w[n + 1]
    BY <1>2, <1>3, <2>1 DEF Joins
  <2>7. FlattenSeq(f[n + 1]) = g[n + 1]
    BY <2>2, <2>3, <2>4, <2>5, <2>6, PushKeepsText
  <2>. QED
    BY <2>1, <2>7 DEF P
<1>6. \A n \in 0 .. L : n \in P
  <2>. HIDE DEF P
  <2>. QED
    BY <1>4, <1>5, Induction
<1>7. FlattenSeq(f[L]) = g[L]
  BY <1>6
<1>. QED
  BY <1>1, <1>2, <1>3, <1>7 DEF Pushed, Joins

\* The letters of a word and "</w>".
LEMMA WholeText ==
  ASSUME NEW u \in Seq(Letters)
  PROVE  Whole(u) \in Seq(Strings) /\ FlattenSeq(Whole(u)) = Append(u, EndOfWord)
<1>. DEFINE T == {v \in Seq(Letters) : /\ SplitWordIntoLetters(v) \in Seq(Strings)
                                       /\ FlattenSeq(SplitWordIntoLetters(v)) = v}
<1>1. <<>> \in T
  <2>1. SplitWordIntoLetters(<<>>) = <<>>
    BY DEF SplitWordIntoLetters
  <2>2. FlattenSeq(<<>>) = <<>>
    BY FlattenAppend
  <2>3. <<>> \in Seq(Strings) /\ <<>> \in Seq(Letters)
    OBVIOUS
  <2>4. FlattenSeq(SplitWordIntoLetters(<<>>)) = <<>> /\ SplitWordIntoLetters(<<>>) \in Seq(Strings)
    BY <2>1, <2>2, <2>3
  <2>. QED
    BY <2>3, <2>4
<1>2. \A x \in Chars : <<x>> \in Strings
  BY DEF Strings, Chars
<1>3. ASSUME NEW v \in Seq(Letters), NEW e \in Letters, v \in T
      PROVE  Append(v, e) \in T
  <2>1. PICK sp : sp = SplitWordIntoLetters(v)
    OBVIOUS
  <2>2. sp \in Seq(Strings) /\ FlattenSeq(sp) = v /\ Len(sp) = Len(v)
    BY <1>3, <2>1 DEF SplitWordIntoLetters
  <2>3. <<e>> \in Strings
    BY <1>2 DEF Chars
  <2>4. SplitWordIntoLetters(Append(v, e)) = Append(sp, <<e>>)
    BY <2>1 DEF SplitWordIntoLetters
  <2>5. FlattenSeq(Append(sp, <<e>>)) = v \o <<e>>
    BY <2>2, <2>3, FlattenAppend, StringsAreSequences
  <2>6. v \o <<e>> = Append(v, e)
    BY AppendIsConcat
  <2>7. Append(sp, <<e>>) \in Seq(Strings) /\ Append(v, e) \in Seq(Letters)
    BY <2>2, <2>3
  <2>. QED
    BY <2>4, <2>5, <2>6, <2>7
<1>4. u \in T
  <2>. HIDE DEF T
  <2>. QED
    BY <1>1, <1>3, SeqInduction
<1>5. PICK sp \in Seq(Strings) : sp = SplitWordIntoLetters(u) /\ FlattenSeq(sp) = u
  BY <1>4
<1>6. <<EndOfWord>> \in Strings /\ u \in Seq(Chars)
  BY <1>2, SeqMonotonic DEF Chars
<1>7. FlattenSeq(Append(sp, <<EndOfWord>>)) = u \o <<EndOfWord>>
  BY <1>5, <1>6, FlattenAppend, StringsAreSequences
<1>8. u \o <<EndOfWord>> = Append(u, EndOfWord)
  BY <1>6, AppendIsConcat DEF Chars
<1>. QED
  BY <1>5, <1>6, <1>7, <1>8 DEF Whole

-----------------------------------------------------------------------------
(* The ends of strings. *)

LEMMA ReverseOf ==
  ASSUME NEW S, NEW s \in Seq(S)
  PROVE  /\ Reverse(s) \in Seq(S) /\ Len(Reverse(s)) = Len(s)
         /\ \A i \in 1 .. Len(s) : Reverse(s)[i] = s[(Len(s) - i) + 1]
<1>1. PICK L \in Nat : L = Len(s)
  OBVIOUS
<1>2. \A i \in 1 .. L : s[(L - i) + 1] \in S
  <2>1. \A i \in 1 .. L : (L - i) + 1 \in 1 .. L
    OBVIOUS
  <2>. QED
    BY <1>1, <2>1
<1>3. Reverse(s) = [i \in 1 .. L |-> s[(L - i) + 1]]
  BY <1>1 DEF Reverse
<1>4. Reverse(s) \in Seq(S) /\ Len(Reverse(s)) = L
  BY <1>2, <1>3
<1>. QED
  BY <1>1, <1>3, <1>4

LEMMA EndsWithMeans ==
  ASSUME NEW S, NEW s \in Seq(S), NEW x \in Seq(S)
  PROVE  EndsWith(s, x) <=>
           Len(x) <= Len(s) /\ \A i \in 1 .. Len(x) : s[(Len(s) - Len(x)) + i] = x[i]
<1>1. PICK L \in Nat, K \in Nat : L = Len(s) /\ K = Len(x)
  OBVIOUS
<1>2. PICK rs \in Seq(S), rx \in Seq(S) : rs = Reverse(s) /\ rx = Reverse(x)
  BY ReverseOf
<1>3. /\ Len(rs) = L /\ Len(rx) = K
      /\ \A i \in 1 .. L : rs[i] = s[(L - i) + 1]
      /\ \A i \in 1 .. K : rx[i] = x[(K - i) + 1]
  BY <1>1, <1>2, ReverseOf
<1>4. EndsWith(s, x) <=> K <= L /\ SubSeq(rx, 1, K) = SubSeq(rs, 1, K)
  BY <1>2, <1>3 DEF EndsWith, IsSuffix, IsPrefix
<1>5. CASE ~ K <= L
  BY <1>1, <1>4, <1>5
<1>6. CASE K <= L
  <2>1. \A i \in 1 .. K : rx[i] \in S /\ rs[i] \in S
    BY <1>3, <1>6
  <2>2. /\ SubSeq(rx, 1, K) \in Seq(S) /\ SubSeq(rs, 1, K) \in Seq(S)
        /\ Len(SubSeq(rx, 1, K)) = K /\ Len(SubSeq(rs, 1, K)) = K
        /\ \A i \in 1 .. K : SubSeq(rx, 1, K)[i] = rx[i] /\ SubSeq(rs, 1, K)[i] = rs[i]
    BY <1>3, <1>6
  <2>3. SubSeq(rx, 1, K) = SubSeq(rs, 1, K) <=> \A i \in 1 .. K : rx[i] = rs[i]
    <3>1. SubSeq(rx, 1, K) = SubSeq(rs, 1, K) => \A i \in 1 .. K : rx[i] = rs[i]
      BY <2>2
    <3>2. (\A i \in 1 .. K : rx[i] = rs[i]) => SubSeq(rx, 1, K) = SubSeq(rs, 1, K)
      BY <2>2, SeqEqual
    <3>. QED
      BY <3>1, <3>2
  <2>4. ASSUME \A i \in 1 .. K : rx[i] = rs[i], NEW i \in 1 .. K
        PROVE  s[(L - K) + i] = x[i]
    <3>1. (K - i) + 1 \in 1 .. K /\ (K - i) + 1 \in 1 .. L
      BY <1>6
    <3>2. rx[(K - i) + 1] = x[(K - ((K - i) + 1)) + 1] /\ rs[(K - i) + 1] = s[(L - ((K - i) + 1)) + 1]
      BY <1>3, <3>1
    <3>3. (K - ((K - i) + 1)) + 1 = i /\ (L - ((K - i) + 1)) + 1 = (L - K) + i
      OBVIOUS
    <3>. QED
      BY <2>4, <3>1, <3>2, <3>3
  <2>5. ASSUME \A i \in 1 .. K : s[(L - K) + i] = x[i], NEW i \in 1 .. K
        PROVE  rx[i] = rs[i]
    <3>1. (K - i) + 1 \in 1 .. K /\ i \in 1 .. L
      BY <1>6
    <3>2. s[(L - K) + ((K - i) + 1)] = x[(K - i) + 1]
      BY <2>5, <3>1
    <3>3. (L - K) + ((K - i) + 1) = (L - i) + 1
      OBVIOUS
    <3>. QED
      BY <1>3, <3>1, <3>2, <3>3
  <2>6. (\A i \in 1 .. K : rx[i] = rs[i]) <=> (\A i \in 1 .. K : s[(L - K) + i] = x[i])
    BY <2>4, <2>5
  <2>. QED
    BY <1>1, <1>4, <1>6, <2>3, <2>6
<1>. QED
  BY <1>5, <1>6

\* What is put after a string is its end, and only its own end is an end of the whole.
LEMMA EndsWithConcat ==
  ASSUME NEW S, NEW s \in Seq(S), NEW x \in Seq(S)
  PROVE  /\ EndsWith(s \o x, x)
         /\ SubSeq(s \o x, 1, Len(s \o x) - Len(x)) = s
         /\ \A y \in Seq(S) : EndsWith(x, y) => EndsWith(s \o x, y)
<1>1. PICK L \in Nat, K \in Nat : L = Len(s) /\ K = Len(x)
  OBVIOUS
<1>2. PICK t \in Seq(S) : t = s \o x
  BY ConcatProperties
<1>3. /\ Len(t) = L + K
      /\ \A i \in 1 .. L : t[i] = s[i]
      /\ \A i \in 1 .. K : t[L + i] = x[i]
  BY <1>1, <1>2
<1>4. EndsWith(t, x)
  <2>1. K <= L + K /\ (L + K) - K = L
    OBVIOUS
  <2>. QED
    BY <1>1, <1>3, <2>1, EndsWithMeans, ZenonT(60)
<1>5. SubSeq(t, 1, (L + K) - K) = s
  <2>1. (L + K) - K = L
    OBVIOUS
  <2>2. \A i \in 1 .. L : t[i] \in S
    BY <1>3
  <2>3. SubSeq(t, 1, L) \in Seq(S) /\ Len(SubSeq(t, 1, L)) = L /\ \A i \in 1 .. L : SubSeq(t, 1, L)[i] = s[i]
    BY <1>3, <2>2
  <2>. QED
    BY <1>1, <2>1, <2>3, SeqEqual
<1>6. ASSUME NEW y \in Seq(S), EndsWith(x, y)
      PROVE  EndsWith(t, y)
  <2>1. PICK M \in Nat : M = Len(y)
    OBVIOUS
  <2>2. M <= K /\ \A i \in 1 .. M : x[(K - M) + i] = y[i]
    <3>1. Len(y) <= Len(x) /\ \A i \in 1 .. Len(y) : x[(Len(x) - Len(y)) + i] = y[i]
      BY <1>6, EndsWithMeans
    <3>. QED
      BY <1>1, <2>1, <3>1
  <2>3. ASSUME NEW i \in 1 .. M
        PROVE  t[((L + K) - M) + i] = y[i]
    <3>1. (K - M) + i \in 1 .. K /\ L + ((K - M) + i) = ((L + K) - M) + i
      BY <2>2
    <3>2. t[L + ((K - M) + i)] = x[(K - M) + i] /\ x[(K - M) + i] = y[i]
      BY <1>3, <2>2, <3>1
    <3>. QED
      BY <3>1, <3>2
  <2>4. Len(y) <= Len(t) /\ \A i \in 1 .. Len(y) : t[(Len(t) - Len(y)) + i] = y[i]
    BY <1>3, <2>1, <2>2, <2>3
  <2>. QED
    BY <2>4, EndsWithMeans
<1>. QED
  BY <1>1, <1>2, <1>3, <1>4, <1>5, <1>6

LEMMA EndsWithOne ==
  ASSUME NEW S, NEW s \in Seq(S), NEW e \in S
  PROVE  EndsWith(s, <<e>>) <=> s # <<>> /\ Last(s) = e
<1>1. PICK L \in Nat : L = Len(s)
  OBVIOUS
<1>2. s # <<>> <=> 1 <= L
  BY <1>1, EmptySeq
<1>3. PICK x \in Seq(S) : x = <<e>> /\ Len(x) = 1 /\ x[1] = e
  <2>1. <<e>> \in Seq(S) /\ Len(<<e>>) = 1 /\ <<e>>[1] = e
    OBVIOUS
  <2>. QED
    BY <2>1, Zenon
<1>4. (L - 1) + 1 = L /\ 1 .. 1 = {1}
  OBVIOUS
<1>5. EndsWith(s, x) <=> 1 <= L /\ \A i \in 1 .. 1 : s[(L - 1) + i] = x[i]
  <2>1. EndsWith(s, x) <=>
          Len(x) <= Len(s) /\ \A i \in 1 .. Len(x) : s[(Len(s) - Len(x)) + i] = x[i]
    BY EndsWithMeans
  <2>. QED
    BY <1>1, <1>3, <2>1, Zenon
<1>6. EndsWith(s, x) <=> 1 <= L /\ s[L] = e
  BY <1>3, <1>4, <1>5
<1>. QED
  BY <1>1, <1>2, <1>3, <1>6 DEF Last

\* The parts of a word without "</w>" are without it, and the other way round.
LEMMA ConcatLetters ==
  ASSUME NEW S, NEW A, A \subseteq S, NEW s \in Seq(S), NEW t \in Seq(S)
  PROVE  s \o t \in Seq(A) <=> s \in Seq(A) /\ t \in Seq(A)
<1>1. PICK L \in Nat, K \in Nat : L = Len(s) /\ K = Len(t)
  OBVIOUS
<1>2. ASSUME s \o t \in Seq(A) PROVE s \in Seq(A) /\ t \in Seq(A)
  <2>1. PICK r \in Seq(A) : r = s \o t
    BY <1>2
  <2>2. /\ Len(r) = L + K
        /\ \A i \in 1 .. L : r[i] = s[i]
        /\ \A i \in 1 .. K : r[L + i] = t[i]
    BY <1>1, <2>1
  <2>3. \A i \in 1 .. L + K : r[i] \in A
    BY <2>2
  <2>4. \A i \in 1 .. L : s[i] \in A
    BY <2>2, <2>3
  <2>5. \A i \in 1 .. K : t[i] \in A
    <3>1. \A i \in 1 .. K : L + i \in 1 .. L + K
      OBVIOUS
    <3>. QED
      BY <2>2, <2>3, <3>1
  <2>. QED
    BY <1>1, <2>4, <2>5
<1>3. ASSUME s \in Seq(A), t \in Seq(A) PROVE s \o t \in Seq(A)
  BY <1>3, ConcatProperties
<1>. QED
  BY <1>2, <1>3

LEMMA FlattenLetters ==
  \A w \in Seq(Strings) : FlattenSeq(w) \in Seq(Letters) => w \in Seq(Seq(Letters) \ {<<>>})
<1>. DEFINE T == {w \in Seq(Strings) : FlattenSeq(w) \in Seq(Letters) => w \in Seq(Seq(Letters) \ {<<>>})}
<1>1. <<>> \in T
  OBVIOUS
<1>2. ASSUME NEW w \in Seq(Strings), NEW e \in Strings, w \in T
      PROVE  Append(w, e) \in T
  <2>1. Append(w, e) \in Seq(Strings)
    OBVIOUS
  <2>2. ASSUME FlattenSeq(Append(w, e)) \in Seq(Letters)
        PROVE  Append(w, e) \in Seq(Seq(Letters) \ {<<>>})
    <3>1. FlattenSeq(Append(w, e)) = FlattenSeq(w) \o e /\ FlattenSeq(w) \in Seq(Chars) /\ e \in Seq(Chars)
      BY FlattenAppend, StringsAreSequences
    <3>2. Letters \subseteq Chars
      BY DEF Chars
    <3>3. FlattenSeq(w) \in Seq(Letters) /\ e \in Seq(Letters)
      BY <2>2, <3>1, <3>2, ConcatLetters
    <3>4. w \in Seq(Seq(Letters) \ {<<>>}) /\ e \in Seq(Letters) \ {<<>>}
      BY <1>2, <3>3, StringsAreSequences
    <3>. QED
      BY <3>4, AppendProperties
  <2>. QED
    BY <2>1, <2>2
<1>3. \A w \in Seq(Strings) : w \in T
  <2>. HIDE DEF T
  <2>. QED
    BY <1>1, <1>2, SeqInduction
<1>. QED
  BY <1>3

\* The strings of a word.
Splits(t, u) == t \in Seq(Seq(Letters) \ {<<>>}) /\ t # <<>> /\ FlattenSeq(t) = u

\* What is left of an encoded word without "</w>".
LEMMA TrimmedText ==
  ASSUME NEW w \in Seq(Strings), NEW u \in Seq(Letters),
         FlattenSeq(w) = Append(u, EndOfWord), w # <<<<EndOfWord>>>>
  PROVE  Splits(Trimmed(w), u)
<1>0. /\ EndOfWord \in Chars /\ u \in Seq(Chars) /\ Letters \subseteq Chars /\ EndOfWord \notin Letters
      /\ \A x \in Seq(Letters) : x \in Seq(Chars)
  BY EndOfWordAssumption, SeqMonotonic DEF Chars
<1>1. w # <<>>
  <2>1. Append(u, EndOfWord) # <<>>
    BY <1>0, AppendProperties
  <2>2. FlattenSeq(<<>>) = <<>>
    BY FlattenAppend
  <2>. QED
    BY <2>1, <2>2
<1>2. PICK v \in Seq(Strings), e \in Strings :
        w = Append(v, e) /\ Front(w) = v /\ Last(w) = e
  BY <1>1, FrontLast
<1>3. PICK a \in Seq(Chars) : a = FlattenSeq(v) /\ a \o e = Append(u, EndOfWord)
  <2>1. FlattenSeq(Append(v, e)) = FlattenSeq(v) \o e /\ FlattenSeq(v) \in Seq(Chars)
    BY FlattenAppend, StringsAreSequences
  <2>2. FlattenSeq(v) \o e = Append(u, EndOfWord)
    BY <1>2, <2>1
  <2>. QED
    BY <2>1, <2>2
<1>4. e \in Seq(Chars) /\ e # <<>>
  BY StringsAreSequences
<1>5. PICK b \in Seq(Chars), x \in Chars :
        e = Append(b, x) /\ Front(e) = b /\ Last(e) = x
  BY <1>4, FrontLast
<1>6. a \o e = Append(a \o b, x) /\ a \o b \in Seq(Chars)
  <2>1. e = b \o <<x>> /\ <<x>> \in Seq(Chars)
    BY <1>5, AppendIsConcat
  <2>2. a \o (b \o <<x>>) = (a \o b) \o <<x>>
    BY <2>1, ConcatAssociative
  <2>3. a \o b \in Seq(Chars)
    BY ConcatProperties
  <2>4. (a \o b) \o <<x>> = Append(a \o b, x)
    BY <2>3, AppendIsConcat
  <2>. QED
    BY <2>1, <2>2, <2>3, <2>4
<1>7. a \o b = u /\ x = EndOfWord
  <2>1. PICK ab \in Seq(Chars) : ab = a \o b
    BY <1>6
  <2>2. Append(ab, x) = Append(u, EndOfWord)
    BY <1>3, <1>6, <2>1
  <2>3. ab = u /\ x = EndOfWord
    BY <1>0, <2>2, AppendInjective
  <2>. QED
    BY <2>1, <2>3
<1>8. a \in Seq(Letters) /\ b \in Seq(Letters)
  BY <1>0, <1>7, ConcatLetters
<1>9. v \in Seq(Seq(Letters) \ {<<>>})
  BY <1>3, <1>8, FlattenLetters
<1>10. CASE b = <<>>
  <2>1. e = <<EndOfWord>> /\ a = u
    BY <1>5, <1>7, <1>8, <1>10
  <2>2. v # <<>>
    <3>1. Append(<<>>, e) = <<e>>
      OBVIOUS
    <3>. QED
      BY <1>2, <2>1, <3>1
  <2>3. PICK v2 \in Seq(Seq(Letters) \ {<<>>}), y \in Seq(Letters) \ {<<>>} :
          v = Append(v2, y) /\ Front(v) = v2 /\ Last(v) = y
    BY <1>9, <2>2, FrontLast
  <2>4. Last(y) \in Letters /\ y \in Seq(Chars)
    BY <1>0, FrontLast
  <2>5. Last(y) # EndOfWord
    BY <1>0, <2>4
  <2>6. ~ EndsWith(y, <<EndOfWord>>)
    BY <1>0, <2>4, <2>5, EndsWithOne
  <2>7. Chop(Last(v)) = y
    BY <2>3, <2>6 DEF Chop
  <2>8. Trimmed(w) = v
    BY <1>2, <2>1, <2>3, <2>7 DEF Trimmed
  <2>. QED
    BY <1>3, <1>9, <2>1, <2>2, <2>8 DEF Splits
<1>11. CASE b # <<>>
  <2>1. e # <<EndOfWord>>
    <3>1. Len(e) = Len(b) + 1 /\ Len(b) # 0
      BY <1>5, <1>11, AppendProperties, EmptySeq
    <3>2. Len(e) # 1
      BY <3>1
    <3>. QED
      BY <3>2
  <2>2. EndsWith(e, <<EndOfWord>>)
    BY <1>0, <1>4, <1>5, <1>7, EndsWithOne
  <2>3. Chop(Last(w)) = b
    BY <1>2, <1>5, <2>2 DEF Chop
  <2>4. Trimmed(w) = Append(v, b)
    BY <1>2, <2>1, <2>3 DEF Trimmed
  <2>5. b \in Seq(Letters) \ {<<>>}
    BY <1>8, <1>11
  <2>6. FlattenSeq(Append(v, b)) = a \o b
    BY <1>3, <1>5, FlattenAppend, StringsAreSequences
  <2>7. Append(v, b) \in Seq(Seq(Letters) \ {<<>>}) /\ Append(v, b) # <<>>
    <3>1. PICK W : W = Seq(Letters) \ {<<>>}
      OBVIOUS
    <3>2. v \in Seq(W) /\ b \in W
      BY <1>9, <2>5, <3>1
    <3>3. Append(v, b) \in Seq(W) /\ Append(v, b) # <<>>
      BY <3>2, AppendProperties
    <3>. QED
      BY <3>1, <3>3
  <2>. QED
    BY <1>7, <2>4, <2>6, <2>7 DEF Splits
<1>. QED
  BY <1>10, <1>11

-----------------------------------------------------------------------------
(* The codes file. *)

\* The rank of a code counts the lines before its last one.
LEMMA RankOf ==
  ASSUME file \in Seq(Strings \X Strings), NEW c \in Codes
  PROVE  /\ Rank(c) \in 0 .. Len(file) - 1
         /\ file[Rank(c) + 1] = c
         /\ \A i \in DOMAIN file : file[i] = c => i - 1 <= Rank(c)
<1>1. PICK L \in Nat : L = Len(file) /\ DOMAIN file = 1 .. L
  BY LenProperties
<1>. DEFINE I == {i \in DOMAIN file : file[i] = c}
            D == {n \in Nat : n <= L /\ L - n \in I}
<1>2. PICK j \in I : TRUE
  BY DEF Codes
<1>3. D \subseteq Nat /\ L - j \in D
  BY <1>1
<1>4. PICK n \in D : \A k \in D : n <= k
  <2>. HIDE DEF D
  <2>. QED
    BY <1>3, LeastElement
<1>5. L - n \in I /\ \A i \in I : L - n >= i
  <2>1. ASSUME NEW i \in I PROVE L - n >= i
    <3>1. i \in 1 .. L /\ L - (L - i) = i
      BY <1>1
    <3>2. L - i \in D
      BY <3>1
    <3>3. n \in Nat /\ n <= L - i
      BY <1>4, <3>2
    <3>. QED
      BY <3>1, <3>3
  <2>. QED
    BY <2>1
<1>6. \E x \in I : \A i \in I : x >= i
  <2>. HIDE DEF I
  <2>. QED
    BY <1>5
<1>7. Max(I) \in I /\ \A i \in I : Max(I) >= i
  <2>. HIDE DEF I
  <2>. QED
    BY <1>6 DEF Max
<1>8. Rank(c) = Max(I) - 1
  BY DEF Rank
<1>9. PICK r \in I : r = Max(I)
  <2>. HIDE DEF I
  <2>. QED
    BY <1>7
<1>10. r \in 1 .. L /\ file[r] = c /\ Rank(c) = r - 1 /\ \A i \in I : i <= r
  <2>1. \A i \in I : r >= i
    <3>. HIDE DEF I
    <3>. QED
      BY <1>7, <1>9
  <2>2. Rank(c) = r - 1
    <3>. HIDE DEF I
    <3>. QED
      BY <1>8, <1>9
  <2>. QED
    BY <1>1, <2>1, <2>2
<1>11. (r - 1) + 1 = r
  BY <1>10
<1>. QED
  BY <1>1, <1>10, <1>11

LEMMA BestIs ==
  ASSUME file \in Seq(Strings \X Strings), NEW pairs, Candidates(pairs) # {}
  PROVE  /\ Best(pairs) \in Candidates(pairs)
         /\ Best(pairs) \in pairs /\ Best(pairs) \in Codes /\ Best(pairs) \in Strings \X Strings
         /\ \A d \in Candidates(pairs) : Rank(Best(pairs)) <= Rank(d)
<1>1. PICK K : K = Candidates(pairs)
  OBVIOUS
<1>2. K \subseteq Codes /\ K \subseteq pairs /\ K # {}
  BY <1>1 DEF Candidates
<1>. DEFINE R == {Rank(c) : c \in K}
<1>3. R \subseteq Nat /\ R # {}
  BY <1>2, RankOf
<1>4. PICK r \in R : \A x \in R : r <= x
  <2>. HIDE DEF R
  <2>. QED
    BY <1>3, LeastElement
<1>5. PICK b \in K : \A d \in K : Rank(b) <= Rank(d)
  BY <1>4
<1>6. Best(pairs) = CHOOSE c \in K : \A d \in K : Rank(c) <= Rank(d)
  BY <1>1 DEF Best
<1>7. Best(pairs) \in K /\ \A d \in K : Rank(Best(pairs)) <= Rank(d)
  BY <1>5, <1>6
<1>8. Codes \subseteq Strings \X Strings
  BY DEF Codes
<1>. QED
  BY <1>1, <1>2, <1>7, <1>8

\* The lines of a file applied one after the other.
Applies(f, w, k) ==
  /\ f \in [0 .. k -> Seq(Strings)]
  /\ f[0] = Whole(w)
  /\ \A n \in 1 .. k : f[n] = MergePair(f[n - 1], file[n])
  /\ Applied(w, k) = f[k]

LEMMA AppliedUnfolds ==
  ASSUME file \in Seq(Strings \X Strings), NEW w \in Seq(Letters), NEW k \in 0 .. Len(file)
  PROVE  \E f : Applies(f, w, k)
<1>. DEFINE Eq(g) == g = [n \in 0 .. k |-> IF n = 0 THEN Whole(w) ELSE MergePair(g[n - 1], file[n])]
            F == CHOOSE g : Eq(g)
<1>0. k \in Nat
  OBVIOUS
<1>1. \A n \in 1 .. k : file[n] \in Strings \X Strings
  OBVIOUS
<1>2. PICK step \in [(1 .. k) \X Seq(Strings) -> Seq(Strings)] :
        \A n \in 1 .. k, m \in Seq(Strings) : step[<<n, m>>] = MergePair(m, file[n])
  <2>. DEFINE st == [x \in (1 .. k) \X Seq(Strings) |-> MergePair(x[2], file[x[1]])]
  <2>1. st \in [(1 .. k) \X Seq(Strings) -> Seq(Strings)]
    BY <1>1, MergePairTyped
  <2>2. \A n \in 1 .. k, m \in Seq(Strings) : st[<<n, m>>] = MergePair(m, file[n])
    OBVIOUS
  <2>. HIDE DEF st
  <2>. QED
    BY <2>1, <2>2
<1>3. PICK f : Solution(f, Seq(Strings), k, Whole(w), step)
  BY <1>0, WholeText, SolutionExists
<1>4. \A n \in 1 .. k : f[n] = MergePair(f[n - 1], file[n])
  <2>1. \A n \in 1 .. k : n - 1 \in 0 .. k
    OBVIOUS
  <2>. QED
    BY <1>2, <1>3, <2>1 DEF Solution
<1>5. Eq(f)
  BY <1>3, <1>4 DEF Solution
<1>6. Eq(F)
  <2>. HIDE DEF Eq
  <2>. QED
    BY <1>5
<1>7. PICK h : h = F
  OBVIOUS
<1>8. \A n \in 0 .. k : h[n] = f[n]
  <2>1. h[0] = f[0] /\ \A n \in 0 .. k - 1 : h[n] = f[n] => h[n + 1] = f[n + 1]
    <3>. HIDE DEF F
    <3>. QED
      BY <1>3, <1>4, <1>6, <1>7 DEF Solution
  <2>2. Agree(h, f, 0, k)
    BY <2>1 DEF Agree
  <2>. QED
    BY <1>0, <2>2, SolutionUnique
<1>9. Applied(w, k) = F[k]
  BY DEF Applied
<1>10. Applies(f, w, k)
  <2>. HIDE DEF F
  <2>. QED
    BY <1>3, <1>4, <1>7, <1>8, <1>9 DEF Applies, Solution
<1>. QED
  BY <1>10

LEMMA AppliedSteps ==
  ASSUME file \in Seq(Strings \X Strings), NEW w \in Seq(Letters)
  PROVE  /\ Applied(w, 0) = Whole(w)
         /\ \A k \in 0 .. Len(file) : Applied(w, k) \in Seq(Strings)
         /\ \A k \in 0 .. Len(file) - 1 : Applied(w, k + 1) = MergePair(Applied(w, k), file[k + 1])
<1>1. PICK L \in Nat : L = Len(file)
  OBVIOUS
<1>2. Applied(w, 0) = Whole(w)
  <2>1. 0 \in 0 .. Len(file)
    BY <1>1
  <2>. QED
    BY <2>1, AppliedUnfolds DEF Applies
<1>3. ASSUME NEW k \in 0 .. L PROVE Applied(w, k) \in Seq(Strings)
  <2>1. PICK f : Applies(f, w, k)
    BY <1>1, AppliedUnfolds
  <2>. QED
    BY <2>1 DEF Applies
<1>4. ASSUME NEW k \in 0 .. L - 1 PROVE Applied(w, k + 1) = MergePair(Applied(w, k), file[k + 1])
  <2>1. k \in 0 .. L /\ k + 1 \in 0 .. L /\ k \in Nat /\ (k + 1) - 1 = k /\ k + 1 \in 1 .. k + 1
    OBVIOUS
  <2>2. PICK f : Applies(f, w, k)
    BY <1>1, <2>1, AppliedUnfolds
  <2>3. PICK g : Applies(g, w, k + 1)
    BY <1>1, <2>1, AppliedUnfolds
  <2>4. \A n \in 0 .. k - 1 : f[n + 1] = MergePair(f[n], file[n + 1]) /\ g[n + 1] = MergePair(g[n], file[n + 1])
    <3>1. \A n \in 0 .. k - 1 : n + 1 \in 1 .. k /\ n + 1 \in 1 .. k + 1 /\ (n + 1) - 1 = n
      OBVIOUS
    <3>. QED
      BY <2>2, <2>3, <3>1 DEF Applies
  <2>5. Agree(f, g, 0, k)
    BY <2>2, <2>3, <2>4 DEF Agree, Applies
  <2>6. f[k] = g[k]
    BY <2>1, <2>5, SolutionUnique
  <2>7. g[k + 1] = MergePair(g[k], file[k + 1])
    BY <2>1, <2>3 DEF Applies
  <2>. QED
    BY <2>2, <2>3, <2>6, <2>7 DEF Applies
<1>. QED
  BY <1>1, <1>2, <1>3, <1>4

-----------------------------------------------------------------------------
(* Type correctness.  What Trimmed and Separated give are strings only because *)
(* "</w>" is at the end of the word that is merged, and nowhere else.          *)

Merging == /\ Len(result) < Len(input)
           /\ FlattenSeq(word) = Append(Current, EndOfWord)

Progress == /\ Len(result) <= Len(input)
            /\ pc = "done" => Len(result) = Len(input)
            /\ pc = "merge" => Merging

TypeInv == TypeOK /\ Progress

\* The words and the codes.
LEMMA CallTyped ==
  ASSUME TypeOK
  PROVE  /\ file \in Seq(Strings \X Strings)
         /\ input \in Seq(Seq(Letters)) /\ Len(input) \in Nat
         /\ result \in Seq(Seq(Strings)) /\ Len(result) \in Nat
         /\ Len(result) < Len(input) => Len(result) + 1 \in 1 .. Len(input) /\ Current \in Seq(Letters)
<1>1. /\ file \in Seq(Strings \X Strings) /\ input \in Seq(Seq(Letters)) /\ Len(input) \in Nat
      /\ result \in Seq(Seq(Strings)) /\ Len(result) \in Nat
  BY CodeFilesAssumption, InputsAssumption DEF TypeOK
<1>2. ASSUME Len(result) < Len(input)
      PROVE  Len(result) + 1 \in 1 .. Len(input) /\ Current \in Seq(Letters)
  <2>1. Len(result) + 1 \in 1 .. Len(input)
    BY <1>1, <1>2
  <2>. QED
    BY <1>1, <2>1, ElementOfSeq DEF Current
<1>. QED
  BY <1>1, <1>2

\* With the separator after every string but the last, they are strings still.
LEMMA SeparatedTyped ==
  ASSUME NEW t \in Seq(Seq(Letters) \ {<<>>})
  PROVE  Separated(t) \in Seq(Strings)
<1>1. PICK L \in Nat : L = Len(t)
  OBVIOUS
<1>2. \A i \in 1 .. L : t[i] \in Seq(Letters) /\ t[i] # <<>>
  BY <1>1
<1>3. \A x \in Seq(Letters) : x \in Seq(Chars)
  BY SeqMonotonic DEF Chars
<1>4. \A x \in Seq(Letters) : x # <<>> => x \in Strings /\ x \o Separator \in Strings
  <2>. SUFFICES ASSUME NEW x \in Seq(Letters), x # <<>>
                PROVE  x \in Strings /\ x \o Separator \in Strings
    OBVIOUS
  <2>1. x \o Separator \in Seq(Letters) /\ x \o Separator # <<>>
    BY SeparatorAssumption, ConcatProperties, ConcatEqualIffEmpty
  <2>. QED
    BY <1>3, <2>1, StringsAreSequences
<1>5. Separated(t) = [i \in 1 .. L |-> IF i < L THEN t[i] \o Separator ELSE t[i]]
  BY <1>1 DEF Separated
<1>6. \A i \in 1 .. L : (IF i < L THEN t[i] \o Separator ELSE t[i]) \in Strings
  BY <1>2, <1>4
<1>. QED
  BY <1>5, <1>6

\* What an encoded word is.
LEMMA Encoded ==
  ASSUME TypeInv, pc = "merge", word # <<<<EndOfWord>>>>
  PROVE  /\ Current \in Seq(Letters)
         /\ Splits(Trimmed(word), Current)
         /\ Separated(Trimmed(word)) \in Seq(Strings)
<1>1. word \in Seq(Strings) /\ FlattenSeq(word) = Append(Current, EndOfWord) /\ Current \in Seq(Letters)
  BY CallTyped DEF TypeInv, TypeOK, Progress, Merging
<1>2. Splits(Trimmed(word), Current)
  BY <1>1, TrimmedText
<1>. QED
  BY <1>1, <1>2, SeparatedTyped DEF Splits

LEMMA TypeInit == Init => TypeInv
<1>. SUFFICES ASSUME Init PROVE TypeInv
  OBVIOUS
<1>1. input \in Seq(Seq(Letters))
  BY InputsAssumption DEF Init
<1>2. Len(<<>>) = 0 /\ Len(input) \in Nat
  BY <1>1
<1>. QED
  BY <1>2 DEF Init, TypeInv, TypeOK, Progress

LEMMA TypeNext == TypeInv /\ [Next]_vars => TypeInv'
<1>. SUFFICES ASSUME TypeInv, [Next]_vars PROVE TypeInv'
  OBVIOUS
<1>1. /\ file \in Seq(Strings \X Strings) /\ input \in Seq(Seq(Letters)) /\ Len(input) \in Nat
      /\ result \in Seq(Seq(Strings)) /\ Len(result) \in Nat
      /\ Len(result) < Len(input) => Len(result) + 1 \in 1 .. Len(input) /\ Current \in Seq(Letters)
  BY CallTyped DEF TypeInv
<1>2. CASE Done
  BY <1>2 DEF Done, TypeInv, TypeOK, Progress
<1>3. CASE Cached
  <2>1. cache[Current] \in Seq(Strings)
    BY <1>3 DEF Cached, TypeInv, TypeOK
  <2>2. result' \in Seq(Seq(Strings)) /\ Len(result') = Len(result) + 1
    BY <1>1, <1>3, <2>1, AppendProperties DEF Cached
  <2>. QED
    BY <1>1, <1>3, <2>2 DEF Cached, TypeInv, TypeOK, Progress
<1>4. CASE Start
  <2>1. Whole(Current) \in Seq(Strings) /\ FlattenSeq(Whole(Current)) = Append(Current, EndOfWord)
    BY <1>1, <1>4, WholeText DEF Start
  <2>2. Current' = Current
    BY <1>4 DEF Start, Current
  <2>. QED
    BY <1>4, <2>1, <2>2 DEF Start, TypeInv, TypeOK, Progress, Merging
<1>5. CASE Merge
  <2>1. Best(GetPairs(word)) \in Strings \X Strings
    BY <1>1, <1>5, BestIs DEF Merge
  <2>2. word' \in Seq(Strings) /\ FlattenSeq(word') = FlattenSeq(word)
    BY <1>5, <2>1, MergePairTyped, MergeKeepsText DEF Merge, TypeInv, TypeOK
  <2>3. Current' = Current
    BY <1>5 DEF Merge, Current
  <2>. QED
    BY <1>5, <2>2, <2>3 DEF Merge, TypeInv, TypeOK, Progress, Merging
<1>6. CASE Finish
  <2>1. CASE word = <<<<EndOfWord>>>>
    <3>1. Progress'
      BY <1>6, <2>1 DEF Finish, TypeInv, Progress
    <3>. QED
      BY <1>6, <2>1, <3>1 DEF Finish, TypeInv, TypeOK
  <2>2. CASE word # <<<<EndOfWord>>>>
    <3>1. PICK e : e = Separated(Trimmed(word))
      OBVIOUS
    <3>2. e \in Seq(Strings) /\ Current \in Seq(Letters) /\ Len(result) < Len(input)
      BY <1>6, <2>2, <3>1, Encoded DEF Finish, TypeInv, Progress, Merging
    <3>3. /\ cache' = [w \in DOMAIN cache \cup {Current} |-> IF w = Current THEN e ELSE cache[w]]
          /\ result' = Append(result, e) /\ pc' = "lookup"
          /\ UNCHANGED <<file, input, word>>
      BY <1>6, <2>2, <3>1 DEF Finish
    <3>4. DOMAIN cache' \subseteq Seq(Letters) /\ \A w \in DOMAIN cache' : cache'[w] \in Seq(Strings)
      BY <3>2, <3>3 DEF TypeInv, TypeOK
    <3>5. result' \in Seq(Seq(Strings)) /\ Len(result') = Len(result) + 1
      BY <1>1, <3>2, <3>3, AppendProperties
    <3>. QED
      BY <1>1, <3>2, <3>3, <3>4, <3>5 DEF TypeInv, TypeOK, Progress
  <2>. QED
    BY <2>1, <2>2
<1>7. CASE UNCHANGED vars
  <2>1. Current' = Current
    BY <1>7 DEF vars, Current
  <2>. QED
    BY <1>7, <2>1 DEF vars, TypeInv, TypeOK, Progress, Merging
<1>. QED
  BY <1>2, <1>3, <1>4, <1>5, <1>6, <1>7 DEF Next

LEMMA TypeAlways == Spec => []TypeInv
<1>. QED
  BY TypeInit, TypeNext, PTL DEF Spec

\* Encode's state keeps its types with every codes file and for all words; of no word
\* but the empty one is nothing left when "</w>" is taken off (bpe.cpp:117-181).
THEOREM TypeCorrect == Spec => []TypeOK
<1>1. TypeInv => TypeOK
  BY DEF TypeInv
<1>. QED
  BY <1>1, TypeAlways, PTL

-----------------------------------------------------------------------------
(* The cache and the encoded words. *)

Encodes(encoded, w) == \E t : Splits(t, w) /\ encoded = Separated(t)

CacheInv  == \A w \in DOMAIN cache : Encodes(cache[w], w)
ResultInv == \A i \in 1 .. Len(result) : Encodes(result[i], input[i])

RoundInv == TypeInv /\ CacheInv /\ ResultInv

LEMMA RoundInit == Init => RoundInv
<1>. SUFFICES ASSUME Init PROVE RoundInv
  OBVIOUS
<1>1. CacheInv /\ ResultInv
  BY DEF Init, CacheInv, ResultInv
<1>. QED
  BY <1>1, TypeInit DEF RoundInv

LEMMA RoundNext == RoundInv /\ [Next]_vars => RoundInv'
<1>. SUFFICES ASSUME RoundInv, [Next]_vars PROVE RoundInv'
  OBVIOUS
<1>1. TypeInv'
  BY TypeNext DEF RoundInv
<1>2. /\ input \in Seq(Seq(Letters)) /\ Len(input) \in Nat
      /\ result \in Seq(Seq(Strings)) /\ Len(result) \in Nat
      /\ Len(result) < Len(input) => Len(result) + 1 \in 1 .. Len(input) /\ Current \in Seq(Letters)
  BY CallTyped DEF RoundInv, TypeInv
<1>3. CASE UNCHANGED <<input, cache, result>>
  BY <1>1, <1>3 DEF RoundInv, CacheInv, ResultInv
<1>4. ASSUME NEW e \in Seq(Strings), Encodes(e, Current),
             result' = Append(result, e), input' = input
      PROVE  ResultInv'
  <2>1. /\ Len(result') = Len(result) + 1
        /\ \A i \in 1 .. Len(result) : result'[i] = result[i]
        /\ result'[Len(result) + 1] = e
    BY <1>2, <1>4, AppendProperties
  <2>2. ASSUME NEW i \in 1 .. Len(result) + 1 PROVE Encodes(result'[i], input[i])
    <3>1. CASE i = Len(result) + 1
      BY <1>4, <2>1, <3>1 DEF Current
    <3>2. CASE i \in 1 .. Len(result)
      BY <2>1, <3>2 DEF RoundInv, ResultInv
    <3>. QED
      BY <1>2, <3>1, <3>2
  <2>. QED
    BY <1>4, <2>1, <2>2 DEF ResultInv
<1>5. CASE Cached
  <2>1. cache[Current] \in Seq(Strings) /\ Encodes(cache[Current], Current)
    BY <1>5 DEF Cached, RoundInv, TypeInv, TypeOK, CacheInv
  <2>2. ResultInv'
    BY <1>4, <1>5, <2>1 DEF Cached
  <2>3. CacheInv'
    BY <1>5 DEF Cached, RoundInv, CacheInv
  <2>. QED
    BY <1>1, <2>2, <2>3 DEF RoundInv
<1>6. CASE Finish /\ word # <<<<EndOfWord>>>>
  <2>1. PICK e : e = Separated(Trimmed(word))
    OBVIOUS
  <2>2. e \in Seq(Strings) /\ Encodes(e, Current)
    BY <1>6, <2>1, Encoded DEF Finish, RoundInv, Encodes
  <2>3. /\ cache' = [w \in DOMAIN cache \cup {Current} |-> IF w = Current THEN e ELSE cache[w]]
        /\ result' = Append(result, e) /\ input' = input
    BY <1>6, <2>1 DEF Finish
  <2>4. ResultInv'
    BY <1>4, <2>2, <2>3
  <2>5. CacheInv'
    <3>1. \A w \in DOMAIN cache' : Encodes(cache'[w], w)
      BY <2>2, <2>3 DEF RoundInv, CacheInv
    <3>. QED
      BY <3>1 DEF CacheInv
  <2>. QED
    BY <1>1, <2>4, <2>5 DEF RoundInv
<1>. QED
  BY <1>3, <1>5, <1>6 DEF Next, Done, Start, Merge, Finish, vars

-----------------------------------------------------------------------------
(* Postprocess. *)

LEMMA JoinedTyped ==
  ASSUME NEW W \in Seq(Seq(Letters)), NEW o \in Seq(Letters), NEW s \in Seq(Letters)
  PROVE  Joined([words |-> W, open |-> o], s) \in [words : Seq(Seq(Letters)), open : Seq(Letters)]
<1>. DEFINE acc == [words |-> W, open |-> o]
<1>1. CASE EndsWith(s, Separator)
  <2>1. Len(Separator) \in Nat /\ Len(Separator) <= Len(s) /\ Len(s) \in Nat
    BY <1>1, EndsWithMeans, SeparatorAssumption
  <2>2. \A i \in 1 .. Len(s) - Len(Separator) : s[i] \in Letters
    BY <2>1
  <2>3. SubSeq(s, 1, Len(s) - Len(Separator)) \in Seq(Letters)
    BY <2>1, <2>2, SubSeqProperties
  <2>4. o \o SubSeq(s, 1, Len(s) - Len(Separator)) \in Seq(Letters)
    BY <2>3, ConcatProperties
  <2>. QED
    BY <1>1, <2>4 DEF Joined
<1>2. CASE ~ EndsWith(s, Separator)
  <2>1. o \o s \in Seq(Letters)
    BY ConcatProperties
  <2>2. Append(W, o \o s) \in Seq(Seq(Letters)) /\ <<>> \in Seq(Letters)
    BY <2>1, AppendProperties
  <2>. QED
    BY <1>2, <2>2 DEF Joined
<1>. QED
  BY <1>1, <1>2

Accs == [words : Seq(Seq(Letters)), open : Seq(Letters)]

\* The strings joined one after the other.
JoinsUp(f, s) ==
  /\ f \in [0 .. Len(s) -> Accs]
  /\ f[0] = [words |-> <<>>, open |-> <<>>]
  /\ \A n \in 1 .. Len(s) : f[n] = Joined(f[n - 1], s[n])
  /\ JoinedAll(s) = f[Len(s)]

LEMMA JoinedAllUnfolds ==
  ASSUME NEW s \in Seq(Seq(Letters))
  PROVE  \E f : JoinsUp(f, s)
<1>. DEFINE none == [words |-> <<>>, open |-> <<>>]
            Eq(g) == g = [n \in 0 .. Len(s) |-> IF n = 0 THEN none ELSE Joined(g[n - 1], s[n])]
            F == CHOOSE g : Eq(g)
<1>0. PICK L \in Nat : L = Len(s)
  OBVIOUS
<1>1. \A n \in 1 .. L, a \in Accs : Joined(a, s[n]) \in Accs
  <2>. SUFFICES ASSUME NEW n \in 1 .. L, NEW a \in Accs PROVE Joined(a, s[n]) \in Accs
    OBVIOUS
  <2>1. s[n] \in Seq(Letters)
    BY <1>0
  <2>2. a = [words |-> a.words, open |-> a.open] /\ a.words \in Seq(Seq(Letters)) /\ a.open \in Seq(Letters)
    BY DEF Accs
  <2>3. Joined([words |-> a.words, open |-> a.open], s[n]) \in Accs
    BY <2>1, <2>2, JoinedTyped DEF Accs
  <2>. QED
    BY <2>2, <2>3
<1>2. PICK step \in [(1 .. L) \X Accs -> Accs] :
        \A n \in 1 .. L, m \in Accs : step[<<n, m>>] = Joined(m, s[n])
  <2>. DEFINE st == [x \in (1 .. L) \X Accs |-> Joined(x[2], s[x[1]])]
  <2>1. st \in [(1 .. L) \X Accs -> Accs]
    BY <1>1
  <2>2. \A n \in 1 .. L, m \in Accs : st[<<n, m>>] = Joined(m, s[n])
    OBVIOUS
  <2>. HIDE DEF st
  <2>. QED
    BY <2>1, <2>2
<1>3. PICK f : Solution(f, Accs, L, none, step)
  <2>1. none \in Accs
    BY DEF Accs
  <2>. HIDE DEF none
  <2>. QED
    BY <2>1, SolutionExists
<1>4. \A n \in 1 .. L : f[n] = Joined(f[n - 1], s[n])
  <2>1. \A n \in 1 .. L : n - 1 \in 0 .. L
    OBVIOUS
  <2>. QED
    BY <1>2, <1>3, <2>1 DEF Solution
<1>. HIDE DEF none
<1>5. Eq(f)
  BY <1>0, <1>3, <1>4 DEF Solution
<1>6. Eq(F)
  <2>. HIDE DEF Eq
  <2>. QED
    BY <1>5
<1>7. PICK h : h = F
  OBVIOUS
<1>8. \A n \in 0 .. L : h[n] = f[n]
  <2>1. h[0] = f[0] /\ \A n \in 0 .. L - 1 : h[n] = f[n] => h[n + 1] = f[n + 1]
    <3>. HIDE DEF F
    <3>. QED
      BY <1>0, <1>3, <1>4, <1>6, <1>7 DEF Solution
  <2>2. Agree(h, f, 0, L)
    BY <2>1 DEF Agree
  <2>. QED
    BY <2>2, SolutionUnique
<1>9. JoinedAll(s) = F[L]
  BY <1>0 DEF JoinedAll, none
<1>10. JoinsUp(f, s)
  <2>. HIDE DEF F
  <2>1. f[0] = none /\ JoinedAll(s) = f[L] /\ f \in [0 .. L -> Accs]
    BY <1>3, <1>7, <1>8, <1>9 DEF Solution
  <2>. QED
    BY <1>0, <1>4, <2>1 DEF JoinsUp, none
<1>. QED
  BY <1>10

LEMMA JoinedAllAppend ==
  /\ JoinedAll(<<>>) = [words |-> <<>>, open |-> <<>>]
  /\ \A s \in Seq(Seq(Letters)), e \in Seq(Letters) :
       JoinedAll(Append(s, e)) = Joined(JoinedAll(s), e)
<1>1. JoinedAll(<<>>) = [words |-> <<>>, open |-> <<>>]
  <2>1. PICK f : JoinsUp(f, <<>>)
    <3>1. <<>> \in Seq(Seq(Letters))
      OBVIOUS
    <3>. QED
      BY <3>1, JoinedAllUnfolds
  <2>2. Len(<<>>) = 0
    OBVIOUS
  <2>. QED
    BY <2>1, <2>2 DEF JoinsUp
<1>2. ASSUME NEW s \in Seq(Seq(Letters)), NEW e \in Seq(Letters)
      PROVE  JoinedAll(Append(s, e)) = Joined(JoinedAll(s), e)
  <2>1. PICK L \in Nat : L = Len(s)
    OBVIOUS
  <2>2. PICK t \in Seq(Seq(Letters)) : t = Append(s, e)
    BY AppendProperties
  <2>3. Len(t) = L + 1 /\ t[L + 1] = e /\ \A i \in 1 .. L : t[i] = s[i]
    BY <2>1, <2>2, AppendProperties
  <2>4. PICK f : JoinsUp(f, s)
    BY JoinedAllUnfolds
  <2>5. PICK g : JoinsUp(g, t)
    BY JoinedAllUnfolds
  <2>6. \A n \in 0 .. L - 1 : f[n + 1] = Joined(f[n], s[n + 1]) /\ g[n + 1] = Joined(g[n], s[n + 1])
    <3>1. \A n \in 0 .. L - 1 : n + 1 \in 1 .. L /\ n + 1 \in 1 .. L + 1 /\ (n + 1) - 1 = n
      OBVIOUS
    <3>. QED
      BY <2>1, <2>3, <2>4, <2>5, <3>1 DEF JoinsUp
  <2>7. Agree(f, g, 0, L)
    BY <2>4, <2>5, <2>6 DEF Agree, JoinsUp
  <2>8. f[L] = g[L]
    BY <2>7, SolutionUnique
  <2>9. g[L + 1] = Joined(g[L], e)
    <3>1. L + 1 \in 1 .. L + 1 /\ (L + 1) - 1 = L
      OBVIOUS
    <3>. QED
      BY <2>3, <2>5, <3>1 DEF JoinsUp
  <2>10. JoinedAll(s) = f[L]
    BY <2>1, <2>4 DEF JoinsUp
  <2>11. JoinedAll(t) = g[L + 1]
    BY <2>3, <2>5 DEF JoinsUp
  <2>. QED
    BY <2>2, <2>8, <2>9, <2>10, <2>11
<1>. QED
  BY <1>1, <1>2

LEMMA JoinedAllConcat ==
  ASSUME NEW R \in Seq(Seq(Letters)), NEW o \in Seq(Seq(Letters)), NEW e \in Seq(Letters)
  PROVE  JoinedAll(R \o Append(o, e)) = Joined(JoinedAll(R \o o), e)
<1>1. R \o Append(o, e) = Append(R \o o, e)
  OBVIOUS
<1>2. R \o o \in Seq(Seq(Letters))
  BY ConcatProperties
<1>. QED
  BY <1>1, <1>2, JoinedAllAppend

\* Strings with the separator after each of them.
Opened(t) == [i \in DOMAIN t |-> t[i] \o Separator]

LEMMA OpenedAppend ==
  /\ Opened(<<>>) = <<>>
  /\ \A t \in Seq(Seq(Letters)) : Opened(t) \in Seq(Seq(Letters))
  /\ \A t \in Seq(Seq(Letters)), e \in Seq(Letters) :
       /\ Opened(Append(t, e)) = Append(Opened(t), e \o Separator)
       /\ Separated(Append(t, e)) = Append(Opened(t), e)
<1>0. \A e \in Seq(Letters) : e \o Separator \in Seq(Letters)
  BY SeparatorAssumption, ConcatProperties
<1>1. Opened(<<>>) = <<>>
  BY DEF Opened
<1>2. ASSUME NEW t \in Seq(Seq(Letters)) PROVE Opened(t) \in Seq(Seq(Letters)) /\ Len(Opened(t)) = Len(t)
  <2>1. PICK L \in Nat : L = Len(t) /\ DOMAIN t = 1 .. L
    OBVIOUS
  <2>2. \A i \in 1 .. L : t[i] \o Separator \in Seq(Letters)
    BY <1>0, <2>1
  <2>. QED
    BY <2>1, <2>2 DEF Opened
<1>3. ASSUME NEW t \in Seq(Seq(Letters)), NEW e \in Seq(Letters)
      PROVE  /\ Opened(Append(t, e)) = Append(Opened(t), e \o Separator)
             /\ Separated(Append(t, e)) = Append(Opened(t), e)
  <2>1. PICK L \in Nat : L = Len(t) /\ DOMAIN t = 1 .. L
    OBVIOUS
  <2>2. PICK o \in Seq(Seq(Letters)) : o = Opened(t) /\ Len(o) = L
    BY <1>2, <2>1
  <2>3. \A i \in 1 .. L : o[i] = t[i] \o Separator
    BY <2>1, <2>2 DEF Opened
  <2>4. PICK a \in Seq(Seq(Letters)) : a = Append(t, e)
    BY AppendProperties
  <2>5. Len(a) = L + 1 /\ DOMAIN a = 1 .. L + 1 /\ a[L + 1] = e /\ \A i \in 1 .. L : a[i] = t[i]
    BY <2>1, <2>4, AppendProperties
  <2>6. PICK y \in Seq(Letters) : y = e \o Separator
    BY <1>0
  <2>7. Opened(a) = Append(o, y)
    <3>1. Opened(a) \in Seq(Seq(Letters)) /\ Len(Opened(a)) = L + 1
      BY <1>2, <2>5
    <3>2. \A i \in 1 .. L + 1 : Opened(a)[i] = a[i] \o Separator
      BY <2>5 DEF Opened
    <3>3. /\ Append(o, y) \in Seq(Seq(Letters)) /\ Len(Append(o, y)) = L + 1
          /\ Append(o, y)[L + 1] = y /\ \A i \in 1 .. L : Append(o, y)[i] = o[i]
      BY <2>2, AppendProperties
    <3>4. ASSUME NEW i \in 1 .. L + 1 PROVE Opened(a)[i] = Append(o, y)[i]
      <4>0. i = L + 1 \/ i \in 1 .. L
        OBVIOUS
      <4>1. CASE i = L + 1
        BY <2>5, <2>6, <3>2, <3>3, <4>1
      <4>2. CASE i \in 1 .. L
        <5>1. i \in 1 .. L + 1 /\ o[i] = t[i] \o Separator /\ a[i] = t[i]
          BY <2>3, <2>5, <4>2
        <5>2. Opened(a)[i] = a[i] \o Separator /\ Append(o, y)[i] = o[i]
          BY <3>2, <3>3, <4>2, <5>1
        <5>. QED
          BY <5>1, <5>2
      <4>. QED
        BY <4>0, <4>1, <4>2
    <3>. QED
      BY <3>1, <3>3, <3>4, SeqEqual
  <2>8. Separated(a) = Append(o, e)
    <3>1. Separated(a) = [i \in 1 .. L + 1 |-> IF i < L + 1 THEN a[i] \o Separator ELSE a[i]]
      BY <2>5 DEF Separated
    <3>2. \A i \in 1 .. L + 1 : Separated(a)[i] = IF i < L + 1 THEN a[i] \o Separator ELSE a[i]
      BY <3>1
    <3>3. Separated(a) \in Seq(Seq(Letters)) /\ Len(Separated(a)) = L + 1
      <4>1. \A i \in 1 .. L + 1 : (IF i < L + 1 THEN a[i] \o Separator ELSE a[i]) \in Seq(Letters)
        BY <1>0, <2>5
      <4>. QED
        BY <3>1, <4>1
    <3>4. /\ Append(o, e) \in Seq(Seq(Letters)) /\ Len(Append(o, e)) = L + 1
          /\ Append(o, e)[L + 1] = e /\ \A i \in 1 .. L : Append(o, e)[i] = o[i]
      BY <2>2, AppendProperties
    <3>5. ASSUME NEW i \in 1 .. L + 1 PROVE Separated(a)[i] = Append(o, e)[i]
      <4>0. i = L + 1 \/ i \in 1 .. L
        OBVIOUS
      <4>1. CASE i = L + 1
        BY <2>5, <3>2, <3>4, <4>1
      <4>2. CASE i \in 1 .. L
        <5>0. i \in 1 .. L + 1 /\ i < L + 1
          BY <4>2
        <5>1. o[i] = t[i] \o Separator /\ a[i] = t[i]
          BY <2>3, <2>5, <4>2
        <5>2. Separated(a)[i] = a[i] \o Separator
          BY <3>2, <5>0
        <5>3. Append(o, e)[i] = o[i]
          BY <3>4, <4>2
        <5>. QED
          BY <5>1, <5>2, <5>3
      <4>. QED
        BY <4>0, <4>1, <4>2
    <3>. QED
      BY <3>3, <3>4, <3>5, SeqEqual
  <2>. QED
    BY <2>2, <2>4, <2>6, <2>7, <2>8
<1>. QED
  BY <1>1, <1>2, <1>3

\* The strings of a word that does not end with the separator, joined to it.
LEMMA WordComesBack ==
  ASSUME NEW R \in Seq(Seq(Letters)), NEW W \in Seq(Seq(Letters)),
         JoinedAll(R) = [words |-> W, open |-> <<>>],
         NEW w \in Seq(Letters), ~ EndsWith(w, Separator), NEW e, Encodes(e, w)
  PROVE  /\ e \in Seq(Seq(Letters))
         /\ JoinedAll(R \o e) = [words |-> Append(W, w), open |-> <<>>]
<1>1. PICK t \in Seq(Seq(Letters)) : t # <<>> /\ FlattenSeq(t) = w /\ e = Separated(t)
  <2>1. PICK t : Splits(t, w) /\ e = Separated(t)
    BY DEF Encodes
  <2>2. t \in Seq(Seq(Letters))
    BY <2>1, SeqMonotonic DEF Splits
  <2>. QED
    BY <2>1, <2>2 DEF Splits
<1>2. PICK p \in Seq(Seq(Letters)), x \in Seq(Letters) : t = Append(p, x)
  BY <1>1, FrontLast
<1>3. PICK o \in Seq(Seq(Letters)) : o = Opened(p) /\ e = Append(o, x)
  BY <1>1, <1>2, OpenedAppend
<1>4. \A y \in Seq(Letters) : /\ y \o Separator \in Seq(Letters)
                              /\ EndsWith(y \o Separator, Separator)
                              /\ SubSeq(y \o Separator, 1, Len(y \o Separator) - Len(Separator)) = y
  BY SeparatorAssumption, ConcatProperties, EndsWithConcat
<1>. DEFINE T == {q \in Seq(Seq(Letters)) :
                    JoinedAll(R \o Opened(q)) = [words |-> W, open |-> FlattenSeq(q)]}
<1>5. <<>> \in T
  <2>1. R \o Opened(<<>>) = R
    BY OpenedAppend, ConcatEmptySeq
  <2>2. FlattenSeq(<<>>) = <<>> /\ <<>> \in Seq(Seq(Letters))
    BY FlattenAppend
  <2>. QED
    BY <2>1, <2>2
<1>6. ASSUME NEW q \in Seq(Seq(Letters)), NEW y \in Seq(Letters), q \in T
      PROVE  Append(q, y) \in T
  <2>1. PICK oq \in Seq(Seq(Letters)) : oq = Opened(q)
    BY OpenedAppend
  <2>2. Opened(Append(q, y)) = Append(oq, y \o Separator)
    BY <2>1, OpenedAppend
  <2>3. PICK z \in Seq(Letters) : z = y \o Separator
    BY <1>4
  <2>4. JoinedAll(R \o oq) = [words |-> W, open |-> FlattenSeq(q)]
    BY <1>6, <2>1
  <2>. HIDE DEF T
  <2>5. JoinedAll(R \o Append(oq, z)) = Joined(JoinedAll(R \o oq), z)
    BY JoinedAllConcat
  <2>6. Joined([words |-> W, open |-> FlattenSeq(q)], y \o Separator)
          = [words |-> W, open |-> FlattenSeq(q) \o y]
    BY <1>4 DEF Joined
  <2>7. FlattenSeq(Append(q, y)) = FlattenSeq(q) \o y /\ Append(q, y) \in Seq(Seq(Letters))
    BY FlattenAppend, AppendProperties
  <2>8. JoinedAll(R \o Opened(Append(q, y))) = [words |-> W, open |-> FlattenSeq(Append(q, y))]
    BY <2>2, <2>3, <2>4, <2>5, <2>6, <2>7
  <2>. QED
    BY <2>7, <2>8 DEF T
<1>7. p \in T
  <2>. HIDE DEF T
  <2>. QED
    BY <1>5, <1>6, SeqInduction
<1>8. JoinedAll(R \o o) = [words |-> W, open |-> FlattenSeq(p)] /\ R \o o \in Seq(Seq(Letters))
  BY <1>3, <1>7, ConcatProperties
<1>. HIDE DEF T
<1>9. FlattenSeq(p) \in Seq(Letters) /\ w = FlattenSeq(p) \o x
  BY <1>1, <1>2, FlattenAppend
<1>10. ~ EndsWith(x, Separator)
  <2>1. Separator \in Seq(Letters)
    BY SeparatorAssumption
  <2>. QED
    BY <1>9, <2>1, EndsWithConcat
<1>11. JoinedAll(R \o Append(o, x)) = Joined(JoinedAll(R \o o), x)
  BY JoinedAllConcat
<1>12. Joined([words |-> W, open |-> FlattenSeq(p)], x) = [words |-> Append(W, w), open |-> <<>>]
  BY <1>9, <1>10 DEF Joined
<1>13. e = Append(o, x) /\ e \in Seq(Seq(Letters))
  BY <1>3, AppendProperties
<1>. QED
  BY <1>8, <1>11, <1>12, <1>13

LEMMA WordsComeBack ==
  ASSUME NEW I \in Seq(Seq(Letters)), \A i \in 1 .. Len(I) : ~ EndsWith(I[i], Separator),
         NEW E \in Seq(Seq(Strings)), Len(E) = Len(I),
         \A i \in 1 .. Len(I) : Encodes(E[i], I[i])
  PROVE  Postprocess(FlattenSeq(E)) = I
<1>1. PICK L \in Nat : L = Len(I) /\ L = Len(E)
  OBVIOUS
<1>2. PICK f : Joins(f, E, Strings)
  BY FlattenUnfolds
<1>. DEFINE prefix(n) == SubSeq(I, 1, n)
            P == {n \in Nat : /\ f[n] \in Seq(Seq(Letters))
                              /\ JoinedAll(f[n]) = [words |-> prefix(n), open |-> <<>>]}
<1>3. prefix(0) = <<>> /\ prefix(L) = I
  BY <1>1, SubSeqEmpty, SubSeqFull
<1>4. \A n \in 0 .. L - 1 :
        /\ prefix(n) \in Seq(Seq(Letters)) /\ I[n + 1] \in Seq(Letters)
        /\ prefix(n + 1) = Append(prefix(n), I[n + 1])
  BY <1>1
<1>. HIDE DEF prefix
<1>5. 0 \in P
  <2>1. <<>> \in Seq(Seq(Letters))
    OBVIOUS
  <2>. QED
    BY <1>2, <1>3, <2>1, JoinedAllAppend DEF Joins
<1>6. ASSUME NEW n \in 0 .. L - 1, n \in P
      PROVE  n + 1 \in P
  <2>1. n + 1 \in 1 .. L /\ (n + 1) - 1 = n /\ n + 1 \in Nat
    OBVIOUS
  <2>2. f[n] \in Seq(Seq(Letters)) /\ JoinedAll(f[n]) = [words |-> prefix(n), open |-> <<>>]
    BY <1>6
  <2>. HIDE DEF P
  <2>3. f[n + 1] = f[n] \o E[n + 1]
    BY <1>1, <1>2, <2>1 DEF Joins
  <2>4. Encodes(E[n + 1], I[n + 1]) /\ ~ EndsWith(I[n + 1], Separator)
    BY <1>1, <2>1
  <2>5. /\ E[n + 1] \in Seq(Seq(Letters))
        /\ JoinedAll(f[n] \o E[n + 1]) = [words |-> Append(prefix(n), I[n + 1]), open |-> <<>>]
    <3>1. PICK R \in Seq(Seq(Letters)), W \in Seq(Seq(Letters)), w \in Seq(Letters) :
            R = f[n] /\ W = prefix(n) /\ w = I[n + 1]
      BY <1>4, <2>2
    <3>2. PICK e : e = E[n + 1]
      OBVIOUS
    <3>3. JoinedAll(R) = [words |-> W, open |-> <<>>] /\ ~ EndsWith(w, Separator) /\ Encodes(e, w)
      BY <2>2, <2>4, <3>1, <3>2
    <3>4. e \in Seq(Seq(Letters)) /\ JoinedAll(R \o e) = [words |-> Append(W, w), open |-> <<>>]
      BY <3>3, WordComesBack
    <3>. QED
      BY <3>1, <3>2, <3>4
  <2>6. f[n + 1] \in Seq(Seq(Letters))
    BY <2>2, <2>3, <2>5, ConcatProperties
  <2>7. JoinedAll(f[n + 1]) = [words |-> prefix(n + 1), open |-> <<>>]
    BY <1>4, <2>3, <2>5
  <2>. QED
    BY <2>1, <2>6, <2>7 DEF P
<1>7. L \in P
  <2>1. \A n \in 0 .. L : n \in P
    <3>. HIDE DEF P
    <3>. QED
      BY <1>5, <1>6, Induction
  <2>. HIDE DEF P
  <2>. QED
    BY <2>1
<1>8. FlattenSeq(E) = f[L]
  BY <1>1, <1>2 DEF Joins
<1>9. JoinedAll(f[L]) = [words |-> I, open |-> <<>>]
  BY <1>3, <1>7
<1>. QED
  BY <1>8, <1>9 DEF Postprocess

LEMMA RoundAlways == Spec => []RoundInv
<1>. QED
  BY RoundInit, RoundNext, PTL DEF Spec

\* For every codes file and all words, none of which ends with the separator, the
\* words are given back: whatever pairs were merged, whatever came from the cache
\* (bpe.cpp:19, :117-181).
THEOREM RoundTripHolds == Spec => []RoundTrip
<1>1. RoundInv => RoundTrip
  <2>. SUFFICES ASSUME RoundInv, pc = "done", \A i \in DOMAIN input : ~ EndsWith(input[i], Separator)
                PROVE  Postprocess(FlattenSeq(result)) = input
    BY DEF RoundTrip
  <2>1. input \in Seq(Seq(Letters)) /\ result \in Seq(Seq(Strings)) /\ Len(result) = Len(input)
    BY CallTyped DEF RoundInv, TypeInv, Progress
  <2>2. \A i \in 1 .. Len(input) : Encodes(result[i], input[i])
    BY <2>1 DEF RoundInv, ResultInv
  <2>3. \A i \in 1 .. Len(input) : ~ EndsWith(input[i], Separator)
    BY <2>1, LenProperties
  <2>. QED
    BY <2>1, <2>2, <2>3, WordsComeBack
<1>. QED
  BY <1>1, RoundAlways, PTL

-----------------------------------------------------------------------------
(* A file that can have been learned. *)

LEMMA LearnedRanks ==
  ASSUME file \in Seq(Strings \X Strings), Learned
  PROVE  /\ \A i \in 1 .. Len(file) : file[i] \in Codes /\ Rank(file[i]) = i - 1
         /\ Cardinality(Codes) = Len(file)
<1>1. PICK L \in Nat : L = Len(file) /\ DOMAIN file = 1 .. L
  BY LenProperties
<1>2. ASSUME NEW i \in 1 .. L, NEW j \in 1 .. L, file[i] = file[j] PROVE i = j
  BY <1>1, <1>2 DEF Learned, Made
<1>3. ASSUME NEW i \in 1 .. L PROVE file[i] \in Codes /\ Rank(file[i]) = i - 1
  <2>1. file[i] \in Codes
    BY <1>1 DEF Codes
  <2>2. Rank(file[i]) \in 0 .. L - 1 /\ file[Rank(file[i]) + 1] = file[i]
    BY <1>1, <2>1, RankOf
  <2>3. Rank(file[i]) + 1 \in 1 .. L
    BY <2>2
  <2>4. Rank(file[i]) + 1 = i
    BY <1>2, <2>2, <2>3
  <2>. QED
    BY <2>1, <2>2, <2>4
<1>4. Cardinality(Codes) = L
  <2>. DEFINE f == [i \in 1 .. L |-> file[i]]
  <2>1. f \in Bijection(1 .. L, Codes)
    <3>1. f \in [1 .. L -> Codes]
      BY <1>3
    <3>2. \A i, j \in 1 .. L : f[i] = f[j] => i = j
      BY <1>2
    <3>3. \A c \in Codes : \E i \in 1 .. L : f[i] = c
      BY <1>1 DEF Codes
    <3>. QED
      BY <3>1, <3>2, <3>3 DEF Bijection, Injection, Surjection, IsInjective
  <2>2. ExistsBijection(1 .. L, Codes)
    BY <2>1 DEF ExistsBijection
  <2>3. IsFiniteSet(1 .. L) /\ Cardinality(1 .. L) = L
    BY FS_Interval
  <2>. QED
    BY <2>2, <2>3, FS_Bijection
<1>. QED
  BY <1>1, <1>3, <1>4

\* No line up to the k-th is a pair of the word.
Clean(w, k) == \A j \in 1 .. k : file[j] \notin GetPairs(w)

\* A string that a line makes is a part of none of the lines up to that one.
LEMMA MadeIsNew ==
  ASSUME file \in Seq(Strings \X Strings), Learned,
         NEW k \in 1 .. Len(file), NEW j \in 1 .. k
  PROVE  file[j][1] # Made(k) /\ file[j][2] # Made(k)
<1>1. PICK L \in Nat : L = Len(file) /\ DOMAIN file = 1 .. L
  BY LenProperties
<1>2. k \in DOMAIN file /\ j \in DOMAIN file
  BY <1>1
<1>3. file[k] \in Strings \X Strings
  BY <1>1, ElementOfSeq
<1>4. Len(Made(k)) = Len(file[k][1]) + Len(file[k][2])
      /\ Len(file[k][1]) \in Nat \ {0} /\ Len(file[k][2]) \in Nat \ {0}
  BY <1>3, CodeTyped DEF Made
<1>5. ~ IsLetter(Made(k))
  <2>1. PICK n \in Nat \ {0}, m \in Nat \ {0} : Len(Made(k)) = n + m
    BY <1>4
  <2>2. n + m # 1
    OBVIOUS
  <2>. QED
    BY <2>1, <2>2 DEF IsLetter
<1>6. \A i \in 1 .. j - 1 : i \in DOMAIN file /\ i # k
  BY <1>1
<1>7. \A i \in 1 .. j - 1 : Made(i) # Made(k)
  BY <1>2, <1>6 DEF Learned
<1>8. ASSUME NEW n \in {1, 2}, file[j][n] = Made(k) PROVE FALSE
  <2>1. IsLetter(file[j][n]) \/ \E i \in 1 .. j - 1 : Made(i) = file[j][n]
    BY <1>2 DEF Learned
  <2>. QED
    BY <1>5, <1>7, <1>8, <2>1
<1>. QED
  BY <1>8

\* Lines that do not occur change nothing.
LEMMA AppliedSkips ==
  ASSUME file \in Seq(Strings \X Strings), NEW w \in Seq(Letters),
         NEW m \in 0 .. Len(file), NEW k \in 0 .. m, Clean(Applied(w, k), m)
  PROVE  Applied(w, m) = Applied(w, k)
<1>1. PICK v \in Seq(Strings) : v = Applied(w, k)
  BY AppliedSteps
<1>. DEFINE P == {n \in Nat : Applied(w, n) = v}
<1>2. k \in P
  BY <1>1
<1>3. ASSUME NEW n \in k .. m - 1, n \in P PROVE n + 1 \in P
  <2>1. n \in 0 .. Len(file) - 1 /\ n + 1 \in 1 .. m /\ n + 1 \in 1 .. Len(file) /\ n + 1 \in Nat
    OBVIOUS
  <2>2. Applied(w, n) = v
    BY <1>3
  <2>. HIDE DEF P
  <2>3. Applied(w, n + 1) = MergePair(v, file[n + 1])
    BY <2>1, <2>2, AppliedSteps
  <2>4. file[n + 1] \in Strings \X Strings /\ file[n + 1] \notin GetPairs(v)
    BY <1>1, <2>1, ElementOfSeq DEF Clean
  <2>5. MergePair(v, file[n + 1]) = v
    BY <2>4, MergeIdentity
  <2>. QED
    BY <2>1, <2>3, <2>5 DEF P
<1>4. k \in Nat /\ m \in Nat
  OBVIOUS
<1>5. \A n \in k .. m : n \in P
  <2>. HIDE DEF P
  <2>. QED
    BY <1>2, <1>3, <1>4, Induction
<1>6. m \in P
  <2>. HIDE DEF P
  <2>. QED
    BY <1>5
<1>. QED
  BY <1>1, <1>6

\* The best pair is that of the first line that occurs.
LEMMA BestLine ==
  ASSUME file \in Seq(Strings \X Strings), Learned, NEW pairs
  PROVE  /\ Candidates(pairs) = pairs \cap Codes
         /\ Candidates(pairs) # {} =>
              \E i \in 1 .. Len(file) : /\ Best(pairs) = file[i] /\ file[i] \in pairs
                                        /\ \A j \in 1 .. i - 1 : file[j] \notin pairs
<1>1. PICK L \in Nat : L = Len(file) /\ DOMAIN file = 1 .. L
  BY LenProperties
<1>2. \A c \in Codes : Rank(c) < Cardinality(Codes)
  BY <1>1, RankOf, LearnedRanks
<1>3. Candidates(pairs) = pairs \cap Codes
  BY <1>2 DEF Candidates
<1>4. ASSUME Candidates(pairs) # {}
      PROVE  \E i \in 1 .. L : /\ Best(pairs) = file[i] /\ file[i] \in pairs
                               /\ \A j \in 1 .. i - 1 : file[j] \notin pairs
  <2>1. PICK b : b = Best(pairs)
    OBVIOUS
  <2>2. b \in pairs /\ b \in Codes /\ \A d \in Candidates(pairs) : Rank(b) <= Rank(d)
    BY <1>4, <2>1, BestIs
  <2>3. PICK i \in 1 .. L : b = file[i]
    BY <1>1, <2>2 DEF Codes
  <2>4. ASSUME NEW j \in 1 .. i - 1, file[j] \in pairs PROVE FALSE
    <3>1. j \in 1 .. L
      OBVIOUS
    <3>2. file[j] \in Codes /\ Rank(file[j]) = j - 1 /\ Rank(file[i]) = i - 1
      BY <1>1, <3>1, LearnedRanks
    <3>3. Rank(b) <= Rank(file[j])
      BY <1>3, <2>2, <2>4, <3>2
    <3>. QED
      BY <2>3, <3>2, <3>3
  <2>. QED
    BY <2>1, <2>2, <2>3, <2>4
<1>. QED
  BY <1>1, <1>3, <1>4

\* What merging the best pair gives is what the next line that occurs gives.
LEMMA MergeIsNextLine ==
  ASSUME file \in Seq(Strings \X Strings), Learned, NEW w \in Seq(Letters),
         NEW k \in 0 .. Len(file), Clean(Applied(w, k), k),
         Candidates(GetPairs(Applied(w, k))) # {}
  PROVE  \E i \in 0 .. Len(file) :
           /\ MergePair(Applied(w, k), Best(GetPairs(Applied(w, k)))) = Applied(w, i)
           /\ Clean(Applied(w, i), i)
<1>1. PICK v \in Seq(Strings) : v = Applied(w, k)
  BY AppliedSteps
<1>2. PICK i \in 1 .. Len(file) : /\ Best(GetPairs(v)) = file[i] /\ file[i] \in GetPairs(v)
                                  /\ \A j \in 1 .. i - 1 : file[j] \notin GetPairs(v)
  BY <1>1, BestLine
<1>3. k \in 0 .. i - 1 /\ i - 1 \in 0 .. Len(file) - 1 /\ (i - 1) + 1 = i /\ i - 1 \in 0 .. Len(file)
  <2>1. ~ (i \in 1 .. k)
    BY <1>1, <1>2 DEF Clean
  <2>. QED
    BY <2>1
<1>4. Applied(w, i - 1) = v
  <2>1. Clean(Applied(w, k), i - 1)
    BY <1>1, <1>2 DEF Clean
  <2>. QED
    BY <1>1, <1>3, <2>1, AppliedSkips
<1>5. Applied(w, i) = MergePair(v, file[i])
  <2>1. Applied(w, (i - 1) + 1) = MergePair(Applied(w, i - 1), file[(i - 1) + 1])
    BY <1>3, AppliedSteps
  <2>. QED
    BY <1>3, <1>4, <2>1
<1>6. Clean(MergePair(v, file[i]), i)
  <2>. SUFFICES ASSUME NEW j \in 1 .. i, file[j] \in GetPairs(MergePair(v, file[i]))
                PROVE  FALSE
    BY DEF Clean
  <2>1. file[i] \in Strings \X Strings
    BY ElementOfSeq
  <2>2. /\ file[j] # file[i]
        /\ file[j] \in GetPairs(v) \/ file[j][1] = Made(i) \/ file[j][2] = Made(i)
    BY <2>1, MergeRemoves DEF Made
  <2>3. file[j] \in GetPairs(v)
    BY <2>2, MadeIsNew
  <2>4. j \in 1 .. i - 1
    BY <2>2
  <2>. QED
    BY <1>2, <2>3, <2>4
<1>. QED
  BY <1>1, <1>2, <1>5, <1>6

-----------------------------------------------------------------------------
(* The words are encoded in the order of the file. *)

ByLine(encoded, w) == encoded = Separated(Trimmed(Applied(w, Len(file))))

Reached == \E k \in 0 .. Len(file) : word = Applied(Current, k) /\ Clean(word, k)

ByLines == /\ pc = "merge" => Reached
           /\ \A w \in DOMAIN cache : ByLine(cache[w], w)
           /\ \A i \in 1 .. Len(result) : ByLine(result[i], input[i])

OrderInv == TypeInv /\ (Learned => ByLines)

LEMMA OrderInit == Init => OrderInv
<1>. SUFFICES ASSUME Init PROVE OrderInv
  OBVIOUS
<1>1. ByLines
  BY DEF Init, ByLines
<1>. QED
  BY <1>1, TypeInit DEF OrderInv

LEMMA OrderNext == OrderInv /\ [Next]_vars => OrderInv'
<1>. SUFFICES ASSUME OrderInv, [Next]_vars PROVE OrderInv'
  OBVIOUS
<1>1. TypeInv'
  BY TypeNext DEF OrderInv
<1>2. /\ file \in Seq(Strings \X Strings)
      /\ input \in Seq(Seq(Letters)) /\ Len(input) \in Nat
      /\ result \in Seq(Seq(Strings)) /\ Len(result) \in Nat
      /\ Len(result) < Len(input) => Len(result) + 1 \in 1 .. Len(input) /\ Current \in Seq(Letters)
  BY CallTyped DEF OrderInv, TypeInv
<1>3. file' = file /\ input' = input
  BY DEF Next, Done, Cached, Start, Merge, Finish, vars
<1>4. (Learned' <=> Learned) /\ Len(file) \in 0 .. Len(file) /\ 0 \in 0 .. Len(file)
  BY <1>2, <1>3 DEF Learned, Made
<1>5. \A w, n : Applied(w, n)' = Applied(w, n)
  BY <1>3 DEF Applied
<1>6. /\ \A e, w : ByLine(e, w)' <=> ByLine(e, w)
      /\ \A w, n : Clean(w, n)' <=> Clean(w, n)
  BY <1>3, <1>5 DEF ByLine, Clean
<1>7. SUFFICES ASSUME Learned PROVE ByLines'
  BY <1>1, <1>4 DEF OrderInv
<1>8. ByLines
  BY <1>7 DEF OrderInv
<1>9. CASE Start
  <2>1. Current \in Seq(Letters) /\ Current' = Current
    BY <1>2, <1>9 DEF Start, Current
  <2>2. word' = Applied(Current, 0)
    BY <1>2, <1>9, <2>1, AppliedSteps DEF Start
  <2>3. Clean(Applied(Current, 0), 0)
    BY DEF Clean
  <2>4. Reached'
    BY <1>3, <1>4, <1>5, <1>6, <2>1, <2>2, <2>3 DEF Reached
  <2>. QED
    BY <1>3, <1>6, <1>8, <1>9, <2>4 DEF Start, ByLines
<1>10. CASE Merge
  <2>1. Current \in Seq(Letters) /\ Current' = Current
    BY <1>2, <1>10 DEF Merge, Current, OrderInv, TypeInv, Progress, Merging
  <2>2. PICK k \in 0 .. Len(file) : word = Applied(Current, k) /\ Clean(word, k)
    BY <1>8, <1>10 DEF Merge, ByLines, Reached
  <2>3. PICK i \in 0 .. Len(file) : word' = Applied(Current, i) /\ Clean(word', i)
    <3>1. \E i \in 0 .. Len(file) :
            /\ MergePair(Applied(Current, k), Best(GetPairs(Applied(Current, k)))) = Applied(Current, i)
            /\ Clean(Applied(Current, i), i)
      BY <1>2, <1>7, <1>10, <2>1, <2>2, MergeIsNextLine DEF Merge
    <3>. QED
      BY <1>10, <2>2, <3>1 DEF Merge
  <2>4. Reached'
    BY <1>3, <1>5, <1>6, <2>1, <2>3 DEF Reached
  <2>. QED
    BY <1>3, <1>6, <1>8, <1>10, <2>4 DEF Merge, ByLines
<1>11. ASSUME NEW e \in Seq(Strings), ByLine(e, Current), result' = Append(result, e)
       PROVE  \A i \in 1 .. Len(result') : ByLine(result'[i], input[i])
  <2>1. /\ Len(result') = Len(result) + 1
        /\ \A i \in 1 .. Len(result) : result'[i] = result[i]
        /\ result'[Len(result) + 1] = e
    BY <1>2, <1>11, AppendProperties
  <2>2. ASSUME NEW i \in 1 .. Len(result) + 1 PROVE ByLine(result'[i], input[i])
    <3>1. CASE i = Len(result) + 1
      BY <1>11, <2>1, <3>1 DEF Current
    <3>2. CASE i \in 1 .. Len(result)
      BY <1>8, <2>1, <3>2 DEF ByLines
    <3>. QED
      BY <1>2, <3>1, <3>2
  <2>. QED
    BY <2>1, <2>2
<1>12. CASE Cached
  <2>1. cache[Current] \in Seq(Strings) /\ ByLine(cache[Current], Current)
    BY <1>8, <1>12 DEF Cached, ByLines, OrderInv, TypeInv, TypeOK
  <2>2. \A i \in 1 .. Len(result') : ByLine(result'[i], input[i])
    BY <1>11, <1>12, <2>1 DEF Cached
  <2>. QED
    BY <1>3, <1>6, <1>8, <1>12, <2>2 DEF Cached, ByLines
<1>13. CASE Finish /\ word # <<<<EndOfWord>>>>
  <2>1. PICK e : e = Separated(Trimmed(word))
    OBVIOUS
  <2>2. e \in Seq(Strings) /\ Current \in Seq(Letters)
    BY <1>13, <2>1, Encoded DEF Finish, OrderInv
  <2>3. PICK k \in 0 .. Len(file) : word = Applied(Current, k) /\ Clean(word, k)
    BY <1>8, <1>13 DEF Finish, ByLines, Reached
  <2>4. word = Applied(Current, Len(file))
    <3>1. \A j \in 1 .. Len(file) : file[j] \in Codes
      BY <1>2, <1>7, LearnedRanks
    <3>2. GetPairs(word) \cap Codes = {}
      BY <1>2, <1>7, <1>13, BestLine DEF Finish
    <3>3. Clean(Applied(Current, k), Len(file))
      BY <2>3, <3>1, <3>2 DEF Clean
    <3>. QED
      BY <1>2, <1>4, <2>2, <2>3, <3>3, AppliedSkips
  <2>5. ByLine(e, Current)
    BY <2>1, <2>4 DEF ByLine
  <2>6. /\ cache' = [w \in DOMAIN cache \cup {Current} |-> IF w = Current THEN e ELSE cache[w]]
        /\ result' = Append(result, e) /\ pc' = "lookup"
    BY <1>13, <2>1 DEF Finish
  <2>7. \A i \in 1 .. Len(result') : ByLine(result'[i], input[i])
    BY <1>11, <2>2, <2>5, <2>6
  <2>8. \A w \in DOMAIN cache' : ByLine(cache'[w], w)
    BY <1>8, <2>5, <2>6 DEF ByLines
  <2>. QED
    BY <1>3, <1>6, <2>6, <2>7, <2>8 DEF ByLines
<1>14. CASE UNCHANGED <<pc, input, word, cache, result>>
  <2>1. Current' = Current
    BY <1>14 DEF Current
  <2>2. pc = "merge" => Reached'
    BY <1>3, <1>5, <1>6, <1>8, <1>14, <2>1 DEF ByLines, Reached
  <2>. QED
    BY <1>3, <1>6, <1>8, <1>14, <2>2 DEF ByLines
<1>15. CASE UNCHANGED <<input, cache, result>> /\ pc' # "merge"
  BY <1>3, <1>6, <1>8, <1>15 DEF ByLines
<1>. QED
  BY <1>9, <1>10, <1>12, <1>13, <1>14, <1>15 DEF Next, Done, Finish, vars

LEMMA OrderAlways == Spec => []OrderInv
<1>. QED
  BY OrderInit, OrderNext, PTL DEF Spec

\* For every codes file that can have been learned and all words: to look for the best
\* pair again and again gives what the lines give, each applied once, in the order of
\* the file (bpe.cpp:95-115, :127-161).
THEOREM InFileOrderHolds == Spec => []InFileOrder
<1>1. OrderInv => InFileOrder
  <2>. SUFFICES ASSUME OrderInv, pc = "done", Learned, NEW i \in DOMAIN input
                PROVE  result[i] = Separated(Trimmed(Applied(input[i], Len(file))))
    BY DEF InFileOrder
  <2>1. i \in 1 .. Len(result)
    BY CallTyped, LenProperties DEF OrderInv, TypeInv, Progress
  <2>. QED
    BY <2>1 DEF OrderInv, ByLines, ByLine
<1>. QED
  BY <1>1, OrderAlways, PTL

-----------------------------------------------------------------------------
(* The Moses client, for every batch, every vector and every server.         *)

LEMMA SplitTyped ==
  ASSUME NEW text \in Seq(Words \cup {Empty})
  PROVE  Split(text) \in Seq(Words)
<1>. DEFINE pieces == [k \in DOMAIN text |-> NonEmpty(text[k])]
<1>1. \A k \in DOMAIN text : NonEmpty(text[k]) \in Seq(Words)
  <2>. SUFFICES ASSUME NEW k \in DOMAIN text PROVE NonEmpty(text[k]) \in Seq(Words)
    OBVIOUS
  <2>1. text[k] \in Words \cup {Empty}
    OBVIOUS
  <2>2. CASE text[k] = Empty
    BY <2>2 DEF NonEmpty
  <2>3. CASE text[k] # Empty
    <3>1. text[k] \in Words
      BY <2>1, <2>3
    <3>2. <<text[k]>> \in Seq(Words)
      BY <3>1
    <3>. QED
      BY <2>3, <3>2 DEF NonEmpty
  <2>. QED
    BY <2>2, <2>3
<1>2. pieces \in Seq(Seq(Words))
  <2>1. DOMAIN text = 1 .. Len(text) /\ Len(text) \in Nat
    OBVIOUS
  <2>. QED
    BY <1>1, <2>1, SeqDef
<1>3. FlattenSeq(pieces) \in Seq(Words)
  <2>. HIDE DEF pieces
  <2>. QED
    BY <1>2, FlattenAppend
<1>. QED
  BY <1>3 DEF Split

\* What WordsFrom puts together, for the texts r.
Pieces(r, n) == [k \in 1 .. Len(r) - n + 1 |-> Split(r[k + n - 1])]

LEMMA WordsAre == \A n : WordsFrom(n) = FlattenSeq(Pieces(received, n))
BY DEF WordsFrom, Pieces

LEMMA PiecesAppend ==
  ASSUME NEW r \in Seq(Seq(Words \cup {Empty})), NEW text \in Seq(Words \cup {Empty}),
         NEW n \in 1 .. Len(r) + 1
  PROVE  /\ Pieces(r, n) \in Seq(Seq(Words))
         /\ Len(Pieces(r, n)) = Len(r) - n + 1
         /\ Pieces(Append(r, text), n) = Append(Pieces(r, n), Split(text))
<1>0. PICK L \in Nat : L = Len(r)
  OBVIOUS
<1>1. PICK m \in Nat : m = L - n + 1
  <2>1. n \in 1 .. L + 1
    BY <1>0
  <2>2. L - n + 1 \in Nat
    BY <2>1
  <2>. QED
    BY <2>2
<1>2. \A k \in 1 .. m : k + n - 1 \in 1 .. L
  BY <1>0, <1>1
<1>3. \A k \in 1 .. m : Split(r[k + n - 1]) \in Seq(Words)
  BY <1>0, <1>2, SplitTyped
<1>4. PICK p : p = Pieces(r, n)
  OBVIOUS
<1>5. p = [k \in 1 .. m |-> Split(r[k + n - 1])]
  BY <1>0, <1>1, <1>4 DEF Pieces
<1>6. p \in Seq(Seq(Words)) /\ Len(p) = m
  BY <1>3, <1>5, SeqDef, LenProperties
<1>7. PICK t : t = Append(r, text)
  OBVIOUS
<1>8. Len(t) = L + 1 /\ t[L + 1] = text /\ \A k \in 1 .. L : t[k] = r[k]
  BY <1>0, <1>7, AppendProperties
<1>9. Pieces(t, n) = Append(p, Split(text))
  <2>1. PICK q : q = Pieces(t, n)
    OBVIOUS
  <2>2. q = [k \in 1 .. m + 1 |-> Split(t[k + n - 1])]
    <3>1. Len(t) - n + 1 = m + 1
      BY <1>0, <1>1, <1>8
    <3>. QED
      BY <2>1, <3>1 DEF Pieces
  <2>3. PICK x : x = Append(p, Split(text))
    OBVIOUS
  <2>4. Split(text) \in Seq(Words)
    BY SplitTyped
  <2>5. /\ x \in Seq(Seq(Words))
        /\ Len(x) = m + 1
        /\ x[m + 1] = Split(text)
        /\ \A k \in 1 .. m : x[k] = p[k]
    BY <1>6, <2>3, <2>4, AppendProperties
  <2>6. ASSUME NEW k \in 1 .. m + 1 PROVE q[k] = x[k]
    <3>1. CASE k = m + 1
      <4>1. k + n - 1 = L + 1
        BY <1>0, <1>1, <3>1
      <4>. QED
        BY <1>8, <2>2, <2>5, <3>1, <4>1
    <3>2. CASE k \in 1 .. m
      <4>1. t[k + n - 1] = r[k + n - 1]
        BY <1>2, <1>8, <3>2
      <4>2. q[k] = Split(t[k + n - 1])
        BY <2>2
      <4>3. p[k] = Split(r[k + n - 1])
        BY <1>5, <3>2
      <4>. QED
        BY <2>5, <3>2, <4>1, <4>2, <4>3
    <3>. QED
      BY <1>1, <3>1, <3>2
  <2>7. q \in [1 .. m + 1 -> Seq(Words)] /\ x \in [1 .. m + 1 -> Seq(Words)]
    <3>1. x \in [1 .. m + 1 -> Seq(Words)]
      BY <2>5, LenProperties
    <3>2. \A k \in 1 .. m + 1 : q[k] \in Seq(Words)
      BY <2>6, <3>1
    <3>. QED
      BY <2>2, <3>1, <3>2
  <2>8. q = x
    BY <2>6, <2>7
  <2>. QED
    BY <2>1, <2>3, <2>8
<1>. QED
  BY <1>0, <1>1, <1>4, <1>6, <1>7, <1>9

LEMMA NoPieces ==
  ASSUME NEW r \in Seq(Seq(Words \cup {Empty})), NEW n \in Nat, n = Len(r) + 1
  PROVE  Pieces(r, n) = <<>>
<1>1. Len(r) - n + 1 = 0
  OBVIOUS
<1>. QED
  BY <1>1 DEF Pieces

\* A text more adds its words at the end.
LEMMA WordsAppend ==
  ASSUME received \in Seq(Seq(Words \cup {Empty})),
         NEW text \in Seq(Words \cup {Empty}), received' = Append(received, text),
         NEW n \in 1 .. Len(received) + 1
  PROVE  /\ WordsFrom(n) \in Seq(Words)
         /\ WordsFrom(n)' = WordsFrom(n) \o Split(text)
         /\ n = Len(received) + 1 => WordsFrom(n) = <<>>
<1>1. WordsFrom(n)' = FlattenSeq(Pieces(received', n))
  BY DEF WordsFrom, Pieces
<1>2. WordsFrom(n) = FlattenSeq(Pieces(received, n))
  BY WordsAre
<1>3. PICK p \in Seq(Seq(Words)) : p = Pieces(received, n) /\ Len(p) = Len(received) - n + 1
  BY PiecesAppend
<1>4. Pieces(received', n) = Append(p, Split(text))
  BY <1>3, PiecesAppend
<1>5. Split(text) \in Seq(Words)
  BY SplitTyped
<1>6. /\ FlattenSeq(p) \in Seq(Words)
      /\ FlattenSeq(Append(p, Split(text))) = FlattenSeq(p) \o Split(text)
  BY <1>3, <1>5, FlattenAppend
<1>7. n = Len(received) + 1 => FlattenSeq(p) = <<>>
  <2>. SUFFICES ASSUME n = Len(received) + 1 PROVE FlattenSeq(p) = <<>>
    OBVIOUS
  <2>1. Len(received) \in Nat
    OBVIOUS
  <2>2. Len(p) = 0
    BY <1>3, <2>1
  <2>3. p = <<>>
    BY <2>2, EmptySeq
  <2>. QED
    BY <2>3, FlattenAppend
<1>. QED
  BY <1>1, <1>2, <1>3, <1>4, <1>6, <1>7

\* What WithTokens and WithScore make of a sequence s.
Put(s, e, n) == IF n = 0 THEN Append(s, e) ELSE [s EXCEPT ![1] = @ \o e]
Added(s, e, n) == IF n = 0 THEN Append(s, e) ELSE [s EXCEPT ![1] = @ + e]

LEMMA FirstChanged ==
  ASSUME NEW S, NEW s \in Seq(S), NEW x \in S, Len(s) > 0, NEW t, t = [s EXCEPT ![1] = x]
  PROVE  /\ t \in Seq(S)
         /\ Len(t) = Len(s)
         /\ t[1] = x
         /\ \A k \in 2 .. Len(s) : t[k] = s[k]
<1>1. 1 \in 1 .. Len(s)
  OBVIOUS
<1>2. /\ [s EXCEPT ![1] = x] \in Seq(S)
      /\ Len([s EXCEPT ![1] = x]) = Len(s)
      /\ \A j \in 1 .. Len(s) : [s EXCEPT ![1] = x][j] = IF j = 1 THEN x ELSE s[j]
  BY <1>1, ExceptSeq
<1>3. \A j \in 1 .. Len(s) : t[j] = IF j = 1 THEN x ELSE s[j]
  BY <1>2
<1>4. \A k \in 2 .. Len(s) : k \in 1 .. Len(s) /\ k # 1
  OBVIOUS
<1>. QED
  BY <1>1, <1>2, <1>3, <1>4

PutIs(t, s, e, n, S) ==
  /\ t \in Seq(Seq(S))
  /\ Len(t) = Len(s) + (IF n = 0 THEN 1 ELSE 0)
  /\ n = 0 => t[Len(s) + 1] = e /\ \A k \in 1 .. Len(s) : t[k] = s[k]
  /\ n > 0 => t[1] = s[1] \o e /\ \A k \in 2 .. Len(s) : t[k] = s[k]

AddIs(t, s, e, n) ==
  /\ t \in Seq(Nat)
  /\ Len(t) = Len(s) + (IF n = 0 THEN 1 ELSE 0)
  /\ n = 0 => t[Len(s) + 1] = e /\ \A k \in 1 .. Len(s) : t[k] = s[k]
  /\ n > 0 => t[1] = s[1] + e /\ \A k \in 2 .. Len(s) : t[k] = s[k]

LEMMA PutTyped ==
  ASSUME NEW S, NEW s \in Seq(Seq(S)), NEW e \in Seq(S), NEW n \in Nat, n > 0 => Len(s) > 0
  PROVE  PutIs(Put(s, e, n), s, e, n, S)
<1>1. CASE n = 0
  <2>1. PICK t : t = Append(s, e)
    OBVIOUS
  <2>2. /\ t \in Seq(Seq(S)) /\ Len(t) = Len(s) + 1
        /\ t[Len(s) + 1] = e /\ \A k \in 1 .. Len(s) : t[k] = s[k]
    BY <2>1, AppendProperties
  <2>3. Put(s, e, n) = t
    BY <1>1, <2>1 DEF Put
  <2>. QED
    BY <1>1, <2>2, <2>3 DEF PutIs
<1>2. CASE n > 0
  <2>1. 1 \in DOMAIN s /\ s[1] \in Seq(S)
    BY <1>2
  <2>2. s[1] \o e \in Seq(S)
    BY <2>1, ConcatProperties
  <2>3. PICK x \in Seq(S) : x = s[1] \o e
    BY <2>2
  <2>4. Put(s, e, n) = [s EXCEPT ![1] = x]
    BY <1>2, <2>3 DEF Put
  <2>5. PICK t : t = [s EXCEPT ![1] = x]
    OBVIOUS
  <2>6. /\ t \in Seq(Seq(S))
        /\ Len(t) = Len(s)
        /\ t[1] = x
        /\ \A k \in 2 .. Len(s) : t[k] = s[k]
    BY <1>2, <2>5, FirstChanged
  <2>7. Put(s, e, n) = t
    BY <2>4, <2>5
  <2>8. n # 0 /\ Len(s) \in Nat
    BY <1>2
  <2>. QED
    BY <1>2, <2>3, <2>6, <2>7, <2>8 DEF PutIs
<1>. QED
  BY <1>1, <1>2

LEMMA AddTyped ==
  ASSUME NEW s \in Seq(Nat), NEW e \in Nat, NEW n \in Nat, n > 0 => Len(s) > 0
  PROVE  AddIs(Added(s, e, n), s, e, n)
<1>1. CASE n = 0
  <2>1. PICK t : t = Append(s, e)
    OBVIOUS
  <2>2. /\ t \in Seq(Nat) /\ Len(t) = Len(s) + 1
        /\ t[Len(s) + 1] = e /\ \A k \in 1 .. Len(s) : t[k] = s[k]
    BY <2>1, AppendProperties
  <2>3. Added(s, e, n) = t
    BY <1>1, <2>1 DEF Added
  <2>. QED
    BY <1>1, <2>2, <2>3 DEF AddIs
<1>2. CASE n > 0
  <2>1. 1 \in DOMAIN s /\ s[1] \in Nat
    BY <1>2
  <2>3. PICK x \in Nat : x = s[1] + e
    BY <2>1
  <2>4. Added(s, e, n) = [s EXCEPT ![1] = x]
    BY <1>2, <2>3 DEF Added
  <2>5. PICK t : t = [s EXCEPT ![1] = x]
    OBVIOUS
  <2>6. /\ t \in Seq(Nat)
        /\ Len(t) = Len(s)
        /\ t[1] = x
        /\ \A k \in 2 .. Len(s) : t[k] = s[k]
    BY <1>2, <2>5, FirstChanged
  <2>7. Added(s, e, n) = t
    BY <2>4, <2>5
  <2>8. n # 0 /\ Len(s) \in Nat
    BY <1>2
  <2>. QED
    BY <1>2, <2>3, <2>6, <2>7, <2>8 DEF AddIs
<1>. QED
  BY <1>1, <1>2

LEMMA GatherInit == SmtInit => SmtInv
<1>. SUFFICES ASSUME SmtInit PROVE SmtInv
  OBVIOUS
<1>1. batch_tokens \in Seq(Seq(Words)) /\ earlier \in Seq(Seq(Words))
  BY BatchesAssumption, EarlierAssumption DEF SmtInit
<1>2. PICK L \in Nat : L = Len(earlier)
  BY <1>1
<1>3. DOMAIN earlier = 1 .. L
  BY <1>1, <1>2
<1>4. output_batch_scores = [n \in 1 .. L |-> 0]
  BY <1>3 DEF SmtInit
<1>5. output_batch_scores \in Seq(Nat) /\ Len(output_batch_scores) = L
  BY <1>4, SeqDef, LenProperties
<1>6. SmtTypeOK
  BY <1>1, <1>2, <1>5 DEF SmtInit, SmtTypeOK
<1>7. Underway
  BY <1>1, <1>2, <1>4, <1>5 DEF SmtInit, Underway
<1>8. Gathered
  BY DEF SmtInit, Gathered
<1>9. ScoreTells
  BY DEF SmtInit, ScoreTells
<1>. QED
  BY <1>6, <1>7, <1>8, <1>9 DEF SmtInv

\* What a step that gathers an answer finds and does.
Gathering(text, score) ==
  /\ SmtInv
  /\ sentence < Len(batch_tokens)
  /\ text \in Texts \cup {<<>>}
  /\ score \in {0, 1}
  /\ Gather(text, score)

LEMMA GatherFacts ==
  ASSUME NEW text, NEW score, Gathering(text, score)
  PROVE  /\ sentence \in Nat /\ sentence' = sentence + 1
         /\ sentence' \in 0 .. Len(batch_tokens)
         /\ earlier \in Seq(Seq(Words)) /\ earlier' = earlier
         /\ Len(output_batch_tokens) = Len(earlier) + (IF sentence = 0 THEN 0 ELSE 1)
         /\ text \in Seq(Words \cup {Empty})
         /\ Split(text) \in Seq(Words)
         /\ received \in Seq(Seq(Words \cup {Empty}))
         /\ Len(received) = sentence
         /\ received' = Append(received, text)
         /\ output_batch_tokens' = Put(output_batch_tokens, Split(text), sentence)
         /\ output_batch_scores' = Added(output_batch_scores, score, sentence)
<1>1. <<>> \in Seq(Words \cup {Empty})
  OBVIOUS
<1>2. text \in Seq(Words \cup {Empty})
  BY <1>1, TextsAssumption DEF Gathering
<1>3. Split(text) \in Seq(Words)
  BY <1>2, SplitTyped
<1>4. /\ batch_tokens \in Seq(Seq(Words))
      /\ earlier \in Seq(Seq(Words))
      /\ sentence \in 0 .. Len(batch_tokens)
      /\ received \in Seq(Texts \cup {<<>>})
  BY BatchesAssumption, EarlierAssumption DEF Gathering, SmtInv, SmtTypeOK
<1>5. received \in Seq(Seq(Words \cup {Empty}))
  <2>1. Texts \cup {<<>>} \subseteq Seq(Words \cup {Empty})
    BY <1>1, TextsAssumption
  <2>. QED
    BY <1>4, <2>1, SeqMonotonic
<1>6. sentence' = sentence + 1 /\ earlier' = earlier /\ received' = Append(received, text)
  BY DEF Gathering, Gather
<1>7. sentence \in Nat /\ sentence' \in 0 .. Len(batch_tokens)
  BY <1>4, <1>6 DEF Gathering
<1>8. Len(received) = sentence
  BY DEF Gathering, SmtInv, Underway
<1>9. Len(output_batch_tokens) = Len(earlier) + (IF sentence = 0 THEN 0 ELSE 1)
  BY DEF Gathering, SmtInv, Underway
<1>10. output_batch_tokens' = Put(output_batch_tokens, Split(text), sentence)
  BY DEF Gathering, Gather, WithTokens, Put
<1>11. output_batch_scores' = Added(output_batch_scores, score, sentence)
  BY DEF Gathering, Gather, WithScore, Added
<1>. QED
  BY <1>2, <1>3, <1>4, <1>5, <1>6, <1>7, <1>8, <1>9, <1>10, <1>11

LEMMA GatherTyped ==
  ASSUME NEW text, NEW score, Gathering(text, score)
  PROVE  SmtTypeOK' /\ Underway'
<1>1. /\ batch_tokens \in Batches /\ earlier \in Earlier
      /\ output_batch_tokens \in Seq(Seq(Words)) /\ output_batch_scores \in Seq(Nat)
      /\ Len(output_batch_scores) = Len(output_batch_tokens)
      /\ received \in Seq(Texts \cup {<<>>})
      /\ answered \subseteq 1 .. sentence
  BY DEF Gathering, SmtInv, SmtTypeOK
<1>2. batch_tokens' = batch_tokens /\ at' = "next"
  BY DEF Gathering, Gather
<1>3. Len(earlier) \in Nat
  BY GatherFacts
<1>4. sentence > 0 => Len(output_batch_tokens) > 0 /\ Len(output_batch_scores) > 0
  <2>. SUFFICES ASSUME sentence > 0
                PROVE  Len(output_batch_tokens) > 0 /\ Len(output_batch_scores) > 0
    OBVIOUS
  <2>1. sentence # 0
    BY GatherFacts
  <2>2. Len(output_batch_tokens) = Len(earlier) + 1
    BY <2>1, GatherFacts
  <2>. QED
    BY <1>1, <1>3, <2>2
<1>5. /\ output_batch_tokens' \in Seq(Seq(Words))
      /\ Len(output_batch_tokens') = Len(output_batch_tokens)
                                     + (IF sentence = 0 THEN 1 ELSE 0)
  <2>1. Split(text) \in Seq(Words) /\ sentence \in Nat
    BY GatherFacts
  <2>2. PutIs(Put(output_batch_tokens, Split(text), sentence),
              output_batch_tokens, Split(text), sentence, Words)
    BY <1>1, <1>4, <2>1, PutTyped
  <2>. QED
    BY <2>2, GatherFacts DEF PutIs
<1>6. /\ output_batch_scores' \in Seq(Nat)
      /\ Len(output_batch_scores') = Len(output_batch_scores)
                                     + (IF sentence = 0 THEN 1 ELSE 0)
  <2>1. score \in Nat /\ sentence \in Nat
    BY GatherFacts DEF Gathering
  <2>2. AddIs(Added(output_batch_scores, score, sentence),
              output_batch_scores, score, sentence)
    BY <1>1, <1>4, <2>1, AddTyped
  <2>. QED
    BY <2>2, GatherFacts DEF AddIs
<1>7. received' \in Seq(Texts \cup {<<>>}) /\ Len(received') = Len(received) + 1
  <2>1. text \in Texts \cup {<<>>}
    BY DEF Gathering
  <2>2. received' = Append(received, text)
    BY GatherFacts
  <2>3. received \in Seq(Texts \cup {<<>>})
    BY <1>1
  <2>. QED
    BY <2>1, <2>2, <2>3, AppendProperties
<1>8. answered' \subseteq 1 .. sentence'
  <2>1. answered' = answered \cup {sentence + 1} \/ answered' = answered
    BY DEF Gathering, Gather
  <2>2. sentence \in Nat /\ sentence' = sentence + 1
    BY GatherFacts
  <2>3. 1 .. sentence \subseteq 1 .. sentence + 1 /\ sentence + 1 \in 1 .. sentence + 1
    BY <2>2
  <2>. QED
    BY <1>1, <2>1, <2>2, <2>3
<1>9. SmtTypeOK'
  <2>1. /\ batch_tokens' \in Batches
        /\ earlier' \in Earlier
        /\ sentence' \in 0 .. Len(batch_tokens')
        /\ at' \in {"next", "connecting", "reading", "done"}
    BY <1>1, <1>2, GatherFacts
  <2>2. Len(output_batch_scores') = Len(output_batch_tokens')
    BY <1>1, <1>5, <1>6
  <2>. QED
    BY <1>5, <1>6, <1>7, <1>8, <2>1, <2>2 DEF SmtTypeOK
<1>10. Underway'
  <2>1. sentence' = sentence + 1 /\ sentence \in Nat /\ sentence' # 0
    BY GatherFacts
  <2>2. Len(received') = sentence'
    BY <1>7, <2>1, GatherFacts
  <2>3. Len(output_batch_tokens') = Len(earlier') + 1
    <3>1. CASE sentence = 0
      BY <1>3, <1>5, <3>1, GatherFacts
    <3>2. CASE sentence # 0
      BY <1>3, <1>5, <3>2, GatherFacts
    <3>. QED
      BY <3>1, <3>2
  <2>. QED
    BY <1>2, <2>1, <2>2, <2>3 DEF Underway
<1>. QED
  BY <1>9, <1>10

\* The words of the sentences so far: the first one's, and those of the others.
LEMMA GatherWords ==
  ASSUME NEW text, NEW score, Gathering(text, score)
  PROVE  /\ sentence = 0 => /\ WordsFrom(1)' = Split(text)
                            /\ WordsFrom(2)' = <<>>
         /\ sentence > 0 => \A n \in {1, 2} :
              /\ WordsFrom(n) \in Seq(Words)
              /\ WordsFrom(n)' = WordsFrom(n) \o Split(text)
         /\ received'[1] = IF sentence = 0 THEN text ELSE received[1]
<1>. DEFINE w == Split(text)
<1>1. /\ sentence \in Nat /\ Len(received) = sentence
      /\ received \in Seq(Seq(Words \cup {Empty}))
      /\ text \in Seq(Words \cup {Empty})
      /\ received' = Append(received, text)
      /\ w \in Seq(Words)
  BY GatherFacts
<1>2. \A n \in 1 .. sentence + 1 :
        /\ WordsFrom(n) \in Seq(Words)
        /\ WordsFrom(n)' = WordsFrom(n) \o w
        /\ n = sentence + 1 => WordsFrom(n) = <<>>
  BY <1>1, WordsAppend
<1>3. ASSUME sentence = 0 PROVE WordsFrom(1)' = w /\ WordsFrom(2)' = <<>>
  <2>1. 1 \in 1 .. sentence + 1 /\ 1 = sentence + 1
    BY <1>3
  <2>2. WordsFrom(1)' = <<>> \o w
    BY <1>2, <2>1
  <2>3. <<>> \o w = w
    BY <1>1, ConcatEmptySeq
  <2>4. received' \in Seq(Seq(Words \cup {Empty})) /\ Len(received') = 1
    BY <1>1, <1>3, AppendProperties
  <2>5. Pieces(received', 2) = <<>>
    <3>1. PICK r \in Seq(Seq(Words \cup {Empty})) : r = received'
      BY <2>4
    <3>2. 2 = Len(r) + 1 /\ 2 \in Nat
      <4>1. Len(r) = 1
        BY <2>4, <3>1
      <4>. QED
        BY <4>1
    <3>3. Pieces(r, 2) = <<>>
      BY <3>2, NoPieces
    <3>. QED
      BY <3>1, <3>3
  <2>6. WordsFrom(2)' = FlattenSeq(Pieces(received', 2))
    BY DEF WordsFrom, Pieces
  <2>7. WordsFrom(2)' = <<>>
    BY <2>5, <2>6, FlattenAppend
  <2>. QED
    BY <2>2, <2>3, <2>7
<1>4. ASSUME sentence > 0, NEW n \in {1, 2}
      PROVE  /\ WordsFrom(n) \in Seq(Words)
             /\ WordsFrom(n)' = WordsFrom(n) \o w
  <2>1. n \in 1 .. sentence + 1
    BY <1>1, <1>4
  <2>. QED
    BY <1>2, <2>1
<1>5. received'[1] = IF sentence = 0 THEN text ELSE received[1]
  BY <1>1, AppendProperties
<1>. QED
  BY <1>3, <1>4, <1>5

LEMMA Associative == \A x, y, z \in Seq(Words) : (x \o y) \o z = x \o (y \o z)
BY ConcatAssociative

LEMMA GatherGathered ==
  ASSUME NEW text, NEW score, Gathering(text, score)
  PROVE  Gathered'
<1>1. PICK w \in Seq(Words) : w = Split(text)
  BY GatherFacts
<1>2. PICK L \in Nat : L = Len(earlier)
  BY GatherFacts
<1>3. PICK out \in Seq(Seq(Words)) : out = output_batch_tokens
  BY DEF Gathering, SmtInv, SmtTypeOK
<1>4. PICK new : new = output_batch_tokens'
  OBVIOUS
<1>5. new = Put(out, w, sentence)
  BY <1>1, <1>3, <1>4, GatherFacts
<1>6. sentence \in Nat /\ sentence' = sentence + 1 /\ sentence' # 0 /\ sentence' > 0
  BY GatherFacts
<1>7. Len(out) = L + (IF sentence = 0 THEN 0 ELSE 1)
  BY <1>2, <1>3, GatherFacts
<1>8. earlier' = earlier /\ earlier \in Seq(Seq(Words))
  BY GatherFacts
<1>11. sentence > 0 => sentence # 0 /\ Len(out) = L + 1 /\ Len(out) > 0
  BY <1>6, <1>7
<1>12. /\ new \in Seq(Seq(Words))
       /\ Len(new) = Len(out) + (IF sentence = 0 THEN 1 ELSE 0)
       /\ sentence = 0 => new[Len(out) + 1] = w /\ \A k \in 1 .. Len(out) : new[k] = out[k]
       /\ sentence > 0 => new[1] = out[1] \o w /\ \A k \in 2 .. Len(out) : new[k] = out[k]
  <2>1. sentence \in Nat /\ (sentence > 0 => Len(out) > 0)
    BY <1>6, <1>11
  <2>2. out \in Seq(Seq(Words)) /\ w \in Seq(Words)
    BY <1>1, <1>3
  <2>3. PutIs(Put(out, w, sentence), out, w, sentence, Words)
    BY <2>1, <2>2, PutTyped
  <2>. QED
    BY <1>5, <2>3 DEF PutIs
<1>9. CASE sentence = 0
  <2>1. out = earlier
    BY <1>3, <1>9 DEF Gathering, SmtInv, Underway
  <2>2. Len(new) = L + 1 /\ new[L + 1] = w /\ \A k \in 1 .. L : new[k] = earlier[k]
    BY <1>7, <1>9, <1>12, <2>1
  <2>3. /\ WordsFrom(1)' = w /\ WordsFrom(2)' = <<>> /\ received'[1] = text
    BY <1>1, <1>9, GatherWords
  <2>4. CASE earlier = <<>>
    <3>1. L = 0 /\ new = Append(<<>>, w)
      BY <1>2, <1>5, <1>9, <2>1, <2>4 DEF Put
    <3>2. new = <<w>>
      BY <3>1
    <3>. QED
      BY <1>4, <1>6, <1>8, <2>3, <2>4, <3>2 DEF Gathered
  <2>5. CASE earlier # <<>>
    <3>1. L > 0 /\ 1 \in 1 .. L
      BY <1>2, <1>8, <2>5, EmptySeq
    <3>2. earlier[1] \in Seq(Words)
      BY <1>2, <1>8, <3>1
    <3>3. new[1] = earlier[1] \o <<>>
      BY <2>2, <3>1, <3>2, ConcatEmptySeq
    <3>4. \A n \in 2 .. L : new[n] = earlier[n]
      BY <2>2
    <3>. QED
      BY <1>1, <1>2, <1>4, <1>6, <1>8, <2>2, <2>3, <2>5, <3>3, <3>4 DEF Gathered
  <2>. QED
    BY <2>4, <2>5
<1>10. CASE sentence > 0
  <2>1. Len(out) = L + 1 /\ sentence # 0
    BY <1>10, <1>11
  <2>2. Len(new) = L + 1 /\ new[1] = out[1] \o w /\ \A k \in 2 .. L + 1 : new[k] = out[k]
    BY <1>10, <1>12, <2>1
  <2>3. PICK one \in Seq(Words) : one = WordsFrom(1)
    BY <1>10, GatherWords
  <2>4. PICK two \in Seq(Words) : two = WordsFrom(2)
    BY <1>10, GatherWords
  <2>5. /\ WordsFrom(1)' = one \o w /\ WordsFrom(2)' = two \o w
        /\ received'[1] = received[1]
    <3>1. \A n \in {1, 2} : WordsFrom(n)' = WordsFrom(n) \o Split(text)
      BY <1>10, GatherWords
    <3>2. received'[1] = received[1]
      BY <2>1, GatherWords
    <3>3. WordsFrom(1)' = WordsFrom(1) \o w
      BY <1>1, <3>1
    <3>4. WordsFrom(2)' = WordsFrom(2) \o w
      BY <1>1, <3>1
    <3>. QED
      BY <2>3, <2>4, <3>2, <3>3, <3>4
  <2>6. Gathered
    BY DEF Gathering, SmtInv
  <2>7. CASE earlier = <<>>
    <3>1. out = <<one>>
      BY <1>3, <1>6, <1>10, <2>3, <2>6, <2>7 DEF Gathered
    <3>2. out[1] = one /\ L = 0
      BY <1>2, <2>7, <3>1
    <3>3. PICK x \in Seq(Words) : x = one \o w
      BY ConcatProperties
    <3>4. new \in Seq(Seq(Words))
      BY <1>12
    <3>5. Len(new) = 1 /\ new[1] = x
      BY <2>2, <3>2, <3>3
    <3>6. new = <<x>>
      BY <3>4, <3>5
    <3>. QED
      BY <1>4, <1>6, <1>8, <2>5, <2>7, <3>3, <3>6 DEF Gathered
  <2>8. CASE earlier # <<>>
    <3>1. L > 0 /\ 1 \in 1 .. L
      BY <1>2, <1>8, <2>8, EmptySeq
    <3>2. PICK first \in Seq(Words) : first = earlier[1]
      BY <1>2, <1>8, <3>1
    <3>3. /\ out[1] = first \o two
          /\ out[L + 1] = Split(received[1])
          /\ \A n \in 2 .. L : out[n] = earlier[n]
      BY <1>2, <1>3, <1>10, <2>4, <2>6, <2>8, <3>2 DEF Gathered
    <3>4. new[1] = first \o (two \o w)
      <4>1. new[1] = (first \o two) \o w
        BY <2>2, <3>3
      <4>2. (first \o two) \o w = first \o (two \o w)
        <5>1. first \in Seq(Words) /\ two \in Seq(Words) /\ w \in Seq(Words)
          BY <1>1, <2>4, <3>2
        <5>. QED
          BY <5>1, Associative
      <4>. QED
        BY <4>1, <4>2
    <3>5. new[L + 1] = Split(received'[1])
      <4>1. L + 1 \in 2 .. L + 1
        BY <3>1
      <4>. QED
        BY <2>2, <2>5, <3>3, <4>1
    <3>6. \A n \in 2 .. L : new[n] = earlier[n]
      <4>1. \A n \in 2 .. L : n \in 2 .. L + 1
        OBVIOUS
      <4>. QED
        BY <2>2, <3>3, <4>1
    <3>7. /\ Len(output_batch_tokens') = Len(earlier') + 1
          /\ output_batch_tokens'[1] = earlier'[1] \o WordsFrom(2)'
          /\ output_batch_tokens'[Len(earlier') + 1] = Split(received'[1])
          /\ \A n \in 2 .. Len(earlier') : output_batch_tokens'[n] = earlier'[n]
      BY <1>2, <1>4, <1>8, <2>2, <2>5, <3>2, <3>4, <3>5, <3>6
    <3>. QED
      BY <1>8, <2>8, <3>7 DEF Gathered
  <2>. QED
    BY <2>7, <2>8
<1>. QED
  BY <1>6, <1>9, <1>10

\* The scores that ScoreTells adds up.
Total(scores) == scores[1] + (IF earlier = <<>> THEN 0 ELSE scores[Len(earlier) + 1])

LEMMA TotalIs ==
  /\ earlier = <<>> => \A s : s[1] \in Nat => Total(s) = s[1]
  /\ earlier # <<>> => \A s : Total(s) = s[1] + s[Len(earlier) + 1]
<1>1. ASSUME earlier = <<>>, NEW s, s[1] \in Nat PROVE Total(s) = s[1]
  <2>1. Total(s) = s[1] + 0
    BY <1>1 DEF Total
  <2>. QED
    BY <1>1, <2>1
<1>2. ASSUME earlier # <<>>, NEW s PROVE Total(s) = s[1] + s[Len(earlier) + 1]
  BY <1>2 DEF Total
<1>. QED
  BY <1>1, <1>2

LEMMA TellsIs == ScoreTells <=> (sentence > 0 => Total(output_batch_scores) = Cardinality(answered))
BY DEF ScoreTells, Total

LEMMA GatherScore ==
  ASSUME NEW text, NEW score, Gathering(text, score)
  PROVE  ScoreTells'
<1>1. PICK L \in Nat : L = Len(earlier)
  BY GatherFacts
<1>2. PICK sc \in Seq(Nat) : sc = output_batch_scores
  BY DEF Gathering, SmtInv, SmtTypeOK
<1>3. PICK new : new = output_batch_scores'
  OBVIOUS
<1>4. new = Added(sc, score, sentence) /\ score \in Nat
  BY <1>2, <1>3, GatherFacts DEF Gathering
<1>5. sentence \in Nat /\ sentence' = sentence + 1
  BY GatherFacts
<1>6. earlier' = earlier /\ earlier \in Seq(Seq(Words))
  BY GatherFacts
<1>7. Len(sc) = L + (IF sentence = 0 THEN 0 ELSE 1)
  BY <1>1, <1>2, GatherFacts DEF Gathering, SmtInv, SmtTypeOK
<1>8. sentence > 0 => sentence # 0 /\ Len(sc) = L + 1 /\ Len(sc) > 0
  BY <1>5, <1>7
<1>9. /\ new \in Seq(Nat)
      /\ sentence = 0 => new[Len(sc) + 1] = score /\ \A k \in 1 .. Len(sc) : new[k] = sc[k]
      /\ sentence > 0 => new[1] = sc[1] + score /\ \A k \in 2 .. Len(sc) : new[k] = sc[k]
  <2>1. sentence \in Nat /\ (sentence > 0 => Len(sc) > 0)
    BY <1>5, <1>8
  <2>2. AddIs(Added(sc, score, sentence), sc, score, sentence)
    BY <1>4, <2>1, AddTyped
  <2>. QED
    BY <1>4, <2>2 DEF AddIs
<1>10. PICK c \in Nat : c = Cardinality(answered) /\ Cardinality(answered') = c + score
                        /\ (sentence = 0 => c = 0)
  <2>1. answered \subseteq 1 .. sentence
    BY DEF Gathering, SmtInv, SmtTypeOK
  <2>2. IsFiniteSet(1 .. sentence)
    BY <1>5, FS_Interval
  <2>3. IsFiniteSet(answered)
    BY <2>1, <2>2, FS_Subset
  <2>4. Cardinality(answered) \in Nat
    BY <2>3, FS_CardinalityType
  <2>5. sentence + 1 \notin answered
    BY <1>5, <2>1
  <2>6. Cardinality(answered \cup {sentence + 1}) = Cardinality(answered) + 1
    BY <2>3, <2>5, FS_AddElement
  <2>7. answered' = IF score = 1 THEN answered \cup {sentence + 1} ELSE answered
    BY DEF Gathering, Gather
  <2>8. Cardinality(answered') = Cardinality(answered) + score
    <3>1. score \in {0, 1}
      BY DEF Gathering
    <3>2. CASE score = 1
      BY <2>6, <2>7, <3>2
    <3>3. CASE score = 0
      BY <2>4, <2>7, <3>3
    <3>. QED
      BY <3>1, <3>2, <3>3
  <2>9. sentence = 0 => Cardinality(answered) = 0
    <3>. SUFFICES ASSUME sentence = 0 PROVE Cardinality(answered) = 0
      OBVIOUS
    <3>1. answered = {}
      BY <2>1
    <3>. QED
      BY <3>1, FS_EmptySet
  <2>. QED
    BY <2>4, <2>8, <2>9
<1>11. sentence > 0 => Total(sc) = c
  BY <1>2, <1>10, TellsIs DEF Gathering, SmtInv
<1>12. Total(new) = c + score
  <2>1. CASE earlier = <<>>
    <3>1. L = 0
      BY <1>1, <2>1
    <3>2. CASE sentence = 0
      <4>1. Len(sc) = 0
        BY <1>7, <3>1, <3>2
      <4>2. new[1] = score
        BY <1>9, <3>2, <4>1
      <4>3. Total(new) = score
        BY <1>4, <2>1, <4>2, TotalIs
      <4>. QED
        BY <1>4, <1>10, <3>2, <4>3
    <3>3. CASE sentence > 0
      <4>1. sc[1] \in Nat
        BY <1>8, <3>3
      <4>2. sc[1] = c
        BY <1>11, <2>1, <3>3, <4>1, TotalIs
      <4>3. new[1] = c + score /\ new[1] \in Nat
        BY <1>4, <1>9, <1>10, <3>3, <4>2
      <4>. QED
        BY <2>1, <4>3, TotalIs
    <3>. QED
      BY <1>5, <3>2, <3>3
  <2>2. CASE earlier # <<>>
    <3>1. L > 0 /\ 1 \in 1 .. L
      BY <1>1, <1>6, <2>2, EmptySeq
    <3>2. Total(new) = new[1] + new[L + 1] /\ Total(sc) = sc[1] + sc[L + 1]
      BY <1>1, <2>2, TotalIs
    <3>3. CASE sentence = 0
      <4>1. Len(sc) = L
        BY <1>7, <3>3
      <4>2. sc[1] = 0
        <5>1. \A n \in DOMAIN sc : sc[n] = 0
          BY <1>2, <3>3 DEF Gathering, SmtInv, Underway
        <5>2. 1 \in DOMAIN sc
          BY <3>1, <4>1
        <5>. QED
          BY <5>1, <5>2
      <4>3. new[1] = 0 /\ new[L + 1] = score
        BY <1>9, <3>1, <3>3, <4>1, <4>2
      <4>. QED
        BY <1>4, <1>10, <3>2, <3>3, <4>3
    <3>4. CASE sentence > 0
      <4>1. sc[1] + sc[L + 1] = c
        BY <1>11, <3>2, <3>4
      <4>2. 1 \in 1 .. Len(sc) /\ L + 1 \in 2 .. Len(sc) /\ L + 1 \in 1 .. Len(sc)
        BY <1>8, <3>1, <3>4
      <4>3. sc[1] \in Nat /\ sc[L + 1] \in Nat
        BY <4>2
      <4>4. new[1] = sc[1] + score /\ new[L + 1] = sc[L + 1]
        BY <1>9, <3>4, <4>2
      <4>. QED
        BY <1>4, <3>2, <4>1, <4>3, <4>4
    <3>. QED
      BY <1>5, <3>3, <3>4
  <2>. QED
    BY <2>1, <2>2
<1>13. ScoreTells' <=> (sentence' > 0 => Total(output_batch_scores)' = Cardinality(answered'))
  BY DEF ScoreTells, Total
<1>14. Total(output_batch_scores)' = Total(new)
  BY <1>3, <1>6 DEF Total
<1>. QED
  BY <1>10, <1>12, <1>13, <1>14

LEMMA GatherStep ==
  ASSUME NEW text, NEW score, Gathering(text, score)
  PROVE  SmtInv'
BY GatherTyped, GatherGathered, GatherScore DEF SmtInv

\* A step that gathers nothing changes none of the vectors.
LEMMA Moves ==
  ASSUME SmtInv, UNCHANGED <<batch_tokens, earlier, sentence, output_batch_tokens,
                                 output_batch_scores, received, answered>>,
         at' \in {"next", "connecting", "reading", "done"},
         at' \in {"connecting", "reading"} => sentence < Len(batch_tokens)
  PROVE  SmtInv'
<1>1. SmtTypeOK'
  BY DEF SmtInv, SmtTypeOK
<1>2. Underway'
  BY DEF SmtInv, Underway
<1>3. WordsFrom(1)' = WordsFrom(1) /\ WordsFrom(2)' = WordsFrom(2)
  BY DEF WordsFrom
<1>4. Gathered'
  BY <1>3 DEF SmtInv, Gathered
<1>5. ScoreTells'
  BY DEF SmtInv, ScoreTells
<1>. QED
  BY <1>1, <1>2, <1>4, <1>5 DEF SmtInv

LEMMA GatherNext ==
  SmtInv /\ [SmtNext]_smt_vars => SmtInv'
<1>. SUFFICES ASSUME SmtInv, [SmtNext]_smt_vars PROVE SmtInv'
  OBVIOUS
<1>1. CASE NextSentence
  BY <1>1, Moves DEF NextSentence
<1>2. CASE Connect
  BY <1>2, Moves DEF Connect, SmtInv, Underway
<1>3. CASE Translated
  <2>1. PICK text \in Texts : Gather(text, 1)
    BY <1>3 DEF Translated
  <2>2. sentence < Len(batch_tokens)
    BY <1>3 DEF Translated, SmtInv, Underway
  <2>3. Gathering(text, 1)
    BY <2>1, <2>2 DEF Gathering
  <2>. QED
    BY <2>3, GatherStep
<1>4. CASE Untranslated
  <2>1. Gather(<<>>, 0)
    BY <1>4 DEF Untranslated
  <2>2. sentence < Len(batch_tokens)
    BY <1>4 DEF Untranslated, SmtInv, Underway
  <2>3. Gathering(<<>>, 0)
    BY <2>1, <2>2 DEF Gathering
  <2>. QED
    BY <2>3, GatherStep
<1>5. CASE Return
  BY <1>5, Moves DEF Return
<1>6. CASE UNCHANGED smt_vars
  <2>1. at' = at /\ UNCHANGED <<batch_tokens, earlier, sentence, output_batch_tokens,
                                output_batch_scores, received, answered>>
    BY <1>6 DEF smt_vars
  <2>. QED
    BY <2>1, Moves DEF SmtInv, SmtTypeOK, Underway
<1>. QED
  BY <1>1, <1>2, <1>3, <1>4, <1>5, <1>6 DEF SmtNext

LEMMA GatherAlways == SmtSpec => []SmtInv
<1>1. SmtInit => SmtInv
  BY GatherInit
<1>2. SmtInv /\ [SmtNext]_smt_vars => SmtInv'
  BY GatherNext
<1>. QED
  BY <1>1, <1>2, PTL DEF SmtSpec

\* NMTBatchSMT keeps its vectors in step, as many scores as translations, and the
\* sentences that were answered are among those it is done with (smt.cpp:146-163).
THEOREM SmtTypeCorrect == SmtSpec => []SmtTypeOK
<1>1. SmtInv => SmtTypeOK
  BY DEF SmtInv
<1>. QED
  BY <1>1, GatherAlways, PTL

\* Whatever the server refuses, tears off or answers, the translations received are
\* gathered in the order of the sentences and none is lost; with vectors in use, the
\* batch is torn apart (smt.cpp:146-163).
THEOREM GatheredHolds == SmtSpec => []Gathered
<1>1. SmtInv => Gathered
  BY DEF SmtInv
<1>. QED
  BY <1>1, GatherAlways, PTL

\* The scores count the sentences that were answered, no more and no fewer
\* (smt.cpp:130-134, 156, 161).
THEOREM ScoreTellsHolds == SmtSpec => []ScoreTells
<1>1. SmtInv => ScoreTells
  BY DEF SmtInv
<1>. QED
  BY <1>1, GatherAlways, PTL
=============================================================================
