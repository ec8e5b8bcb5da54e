-------------------------------- MODULE Bpe --------------------------------
(***************************************************************************)
(* Byte pair encoding (bpe.cpp): the codes file, Encode and its cache, and *)
(* Postprocess.  One action is one pass of Encode's loop.                  *)
(*                                                                         *)
(* A letter is a model value and a string the sequence of its letters;     *)
(* EndOfWord stands for "</w>", which no word contains.                    *)
(***************************************************************************)
EXTENDS Integers, Sequences, SequencesExt

CONSTANTS
  Letters,
  EndOfWord,
  Separator,   \* sep_, a string
  CodeFiles,   \* codes files, each the sequence of its lines: pairs of strings
  Inputs       \* sequences of words

Strings == Seq(Letters \cup {EndOfWord}) \ {<<>>}

ASSUME EndOfWordAssumption == EndOfWord \notin Letters
ASSUME SeparatorAssumption == Separator \in Seq(Letters) \ {<<>>}
ASSUME InputsAssumption == Inputs \subseteq Seq(Seq(Letters))
\* The constructor takes the first two fields of every line without looking whether
\* there are two (bpe.cpp:43-45): a file with a shorter line, a blank one included,
\* is undefined behaviour from the start, and no member of CodeFiles.
ASSUME CodeFilesAssumption == CodeFiles \subseteq Seq(Strings \X Strings)

VARIABLES file,    \* the codes file the object was made with
          input,   \* the words of a call of Encode(words)
          pc,      \* "lookup", "merge"; "done"; or "dead"
          word,    \* vWord
          cache,   \* cache_, a partial function from words to sequences of strings
          result   \* the words encoded so far

vars == <<file, input, pc, word, cache, result>>

Init == /\ file \in CodeFiles
        /\ input \in Inputs
        /\ pc = "lookup"
        /\ word = <<>>
        /\ cache = [w \in {} |-> <<>>]
        /\ result = <<>>

-----------------------------------------------------------------------------
\* bpeCodes_: a line sets its code's rank, so the last line of a code counts.
Codes   == {file[i] : i \in DOMAIN file}
Rank(c) == Max({i \in DOMAIN file : file[i] = c}) - 1

GetPairs(w) == {<<w[i], w[i + 1]>> : i \in 1 .. Len(w) - 1}

\* FindBestBigram: ranks from the table's size on are not looked at.
Candidates(pairs) == {c \in pairs \cap Codes : Rank(c) < Cardinality(Codes)}

LastBest(pairs) ==  \* mutant: the code of the greatest rank
  CHOOSE c \in Candidates(pairs) : \A d \in Candidates(pairs) : Rank(d) <= Rank(c)

Best(pairs) == CHOOSE c \in Candidates(pairs) : \A d \in Candidates(pairs) : Rank(c) <= Rank(d)

PushInside(merged, s, pair) ==  \* mutant: an occurrence at the start is not found
  IF Len(merged) > 1 /\ Last(merged) = pair[1] /\ s = pair[2]
  THEN Append(Front(merged), pair[1] \o pair[2])
  ELSE Append(merged, s)

\* One more string of the word: it ends an occurrence of the pair, or stands alone.
Push(merged, s, pair) ==
  IF merged # <<>> /\ Last(merged) = pair[1] /\ s = pair[2]
  THEN Append(Front(merged), pair[1] \o pair[2])
  ELSE Append(merged, s)

\* The inner loop: the pair's occurrences, from the left, become one string each.
MergePair(w, pair) ==
  LET newWord[n \in 0 .. Len(w)] ==
        IF n = 0 THEN <<>> ELSE Push(newWord[n - 1], w[n], pair)
  IN  newWord[Len(w)]

SplitWordIntoLetters(w) == [i \in DOMAIN w |-> <<w[i]>>]

Whole(w) == Append(SplitWordIntoLetters(w), <<EndOfWord>>)

EndsWith(s, suffix) == IsSuffix(suffix, s)

\* The end of Encode: without "</w>", as a string or at the end of one, and with
\* the separator after every string but the last.
Chop(s) == IF EndsWith(s, <<EndOfWord>>) THEN Front(s) ELSE s

TrimmedNoPop(w) ==  \* mutant: "</w>" is only taken off the last string
  Append(Front(w), Chop(Last(w)))

Trimmed(w) ==
  LET v == IF Last(w) = <<EndOfWord>> THEN Front(w) ELSE w
  IN  Append(Front(v), Chop(Last(v)))

SeparatedAll(w) == [i \in DOMAIN w |-> w[i] \o Separator]   \* mutant: after the last, too

Separated(w) == [i \in DOMAIN w |-> IF i < Len(w) THEN w[i] \o Separator ELSE w[i]]

-----------------------------------------------------------------------------
Current == input[Len(result) + 1]

Done == /\ pc = "lookup"
        /\ Len(result) = Len(input)
        /\ pc' = "done"
        /\ UNCHANGED <<file, input, word, cache, result>>

Cached == /\ pc = "lookup"
          /\ Len(result) < Len(input)
          /\ Current \in DOMAIN cache
          /\ result' = Append(result, cache[Current])
          /\ UNCHANGED <<file, input, pc, word, cache>>

Start == /\ pc = "lookup"
         /\ Len(result) < Len(input)
         /\ Current \notin DOMAIN cache
         /\ word' = Whole(Current)
         /\ pc' = "merge"
         /\ UNCHANGED <<file, input, cache, result>>

Merge == /\ pc = "merge"
         /\ Candidates(GetPairs(word)) # {}
         /\ word' = MergePair(word, Best(GetPairs(word)))
         /\ UNCHANGED <<file, input, pc, cache, result>>

\* Nothing to merge.  Of an empty word nothing is left without "</w>": back() of an
\* empty vector, and a loop up to size() - 1.
Finish == /\ pc = "merge"
          /\ Candidates(GetPairs(word)) = {}
          /\ IF word = <<<<EndOfWord>>>>
             THEN pc' = "dead" /\ UNCHANGED <<cache, result>>
             ELSE LET encoded == Separated(Trimmed(word))
                  IN  /\ cache' = [w \in DOMAIN cache \cup {Current} |->
                                     IF w = Current THEN encoded ELSE cache[w]]
                      /\ result' = Append(result, encoded)
                      /\ pc' = "lookup"
          /\ UNCHANGED <<file, input, word>>

Next == Done \/ Cached \/ Start \/ Merge \/ Finish

Spec == Init /\ [][Next]_vars

\* The calling thread runs.
FairSpec == Spec /\ WF_vars(Next)

-----------------------------------------------------------------------------
TypeOK == /\ file \in CodeFiles /\ input \in Inputs
          /\ pc \in {"lookup", "merge", "done", "dead"}
          /\ word \in Seq(Strings)
          /\ DOMAIN cache \subseteq Seq(Letters)
          /\ \A w \in DOMAIN cache : cache[w] \in Seq(Strings)
          /\ result \in Seq(Seq(Strings))

\* Postprocess: strings are joined up to one that does not end with the separator.
Joined(acc, s) ==
  IF EndsWith(s, Separator)
  THEN [words |-> acc.words, open |-> acc.open \o SubSeq(s, 1, Len(s) - Len(Separator))]
  ELSE [words |-> Append(acc.words, acc.open \o s), open |-> <<>>]

JoinedAll(strings) ==
  LET upTo[n \in 0 .. Len(strings)] ==
        IF n = 0 THEN [words |-> <<>>, open |-> <<>>] ELSE Joined(upTo[n - 1], strings[n])
  IN  upTo[Len(strings)]

Postprocess(strings) == JoinedAll(strings).words

\* Postprocess gives back the words that were encoded, with any codes file, words
\* from the cache or not, unless a word ends with the separator itself (bpe.cpp:19,
\* :117-181).
RoundTrip ==
  pc = "done" /\ (\A i \in DOMAIN input : ~ EndsWith(input[i], Separator)) =>
    Postprocess(FlattenSeq(result)) = input

\* The strings a codes file makes, and a file that can have been learned: each line
\* joins letters and strings of the lines before it, into a new string.
Made(i)    == file[i][1] \o file[i][2]
IsLetter(s) == Len(s) = 1
Learned ==
  /\ \A i \in DOMAIN file : \A k \in {1, 2} :
       IsLetter(file[i][k]) \/ \E j \in 1 .. i - 1 : Made(j) = file[i][k]
  /\ \A i, j \in DOMAIN file : i # j => Made(i) # Made(j)

\* A word after the merges of the first k lines.
Applied(w, k) ==
  LET upTo[n \in 0 .. k] == IF n = 0 THEN Whole(w) ELSE MergePair(upTo[n - 1], file[n])
  IN  upTo[k]

\* With a file that can have been learned, looking for the best pair again and again
\* gives what the lines of the file give, each applied once, in the order of the file
\* (bpe.cpp:95-115, :127-161).
InFileOrder ==
  pc = "done" /\ Learned =>
    \A i \in DOMAIN input : result[i] = Separated(Trimmed(Applied(input[i], Len(file))))

\* Encode ends: every best pair is one that the inner loop finds and replaces
\* (bpe.cpp:127, :135-154).
Ends == <>(pc \in {"done", "dead"})
=============================================================================
