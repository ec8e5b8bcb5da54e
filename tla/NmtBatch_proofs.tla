--------------------------- MODULE NmtBatch_proofs ---------------------------
(* What holds of a call of NMTBatch for any batch and any answer.            *)
EXTENDS NmtBatch, TLAPS

\* The batch the caller passes: at least one sentence, each a sequence of words.
LEMMA BatchTyped ==
  ASSUME NEW b \in Batches
  PROVE  /\ b \in Seq(Seq(Words)) /\ Len(b) \in Nat \ {0} /\ DOMAIN b = 1 .. Len(b)
         /\ \A i \in 1 .. Len(b) : b[i] \in Seq(Words) /\ Len(b[i]) \in Nat
<1>1. b \in Seq(Seq(Words)) /\ b # <<>>
  BY BatchesAssumption
<1>2. Len(b) \in Nat /\ DOMAIN b = 1 .. Len(b) /\ \A i \in 1 .. Len(b) : b[i] \in Seq(Words)
  BY <1>1
<1>3. Len(b) # 0
  BY <1>1
<1>. QED
  BY <1>1, <1>2, <1>3

\* A function on the first n numbers is a sequence of length n.
LEMMA Constructed ==
  ASSUME NEW S, NEW n \in Nat, NEW f \in [1 .. n -> S]
  PROVE  f \in Seq(S) /\ Len(f) = n
OBVIOUS

\* Appending one value.
LEMMA Appended ==
  ASSUME NEW S, NEW s \in Seq(S), NEW e \in S
  PROVE  /\ Append(s, e) \in Seq(S) /\ Len(Append(s, e)) = Len(s) + 1
         /\ DOMAIN Append(s, e) = 1 .. Len(s) + 1
         /\ \A i \in 1 .. Len(s) : Append(s, e)[i] = s[i]
         /\ Append(s, e)[Len(s) + 1] = e
OBVIOUS

\* The types of the parts of an answer.
LEMMA AnswerTyped ==
  ASSUME NEW a \in Answer
  PROVE  /\ a.code \in {"OK", "NOT_FOUND", "OTHER"}
         /\ a.length \in Seq(Numerals) /\ Len(a.length) \in Nat
         /\ DOMAIN a.length = 1 .. Len(a.length)
         /\ \A i \in 1 .. Len(a.length) : Atoi[a.length[i]] \in Int
         /\ a.tokens \in Seq(Strings) /\ Len(a.tokens) \in Nat
         /\ \A i \in 1 .. Len(a.tokens) : a.tokens[i] \in Strings
         /\ a.width \in Nat
BY AtoiAssumption DEF Answer, Strings

\* The lengths of what the call has in hand.
LEMMA Typed ==
  ASSUME TypeOK
  PROVE  /\ Len(batch) \in Nat \ {0} /\ DOMAIN batch = 1 .. Len(batch)
         /\ Len(lengths) \in Nat /\ DOMAIN lengths = 1 .. Len(lengths)
         /\ Len(output_lengths) \in Nat /\ DOMAIN output_lengths = 1 .. Len(output_lengths)
         /\ Len(output_tokens) \in Nat /\ DOMAIN output_tokens = 1 .. Len(output_tokens)
         /\ Len(output_batch_tokens) \in Nat
         /\ DOMAIN output_batch_tokens = 1 .. Len(output_batch_tokens)
         /\ it \in Nat \ {0}
BY BatchTyped DEF TypeOK, it

-----------------------------------------------------------------------------
\* Before the answer there is nothing to say of the outputs; a step of it that is
\* not the last keeps that so.
LEMMA NothingReadYet ==
  ASSUME Reading, pc \in {"pad", "request", "rpc"},
         pc' \in {"pad", "request", "rpc", "died"},
         UNCHANGED <<batch, response, output_lengths, output_tokens, output_batch_tokens,
                     current_index>>
  PROVE  Reading' /\ InRow' /\ RowsExact' /\ ReadsInRange'
<1>1. output_batch_tokens' = <<>> /\ DOMAIN output_batch_tokens' = {}
  BY DEF Reading
<1>2. Reading'
  BY DEF Reading
<1>3. InRow' /\ ReadsInRange'
  BY DEF InRow, ReadsInRange
<1>4. RowsExact'
  BY <1>1 DEF RowsExact
<1>. QED
  BY <1>2, <1>3, <1>4

\* What the call has sent stands while the answer is read.
LEMMA SentStands ==
  ASSUME Padding, RequestFaithful, pc \in {"rpc", "lengths", "tokens"}, pc' # "pad",
         UNCHANGED <<batch, batch_tokens, lengths, max_length, request>>
  PROVE  Padding' /\ RequestFaithful'
BY DEF Padding, RequestFaithful, Padded

-----------------------------------------------------------------------------
LEMMA InitInvariant == Init => IInv
<1>. SUFFICES ASSUME Init PROVE IInv
  OBVIOUS
<1>1. /\ batch \in Batches /\ batch_tokens = batch /\ lengths = <<>> /\ max_length = 0
      /\ pc = "pad" /\ output_lengths = <<>> /\ output_tokens = <<>>
      /\ output_batch_tokens = <<>> /\ current_index = 0 /\ response = NoAnswer
  BY DEF Init
<1>2. batch \in Seq(Seq(Strings)) /\ Len(batch) \in Nat \ {0}
  BY <1>1, BatchTyped DEF Strings
<1>3. TypeOK
  <2>1. request \in [rows : Seq(Seq(Strings)), lengths : Seq(Nat)]
    BY DEF Init, None
  <2>2. response \in Answer
    BY <1>1 DEF NoAnswer, Answer
  <2>. QED
    BY <1>1, <1>2, <2>1, <2>2 DEF Init, TypeOK
<1>4. Padding
  BY <1>1, <1>2 DEF Padding
<1>5. Reading
  <2>1. Len(response.length) = 0
    BY <1>1 DEF NoAnswer
  <2>. QED
    BY <1>1, <1>2, <2>1 DEF Reading
<1>6. RequestFaithful /\ InRow /\ RowsExact /\ ReadsInRange
  BY <1>1 DEF RequestFaithful, InRow, RowsExact, ReadsInRange
<1>. QED
  BY <1>3, <1>4, <1>5, <1>6 DEF IInv

LEMMA MeasureRowInvariant == ASSUME IInv, MeasureRow PROVE IInv'
<1>. DEFINE k == Len(lengths) + 1
            n == Len(batch_tokens[k])
<1>0. TypeOK /\ Padding /\ Reading /\ pc = "pad" /\ pc' = "pad"
  BY DEF IInv, MeasureRow
<1>1. batch_tokens = batch /\ k \in 1 .. Len(batch) /\ n = Len(batch[k]) /\ n \in Nat
  <2>1. batch_tokens = batch
    BY <1>0 DEF Padding
  <2>2. k \in 1 .. Len(batch)
    BY <1>0, <2>1, Typed DEF MeasureRow
  <2>. QED
    BY <1>0, <2>1, <2>2, BatchTyped DEF TypeOK
<1>2. lengths' = Append(lengths, n) /\ max_length' = IF n > max_length THEN n ELSE max_length
  BY DEF MeasureRow
<1>3. /\ UNCHANGED <<batch, batch_tokens, request, stub, response, output_lengths, output_tokens,
                     output_batch_tokens, current_index, status>>
  BY DEF MeasureRow
<1>4. lengths \in Seq(Nat) /\ max_length \in Nat
  BY <1>0 DEF TypeOK
<1>5. /\ lengths' \in Seq(Nat) /\ Len(lengths') = k /\ DOMAIN lengths' = 1 .. k
      /\ \A i \in 1 .. Len(lengths) : lengths'[i] = lengths[i]
      /\ lengths'[k] = n
  BY <1>1, <1>2, <1>4, Appended
<1>6. max_length' \in Nat /\ max_length' >= max_length /\ max_length' >= n
  BY <1>1, <1>2, <1>4
<1>7. TypeOK'
  BY <1>0, <1>3, <1>5, <1>6 DEF TypeOK
<1>8. Padding'
  <2>1. ASSUME NEW i \in 1 .. k
        PROVE  lengths'[i] = Len(batch[i]) /\ Len(batch[i]) <= max_length'
    <3>1. CASE i = k
      BY <3>1, <1>1, <1>5, <1>6
    <3>2. CASE i # k
      <4>1. i \in 1 .. Len(lengths) /\ i \in DOMAIN lengths
        BY <3>2, <1>0, Typed
      <4>2. lengths[i] = Len(batch[i]) /\ Len(batch[i]) <= max_length
        BY <4>1, <1>0 DEF Padding
      <4>3. Len(batch[i]) \in Nat
        BY <1>0, <1>1, BatchTyped DEF TypeOK
      <4>. QED
        BY <4>1, <4>2, <4>3, <1>4, <1>5, <1>6
    <3>. QED
      BY <3>1, <3>2
  <2>. QED
    BY <2>1, <1>0, <1>1, <1>3, <1>5 DEF Padding
<1>9. Reading' /\ InRow' /\ RowsExact' /\ ReadsInRange'
  BY <1>0, <1>3, NothingReadYet
<1>10. RequestFaithful'
  BY <1>0 DEF RequestFaithful
<1>. QED
  BY <1>7, <1>8, <1>9, <1>10 DEF IInv

LEMMA PadBatchInvariant == ASSUME IInv, PadBatch PROVE IInv'
<1>0. TypeOK /\ Padding /\ Reading /\ pc = "pad" /\ pc' = "request"
  BY DEF IInv, PadBatch
<1>1. batch_tokens = batch /\ Len(lengths) = Len(batch)
  BY <1>0 DEF Padding, PadBatch
<1>2. UNCHANGED <<batch, lengths, max_length, request, stub, response, output_lengths,
                  output_tokens, output_batch_tokens, current_index, status>>
  BY DEF PadBatch
<1>3. max_length \in Nat /\ batch \in Batches
  BY <1>0 DEF TypeOK
<1>4. batch_tokens' = [i \in 1 .. Len(batch) |-> Padded(batch[i])] /\ DOMAIN batch = 1 .. Len(batch)
  BY <1>0, <1>1, Typed DEF PadBatch
<1>5. ASSUME NEW i \in 1 .. Len(batch)
      PROVE  Padded(batch[i]) \in Seq(Strings)
  <2>1. batch[i] \in Seq(Words) /\ Len(batch[i]) \in Nat
    BY <1>3, BatchTyped
  <2>2. Padded(batch[i]) \in [1 .. max_length -> Strings]
    BY <2>1, <1>3 DEF Padded, Strings
  <2>. QED
    BY <2>2, <1>3, Constructed
<1>6. batch_tokens' \in Seq(Seq(Strings)) /\ Len(batch_tokens') = Len(batch)
  <2>1. batch_tokens' \in [1 .. Len(batch) -> Seq(Strings)] /\ Len(batch) \in Nat
    BY <1>0, <1>4, <1>5, Typed
  <2>. QED
    BY <2>1, Constructed
<1>7. TypeOK'
  BY <1>0, <1>2, <1>6 DEF TypeOK
<1>8. Padding'
  <2>1. batch_tokens' = [i \in DOMAIN batch |-> Padded(batch[i])]'
    BY <1>2, <1>4 DEF Padded
  <2>2. /\ Len(lengths') = Len(batch') /\ Len(batch) \in Nat
        /\ \A i \in DOMAIN lengths' : /\ lengths'[i] = Len(batch'[i])
                                      /\ Len(batch'[i]) <= max_length'
    BY <1>0, <1>1, <1>2, Typed DEF Padding
  <2>. QED
    BY <2>1, <2>2, <1>0 DEF Padding
<1>9. Reading' /\ InRow' /\ RowsExact' /\ ReadsInRange'
  BY <1>0, <1>2, NothingReadYet
<1>10. RequestFaithful'
  BY <1>0 DEF RequestFaithful
<1>. QED
  BY <1>7, <1>8, <1>9, <1>10 DEF IInv

LEMMA BuildRequestInvariant == ASSUME IInv, BuildRequest PROVE IInv'
<1>0. TypeOK /\ Padding /\ Reading /\ pc = "request" /\ pc' = "rpc"
  BY DEF IInv, BuildRequest
<1>1. UNCHANGED <<batch, batch_tokens, lengths, max_length, stub, response, output_lengths,
                  output_tokens, output_batch_tokens, current_index, status>>
  BY DEF BuildRequest
<1>2. max_length \in Nat /\ batch \in Batches /\ lengths \in Seq(Nat)
  BY <1>0 DEF TypeOK
<1>3. /\ Len(lengths) = Len(batch) /\ Len(batch) \in Nat \ {0} /\ DOMAIN batch = 1 .. Len(batch)
      /\ batch_tokens = [i \in 1 .. Len(batch) |-> Padded(batch[i])]
  BY <1>0, Typed DEF Padding
<1>4. DOMAIN batch_tokens[1] = 1 .. max_length
  BY <1>2, <1>3 DEF Padded
<1>5. /\ request'.rows = [i \in 1 .. Len(batch) |-> [j \in 1 .. max_length |-> batch_tokens[i][j]]]
      /\ request'.lengths = lengths
      /\ request' = [rows |-> request'.rows, lengths |-> lengths]
  BY <1>3, <1>4 DEF BuildRequest
<1>6. ASSUME NEW i \in 1 .. Len(batch)
      PROVE  /\ request'.rows[i] \in Seq(Strings)
             /\ Len(request'.rows[i]) = max_length
             /\ DOMAIN request'.rows[i] = 1 .. max_length
             /\ \A j \in 1 .. max_length :
                  request'.rows[i][j] = IF j <= Len(batch[i]) THEN batch[i][j] ELSE Pad
  <2>1. request'.rows[i] = [j \in 1 .. max_length |-> Padded(batch[i])[j]]
    BY <1>3, <1>5
  <2>2. \A j \in 1 .. max_length :
          Padded(batch[i])[j] = IF j <= Len(batch[i]) THEN batch[i][j] ELSE Pad
    BY DEF Padded
  <2>3. batch[i] \in Seq(Words) /\ Len(batch[i]) \in Nat
    BY <1>2, BatchTyped
  <2>4. \A j \in 1 .. max_length : Padded(batch[i])[j] \in Strings
    BY <1>2, <2>2, <2>3 DEF Strings
  <2>5. request'.rows[i] \in [1 .. max_length -> Strings]
    BY <2>1, <2>4
  <2>. QED
    BY <1>2, <2>1, <2>2, <2>5, Constructed
<1>7. request'.rows \in Seq(Seq(Strings)) /\ Len(request'.rows) = Len(batch)
  <2>1. request'.rows \in [1 .. Len(batch) -> Seq(Strings)]
    BY <1>5, <1>6
  <2>. QED
    BY <2>1, <1>3, Constructed
<1>8. TypeOK'
  <2>1. request' \in [rows : Seq(Seq(Strings)), lengths : Seq(Nat)]
    BY <1>2, <1>5, <1>7
  <2>. QED
    BY <1>0, <1>1, <2>1 DEF TypeOK
<1>9. RequestFaithful'
  <2>1. ASSUME NEW i \in 1 .. Len(batch)
        PROVE  lengths[i] = Len(batch[i]) /\ Len(batch[i]) <= max_length
    BY <1>0, <1>3, Typed DEF Padding
  <2>. QED
    BY <2>1, <1>1, <1>3, <1>5, <1>6, <1>7 DEF RequestFaithful
<1>10. Padding'
  <2>1. batch_tokens' = [i \in DOMAIN batch |-> Padded(batch[i])]'
    BY <1>0, <1>1 DEF Padding, Padded
  <2>2. /\ Len(lengths') = Len(batch')
        /\ \A i \in DOMAIN lengths' : /\ lengths'[i] = Len(batch'[i])
                                      /\ Len(batch'[i]) <= max_length'
    BY <1>0, <1>1 DEF Padding
  <2>3. Len(batch) \in Nat
    BY <1>3
  <2>. QED
    BY <2>1, <2>2, <2>3, <1>0 DEF Padding
<1>11. Reading' /\ InRow' /\ RowsExact' /\ ReadsInRange'
  BY <1>0, <1>1, NothingReadYet
<1>. QED
  BY <1>8, <1>9, <1>10, <1>11 DEF IInv

LEMMA NullStubInvariant == ASSUME IInv, NullStub PROVE IInv'
<1>0. TypeOK /\ Padding /\ Reading /\ RequestFaithful /\ pc = "rpc" /\ pc' = "died"
  BY DEF IInv, NullStub
<1>1. UNCHANGED <<batch, batch_tokens, lengths, max_length, request, stub, response,
                  output_lengths, output_tokens, output_batch_tokens, current_index, status>>
  BY DEF NullStub
<1>2. TypeOK'
  BY <1>0, <1>1 DEF TypeOK, Ended
<1>3. Padding' /\ RequestFaithful'
  BY <1>0, <1>1, SentStands
<1>4. Reading' /\ InRow' /\ RowsExact' /\ ReadsInRange'
  BY <1>0, <1>1, NothingReadYet
<1>. QED
  BY <1>2, <1>3, <1>4 DEF IInv

-----------------------------------------------------------------------------
\* The rows that were cut stay right while nothing is cut.
LEMMA RowsStand ==
  ASSUME RowsExact, UNCHANGED <<batch, response, output_batch_tokens>>
  PROVE  RowsExact'
BY DEF RowsExact, WellFormed, AlignedBefore

LEMMA PredictInvariant == ASSUME IInv, Predict PROVE IInv'
<1>0. /\ TypeOK /\ Padding /\ Reading /\ RequestFaithful
      /\ pc = "rpc" /\ pc' \in {"lengths", "done"}
  BY DEF IInv, Predict
<1>1. /\ UNCHANGED <<batch, batch_tokens, lengths, max_length, request, stub, output_lengths,
                     output_tokens, output_batch_tokens, current_index>>
      /\ response' \in Answer
      /\ status' \in {"OK", "NOT_FOUND", "INTERNAL"}
  BY AnswersAssumption DEF Predict, StatusFor
<1>2. TypeOK'
  BY <1>0, <1>1 DEF TypeOK, Ended
<1>3. Padding' /\ RequestFaithful'
  BY <1>0, <1>1, SentStands
<1>4. output_lengths' = <<>> /\ output_tokens' = <<>> /\ output_batch_tokens' = <<>>
  BY <1>0, <1>1 DEF Reading
<1>5. Reading'
  <2>1. Len(response'.length) \in Nat /\ Len(batch') \in Nat
    BY <1>0, <1>1, AnswerTyped, Typed
  <2>. QED
    BY <2>1, <1>0, <1>1, <1>4 DEF Reading
<1>6. InRow' /\ RowsExact' /\ ReadsInRange'
  BY <1>0, <1>4 DEF InRow, RowsExact, ReadsInRange
<1>. QED
  BY <1>2, <1>3, <1>5, <1>6 DEF IInv

\* A length is only missing from an answer that has fewer than there are rows.
LEMMA ReadLengthInvariant == ASSUME IInv, ReadLength PROVE IInv'
<1>. DEFINE k == Len(output_lengths) + 1
<1>0. /\ TypeOK /\ Padding /\ Reading /\ RequestFaithful /\ RowsExact
      /\ pc = "lengths" /\ pc' \in {"lengths", "undefined"}
  BY DEF IInv, ReadLength
<1>1. /\ UNCHANGED <<batch, batch_tokens, lengths, max_length, request, stub, response,
                     output_tokens, output_batch_tokens, current_index, status>>
      /\ Len(output_lengths) < Len(batch)
  BY <1>0 DEF ReadLength, TypeOK
<1>2. /\ Len(response.length) \in Nat /\ response \in Answer /\ output_lengths \in Seq(Int)
      /\ Len(output_lengths) \in Nat /\ DOMAIN output_lengths = 1 .. Len(output_lengths)
  BY <1>0, AnswerTyped, Typed DEF TypeOK
<1>3. Padding' /\ RequestFaithful' /\ RowsExact'
  BY <1>0, <1>1, SentStands, RowsStand
<1>4. InRow'
  BY <1>0 DEF InRow
<1>5. CASE Len(output_lengths) < Len(response.length)
  <2>1. output_lengths' = Append(output_lengths, Atoi[response.length[k]]) /\ pc' = "lengths"
    BY <1>0, <1>5 DEF ReadLength
  <2>2. Atoi[response.length[k]] \in Int
    BY <1>2, <1>5, AnswerTyped
  <2>3. /\ output_lengths' \in Seq(Int) /\ Len(output_lengths') = k
        /\ DOMAIN output_lengths' = 1 .. k
        /\ \A i \in 1 .. Len(output_lengths) : output_lengths'[i] = output_lengths[i]
        /\ output_lengths'[k] = Atoi[response.length[k]]
    BY <1>2, <2>1, <2>2, Appended
  <2>4. TypeOK'
    BY <1>0, <1>1, <2>1, <2>3 DEF TypeOK
  <2>5. \A i \in DOMAIN output_lengths' : output_lengths'[i] = Atoi[response.length[i]]
    <3>1. \A i \in 1 .. Len(output_lengths) : output_lengths[i] = Atoi[response.length[i]]
      BY <1>0, <1>2 DEF Reading
    <3>2. \A i \in 1 .. k : i = k \/ i \in 1 .. Len(output_lengths)
      BY <1>2
    <3>. QED
      BY <3>1, <3>2, <2>3
  <2>6. Reading'
    BY <1>0, <1>1, <1>2, <1>5, <2>1, <2>3, <2>5, Typed DEF Reading
  <2>7. ReadsInRange'
    BY <2>1 DEF ReadsInRange
  <2>. QED
    BY <1>3, <1>4, <2>4, <2>6, <2>7 DEF IInv
<1>6. CASE ~ (Len(output_lengths) < Len(response.length))
  <2>1. pc' = "undefined" /\ output_lengths' = output_lengths
    BY <1>0, <1>6 DEF ReadLength
  <2>2. TypeOK' /\ Reading'
    BY <1>0, <1>1, <2>1 DEF TypeOK, Ended, Reading
  <2>3. ReadsInRange'
    <3>1. ~ WellFormed(response)
      BY <1>0, <1>1, <1>2, <1>6, Typed DEF WellFormed
    <3>2. ~ WellFormed(response)'
      BY <1>1, <3>1 DEF WellFormed
    <3>. QED
      BY <3>2 DEF ReadsInRange
  <2>. QED
    BY <1>3, <1>4, <2>2, <2>3 DEF IInv
<1>. QED
  BY <1>5, <1>6

\* The first row begins with the tensor.
LEMMA EndLengthsInvariant == ASSUME IInv, EndLengths PROVE IInv'
<1>0. /\ TypeOK /\ Padding /\ Reading /\ RequestFaithful /\ RowsExact
      /\ pc = "lengths" /\ pc' \in {"tokens", "done"}
  BY DEF IInv, EndLengths
<1>1. UNCHANGED <<batch, batch_tokens, lengths, max_length, request, stub, response,
                  output_lengths, output_tokens, output_batch_tokens, current_index, status>>
  BY DEF EndLengths
<1>2. TypeOK'
  BY <1>0, <1>1 DEF TypeOK, Ended
<1>3. Padding' /\ RequestFaithful' /\ RowsExact'
  BY <1>0, <1>1, SentStands, RowsStand
<1>4. Reading'
  <2>1. "length" \in response.outputs => Len(output_lengths) = Len(batch)
    BY <1>0 DEF EndLengths, TypeOK
  <2>. QED
    BY <1>0, <1>1, <2>1 DEF Reading
<1>5. InRow'
  <2>1. output_tokens' = <<>> /\ output_batch_tokens' = <<>> /\ current_index' = 0
    BY <1>0, <1>1 DEF Reading
  <2>2. it' = 1 /\ Len(output_tokens') = 0 /\ DOMAIN output_tokens' = {}
    BY <2>1 DEF it
  <2>3. response' \in Answer
    BY <1>2 DEF TypeOK
  <2>4. Start' = 0
    BY <2>2, <2>3, AnswerTyped DEF Start
  <2>5. ASSUME WellFormed(response)', Len(batch') \in Nat \ {0}
        PROVE  0 <= Atoi[response'.length[1]]
    BY <2>3, <2>5, AnswerTyped DEF WellFormed
  <2>. QED
    BY <1>0, <1>1, <2>1, <2>2, <2>4, <2>5, Typed DEF InRow
<1>6. ReadsInRange'
  BY <1>0 DEF ReadsInRange
<1>. QED
  BY <1>2, <1>3, <1>4, <1>5, <1>6 DEF IInv

\* A row without a length is a row of an answer that lacks the lengths.
LEMMA NoLengthInvariant == ASSUME IInv, NoLength PROVE IInv'
<1>0. /\ TypeOK /\ Padding /\ Reading /\ RequestFaithful /\ RowsExact
      /\ pc = "tokens" /\ pc' = "undefined"
  BY DEF IInv, NoLength
<1>1. UNCHANGED <<batch, batch_tokens, lengths, max_length, request, stub, response,
                  output_lengths, output_tokens, output_batch_tokens, current_index, status>>
  BY DEF NoLength
<1>2. TypeOK' /\ Reading' /\ InRow'
  BY <1>0, <1>1 DEF TypeOK, Ended, Reading, InRow
<1>3. Padding' /\ RequestFaithful' /\ RowsExact'
  BY <1>0, <1>1, SentStands, RowsStand
<1>4. ReadsInRange'
  <2>1. "length" \notin response.outputs
    <3>1. Len(batch_tokens) = Len(batch) /\ it <= Len(batch_tokens) /\ it > Len(output_lengths)
      BY <1>0 DEF NoLength, TypeOK
    <3>2. Len(output_lengths) # Len(batch)
      BY <1>0, <3>1, Typed
    <3>. QED
      BY <1>0, <3>2 DEF Reading
  <2>2. ~ WellFormed(response)'
    BY <1>1, <2>1 DEF WellFormed
  <2>. QED
    BY <2>2 DEF ReadsInRange
<1>. QED
  BY <1>2, <1>3, <1>4 DEF IInv

LEMMA EndTokensInvariant == ASSUME IInv, EndTokens PROVE IInv'
<1>0. /\ TypeOK /\ Padding /\ Reading /\ RequestFaithful /\ RowsExact
      /\ pc = "tokens" /\ pc' = "done"
  BY DEF IInv, EndTokens
<1>1. UNCHANGED <<batch, batch_tokens, lengths, max_length, request, stub, response,
                  output_lengths, output_tokens, output_batch_tokens, current_index, status>>
  BY DEF EndTokens
<1>2. TypeOK' /\ Reading' /\ InRow' /\ ReadsInRange'
  BY <1>0, <1>1 DEF TypeOK, Ended, Reading, InRow, ReadsInRange
<1>3. Padding' /\ RequestFaithful' /\ RowsExact'
  BY <1>0, <1>1, SentStands, RowsStand
<1>. QED
  BY <1>2, <1>3 DEF IInv

-----------------------------------------------------------------------------
\* Row i of n rows of width w ends where row i + 1 begins, and inside the tensor.
LEMMA RowFits ==
  ASSUME NEW n \in Nat, NEW i \in 1 .. n, NEW w \in Nat
  PROVE  /\ (i - 1) * w \in Nat /\ n * w \in Nat
         /\ (i - 1) * w + w = ((i + 1) - 1) * w
         /\ (i - 1) * w + w <= n * w
<1>1. (i - 1) * w \in Nat /\ (n - i) * w \in Nat /\ n * w \in Nat
  OBVIOUS
<1>2. (i - 1) * w + w = i * w
  OBVIOUS
<1>3. n * w = i * w + (n - i) * w
  OBVIOUS
<1>. QED
  BY <1>1, <1>2, <1>3

\* The row that is being cut from a well-formed answer.
LEMMA RowInHand ==
  ASSUME TypeOK, WellFormed(response), it <= Len(batch)
  PROVE  /\ it \in 1 .. Len(batch) /\ response.width \in Nat
         /\ Atoi[response.length[it]] \in 0 .. response.width
         /\ Start \in Nat /\ Start + response.width <= Len(response.tokens)
         /\ Len(response.tokens) \in Nat
<1>1. it \in 1 .. Len(batch) /\ Len(batch) \in Nat
  BY Typed
<1>2. response \in Answer
  BY DEF TypeOK
<1>3. response.width \in Nat /\ DOMAIN response.length = 1 .. Len(batch)
  BY <1>2, AnswerTyped DEF WellFormed
<1>4. Atoi[response.length[it]] \in 0 .. response.width
  BY <1>1, <1>3 DEF WellFormed
<1>5. Len(response.tokens) = Len(batch) * response.width
  BY DEF WellFormed
<1>. QED
  BY <1>1, <1>3, <1>4, <1>5, RowFits DEF Start

\* A string is only missing from a tensor that some earlier row has filled.
LEMMA ReadTokenInvariant == ASSUME IInv, ReadToken PROVE IInv'
<1>. DEFINE k == Len(output_tokens) + 1
<1>0. /\ TypeOK /\ Padding /\ Reading /\ RequestFaithful /\ RowsExact /\ InRow
      /\ pc = "tokens" /\ pc' \in {"tokens", "undefined"}
  BY DEF IInv, ReadToken
<1>1. /\ UNCHANGED <<batch, batch_tokens, lengths, max_length, request, stub, response,
                     output_lengths, output_batch_tokens, status>>
      /\ it <= Len(batch) /\ it <= Len(output_lengths)
      /\ Len(output_tokens) < output_lengths[it]
  BY <1>0 DEF ReadToken, TypeOK
<1>2. /\ response \in Answer /\ current_index \in Nat /\ output_tokens \in Seq(Strings)
      /\ Len(output_tokens) \in Nat /\ it \in 1 .. Len(batch)
  BY <1>0, <1>1, Typed DEF TypeOK
<1>3. Padding' /\ RequestFaithful' /\ RowsExact'
  BY <1>0, <1>1, SentStands, RowsStand
<1>4. Reading'
  BY <1>0, <1>1 DEF Reading
<1>5. output_lengths[it] = Atoi[response.length[it]]
  <2>1. it \in DOMAIN output_lengths
    BY <1>0, <1>1, <1>2, Typed
  <2>. QED
    BY <1>0, <2>1 DEF Reading
<1>6. /\ it' = it /\ Start' = Start /\ (Narrow' <=> Narrow)
      /\ (WellFormed(response)' <=> WellFormed(response))
      /\ (AlignedBefore(it)' <=> AlignedBefore(it))
  <2>1. it' = it
    BY <1>1 DEF it
  <2>. QED
    BY <1>1, <2>1 DEF Start, Narrow, WellFormed, AlignedBefore
<1>7. CASE StringAt <= Len(response.tokens)
  <2>1. /\ output_tokens' = Append(output_tokens, response.tokens[current_index + 1])
        /\ current_index' = current_index + 1 /\ pc' = "tokens"
    BY <1>0, <1>7 DEF ReadToken, StringAt
  <2>2. response.tokens[current_index + 1] \in Strings
    BY <1>2, <1>7, AnswerTyped DEF StringAt
  <2>3. /\ output_tokens' \in Seq(Strings) /\ Len(output_tokens') = k
        /\ DOMAIN output_tokens' = 1 .. k
        /\ \A j \in 1 .. Len(output_tokens) : output_tokens'[j] = output_tokens[j]
        /\ output_tokens'[k] = response.tokens[current_index + 1]
    BY <1>2, <2>1, <2>2, Appended
  <2>4. TypeOK'
    <3>1. current_index' \in Nat
      BY <1>2, <2>1
    <3>. QED
      BY <1>0, <1>1, <2>1, <2>3, <3>1 DEF TypeOK
  <2>5. ReadsInRange'
    BY <2>1 DEF ReadsInRange
  <2>6. InRow'
    <3>. SUFFICES ASSUME WellFormed(response)
                  PROVE  /\ Len(output_tokens') <= Atoi[response'.length[it]]
                         /\ AlignedBefore(it) =>
                              /\ current_index' = Start + Len(output_tokens')
                              /\ \A j \in DOMAIN output_tokens' :
                                   output_tokens'[j] = response'.tokens[Start + j]
                         /\ Narrow => current_index' <= Start + Len(output_tokens')
      BY <1>6 DEF InRow
    <3>1. Start \in Nat /\ Atoi[response.length[it]] \in 0 .. response.width /\ response.width \in Nat
      BY <1>0, <1>1, RowInHand
    <3>2. k <= Atoi[response.length[it]]
      BY <1>1, <1>2, <1>5, <3>1
    <3>3. /\ AlignedBefore(it) =>
               /\ current_index = Start + Len(output_tokens)
               /\ \A j \in DOMAIN output_tokens : output_tokens[j] = response.tokens[Start + j]
          /\ Narrow => current_index <= Start + Len(output_tokens)
      BY <1>0, <1>1 DEF InRow
    <3>4. ASSUME AlignedBefore(it), NEW j \in 1 .. k
          PROVE  output_tokens'[j] = response.tokens[Start + j]
      <4>1. CASE j = k
        <5>1. current_index + 1 = Start + j
          BY <1>2, <3>1, <3>3, <3>4, <4>1
        <5>. QED
          BY <2>3, <4>1, <5>1
      <4>2. CASE j # k
        <5>1. j \in 1 .. Len(output_tokens) /\ j \in DOMAIN output_tokens
          BY <1>0, <1>2, <4>2, Typed
        <5>. QED
          BY <2>3, <3>3, <3>4, <5>1
      <4>. QED
        BY <4>1, <4>2
    <3>. QED
      BY <1>1, <1>2, <2>1, <2>3, <3>1, <3>2, <3>3, <3>4, SMTT(60)
  <2>. QED
    BY <1>3, <1>4, <2>4, <2>5, <2>6 DEF IInv
<1>8. CASE ~ (StringAt <= Len(response.tokens))
  <2>1. UNCHANGED <<output_tokens, current_index>> /\ pc' = "undefined"
    BY <1>0, <1>8 DEF ReadToken
  <2>2. TypeOK' /\ InRow'
    BY <1>0, <1>1, <2>1 DEF TypeOK, Ended, InRow
  <2>3. ReadsInRange'
    <3>1. ASSUME WellFormed(response), Narrow
          PROVE  FALSE
      <4>1. /\ Start \in Nat /\ Atoi[response.length[it]] \in 0 .. response.width
            /\ Start + response.width <= Len(response.tokens) /\ response.width \in Nat
            /\ Len(response.tokens) \in Nat
        BY <1>0, <1>1, <3>1, RowInHand
      <4>2. current_index <= Start + Len(output_tokens)
        BY <1>0, <1>1, <3>1 DEF InRow
      <4>3. Len(output_tokens) + 1 <= Atoi[response.length[it]]
        BY <1>1, <1>2, <1>5, <4>1
      <4>4. current_index + 1 <= Len(response.tokens)
        BY <1>2, <4>1, <4>2, <4>3
      <4>. QED
        BY <1>8, <4>4 DEF StringAt
    <3>. QED
      BY <1>6, <3>1 DEF ReadsInRange
  <2>. QED
    BY <1>3, <1>4, <2>2, <2>3 DEF IInv
<1>. QED
  BY <1>7, <1>8

\* One string of padding behind a row takes the reading to the next row; a row that
\* leaves more takes it short of it.
LEMMA EndRowInvariant == ASSUME IInv, EndRow PROVE IInv'
<1>0. /\ TypeOK /\ Padding /\ Reading /\ RequestFaithful /\ RowsExact /\ InRow
      /\ pc = "tokens" /\ pc' = "tokens"
  BY DEF IInv, EndRow
<1>1. /\ UNCHANGED <<batch, batch_tokens, lengths, max_length, request, stub, response,
                     output_lengths, status>>
      /\ it <= Len(batch) /\ it <= Len(output_lengths)
      /\ Len(output_tokens) >= output_lengths[it]
      /\ output_batch_tokens' = Append(output_batch_tokens, output_tokens)
      /\ output_tokens' = <<>> /\ current_index' = current_index + 1
  BY <1>0 DEF EndRow, TypeOK, Skipping
<1>2. /\ response \in Answer /\ current_index \in Nat /\ output_tokens \in Seq(Strings)
      /\ Len(output_tokens) \in Nat /\ it \in 1 .. Len(batch) /\ Len(batch) \in Nat
      /\ output_batch_tokens \in Seq(Seq(Strings)) /\ it = Len(output_batch_tokens) + 1
      /\ Len(output_batch_tokens) \in Nat
  BY <1>0, <1>1, Typed DEF TypeOK, it
<1>3. /\ output_batch_tokens' \in Seq(Seq(Strings)) /\ Len(output_batch_tokens') = it
      /\ DOMAIN output_batch_tokens' = 1 .. it /\ it' = it + 1
      /\ \A i \in 1 .. Len(output_batch_tokens) :
           output_batch_tokens'[i] = output_batch_tokens[i]
      /\ output_batch_tokens'[it] = output_tokens
  <2>1. Len(Append(output_batch_tokens, output_tokens)) = it
    BY <1>2, Appended
  <2>. QED
    BY <1>1, <1>2, <2>1, Appended DEF it
<1>4. TypeOK'
  <2>1. current_index' \in Nat /\ output_tokens' \in Seq(Strings)
    BY <1>1, <1>2
  <2>. QED
    BY <1>0, <1>1, <1>3, <2>1 DEF TypeOK
<1>5. Padding' /\ RequestFaithful'
  BY <1>0, <1>1, SentStands
<1>6. Reading'
  BY <1>0, <1>1, <1>2, <1>3 DEF Reading
<1>7. ReadsInRange'
  BY <1>0 DEF ReadsInRange
<1>8. /\ WellFormed(response)' <=> WellFormed(response)
      /\ Narrow' <=> Narrow
  BY <1>1 DEF WellFormed, Narrow
<1>9. ASSUME WellFormed(response)
      PROVE  /\ Len(output_tokens) = Atoi[response.length[it]]
             /\ response.width \in Nat /\ Atoi[response.length[it]] \in 0 .. response.width
             /\ Start \in Nat /\ Start' = Start + response.width
  <2>1. response.width \in Nat /\ Atoi[response.length[it]] \in 0 .. response.width /\ Start \in Nat
    BY <1>0, <1>1, <1>9, RowInHand
  <2>2. output_lengths[it] = Atoi[response.length[it]]
    <3>1. it \in DOMAIN output_lengths
      BY <1>0, <1>1, <1>2, Typed
    <3>. QED
      BY <1>0, <3>1 DEF Reading
  <2>3. Len(output_tokens) <= Atoi[response.length[it]]
    BY <1>0, <1>1, <1>9 DEF InRow
  <2>4. Start' = ((it + 1) - 1) * response.width
    BY <1>1, <1>3 DEF Start
  <2>5. (it - 1) * response.width + response.width = ((it + 1) - 1) * response.width
    BY <1>2, <2>1, RowFits
  <2>. QED
    BY <1>1, <1>2, <2>1, <2>2, <2>3, <2>4, <2>5 DEF Start
<1>10. RowsExact'
  <2>. SUFFICES ASSUME WellFormed(response), NEW i \in 1 .. it, AlignedBefore(i)
                PROVE  /\ Len(output_batch_tokens'[i]) = Atoi[response.length[i]]
                       /\ \A j \in DOMAIN output_batch_tokens'[i] :
                            output_batch_tokens'[i][j] =
                              response.tokens[(i - 1) * response.width + j]
    <3>1. \A i : AlignedBefore(i)' <=> AlignedBefore(i)
      BY <1>1 DEF AlignedBefore
    <3>. QED
      BY <1>1, <1>3, <1>8, <3>1 DEF RowsExact
  <2>1. CASE i = it
    <3>1. /\ Len(output_tokens) = Atoi[response.length[it]]
          /\ \A j \in DOMAIN output_tokens : output_tokens[j] = response.tokens[Start + j]
      BY <1>0, <1>1, <1>9, <2>1 DEF InRow
    <3>. QED
      BY <1>3, <2>1, <3>1 DEF Start
  <2>2. CASE i # it
    <3>1. i \in 1 .. Len(output_batch_tokens) /\ i \in DOMAIN output_batch_tokens
      BY <1>0, <1>2, <2>2, Typed
    <3>2. output_batch_tokens'[i] = output_batch_tokens[i]
      BY <1>3, <3>1
    <3>. QED
      BY <1>0, <3>1, <3>2 DEF RowsExact
  <2>. QED
    BY <2>1, <2>2
<1>11. InRow'
  <2>. SUFFICES ASSUME WellFormed(response), it + 1 <= Len(batch)
                PROVE  /\ 0 <= Atoi[response.length[it + 1]]
                       /\ AlignedBefore(it + 1) => current_index' = Start'
                       /\ Narrow => current_index' <= Start'
    <3>1. Len(output_tokens') = 0 /\ DOMAIN output_tokens' = {}
      BY <1>1
    <3>2. AlignedBefore(it)' <=> AlignedBefore(it + 1)
      BY <1>1, <1>3 DEF AlignedBefore
    <3>3. Start' + 0 = Start' \/ ~ WellFormed(response)
      BY <1>9
    <3>. QED
      BY <1>1, <1>3, <1>8, <3>1, <3>2, <3>3 DEF InRow
  <2>1. 0 <= Atoi[response.length[it + 1]]
    <3>1. it + 1 \in DOMAIN response.length /\ response.width \in Nat
      BY <1>2, AnswerTyped DEF WellFormed
    <3>2. Atoi[response.length[it + 1]] \in 0 .. response.width
      BY <3>1 DEF WellFormed
    <3>. QED
      BY <3>1, <3>2
  <2>2. ASSUME AlignedBefore(it + 1)
        PROVE  current_index' = Start'
    <3>1. Atoi[response.length[it]] + 1 = response.width /\ AlignedBefore(it)
      BY <1>2, <2>2 DEF AlignedBefore
    <3>2. current_index = Start + Len(output_tokens)
      BY <1>0, <1>1, <3>1 DEF InRow
    <3>3. current_index' = Start + Atoi[response.length[it]] + 1
      BY <1>1, <1>9, <3>2
    <3>. QED
      BY <1>9, <3>1, <3>3
  <2>3. ASSUME Narrow
        PROVE  current_index' <= Start'
    <3>1. Atoi[response.length[it]] < response.width
      BY <1>2, <2>3 DEF Narrow
    <3>2. current_index <= Start + Len(output_tokens)
      BY <1>0, <1>1, <2>3 DEF InRow
    <3>. QED
      BY <1>1, <1>2, <1>9, <3>1, <3>2
  <2>. QED
    BY <2>1, <2>2, <2>3
<1>. QED
  BY <1>4, <1>5, <1>6, <1>7, <1>10, <1>11 DEF IInv

-----------------------------------------------------------------------------
LEMMA StepInvariant == IInv /\ [Next]_vars => IInv'
<1>. SUFFICES ASSUME IInv, [Next]_vars PROVE IInv'
  OBVIOUS
<1>1. CASE UNCHANGED vars
  <2>1. TypeOK' /\ RequestFaithful' /\ Reading'
    BY <1>1 DEF vars, IInv, TypeOK, RequestFaithful, Reading
  <2>2. Padding'
    BY <1>1 DEF vars, IInv, Padding, Padded
  <2>3. RowsExact'
    BY <1>1, RowsStand DEF vars, IInv
  <2>4. InRow' /\ ReadsInRange'
    BY <1>1 DEF vars, IInv, InRow, ReadsInRange, WellFormed, AlignedBefore, Narrow, Start, it
  <2>. QED
    BY <2>1, <2>2, <2>3, <2>4 DEF IInv
<1>2. CASE Next
  BY <1>2, MeasureRowInvariant, PadBatchInvariant, BuildRequestInvariant, NullStubInvariant,
     PredictInvariant, ReadLengthInvariant, EndLengthsInvariant, NoLengthInvariant,
     ReadTokenInvariant, EndRowInvariant, EndTokensInvariant DEF Next
<1>. QED
  BY <1>1, <1>2

LEMMA Invariant == Spec => []IInv
BY InitInvariant, StepInvariant, PTL DEF Spec

\* Every state of the call has the types its declarations give it.
THEOREM TypeCorrect == Spec => []TypeOK
<1>1. IInv => TypeOK
  BY DEF IInv
<1>. QED
  BY <1>1, Invariant, PTL

\* Whatever the batch: the request that is sent holds each sentence, its length, and
\* nothing but padding behind it, in rows of one width (nmt.cpp:394-401, 449, 474-509).
THEOREM RequestFaithfulHolds == Spec => []RequestFaithful
<1>1. IInv => RequestFaithful
  BY DEF IInv
<1>. QED
  BY <1>1, Invariant, PTL

\* Whatever the number of rows and the width of the answer: a row of the output is the
\* row of the answer as long as every row before it leaves one string of padding
\* (nmt.cpp:541-549).
THEOREM RowsExactHolds == Spec => []RowsExact
<1>1. IInv => RowsExact
  BY DEF IInv
<1>. QED
  BY <1>1, Invariant, PTL

\* An answer with the shape of the request is read within its bounds if no row but the
\* last one fills the width of the tensor (nmt.cpp:530, 544).
THEOREM ReadsInRangeHolds == Spec => []ReadsInRange
<1>1. IInv => ReadsInRange
  BY DEF IInv
<1>. QED
  BY <1>1, Invariant, PTL
=============================================================================
