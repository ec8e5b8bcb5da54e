------------------------------ MODULE NmtBatch ------------------------------
(***************************************************************************)
(* The TensorFlow Serving client: one call of nmt::NMTBatch, nmt.cpp:387-  *)
(* 565.  It pads the caller's batch, sends it as one tensor, and cuts the  *)
(* flat tensor of the answer back into rows, by the lengths the answer     *)
(* brings along in another tensor.                                         *)
(*                                                                         *)
(* Strings are model values: Pad is the empty one.  Indices start at 1:    *)
(* current_index of the code is the number of strings read or skipped.  An *)
(* access past the end of a vector or of a tensor is undefined behaviour:  *)
(* the call ends "undefined", the process dead or its results arbitrary.   *)
(*                                                                         *)
(* Nothing in src/ creates _stub: with Connected = FALSE, which is what    *)
(* the program has, the call dies at its RPC.  Connected = TRUE is the     *)
(* same code with a stub to call through.                                  *)
(***************************************************************************)
EXTENDS Integers, Sequences

CONSTANTS Words, Pad,
          Numerals,  \* the strings that TensorFlow Serving may write lengths with
          Atoi,      \* [Numerals -> Int], what atoi makes of them
          Batches,   \* the batches it is called with
          Answers,   \* what TensorFlow Serving may answer
          Connected  \* whether _stub may be there

\* A response: its status, which outputs it has, the strings of "length" and those of
\* "tokens", row after row of the given width.  A tensor of integers, like the "length"
\* of the request, has no strings.
Answer == [code : {"OK", "NOT_FOUND", "OTHER"}, outputs : SUBSET {"length", "tokens"},
           length : Seq(Numerals), tokens : Seq(Words \cup {Pad}), width : Nat]

ASSUME PadAssumption       == Pad \notin Words
ASSUME AtoiAssumption      == Atoi \in [Numerals -> Int]
ASSUME BatchesAssumption   == Batches \subseteq Seq(Seq(Words)) \ {<<>>}
ASSUME AnswersAssumption   == Answers \subseteq Answer
ASSUME ConnectedAssumption == Connected \subseteq BOOLEAN

VARIABLES batch,               \* batch_tokens as the caller passed it
          batch_tokens,        \* the same vector, once padded
          lengths, max_length, \* those of PadBatch
          request,             \* the inputs of the request: its rows and lengths
          stub,                \* is there a _stub?
          response,            \* what the RPC returned
          output_lengths, output_tokens, output_batch_tokens,
          current_index,
          status,              \* the status returned
          pc                   \* the part of the call it is in, or how it ended

vars == <<batch, batch_tokens, lengths, max_length, request, stub, response, output_lengths,
          output_tokens, output_batch_tokens, current_index, status, pc>>

Ended == {"done", "undefined", "died"}
None  == [rows |-> <<>>, lengths |-> <<>>]
NoAnswer == [code |-> "OTHER", outputs |-> {}, length |-> <<>>, tokens |-> <<>>, width |-> 0]

-----------------------------------------------------------------------------
Init == /\ batch \in Batches
        /\ batch_tokens = batch
        /\ lengths = <<>> /\ max_length = 0
        /\ request = None
        /\ stub \in Connected
        /\ response = NoAnswer
        /\ output_lengths = <<>> /\ output_tokens = <<>> /\ output_batch_tokens = <<>>
        /\ current_index = 0
        /\ status = "OK"
        /\ pc = "pad"

\* Mutant: the padding goes in front.
PaddedInFront(row) ==
  [j \in 1 .. max_length |-> IF j <= max_length - Len(row) THEN Pad
                             ELSE row[j - (max_length - Len(row))]]

Padded(row) == [j \in 1 .. max_length |-> IF j <= Len(row) THEN row[j] ELSE Pad]

\* PadBatch: the rows are measured one after another, then padded in place.
MeasureRow ==
  /\ pc = "pad"
  /\ Len(lengths) < Len(batch_tokens)
  /\ LET n == Len(batch_tokens[Len(lengths) + 1])
     IN  /\ lengths' = Append(lengths, n)
         /\ max_length' = IF n > max_length THEN n ELSE max_length
  /\ UNCHANGED <<batch, batch_tokens, request, stub, response, output_lengths,
                 output_tokens, output_batch_tokens, current_index, status, pc>>

PadBatch == /\ pc = "pad"
            /\ Len(lengths) = Len(batch_tokens)
            /\ batch_tokens' = [i \in DOMAIN batch_tokens |-> Padded(batch_tokens[i])]
            /\ pc' = "request"
            /\ UNCHANGED <<batch, lengths, max_length, request, stub, response,
                           output_lengths, output_tokens, output_batch_tokens,
                           current_index, status>>

\* The tensors "tokens" and "length"; the batch is as wide as its first row.
BuildRequest ==
  /\ pc = "request"
  /\ request' = [rows    |-> [i \in DOMAIN batch_tokens |->
                               [j \in DOMAIN batch_tokens[1] |-> batch_tokens[i][j]]],
                 lengths |-> lengths]
  /\ pc' = "rpc"
  /\ UNCHANGED <<batch, batch_tokens, lengths, max_length, stub, response, output_lengths,
                 output_tokens, output_batch_tokens, current_index, status>>

\* _stub->Predict, through a null pointer, and through a stub.
NullStub == /\ pc = "rpc"
            /\ ~ stub
            /\ pc' = "died"
            /\ UNCHANGED <<batch, batch_tokens, lengths, max_length, request, stub,
                           response, output_lengths, output_tokens, output_batch_tokens,
                           current_index, status>>

\* Mutant: the status of the RPC is reported as it came.
StatusAsItCame(code) == code

\* What becomes of the status of the RPC.
StatusFor(code) == IF code \in {"OK", "NOT_FOUND"} THEN code ELSE "INTERNAL"

Predict == /\ pc = "rpc"
           /\ stub
           /\ response' \in Answers
           /\ status' = StatusFor(response'.code)
           /\ pc' = IF response'.code = "OK" THEN "lengths" ELSE "done"
           /\ UNCHANGED <<batch, batch_tokens, lengths, max_length, request, stub,
                          output_lengths, output_tokens, output_batch_tokens,
                          current_index>>

\* The first pass over the outputs: one length for each row of the batch, written in
\* digits, or read past the end of the strings there are.
ReadLength ==
  /\ pc = "lengths"
  /\ "length" \in response.outputs
  /\ Len(output_lengths) < Len(batch_tokens)
  /\ IF Len(output_lengths) < Len(response.length)
     THEN /\ output_lengths' =
               Append(output_lengths, Atoi[response.length[Len(output_lengths) + 1]])
          /\ pc' = pc
     ELSE pc' = "undefined" /\ UNCHANGED output_lengths
  /\ UNCHANGED <<batch, batch_tokens, lengths, max_length, request, stub, response,
                 output_tokens, output_batch_tokens, current_index, status>>

EndLengths == /\ pc = "lengths"
              /\ \/ "length" \notin response.outputs
                 \/ Len(output_lengths) = Len(batch_tokens)
              /\ pc' = IF "tokens" \in response.outputs THEN "tokens" ELSE "done"
              /\ UNCHANGED <<batch, batch_tokens, lengths, max_length, request, stub,
                             response, output_lengths, output_tokens, output_batch_tokens,
                             current_index, status>>

\* The second pass: row it of the batch.
it == Len(output_batch_tokens) + 1

NoLength == /\ pc = "tokens"
            /\ it <= Len(batch_tokens)
            /\ it > Len(output_lengths)
            /\ pc' = "undefined"
            /\ UNCHANGED <<batch, batch_tokens, lengths, max_length, request, stub,
                           response, output_lengths, output_tokens, output_batch_tokens,
                           current_index, status>>

\* Mutant: the index has already moved on.
StringAfter == current_index + 2

\* Where in the tensor the string is that is read next.
StringAt == current_index + 1

\* One string of a row.
ReadToken ==
  /\ pc = "tokens"
  /\ it <= Len(batch_tokens)
  /\ it <= Len(output_lengths)
  /\ Len(output_tokens) < output_lengths[it]
  /\ IF StringAt <= Len(response.tokens)
     THEN /\ output_tokens' = Append(output_tokens, response.tokens[StringAt])
          /\ current_index' = current_index + 1
          /\ pc' = pc
     ELSE pc' = "undefined" /\ UNCHANGED <<output_tokens, current_index>>
  /\ UNCHANGED <<batch, batch_tokens, lengths, max_length, request, stub, response,
                 output_lengths, output_batch_tokens, status>>

\* Mutant: two strings are skipped.
SkippingTwo == current_index + 2

\* The end of a row: one string is skipped, whatever the width of the tensor.
Skipping == current_index + 1

EndRow == /\ pc = "tokens"
          /\ it <= Len(batch_tokens)
          /\ it <= Len(output_lengths)
          /\ Len(output_tokens) >= output_lengths[it]
          /\ output_batch_tokens' = Append(output_batch_tokens, output_tokens)
          /\ output_tokens' = <<>>
          /\ current_index' = Skipping
          /\ UNCHANGED <<batch, batch_tokens, lengths, max_length, request, stub, response,
                         output_lengths, status, pc>>

EndTokens == /\ pc = "tokens"
             /\ it > Len(batch_tokens)
             /\ pc' = "done"
             /\ UNCHANGED <<batch, batch_tokens, lengths, max_length, request, stub,
                            response, output_lengths, output_tokens, output_batch_tokens,
                            current_index, status>>

Next == \/ MeasureRow \/ PadBatch \/ BuildRequest \/ NullStub \/ Predict
        \/ ReadLength \/ EndLengths
        \/ NoLength \/ ReadToken \/ EndRow \/ EndTokens

Spec == Init /\ [][Next]_vars

-----------------------------------------------------------------------------
Strings == Words \cup {Pad}

TypeOK == /\ batch \in Batches
          /\ batch_tokens \in Seq(Seq(Strings)) /\ Len(batch_tokens) = Len(batch)
          /\ lengths \in Seq(Nat) /\ max_length \in Nat
          /\ request \in [rows : Seq(Seq(Strings)), lengths : Seq(Nat)]
          /\ stub \in Connected
          /\ response \in Answer
          /\ output_lengths \in Seq(Int)
          /\ output_tokens \in Seq(Strings)
          /\ output_batch_tokens \in Seq(Seq(Strings))
          /\ current_index \in Nat
          /\ status \in {"OK", "NOT_FOUND", "INTERNAL"}
          /\ pc \in Ended \cup {"pad", "request", "rpc", "lengths", "tokens"}

\* The request holds the caller's batch: each row begins with the sentence, as many
\* tokens of it as its length says, and the rest of it is padding; all the rows are
\* as wide as the longest sentence, though the sentences are padded in place before
\* the request is put together (nmt.cpp:394-401, 449, 474-509).
RequestFaithful ==
  pc \in {"rpc", "lengths", "tokens", "done"} =>
    /\ Len(request.rows) = Len(batch) /\ Len(request.lengths) = Len(batch)
    /\ \A i \in DOMAIN batch :
         /\ request.lengths[i] = Len(batch[i])
         /\ \A j \in DOMAIN request.rows[i] :
              request.rows[i][j] = IF j <= Len(batch[i]) THEN batch[i][j] ELSE Pad
         /\ \A k \in DOMAIN batch : Len(request.rows[i]) = Len(request.rows[k])
         /\ Len(batch[i]) <= Len(request.rows[i])

\* A tensor of strings with a row for each sentence, and a length for each, which is
\* what atoi makes of a text.
WellFormed(a) ==
  /\ a.outputs = {"length", "tokens"}
  /\ Len(a.length) = Len(batch)
  /\ Len(a.tokens) = Len(batch) * a.width
  /\ \A i \in DOMAIN a.length : Atoi[a.length[i]] \in 0 .. a.width

\* The rows before row i leave exactly one string of padding each.
AlignedBefore(i) == \A k \in 1 .. i - 1 : Atoi[response.length[k]] + 1 = response.width

\* A row of the output is the row of the answer, up to its length, if the rows before
\* it have one string of padding each; nothing is promised of it otherwise.  The only
\* row of a batch of one is always right: that is what both callers send
\* (nmt.cpp:541-549, grpc_route_nmt_impl.cpp:38, 77).
RowsExact ==
  WellFormed(response) =>
    \A i \in DOMAIN output_batch_tokens : AlignedBefore(i) =>
      /\ Len(output_batch_tokens[i]) = Atoi[response.length[i]]
      /\ \A j \in DOMAIN output_batch_tokens[i] :
           output_batch_tokens[i][j] = response.tokens[(i - 1) * response.width + j]

\* Reading the answer stays inside its tensors when no row but the last one fills the
\* width: the rows drift towards the start of the tensor, never past its end
\* (nmt.cpp:530, 544).
Narrow == \A i \in 1 .. Len(batch) - 1 : Atoi[response.length[i]] < response.width

ReadsInRange == WellFormed(response) /\ Narrow => pc # "undefined"

-----------------------------------------------------------------------------
\* Inductive: the batch as it is padded, the lengths as they are read, and where in
\* the tensor the row that is being read begins.
Padding ==
  /\ Len(lengths) <= Len(batch)
  /\ \A i \in DOMAIN lengths : lengths[i] = Len(batch[i]) /\ Len(batch[i]) <= max_length
  /\ pc = "pad" => batch_tokens = batch
  /\ pc # "pad" => /\ Len(lengths) = Len(batch)
                   /\ batch_tokens = [i \in DOMAIN batch |-> Padded(batch[i])]

Reading ==
  /\ Len(output_lengths) <= Len(batch) /\ Len(output_lengths) <= Len(response.length)
  /\ \A i \in DOMAIN output_lengths : output_lengths[i] = Atoi[response.length[i]]
  /\ pc \in {"pad", "request", "rpc"} => output_lengths = <<>>
  /\ pc \in {"pad", "request", "rpc", "lengths"} =>
       output_tokens = <<>> /\ output_batch_tokens = <<>> /\ current_index = 0
  /\ pc = "tokens" /\ "length" \in response.outputs => Len(output_lengths) = Len(batch)
  /\ Len(output_batch_tokens) <= Len(batch)

Start == (it - 1) * response.width

InRow ==
  WellFormed(response) /\ pc = "tokens" /\ it <= Len(batch) =>
    /\ Len(output_tokens) <= Atoi[response.length[it]]
    /\ AlignedBefore(it) =>
         /\ current_index = Start + Len(output_tokens)
         /\ \A j \in DOMAIN output_tokens : output_tokens[j] = response.tokens[Start + j]
    /\ Narrow => current_index <= Start + Len(output_tokens)

IInv == TypeOK /\ Padding /\ RequestFaithful /\ Reading /\ InRow /\ RowsExact /\ ReadsInRange
=============================================================================
