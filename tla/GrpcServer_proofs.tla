-------------------------- MODULE GrpcServer_proofs --------------------------
(* What the clients of the gRPC server can count on, for any number of       *)
(* concurrent calls, of requests, and of them on a stream.                   *)
EXTENDS GrpcServer, TLAPS

\* The types of what belongs to a call.
LEMMA CallTyped ==
  ASSUME TypeOK, NEW c \in Calls
  PROVE  /\ client[c] \in {"none", "sending", "closed", "cancelled"}
         /\ sent[c] \in Seq(Requests) /\ Len(sent[c]) \in Nat
         /\ method[c] \in {"none", "GetDomains", "GetNMT", "StreamNMT"}
         /\ at[c] \in {"idle", "domains", "reading", "predict", "waiting", "predicted", "ended"}
         /\ taken[c] \in Nat
         /\ code[c] \in Codes
         /\ replies[c] \in Seq(Requests) /\ Len(replies[c]) \in Nat
         /\ DOMAIN replies[c] = 1 .. Len(replies[c])
         /\ status[c] \in Codes \cup {"none"}
BY DEF TypeOK

\* A step leaves call d alone.
Untouched(d) == /\ client'[d] = client[d] /\ sent'[d] = sent[d] /\ method'[d] = method[d]
                /\ at'[d] = at[d] /\ taken'[d] = taken[d] /\ code'[d] = code[d]
                /\ replies'[d] = replies[d] /\ status'[d] = status[d]

LEMMA UntouchedKeeps ==
  ASSUME IInv, stub' = stub, NEW d \in Calls, Untouched(d)
  PROVE  RepliesMatch(d)' /\ (~ stub' => Unserved(d)') /\ Control(d)'
<1>1. RepliesMatch(d) /\ (~ stub => Unserved(d)) /\ Control(d)
  BY DEF IInv, Answered, NothingWithoutStub
<1>. QED
  BY <1>1 DEF Untouched, RepliesMatch, Unserved, Control, InProgress

\* A step of call c has only c to answer for.
LEMMA OneCall ==
  ASSUME IInv, stub' = stub, TypeOK', NEW c \in Calls,
         \A d \in Calls \ {c} : Untouched(d),
         RepliesMatch(c)', ~ stub' => Unserved(c)', Control(c)'
  PROVE  IInv'
<1>1. \A d \in Calls \ {c} : RepliesMatch(d)' /\ (~ stub' => Unserved(d)') /\ Control(d)'
  BY UntouchedKeeps
<1>2. \A d \in Calls : RepliesMatch(d)' /\ (~ stub' => Unserved(d)') /\ Control(d)'
  BY <1>1
<1>. QED
  BY <1>2 DEF IInv, Answered, NothingWithoutStub

-----------------------------------------------------------------------------
LEMMA InitInvariant == Init => IInv
<1>. SUFFICES ASSUME Init PROVE IInv
  OBVIOUS
<1>1. TypeOK
  BY DEF Init, TypeOK, Codes
<1>2. ASSUME NEW c \in Calls PROVE RepliesMatch(c) /\ Unserved(c) /\ Control(c)
  <2>1. /\ client[c] = "none" /\ sent[c] = <<>> /\ method[c] = "none" /\ at[c] = "idle"
        /\ taken[c] = 0 /\ replies[c] = <<>> /\ status[c] = "none"
        /\ Len(sent[c]) = 0 /\ DOMAIN replies[c] = {}
    BY DEF Init
  <2>2. Control(c)
    BY <2>1 DEF Control, InProgress
  <2>3. RepliesMatch(c) /\ Unserved(c)
    BY <2>1 DEF RepliesMatch, Unserved, InProgress
  <2>. QED
    BY <2>2, <2>3
<1>. QED
  BY <1>1, <1>2 DEF IInv, Answered, NothingWithoutStub

\* What is known of a call before its step.
LEMMA Before ==
  ASSUME IInv, NEW c \in Calls
  PROVE  TypeOK /\ RepliesMatch(c) /\ (~ stub => Unserved(c)) /\ Control(c)
BY DEF IInv, Answered, NothingWithoutStub

LEMMA OpenInvariant == ASSUME IInv, NEW c \in Calls, Open(c) PROVE IInv'
<1>0. TypeOK /\ RepliesMatch(c) /\ (~ stub => Unserved(c)) /\ Control(c)
  BY Before
<1>1. /\ method[c] = "none" /\ client[c] = "none" /\ at[c] = "idle" /\ status[c] = "none"
      /\ sent[c] = <<>> /\ taken[c] = 0 /\ replies[c] = <<>>
  <2>1. method[c] = "none"
    BY DEF Open
  <2>2. client[c] = "none" /\ at[c] = "idle" /\ status[c] = "none" /\ sent[c] = <<>>
    BY <1>0, <2>1 DEF Control
  <2>3. taken[c] = 0 /\ Len(replies[c]) = 0
    BY <1>0, <2>2, CallTyped DEF RepliesMatch
  <2>. QED
    BY <1>0, <2>1, <2>2, <2>3, CallTyped
<1>2. stub' = stub /\ hung' = hung /\ alive' = alive /\ code' = code
      /\ replies' = replies /\ status' = status
  BY DEF Open
<1>3. CASE /\ method' = [method EXCEPT ![c] = "StreamNMT"]
           /\ client' = [client EXCEPT ![c] = "sending"]
           /\ at' = [at EXCEPT ![c] = "reading"]
           /\ sent' = sent /\ taken' = taken
  <2>1. TypeOK'
    BY <1>0, <1>2, <1>3 DEF TypeOK
  <2>2. \A d \in Calls \ {c} : Untouched(d)
    BY <1>0, <1>2, <1>3 DEF TypeOK, Untouched
  <2>3. /\ method'[c] = "StreamNMT" /\ client'[c] = "sending" /\ at'[c] = "reading"
        /\ sent'[c] = <<>> /\ taken'[c] = 0 /\ replies'[c] = <<>> /\ status'[c] = "none"
    BY <1>0, <1>1, <1>2, <1>3 DEF TypeOK
  <2>4. RepliesMatch(c)' /\ Unserved(c)' /\ Control(c)'
    BY <2>3 DEF RepliesMatch, Unserved, Control, InProgress
  <2>. QED
    BY <1>2, <2>1, <2>2, <2>4, OneCall
<1>4. ASSUME NEW r \in Requests,
             /\ method' = [method EXCEPT ![c] = "GetNMT"]
             /\ client' = [client EXCEPT ![c] = "closed"]
             /\ sent' = [sent EXCEPT ![c] = <<r>>]
             /\ taken' = [taken EXCEPT ![c] = 1]
             /\ at' = [at EXCEPT ![c] = "predict"]
      PROVE  IInv'
  <2>1. TypeOK'
    BY <1>0, <1>2, <1>4 DEF TypeOK
  <2>2. \A d \in Calls \ {c} : Untouched(d)
    BY <1>0, <1>2, <1>4 DEF TypeOK, Untouched
  <2>3. /\ method'[c] = "GetNMT" /\ client'[c] = "closed" /\ at'[c] = "predict"
        /\ sent'[c] = <<r>> /\ taken'[c] = 1 /\ replies'[c] = <<>> /\ status'[c] = "none"
    BY <1>0, <1>1, <1>2, <1>4 DEF TypeOK
  <2>4. RepliesMatch(c)' /\ Unserved(c)' /\ Control(c)'
    BY <2>3 DEF RepliesMatch, Unserved, Control, InProgress
  <2>. QED
    BY <1>2, <2>1, <2>2, <2>4, OneCall
<1>5. CASE /\ method' = [method EXCEPT ![c] = "GetDomains"]
           /\ client' = [client EXCEPT ![c] = "closed"]
           /\ at' = [at EXCEPT ![c] = "domains"]
           /\ sent' = sent /\ taken' = taken
  <2>1. TypeOK'
    BY <1>0, <1>2, <1>5 DEF TypeOK
  <2>2. \A d \in Calls \ {c} : Untouched(d)
    BY <1>0, <1>2, <1>5 DEF TypeOK, Untouched
  <2>3. /\ method'[c] = "GetDomains" /\ client'[c] = "closed" /\ at'[c] = "domains"
        /\ sent'[c] = <<>> /\ taken'[c] = 0 /\ replies'[c] = <<>> /\ status'[c] = "none"
    BY <1>0, <1>1, <1>2, <1>5 DEF TypeOK
  <2>4. RepliesMatch(c)' /\ Unserved(c)' /\ Control(c)'
    BY <2>3 DEF RepliesMatch, Unserved, Control, InProgress
  <2>. QED
    BY <1>2, <2>1, <2>2, <2>4, OneCall
<1>. QED
  BY <1>3, <1>4, <1>5 DEF Open, Goto

LEMMA SendInvariant == ASSUME IInv, NEW c \in Calls, Send(c) PROVE IInv'
<1>0. TypeOK /\ RepliesMatch(c) /\ (~ stub => Unserved(c)) /\ Control(c)
  BY Before
<1>1. PICK r \in Requests : sent' = [sent EXCEPT ![c] = Append(@, r)]
  BY DEF Send
<1>2. /\ client[c] = "sending"
      /\ UNCHANGED <<stub, hung, alive, client, method, at, taken, code, replies, status>>
  BY DEF Send
<1>3. TypeOK'
  BY <1>0, <1>1, <1>2 DEF TypeOK
<1>4. \A d \in Calls \ {c} : Untouched(d)
  BY <1>0, <1>1, <1>2 DEF TypeOK, Untouched
<1>5. /\ sent'[c] = Append(sent[c], r) /\ Len(sent'[c]) = Len(sent[c]) + 1
      /\ \A i \in 1 .. Len(sent[c]) : sent'[c][i] = sent[c][i]
  BY <1>0, <1>1 DEF TypeOK
<1>6. RepliesMatch(c)'
  BY <1>0, <1>2, <1>5, CallTyped DEF RepliesMatch, InProgress
<1>7. ~ stub' => Unserved(c)'
  BY <1>0, <1>2 DEF Unserved
<1>8. Control(c)'
  BY <1>0, <1>2, <1>5, CallTyped DEF Control, InProgress
<1>. QED
  BY <1>2, <1>3, <1>4, <1>6, <1>7, <1>8, OneCall

LEMMA LeaveInvariant == ASSUME IInv, NEW c \in Calls, Leave(c) PROVE IInv'
<1>0. TypeOK /\ RepliesMatch(c) /\ (~ stub => Unserved(c)) /\ Control(c)
  BY Before
<1>1. PICK s \in {"closed", "cancelled"} : client' = [client EXCEPT ![c] = s]
  BY DEF Leave
<1>2. /\ client[c] \in {"sending", "closed"}
      /\ UNCHANGED <<stub, hung, alive, sent, method, at, taken, code, replies, status>>
  BY DEF Leave
<1>3. TypeOK'
  BY <1>0, <1>1, <1>2 DEF TypeOK
<1>4. \A d \in Calls \ {c} : Untouched(d)
  BY <1>0, <1>1, <1>2 DEF TypeOK, Untouched
<1>5. client'[c] = s
  BY <1>0, <1>1 DEF TypeOK
<1>6. RepliesMatch(c)'
  BY <1>0, <1>2, <1>5 DEF RepliesMatch, InProgress
<1>7. ~ stub' => Unserved(c)'
  BY <1>0, <1>2 DEF Unserved
<1>8. Control(c)'
  BY <1>0, <1>2, <1>5 DEF Control, InProgress
<1>. QED
  BY <1>2, <1>3, <1>4, <1>6, <1>7, <1>8, OneCall

\* The handler returns OK, when nothing it has read is unanswered.
LEMMA EndInvariant ==
  ASSUME IInv, NEW c \in Calls, Return(c, "OK"),
         at[c] \in {"domains", "reading"},
         UNCHANGED <<stub, hung, alive, client, sent, method, taken, code, replies>>
  PROVE  IInv'
<1>0. TypeOK /\ RepliesMatch(c) /\ (~ stub => Unserved(c)) /\ Control(c)
  BY Before
<1>1. at' = [at EXCEPT ![c] = "ended"] /\ status' = [status EXCEPT ![c] = "OK"]
  BY DEF Return, Goto
<1>2. TypeOK'
  BY <1>0, <1>1 DEF TypeOK, Codes
<1>3. \A d \in Calls \ {c} : Untouched(d)
  BY <1>0, <1>1 DEF TypeOK, Untouched
<1>4. at'[c] = "ended" /\ status'[c] = "OK"
  BY <1>0, <1>1 DEF TypeOK
<1>5. status[c] = "none"
  BY <1>0 DEF Control
<1>6. ~ stub => taken[c] = 0
  BY <1>0, CallTyped DEF Control
<1>7. RepliesMatch(c)'
  BY <1>0, <1>4, <1>5 DEF RepliesMatch, InProgress
<1>8. ~ stub' => Unserved(c)'
  BY <1>0, <1>4, <1>6 DEF Unserved
<1>9. Control(c)'
  BY <1>0, <1>4, <1>6, CallTyped DEF Control, InProgress
<1>. QED
  BY <1>2, <1>3, <1>7, <1>8, <1>9, OneCall

LEMMA ReadInvariant == ASSUME IInv, NEW c \in Calls, Read(c) PROVE IInv'
<1>0. TypeOK /\ RepliesMatch(c) /\ (~ stub => Unserved(c)) /\ Control(c)
  BY Before
<1>1. /\ taken' = [taken EXCEPT ![c] = taken[c] + 1] /\ at' = [at EXCEPT ![c] = "predict"]
      /\ at[c] = "reading" /\ taken[c] < Len(sent[c])
      /\ UNCHANGED <<stub, hung, alive, client, sent, method, code, replies, status>>
  BY DEF Read, Goto
<1>2. TypeOK'
  BY <1>0, <1>1 DEF TypeOK
<1>3. \A d \in Calls \ {c} : Untouched(d)
  BY <1>0, <1>1 DEF TypeOK, Untouched
<1>4. at'[c] = "predict" /\ taken'[c] = taken[c] + 1
  BY <1>0, <1>1 DEF TypeOK
<1>5. status[c] = "none" /\ method[c] = "StreamNMT"
  BY <1>0, <1>1 DEF Control
<1>6. RepliesMatch(c)'
  BY <1>0, <1>1, <1>4, <1>5, CallTyped DEF RepliesMatch, InProgress
<1>7. ~ stub' => Unserved(c)'
  BY <1>0, <1>1, <1>5 DEF Unserved
<1>8. Control(c)'
  BY <1>0, <1>1, <1>4, <1>5, CallTyped DEF Control, InProgress, RepliesMatch
<1>. QED
  BY <1>1, <1>2, <1>3, <1>6, <1>7, <1>8, OneCall

\* The process dies: what the calls have is left as it is.
LEMMA DeathInvariant ==
  ASSUME IInv, alive' \in BOOLEAN,
         UNCHANGED <<stub, hung, client, sent, method, at, taken, code, replies, status>>
  PROVE  IInv'
<1>1. TypeOK'
  BY DEF IInv, TypeOK
<1>2. \A d \in Calls : Untouched(d)
  BY DEF Untouched
<1>3. \A d \in Calls : RepliesMatch(d)' /\ (~ stub' => Unserved(d)') /\ Control(d)'
  BY <1>2, UntouchedKeeps
<1>. QED
  BY <1>1, <1>3 DEF IInv, Answered, NothingWithoutStub

\* The prediction goes on, with a stub.
LEMMA ProgressInvariant ==
  ASSUME IInv, NEW c \in Calls, stub, NEW l \in {"waiting", "predicted"}, Goto(c, l),
         at[c] \in {"predict", "waiting"},
         code' \in [Calls -> Codes], \A d \in Calls \ {c} : code'[d] = code[d],
         UNCHANGED <<stub, hung, alive, client, sent, method, taken, replies, status>>
  PROVE  IInv'
<1>0. TypeOK /\ RepliesMatch(c) /\ Control(c)
  BY Before
<1>1. at' = [at EXCEPT ![c] = l]
  BY DEF Goto
<1>2. TypeOK'
  BY <1>0, <1>1 DEF TypeOK
<1>3. \A d \in Calls \ {c} : Untouched(d)
  BY <1>0, <1>1 DEF TypeOK, Untouched
<1>4. at'[c] = l
  BY <1>0, <1>1 DEF TypeOK
<1>5. RepliesMatch(c)'
  BY <1>0, <1>4 DEF RepliesMatch, InProgress
<1>6. Control(c)'
  BY <1>0, <1>4 DEF Control, InProgress
<1>. QED
  BY <1>2, <1>3, <1>5, <1>6, OneCall

\* Only with a stub does a prediction wait for its answer.
LEMMA StubThere ==
  ASSUME IInv, NEW c \in Calls, at[c] \in {"waiting", "predicted"}
  PROVE  stub /\ status[c] = "none" /\ Len(replies[c]) < taken[c]
<1>0. TypeOK /\ RepliesMatch(c) /\ Control(c)
  BY Before
<1>1. Len(replies[c]) < taken[c] /\ status[c] = "none"
  BY <1>0 DEF Control, InProgress
<1>2. taken[c] > 0
  BY <1>0, <1>1, CallTyped
<1>. QED
  BY <1>0, <1>1, <1>2 DEF Control, TypeOK

LEMMA FailInvariant == ASSUME IInv, NEW c \in Calls, Fail(c) PROVE IInv'
<1>0. TypeOK /\ RepliesMatch(c) /\ Control(c)
  BY Before
<1>1. /\ at' = [at EXCEPT ![c] = "ended"] /\ status' = [status EXCEPT ![c] = code[c]]
      /\ at[c] = "predicted" /\ code[c] # "OK"
      /\ UNCHANGED <<stub, hung, alive, client, sent, method, taken, code, replies>>
  BY DEF Fail, Return, Goto
<1>2. stub /\ status[c] = "none"
  BY <1>1, StubThere
<1>3. code[c] \in {"NOT_FOUND", "INTERNAL"}
  BY <1>0, <1>1, CallTyped DEF Codes
<1>4. TypeOK'
  BY <1>0, <1>1, <1>3 DEF TypeOK, Codes
<1>5. \A d \in Calls \ {c} : Untouched(d)
  BY <1>0, <1>1 DEF TypeOK, Untouched
<1>6. at'[c] = "ended" /\ status'[c] \in {"NOT_FOUND", "INTERNAL"}
  BY <1>0, <1>1, <1>3 DEF TypeOK
<1>7. RepliesMatch(c)'
  BY <1>0, <1>1, <1>6 DEF RepliesMatch, InProgress
<1>8. Control(c)'
  BY <1>0, <1>1, <1>2, <1>6 DEF Control, InProgress
<1>. QED
  BY <1>1, <1>2, <1>4, <1>5, <1>7, <1>8, OneCall

\* The replies after one that succeeds.
LEMMA WrittenReplies ==
  ASSUME IInv, NEW c \in Calls, at[c] = "predicted", replies' = Written(c)
  PROVE  /\ replies' \in [Calls -> Seq(Requests)]
         /\ \A d \in Calls \ {c} : replies'[d] = replies[d]
         /\ client[c] = "cancelled" => replies'[c] = replies[c]
         /\ client[c] # "cancelled" =>
              /\ replies'[c] = Append(replies[c], sent[c][Len(replies[c]) + 1])
              /\ Len(replies'[c]) = taken[c]
         /\ Len(replies'[c]) <= taken[c]
         /\ \A i \in DOMAIN replies'[c] : replies'[c][i] = sent[c][i]
<1>0. TypeOK /\ RepliesMatch(c) /\ Control(c)
  BY Before
<1>1. CASE client[c] = "cancelled"
  <2>1. replies' = replies
    BY <1>1 DEF Written
  <2>. QED
    BY <1>0, <1>1, <2>1 DEF RepliesMatch, TypeOK
<1>2. CASE client[c] # "cancelled"
  <2>. DEFINE n == Len(replies[c])
              r == sent[c][n + 1]
  <2>1. n + 1 = taken[c] /\ n + 1 \in 1 .. Len(sent[c]) /\ n \in Nat
    BY <1>0, <1>2, CallTyped DEF RepliesMatch, InProgress
  <2>2. replies' = [replies EXCEPT ![c] = Append(replies[c], r)]
    BY <1>2, <2>1 DEF Written, InHand
  <2>3. r \in Requests
    BY <2>1, CallTyped, <1>0
  <2>. HIDE DEF r
  <2>4. /\ replies'[c] = Append(replies[c], r)
        /\ \A d \in Calls \ {c} : replies'[d] = replies[d]
        /\ replies' \in [Calls -> Seq(Requests)]
    BY <1>0, <2>2, <2>3 DEF TypeOK
  <2>5. /\ Len(replies'[c]) = n + 1 /\ DOMAIN replies'[c] = 1 .. n + 1
        /\ replies'[c][n + 1] = r
        /\ \A i \in 1 .. n : replies'[c][i] = replies[c][i]
    BY <1>0, <2>3, <2>4, CallTyped
  <2>6. \A i \in 1 .. n : replies[c][i] = sent[c][i]
    BY <1>0, CallTyped DEF RepliesMatch
  <2>7. \A i \in 1 .. n + 1 : replies'[c][i] = sent[c][i]
    BY <2>1, <2>5, <2>6 DEF r
  <2>8. Len(replies'[c]) = taken[c] /\ taken[c] \in Nat
    BY <2>1, <2>5
  <2>. QED
    BY <1>2, <2>4, <2>5, <2>7, <2>8 DEF r
<1>. QED
  BY <1>1, <1>2

LEMMA SucceedInvariant == ASSUME IInv, NEW c \in Calls, Succeed(c) PROVE IInv'
<1>0. TypeOK /\ RepliesMatch(c) /\ Control(c)
  BY Before
<1>1. /\ at[c] = "predicted" /\ replies' = Written(c)
      /\ UNCHANGED <<stub, hung, alive, client, sent, method, taken, code>>
  BY DEF Succeed
<1>2. stub /\ status[c] = "none"
  BY <1>1, StubThere
<1>3. /\ replies' \in [Calls -> Seq(Requests)]
      /\ \A d \in Calls \ {c} : replies'[d] = replies[d]
      /\ client[c] # "cancelled" => Len(replies'[c]) = taken[c]
      /\ Len(replies'[c]) <= taken[c]
      /\ \A i \in DOMAIN replies'[c] : replies'[c][i] = sent[c][i]
  BY <1>1, WrittenReplies
<1>4. CASE method[c] = "StreamNMT" /\ Goto(c, "reading") /\ UNCHANGED status
  <2>1. at' = [at EXCEPT ![c] = "reading"] /\ status' = status
    BY <1>4 DEF Goto
  <2>2. TypeOK'
    BY <1>0, <1>1, <1>3, <2>1 DEF TypeOK
  <2>3. \A d \in Calls \ {c} : Untouched(d)
    BY <1>0, <1>1, <1>3, <2>1 DEF TypeOK, Untouched
  <2>4. at'[c] = "reading"
    BY <1>0, <2>1 DEF TypeOK
  <2>5. RepliesMatch(c)'
    BY <1>0, <1>1, <1>2, <1>3, <2>1, <2>4 DEF RepliesMatch, InProgress
  <2>6. Control(c)'
    BY <1>0, <1>1, <1>2, <1>4, <2>1, <2>4 DEF Control, InProgress
  <2>. QED
    BY <1>1, <1>2, <2>2, <2>3, <2>5, <2>6, OneCall
<1>5. CASE method[c] # "StreamNMT" /\ Return(c, "OK")
  <2>1. at' = [at EXCEPT ![c] = "ended"] /\ status' = [status EXCEPT ![c] = "OK"]
    BY <1>5 DEF Return, Goto
  <2>2. TypeOK'
    BY <1>0, <1>1, <1>3, <2>1 DEF TypeOK, Codes
  <2>3. \A d \in Calls \ {c} : Untouched(d)
    BY <1>0, <1>1, <1>3, <2>1 DEF TypeOK, Untouched
  <2>4. at'[c] = "ended" /\ status'[c] = "OK"
    BY <1>0, <2>1 DEF TypeOK
  <2>5. RepliesMatch(c)'
    BY <1>0, <1>1, <1>3, <2>4 DEF RepliesMatch, InProgress
  <2>6. Control(c)'
    BY <1>0, <1>1, <1>2, <1>5, <2>4 DEF Control, InProgress
  <2>. QED
    BY <1>1, <1>2, <2>2, <2>3, <2>5, <2>6, OneCall
<1>. QED
  BY <1>4, <1>5 DEF Succeed

LEMMA NextInvariant == IInv /\ [Next]_vars => IInv'
<1>. SUFFICES ASSUME IInv, [Next]_vars PROVE IInv'
  OBVIOUS
<1>1. ASSUME NEW c \in Calls, GetDomains(c) \/ EndOfStream(c) PROVE IInv'
  BY <1>1, EndInvariant DEF GetDomains, EndOfStream
<1>2. ASSUME NEW c \in Calls, Predict(c) PROVE IInv'
  <2>1. CASE stub
    BY <1>2, <2>1, ProgressInvariant DEF Predict, IInv, TypeOK
  <2>2. CASE ~ stub
    BY <1>2, <2>2, DeathInvariant DEF Predict
  <2>. QED
    BY <2>1, <2>2 DEF IInv, TypeOK
<1>3. ASSUME NEW c \in Calls, Serve(c) PROVE IInv'
  <2>1. PICK s \in {"OK", "NOT_FOUND", "INTERNAL"} : code' = [code EXCEPT ![c] = s]
    BY <1>3 DEF Serve
  <2>2. code' \in [Calls -> Codes] /\ \A d \in Calls \ {c} : code'[d] = code[d]
    BY <2>1 DEF IInv, TypeOK, Codes
  <2>3. stub
    BY <1>3, StubThere DEF Serve
  <2>. QED
    BY <1>3, <2>2, <2>3, ProgressInvariant DEF Serve
<1>4. ASSUME NEW c \in Calls, Overread(c) PROVE IInv'
  BY <1>4, DeathInvariant DEF Overread
<1>5. CASE UNCHANGED vars
  <2>1. alive' \in BOOLEAN
    BY <1>5 DEF vars, IInv, TypeOK
  <2>. QED
    BY <1>5, <2>1, DeathInvariant DEF vars
<1>. QED
  BY <1>1, <1>2, <1>3, <1>4, <1>5, OpenInvariant, SendInvariant, LeaveInvariant,
     ReadInvariant, FailInvariant, SucceedInvariant DEF Next, Client, Handler

LEMMA Invariant == Spec => []IInv
BY InitInvariant, NextInvariant, PTL DEF Spec

-----------------------------------------------------------------------------
\* Every call is somewhere a handler can be.
THEOREM TypeCorrect == Spec => []TypeOK
<1>1. IInv => TypeOK
  BY DEF IInv
<1>. QED
  BY <1>1, Invariant, PTL

\* Each request read has its reply, in order, but for the one in hand and the one that
\* failed, for any number of calls side by side.
THEOREM AnsweredHolds == Spec => []Answered
<1>1. IInv => Answered
  BY DEF IInv
<1>. QED
  BY <1>1, Invariant, PTL

\* Without a stub nothing is answered, whatever the clients do.
THEOREM NothingWithoutStubHolds == Spec => []NothingWithoutStub
<1>1. IInv => NothingWithoutStub
  BY DEF IInv
<1>. QED
  BY <1>1, Invariant, PTL

-----------------------------------------------------------------------------
(* The server implements RpcService.                                         *)

LEMMA InitImplements == Init => Service!Init
BY DEF Init, Service!Init

\* Steps that the client does not see.
LEMMA Unseen ==
  ASSUME UNCHANGED <<client, sent, replies, status, alive>>
  PROVE  UNCHANGED Service!vars
BY DEF Service!vars

LEMMA OpenImplements ==
  ASSUME IInv, NEW c \in Calls, Open(c) PROVE Service!Open(c)
<1>0. TypeOK /\ Control(c)
  BY Before
<1>1. /\ alive /\ method[c] = "none"
      /\ UNCHANGED <<replies, status, alive>>
  BY DEF Open
<1>2. client[c] = "none" /\ status[c] = "none" /\ sent[c] = <<>>
  BY <1>0, <1>1 DEF Control
<1>3. sent = [sent EXCEPT ![c] = <<>>]
  BY <1>0, <1>2 DEF TypeOK
<1>4. \/ client' = [client EXCEPT ![c] = "sending"] /\ UNCHANGED sent
      \/ \E s \in {<<>>} \cup {<<r>> : r \in Requests} :
           client' = [client EXCEPT ![c] = "closed"] /\ sent' = [sent EXCEPT ![c] = s]
  BY <1>3 DEF Open
<1>. QED
  BY <1>1, <1>2, <1>4 DEF Service!Open, Service!Lasting

LEMMA ClientImplements ==
  ASSUME NEW c \in Calls
  PROVE  (Send(c) => Service!Send(c)) /\ (Leave(c) => Service!Leave(c))
BY DEF Send, Leave, Service!Send, Service!Leave, Service!Lasting

\* The end of a call without requests, or of a stream.
LEMMA EndImplements ==
  ASSUME IInv, NEW c \in Calls, GetDomains(c) \/ EndOfStream(c) PROVE Service!EndOK(c)
<1>0. TypeOK /\ RepliesMatch(c) /\ Control(c)
  BY Before
<1>1. /\ alive /\ at[c] \in {"domains", "reading"}
      /\ status' = [status EXCEPT ![c] = "OK"]
      /\ UNCHANGED <<client, sent, replies, alive>>
  BY DEF GetDomains, EndOfStream, Return
<1>2. status[c] = "none" /\ ~ InProgress(c)
  BY <1>0, <1>1 DEF Control, InProgress
<1>3. client[c] = "cancelled" \/ (client[c] = "closed" /\ taken[c] = Len(sent[c]))
  <2>1. CASE GetDomains(c)
    <3>1. at[c] = "domains" /\ method[c] = "GetDomains" /\ sent[c] = <<>>
      BY <1>0, <2>1 DEF GetDomains, Control
    <3>2. client[c] \in {"closed", "cancelled"}
      BY <1>0, <3>1, CallTyped DEF Control
    <3>3. taken[c] = Len(sent[c])
      BY <1>0, <3>1, CallTyped DEF RepliesMatch
    <3>. QED
      BY <3>2, <3>3
  <2>2. CASE EndOfStream(c)
    BY <2>2 DEF EndOfStream
  <2>. QED
    BY <2>1, <2>2
<1>4. client[c] = "closed" => Len(replies[c]) = Len(sent[c])
  BY <1>0, <1>2, <1>3 DEF RepliesMatch
<1>. QED
  BY <1>1, <1>2, <1>3, <1>4 DEF Service!EndOK, Service!Lasting

LEMMA FailImplements ==
  ASSUME IInv, NEW c \in Calls, Fail(c) PROVE Service!EndFailed(c)
<1>0. TypeOK /\ RepliesMatch(c)
  BY Before
<1>1. /\ alive /\ at[c] = "predicted" /\ code[c] # "OK"
      /\ status' = [status EXCEPT ![c] = code[c]]
      /\ UNCHANGED <<client, sent, replies, alive>>
  BY DEF Fail, Return
<1>2. status[c] = "none" /\ Len(replies[c]) < taken[c]
  BY <1>1, StubThere
<1>3. Len(replies[c]) < Len(sent[c])
  BY <1>0, <1>2, CallTyped DEF RepliesMatch
<1>4. code[c] \in {"NOT_FOUND", "INTERNAL"}
  BY <1>0, <1>1, CallTyped DEF Codes
<1>. QED
  BY <1>1, <1>2, <1>3, <1>4 DEF Service!EndFailed, Service!Lasting

\* A prediction that succeeds: a reply, or the end of a call that was cancelled.
LEMMA SucceedImplements ==
  ASSUME IInv, NEW c \in Calls, Succeed(c)
  PROVE  Service!Reply(c) \/ Service!EndOK(c) \/ UNCHANGED Service!vars
<1>0. TypeOK /\ RepliesMatch(c) /\ Control(c)
  BY Before
<1>1. /\ alive /\ at[c] = "predicted" /\ replies' = Written(c)
      /\ UNCHANGED <<client, sent, alive>>
      /\ \/ method[c] = "StreamNMT" /\ UNCHANGED status
         \/ method[c] # "StreamNMT" /\ status' = [status EXCEPT ![c] = "OK"]
  BY DEF Succeed, Return
<1>2. status[c] = "none" /\ Len(replies[c]) < taken[c]
  BY <1>1, StubThere
<1>3. CASE client[c] = "cancelled"
  <2>1. replies' = replies
    BY <1>1, <1>3 DEF Written
  <2>2. CASE UNCHANGED status
    BY <1>1, <2>1, <2>2, Unseen
  <2>3. CASE status' = [status EXCEPT ![c] = "OK"]
    BY <1>1, <1>2, <1>3, <2>1, <2>3 DEF Service!EndOK, Service!Lasting
  <2>. QED
    BY <1>1, <2>2, <2>3
<1>4. CASE client[c] # "cancelled"
  <2>1. client[c] \in {"sending", "closed"}
    BY <1>0, <1>1, <1>4, CallTyped DEF Control
  <2>2. Len(replies[c]) + 1 = taken[c] /\ taken[c] <= Len(sent[c])
    BY <1>0, <1>1, <1>4, CallTyped DEF RepliesMatch, InProgress
  <2>3. replies' = [replies EXCEPT ![c] = Append(@, sent[c][Len(@) + 1])]
    BY <1>1, <1>4, <2>2 DEF Written, InHand
  <2>4. Len(replies[c]) < Len(sent[c])
    BY <1>0, <2>2, CallTyped
  <2>5. method[c] # "StreamNMT" =>
          client[c] = "closed" /\ Len(replies[c]) + 1 = Len(sent[c])
    <3>. SUFFICES ASSUME method[c] # "StreamNMT"
                  PROVE  client[c] = "closed" /\ Len(replies[c]) + 1 = Len(sent[c])
      OBVIOUS
    <3>1. method[c] = "GetNMT"
      BY <1>0, <1>1, CallTyped DEF Control
    <3>. QED
      BY <1>0, <2>1, <2>2, <3>1 DEF Control
  <2>. QED
    BY <1>1, <1>2, <2>1, <2>3, <2>4, <2>5 DEF Service!Reply, Service!Lasting
<1>. QED
  BY <1>3, <1>4

LEMMA StepImplements == IInv /\ [Next]_vars => [Service!Next]_(Service!vars)
<1>. SUFFICES ASSUME IInv, [Next]_vars PROVE [Service!Next]_(Service!vars)
  OBVIOUS
<1>1. ASSUME NEW c \in Calls, Predict(c) PROVE [Service!Next]_(Service!vars)
  <2>1. CASE stub
    BY <1>1, <2>1, Unseen DEF Predict
  <2>2. CASE ~ stub
    BY <1>1, <2>2 DEF Predict, Service!Next, Service!Stop
  <2>. QED
    BY <2>1, <2>2
<1>2. ASSUME NEW c \in Calls, Read(c) \/ Serve(c) PROVE UNCHANGED Service!vars
  BY <1>2, Unseen DEF Read, Serve
<1>3. ASSUME NEW c \in Calls, Overread(c) PROVE Service!Stop
  BY <1>3 DEF Overread, Service!Stop
<1>4. CASE UNCHANGED vars
  BY <1>4, Unseen DEF vars
<1>. QED
  BY <1>1, <1>2, <1>3, <1>4, OpenImplements, ClientImplements, EndImplements,
     FailImplements, SucceedImplements DEF Next, Client, Handler, Service!Next

\* The server implements RpcService, for any number of concurrent calls: what one
\* client does, or a failed prediction, is never seen in another one's replies.
THEOREM Implements == Spec => ImplementsRpc
BY Invariant, InitImplements, StepImplements, PTL DEF Spec, Service!Spec, ImplementsRpc
=============================================================================
