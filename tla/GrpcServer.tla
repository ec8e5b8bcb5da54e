----------------------------- MODULE GrpcServer -----------------------------
(***************************************************************************)
(* The gRPC server: the handlers of grpc_route_nmt_impl.cpp, called by     *)
(* gRPC with a thread of its own for each call in progress.  They share    *)
(* one nmt object and, behind it, TensorFlow Serving.                      *)
(*                                                                         *)
(* The reply to a request is its own four fields and its text tokenised:   *)
(* SetOutput adds nothing to it.  A reply is therefore represented by the  *)
(* request it is made from.  NmtBatch has the inside of a prediction; here *)
(* it returns a status, or is undefined: it then ends the process or goes  *)
(* on as if all were well.                                                 *)
(***************************************************************************)
EXTENDS Integers, Sequences

CONSTANTS Calls,     \* the calls clients make
          Requests,  \* the TextToParse messages
          MaxSent,   \* how many of them a stream has at most
          Connected  \* whether _stub may be there (see NmtBatch)

ASSUME MaxSentAssumption   == MaxSent \in Nat
ASSUME ConnectedAssumption == Connected \subseteq BOOLEAN

VARIABLES stub,    \* is there a _stub?
          hung,    \* the calls that TensorFlow Serving will not answer
          alive,   \* is the process there?
          client,  \* what the client of a call has done: see RpcService
          sent,    \* its requests, in the order of the call
          method,  \* the method it calls
          at,      \* where the handler of the call is
          taken,   \* how many of the requests the handler has read
          code,    \* the status of its last prediction
          replies, \* its replies
          status   \* the status it returned

vars == <<stub, hung, alive, client, sent, method, at, taken, code, replies, status>>

Init == /\ stub \in Connected
        /\ hung \in SUBSET Calls
        /\ alive = TRUE
        /\ client = [c \in Calls |-> "none"]
        /\ sent = [c \in Calls |-> <<>>]
        /\ method = [c \in Calls |-> "none"]
        /\ at = [c \in Calls |-> "idle"]
        /\ taken = [c \in Calls |-> 0]
        /\ code = [c \in Calls |-> "OK"]
        /\ replies = [c \in Calls |-> <<>>]
        /\ status = [c \in Calls |-> "none"]

Goto(c, l) == at' = [at EXCEPT ![c] = l]

\* Mutant: the label and the status are mixed up.
ReturnSwapped(c, s) == Goto(c, s) /\ status' = [status EXCEPT ![c] = "ended"]

\* The handler of c returns s.
Return(c, s) == Goto(c, "ended") /\ status' = [status EXCEPT ![c] = s]

-----------------------------------------------------------------------------
\* The clients.  A call without a stream has its only request from the start.
Open(c) ==
  /\ alive
  /\ method[c] = "none"
  /\ \/ /\ method' = [method EXCEPT ![c] = "StreamNMT"]
        /\ client' = [client EXCEPT ![c] = "sending"]
        /\ Goto(c, "reading")
        /\ UNCHANGED <<sent, taken>>
     \/ /\ method' = [method EXCEPT ![c] = "GetNMT"]
        /\ client' = [client EXCEPT ![c] = "closed"]
        /\ \E r \in Requests : sent' = [sent EXCEPT ![c] = <<r>>]
        /\ taken' = [taken EXCEPT ![c] = 1]
        /\ Goto(c, "predict")
     \/ /\ method' = [method EXCEPT ![c] = "GetDomains"]
        /\ client' = [client EXCEPT ![c] = "closed"]
        /\ Goto(c, "domains")
        /\ UNCHANGED <<sent, taken>>
  /\ UNCHANGED <<stub, hung, alive, code, replies, status>>

Send(c) ==
  /\ alive
  /\ client[c] = "sending" /\ status[c] = "none"
  /\ Len(sent[c]) < MaxSent
  /\ \E r \in Requests : sent' = [sent EXCEPT ![c] = Append(@, r)]
  /\ UNCHANGED <<stub, hung, alive, client, method, at, taken, code, replies, status>>

\* It half-closes, or cancels.
Leave(c) ==
  /\ alive
  /\ client[c] \in {"sending", "closed"} /\ status[c] = "none"
  /\ \/ client[c] = "sending" /\ client' = [client EXCEPT ![c] = "closed"]
     \/ client' = [client EXCEPT ![c] = "cancelled"]
  /\ UNCHANGED <<stub, hung, alive, sent, method, at, taken, code, replies, status>>

-----------------------------------------------------------------------------
\* getDomains opens the file named by _model_config_path, which nothing sets: the
\* list is empty, and the status OK.
GetDomains(c) ==
  /\ alive
  /\ at[c] = "domains"
  /\ Return(c, "OK")
  /\ UNCHANGED <<stub, hung, alive, client, sent, method, taken, code, replies>>

\* Read gives the next request; it is false at the end of what a client that has
\* half-closed has sent, and once the call is cancelled.
Read(c) ==
  /\ alive
  /\ at[c] = "reading" /\ client[c] # "cancelled"
  /\ taken[c] < Len(sent[c])
  /\ taken' = [taken EXCEPT ![c] = @ + 1]
  /\ Goto(c, "predict")
  /\ UNCHANGED <<stub, hung, alive, client, sent, method, code, replies, status>>

EndOfStreamUnread(c) ==  \* mutant: a half-closed stream ends with requests unread
  /\ alive /\ at[c] = "reading" /\ client[c] \in {"closed", "cancelled"}
  /\ Return(c, "OK")
  /\ UNCHANGED <<stub, hung, alive, client, sent, method, taken, code, replies>>

EndOfClosed(c) ==  \* mutant: a cancelled stream is waited for
  /\ alive /\ at[c] = "reading" /\ client[c] = "closed" /\ taken[c] = Len(sent[c])
  /\ Return(c, "OK")
  /\ UNCHANGED <<stub, hung, alive, client, sent, method, taken, code, replies>>

EndOfStream(c) ==
  /\ alive
  /\ at[c] = "reading"
  /\ \/ client[c] = "closed" /\ taken[c] = Len(sent[c])
     \/ client[c] = "cancelled"
  /\ Return(c, "OK")
  /\ UNCHANGED <<stub, hung, alive, client, sent, method, taken, code, replies>>

PredictUnchecked(c) ==  \* mutant: without a stub the prediction is skipped
  /\ alive /\ at[c] = "predict"
  /\ Goto(c, IF stub THEN "waiting" ELSE "predicted")
  /\ UNCHANGED <<stub, hung, alive, client, sent, method, taken, code, replies, status>>

\* NMTBatch up to its RPC, which has no deadline.
Predict(c) ==
  /\ alive
  /\ at[c] = "predict"
  /\ IF stub THEN Goto(c, "waiting") /\ UNCHANGED alive
     ELSE alive' = FALSE /\ UNCHANGED at
  /\ UNCHANGED <<stub, hung, client, sent, method, taken, code, replies, status>>

\* TensorFlow Serving answers, and NMTBatch returns; or it reads past the answer.
Serve(c) ==
  /\ alive
  /\ at[c] = "waiting" /\ c \notin hung
  /\ \E s \in {"OK", "NOT_FOUND", "INTERNAL"} : code' = [code EXCEPT ![c] = s]
  /\ Goto(c, "predicted")
  /\ UNCHANGED <<stub, hung, alive, client, sent, method, taken, replies, status>>

Overread(c) ==
  /\ alive
  /\ at[c] = "waiting" /\ c \notin hung
  /\ alive' = FALSE
  /\ UNCHANGED <<stub, hung, client, sent, method, at, taken, code, replies, status>>

\* Mutant: the reply is made from the request that came last.
LatestSent(c) == sent[c][Len(sent[c])]

\* The request the handler has in hand.
InHand(c) == sent[c][taken[c]]

\* The reply leaves, unless the client has cancelled: Write's result is ignored.
Written(c) == IF client[c] = "cancelled" THEN replies
              ELSE [replies EXCEPT ![c] = Append(@, InHand(c))]

\* A prediction that fails ends the call with its status.
Fail(c) ==
  /\ alive
  /\ at[c] = "predicted" /\ code[c] # "OK"
  /\ Return(c, code[c])
  /\ UNCHANGED <<stub, hung, alive, client, sent, method, taken, code, replies>>

\* One that succeeds is followed by the reply, and a stream by the next Read.
Succeed(c) ==
  /\ alive
  /\ at[c] = "predicted" /\ code[c] = "OK"
  /\ replies' = Written(c)
  /\ IF method[c] = "StreamNMT" THEN Goto(c, "reading") /\ UNCHANGED status
     ELSE Return(c, "OK")
  /\ UNCHANGED <<stub, hung, alive, client, sent, method, taken, code>>

Handler(c) == \/ GetDomains(c) \/ Read(c) \/ EndOfStream(c)
              \/ Predict(c) \/ Fail(c) \/ Succeed(c)
Client(c)  == Open(c) \/ Send(c) \/ Leave(c)

Next == \E c \in Calls : Client(c) \/ Handler(c) \/ Serve(c) \/ Overread(c)

Spec == Init /\ [][Next]_vars

\* Each call has a thread of its own; TensorFlow Serving answers unless it hangs.
FairSpec == Spec /\ \A c \in Calls : WF_vars(Handler(c)) /\ WF_vars(Serve(c))

-----------------------------------------------------------------------------
Codes == {"OK", "NOT_FOUND", "INTERNAL"}

TypeOK ==
  /\ stub \in Connected
  /\ hung \in SUBSET Calls
  /\ alive \in BOOLEAN
  /\ client \in [Calls -> {"none", "sending", "closed", "cancelled"}]
  /\ sent \in [Calls -> Seq(Requests)]
  /\ method \in [Calls -> {"none", "GetDomains", "GetNMT", "StreamNMT"}]
  /\ at \in [Calls -> {"idle", "domains", "reading", "predict", "waiting", "predicted", "ended"}]
  /\ taken \in [Calls -> Nat]
  /\ code \in [Calls -> Codes]
  /\ replies \in [Calls -> Seq(Requests)]
  /\ status \in [Calls -> Codes \cup {"none"}]

InProgress(c) == at[c] \in {"predict", "waiting", "predicted"}

RepliesMatch(c) ==
  /\ taken[c] <= Len(sent[c])
  /\ Len(replies[c]) <= taken[c]
  /\ \A i \in DOMAIN replies[c] : replies[c][i] = sent[c][i]
  /\ client[c] # "cancelled" =>
       Len(replies[c]) = IF InProgress(c) \/ status[c] \in {"NOT_FOUND", "INTERNAL"}
                         THEN taken[c] - 1 ELSE taken[c]

\* While its client is there, a call has a reply for each request it has read but the
\* one in hand, in order; one that failed has none for the request that failed, the
\* last it read, and the requests after that one are never read
\* (grpc_route_nmt_impl.cpp:57-90).
Answered == \A c \in Calls : RepliesMatch(c)

\* Without a stub no text is ever answered and no failure reported: the first request
\* to reach a handler takes the process with it, and the calls next to it
\* (nmt.cpp:514).
Unserved(c) == /\ replies[c] = <<>>
               /\ status[c] \in {"none", "OK"}
               /\ status[c] = "OK" => taken[c] = 0

NothingWithoutStub == ~ stub => \A c \in Calls : Unserved(c)

\* Inductive: how far a call is, by the method and by what the client has done.
Control(c) ==
  /\ at[c] = "ended" <=> status[c] # "none"
  /\ client[c] = "none" <=> method[c] = "none"
  /\ method[c] = "none" => at[c] = "idle"
  /\ method[c] \in {"none", "GetDomains"} => sent[c] = <<>>
  /\ method[c] = "GetDomains" => at[c] \in {"domains", "ended"}
  /\ method[c] = "GetNMT" => Len(sent[c]) = 1 /\ taken[c] = 1 /\ at[c] # "reading"
  /\ client[c] = "sending" => method[c] = "StreamNMT"
  /\ at[c] = "reading" => method[c] = "StreamNMT"
  /\ at[c] = "domains" => method[c] = "GetDomains"
  /\ at[c] = "idle" => method[c] = "none"
  /\ InProgress(c) => Len(replies[c]) < taken[c]
  /\ ~ stub /\ taken[c] > 0 => at[c] = "predict"

IInv == TypeOK /\ Answered /\ NothingWithoutStub /\ \A c \in Calls : Control(c)

\* The client's view: the server implements RpcService.
Service == INSTANCE RpcService
ImplementsRpc == Service!Spec

\* A call whose client has finished or gone ends, whatever happens to the others,
\* unless its own prediction hangs or the process dies
\* (grpc_route_nmt_impl.cpp:57-92).
EventuallyEnded ==
  \A c \in Calls :
    (client[c] \in {"closed", "cancelled"} /\ c \notin hung) ~> (status[c] # "none" \/ ~ alive)
=============================================================================
