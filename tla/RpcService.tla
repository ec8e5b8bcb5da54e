----------------------------- MODULE RpcService -----------------------------
(***************************************************************************)
(* What a client of the gRPC service can count on.  A call is answered     *)
(* request by request, in the order in which they were sent; it ends once, *)
(* with OK when every request of a client that has finished sending has    *)
(* its reply, or with the failure of one request, which has none.  The     *)
(* service may stop for good at any time.                                  *)
(***************************************************************************)
EXTENDS Integers, Sequences

CONSTANTS Calls, Requests, MaxSent

VARIABLES client,  \* "none", "sending", "closed" once it has half-closed, "cancelled"
          sent,    \* the requests of each call
          replies, \* the requests whose replies were sent, in the order of the replies
          status,  \* the status of each call; "none" while it lasts
          alive    \* is the service there?

vars == <<client, sent, replies, status, alive>>

Init == /\ client = [c \in Calls |-> "none"]
        /\ sent = [c \in Calls |-> <<>>]
        /\ replies = [c \in Calls |-> <<>>]
        /\ status = [c \in Calls |-> "none"]
        /\ alive = TRUE

Lasting(c) == alive /\ status[c] = "none"

\* A call is opened, with its only request or for a stream of them.
Open(c) == /\ Lasting(c) /\ client[c] = "none"
           /\ \/ client' = [client EXCEPT ![c] = "sending"] /\ UNCHANGED sent
              \/ \E s \in {<<>>} \cup {<<r>> : r \in Requests} :
                   client' = [client EXCEPT ![c] = "closed"] /\ sent' = [sent EXCEPT ![c] = s]
           /\ UNCHANGED <<replies, status, alive>>

Send(c) == /\ Lasting(c) /\ client[c] = "sending" /\ Len(sent[c]) < MaxSent
           /\ \E r \in Requests : sent' = [sent EXCEPT ![c] = Append(@, r)]
           /\ UNCHANGED <<client, replies, status, alive>>

Leave(c) == /\ Lasting(c) /\ client[c] \in {"sending", "closed"}
            /\ \/ client[c] = "sending" /\ client' = [client EXCEPT ![c] = "closed"]
               \/ client' = [client EXCEPT ![c] = "cancelled"]
            /\ UNCHANGED <<sent, replies, status, alive>>

\* The reply to the first request that has none; the call may end with it.
Reply(c) == /\ Lasting(c) /\ client[c] \in {"sending", "closed"}
            /\ Len(replies[c]) < Len(sent[c])
            /\ replies' = [replies EXCEPT ![c] = Append(@, sent[c][Len(@) + 1])]
            /\ \/ UNCHANGED status
               \/ /\ client[c] = "closed" /\ Len(replies[c]) + 1 = Len(sent[c])
                  /\ status' = [status EXCEPT ![c] = "OK"]
            /\ UNCHANGED <<client, sent, alive>>

EndOK(c) == /\ Lasting(c)
            /\ \/ client[c] = "cancelled"
               \/ client[c] = "closed" /\ Len(replies[c]) = Len(sent[c])
            /\ status' = [status EXCEPT ![c] = "OK"]
            /\ UNCHANGED <<client, sent, replies, alive>>

EndFailed(c) == /\ Lasting(c) /\ Len(replies[c]) < Len(sent[c])
                /\ \E s \in {"NOT_FOUND", "INTERNAL"} : status' = [status EXCEPT ![c] = s]
                /\ UNCHANGED <<client, sent, replies, alive>>

Stop == alive /\ alive' = FALSE /\ UNCHANGED <<client, sent, replies, status>>

Next == \/ \E c \in Calls : \/ Open(c) \/ Send(c) \/ Leave(c)
                            \/ Reply(c) \/ EndOK(c) \/ EndFailed(c)
        \/ Stop

Spec == Init /\ [][Next]_vars
=============================================================================
