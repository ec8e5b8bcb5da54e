------------------------- MODULE TranslationService -------------------------
(***************************************************************************)
(* What a client of the REST server can rely on, connection by connection: *)
(* requests are handled one at a time, in the order they were sent; each   *)
(* reply is to the request being handled; a reply 400 may be followed by   *)
(* other replies to the same request, a reply 200 or 500 may not; and the  *)
(* next request is not taken before the last one had a reply.              *)
(***************************************************************************)
EXTENDS Integers, Sequences

CONSTANT Conns

VARIABLES sent,    \* [Conns -> how many requests the client has sent]
          taken,   \* [Conns -> how many the server has begun to handle]
          busy,    \* the connections whose last request is still being handled
          replies  \* [Conns -> the replies, in the order the client gets them]

vars == <<sent, taken, busy, replies>>

Init == /\ sent    = [c \in Conns |-> 0]
        /\ taken   = [c \in Conns |-> 0]
        /\ busy    = {}
        /\ replies = [c \in Conns |-> <<>>]

Send(c) == /\ sent' = [sent EXCEPT ![c] = @ + 1]
           /\ UNCHANGED <<taken, busy, replies>>

Take(c) == /\ c \notin busy
           /\ taken[c] < sent[c]
           /\ taken' = [taken EXCEPT ![c] = @ + 1]
           /\ busy'  = busy \cup {c}
           /\ UNCHANGED <<sent, replies>>

Replied(c, code) ==
  replies' = [replies EXCEPT ![c] = Append(@, [request |-> taken[c], code |-> code])]

\* A reply 400 after which the handler goes on.
Refuse(c) == /\ c \in busy
             /\ Replied(c, 400)
             /\ UNCHANGED <<sent, taken, busy>>

\* The last reply to a request.
Finish(c) == /\ c \in busy
             /\ \E code \in {200, 400, 500} : Replied(c, code)
             /\ busy' = busy \ {c}
             /\ UNCHANGED <<sent, taken>>

Next == \E c \in Conns : Send(c) \/ Take(c) \/ Refuse(c) \/ Finish(c)

Spec == Init /\ [][Next]_vars
=============================================================================
