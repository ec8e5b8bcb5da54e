----------------------------- MODULE RestServer -----------------------------
(***************************************************************************)
(* The REST server of rest_server.cpp: its three handlers, the parameters  *)
(* they fetch, the calls they make to the translation backends, and their  *)
(* replies; run by the worker threads of a Pistache endpoint, for clients  *)
(* that keep their connections open.                                       *)
(*                                                                         *)
(* A request stands for what its JSON body makes the handlers do.  A call  *)
(* of NMTTranslateBatch is modelled one sentence at a time, with answers   *)
(* whose lines are well formed: NmtTranslate has the details of the merge. *)
(*                                                                         *)
(* External, modelled from how rest_server.cpp uses it: Pistache gives     *)
(* each connection to one worker, which runs one handler at a time; every  *)
(* response.send puts one reply on the connection; an exception that       *)
(* leaves a handler becomes a reply 500.  The client sends a request when  *)
(* it has had as many replies as it has sent requests.                     *)
(***************************************************************************)
EXTENDS Integers, Sequences, FiniteSets

CONSTANTS
  Workers, Conns,
  WorkerOf,     \* the worker that serves each connection
  Models,       \* _list_translation_model; each has its own backend
  NoModel,      \* the result of find_if when no model fits the languages and domain
  NoConn,       \* the connection of an idle worker
  Requests,     \* the requests clients send
  MaxRequests,  \* how many a client sends on a connection
  Faulty,       \* backends that may go away, drop a sentence or answer nonsense
  Hung          \* backends that may leave a sentence unanswered for ever

Codes == {200, 400, 500}

\* text: is the item's "text" a string, missing, or of another type?
Items == [text : {"string", "missing", "ill_typed"}, sentences : Nat]

\* params: what fetchParamWithDefault makes of the body: "ok"; "incomplete", no
\* source, or a source and a target but no domain; "no_target", a source and a domain
\* but no target; "source_only", neither target nor domain; "ill_typed", a body that
\* is not JSON or a parameter of the wrong type.
\* data: is there a "text" (translate) or a "batch_data" (batch)?
RequestType == [kind   : {"translate", "batch", "languages"},
                params : {"ok", "incomplete", "no_target", "source_only", "ill_typed"},
                model  : Models \cup {NoModel},
                data   : BOOLEAN,
                items  : Seq(Items)]

ASSUME WorkersAssumption == WorkerOf \in [Conns -> Workers]
ASSUME NamesAssumption   == NoModel \notin Models /\ NoConn \notin Conns
ASSUME BoundAssumption   == MaxRequests \in Nat
ASSUME BackendsAssumption == Faulty \subseteq Models /\ Hung \subseteq Models
\* A parameter that is not fetched stays empty, and no model has an empty domain or
\* language, nor the target that is read when there is none; a translation has
\* one item, and is not asked for without a text.
ASSUME RequestsAssumption ==
  /\ Requests \subseteq RequestType
  /\ \A r \in Requests :
       /\ r.params # "ok" => r.model = NoModel
       /\ r.kind = "translate" => Len(r.items) = 1 /\ r.items[1].text # "missing"

VARIABLES process,  \* "up" or "dead"
          backend,  \* [Models -> "up" or "down"]
          sent,     \* [Conns -> the requests the client has sent]
          taken,    \* [Conns -> how many of them a handler was started for]
          replies,  \* [Conns -> the replies on the connection]
          handler   \* [Workers -> the state of the handler it runs]

vars == <<process, backend, sent, taken, replies, handler>>

-----------------------------------------------------------------------------
\* A handler's state: where it is; the connection it serves; the item and the
\* sentence it is at; the sentences of the item that were answered; the reply's
\* body so far; and the WebSocket of the sentence ("answered": a message waits).
IdleBeforeFirst ==  \* mutant: the items counted from 0
  [pc |-> "idle", conn |-> NoConn, item |-> 0, sentence |-> 1,
   answered |-> {}, body |-> <<>>, link |-> "none"]

Idle == [pc |-> "idle", conn |-> NoConn, item |-> 1, sentence |-> 1,
         answered |-> {}, body |-> <<>>, link |-> "none"]

Init == /\ process = "up"
        /\ backend = [m \in Models |-> "up"]
        /\ sent    = [c \in Conns |-> <<>>]
        /\ taken   = [c \in Conns |-> 0]
        /\ replies = [c \in Conns |-> <<>>]
        /\ handler = [w \in Workers |-> Idle]

\* The request worker w handles, the item it is at and the model it calls.
Request(w) == sent[handler[w].conn][taken[handler[w].conn]]
Item(w)    == Request(w).items[handler[w].item]
Model(w)   == Request(w).model

\* What the body of the reply says of an item: which of its sentences a translation has,
\* and, for the record, after how many of them it was written.
Translated(sentences, upto) ==
  [translated |-> TRUE, sentences |-> sentences, upto |-> upto]
Untranslated == [translated |-> FALSE, sentences |-> {}, upto |-> 0]

At(w, pc)    == process = "up" /\ handler[w].pc = pc
Become(w, h) == handler' = [handler EXCEPT ![w] = h]
Goto(w, pc)  == Become(w, [handler[w] EXCEPT !.pc = pc])
End(w)       == Become(w, Idle)

\* response.send.
Reply(w, code, body) ==
  LET c == handler[w].conn
  IN  replies' = [replies EXCEPT ![c] =
                    Append(@, [request |-> taken[c], code |-> code, body |-> body])]

\* The end of an item: on to the next one.
ItemDone(w, entry) ==
  Become(w, [handler[w] EXCEPT !.pc = "item", !.item = @ + 1, !.sentence = 1,
               !.answered = {}, !.link = "none", !.body = Append(@, entry)])

-----------------------------------------------------------------------------
\* The client.
Send(c) == /\ process = "up"
           /\ Len(sent[c]) < MaxRequests
           /\ Len(replies[c]) >= Len(sent[c])
           /\ \E r \in Requests : sent' = [sent EXCEPT ![c] = Append(@, r)]
           /\ UNCHANGED <<process, backend, taken, replies, handler>>

\* An idle worker reads the next request of one of its connections; the router
\* picks the handler.
Take(w, c) ==
  /\ At(w, "idle")
  /\ WorkerOf[c] = w
  /\ taken[c] < Len(sent[c])
  /\ taken' = [taken EXCEPT ![c] = @ + 1]
  /\ Become(w, [Idle EXCEPT !.conn = c,
       !.pc = IF sent[c][taken[c] + 1].kind = "languages" THEN "languages" ELSE "fetch"])
  /\ UNCHANGED <<process, backend, sent, replies>>

\* doTranslationGet; its answer is the subject of LanguageCatalogue.
Languages(w) == /\ At(w, "languages")
                /\ Reply(w, 200, <<>>)
                /\ End(w)
                /\ UNCHANGED <<process, backend, sent, taken>>

\* fetchParamWithDefault and the handler's catch clause, which sends a reply 400
\* and falls through.
FetchComplete(w) == /\ Request(w).params = "ok"
                    /\ Goto(w, "data")
                    /\ UNCHANGED <<process, replies>>

FetchIncompleteSilently(w) ==  \* mutant: the reply 400 is forgotten
  Request(w).params = "incomplete" /\ Goto(w, "data") /\ UNCHANGED <<process, replies>>

FetchIncomplete(w) == /\ Request(w).params = "incomplete"
                      /\ Reply(w, 400, <<>>)
                      /\ Goto(w, "data")
                      /\ UNCHANGED process

\* parse_error and type_error are no runtime_error: they leave the handler.
FetchIllTyped(w) == /\ Request(w).params = "ill_typed"
                    /\ Reply(w, 500, <<>>)
                    /\ End(w)
                    /\ UNCHANGED process

FetchNoTargetFallsThrough(w) ==  \* mutant: goes on after a reply
  /\ Request(w).params = "no_target"
  /\ Reply(w, 400, <<>>) /\ Goto(w, "data") /\ UNCHANGED process

\* The test for "target" looks for "source"; j["target"] on a const object
\* without that key then dereferences end(), its assert compiled out.  What is
\* read there may crash the process, be no string, or be some string.
UndefinedTarget(w) == \/ process' = "dead" /\ UNCHANGED <<handler, replies>>
                      \/ Reply(w, 500, <<>>) /\ End(w) /\ UNCHANGED process

FetchNoTarget(w) ==
  /\ Request(w).params = "no_target"
  /\ UndefinedTarget(w) \/ (Goto(w, "data") /\ UNCHANGED <<process, replies>>)

\* The same, before the domain is missed.
FetchSourceOnly(w) ==
  /\ Request(w).params = "source_only"
  /\ UndefinedTarget(w) \/ (Reply(w, 400, <<>>) /\ Goto(w, "data") /\ UNCHANGED process)

FetchParams(w) ==
  /\ At(w, "fetch")
  /\ \/ FetchComplete(w) \/ FetchIncomplete(w) \/ FetchIllTyped(w)
     \/ FetchNoTarget(w) \/ FetchSourceOnly(w)
  /\ UNCHANGED <<backend, sent, taken>>

NoDataSilently(w) ==  \* mutant: no reply when there is nothing to translate
  /\ At(w, "data") /\ ~ Request(w).data
  /\ End(w)
  /\ UNCHANGED <<process, backend, sent, taken, replies>>

\* j.find("text"), j.find("batch_data").
NoData(w) == /\ At(w, "data")
             /\ ~ Request(w).data
             /\ Reply(w, 400, <<>>)
             /\ End(w)
             /\ UNCHANGED <<process, backend, sent, taken>>

Data(w) == /\ At(w, "data")
           /\ Request(w).data
           /\ Goto(w, "item")
           /\ UNCHANGED <<process, backend, sent, taken, replies>>

MoreItems(w) == handler[w].item <= Len(Request(w).items)

\* A batch item without "text": a reply 400, and on to the next item.
RejectItem(w) == /\ At(w, "item") /\ MoreItems(w)
                 /\ Item(w).text = "missing"
                 /\ Reply(w, 400, <<>>)
                 /\ ItemDone(w, Untranslated)
                 /\ UNCHANGED <<process, backend, sent, taken>>

\* string text = it["text"] throws a type_error.
IllTypedItem(w) == /\ At(w, "item") /\ MoreItems(w)
                   /\ Item(w).text = "ill_typed"
                   /\ Reply(w, 500, <<>>)
                   /\ End(w)
                   /\ UNCHANGED <<process, backend, sent, taken>>

\* askTranslation: no model fits, and its result false is ignored; or the
\* sentences are sent to the model's backend, if there are any.
AskTranslation(w) ==
  /\ At(w, "item") /\ MoreItems(w)
  /\ Item(w).text = "string"
  /\ IF Model(w) = NoModel THEN ItemDone(w, Untranslated)
     ELSE IF Item(w).sentences = 0 THEN ItemDone(w, Translated({}, 0))
     ELSE Goto(w, "connect")
  /\ UNCHANGED <<process, backend, sent, taken, replies>>

\* NMTTranslate: from_url, whose NULL is dereferenced when the backend is down.
Connect(w) ==
  /\ At(w, "connect")
  /\ IF backend[Model(w)] = "up"
     THEN /\ Become(w, [handler[w] EXCEPT !.pc = "poll", !.link = "open"])
          /\ UNCHANGED process
     ELSE process' = "dead" /\ UNCHANGED handler
  /\ UNCHANGED <<backend, sent, taken, replies>>

\* The poll loop ends.  A sentence whose connection was closed has no answer, and
\* is passed over.
OnlyAnswers(w) == handler[w].link = "answered"  \* mutant: closing not noticed

Answered(w) == handler[w].answered \cup
                 (IF handler[w].link = "answered" THEN {handler[w].sentence} ELSE {})

LoopEnds(w) == handler[w].link \in {"answered", "closed"}

Poll(w) ==
  /\ At(w, "poll")
  /\ LoopEnds(w)
  /\ IF handler[w].sentence = Item(w).sentences
     THEN ItemDone(w, Translated(Answered(w), handler[w].sentence))
     ELSE Become(w, [handler[w] EXCEPT !.pc = "connect", !.link = "none",
                       !.sentence = @ + 1, !.answered = Answered(w)])
  /\ UNCHANGED <<process, backend, sent, taken, replies>>

RaisePart(w) ==  \* mutant: what there is of a translation is kept
  /\ At(w, "connect") \/ At(w, "poll")
  /\ Model(w) \in Faulty
  /\ ItemDone(w, Translated(handler[w].answered, handler[w].sentence - 1))
  /\ UNCHANGED <<process, backend, sent, taken, replies>>

\* An exception in NMTTranslate: NMTTranslateBatch and askTranslation return
\* false, nothing is added to the item, and the handler goes on.
Raise(w) == /\ At(w, "connect") \/ At(w, "poll")
            /\ Model(w) \in Faulty
            /\ ItemDone(w, Untranslated)
            /\ UNCHANGED <<process, backend, sent, taken, replies>>

\* The reply after the last item.
Finish(w) == /\ At(w, "item") /\ ~ MoreItems(w)
             /\ Reply(w, 200, handler[w].body)
             /\ End(w)
             /\ UNCHANGED <<process, backend, sent, taken>>

Step(w) == \/ \E c \in Conns : Take(w, c)
           \/ Languages(w) \/ FetchParams(w) \/ NoData(w) \/ Data(w)
           \/ RejectItem(w) \/ IllTypedItem(w) \/ AskTranslation(w)
           \/ Connect(w) \/ Poll(w) \/ Finish(w)

-----------------------------------------------------------------------------
\* The backends.
Answer(w) == /\ process = "up" /\ handler[w].link = "open"
             /\ Become(w, [handler[w] EXCEPT !.link = "answered"])
             /\ UNCHANGED <<process, backend, sent, taken, replies>>

\* The backend closes the connection of a sentence it has not answered.
Drop(w) == /\ process = "up" /\ handler[w].link = "open"
           /\ Model(w) \in Faulty
           /\ Become(w, [handler[w] EXCEPT !.link = "closed"])
           /\ UNCHANGED <<process, backend, sent, taken, replies>>

\* A backend stops, with its connections; and starts again.
Down(m) == /\ m \in Faulty
           /\ process = "up" /\ backend[m] = "up"
           /\ backend' = [backend EXCEPT ![m] = "down"]
           /\ handler' = [w \in Workers |->
                IF handler[w].link = "open" /\ Model(w) = m
                THEN [handler[w] EXCEPT !.link = "closed"] ELSE handler[w]]
           /\ UNCHANGED <<process, sent, taken, replies>>

Up(m) == /\ process = "up" /\ backend[m] = "down"
         /\ backend' = [backend EXCEPT ![m] = "up"]
         /\ UNCHANGED <<process, sent, taken, replies, handler>>

Next == \/ \E c \in Conns : Send(c)
        \/ \E w \in Workers : Step(w) \/ Raise(w) \/ Answer(w) \/ Drop(w)
        \/ \E m \in Models : Down(m) \/ Up(m)

Spec == Init /\ [][Next]_vars

\* Worker threads run; a backend that is not in Hung answers or closes.  Nothing
\* makes a hung backend answer, and the code's poll loop has no timeout.
AnswersAtLast(w) == /\ handler[w].link = "open"
                    /\ Model(w) \notin Hung
                    /\ (Answer(w) \/ Drop(w))

Fairness == \A w \in Workers : WF_vars(Step(w)) /\ WF_vars(AnswersAtLast(w))

FairSpec == Spec /\ Fairness

-----------------------------------------------------------------------------
Reports  == [translated : BOOLEAN, sentences : SUBSET Nat, upto : Nat]
Replies  == [request : Nat \ {0}, code : Codes, body : Seq(Reports)]
Handlers == [pc : {"idle", "languages", "fetch", "data", "item", "connect", "poll"},
             conn : Conns \cup {NoConn}, item : Nat \ {0}, sentence : Nat \ {0},
             answered : SUBSET Nat, body : Seq(Reports),
             link : {"none", "open", "answered", "closed"}]

TypeOK == /\ process \in {"up", "dead"}
          /\ backend \in [Models -> {"up", "down"}]
          /\ sent \in [Conns -> Seq(Requests)]
          /\ taken \in [Conns -> Nat]
          /\ replies \in [Conns -> Seq(Replies)]
          /\ handler \in [Workers -> Handlers]

Busy(w)      == handler[w].pc # "idle"
Serves(w, c) == Busy(w) /\ handler[w].conn = c

\* The handlers and the connections agree.
Control ==
  /\ \A c \in Conns : taken[c] <= Len(sent[c])
  /\ \A w \in Workers :
       /\ Busy(w) <=> handler[w].conn \in Conns
       /\ Busy(w) => WorkerOf[handler[w].conn] = w /\ taken[handler[w].conn] > 0
       /\ handler[w].pc \in {"connect", "poll"} => MoreItems(w) /\ Model(w) \in Models
       /\ handler[w].link # "none" <=> handler[w].pc = "poll"

\* The request that the n-th reply on c is to.
RequestOf(c, n) == sent[c][replies[c][n].request]

\* Requests in which fetchParamWithDefault misses nothing, each item with its text.
Lacking  == {"incomplete", "source_only"}
Clean(r) == /\ r.params \notin Lacking
            /\ \A i \in DOMAIN r.items : r.items[i].text # "missing"

\* Has the client of c sent only such requests?  Is one of them being handled?
CleanClient(c) == \A n \in DOMAIN sent[c] : Clean(sent[c][n])
InService(c)   == \E w \in Workers : Serves(w, c)

\* As long as a client sends clean requests its n-th reply answers its n-th
\* request, and it has had exactly one reply to each request handled, whatever the
\* other connections of the worker do (the catch clauses of rest_server.cpp:123 and
\* :166 and the else branch of :181 break this for the other requests).
OneReplyEach ==
  \A c \in Conns : CleanClient(c) =>
    /\ \A n \in DOMAIN replies[c] : replies[c][n].request = n
    /\ Len(replies[c]) = taken[c] - (IF InService(c) THEN 1 ELSE 0)

\* Inductive.
IInv == TypeOK /\ Control /\ OneReplyEach

\* The replies 400 that a handler sends to a request before its last reply, by the
\* time it is done with the first k items.
Told(r, k)    == (IF r.params \in Lacking THEN 1 ELSE 0)
                   + Cardinality({i \in 1 .. k : r.items[i].text = "missing"})
Rejections(r) == Told(r, Len(r.items))
Before(c, n)  == {k \in 1 .. n - 1 : replies[c][k].request = replies[c][n].request}

\* A reply 200 to a request for translations: its n-th reply on c is one.
Result(c, n) == replies[c][n].code = 200 /\ RequestOf(c, n).kind # "languages"

\* A reply 200 to a request for translations comes after one reply 400 for its
\* incomplete parameters and one for each item without text, no more and no less
\* (rest_server.cpp:121-126, :169-194).
EveryProblemReported ==
  \A c \in Conns : \A n \in DOMAIN replies[c] :
    Result(c, n) => Cardinality(Before(c, n)) = Rejections(RequestOf(c, n))

\* What a reply to r may say of its i-th item.
Translatable(r, i) == r.items[i].text = "string" /\ r.model # NoModel
Faithful(r, i, entry) ==
  /\ entry.translated => Translatable(r, i) /\ entry.upto = r.items[i].sentences
  /\ entry.sentences \subseteq 1 .. entry.upto
  /\ ~ entry.translated => entry.sentences = {}
  /\ r.model \notin Faulty /\ Translatable(r, i) =>
       entry.translated /\ entry.sentences = 1 .. r.items[i].sentences

\* The body of a reply 200 has an entry for each item; an item is translated only
\* if it has a text and a model, and only once the wait for each of its sentences has
\* ended: one whose translation failed half way has none at all, though it is answered
\* 200; and when its own backend does not fail or close early, whatever the others do,
\* all the sentences of every such item are there
\* (rest_server.cpp:134, :168-194, :295-303, nmt.cpp:246-259).
FaithfulBody ==
  \A c \in Conns : \A n \in DOMAIN replies[c] :
    Result(c, n) =>
      /\ Len(replies[c][n].body) = Len(RequestOf(c, n).items)
      /\ \A i \in DOMAIN replies[c][n].body :
           Faithful(RequestOf(c, n), i, replies[c][n].body[i])

\* A handler in state h is right about its request r, to which it has replied told
\* times: what it reported and wrote is what the items it is done with call for.
InItem(h, r) ==
  /\ h.item <= Len(r.items) /\ Translatable(r, h.item)
  /\ h.sentence \in 1 .. r.items[h.item].sentences
  /\ h.answered \subseteq 1 .. h.sentence - 1
  /\ r.model \notin Faulty => h.answered = 1 .. h.sentence - 1 /\ h.link # "closed"

InHand(h, r, told) ==
  /\ h.pc = "languages" <=> r.kind = "languages"
  /\ h.pc = "fetch" => told = 0
  /\ h.pc \in {"fetch", "data"} => h.item = 1
  /\ h.pc \in {"fetch", "data", "item"} => h.sentence = 1 /\ h.answered = {}
  /\ h.pc \in {"connect", "poll"} => InItem(h, r)
  /\ h.pc \notin {"languages", "fetch"} => told = Told(r, h.item - 1)
  /\ h.pc # "languages" => /\ Len(h.body) = h.item - 1 /\ Len(h.body) <= Len(r.items)
                           /\ \A i \in DOMAIN h.body : Faithful(r, i, h.body[i])

RepliesTo(c, q) == {k \in DOMAIN replies[c] : replies[c][k].request = q}
ToldBy(w)       == Cardinality(RepliesTo(handler[w].conn, taken[handler[w].conn]))

\* Inductive, with IInv.
RepliesKnown == \A c \in Conns : \A n \in DOMAIN replies[c] :
                  replies[c][n].request \in 1 .. taken[c]
AllInHand    == \A w \in Workers : Busy(w) => InHand(handler[w], Request(w), ToldBy(w))
BodyInv      == RepliesKnown /\ AllInHand /\ EveryProblemReported /\ FaithfulBody

\* The server implements what TranslationService promises its clients.
Service == INSTANCE TranslationService
             WITH sent    <- [c \in Conns |-> Len(sent[c])],
                  busy    <- {c \in Conns : InService(c)},
                  replies <- [c \in Conns |-> [n \in DOMAIN replies[c] |->
                               [request |-> replies[c][n].request,
                                code    |-> replies[c][n].code]]]
ImplementsService == Service!Spec

\* A request is answered in the end, or the process has died, or a client of the
\* same worker asked for a translation by a hung backend: a hung backend holds
\* back the connections of the workers that call it and no others.
Pending(c, n)  == Len(sent[c]) >= n
HasReply(c, n) == \E k \in DOMAIN replies[c] : replies[c][k].request = n
HeldBack(c)    == \E d \in Conns : /\ WorkerOf[d] = WorkerOf[c]
                                   /\ \E k \in DOMAIN sent[d] : sent[d][k].model \in Hung

EventuallyAnswered ==
  \A c \in Conns : \A n \in 1 .. MaxRequests :
    Pending(c, n) ~> HasReply(c, n) \/ HeldBack(c) \/ process = "dead"
=============================================================================
