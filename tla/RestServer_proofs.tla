-------------------------- MODULE RestServer_proofs --------------------------
(* The REST server's type invariant, the order of its replies, its           *)
(* refinement of TranslationService, and what its replies say, for every set *)
(* of workers, connections, models and requests, and every bound on what a   *)
(* client sends.                                                             *)
(*                                                                           *)
(* The actions of RestServer are first sorted by what they do to the         *)
(* connections (Classification), and later by what they do to what is said   *)
(* (Sayings); what follows is proved for each sort.                          *)
EXTENDS RestServer, FiniteSetTheorems, TLAPS

\* A handler state that suits the request it is for: Control, of one worker.
Suits(h, r) == /\ h.pc \in {"connect", "poll"} =>
                    h.item <= Len(r.items) /\ r.model \in Models
               /\ h.link # "none" <=> h.pc = "poll"

\* A handler goes on, for the same request.
Advances(w) == /\ Busy(w)
               /\ \E h \in Handlers :
                    /\ h.pc # "idle"
                    /\ h.conn = handler[w].conn
                    /\ Suits(h, Request(w))
                    /\ Become(w, h)

\* A step that no client sees; a reply 400 after which the handler goes on; a
\* last reply.
Quiet(w)     == Advances(w) /\ UNCHANGED <<sent, taken, replies>>
Refuses(w)   == /\ Advances(w)
                /\ ~ Clean(Request(w))
                /\ Reply(w, 400, <<>>)
                /\ UNCHANGED <<sent, taken>>
Completes(w) == /\ Busy(w)
                /\ \E code \in Codes, body \in Seq(Reports) : Reply(w, code, body)
                /\ End(w)
                /\ UNCHANGED <<sent, taken>>

\* A step of the backends or of the process alone: of the handlers it changes
\* only whether an open WebSocket is open.
Around == /\ UNCHANGED <<sent, taken, replies>>
          /\ handler' \in [Workers -> Handlers]
          /\ \A w \in Workers :
               /\ handler'[w].pc = handler[w].pc
               /\ handler'[w].conn = handler[w].conn
               /\ handler'[w].item = handler[w].item
               /\ handler'[w].link = "none" <=> handler[w].link = "none"

Surroundings == process \in {"up", "dead"} /\ backend \in [Models -> {"up", "down"}]

-----------------------------------------------------------------------------
\* The request a handler works on is one a client sent.
LEMMA RequestKnown ==
  ASSUME TypeOK, Control, NEW w \in Workers, Busy(w)
  PROVE  /\ handler[w] \in Handlers
         /\ handler[w].conn \in Conns
         /\ taken[handler[w].conn] \in 1 .. Len(sent[handler[w].conn])
         /\ Request(w) \in Requests
         /\ Request(w).items \in Seq(Items)
         /\ Len(Request(w).items) \in Nat
         /\ Request(w).model \in Models \cup {NoModel}
<1>1. /\ handler[w] \in Handlers
      /\ handler[w].conn \in Conns
      /\ taken[handler[w].conn] \in 1 .. Len(sent[handler[w].conn])
      /\ sent[handler[w].conn] \in Seq(Requests)
  BY DEF TypeOK, Control
<1>2. Request(w) \in Requests
  BY <1>1 DEF Request
<1>3. Request(w) \in RequestType
  BY <1>2, RequestsAssumption
<1>4. /\ Request(w).items \in Seq(Items)
      /\ Request(w).model \in Models \cup {NoModel}
  BY <1>3 DEF RequestType
<1>. QED
  BY <1>1, <1>2, <1>4

\* The handler's next state, after ItemDone and after a change of pc alone.
ItemDoneState(g, h, entry) ==
  /\ g.pc = "item" /\ g.link = "none" /\ g.conn = h.conn /\ g.item = h.item + 1
  /\ g.sentence = 1 /\ g.answered = {} /\ g.body = Append(h.body, entry)

LEMMA ItemDoneBecomes ==
  ASSUME TypeOK, Control, NEW w \in Workers, NEW entry \in Reports, ItemDone(w, entry)
  PROVE  \E g \in Handlers : ItemDoneState(g, handler[w], entry) /\ Become(w, g)
<1>. DEFINE h == [handler[w] EXCEPT !.pc = "item", !.item = @ + 1, !.sentence = 1,
                    !.answered = {}, !.link = "none", !.body = Append(@, entry)]
<1>1. handler[w] \in Handlers
  BY DEF TypeOK
<1>2. h \in Handlers /\ ItemDoneState(h, handler[w], entry)
  <2>. DEFINE item == handler[w].item + 1
              body == Append(handler[w].body, entry)
              first == 1
              none == {}
  <2>1. /\ item \in Nat \ {0} /\ first \in Nat \ {0}
        /\ body \in Seq(Reports) /\ none \in SUBSET Nat
    BY <1>1 DEF Handlers
  <2>. DEFINE h1 == [handler[w] EXCEPT !.pc = "item", !.item = item]
              h2 == [h1 EXCEPT !.sentence = first, !.answered = none]
  <2>2. h = [h2 EXCEPT !.link = "none", !.body = body]
    OBVIOUS
  <2>3. item = handler[w].item + 1 /\ body = Append(handler[w].body, entry)
          /\ first = 1 /\ none = {}
    OBVIOUS
  <2>. HIDE DEF item, body, first, none, h
  <2>4. h1 \in Handlers /\ h1.pc = "item" /\ h1.conn = handler[w].conn /\ h1.item = item
    BY <1>1, <2>1 DEF Handlers
  <2>. HIDE DEF h1
  <2>5. /\ h2 \in Handlers /\ h2.pc = "item" /\ h2.conn = handler[w].conn
        /\ h2.item = item /\ h2.sentence = first /\ h2.answered = none
    BY <2>1, <2>4 DEF Handlers
  <2>. HIDE DEF h2
  <2>. QED
    BY <2>1, <2>2, <2>3, <2>5 DEF Handlers, ItemDoneState
<1>3. Become(w, h)
  BY DEF ItemDone
<1>. HIDE DEF h
<1>. QED
  BY <1>2, <1>3

LEMMA ItemDoneAdvances ==
  ASSUME TypeOK, Control, NEW w \in Workers, Busy(w), NEW entry \in Reports,
         ItemDone(w, entry)
  PROVE  Advances(w)
BY ItemDoneBecomes DEF ItemDoneState, Advances, Suits

LEMMA GotoAdvances ==
  ASSUME TypeOK, Control, NEW w \in Workers, Busy(w), handler[w].pc # "poll",
         NEW pc \in {"data", "item", "connect"}, Goto(w, pc),
         pc = "connect" => MoreItems(w) /\ Model(w) \in Models
  PROVE  Advances(w)
<1>. DEFINE h == [handler[w] EXCEPT !.pc = pc]
<1>1. handler[w] \in Handlers /\ handler[w].link = "none"
  BY RequestKnown DEF Control
<1>2. h \in Handlers /\ h.pc = pc /\ h.link = "none" /\ h.conn = handler[w].conn
        /\ h.item = handler[w].item
  BY <1>1 DEF Handlers
<1>3. Become(w, h)
  BY DEF Goto
<1>. HIDE DEF h
<1>. QED
  BY <1>2, <1>3 DEF Advances, Suits, MoreItems, Model

\* The handler's last reply.
LEMMA EndCompletes ==
  ASSUME NEW w \in Workers, Busy(w), NEW code \in Codes, NEW body \in Seq(Reports),
         Reply(w, code, body), End(w), UNCHANGED <<sent, taken>>
  PROVE  Completes(w)
BY DEF Completes

\* The same with a reply that has no report.
LEMMA EmptyReply ==
  ASSUME NEW w \in Workers, NEW code \in Codes, Reply(w, code, <<>>)
  PROVE  \E body \in Seq(Reports) : Reply(w, code, body)
<1>. <<>> \in Seq(Reports)
  OBVIOUS
<1>. WITNESS <<>> \in Seq(Reports)
<1>. QED
  OBVIOUS

LEMMA EmptyEndCompletes ==
  ASSUME NEW w \in Workers, Busy(w), NEW code \in Codes,
         Reply(w, code, <<>>), End(w), UNCHANGED <<sent, taken>>
  PROVE  Completes(w)
BY EmptyReply DEF Completes

-----------------------------------------------------------------------------
\* What each step of a worker does.
LEMMA FetchKinds ==
  ASSUME TypeOK, Control, NEW w \in Workers, FetchParams(w)
  PROVE  /\ Surroundings'
         /\ Quiet(w) \/ Refuses(w) \/ Completes(w) \/ Around
<1>1. Busy(w) /\ handler[w].pc = "fetch" /\ UNCHANGED <<backend, sent, taken>>
  BY DEF FetchParams, At, Busy
<1>2. Surroundings
  BY DEF TypeOK, Surroundings
<1>3. 500 \in Codes
  BY DEF Codes
<1>4. CASE FetchComplete(w)
  <2>1. Advances(w)
    BY <1>1, <1>4, GotoAdvances DEF FetchComplete
  <2>. QED
    BY <1>1, <1>2, <1>4, <2>1 DEF FetchComplete, Quiet, Surroundings
<1>5. CASE FetchIncomplete(w)
  <2>1. Advances(w)
    BY <1>1, <1>5, GotoAdvances DEF FetchIncomplete
  <2>. QED
    BY <1>1, <1>2, <1>5, <2>1 DEF FetchIncomplete, Refuses, Clean, Lacking, Surroundings
<1>6. CASE FetchIllTyped(w)
  BY <1>1, <1>2, <1>3, <1>6, EmptyEndCompletes DEF FetchIllTyped, Surroundings
<1>7. CASE FetchNoTarget(w)
  <2>1. CASE process' = "dead" /\ UNCHANGED <<handler, replies>>
    BY <1>1, <1>2, <2>1 DEF Around, Surroundings, TypeOK
  <2>2. CASE Reply(w, 500, <<>>) /\ End(w) /\ UNCHANGED process
    BY <1>1, <1>2, <1>3, <2>2, EmptyEndCompletes DEF Surroundings
  <2>3. CASE Goto(w, "data") /\ UNCHANGED <<process, replies>>
    <3>1. Advances(w)
      BY <1>1, <2>3, GotoAdvances
    <3>. QED
      BY <1>1, <1>2, <2>3, <3>1 DEF Quiet, Surroundings
  <2>. QED
    BY <1>7, <2>1, <2>2, <2>3 DEF FetchNoTarget, UndefinedTarget
<1>8. CASE FetchSourceOnly(w)
  <2>1. CASE UndefinedTarget(w)
    BY <1>1, <1>2, <1>3, <2>1, EmptyEndCompletes DEF UndefinedTarget, Around, Surroundings, TypeOK
  <2>2. CASE Reply(w, 400, <<>>) /\ Goto(w, "data") /\ UNCHANGED process
    <3>1. Advances(w)
      BY <1>1, <2>2, GotoAdvances
    <3>2. ~ Clean(Request(w))
      BY <1>8 DEF FetchSourceOnly, Clean, Lacking
    <3>. QED
      BY <1>1, <1>2, <2>2, <3>1, <3>2 DEF Refuses, Surroundings
  <2>. QED
    BY <1>8, <2>1, <2>2 DEF FetchSourceOnly
<1>. QED
  BY <1>4, <1>5, <1>6, <1>7, <1>8 DEF FetchParams

LEMMA ItemKinds ==
  ASSUME TypeOK, Control, NEW w \in Workers,
         RejectItem(w) \/ IllTypedItem(w) \/ AskTranslation(w) \/ Finish(w)
  PROVE  Surroundings' /\ (Quiet(w) \/ Refuses(w) \/ Completes(w))
<1>1. /\ Busy(w) /\ handler[w].pc = "item"
      /\ UNCHANGED <<process, backend, sent, taken>>
  BY DEF RejectItem, IllTypedItem, AskTranslation, Finish, At, Busy
<1>2. Surroundings'
  BY <1>1 DEF TypeOK, Surroundings
<1>3. Untranslated \in Reports /\ Translated({}, 0) \in Reports
  BY DEF Untranslated, Translated, Reports
<1>4. 500 \in Codes
  BY DEF Codes
<1>5. handler[w] \in Handlers /\ Len(Request(w).items) \in Nat
        /\ Request(w).model \in Models \cup {NoModel}
  BY <1>1, RequestKnown
<1>6. CASE RejectItem(w)
  <2>1. Advances(w)
    BY <1>1, <1>3, <1>6, ItemDoneAdvances DEF RejectItem
  <2>2. handler[w].item \in DOMAIN Request(w).items
    <3>1. Request(w).items \in Seq(Items)
      BY <1>1, RequestKnown
    <3>. QED
      BY <1>5, <1>6, <3>1 DEF RejectItem, MoreItems, Handlers
  <2>3. ~ Clean(Request(w))
    BY <1>6, <2>2 DEF RejectItem, Item, Clean
  <2>. QED
    BY <1>1, <1>2, <1>6, <2>1, <2>3 DEF RejectItem, Refuses
<1>7. CASE IllTypedItem(w)
  BY <1>1, <1>2, <1>4, <1>7, EmptyEndCompletes DEF IllTypedItem
<1>8. CASE AskTranslation(w)
  <2>1. CASE Model(w) = NoModel
    BY <1>1, <1>2, <1>3, <1>8, <2>1, ItemDoneAdvances DEF AskTranslation, Quiet
  <2>2. CASE Model(w) # NoModel /\ Item(w).sentences = 0
    BY <1>1, <1>2, <1>3, <1>8, <2>2, ItemDoneAdvances DEF AskTranslation, Quiet
  <2>3. CASE Model(w) # NoModel /\ Item(w).sentences # 0
    <3>1. Goto(w, "connect") /\ MoreItems(w) /\ Model(w) \in Models
      BY <1>5, <1>8, <2>3 DEF AskTranslation, Model
    <3>2. Advances(w)
      BY <1>1, <3>1, GotoAdvances
    <3>. QED
      BY <1>1, <1>2, <1>8, <3>2 DEF AskTranslation, Quiet
  <2>. QED
    BY <2>1, <2>2, <2>3
<1>9. CASE Finish(w)
  <2>1. handler[w].body \in Seq(Reports)
    BY <1>5 DEF Handlers
  <2>. QED
    BY <1>1, <1>2, <1>9, <2>1, EndCompletes DEF Finish, Codes
<1>. QED
  BY <1>6, <1>7, <1>8, <1>9

\* The sentences answered are numbers.
LEMMA AnsweredType ==
  ASSUME NEW w \in Workers, handler[w] \in Handlers
  PROVE  /\ Answered(w) \in SUBSET Nat
         /\ Translated(Answered(w), handler[w].sentence) \in Reports
<1>1. Answered(w) \in SUBSET Nat /\ handler[w].sentence \in Nat
  BY DEF Answered, Handlers
<1>. QED
  BY <1>1 DEF Translated, Reports

LEMMA CallKinds ==
  ASSUME TypeOK, Control, NEW w \in Workers, Connect(w) \/ Poll(w) \/ Raise(w)
  PROVE  Surroundings' /\ (Quiet(w) \/ Around)
<1>1. /\ Busy(w) /\ handler[w].pc \in {"connect", "poll"}
      /\ UNCHANGED <<backend, sent, taken, replies>>
  BY DEF Connect, Poll, Raise, At, Busy
<1>2. /\ handler[w] \in Handlers
      /\ Suits(handler[w], Request(w))
      /\ handler[w].item <= Len(Request(w).items) /\ Request(w).model \in Models
  BY <1>1, RequestKnown DEF Control, Suits, MoreItems, Model
<1>3. CASE Connect(w)
  <2>1. CASE backend[Model(w)] = "up"
    <3>. DEFINE h == [handler[w] EXCEPT !.pc = "poll", !.link = "open"]
    <3>1. h \in Handlers /\ h.pc = "poll" /\ h.link = "open"
            /\ h.conn = handler[w].conn /\ h.item = handler[w].item
      BY <1>2 DEF Handlers
    <3>2. Become(w, h) /\ UNCHANGED process
      BY <1>3, <2>1 DEF Connect
    <3>. HIDE DEF h
    <3>3. Suits(h, Request(w))
      BY <1>2, <3>1 DEF Suits
    <3>4. Advances(w)
      BY <1>1, <3>1, <3>2, <3>3 DEF Advances
    <3>. QED
      BY <1>1, <3>2, <3>4 DEF Quiet, Surroundings, TypeOK
  <2>2. CASE backend[Model(w)] # "up"
    BY <1>1, <1>3, <2>2 DEF Connect, Around, Surroundings, TypeOK
  <2>. QED
    BY <2>1, <2>2
<1>4. CASE Poll(w)
  <2>1. CASE handler[w].sentence = Item(w).sentences
    <3>1. Advances(w)
      BY <1>1, <1>2, <1>4, <2>1, AnsweredType, ItemDoneAdvances DEF Poll
    <3>. QED
      BY <1>1, <1>4, <3>1 DEF Poll, Quiet, Surroundings, TypeOK
  <2>2. CASE handler[w].sentence # Item(w).sentences
    <3>. DEFINE h == [handler[w] EXCEPT !.pc = "connect", !.link = "none",
                        !.sentence = @ + 1, !.answered = Answered(w)]
    <3>0. Answered(w) \in SUBSET Nat
      BY <1>2, AnsweredType
    <3>1. h \in Handlers /\ h.pc = "connect" /\ h.link = "none"
            /\ h.conn = handler[w].conn /\ h.item = handler[w].item
      <4>. DEFINE sentence == handler[w].sentence + 1
                  answered == Answered(w)
      <4>1. sentence \in Nat \ {0} /\ answered \in SUBSET Nat
        BY <1>2, <3>0 DEF Handlers
      <4>2. h = [handler[w] EXCEPT !.pc = "connect", !.link = "none",
                   !.sentence = sentence, !.answered = answered]
        OBVIOUS
      <4>. HIDE DEF sentence, answered, h
      <4>. QED
        BY <1>2, <4>1, <4>2 DEF Handlers
    <3>2. Become(w, h)
      BY <1>4, <2>2 DEF Poll
    <3>. HIDE DEF h
    <3>3. Suits(h, Request(w))
      BY <1>2, <3>1 DEF Suits
    <3>4. Advances(w)
      BY <1>1, <3>1, <3>2, <3>3 DEF Advances
    <3>. QED
      BY <1>1, <1>4, <3>4 DEF Poll, Quiet, Surroundings, TypeOK
  <2>. QED
    BY <2>1, <2>2
<1>5. CASE Raise(w)
  <2>1. Untranslated \in Reports
    BY DEF Untranslated, Reports
  <2>2. Advances(w)
    BY <1>1, <1>5, <2>1, ItemDoneAdvances DEF Raise
  <2>. QED
    BY <1>1, <1>5, <2>2 DEF Raise, Quiet, Surroundings, TypeOK
<1>. QED
  BY <1>3, <1>4, <1>5

LEMMA AnswerKinds ==
  ASSUME TypeOK, Control, NEW w \in Workers, Answer(w) \/ Drop(w)
  PROVE  Surroundings' /\ Around
<1>1. PICK link \in {"answered", "closed"} :
        handler' = [handler EXCEPT ![w] = [handler[w] EXCEPT !.link = link]]
  BY DEF Answer, Drop, Become
<1>2. handler[w].link = "open" /\ UNCHANGED <<process, backend, sent, taken, replies>>
  BY DEF Answer, Drop
<1>3. handler' \in [Workers -> Handlers]
  <2>1. handler \in [Workers -> Handlers]
    BY DEF TypeOK
  <2>2. [handler[w] EXCEPT !.link = link] \in Handlers
    BY <2>1 DEF Handlers
  <2>. QED
    BY <1>1, <2>1, <2>2
<1>4. ASSUME NEW v \in Workers
      PROVE  /\ handler'[v].pc = handler[v].pc
             /\ handler'[v].conn = handler[v].conn
             /\ handler'[v].item = handler[v].item
             /\ handler'[v].link = "none" <=> handler[v].link = "none"
  BY <1>1, <1>2 DEF TypeOK, Handlers
<1>. QED
  BY <1>2, <1>3, <1>4 DEF Around, Surroundings, TypeOK

LEMMA BackendKinds ==
  ASSUME TypeOK, Control, NEW m \in Models, Down(m) \/ Up(m)
  PROVE  Surroundings' /\ Around
<1>1. CASE Down(m)
  <2>1. \A v \in Workers :
          handler'[v] = IF handler[v].link = "open" /\ Model(v) = m
                        THEN [handler[v] EXCEPT !.link = "closed"] ELSE handler[v]
    BY <1>1 DEF Down
  <2>2. ASSUME NEW v \in Workers
        PROVE  /\ handler'[v] \in Handlers
               /\ handler'[v].pc = handler[v].pc
               /\ handler'[v].conn = handler[v].conn
               /\ handler'[v].item = handler[v].item
               /\ handler'[v].link = "none" <=> handler[v].link = "none"
    BY <2>1 DEF TypeOK, Handlers
  <2>3. handler' \in [Workers -> Handlers]
    BY <1>1, <2>2 DEF Down
  <2>. QED
    BY <1>1, <2>2, <2>3 DEF Down, Around, Surroundings, TypeOK
<1>2. CASE Up(m)
  BY <1>2 DEF Up, Around, Surroundings, TypeOK
<1>. QED
  BY <1>1, <1>2

\* Every step is of one of these sorts.
LEMMA Classification ==
  ASSUME TypeOK, Control, [Next]_vars
  PROVE  /\ Surroundings'
         /\ \/ Around
            \/ \E c \in Conns : Send(c)
            \/ \E w \in Workers, c \in Conns : Take(w, c)
            \/ \E w \in Workers : Quiet(w) \/ Refuses(w) \/ Completes(w)
<1>1. CASE UNCHANGED vars
  BY <1>1 DEF vars, Around, Surroundings, TypeOK
<1>2. CASE \E c \in Conns : Send(c)
  BY <1>2 DEF Send, Surroundings, TypeOK
<1>3. CASE \E w \in Workers, c \in Conns : Take(w, c)
  BY <1>3 DEF Take, Surroundings, TypeOK
<1>4. ASSUME NEW w \in Workers, Languages(w) \/ NoData(w) \/ Data(w)
      PROVE  Surroundings' /\ (Quiet(w) \/ Completes(w))
  <2>1. /\ Busy(w) /\ handler[w].pc # "poll"
        /\ UNCHANGED <<process, backend, sent, taken>>
    BY <1>4 DEF Languages, NoData, Data, At, Busy
  <2>2. Surroundings'
    BY <2>1 DEF Surroundings, TypeOK
  <2>3. 200 \in Codes /\ 400 \in Codes
    BY DEF Codes
  <2>4. CASE Data(w)
    BY <2>1, <2>2, <2>4, GotoAdvances DEF Data, Quiet
  <2>. QED
    BY <1>4, <2>1, <2>2, <2>3, <2>4, EmptyEndCompletes DEF Languages, NoData
<1>5. ASSUME NEW w \in Workers, Step(w) \/ Raise(w) \/ Answer(w) \/ Drop(w),
             ~ \E c \in Conns : Take(w, c)
      PROVE  Surroundings' /\ (Around \/ Quiet(w) \/ Refuses(w) \/ Completes(w))
  BY <1>4, <1>5, FetchKinds, ItemKinds, CallKinds, AnswerKinds DEF Step
<1>6. ASSUME NEW m \in Models, Down(m) \/ Up(m)
      PROVE  Surroundings' /\ Around
  BY <1>6, BackendKinds
<1>. QED
  BY <1>1, <1>2, <1>3, <1>5, <1>6 DEF Next

-----------------------------------------------------------------------------
\* A connection is in service exactly when its own worker serves it.
LEMMA ServedByItsWorker ==
  ASSUME TypeOK, Control, NEW w \in Workers, Busy(w), NEW c \in Conns
  PROVE  /\ Serves(w, c) <=> c = handler[w].conn
         /\ InService(handler[w].conn)
         /\ \A v \in Workers : Serves(v, handler[w].conn) => v = w
BY DEF Control, Serves, InService

\* What a change of w's handler that keeps it busy with the same request leaves
\* as it was.
LEMMA AdvanceKeeps ==
  ASSUME TypeOK, Control, NEW w \in Workers, Advances(w), UNCHANGED <<sent, taken>>
  PROVE  /\ handler' \in [Workers -> Handlers]
         /\ Control'
         /\ \A c \in Conns : InService(c)' <=> InService(c)
<1>1. PICK h \in Handlers : /\ h.pc # "idle"
                            /\ h.conn = handler[w].conn
                            /\ Suits(h, Request(w))
                            /\ Become(w, h)
  BY DEF Advances
<1>2. Busy(w) /\ handler \in [Workers -> Handlers]
  BY DEF Advances, TypeOK
<1>3. /\ handler' \in [Workers -> Handlers]
      /\ handler'[w] = h
      /\ \A v \in Workers : v # w => handler'[v] = handler[v]
  BY <1>1, <1>2 DEF Become
<1>4. \A v \in Workers : /\ Busy(v)' <=> Busy(v)
                         /\ handler'[v].conn = handler[v].conn
                         /\ Request(v)' = Request(v)
  BY <1>1, <1>2, <1>3 DEF Busy, Request
<1>5. Control'
  <2>1. \A c \in Conns : taken'[c] <= Len(sent'[c])
    BY DEF Control
  <2>2. ASSUME NEW v \in Workers
        PROVE  /\ Busy(v)' <=> handler'[v].conn \in Conns
               /\ Busy(v)' => WorkerOf[handler'[v].conn] = v /\ taken'[handler'[v].conn] > 0
    BY <1>4 DEF Control
  <2>3. ASSUME NEW v \in Workers
        PROVE  Suits(handler'[v], Request(v)')
    BY <1>1, <1>3, <1>4 DEF Control, Suits, MoreItems, Model
  <2>4. ASSUME NEW v \in Workers
        PROVE  /\ handler'[v].pc \in {"connect", "poll"} => MoreItems(v)' /\ Model(v)' \in Models
               /\ handler'[v].link # "none" <=> handler'[v].pc = "poll"
    BY <2>3 DEF Suits, MoreItems, Model
  <2>. QED
    BY <2>1, <2>2, <2>4 DEF Control
<1>6. \A c \in Conns : InService(c)' <=> InService(c)
  BY <1>4 DEF InService, Serves
<1>. QED
  BY <1>3, <1>5, <1>6

\* The steps around the handlers keep as much.
LEMMA AroundKeeps ==
  ASSUME TypeOK, Control, Around
  PROVE  /\ handler' \in [Workers -> Handlers]
         /\ Control'
         /\ \A c \in Conns : InService(c)' <=> InService(c)
<1>1. /\ UNCHANGED <<sent, taken>>
      /\ \A v \in Workers : /\ handler'[v].pc = handler[v].pc
                            /\ handler'[v].conn = handler[v].conn
                            /\ handler'[v].item = handler[v].item
                            /\ handler'[v].link = "none" <=> handler[v].link = "none"
  BY DEF Around
<1>2. \A v \in Workers : /\ Busy(v)' <=> Busy(v)
                         /\ Request(v)' = Request(v)
                         /\ MoreItems(v)' <=> MoreItems(v)
                         /\ Model(v)' = Model(v)
  BY <1>1 DEF Busy, Request, MoreItems, Model
<1>3. Control'
  BY <1>1, <1>2 DEF Control
<1>4. \A c \in Conns : InService(c)' <=> InService(c)
  BY <1>1, <1>2 DEF InService, Serves
<1>. QED
  BY <1>3, <1>4 DEF Around

\* A reply goes to the connection of the request, and to no other.
LEMMA ReplyAppends ==
  ASSUME TypeOK, Control, NEW w \in Workers, Busy(w),
         NEW code \in Codes, NEW body \in Seq(Reports), Reply(w, code, body)
  PROVE  LET c == handler[w].conn
         IN  /\ replies' \in [Conns -> Seq(Replies)]
             /\ Len(replies'[c]) = Len(replies[c]) + 1
             /\ replies'[c][Len(replies[c]) + 1].request = taken[c]
             /\ replies'[c][Len(replies[c]) + 1].code = code
             /\ replies'[c][Len(replies[c]) + 1].body = body
             /\ \A n \in DOMAIN replies[c] : replies'[c][n] = replies[c][n]
             /\ \A d \in Conns : d # c => replies'[d] = replies[d]
<1>. DEFINE c == handler[w].conn
            r == [request |-> taken[c], code |-> code, body |-> body]
<1>1. c \in Conns /\ taken[c] \in Nat \ {0}
  <2>1. c \in Conns /\ taken[c] \in 1 .. Len(sent[c])
    BY RequestKnown
  <2>. QED
    BY <2>1 DEF TypeOK
<1>2. r \in Replies
  BY <1>1 DEF Replies
<1>3. replies \in [Conns -> Seq(Replies)] /\ replies[c] \in Seq(Replies)
  BY <1>1 DEF TypeOK
<1>4. replies' = [replies EXCEPT ![c] = Append(replies[c], r)]
  BY DEF Reply
<1>5. r.request = taken[c] /\ r.code = code /\ r.body = body
  OBVIOUS
<1>. HIDE DEF c, r
<1>6. Append(replies[c], r) \in Seq(Replies)
  BY <1>2, <1>3
<1>7. /\ Len(Append(replies[c], r)) = Len(replies[c]) + 1
      /\ Append(replies[c], r)[Len(replies[c]) + 1] = r
      /\ \A n \in DOMAIN replies[c] : Append(replies[c], r)[n] = replies[c][n]
  BY <1>2, <1>3
<1>8. /\ replies' \in [Conns -> Seq(Replies)]
      /\ replies'[c] = Append(replies[c], r)
      /\ \A d \in Conns : d # c => replies'[d] = replies[d]
  BY <1>1, <1>3, <1>4, <1>6
<1>. QED
  BY <1>5, <1>7, <1>8 DEF c

-----------------------------------------------------------------------------
\* The inductive invariant, sort by sort.
LEMMA AroundInvariant == IInv /\ Surroundings' /\ Around => IInv'
<1>. SUFFICES ASSUME IInv, Surroundings', Around PROVE IInv'
  OBVIOUS
<1>1. UNCHANGED <<sent, taken, replies>> /\ TypeOK /\ Control
  BY DEF Around, IInv
<1>2. /\ handler' \in [Workers -> Handlers] /\ Control'
      /\ \A c \in Conns : InService(c)' <=> InService(c)
  BY <1>1, AroundKeeps
<1>3. TypeOK'
  BY <1>1, <1>2 DEF TypeOK, Surroundings
<1>4. OneReplyEach'
  BY <1>1, <1>2 DEF IInv, OneReplyEach, CleanClient
<1>. QED
  BY <1>2, <1>3, <1>4 DEF IInv

LEMMA QuietInvariant ==
  ASSUME IInv, Surroundings', NEW w \in Workers, Quiet(w)
  PROVE  IInv'
<1>1. /\ UNCHANGED <<sent, taken, replies>> /\ TypeOK /\ Control /\ Advances(w)
  BY DEF Quiet, IInv
<1>2. /\ handler' \in [Workers -> Handlers] /\ Control'
      /\ \A c \in Conns : InService(c)' <=> InService(c)
  BY <1>1, AdvanceKeeps
<1>3. TypeOK'
  BY <1>1, <1>2 DEF TypeOK, Surroundings
<1>4. OneReplyEach'
  BY <1>1, <1>2 DEF IInv, OneReplyEach, CleanClient
<1>. QED
  BY <1>2, <1>3, <1>4 DEF IInv

\* A request that is refused in passing is not clean.
LEMMA RefusesInvariant ==
  ASSUME IInv, Surroundings', NEW w \in Workers, Refuses(w)
  PROVE  IInv'
<1>0. PICK c \in Conns : c = handler[w].conn
  BY RequestKnown DEF Refuses, Advances, IInv
<1>1. /\ UNCHANGED <<sent, taken>> /\ TypeOK /\ Control /\ Advances(w) /\ Busy(w)
      /\ Reply(w, 400, <<>>) /\ ~ Clean(Request(w))
  BY DEF Refuses, Advances, IInv
<1>2. /\ handler' \in [Workers -> Handlers] /\ Control'
      /\ \A d \in Conns : InService(d)' <=> InService(d)
  BY <1>1, AdvanceKeeps
<1>3. /\ replies' \in [Conns -> Seq(Replies)]
      /\ \A d \in Conns : d # c => replies'[d] = replies[d]
  <2>1. 400 \in Codes
    BY DEF Codes
  <2>2. PICK code \in Codes, body \in Seq(Reports) : Reply(w, code, body)
    BY <1>1, <2>1, EmptyReply
  <2>. QED
    BY <1>0, <1>1, <2>2, ReplyAppends
<1>4. TypeOK'
  BY <1>1, <1>2, <1>3 DEF TypeOK, Surroundings
<1>5. ~ CleanClient(c)'
  <2>1. taken[c] \in 1 .. Len(sent[c]) /\ c \in Conns /\ sent[c] \in Seq(Requests)
    BY <1>0, <1>1, RequestKnown DEF TypeOK
  <2>. QED
    BY <1>0, <1>1, <2>1 DEF CleanClient, Request
<1>6. OneReplyEach'
  BY <1>1, <1>2, <1>3, <1>5 DEF IInv, OneReplyEach, CleanClient
<1>. QED
  BY <1>2, <1>4, <1>6 DEF IInv

LEMMA CompletesKeeps ==
  ASSUME TypeOK, Control, NEW w \in Workers, Completes(w)
  PROVE  /\ handler' \in [Workers -> Handlers]
         /\ Control'
         /\ \A d \in Conns : IF d = handler[w].conn THEN ~ InService(d)'
                             ELSE InService(d)' <=> InService(d)
<1>1. /\ UNCHANGED <<sent, taken>> /\ Busy(w) /\ End(w)
      /\ handler \in [Workers -> Handlers]
  BY DEF Completes, TypeOK
<1>2. Idle \in Handlers /\ Idle.pc = "idle" /\ Idle.conn = NoConn /\ Idle.link = "none"
  BY DEF Idle, Handlers
<1>3. /\ handler' \in [Workers -> Handlers]
      /\ handler'[w] = Idle
      /\ \A v \in Workers : v # w => handler'[v] = handler[v]
  BY <1>1, <1>2 DEF End, Become
<1>4. \A v \in Workers : v # w => /\ Busy(v)' <=> Busy(v)
                                  /\ Request(v)' = Request(v)
                                  /\ MoreItems(v)' <=> MoreItems(v)
                                  /\ Model(v)' = Model(v)
  BY <1>1, <1>3 DEF Busy, Request, MoreItems, Model
<1>5. ~ Busy(w)'
  BY <1>2, <1>3 DEF Busy
<1>6. Control'
  BY <1>1, <1>2, <1>3, <1>4, <1>5, NamesAssumption DEF Control
<1>7. ASSUME NEW d \in Conns
      PROVE  IF d = handler[w].conn THEN ~ InService(d)'
             ELSE InService(d)' <=> InService(d)
  <2>1. \A v \in Workers : v # w => (Serves(v, d)' <=> Serves(v, d))
    BY <1>3, <1>4 DEF Serves
  <2>2. ~ Serves(w, d)'
    BY <1>5 DEF Serves
  <2>3. CASE d = handler[w].conn
    <3>1. \A v \in Workers : v # w => ~ Serves(v, d)
      BY <1>1, <2>3, ServedByItsWorker
    <3>. QED
      BY <2>1, <2>2, <2>3, <3>1 DEF InService
  <2>4. CASE d # handler[w].conn
    <3>1. ~ Serves(w, d)
      BY <2>4 DEF Serves
    <3>. QED
      BY <2>1, <2>2, <2>4, <3>1 DEF InService
  <2>. QED
    BY <2>3, <2>4
<1>. QED
  BY <1>3, <1>6, <1>7

\* The reply that completes the k-th request is the k-th, if the client's requests
\* were clean.
LEMMA CompletesInvariant ==
  ASSUME IInv, Surroundings', NEW w \in Workers, Completes(w)
  PROVE  IInv'
<1>0. PICK c \in Conns : c = handler[w].conn
  BY RequestKnown DEF Completes, IInv
<1>. DEFINE L == Len(replies[c])
<1>1. /\ UNCHANGED <<sent, taken>> /\ TypeOK /\ Control /\ Busy(w)
      /\ InService(c)
  BY <1>0, RequestKnown, ServedByItsWorker DEF Completes, IInv
<1>2. /\ handler' \in [Workers -> Handlers] /\ Control'
      /\ \A d \in Conns : IF d = c THEN ~ InService(d)' ELSE InService(d)' <=> InService(d)
  BY <1>0, <1>1, CompletesKeeps
<1>3. PICK code \in Codes, body \in Seq(Reports) : Reply(w, code, body)
  BY DEF Completes
<1>4. /\ replies' \in [Conns -> Seq(Replies)]
      /\ Len(replies'[c]) = L + 1
      /\ replies'[c][L + 1].request = taken[c]
      /\ \A n \in DOMAIN replies[c] : replies'[c][n] = replies[c][n]
      /\ \A d \in Conns : d # c => replies'[d] = replies[d]
  BY <1>0, <1>1, <1>3, ReplyAppends
<1>5. TypeOK'
  BY <1>1, <1>2, <1>4 DEF TypeOK, Surroundings
<1>6. ASSUME CleanClient(c)
      PROVE  /\ \A n \in DOMAIN replies'[c] : replies'[c][n].request = n
             /\ Len(replies'[c]) = taken[c]
  <2>1. /\ \A n \in DOMAIN replies[c] : replies[c][n].request = n
        /\ L = taken[c] - 1
    BY <1>1, <1>6 DEF IInv, OneReplyEach
  <2>2. /\ L \in Nat /\ DOMAIN replies[c] = 1 .. L /\ DOMAIN replies'[c] = 1 .. L + 1
        /\ taken[c] \in Nat
    BY <1>1, <1>4 DEF TypeOK
  <2>. QED
    BY <1>4, <2>1, <2>2, SMTT(60)
<1>7. OneReplyEach'
  BY <1>1, <1>2, <1>4, <1>6 DEF IInv, OneReplyEach, CleanClient
<1>. QED
  BY <1>2, <1>5, <1>7 DEF IInv

\* A new request of a client.
LEMMA SendKeeps ==
  ASSUME TypeOK, Control, NEW c \in Conns, Send(c)
  PROVE  /\ sent' \in [Conns -> Seq(Requests)]
         /\ \A d \in Conns : /\ Len(sent'[d]) = Len(sent[d]) + (IF d = c THEN 1 ELSE 0)
                             /\ \A n \in DOMAIN sent[d] : sent'[d][n] = sent[d][n]
         /\ Control'
<1>1. PICK r \in Requests : sent' = [sent EXCEPT ![c] = Append(sent[c], r)]
  BY DEF Send
<1>2. /\ sent \in [Conns -> Seq(Requests)]
      /\ UNCHANGED <<taken, handler>>
  BY DEF Send, TypeOK
<1>3. /\ Append(sent[c], r) \in Seq(Requests)
      /\ Len(Append(sent[c], r)) = Len(sent[c]) + 1
      /\ \A n \in DOMAIN sent[c] : Append(sent[c], r)[n] = sent[c][n]
  BY <1>2
<1>4. /\ sent' \in [Conns -> Seq(Requests)]
      /\ \A d \in Conns : /\ Len(sent'[d]) = Len(sent[d]) + (IF d = c THEN 1 ELSE 0)
                          /\ \A n \in DOMAIN sent[d] : sent'[d][n] = sent[d][n]
  BY <1>1, <1>2, <1>3
<1>5. ASSUME NEW w \in Workers, Busy(w)
      PROVE  Request(w)' = Request(w)
  <2>1. /\ handler[w].conn \in Conns
        /\ taken[handler[w].conn] \in 1 .. Len(sent[handler[w].conn])
    BY <1>5, RequestKnown
  <2>2. taken[handler[w].conn] \in DOMAIN sent[handler[w].conn]
    BY <1>2, <2>1
  <2>. QED
    BY <1>2, <1>4, <2>1, <2>2 DEF Request
<1>6. \A w \in Workers : Busy(w)' <=> Busy(w)
  BY <1>2 DEF Busy
<1>7. \A d \in Conns : taken'[d] <= Len(sent'[d])
  BY <1>2, <1>4 DEF Control, TypeOK
<1>8. ASSUME NEW w \in Workers
      PROVE  /\ Busy(w)' <=> handler'[w].conn \in Conns
             /\ Busy(w)' => WorkerOf[handler'[w].conn] = w /\ taken'[handler'[w].conn] > 0
             /\ handler'[w].link # "none" <=> handler'[w].pc = "poll"
  BY <1>2, <1>6 DEF Control
<1>9. ASSUME NEW w \in Workers, handler'[w].pc \in {"connect", "poll"}
      PROVE  MoreItems(w)' /\ Model(w)' \in Models
  BY <1>2, <1>5, <1>9 DEF Control, Busy, MoreItems, Model
<1>10. Control'
  BY <1>7, <1>8, <1>9 DEF Control
<1>. QED
  BY <1>4, <1>10

LEMMA SendInvariant ==
  ASSUME IInv, Surroundings', NEW c \in Conns, Send(c)
  PROVE  IInv'
<1>1. TypeOK /\ Control /\ UNCHANGED <<taken, replies, handler>>
  BY DEF Send, IInv
<1>2. /\ sent' \in [Conns -> Seq(Requests)] /\ Control'
      /\ \A d \in Conns : /\ Len(sent'[d]) = Len(sent[d]) + (IF d = c THEN 1 ELSE 0)
                          /\ \A n \in DOMAIN sent[d] : sent'[d][n] = sent[d][n]
  BY <1>1, SendKeeps
<1>3. TypeOK'
  BY <1>1, <1>2 DEF TypeOK, Surroundings
<1>4. ASSUME NEW d \in Conns, CleanClient(d)'
      PROVE  CleanClient(d)
  <2>1. DOMAIN sent[d] \subseteq DOMAIN sent'[d]
    BY <1>1, <1>2 DEF TypeOK
  <2>2. ASSUME NEW n \in DOMAIN sent[d]
        PROVE  Clean(sent[d][n])
    <3>1. Clean(sent'[d][n])
      BY <1>4, <2>1 DEF CleanClient
    <3>2. sent'[d][n] = sent[d][n]
      BY <1>2
    <3>. QED
      BY <3>1, <3>2
  <2>. QED
    BY <2>2 DEF CleanClient
<1>5. \A d \in Conns : InService(d)' <=> InService(d)
  BY <1>1 DEF InService, Serves, Busy
<1>6. OneReplyEach'
  BY <1>1, <1>4, <1>5 DEF IInv, OneReplyEach
<1>. QED
  BY <1>2, <1>3, <1>6 DEF IInv

\* A worker begins to handle a request: no other one is in service on its
\* connection.
LEMMA TakeKeeps ==
  ASSUME TypeOK, Control, NEW w \in Workers, NEW c \in Conns, Take(w, c)
  PROVE  /\ handler' \in [Workers -> Handlers]
         /\ taken' \in [Conns -> Nat]
         /\ taken'[c] = taken[c] + 1
         /\ taken'[c] <= Len(sent[c])
         /\ \A d \in Conns : d # c => taken'[d] = taken[d]
         /\ Control'
         /\ ~ InService(c)
         /\ \A d \in Conns : IF d = c THEN InService(d)' ELSE InService(d)' <=> InService(d)
<1>. DEFINE h == [Idle EXCEPT !.conn = c,
       !.pc = IF sent[c][taken[c] + 1].kind = "languages" THEN "languages" ELSE "fetch"]
<1>1. /\ ~ Busy(w) /\ WorkerOf[c] = w
      /\ taken[c] < Len(sent[c])
      /\ taken' = [taken EXCEPT ![c] = taken[c] + 1]
      /\ Become(w, h)
      /\ UNCHANGED <<sent, replies>>
  BY DEF Take, At, Busy
<1>2. /\ h \in Handlers /\ h.conn = c /\ h.link = "none"
      /\ h.pc \in {"languages", "fetch"}
  <2>1. Idle \in Handlers /\ Idle.link = "none"
    BY DEF Idle, Handlers
  <2>. QED
    BY <2>1 DEF Handlers
<1>. HIDE DEF h
<1>3. /\ taken \in [Conns -> Nat] /\ handler \in [Workers -> Handlers]
      /\ sent \in [Conns -> Seq(Requests)]
  BY DEF TypeOK
<1>4. /\ taken' \in [Conns -> Nat]
      /\ taken'[c] = taken[c] + 1
      /\ taken'[c] <= Len(sent[c])
      /\ \A d \in Conns : d # c => taken'[d] = taken[d]
  BY <1>1, <1>3
<1>5. /\ handler' \in [Workers -> Handlers]
      /\ handler'[w] = h
      /\ \A v \in Workers : v # w => handler'[v] = handler[v]
  BY <1>1, <1>2, <1>3 DEF Become
<1>6. \A v \in Workers : Busy(v) => v # w /\ handler[v].conn \in Conns /\ handler[v].conn # c
  BY <1>1 DEF Control
<1>7. ASSUME NEW v \in Workers, v # w
      PROVE  (Busy(v)' <=> Busy(v)) /\ handler'[v] = handler[v]
  BY <1>5, <1>7 DEF Busy
<1>8. ASSUME NEW v \in Workers, Busy(v)
      PROVE  Request(v)' = Request(v)
  BY <1>1, <1>4, <1>5, <1>6, <1>8 DEF Request
<1>9. Busy(w)'
  BY <1>2, <1>5 DEF Busy
<1>10. Control'
  <2>1. \A d \in Conns : taken'[d] <= Len(sent'[d])
    BY <1>1, <1>4 DEF Control
  <2>2. ASSUME NEW v \in Workers, v # w
        PROVE  /\ Busy(v)' <=> handler'[v].conn \in Conns
               /\ Busy(v)' => WorkerOf[handler'[v].conn] = v /\ taken'[handler'[v].conn] > 0
               /\ handler'[v].link # "none" <=> handler'[v].pc = "poll"
    BY <1>4, <1>6, <1>7, <2>2 DEF Control
  <2>3. ASSUME NEW v \in Workers, v # w, handler'[v].pc \in {"connect", "poll"}
        PROVE  MoreItems(v)' /\ Model(v)' \in Models
    <3>1. Busy(v)
      BY <1>7, <2>3 DEF Busy
    <3>. QED
      BY <1>7, <1>8, <2>3, <3>1 DEF Control, MoreItems, Model
  <2>4. /\ Busy(w)' <=> handler'[w].conn \in Conns
        /\ WorkerOf[handler'[w].conn] = w /\ taken'[handler'[w].conn] > 0
        /\ handler'[w].pc \notin {"connect", "poll"} /\ handler'[w].link = "none"
    BY <1>1, <1>2, <1>3, <1>4, <1>5, <1>9
  <2>. QED
    BY <2>1, <2>2, <2>3, <2>4 DEF Control
<1>11. ~ InService(c)
  BY <1>6 DEF InService, Serves
<1>12. ASSUME NEW d \in Conns
       PROVE  IF d = c THEN InService(d)' ELSE InService(d)' <=> InService(d)
  <2>1. Serves(w, d)' <=> d = c
    BY <1>2, <1>5, <1>9 DEF Serves
  <2>2. ~ Serves(w, d)
    BY <1>1 DEF Serves
  <2>3. \A v \in Workers : v # w => (Serves(v, d)' <=> Serves(v, d))
    BY <1>7 DEF Serves
  <2>. QED
    BY <2>1, <2>2, <2>3 DEF InService
<1>. QED
  BY <1>4, <1>5, <1>10, <1>11, <1>12

LEMMA TakeInvariant ==
  ASSUME IInv, Surroundings', NEW w \in Workers, NEW c \in Conns, Take(w, c)
  PROVE  IInv'
<1>1. TypeOK /\ Control /\ UNCHANGED <<sent, replies>>
  BY DEF Take, IInv
<1>2. /\ handler' \in [Workers -> Handlers]
      /\ taken' \in [Conns -> Nat]
      /\ taken'[c] = taken[c] + 1
      /\ \A d \in Conns : d # c => taken'[d] = taken[d]
      /\ Control'
      /\ ~ InService(c)
      /\ \A d \in Conns : IF d = c THEN InService(d)' ELSE InService(d)' <=> InService(d)
  BY <1>1, TakeKeeps
<1>3. TypeOK'
  BY <1>1, <1>2 DEF TypeOK, Surroundings
<1>4. ASSUME NEW d \in Conns, CleanClient(d)'
      PROVE  /\ \A n \in DOMAIN replies'[d] : replies'[d][n].request = n
             /\ Len(replies'[d]) = taken'[d] - (IF InService(d)' THEN 1 ELSE 0)
  <2>1. CleanClient(d)
    BY <1>1, <1>4 DEF CleanClient
  <2>2. /\ \A n \in DOMAIN replies[d] : replies[d][n].request = n
        /\ Len(replies[d]) = taken[d] - (IF InService(d) THEN 1 ELSE 0)
    BY <2>1 DEF IInv, OneReplyEach
  <2>3. taken[d] \in Nat
    BY <1>1 DEF TypeOK
  <2>. QED
    BY <1>1, <1>2, <2>2, <2>3
<1>5. OneReplyEach'
  BY <1>4 DEF OneReplyEach
<1>. QED
  BY <1>2, <1>3, <1>5 DEF IInv

LEMMA InitInvariant == Init => IInv
<1>. SUFFICES ASSUME Init PROVE IInv
  OBVIOUS
<1>1. Idle \in Handlers /\ Idle.pc = "idle" /\ Idle.conn = NoConn /\ Idle.link = "none"
  BY DEF Idle, Handlers
<1>2. TypeOK
  BY <1>1 DEF Init, TypeOK
<1>3. \A w \in Workers : ~ Busy(w)
  BY <1>1 DEF Init, Busy
<1>4. Control
  BY <1>1, <1>3, NamesAssumption DEF Init, Control
<1>5. OneReplyEach
  BY <1>3 DEF Init, OneReplyEach, InService, Serves
<1>. QED
  BY <1>2, <1>4, <1>5 DEF IInv

LEMMA NextInvariant == IInv /\ [Next]_vars => IInv'
<1>. SUFFICES ASSUME IInv, [Next]_vars PROVE IInv'
  OBVIOUS
<1>1. TypeOK /\ Control
  BY DEF IInv
<1>. QED
  BY <1>1, Classification, AroundInvariant, SendInvariant, TakeInvariant, QuietInvariant,
     RefusesInvariant, CompletesInvariant

LEMMA Invariant == Spec => []IInv
BY InitInvariant, NextInvariant, PTL DEF Spec

\* Every variable keeps its type, however many workers and connections there are:
\* every handler's state is one the code can be in.
THEOREM TypeCorrect == Spec => []TypeOK
<1>1. IInv => TypeOK
  BY DEF IInv
<1>. QED
  BY <1>1, Invariant, PTL

\* A client that sends clean requests has exactly one reply to each request
\* handled, in their order, however many workers, connections and backends there
\* are and whatever the backends and the other clients do.
THEOREM OneReplyEachHolds == Spec => []OneReplyEach
<1>1. IInv => OneReplyEach
  BY DEF IInv
<1>. QED
  BY <1>1, Invariant, PTL

-----------------------------------------------------------------------------
(* The refinement: the abstract variables, and what each sort of step does   *)
(* to them.                                                                  *)
Sent    == [c \in Conns |-> Len(sent[c])]
Serving == {c \in Conns : InService(c)}
Answers == [c \in Conns |-> [n \in DOMAIN replies[c] |->
             [request |-> replies[c][n].request, code |-> replies[c][n].code]]]

LEMMA Mapping ==
  /\ Service!vars = <<Sent, taken, Serving, Answers>>
  /\ Service!Init <=> /\ Sent = [c \in Conns |-> 0] /\ taken = [c \in Conns |-> 0]
                      /\ Serving = {}
                      /\ Answers = [c \in Conns |-> <<>>]
BY DEF Service!vars, Service!Init, Sent, Serving, Answers

LEMMA InitImplements == Init => Service!Init
<1>. SUFFICES ASSUME Init PROVE Service!Init
  OBVIOUS
<1>1. IInv
  BY InitInvariant
<1>2. \A c \in Conns : ~ InService(c)
  BY DEF Init, Idle, InService, Serves, Busy
<1>3. Sent = [c \in Conns |-> 0]
  BY DEF Init, Sent
<1>4. taken = [c \in Conns |-> 0]
  BY DEF Init
<1>5. Serving = {}
  BY <1>2 DEF Serving
<1>6. Answers = [c \in Conns |-> <<>>]
  BY DEF Init, Answers
<1>. QED
  BY <1>3, <1>4, <1>5, <1>6, Mapping

\* Steps that leave requests, replies and services alone are stutters.
LEMMA StutterImplements ==
  ASSUME UNCHANGED <<sent, taken, replies>>,
         \A c \in Conns : InService(c)' <=> InService(c)
  PROVE  UNCHANGED Service!vars
<1>1. Serving' = Serving
  BY DEF Serving
<1>2. Sent' = Sent /\ Answers' = Answers
  BY DEF Sent, Answers
<1>. QED
  BY <1>1, <1>2 DEF Service!vars, Sent, Serving, Answers

LEMMA SendImplements ==
  ASSUME IInv, NEW c \in Conns, Send(c)
  PROVE  Service!Send(c)
<1>1. TypeOK /\ Control /\ UNCHANGED <<taken, replies, handler>>
  BY DEF IInv, Send
<1>2. \A d \in Conns : Len(sent'[d]) = Len(sent[d]) + (IF d = c THEN 1 ELSE 0)
  BY <1>1, SendKeeps
<1>3. \A d \in Conns : Len(sent[d]) \in Nat
  BY <1>1 DEF TypeOK
<1>4. Sent' = [Sent EXCEPT ![c] = Sent[c] + 1]
  <2>1. Sent' = [d \in Conns |-> Len(sent'[d])]
    BY DEF Sent
  <2>2. \A d \in Conns : Sent[d] = Len(sent[d])
    BY DEF Sent
  <2>3. Sent = [d \in Conns |-> Sent[d]]
    BY DEF Sent
  <2>4. \A d \in Conns : Len(sent'[d]) = IF d = c THEN Sent[c] + 1 ELSE Sent[d]
    <3>1. Len(sent'[c]) = Sent[c] + 1
      BY <1>2, <2>2
    <3>2. \A d \in Conns : d # c => Len(sent'[d]) = Sent[d]
      <4>. SUFFICES ASSUME NEW d \in Conns, d # c PROVE Len(sent'[d]) = Sent[d]
        OBVIOUS
      <4>1. Len(sent'[d]) = Len(sent[d]) + 0 /\ Len(sent[d]) \in Nat
        BY <1>2, <1>3
      <4>. QED
        BY <2>2, <4>1
    <3>. QED
      BY <3>1, <3>2
  <2>5. [Sent EXCEPT ![c] = Sent[c] + 1] =
          [d \in Conns |-> IF d = c THEN Sent[c] + 1 ELSE Sent[d]]
    BY <2>3
  <2>. QED
    BY <2>1, <2>4, <2>5
<1>5. UNCHANGED <<taken, Serving, Answers>>
  BY <1>1 DEF Serving, InService, Serves, Busy, Answers
<1>. QED
  BY <1>4, <1>5 DEF Service!Send, Sent, Serving, Answers

LEMMA TakeImplements ==
  ASSUME IInv, NEW w \in Workers, NEW c \in Conns, Take(w, c)
  PROVE  Service!Take(c)
<1>1. TypeOK /\ Control /\ UNCHANGED <<sent, replies>>
  BY DEF IInv, Take
<1>2. taken[c] < Len(sent[c]) /\ taken' = [taken EXCEPT ![c] = taken[c] + 1]
  BY DEF Take
<1>3. /\ ~ InService(c)
      /\ \A d \in Conns : IF d = c THEN InService(d)' ELSE InService(d)' <=> InService(d)
  BY <1>1, TakeKeeps
<1>4. c \notin Serving /\ taken[c] < Sent[c]
  BY <1>2, <1>3 DEF Serving, Sent
<1>5. Serving' = Serving \cup {c}
  BY <1>3 DEF Serving
<1>6. UNCHANGED <<Sent, Answers>>
  BY <1>1 DEF Sent, Answers
<1>. QED
  BY <1>2, <1>4, <1>5, <1>6 DEF Service!Take, Sent, Serving, Answers

\* A reply appended is a reply appended.
LEMMA ReplyImplements ==
  ASSUME TypeOK, Control, NEW w \in Workers, Busy(w),
         NEW code \in Codes, NEW body \in Seq(Reports), Reply(w, code, body),
         NEW c \in Conns, c = handler[w].conn
  PROVE  Answers' = [Answers EXCEPT ![c] =
                       Append(Answers[c], [request |-> taken[c], code |-> code])]
<1>. DEFINE L == Len(replies[c])
            r == [request |-> taken[c], code |-> code]
<1>1. /\ replies' \in [Conns -> Seq(Replies)]
      /\ Len(replies'[c]) = L + 1
      /\ replies'[c][L + 1].request = taken[c]
      /\ replies'[c][L + 1].code = code
      /\ \A n \in DOMAIN replies[c] : replies'[c][n] = replies[c][n]
      /\ \A d \in Conns : d # c => replies'[d] = replies[d]
  BY ReplyAppends
<1>2. /\ L \in Nat /\ DOMAIN replies[c] = 1 .. L /\ DOMAIN replies'[c] = 1 .. L + 1
  BY <1>1 DEF TypeOK
<1>3. /\ Answers[c] = [n \in 1 .. L |->
                        [request |-> replies[c][n].request, code |-> replies[c][n].code]]
      /\ Answers'[c] = [n \in 1 .. L + 1 |->
                         [request |-> replies'[c][n].request, code |-> replies'[c][n].code]]
      /\ \A d \in Conns : d # c => Answers'[d] = Answers[d]
  BY <1>1, <1>2 DEF Answers
<1>4. Answers'[c] = Append(Answers[c], r)
  <2>. DEFINE Short(x) == [request |-> x.request, code |-> x.code]
              old == [n \in 1 .. L |-> Short(replies[c][n])]
              new == [n \in 1 .. L + 1 |-> Short(replies'[c][n])]
  <2>1. Short(replies'[c][L + 1]) = r
    BY <1>1
  <2>2. \A n \in 1 .. L : Short(replies'[c][n]) = Short(replies[c][n])
    BY <1>1, <1>2
  <2>3. Answers[c] = old /\ Answers'[c] = new
    BY <1>3
  <2>. HIDE DEF Short, r, L
  <2>4. new = Append(old, r)
    BY <1>2, <2>1, <2>2
  <2>. QED
    BY <2>3, <2>4
<1>. QED
  BY <1>3, <1>4 DEF Answers

LEMMA RefusesImplements ==
  ASSUME IInv, NEW w \in Workers, Refuses(w)
  PROVE  \E c \in Conns : Service!Refuse(c)
<1>1. /\ TypeOK /\ Control /\ Busy(w) /\ Advances(w) /\ Reply(w, 400, <<>>)
      /\ UNCHANGED <<sent, taken>>
  BY DEF IInv, Refuses, Advances
<1>2. PICK c \in Conns : c = handler[w].conn
  BY <1>1, RequestKnown
<1>3. Answers' = [Answers EXCEPT ![c] =
                    Append(Answers[c], [request |-> taken[c], code |-> 400])]
  <2>1. 400 \in Codes
    BY DEF Codes
  <2>2. PICK body \in Seq(Reports) : Reply(w, 400, body)
    BY <1>1, <2>1, EmptyReply
  <2>. QED
    BY <1>1, <1>2, <2>1, <2>2, ReplyImplements
<1>4. InService(c) /\ \A d \in Conns : InService(d)' <=> InService(d)
  BY <1>1, <1>2, AdvanceKeeps, ServedByItsWorker
<1>5. c \in Serving /\ UNCHANGED <<Sent, Serving>>
  BY <1>1, <1>4 DEF Serving, Sent
<1>6. Service!Refuse(c)
  BY <1>1, <1>3, <1>5 DEF Service!Refuse, Service!Replied, Sent, Serving, Answers
<1>. QED
  BY <1>6

LEMMA CompletesImplements ==
  ASSUME IInv, NEW w \in Workers, Completes(w)
  PROVE  \E c \in Conns : Service!Finish(c)
<1>1. TypeOK /\ Control /\ Busy(w) /\ UNCHANGED <<sent, taken>>
  BY DEF IInv, Completes
<1>2. PICK c \in Conns : c = handler[w].conn
  BY <1>1, RequestKnown
<1>3. PICK code \in Codes, body \in Seq(Reports) : Reply(w, code, body)
  BY DEF Completes
<1>4. Answers' = [Answers EXCEPT ![c] =
                    Append(Answers[c], [request |-> taken[c], code |-> code])]
  BY <1>1, <1>2, <1>3, ReplyImplements
<1>5. /\ InService(c)
      /\ \A d \in Conns : IF d = c THEN ~ InService(d)' ELSE InService(d)' <=> InService(d)
  BY <1>1, <1>2, CompletesKeeps, ServedByItsWorker
<1>6. c \in Serving /\ Serving' = Serving \ {c} /\ UNCHANGED Sent
  BY <1>1, <1>5 DEF Serving, Sent
<1>7. Service!Replied(c, code)
  BY <1>4 DEF Service!Replied, Answers
<1>8. Service!Finish(c)
  BY <1>1, <1>6, <1>7 DEF Service!Finish, Codes, Sent, Serving
<1>. QED
  BY <1>8

LEMMA StepImplements == IInv /\ [Next]_vars => [Service!Next]_(Service!vars)
<1>. SUFFICES ASSUME IInv, [Next]_vars PROVE [Service!Next]_(Service!vars)
  OBVIOUS
<1>1. TypeOK /\ Control
  BY DEF IInv
<1>2. CASE Around
  <2>1. \A c \in Conns : InService(c)' <=> InService(c)
    BY <1>1, <1>2, AroundKeeps
  <2>2. UNCHANGED Service!vars
    BY <1>2, <2>1, StutterImplements DEF Around
  <2>. QED
    BY <2>2
<1>3. ASSUME NEW w \in Workers, Quiet(w)
      PROVE  [Service!Next]_(Service!vars)
  <2>1. \A c \in Conns : InService(c)' <=> InService(c)
    BY <1>1, <1>3, AdvanceKeeps DEF Quiet
  <2>2. UNCHANGED Service!vars
    BY <1>3, <2>1, StutterImplements DEF Quiet
  <2>. QED
    BY <2>2
<1>. QED
  BY <1>1, <1>2, <1>3, Classification, SendImplements, TakeImplements, RefusesImplements,
     CompletesImplements DEF Service!Next

\* The server, with any number of workers, connections and backends, which may
\* fail, does what TranslationService promises.
THEOREM Implements == Spec => ImplementsService
BY Invariant, InitImplements, StepImplements, PTL DEF Spec, Service!Spec, ImplementsService

-----------------------------------------------------------------------------
(* What the replies say.  First, of a handler's state alone: it stays right  *)
(* about its request through each change a step can make to it.              *)
LEMMA RequestItems ==
  ASSUME NEW r \in Requests
  PROVE  /\ r.items \in Seq(Items) /\ Len(r.items) \in Nat
         /\ DOMAIN r.items = 1 .. Len(r.items)
         /\ \A i \in 1 .. Len(r.items) : r.items[i].sentences \in Nat
<1>1. r.items \in Seq(Items)
  BY RequestsAssumption DEF RequestType
<1>2. \A i \in 1 .. Len(r.items) : r.items[i] \in Items
  BY <1>1
<1>. QED
  BY <1>1, <1>2 DEF Items

LEMMA ToldStep ==
  ASSUME NEW r \in Requests, NEW k \in Nat
  PROVE  /\ Told(r, 0) = IF r.params \in Lacking THEN 1 ELSE 0
         /\ Told(r, k) \in Nat
         /\ Told(r, k + 1) =
              Told(r, k) + (IF r.items[k + 1].text = "missing" THEN 1 ELSE 0)
<1>. DEFINE M(j) == {i \in 1 .. j : r.items[i].text = "missing"}
<1>1. ASSUME NEW j \in Nat PROVE IsFiniteSet(M(j)) /\ Cardinality(M(j)) \in Nat
  <2>1. IsFiniteSet(1 .. j)
    BY FS_Interval
  <2>2. M(j) \in SUBSET (1 .. j)
    OBVIOUS
  <2>3. IsFiniteSet(M(j))
    BY <2>1, <2>2, FS_Subset
  <2>. QED
    BY <2>3, FS_CardinalityType
<1>2. M(0) = {}
  OBVIOUS
<1>3. Cardinality(M(0)) = 0
  BY <1>2, FS_EmptySet
<1>. DEFINE first == IF r.params \in Lacking THEN 1 ELSE 0
<1>4. /\ Told(r, 0) = first + Cardinality(M(0))
      /\ Told(r, k) = first + Cardinality(M(k))
      /\ Told(r, k + 1) = first + Cardinality(M(k + 1))
  BY DEF Told
<1>5. CASE r.items[k + 1].text = "missing"
  <2>1. M(k + 1) = M(k) \cup {k + 1} /\ k + 1 \notin M(k)
    BY <1>5
  <2>2. IsFiniteSet(M(k)) /\ Cardinality(M(k)) \in Nat
    BY <1>1
  <2>. HIDE DEF M
  <2>3. Cardinality(M(k + 1)) = Cardinality(M(k)) + 1
    BY <2>1, <2>2, FS_AddElement
  <2>. QED
    BY <1>3, <1>4, <1>5, <2>2, <2>3
<1>6. CASE r.items[k + 1].text # "missing"
  <2>1. M(k + 1) = M(k)
    BY <1>6
  <2>2. Cardinality(M(k)) \in Nat
    BY <1>1
  <2>. HIDE DEF M
  <2>. QED
    BY <1>3, <1>4, <1>6, <2>1, <2>2
<1>. QED
  BY <1>5, <1>6

\* A state g in which the work of state h is as far as it was.
SameWork(g, h) == /\ g.item = h.item /\ g.sentence = h.sentence
                  /\ g.answered = h.answered /\ g.body = h.body

\* The parameters are fetched, with a reply if they are incomplete.
LEMMA FetchedInHand ==
  ASSUME NEW h \in Handlers, NEW r \in Requests, NEW t \in Nat, InHand(h, r, t),
         h.pc = "fetch", NEW g, g.pc = "data", SameWork(g, h),
         NEW n \in Nat, n = IF r.params \in Lacking THEN 1 ELSE 0
  PROVE  InHand(g, r, t + n)
<1>1. Told(r, 0) = n
  BY ToldStep
<1>2. h.item = 1 /\ t = 0 /\ h.item - 1 = 0
  BY DEF InHand
<1>. QED
  BY <1>1, <1>2 DEF InHand, SameWork

LEMMA DataInHand ==
  ASSUME NEW h \in Handlers, NEW r \in Requests, NEW t \in Nat, InHand(h, r, t),
         h.pc = "data", NEW g, g.pc = "item", SameWork(g, h)
  PROVE  InHand(g, r, t)
BY DEF InHand, SameWork

\* A text is about to be translated.
LEMMA AskedInHand ==
  ASSUME NEW h \in Handlers, NEW r \in Requests, NEW t \in Nat, InHand(h, r, t),
         h.pc = "item", h.item <= Len(r.items),
         Translatable(r, h.item), r.items[h.item].sentences # 0,
         NEW g, g.pc = "connect", SameWork(g, h), g.link = "none"
  PROVE  InHand(g, r, t)
<1>1. h.item \in 1 .. Len(r.items)
  BY RequestItems DEF Handlers
<1>2. r.items[h.item].sentences \in Nat
  BY <1>1, RequestItems
<1>3. /\ g.item = h.item /\ g.sentence = 1 /\ g.answered = {}
      /\ g.sentence \in 1 .. r.items[h.item].sentences
      /\ 1 .. g.sentence - 1 = {}
  BY <1>2 DEF InHand, SameWork
<1>4. InItem(g, r)
  BY <1>3 DEF InItem
<1>. QED
  BY <1>4 DEF InHand, SameWork

\* A WebSocket is opened, answered or closed.
LEMMA LinkInHand ==
  ASSUME NEW h \in Handlers, NEW r \in Requests, NEW t \in Nat, InHand(h, r, t),
         NEW g, SameWork(g, h), g.pc = h.pc \/ (g.pc = "poll" /\ h.pc = "connect"),
         g.link = "closed" => r.model \in Faulty \/ h.link = "closed"
  PROVE  InHand(g, r, t)
<1>1. CASE h.pc \in {"connect", "poll"}
  <2>1. InItem(h, r)
    BY <1>1 DEF InHand
  <2>2. InItem(g, r)
    BY <2>1 DEF InItem, SameWork
  <2>3. g.pc \in {"connect", "poll"}
    BY <1>1
  <2>. QED
    BY <1>1, <2>2, <2>3 DEF InHand, SameWork
<1>2. CASE h.pc \notin {"connect", "poll"}
  BY <1>2 DEF InHand, SameWork
<1>. QED
  BY <1>1, <1>2

\* The sentences of a faultless backend's item that are answered when the poll
\* loop ends: all up to the one it was at.
AnsweredIn(h) == h.answered \cup (IF h.link = "answered" THEN {h.sentence} ELSE {})

LEMMA PolledAnswers ==
  ASSUME NEW h \in Handlers, NEW r \in Requests, InItem(h, r),
         h.link \in {"answered", "closed"}
  PROVE  /\ AnsweredIn(h) \subseteq 1 .. h.sentence
         /\ r.model \notin Faulty => AnsweredIn(h) = 1 .. h.sentence
<1>1. h.sentence \in Nat \ {0} /\ h.answered \subseteq 1 .. h.sentence - 1
  BY DEF InItem, Handlers
<1>2. 1 .. h.sentence = (1 .. h.sentence - 1) \cup {h.sentence}
  BY <1>1
<1>3. AnsweredIn(h) \subseteq 1 .. h.sentence
  BY <1>1, <1>2 DEF AnsweredIn
<1>4. ASSUME r.model \notin Faulty PROVE AnsweredIn(h) = 1 .. h.sentence
  <2>1. h.link = "answered" /\ h.answered = 1 .. h.sentence - 1
    BY <1>4 DEF InItem
  <2>. QED
    BY <1>2, <2>1 DEF AnsweredIn
<1>. QED
  BY <1>3, <1>4

\* On to the next sentence.
LEMMA NextInHand ==
  ASSUME NEW h \in Handlers, NEW r \in Requests, NEW t \in Nat, InHand(h, r, t),
         h.pc = "poll", h.link \in {"answered", "closed"},
         h.sentence # r.items[h.item].sentences,
         NEW g, g.pc = "connect", g.link = "none", g.item = h.item, g.body = h.body,
         g.sentence = h.sentence + 1, g.answered = AnsweredIn(h)
  PROVE  InHand(g, r, t)
<1>1. InItem(h, r)
  BY DEF InHand
<1>2. h.item \in 1 .. Len(r.items)
  BY <1>1, RequestItems DEF Handlers, InItem
<1>3. r.items[h.item].sentences \in Nat /\ h.sentence \in 1 .. r.items[h.item].sentences
  BY <1>1, <1>2, RequestItems DEF InItem
<1>4. g.sentence \in 1 .. r.items[h.item].sentences /\ g.sentence - 1 = h.sentence
  BY <1>3
<1>5. InItem(g, r)
  BY <1>1, <1>4, PolledAnswers DEF InItem
<1>. QED
  BY <1>5 DEF InHand

\* What is said of an item.
LEMMA UntranslatedFaithful ==
  ASSUME NEW r \in Requests, NEW i, ~ Translatable(r, i) \/ r.model \in Faulty
  PROVE  Faithful(r, i, Untranslated)
BY DEF Faithful, Untranslated

LEMMA NothingFaithful ==
  ASSUME NEW r \in Requests, NEW i, Translatable(r, i), r.items[i].sentences = 0
  PROVE  Faithful(r, i, Translated({}, 0))
BY DEF Faithful, Translated

LEMMA TranslatedFaithful ==
  ASSUME NEW h \in Handlers, NEW r \in Requests, InItem(h, r),
         h.link \in {"answered", "closed"}, h.sentence = r.items[h.item].sentences
  PROVE  Faithful(r, h.item, Translated(AnsweredIn(h), h.sentence))
BY PolledAnswers DEF Faithful, Translated, InItem

\* An item is done, with a reply if it has no text.
LEMMA DoneInHand ==
  ASSUME NEW h \in Handlers, NEW r \in Requests, NEW t \in Nat, InHand(h, r, t),
         h.pc \in {"item", "connect", "poll"}, h.item <= Len(r.items),
         NEW entry \in Reports, Faithful(r, h.item, entry),
         NEW n \in Nat, n = IF r.items[h.item].text = "missing" THEN 1 ELSE 0,
         NEW g, ItemDoneState(g, h, entry)
  PROVE  InHand(g, r, t + n)
<1>1. /\ h.item \in Nat \ {0} /\ h.body \in Seq(Reports) /\ Len(r.items) \in Nat
      /\ Len(h.body) = h.item - 1
      /\ \A i \in DOMAIN h.body : Faithful(r, i, h.body[i])
      /\ t = Told(r, h.item - 1) /\ r.kind # "languages"
  BY RequestItems DEF Handlers, InHand
<1>2. t + n = Told(r, h.item)
  <2>. DEFINE k == h.item - 1
  <2>1. k \in Nat /\ k + 1 = h.item
    BY <1>1
  <2>. HIDE DEF k
  <2>2. Told(r, k + 1) = Told(r, k) + n
    BY <2>1, ToldStep
  <2>. QED
    BY <1>1, <2>1, <2>2 DEF k
<1>3. /\ Len(g.body) = h.item
      /\ \A i \in DOMAIN g.body : Faithful(r, i, g.body[i])
  <2>1. g.body = Append(h.body, entry)
    BY DEF ItemDoneState
  <2>2. /\ DOMAIN g.body = 1 .. h.item /\ Len(g.body) = h.item
        /\ g.body[h.item] = entry
        /\ \A i \in 1 .. h.item - 1 : g.body[i] = h.body[i]
        /\ DOMAIN h.body = 1 .. h.item - 1
    BY <1>1, <2>1
  <2>3. \A i \in 1 .. h.item : i = h.item \/ i \in 1 .. h.item - 1
    BY <1>1
  <2>. QED
    BY <1>1, <2>2, <2>3
<1>4. g.item - 1 = h.item
  BY <1>1 DEF ItemDoneState
<1>. QED
  BY <1>1, <1>2, <1>3, <1>4 DEF InHand, ItemDoneState

-----------------------------------------------------------------------------
(* Then, of the steps, sorted by what they do to what is said: a handler     *)
(* works on, complains, or concludes; or only links change.                  *)
Proper(code, body, r, told) ==
  code = 200 /\ r.kind # "languages" =>
    /\ told = Rejections(r)
    /\ Len(body) = Len(r.items)
    /\ \A i \in DOMAIN body : Faithful(r, i, body[i])

Continues(w, n) == /\ Busy(w)
                   /\ \E g \in Handlers :
                        /\ g.pc # "idle" /\ g.conn = handler[w].conn
                        /\ InHand(g, Request(w), ToldBy(w) + n)
                        /\ Become(w, g)

Works(w)     == Continues(w, 0) /\ UNCHANGED <<sent, taken, replies>>
Complains(w) == Continues(w, 1) /\ Reply(w, 400, <<>>) /\ UNCHANGED <<sent, taken>>
Concludes(w) == /\ Busy(w)
                /\ \E code \in Codes, body \in Seq(Reports) :
                     Reply(w, code, body) /\ Proper(code, body, Request(w), ToldBy(w))
                /\ End(w)
                /\ UNCHANGED <<sent, taken>>

OnlyLinks ==
  /\ UNCHANGED <<sent, taken, replies>>
  /\ \A w \in Workers :
       /\ handler'[w].pc = handler[w].pc /\ handler'[w].conn = handler[w].conn
       /\ SameWork(handler'[w], handler[w])
       /\ handler'[w].link = "closed" => Model(w) \in Faulty \/ handler[w].link = "closed"

LEMMA RepliesToFinite ==
  ASSUME TypeOK, NEW c \in Conns, NEW q
  PROVE  IsFiniteSet(RepliesTo(c, q)) /\ Cardinality(RepliesTo(c, q)) \in Nat
<1>1. PICK n \in Nat : n = Len(replies[c])
  BY DEF TypeOK
<1>2. IsFiniteSet(1 .. n)
  BY FS_Interval
<1>3. RepliesTo(c, q) \in SUBSET (1 .. n)
  BY <1>1 DEF RepliesTo, TypeOK
<1>4. IsFiniteSet(RepliesTo(c, q))
  BY <1>2, <1>3, FS_Subset
<1>. QED
  BY <1>4, FS_CardinalityType

\* All that a step of w's handler starts from.
LEMMA InHandNow ==
  ASSUME TypeOK, Control, AllInHand, NEW w \in Workers, Busy(w)
  PROVE  /\ handler[w] \in Handlers
         /\ handler[w].conn \in Conns
         /\ Request(w) \in Requests
         /\ Len(Request(w).items) \in Nat
         /\ Request(w).model \in Models \cup {NoModel}
         /\ ToldBy(w) \in Nat
         /\ InHand(handler[w], Request(w), ToldBy(w))
         /\ handler[w].link # "none" <=> handler[w].pc = "poll"
<1>1. handler[w].conn \in Conns
  BY RequestKnown
<1>2. ToldBy(w) \in Nat
  BY <1>1, RepliesToFinite DEF ToldBy
<1>. QED
  BY <1>2, RequestKnown DEF AllInHand, Control

LEMMA GotoBecomes ==
  ASSUME TypeOK, NEW w \in Workers, NEW pc \in {"data", "item", "connect"}, Goto(w, pc)
  PROVE  \E g \in Handlers : /\ g.pc = pc /\ g.link = handler[w].link
                             /\ g.conn = handler[w].conn
                             /\ SameWork(g, handler[w])
                             /\ Become(w, g)
<1>. DEFINE g == [handler[w] EXCEPT !.pc = pc]
<1>1. handler[w] \in Handlers
  BY DEF TypeOK
<1>2. /\ g \in Handlers /\ g.pc = pc /\ g.link = handler[w].link
      /\ g.conn = handler[w].conn
      /\ SameWork(g, handler[w])
  BY <1>1 DEF Handlers, SameWork
<1>3. Become(w, g)
  BY DEF Goto
<1>. HIDE DEF g
<1>. QED
  BY <1>2, <1>3

LEMMA FetchSays ==
  ASSUME TypeOK, Control, AllInHand, NEW w \in Workers, FetchParams(w)
  PROVE  OnlyLinks \/ Works(w) \/ Complains(w) \/ Concludes(w)
<1>1. Busy(w) /\ handler[w].pc = "fetch" /\ UNCHANGED <<sent, taken>>
  BY DEF FetchParams, At, Busy
<1>2. PICK r \in Requests, t \in Nat : r = Request(w) /\ t = ToldBy(w)
  BY <1>1, InHandNow
<1>3. handler[w] \in Handlers /\ InHand(handler[w], r, t)
  BY <1>1, <1>2, InHandNow
<1>4. ASSUME Goto(w, "data"), NEW n \in {0, 1}, n = IF r.params \in Lacking THEN 1 ELSE 0
      PROVE  Continues(w, n)
  <2>1. PICK g \in Handlers : /\ g.pc = "data" /\ g.conn = handler[w].conn
                              /\ SameWork(g, handler[w]) /\ Become(w, g)
    BY <1>4, GotoBecomes
  <2>2. InHand(g, r, t + n)
    BY <1>1, <1>3, <1>4, <2>1, FetchedInHand
  <2>. QED
    BY <1>1, <1>2, <2>1, <2>2 DEF Continues
<1>5. CASE FetchComplete(w)
  BY <1>1, <1>2, <1>4, <1>5 DEF FetchComplete, Works, Lacking
<1>6. CASE FetchIncomplete(w)
  BY <1>1, <1>2, <1>4, <1>6 DEF FetchIncomplete, Complains, Lacking
<1>7. ASSUME Reply(w, 500, <<>>), End(w) PROVE Concludes(w)
  <2>1. <<>> \in Seq(Reports) /\ 500 \in Codes /\ Proper(500, <<>>, Request(w), ToldBy(w))
    BY DEF Codes, Proper
  <2>. QED
    BY <1>1, <1>7, <2>1, ZenonT(60) DEF Concludes
<1>8. CASE FetchIllTyped(w)
  BY <1>7, <1>8 DEF FetchIllTyped
<1>10. ASSUME UndefinedTarget(w) PROVE OnlyLinks \/ Concludes(w)
  <2>1. ASSUME UNCHANGED <<handler, replies>> PROVE OnlyLinks
    BY <1>1, <2>1 DEF OnlyLinks, SameWork
  <2>. QED
    BY <1>7, <1>10, <2>1 DEF UndefinedTarget
<1>9. CASE FetchNoTarget(w)
  <2>1. ASSUME Goto(w, "data"), UNCHANGED replies PROVE Works(w)
    BY <1>1, <1>2, <1>4, <1>9, <2>1 DEF FetchNoTarget, Works, Lacking
  <2>. QED
    BY <1>9, <1>10, <2>1 DEF FetchNoTarget
<1>11. CASE FetchSourceOnly(w)
  <2>1. ASSUME Reply(w, 400, <<>>), Goto(w, "data") PROVE Complains(w)
    BY <1>1, <1>2, <1>4, <1>11, <2>1 DEF FetchSourceOnly, Complains, Lacking
  <2>. QED
    BY <1>10, <1>11, <2>1 DEF FetchSourceOnly
<1>. QED
  BY <1>5, <1>6, <1>8, <1>9, <1>11 DEF FetchParams

LEMMA DataSays ==
  ASSUME TypeOK, Control, AllInHand, NEW w \in Workers,
         Languages(w) \/ NoData(w) \/ Data(w)
  PROVE  Works(w) \/ Concludes(w)
<1>1. Busy(w) /\ UNCHANGED <<sent, taken>>
  BY DEF Languages, NoData, Data, At, Busy
<1>2. PICK r \in Requests, t \in Nat : r = Request(w) /\ t = ToldBy(w)
  BY <1>1, InHandNow
<1>3. handler[w] \in Handlers /\ InHand(handler[w], r, t)
  BY <1>1, <1>2, InHandNow
<1>4. ASSUME NEW code \in {200, 400}, Reply(w, code, <<>>), End(w),
             code = 200 => r.kind = "languages"
      PROVE  Concludes(w)
  <2>1. <<>> \in Seq(Reports) /\ code \in Codes /\ Proper(code, <<>>, Request(w), ToldBy(w))
    BY <1>2, <1>4 DEF Codes, Proper
  <2>. QED
    BY <1>1, <1>4, <2>1 DEF Concludes
<1>5. CASE Languages(w)
  <2>1. r.kind = "languages"
    BY <1>3, <1>5 DEF InHand, Languages, At
  <2>. QED
    BY <1>4, <1>5, <2>1 DEF Languages
<1>6. CASE NoData(w)
  BY <1>4, <1>6 DEF NoData
<1>7. CASE Data(w)
  <2>1. PICK g \in Handlers : /\ g.pc = "item" /\ g.conn = handler[w].conn
                              /\ SameWork(g, handler[w]) /\ Become(w, g)
    BY <1>7, GotoBecomes DEF Data
  <2>2. InHand(g, r, t + 0)
    BY <1>3, <1>7, <2>1, DataInHand DEF Data, At
  <2>3. Continues(w, 0)
    BY <1>1, <1>2, <2>1, <2>2 DEF Continues
  <2>. QED
    BY <1>7, <2>3 DEF Data, Works
<1>. QED
  BY <1>5, <1>6, <1>7

\* An item that is done without a reply.
LEMMA ItemDoneWorks ==
  ASSUME TypeOK, Control, AllInHand, NEW w \in Workers, Busy(w),
         handler[w].pc \in {"item", "connect", "poll"},
         handler[w].item <= Len(Request(w).items),
         NEW n \in {0, 1}, n = IF Item(w).text = "missing" THEN 1 ELSE 0,
         NEW entry \in Reports, Faithful(Request(w), handler[w].item, entry),
         ItemDone(w, entry)
  PROVE  Continues(w, n)
<1>1. PICK r \in Requests, t \in Nat : r = Request(w) /\ t = ToldBy(w)
  BY InHandNow
<1>2. handler[w] \in Handlers /\ InHand(handler[w], r, t)
  BY <1>1, InHandNow
<1>3. PICK g \in Handlers : ItemDoneState(g, handler[w], entry) /\ Become(w, g)
  BY ItemDoneBecomes
<1>4. InHand(g, r, t + n)
  BY <1>1, <1>2, <1>3, DoneInHand DEF Item
<1>. QED
  BY <1>1, <1>3, <1>4 DEF Continues, ItemDoneState

LEMMA ItemSays ==
  ASSUME TypeOK, Control, AllInHand, NEW w \in Workers,
         RejectItem(w) \/ IllTypedItem(w) \/ AskTranslation(w) \/ Finish(w)
  PROVE  Works(w) \/ Complains(w) \/ Concludes(w)
<1>1. Busy(w) /\ handler[w].pc = "item" /\ UNCHANGED <<sent, taken>>
  BY DEF RejectItem, IllTypedItem, AskTranslation, Finish, At, Busy
<1>2. PICK r \in Requests, t \in Nat : r = Request(w) /\ t = ToldBy(w)
  BY <1>1, InHandNow
<1>3. /\ handler[w] \in Handlers /\ InHand(handler[w], r, t) /\ handler[w].link = "none"
      /\ Len(r.items) \in Nat
  BY <1>1, <1>2, InHandNow
<1>4. Untranslated \in Reports /\ Translated({}, 0) \in Reports
  BY DEF Untranslated, Translated, Reports
<1>5. Item(w) = r.items[handler[w].item] /\ Model(w) = r.model
        /\ (MoreItems(w) <=> handler[w].item <= Len(r.items))
  BY <1>2 DEF Item, Model, MoreItems
<1>6. CASE RejectItem(w)
  <2>1. Faithful(r, handler[w].item, Untranslated)
    BY <1>5, <1>6, UntranslatedFaithful DEF RejectItem, Translatable
  <2>2. Continues(w, 1)
    BY <1>1, <1>2, <1>4, <1>5, <1>6, <2>1, ItemDoneWorks DEF RejectItem
  <2>. QED
    BY <1>6, <2>2 DEF RejectItem, Complains
<1>7. CASE IllTypedItem(w)
  <2>1. <<>> \in Seq(Reports) /\ 500 \in Codes /\ Proper(500, <<>>, Request(w), ToldBy(w))
    BY DEF Codes, Proper
  <2>. QED
    BY <1>1, <1>7, <2>1 DEF IllTypedItem, Concludes
<1>8. CASE AskTranslation(w)
  <2>0. Item(w).text = "string" /\ MoreItems(w) /\ UNCHANGED replies
    BY <1>8 DEF AskTranslation
  <2>1. CASE Model(w) = NoModel
    <3>1. Faithful(r, handler[w].item, Untranslated)
      BY <1>5, <2>1, UntranslatedFaithful DEF Translatable
    <3>2. Continues(w, 0)
      BY <1>1, <1>2, <1>4, <1>5, <1>8, <2>0, <2>1, <3>1, ItemDoneWorks DEF AskTranslation
    <3>. QED
      BY <1>1, <2>0, <3>2 DEF Works
  <2>2. CASE Model(w) # NoModel /\ Item(w).sentences = 0
    <3>1. Faithful(r, handler[w].item, Translated({}, 0))
      BY <1>5, <2>0, <2>2, NothingFaithful DEF Translatable
    <3>2. Continues(w, 0)
      BY <1>1, <1>2, <1>4, <1>5, <1>8, <2>0, <2>2, <3>1, ItemDoneWorks DEF AskTranslation
    <3>. QED
      BY <1>1, <2>0, <3>2 DEF Works
  <2>3. CASE Model(w) # NoModel /\ Item(w).sentences # 0
    <3>1. PICK g \in Handlers : /\ g.pc = "connect" /\ g.conn = handler[w].conn
                                /\ g.link = "none"
                                /\ SameWork(g, handler[w]) /\ Become(w, g)
      BY <1>3, <1>8, <2>3, GotoBecomes DEF AskTranslation
    <3>2. InHand(g, r, t + 0)
      BY <1>1, <1>3, <1>5, <2>0, <2>3, <3>1, AskedInHand DEF Translatable
    <3>3. Continues(w, 0)
      BY <1>1, <1>2, <3>1, <3>2 DEF Continues
    <3>. QED
      BY <1>1, <2>0, <3>3 DEF Works
  <2>. QED
    BY <2>1, <2>2, <2>3
<1>9. CASE Finish(w)
  <2>1. handler[w].item - 1 = Len(r.items)
    BY <1>1, <1>3, <1>5, <1>9 DEF Finish, InHand, Handlers
  <2>2. Proper(200, handler[w].body, r, t)
    BY <1>1, <1>3, <2>1 DEF Proper, InHand, Rejections
  <2>3. handler[w].body \in Seq(Reports) /\ 200 \in Codes
    BY <1>3 DEF Handlers, Codes
  <2>. QED
    BY <1>1, <1>2, <1>9, <2>2, <2>3 DEF Finish, Concludes
<1>. QED
  BY <1>6, <1>7, <1>8, <1>9

LEMMA CallSays ==
  ASSUME TypeOK, Control, AllInHand, NEW w \in Workers, Connect(w) \/ Poll(w) \/ Raise(w)
  PROVE  Works(w) \/ OnlyLinks
<1>1. /\ Busy(w) /\ handler[w].pc \in {"connect", "poll"}
      /\ UNCHANGED <<sent, taken, replies>>
  BY DEF Connect, Poll, Raise, At, Busy
<1>2. PICK r \in Requests, t \in Nat : r = Request(w) /\ t = ToldBy(w)
  BY <1>1, InHandNow
<1>3. handler[w] \in Handlers /\ InHand(handler[w], r, t) /\ InItem(handler[w], r)
  BY <1>1, <1>2, InHandNow DEF InHand
<1>4. /\ Item(w) = r.items[handler[w].item] /\ Model(w) = r.model
      /\ handler[w].item <= Len(Request(w).items)
      /\ Item(w).text # "missing"
  BY <1>2, <1>3 DEF Item, Model, InItem, Translatable
<1>5. CASE Connect(w)
  <2>1. CASE backend[Model(w)] = "up"
    <3>. DEFINE g == [handler[w] EXCEPT !.pc = "poll", !.link = "open"]
    <3>1. /\ g \in Handlers /\ g.pc = "poll" /\ g.link = "open"
          /\ g.conn = handler[w].conn /\ SameWork(g, handler[w])
      BY <1>3 DEF Handlers, SameWork
    <3>2. Become(w, g) /\ handler[w].pc = "connect"
      BY <1>5, <2>1 DEF Connect, At
    <3>. HIDE DEF g
    <3>3. InHand(g, r, t + 0)
      BY <1>3, <3>1, <3>2, LinkInHand
    <3>. QED
      BY <1>1, <1>2, <3>1, <3>2, <3>3 DEF Continues, Works
  <2>2. CASE backend[Model(w)] # "up"
    BY <1>1, <1>5, <2>2 DEF Connect, OnlyLinks, SameWork
  <2>. QED
    BY <2>1, <2>2
<1>6. CASE Poll(w)
  <2>0. /\ handler[w].pc = "poll" /\ handler[w].link \in {"answered", "closed"}
        /\ Answered(w) = AnsweredIn(handler[w])
    BY <1>6 DEF Poll, At, LoopEnds, Answered, AnsweredIn
  <2>1. CASE handler[w].sentence = Item(w).sentences
    <3>1. Faithful(r, handler[w].item, Translated(Answered(w), handler[w].sentence))
      BY <1>3, <1>4, <2>0, <2>1, TranslatedFaithful
    <3>2. Translated(Answered(w), handler[w].sentence) \in Reports
      BY <1>3, AnsweredType
    <3>3. ItemDone(w, Translated(Answered(w), handler[w].sentence))
      BY <1>6, <2>1 DEF Poll
    <3>4. Continues(w, 0)
      BY <1>1, <1>2, <1>4, <3>1, <3>2, <3>3, ItemDoneWorks
    <3>. QED
      BY <1>1, <3>4 DEF Works
  <2>2. CASE handler[w].sentence # Item(w).sentences
    <3>. DEFINE answered == Answered(w)
                sentence == handler[w].sentence + 1
                g == [handler[w] EXCEPT !.pc = "connect", !.link = "none",
                        !.sentence = sentence, !.answered = answered]
    <3>1. sentence \in Nat \ {0} /\ answered \in SUBSET Nat
      BY <1>3, AnsweredType DEF Handlers
    <3>2. Become(w, g)
      BY <1>6, <2>2 DEF Poll
    <3>3. answered = AnsweredIn(handler[w]) /\ sentence = handler[w].sentence + 1
      BY <2>0
    <3>. HIDE DEF answered, sentence
    <3>4. /\ g \in Handlers /\ g.pc = "connect" /\ g.link = "none"
          /\ g.conn = handler[w].conn /\ g.item = handler[w].item
          /\ g.body = handler[w].body /\ g.sentence = sentence /\ g.answered = answered
      BY <1>3, <3>1 DEF Handlers
    <3>. HIDE DEF g
    <3>5. InHand(g, r, t + 0)
      BY <1>3, <1>4, <2>0, <2>2, <3>3, <3>4, NextInHand
    <3>. QED
      BY <1>1, <1>2, <3>2, <3>4, <3>5 DEF Continues, Works
  <2>. QED
    BY <2>1, <2>2
<1>7. CASE Raise(w)
  <2>1. Untranslated \in Reports /\ Faithful(r, handler[w].item, Untranslated)
    BY <1>4, <1>7, UntranslatedFaithful DEF Raise, Untranslated, Reports
  <2>2. Continues(w, 0)
    BY <1>1, <1>2, <1>4, <1>7, <2>1, ItemDoneWorks DEF Raise
  <2>. QED
    BY <1>1, <2>2 DEF Works
<1>. QED
  BY <1>5, <1>6, <1>7

LEMMA AroundSays ==
  ASSUME TypeOK,
         \/ UNCHANGED vars
         \/ \E w \in Workers : Answer(w) \/ Drop(w)
         \/ \E m \in Models : Down(m) \/ Up(m)
  PROVE  OnlyLinks
<1>0. handler \in [Workers -> Handlers]
  BY DEF TypeOK
<1>1. CASE UNCHANGED vars \/ \E m \in Models : Up(m)
  BY <1>1 DEF vars, Up, OnlyLinks, SameWork
<1>2. ASSUME NEW w \in Workers, Answer(w)
      PROVE  OnlyLinks
  <2>1. ASSUME NEW v \in Workers
        PROVE  /\ handler'[v].pc = handler[v].pc /\ handler'[v].conn = handler[v].conn
               /\ SameWork(handler'[v], handler[v])
               /\ handler'[v].link # "closed" \/ handler'[v].link = handler[v].link
    BY <1>0, <1>2 DEF Answer, Become, Handlers, SameWork
  <2>. QED
    BY <1>2, <2>1 DEF OnlyLinks, Answer
<1>3. ASSUME NEW w \in Workers, Drop(w)
      PROVE  OnlyLinks
  <2>1. ASSUME NEW v \in Workers
        PROVE  /\ handler'[v].pc = handler[v].pc /\ handler'[v].conn = handler[v].conn
               /\ SameWork(handler'[v], handler[v])
               /\ v # w => handler'[v].link = handler[v].link
    BY <1>0, <1>3 DEF Drop, Become, Handlers, SameWork
  <2>. QED
    BY <1>3, <2>1 DEF OnlyLinks, Drop
<1>4. ASSUME NEW m \in Models, Down(m)
      PROVE  OnlyLinks
  <2>1. \A v \in Workers :
          handler'[v] = IF handler[v].link = "open" /\ Model(v) = m
                        THEN [handler[v] EXCEPT !.link = "closed"] ELSE handler[v]
    BY <1>4 DEF Down
  <2>2. ASSUME NEW v \in Workers
        PROVE  /\ handler'[v].pc = handler[v].pc /\ handler'[v].conn = handler[v].conn
               /\ SameWork(handler'[v], handler[v])
               /\ handler'[v].link = handler[v].link \/ Model(v) = m
    BY <1>0, <2>1 DEF Handlers, SameWork
  <2>. QED
    BY <1>4, <2>2 DEF OnlyLinks, Down
<1>. QED
  BY <1>1, <1>2, <1>3, <1>4

LEMMA Sayings ==
  ASSUME TypeOK, Control, AllInHand, [Next]_vars
  PROVE  \/ OnlyLinks
         \/ \E c \in Conns : Send(c)
         \/ \E w \in Workers, c \in Conns : Take(w, c)
         \/ \E w \in Workers : Works(w) \/ Complains(w) \/ Concludes(w)
<1>1. ASSUME NEW w \in Workers, Step(w) \/ Raise(w), ~ \E c \in Conns : Take(w, c)
      PROVE  OnlyLinks \/ Works(w) \/ Complains(w) \/ Concludes(w)
  BY <1>1, FetchSays, DataSays, ItemSays, CallSays DEF Step
<1>. QED
  BY <1>1, AroundSays DEF Next

-----------------------------------------------------------------------------
(* Each sort of step keeps BodyInv.                                          *)

\* Of a client's replies, what is said depends only on its requests and replies.
RightAbout(c) == \A n \in DOMAIN replies[c] :
  /\ replies[c][n].request \in 1 .. taken[c]
  /\ Proper(replies[c][n].code, replies[c][n].body, RequestOf(c, n), Cardinality(Before(c, n)))

LEMMA BodyInvOf ==
  /\ BodyInv <=> AllInHand /\ \A c \in Conns : RightAbout(c)
  /\ BodyInv' <=> AllInHand' /\ \A c \in Conns : RightAbout(c)'
BY DEF BodyInv, RepliesKnown, EveryProblemReported, FaithfulBody, RightAbout, Proper, Result

LEMMA OnlyLinksBody ==
  ASSUME TypeOK, Control, BodyInv, OnlyLinks
  PROVE  BodyInv'
<1>1. \A c \in Conns : RightAbout(c)'
  BY BodyInvOf DEF OnlyLinks, RightAbout, RequestOf, Before
<1>2. ASSUME NEW w \in Workers, Busy(w)'
      PROVE  InHand(handler[w], Request(w), ToldBy(w))'
  <2>1. Busy(w) /\ Request(w)' = Request(w) /\ ToldBy(w)' = ToldBy(w)
    BY <1>2 DEF OnlyLinks, Busy, Request, ToldBy, RepliesTo
  <2>2. PICK r \in Requests, t \in Nat : r = Request(w) /\ t = ToldBy(w)
    BY <2>1, InHandNow DEF BodyInv
  <2>3. handler[w] \in Handlers /\ InHand(handler[w], r, t)
    BY <2>1, <2>2, InHandNow DEF BodyInv
  <2>4. PICK g : g = handler'[w]
    OBVIOUS
  <2>5. /\ SameWork(g, handler[w]) /\ g.pc = handler[w].pc
        /\ g.link = "closed" => r.model \in Faulty \/ handler[w].link = "closed"
    BY <2>2, <2>4 DEF OnlyLinks, Model
  <2>6. InHand(g, r, t)
    BY <2>3, <2>5, LinkInHand
  <2>. QED
    BY <2>1, <2>2, <2>4, <2>6
<1>. QED
  BY <1>1, <1>2, BodyInvOf DEF AllInHand

\* A reply that is right about its request is one more reply to it.
LEMMA ReplySays ==
  ASSUME TypeOK, Control, BodyInv, NEW w \in Workers, Busy(w),
         NEW code \in Codes, NEW body \in Seq(Reports), Reply(w, code, body),
         Proper(code, body, Request(w), ToldBy(w)), UNCHANGED <<sent, taken>>,
         NEW c \in Conns, c = handler[w].conn
  PROVE  /\ \A d \in Conns : RightAbout(d)'
         /\ Cardinality(RepliesTo(c, taken[c])') = ToldBy(w) + 1
         /\ \A d \in Conns, q \in Nat : d # c => RepliesTo(d, q)' = RepliesTo(d, q)
<1>0. PICK L \in Nat : L = Len(replies[c])
  BY DEF TypeOK
<1>1. /\ replies' \in [Conns -> Seq(Replies)]
      /\ Len(replies'[c]) = L + 1
      /\ replies'[c][L + 1].request = taken[c]
      /\ replies'[c][L + 1].code = code
      /\ replies'[c][L + 1].body = body
      /\ \A n \in DOMAIN replies[c] : replies'[c][n] = replies[c][n]
      /\ \A d \in Conns : d # c => replies'[d] = replies[d]
  BY <1>0, ReplyAppends
<1>2. /\ DOMAIN replies[c] = 1 .. L /\ DOMAIN replies'[c] = 1 .. L + 1
      /\ taken[c] \in 1 .. taken[c]
  <2>1. taken[c] \in 1 .. Len(sent[c]) /\ sent[c] \in Seq(Requests)
    BY RequestKnown DEF TypeOK
  <2>. QED
    BY <1>0, <1>1, <2>1 DEF TypeOK
<1>3. \A n \in 1 .. L : replies'[c][n] = replies[c][n] /\ RequestOf(c, n)' = RequestOf(c, n)
  BY <1>1, <1>2 DEF RequestOf
<1>4. \A d \in Conns : RightAbout(d)
  BY BodyInvOf
<1>5. ASSUME NEW d \in Conns, d # c
      PROVE  RightAbout(d)' /\ \A q \in Nat : RepliesTo(d, q)' = RepliesTo(d, q)
  <2>1. replies'[d] = replies[d]
    BY <1>1, <1>5
  <2>2. \A q \in Nat : RepliesTo(d, q)' = RepliesTo(d, q)
    BY <2>1 DEF RepliesTo
  <2>3. \A n : Before(d, n)' = Before(d, n) /\ RequestOf(d, n)' = RequestOf(d, n)
    BY <2>1 DEF Before, RequestOf
  <2>. QED
    BY <1>4, <2>1, <2>2, <2>3 DEF RightAbout
<1>6. RequestOf(c, L + 1)' = Request(w)
  BY <1>1 DEF RequestOf, Request
<1>7. Before(c, L + 1)' = RepliesTo(c, taken[c])
  <2>1. Before(c, L + 1)' = {k \in 1 .. L : replies'[c][k].request = taken[c]}
    BY <1>1, <1>2 DEF Before
  <2>. QED
    BY <1>2, <1>3, <2>1 DEF RepliesTo
<1>8. ToldBy(w) = Cardinality(RepliesTo(c, taken[c]))
  BY DEF ToldBy
<1>9. RightAbout(c)'
  <2>1. ASSUME NEW n \in 1 .. L
        PROVE  /\ replies'[c][n].request \in 1 .. taken[c]
               /\ Proper(replies'[c][n].code, replies'[c][n].body, RequestOf(c, n)',
                         Cardinality(Before(c, n)'))
    <3>1. Before(c, n)' = Before(c, n)
      <4>1. \A k \in 1 .. n - 1 : k \in 1 .. L
        OBVIOUS
      <4>2. /\ Before(c, n) = {k \in 1 .. n - 1 : replies[c][k].request = replies[c][n].request}
            /\ Before(c, n)' =
                 {k \in 1 .. n - 1 : replies'[c][k].request = replies'[c][n].request}
        BY DEF Before
      <4>. QED
        BY <1>3, <4>1, <4>2, ZenonT(60)
    <3>. QED
      BY <1>2, <1>3, <1>4, <3>1 DEF RightAbout
  <2>2. /\ replies'[c][L + 1].request \in 1 .. taken[c]
        /\ Proper(replies'[c][L + 1].code, replies'[c][L + 1].body, RequestOf(c, L + 1)',
                  Cardinality(Before(c, L + 1)'))
    BY <1>1, <1>2, <1>6, <1>7, <1>8
  <2>3. \A n \in 1 .. L + 1 : n \in 1 .. L \/ n = L + 1
    BY <1>2
  <2>. QED
    BY <1>2, <2>1, <2>2, <2>3 DEF RightAbout
<1>10. Cardinality(RepliesTo(c, taken[c])') = ToldBy(w) + 1
  <2>1. RepliesTo(c, taken[c])' = RepliesTo(c, taken[c]) \cup {L + 1}
    BY <1>1, <1>2, <1>3 DEF RepliesTo
  <2>2. L + 1 \notin RepliesTo(c, taken[c])
    BY <1>2 DEF RepliesTo
  <2>3. IsFiniteSet(RepliesTo(c, taken[c]))
    BY RepliesToFinite
  <2>4. PICK S : S = RepliesTo(c, taken[c])
    OBVIOUS
  <2>5. Cardinality(S \cup {L + 1}) = Cardinality(S) + 1
    BY <2>2, <2>3, <2>4, FS_AddElement
  <2>. QED
    BY <1>8, <2>1, <2>4, <2>5
<1>. QED
  BY <1>5, <1>9, <1>10

\* The other workers' handlers are as right as they were.
LEMMA OthersInHand ==
  ASSUME TypeOK, Control, AllInHand, NEW w \in Workers, NEW c \in Conns,
         Busy(w) => c = handler[w].conn,
         NEW v \in Workers, v # w, WorkerOf[c] = w, handler'[v] = handler[v], Busy(v)',
         \A d \in Conns, q \in Nat : d # c => RepliesTo(d, q)' = RepliesTo(d, q),
         \A d \in Conns : d # c => taken'[d] = taken[d] /\ sent'[d] = sent[d]
  PROVE  InHand(handler[v], Request(v), ToldBy(v))'
<1>1. Busy(v) /\ handler[v].conn \in Conns /\ handler[v].conn # c
  BY DEF Busy, Control
<1>2. Request(v)' = Request(v) /\ ToldBy(v)' = ToldBy(v)
  BY <1>1 DEF Request, ToldBy, TypeOK
<1>. QED
  BY <1>1, <1>2 DEF AllInHand

LEMMA WorksBody ==
  ASSUME TypeOK, Control, BodyInv, NEW w \in Workers, Works(w) \/ Complains(w)
  PROVE  BodyInv'
<1>1. PICK n \in {0, 1} : /\ Continues(w, n)
                          /\ n = 0 => Works(w)
                          /\ n = 1 => Complains(w)
  BY DEF Works, Complains
<1>2. PICK g \in Handlers, c \in Conns :
        /\ Busy(w) /\ c = handler[w].conn /\ g.conn = c
        /\ InHand(g, Request(w), ToldBy(w) + n)
        /\ Become(w, g)
  BY <1>1, RequestKnown DEF Continues
<1>3. WorkerOf[c] = w /\ UNCHANGED <<sent, taken>> /\ AllInHand
  BY <1>1, <1>2 DEF Control, Works, Complains, BodyInv
<1>4. /\ handler'[w] = g
      /\ \A v \in Workers : v # w => handler'[v] = handler[v]
  BY <1>2 DEF Become, TypeOK
<1>5. /\ \A d \in Conns : RightAbout(d)'
      /\ Cardinality(RepliesTo(c, taken[c])') = ToldBy(w) + n
      /\ \A d \in Conns, q \in Nat : d # c => RepliesTo(d, q)' = RepliesTo(d, q)
  <2>1. CASE n = 0
    <3>1. UNCHANGED <<sent, taken, replies>>
      BY <1>1, <2>1 DEF Works
    <3>2. \A d \in Conns : RightAbout(d)'
      BY <3>1, BodyInvOf DEF RightAbout, RequestOf, Before
    <3>3. ToldBy(w) \in Nat /\ ToldBy(w) = Cardinality(RepliesTo(c, taken[c]))
      BY <1>2, <1>3, InHandNow DEF ToldBy
    <3>. QED
      BY <2>1, <3>1, <3>2, <3>3 DEF RepliesTo
  <2>2. CASE n = 1
    <3>1. <<>> \in Seq(Reports) /\ 400 \in Codes
            /\ Proper(400, <<>>, Request(w), ToldBy(w)) /\ Reply(w, 400, <<>>)
      BY <1>1, <2>2 DEF Codes, Proper, Complains
    <3>. QED
      BY <1>2, <1>3, <2>2, <3>1, ReplySays, ZenonT(60)
  <2>. QED
    BY <2>1, <2>2
<1>6. InHand(handler[w], Request(w), ToldBy(w))'
  <2>1. Request(w)' = Request(w)
    BY <1>2, <1>3, <1>4 DEF Request
  <2>2. ToldBy(w)' = ToldBy(w) + n
    BY <1>2, <1>3, <1>4, <1>5 DEF ToldBy
  <2>. QED
    BY <1>2, <1>4, <2>1, <2>2
<1>7. AllInHand'
  BY <1>2, <1>3, <1>4, <1>5, <1>6, OthersInHand DEF AllInHand
<1>. QED
  BY <1>5, <1>7, BodyInvOf

LEMMA ConcludesBody ==
  ASSUME TypeOK, Control, BodyInv, NEW w \in Workers, Concludes(w)
  PROVE  BodyInv'
<1>1. Busy(w) /\ End(w) /\ UNCHANGED <<sent, taken>> /\ AllInHand
  BY DEF Concludes, BodyInv
<1>2. PICK c \in Conns : c = handler[w].conn
  BY <1>1, RequestKnown
<1>3. PICK code \in Codes, body \in Seq(Reports) :
        Reply(w, code, body) /\ Proper(code, body, Request(w), ToldBy(w))
  BY DEF Concludes
<1>4. /\ \A d \in Conns : RightAbout(d)'
      /\ \A d \in Conns, q \in Nat : d # c => RepliesTo(d, q)' = RepliesTo(d, q)
  BY <1>1, <1>2, <1>3, ReplySays
<1>5. /\ handler'[w] = Idle
      /\ \A v \in Workers : v # w => handler'[v] = handler[v]
  BY <1>1 DEF End, Become, TypeOK
<1>6. ~ Busy(w)' /\ WorkerOf[c] = w
  BY <1>1, <1>2, <1>5 DEF Busy, Idle, Control
<1>7. AllInHand'
  BY <1>1, <1>2, <1>4, <1>5, <1>6, OthersInHand DEF AllInHand
<1>. QED
  BY <1>4, <1>7, BodyInvOf

LEMMA SendBody ==
  ASSUME TypeOK, Control, BodyInv, NEW c \in Conns, Send(c)
  PROVE  BodyInv'
<1>1. UNCHANGED <<taken, replies, handler>>
  BY DEF Send
<1>2. PICK r \in Requests : sent' = [sent EXCEPT ![c] = Append(sent[c], r)]
  BY DEF Send
<1>3. ASSUME NEW d \in Conns, NEW n \in 1 .. taken[d] PROVE sent'[d][n] = sent[d][n]
  <2>1. sent[d] \in Seq(Requests) /\ n \in 1 .. Len(sent[d])
    BY DEF TypeOK, Control
  <2>. QED
    BY <1>2, <2>1 DEF TypeOK
<1>4. ASSUME NEW d \in Conns PROVE RightAbout(d)'
  <2>1. RightAbout(d)
    BY BodyInvOf
  <2>2. ASSUME NEW n \in DOMAIN replies[d]
        PROVE  RequestOf(d, n)' = RequestOf(d, n) /\ Before(d, n)' = Before(d, n)
    BY <1>1, <1>3, <2>1 DEF RightAbout, RequestOf, Before
  <2>. QED
    BY <1>1, <2>1, <2>2 DEF RightAbout
<1>5. ASSUME NEW w \in Workers, Busy(w)' PROVE InHand(handler[w], Request(w), ToldBy(w))'
  <2>1. Busy(w)
    BY <1>1, <1>5 DEF Busy
  <2>2. handler[w].conn \in Conns /\ taken[handler[w].conn] \in 1 .. taken[handler[w].conn]
    BY <2>1 DEF Control, TypeOK
  <2>3. Request(w)' = Request(w) /\ ToldBy(w)' = ToldBy(w)
    BY <1>1, <1>3, <2>2 DEF Request, ToldBy, RepliesTo
  <2>. QED
    BY <1>1, <2>1, <2>3 DEF BodyInv, AllInHand
<1>. QED
  BY <1>4, <1>5, BodyInvOf DEF AllInHand

\* There are no replies yet to the request that is taken.
LEMMA TakeBody ==
  ASSUME TypeOK, Control, BodyInv, NEW w \in Workers, NEW c \in Conns, Take(w, c)
  PROVE  BodyInv'
<1>. DEFINE g == [Idle EXCEPT !.conn = c,
       !.pc = IF sent[c][taken[c] + 1].kind = "languages" THEN "languages" ELSE "fetch"]
<1>1. /\ ~ Busy(w) /\ WorkerOf[c] = w /\ taken[c] < Len(sent[c])
      /\ Become(w, g) /\ UNCHANGED <<sent, replies>> /\ AllInHand
  BY DEF Take, At, Busy, BodyInv
<1>2. /\ taken'[c] = taken[c] + 1
      /\ \A d \in Conns : d # c => taken'[d] = taken[d]
  BY TakeKeeps
<1>3. PICK r : r = sent[c][taken[c] + 1]
  OBVIOUS
<1>4. /\ g.conn = c /\ g.pc = IF r.kind = "languages" THEN "languages" ELSE "fetch"
      /\ g.item = 1 /\ g.sentence = 1 /\ g.answered = {} /\ g.body = <<>>
  BY <1>3 DEF Idle
<1>. HIDE DEF g
<1>5. /\ handler'[w] = g
      /\ \A v \in Workers : v # w => handler'[v] = handler[v]
  BY <1>1 DEF Become, TypeOK
<1>6. taken[c] \in Nat /\ Len(sent[c]) \in Nat /\ sent[c] \in Seq(Requests)
  BY DEF TypeOK
<1>7. r \in Requests
  BY <1>1, <1>3, <1>6
<1>0. PICK q : q = taken[c] + 1
  OBVIOUS
<1>8. ASSUME NEW d \in Conns PROVE RightAbout(d)'
  <2>1. RightAbout(d)
    BY BodyInvOf
  <2>2. \A n \in DOMAIN replies[d] : replies[d][n].request \in 1 .. taken'[d]
    BY <1>2, <1>6, <2>1 DEF RightAbout
  <2>. QED
    BY <1>1, <2>1, <2>2 DEF RightAbout, RequestOf, Before
<1>9. RepliesTo(c, q) = {}
  BY <1>0, <1>6, BodyInvOf DEF RightAbout, RepliesTo
<1>10. InHand(handler[w], Request(w), ToldBy(w))'
  <2>1. Request(w)' = r
    BY <1>1, <1>2, <1>3, <1>4, <1>5 DEF Request
  <2>2. RepliesTo(c, q)' = {}
    BY <1>1, <1>9 DEF RepliesTo
  <2>3. ToldBy(w)' = 0
    BY <1>0, <1>2, <1>4, <1>5, <2>2, FS_EmptySet DEF ToldBy
  <2>4. InHand(g, r, 0)
    BY <1>4, <1>7, RequestItems DEF InHand
  <2>. QED
    BY <1>5, <2>1, <2>3, <2>4
<1>11. \A d \in Conns, p \in Nat : RepliesTo(d, p)' = RepliesTo(d, p)
  BY <1>1 DEF RepliesTo
<1>12. AllInHand'
  BY <1>1, <1>2, <1>5, <1>10, <1>11, OthersInHand DEF AllInHand
<1>. QED
  BY <1>8, <1>12, BodyInvOf

LEMMA InitBody == Init => BodyInv
BY DEF Init, Idle, Busy, BodyInv, RepliesKnown, AllInHand, EveryProblemReported, FaithfulBody

LEMMA NextBody == IInv /\ BodyInv /\ [Next]_vars => BodyInv'
<1>. SUFFICES ASSUME IInv, BodyInv, [Next]_vars PROVE BodyInv'
  OBVIOUS
<1>1. TypeOK /\ Control /\ AllInHand
  BY DEF IInv, BodyInv
<1>. QED
  BY <1>1, Sayings, OnlyLinksBody, SendBody, TakeBody, WorksBody, ConcludesBody

LEMMA BodyInvariant == Spec => []BodyInv
BY InitBody, NextBody, Invariant, PTL DEF Spec

\* A reply 200 to a request for translations follows exactly one reply 400 for its
\* incomplete parameters and one for each item without text, for requests of any
\* number of items and whatever else the worker's connections ask.
THEOREM EveryProblemReportedHolds == Spec => []EveryProblemReported
<1>1. BodyInv => EveryProblemReported
  BY DEF BodyInv
<1>. QED
  BY <1>1, BodyInvariant, PTL

\* The body of a reply 200 has an entry for each item of the request, right about
\* it: nothing is translated without text and model, and every sentence of such an
\* item is when its own backend is faultless, whichever other backends fail.
THEOREM FaithfulBodyHolds == Spec => []FaithfulBody
<1>1. BodyInv => FaithfulBody
  BY DEF BodyInv
<1>. QED
  BY <1>1, BodyInvariant, PTL
=============================================================================
