# text-translation, in TLA+

`text-translation` is a server that translates texts. It takes HTTP requests
(or gRPC ones), cuts a text into sentences, sends each sentence to a
translation backend (Marian over a WebSocket, or TensorFlow Serving), merges
the backend's n-best answers and replies with JSON. This directory holds TLA+
models of that code, the TLC runs that check them and proofs that TLAPS checks.
Line numbers refer to the files of `src/` at the modelled commit
(`rest_server.cpp`, `nmt.cpp`, ... stand for `src/src/rest_server.cpp`, ...).

## 1. Inventory of the system

| component | code | state it keeps | operations | status |
|---|---|---|---|---|
| REST handlers | `rest_server.cpp` 9-304 | none between requests: the handler's locals, the reply being built, and (in Pistache) the connection | `doTranslationGet`, `doTranslationPost`, `doTranslationBatchPost`, `fetchParamWithDefault`, two `askTranslation` | modelled: `RestServer` |
| segmentation of a text | `rest_server.cpp` 248-268 | tokens, sentence in progress, sentences | one loop, one flush | modelled: `Segmentation` |
| tokenisation | `nmt.cpp` `spm_segment`, `spm_detokenize_str` | none | SentencePiece's pieces to a string, and back | partly: `Text`, `TextPipeline` |
| string utilities | `utils.cpp` | none | `Split`, `Join` | partly: `Text` |
| language catalogue | `rest_server.cpp` 40-104 | nested JSON objects built by three loops | insertion of a source, a target, a domain | modelled: `LanguageCatalogue` |
| Marian client | `nmt.cpp` 185-259 | the WebSocket, the message, four output lists | connect, send, poll, merge | modelled: `NmtTranslate` |
| TensorFlow Serving client | `nmt.cpp` 328-565 | the batch, the request's and the answer's tensors | `NMTBatch`, `PadBatch`, `getDomains` | partly: `NmtBatch`, `GrpcServer` |
| gRPC server | `grpc_server.cpp`, `grpc_route_nmt_impl.cpp` | one stream for each call | `GetNMT`, `StreamNMT`, `GetDomains` | modelled: `GrpcServer` |
| model loading | `abstract_server.cpp`, `nmt.cpp` 112-157, `spm.cpp` | `_list_translation_model` | one pass over the YAML configuration | modelled: `ModelLoading` |
| start-up | `text-translation.cpp` | option variables | environment, options, choice of server | modelled: `Startup` |
| life cycle | `rest_server.cpp` 9-24, 314, `grpc_server.cpp`, `text-translation.cpp` 240-258 | the endpoint | construction, init, start, shutdown, destructor | partly: `Startup` |
| byte pair encoding | `bpe.cpp` | `bpeCodes_`, `cache_` | `Encode`, `FindBestBigram`, `Postprocess` | modelled: `Bpe` (compiled, but no caller in the repository) |
| Moses client | `smt.cpp` | none | `SMTBatch`, `NMTBatchSMT` | modelled: `Smt` (compiled, no caller in the repository) |
| local models | `local_nmt.cpp`, `moses.cpp` | | | not in the build |
| command-line clients; vendored and generated code | `client_*.cpp`, `utf8`, protocol buffers | | | not modelled |

How they interact. A Pistache endpoint owns a number of worker threads; each
connection belongs to one worker, which runs one handler at a time to its end.
The handler reads the list of models, which nothing changes after start-up,
picks one, and calls its `NMTTranslateBatch`; this opens one WebSocket for each
sentence, polls it until it has a message or is closed, and merges what it got
in lists shared by all the sentences of the text. The handler ignores whether
that succeeded and replies. So the interesting behaviour lies in: what a handler
sends and when it stops; what a backend that is slow, gone, or only sometimes
answers does to a text, to a worker and to the process; and the merging of lists
of different shapes. The gRPC server gives each call a thread, which reads a
request, has it translated by TensorFlow Serving as a batch of one, and writes a
reply, until the client has finished or something fails. Start-up decides which
of the two servers there is, and loads the REST server's models.

What makes each component correct:

- handlers: one reply to each request, to the right request; every problem
  reported; the body says of each item what happened to it; every request is
  answered in the end unless a hung backend holds its worker;
- segmentation: a partition of the text, in order; each sentence ends where the
  first end marker is; a text put together from its sentences is the text;
- catalogue: it lists what can be asked for, and only that;
- Marian client: hypothesis *h* is made of the *h*-th lines, in the order of the
  text; indices stay in range; the call returns;
- TensorFlow Serving client: the request holds the batch and its lengths; each
  row of the answer comes back as its own sentence; indices stay in range;
- gRPC server: replies in the order of the requests, one status, no reply after a
  failure, and a call that hangs holds no other;
- model loading: all the models of the configuration, each with its own languages,
  or no server;
- start-up: arguments before variables before defaults; the server asked for, on
  the port asked for;
- byte pair encoding: `Postprocess` undoes `Encode`; codes are applied in the
  order of their file; `Encode` ends;
- Moses client: one translation in the order of the batch, no word lost, and
  failures that can be told from successes.

`PROJECT.json` lists the hazards of the code line by line, with the properties
that watch each of them, or the reason why none does.

## 2. The modules

| module | models | abstracts |
|---|---|---|
| `Segmentation` | `askTranslation`'s loop (`Consume`, one iteration) and trailing `Flush` | a string of joined tokens is the set of their positions |
| `Text` | `Split`, `Join`, `spm_segment`, `spm_detokenize_str`, as functions on strings | a string is a sequence of characters |
| `TextPipeline` | a text on its way: cut by `Segmentation`, each sentence sent, its answer taken apart and appended; the composition of the two modules above | the backend sends back what it gets |
| `TranslateCall` | what a call of `NMTTranslateBatch` promises (abstract specification) | |
| `NmtTranslate` | `NMTTranslateBatch`, `NMTTranslate` and the backend | an n-best line is its number of fields; a piece of text is the number of the sentence it comes from, so that a list of hypotheses is a sequence of sequences of sentence numbers; so are the sums of scores |
| `TranslationService` | what a client sees of the REST server, connection by connection (abstract specification) | |
| `RestServer` | the handlers, run by workers for clients on kept-open connections, with the backends | a request is what its JSON makes the handlers do: which parameters are there, which model fits, and for each item whether its text is there and how many sentences it has; an entry of a body is which sentences are translated, and up to which the call came (`upto`, which only the properties read) |
| `ModelLoading` | the REST server's constructor, one step for each conversion or loop iteration that can fail | of a YAML entry: which keys have a scalar, its two lists, whether its SentencePiece model can be loaded |
| `LanguageCatalogue` | the three loops of `doTranslationGet`, one step per iteration, over the models that `ModelLoading` has left, which it extends; `isSrcLang`, `isTgtLang` and the `find_if` of `askTranslation` | JSON objects are functions |
| `NmtBatch` | `NMTBatch`: `PadBatch`, the request, the RPC, the cutting of the answer into rows | strings are model values; the texts of the lengths are what `atoi` makes of them, a function; a tensor of lengths that are integers has no texts, and is one with none |
| `RpcService` | what a client of the gRPC service can count on (abstract specification) | |
| `GrpcServer` | the gRPC handlers as concurrent calls, their clients, TensorFlow Serving | a reply is the request it is made from; a prediction is its status |
| `Startup` | `main` and `ProcessArgs`, one step for each variable and argument; then the server's construction, init and start | texts are few; `atoi` is a function on them; the ten blocks of `main` are the rows of a table (`Blocks`: the variable that is tested, the one that is read, the option that is set, the conversion), and so are the ten cases of the switch (`Cases`) |
| `Bpe` | the codes file, `Encode` (one action for each pass of its loop), its cache, `Postprocess` | a string is a sequence of letters; `</w>` is one letter, in no word |
| `Smt` | `NMTBatchSMT` and `SMTBatch`, sentence by sentence, with a server that may refuse, fail or close | a text is its words; scores count in shares of the batch |
| `MC_*` | instances for TLC | |
| `*_proofs` | the theorems about the module of that name; `LanguageCatalogue_proofs` has those about `ModelLoading` too, `BpeSmt_proofs` those about `Bpe` and `Smt`, `TextPipeline_proofs` those about `Segmentation` and `TextPipeline` | |

`RestServer` contains the call of the backend one sentence at a time
(`Connect`, `Answer`/`Drop`, `Poll`, `Raise`), with well-formed answers;
`NmtTranslate` has the same control and the merge in full. Both represent the
same three outcomes of a sentence: an answer, a connection closed without one
(which the code cannot tell from an empty answer), and an exception. Likewise
`GrpcServer` has the outcomes of a prediction and `NmtBatch` its inside.

Details that are worth knowing when reading the code next to the models:

- `assert(ws)` (`nmt.cpp:191`) is compiled out, as the build type is
  `RelWithDebInfo`; a backend that cannot be reached is a null dereference,
  `pc = "dead"` / `process = "dead"`.
- `fetchParamWithDefault` reads `"target"` after testing for `"source"`
  (`rest_server.cpp:217`). On a const object this is undefined behaviour;
  `UndefinedTarget` lets the process die or throw, and `FetchNoTarget` lets it go on
  with some string too. So does `FetchSourceOnly`, for a request without a domain as
  well: the target is read first, and only a process that has survived that replies
  400 for want of the domain.
- a catch clause only takes `std::runtime_error`: JSON errors leave the handler,
  and Pistache replies 500 (`FetchIllTyped`, `IllTypedItem`).
- after a reply 400 in a catch clause the handler goes on (`FetchIncomplete`
  leads to `"data"`), and an item without text does not end a batch
  (`RejectItem`).
- the only exceptions that `abstract_server.cpp` catches are `invalid_argument`,
  for one model, which no step throws, and `YAML::BadFile`, for the file. A
  conversion that fails aborts; `spm::spm` exits (`Goto("aborted")`,
  `Goto("exited")`).
- the REST server is given the number of threads without a look at it, and what
  Pistache does with less than one is not in the repository: `InitServer` may go on or
  end as `"idle"`. The gRPC server does not use it.
- `set_envvar` only decides whether a line is logged: it is left out of
  `Startup`.
- a server that serves does not return from `serve` or `Wait`, and nothing calls
  `shutdown` from another thread: the shutdowns of `start`, of `main` and of the
  destructor are not reached.
- port 0 makes the system pick a port. The REST server's port is cut to 16 bits
  (`PortOf`); the gRPC server is given the number as text, and when it cannot
  listen there, `BuildAndStart` returns null, which is used (`NoPort`).
- nothing in `src/` creates `_stub`. `Connected = FALSE` is the program as it is,
  where the first text to be predicted ends the process; `Connected = TRUE` is the
  same code with a stub, which is what the rest of it is written for. The instances
  take both.
- a read past the end of a vector or a tensor ends `NmtBatch` as `"undefined"`, and a
  prediction that does leaves `GrpcServer` dead or going on.
- `NMTBatch` is only called with batches of one sentence
  (`grpc_route_nmt_impl.cpp`); its code, and `NmtBatch`, take any.
- `Encode` tests the size of the word of the pass before (`bpe.cpp:156`, after the
  `swap`); a word of one string has no pair, so the test is never true and
  `Merge` does not have it. A code listed twice leaves ranks beyond the table's
  size, which `FindBestBigram` never takes (`Candidates`).

External, modelled from how `src/` uses them: Pistache (connections, workers,
`send`, exceptions), the HTTP client (it sends its next request when it has had
as many replies as it has sent requests), gRPC and its clients, TensorFlow
Serving, Marian, Moses, `easywsclient`, SentencePiece, and `nlohmann::json`'s
`push_back` on objects.

## 3. The runs

| run | instance | shows |
|---|---|---|
| `text` | every text of at most 5 pieces, of 6 sorts, that SentencePiece can produce | `Partition`, `SentenceShape`, `NothingLeftOver`, `TextComesBack` |
| `nmt_translate` | 3 sentences, n-best lists of 1 or 2 lines with 3, 4 or 5 fields | `HypothesisExact`, `AlignmentsExact`, `UniformAnswersAreSafe`, `Returns`, `ImplementsCall` |
| `requests` | two connections of one worker, 2 requests each of 10 sorts, one backend that may fail and one that does not | `OneReplyEach`, `EveryProblemReported`, `FaithfulBody`, `ImplementsService` |
| `hung_backend` | two workers, three connections, one backend that may never answer | `EventuallyAnswered` |
| `catalogue` | every configuration of at most 3 entries of 8 sorts, and of at most 2 of 18 good ones, loaded and then listed | `AllOrNothing`, `FirstFailureEndsIt`, `Sound`, `ListedExactly` |
| `nmt_batch` | batches of at most 3 sentences of at most 2 words; answers of width at most 3, well formed or not, with lengths that are negative, no digits, too few or integers; with and without a stub | `RequestFaithful`, `RowsExact`, `ReadsInRange` |
| `grpc` | two concurrent calls, 2 different requests, streams of at most 2; TensorFlow Serving hung for any of the calls; with and without a stub | `Answered`, `NothingWithoutStub`, `EventuallyEnded`, `ImplementsRpc` |
| `startup` | one variable, alone or with a configuration, whichever it is, or two that matter to each other; one argument, whatever its option, or two that matter; and each command line with a configuration at its end | `Precedence`, `RightEnd`, `PortAsAsked` |
| `bpe` | codes files of at most 3 lines, words of at most 4 letters, up to 3 words | `RoundTrip`, `InFileOrder`, `Ends` |
| `smt` | batches of at most 3 sentences; vectors that are empty or in use; answers with doubled spaces, or none | `Gathered`, `ScoreTells` |

and two runs in which TLC finds what the code does against what it says of
itself (`findings` in `PROJECT.json`):

| run | violated | because |
|---|---|---|
| `dropped_sentence` | `TrueMeansTranslated` | a connection closed before its answer counts as an empty answer (`nmt.cpp:194`) |
| `compose` | `ComposeStarts` | one variable is tested, another one read (`text-translation.cpp:199-201`) |

More disagreements show in the models without a run of their own:

- a request without a target, which the code means to refuse, is undefined
  behaviour (`rest_server.cpp:217`, `UndefinedTarget`);
- the sample `config.yaml` lacks two keys that the constructor needs, so the
  server does not start with it (`abstract_server.cpp:57`, `ModelLoading`);
- an unreachable backend kills the server, the assertion of `nmt.cpp:191` being
  compiled out (`Connect`);
- a request without a source or a domain gets the reply 400 of its catch clause
  (`rest_server.cpp:123`, `:166`) and then a second reply, and a batch one reply
  400 for each item without text (`:185`) and then a reply 200:
  `EveryProblemReported` says exactly which, and `OneReplyEach` for whom nothing
  is out of order;
- `API_NMT_TENSORFLOW_SERVING: 0` (`docker-compose-marian.yml:20`) asks for
  TensorFlow Serving, as a pointer is converted to `bool`
  (`text-translation.cpp:222`). What `Requested` takes a variable to ask is what its
  author can be supposed to mean (`Asked`: a text of `No` is no), and not what `main`
  makes of it (`Converted`). `Precedence` names this variable and the SentencePiece
  one (`Misread`) as those that are not taken at their word, and says that there are
  no others and that these two never are. That TensorFlow Serving is taken as asked
  for shows in the log only: the gRPC server alone is given the option, and `nmt`
  keeps it without using it (`nmt.cpp:137`);
- a number or a domain name with a dot in it is cut in two sentences and comes back
  with a space, even from a backend that changes nothing: `TextComesBack` says
  that this is the only difference (`rest_server.cpp:259`);
- a row of TensorFlow Serving that is not followed by exactly one string of padding
  makes the ones after it begin in the wrong place: `RowsExact` and `ReadsInRange`
  say exactly how far the rows can be trusted (`nmt.cpp:548`).

Why the bounds are enough. In `Segmentation` a state depends on the last token
and on whether the text is at its end: five tokens put markers first, last, next
to each other, apart and inside a word. In `NmtTranslate` two lines and three
sentences give every relation between the lengths and shapes of two lists with a
third before or after them; 3, 4 and 5 fields are "too few", "no alignment" and
"alignment". In `RestServer` handlers share nothing but their worker and the
backends: two connections on one worker is the smallest case of one delaying or
confusing the other, and a batch with two items without text moves the reply to
the next request two places. `requests` takes its two connections, which the
instance does not tell apart, as symmetric (it checks no liveness). In
`ModelLoading` three entries put a bad one first, last and between good ones;
two models are what it takes to repeat a source of the catalogue with new and old
targets, and source lists repeat a language inside one model as well. In
`NmtBatch` what happens to a row depends on whether the rows before left one
string of padding: three rows have one right, one wrong and one after both, and
widths 0 to 3 leave none, one and two strings. In `GrpcServer` the handlers share
the process and nothing else, so that two are enough, and two requests have the
first, the last and one after a failure. In `Startup` what matters is that each
block and each case sets its own option and no other, for which one variable or one
argument at a time is enough, and how two sources of one option, or of two options,
meet. In `Bpe` two lines over all pairs
of five strings have codes that compete, repeat and feed each other; the longer
files build a string in three steps, with the end of the word and with the
separator. In `Smt` three sentences put the failing one first, last and between.
Deadlock is not checked because every client's requests are bounded
(`MaxRequests`, `MaxSent`), texts, calls and start-up end, and the process may
die.

Each property of a passing run has a mutant in `PROJECT.json`: the definition of
the model that is changed, and the changed form, defined beside it and marked
"mutant", under which TLC finds the property violated.

## 4. Fairness

- `NmtTranslate!FairSpec`: the calling thread runs (`WF` of its steps, an
  exception is never obliged to happen), and the backend answers or closes in
  the end. The second is an assumption on the backend and the network: the poll
  loop has no timeout, and without it `Returns` is false.
- `RestServer!FairSpec`: each worker runs its steps, and each backend that is
  not in `Hung` answers or closes. Of a hung backend nothing is assumed;
  `EventuallyAnswered` says how far its effect can spread. Clients are not
  obliged to send, backends not to fail or to come back.
- `GrpcServer!FairSpec`: the thread of each call runs, and TensorFlow Serving
  answers the calls that it does not hang for. The RPC has no deadline, so that
  nothing is said of those it hangs for; clients are not obliged to send, finish
  or cancel, and `EventuallyEnded` is about calls whose client has.
- `Bpe!FairSpec`: the calling thread runs.

## 5. What is proved

For every value of the constants, from the named assumptions in the modules:

- `TextPipeline_proofs`, about `Segmentation`: `TypeOK`, `Partition`, `SentenceShape` and
  `NothingLeftOver`, for all texts. The inductive invariant `IInv` adds
  `OpenSentence` (the sentence in progress has no end marker and not the last
  token): without it a step could close a sentence with a marker in its middle,
  and the flush could have work.
- `TextPipeline_proofs`, about the whole way of a text: `TextComesBack`, for every
  vocabulary, every set of end markers and every text. From `SplitJoin`, words without
  spaces come whole through the string they are joined into: a round of `Split` finds
  each, and the rounds left over find nothing. From `EchoSplit`, what is sent comes
  whole out of the backend's line, a space after it, when no field ends inside it; and
  joining pieces that end no field makes none (`CleanJoin`). `Flow(v, l)` is what the
  first *l* pieces of `v` show, with a space at each cut inside a word (`Gap`), and
  `Plain(v, l)` the same without the gaps, which is the original (`PlainIs`). The
  inductive invariant `PipeInv` is `IInv`, that nothing is translated before the text is
  cut, and `Told`: `translation` is `Flow` up to some end of a sentence, stripped, and
  the sentences translated are those with the pieces up to there (`Reached`). Its step
  is `NextFlow`: the space that `NMTTranslateBatch` puts between two sentences is the
  one that the detokenisation stripped from the second, if its first piece starts a
  word, and a gap if it does not. `FlowCounts` then says what `Flow` and `Plain` differ
  by. Two assumptions. `PiecesAssumption`: pieces are not empty and have no space,
  as SentencePiece replaces spaces by marks. `NoFieldAssumption`: no piece ends with
  `|||`, which the code neither checks nor escapes: followed by the space of the next
  piece it would end the field of the translation (`nmt.cpp:220`), and the rest of the
  sentence would be lost.
- `NmtTranslate_proofs`: `TypeOK`, `HypothesisExact`, `AlignmentsExact`,
  `UniformAnswersAreSafe`, for any number of sentences and any answers, and that
  the call implements `TranslateCall`. `IInv` adds `OneAnswerPerSentence` and
  `Control`, which tie the program counter to the number of answers heard. The
  central step is the merge of one line: the lists are as long as the longest
  answer so far, so line *h* is appended at *h* = length + 1 or put at an
  existing *h*, and its sentence is later than all those already there. The
  refinement follows from the invariant: when the call returns true, all answers
  have been merged whole.
- `RestServer_proofs`: `TypeOK` and `OneReplyEach`, for any workers, connections,
  models, requests and bound on what a client sends, and that the server
  implements `TranslationService`. `IInv` is `TypeOK`, `OneReplyEach` and
  `Control`: without `Control` (a busy handler has a connection of its own
  worker, whose request was taken; a WebSocket exists only while it is polled) two
  workers could reply on one connection. The actions are first sorted by what
  they do to connections (`Classification`): those around the handlers, a request
  sent, a request taken, a handler that goes on silently (`Quiet`), after a reply
  (`Refuses`), or ends with one (`Completes`); invariance and refinement are then
  proved once for each sort. A step that goes on after a reply leaves
  `OneReplyEach` true only because its request was not clean.
  `FaithfulBody` says what of an item may be in a body: nothing, unless the wait for
  each of its sentences has ended without an exception, and all of it if its backend
  does not fail. `EveryProblemReported` and `FaithfulBody` follow from a second invariant,
  `BodyInv`, inductive once `IInv` holds: `AllInHand` says of a handler in the
  middle of its request how many replies it has sent to it (`Told`, up to its
  item) and that its body is right about the items before. The actions are sorted
  again by what they do to what is said (`Sayings`); `ReplySays` is the step where
  a reply is appended, and needs that no reply was sent to a request before it was
  taken (`RepliesKnown`).
- `LanguageCatalogue_proofs`, about the loading: `TypeOK`, `AllOrNothing` and
  `FirstFailureEndsIt`, for every configuration. `IInv` adds `Progress` (the list
  holds the models of the entries before this one) and `Reading` (this entry's
  languages as far as they were read are a well-typed prefix of its lists): a model is
  right because at `LoadModel` both prefixes are whole.
- `LanguageCatalogue_proofs`, about the listing: the types, `Sound` and
  `ListedExactly`, for every configuration that can be loaded. `CatalogueInv` is
  `ModelLoading`'s own invariant, the types, `Sound` and `Position`: nothing is listed
  before the server is constructed, and the source the inner loop is at has its entry;
  each insertion by the loops names a model that is found again. `ListedExactly`
  counts, so it needs more: `ExactInv` adds `Remembered`, that the sources listed are
  those of the places visited, and that `known` says whether a place before this one
  (`Before`: the same language may stand at several places) has the source in hand;
  and that what is counted is finite.
- `NmtBatch_proofs`: `TypeOK`, `RequestFaithful`, `RowsExact` and `ReadsInRange`,
  for batches and tensors of any size. `IInv` adds `Padding` (the lengths are those of
  the rows as they were passed, and each row is padded or all are not yet),
  `Reading` (which parts of the answer have been read at each step) and `InRow`
  (while the rows before have each left one string of padding, the row in hand is
  read from where its own row of the tensor begins).
- `GrpcServer_proofs`: `TypeOK`, `Answered`, `NothingWithoutStub`, and that the
  server implements `RpcService`, for any number of calls, requests and stream
  lengths. `IInv` adds `Control` of each call: what its handler has read, replied
  and returned is fixed by where it is. Since handlers share only the process, one
  call's step leaves the others' conjuncts alone, and a death maps to the
  service's own stop.
- `Startup_proofs`: `TypeOK`, `Precedence`, `RightEnd` and `PortAsAsked`, for every
  environment, every command line of any length, every number and every set of texts
  that say no. `Precedence` is an equivalence: a server runs with what was asked of an
  option exactly when it is not asked by one of the two variables in `Misread`. `IInv` adds
  `Control` and `AsRead`: each option is what the last of the variables and
  arguments read so far has made it. Its step is that reading one more of them
  changes the last for its own option and for no other.
- `BpeSmt_proofs`, about `Bpe`: `TypeOK`, `RoundTrip` and `InFileOrder`, for every
  codes file, every separator and all words. A merge keeps the text of the word
  (`MergeKeepsText`), so that `</w>` stays at its end and nowhere else, without which
  not even the types are right: what is trimmed must end with it (`TypeInv`).
  `RoundTrip` follows from `RoundInv`, which says of the result and of every entry of
  the cache that they are strings that make up their word, each but the last with a
  separator: putting them together takes away exactly the separators that were put
  (`WordComesBack`). `InFileOrder` follows from `OrderInv`: the word that is merged is
  what the first *k* lines of the file give, for some *k*, and none of their pairs is
  left in it (`Reached`, `Clean`). In a file that can have been learned, a
  line's pair is made of strings of earlier lines, so a merge makes no pair of a line
  before (`MadeIsNew`): the best pair is the next line that changes the word, and the
  lines between change nothing (`MergeIsNextLine`, `AppliedSkips`).
- `BpeSmt_proofs`, about `Smt`: its types, `Gathered` and `ScoreTells`, for every
  batch, every vector and every server. `SmtInv` adds `Underway`: as many texts
  received as sentences done with, and vectors untouched until the first of them. The
  first sentence makes an entry and the others add to the first one, which is the
  same entry only when the vectors were empty: each of the two cases of `Gathered`
  and `ScoreTells` is a sum, of words or of scores, that grows by one term
  (`WordsAppend`).

Proofs by induction. The library's induction theorems take an operator, which no
installed prover instantiates; but `WFMin` takes a relation and a set.
`BpeSmt_proofs` and `TextPipeline_proofs` get from it, for a property given as the
set of the numbers that have it, a least element (`LeastElement`) and induction
(`Induction`), and then that a recursion has a solution and only one
(`SolutionExists`, `SolutionUnique`), with the step of the recursion given as a
function. What `FlattenSeq`, `Join`, `Split`, `MergePair`, `Joined`, `JoinedAll` and
`Applied` compute is proved for all their arguments in this way, and so is that the
functions the model defines by recursion exist. For its sake `Bpe`, `Smt` and `Text`
are written with recursive functions and `FlattenSeq`, and without the operators of
higher order (`SelectSeq`, the folds) that `tlapm` has no definition of. (The two
modules have the lemmas on induction and on `FlattenSeq` each for itself.)

Only model-checked: liveness (`Returns`, `EventuallyAnswered`, `EventuallyEnded`,
`Ends`: beyond TLAPS' reach in this version, as is `ENABLED`) and the violations. Every
invariant and every action property that a run checks is a theorem.

## 6. Not modelled, and limits

Not modelled:

- `local_nmt.cpp` and `moses.cpp`: the build does not compile them.
- `client_*.cpp`: loops over the standard input, without state of their own.
- `CheckModelsStatus`, `spm::decode`, `str_to_utf8`, `EndsWith`, `FindAndReplace`,
  `EscapeRegex`, `doAuth`: nothing calls them, or no route leads to them.
  `getBatchCharsListFromBatchTokens` is called and its result is not used.
- the vendored `utf8` and the code generated for the protocol buffers.
- the tokeniser and SentencePiece: libraries whose sources are not in the
  repository.

Limits:

- `dump()` of a reply may throw when a backend or the tokeniser gives invalid
  UTF-8: not modelled. Nor are Pistache's own time-outs and limits, memory
  exhaustion, clients that pipeline requests or disconnect, and `OPTIONS`.
- The keys of a client's request that survive in the reply (`push_back` does not
  overwrite them, `rest_server.cpp:297`) are not modelled, nor is the log, whose
  dates come from a buffer that the threads share (`utils.cpp:81`).
- `debug`, `count` and `threshold` are only fetched: the code does not use them.
- A word given to `Encode` that contains `</w>` or is not UTF-8, and a second
  thread in `BPE` are not modelled.
- The log prints `optarg`, which is null, when `--tensorflow_serving` follows its
  variable (`text-translation.cpp:141`): undefined by the standard, while the library
  of the build then prints nothing more on `cout`. It is left out of `Startup`.
- A codes file with a line of less than two fields, a blank one for instance, is
  undefined behaviour when it is read (`bpe.cpp:43-45`): `CodeFilesAssumption`
  excludes it.
- A length of TensorFlow Serving that does not fit an `int` is undefined for `atoi`
  (`nmt.cpp:530`), as is a number on the command line or in the environment
  (`text-translation.cpp:71`, `:164`): `Atoi` and `Number` give some integer.
- Pieces, scores and alignments of Marian are not computed, only traced to their
  sentence.

## 7. Plan

What is left, in the order of what it would add:

1. `RestServer` composed with `NmtTranslate` in one specification, in place of the
   outcomes that both now have in common.
2. A `Bpe` with two callers, should the code ever get them: its cache is read
   without a lock.
