---------------------------- MODULE MC_RestServer ----------------------------
(* Two workers; two clients share the first, the third has the second.       *)
EXTENDS RestServer, TLC

CONSTANTS w1, w2, c1, c2, c3, m1, m2

MCSharedWorker == (c1 :> w1) @@ (c2 :> w1)
MCTwoWorkers == (c1 :> w1) @@ (c2 :> w1) @@ (c3 :> w2)

ItemOf(text, sentences) == [text |-> text, sentences |-> sentences]

Translate(params, model, data, item) ==
  [kind |-> "translate", params |-> params, model |-> model, data |-> data,
   items |-> <<item>>]
Batch(params, model, data, items) ==
  [kind |-> "batch", params |-> params, model |-> model, data |-> data,
   items |-> items]
GetLanguages == [kind |-> "languages", params |-> "ok", model |-> NoModel,
                 data |-> FALSE, items |-> <<>>]

Text(n)    == ItemOf("string", n)
NoText     == ItemOf("missing", 0)
IllTyped   == ItemOf("ill_typed", 0)

\* Well-formed requests, and the malformed ones that some branch is about; m1 may
\* fail, m2 does not.
Good      == {Translate("ok", m2, TRUE, Text(2)),
              Batch("ok", m1, TRUE, <<Text(2), Text(0)>>)}
Malformed == {Batch("incomplete", NoModel, TRUE, <<NoText>>),
              Translate("no_target", NoModel, TRUE, Text(1)),
              Batch("source_only", NoModel, TRUE, <<IllTyped>>),
              Translate("ill_typed", NoModel, TRUE, Text(1)),
              Translate("ok", m1, FALSE, Text(1)),
              Translate("ok", NoModel, TRUE, Text(1)),
              Batch("ok", m1, TRUE, <<NoText, Text(1), NoText>>),
              GetLanguages}

MCRequests == Good \cup Malformed
MCClients  == Permutations({c1, c2})

\* Each backend has its clients.
MCHungRequests == {Translate("ok", m1, TRUE, Text(1)),
                   Translate("ok", m2, TRUE, Text(1)),
                   Batch("incomplete", NoModel, TRUE, <<NoText>>)}
=============================================================================
