----------------------------- MODULE MC_NmtBatch -----------------------------
(* Batches of at most 3 sentences of at most 2 words; answers with tensors of *)
(* width at most 3, whose lengths are anything from -1 to one past the width, *)
(* or no digits, or integers; or that lack an output or some of its values.   *)
EXTENDS NmtBatch, SequencesExt, TLC

CONSTANTS a, b, pad

Rows(n) == UNION {[1 .. m -> {a, b}] : m \in 0 .. n}
MCBatches == {<<r>> : r \in Rows(1)} \cup (Rows(1) \X {<<>>, <<a, b>>})
             \cup {<<<<a, b>>, <<>>, <<b>>>>, <<<<a>>, <<a, b>>, <<b>>>>}

\* The strings of the answers are told apart by their positions.
MCWords == {a, b} \cup (1 .. 9)

Tensor(n) == [k \in 1 .. n |-> k]
Given(code, outputs, length, n, w) ==
  [code |-> code, outputs |-> outputs, length |-> length, tokens |-> Tensor(n), width |-> w]

MCAtoi == ("-1" :> -1) @@ ("0" :> 0) @@ ("1" :> 1) @@ ("2" :> 2) @@ ("3" :> 3) @@ ("x" :> 0)
MCNumerals == DOMAIN MCAtoi

Lengths(n, w) == [1 .. n -> {t \in MCNumerals : MCAtoi[t] <= w + 1}]
MCAnswers ==
  UNION {{Given("OK", {"length", "tokens"}, l, n * w, w) : l \in Lengths(n, w)} :
           n \in 1 .. 2, w \in 0 .. 2}
  \cup {Given("OK", {"length", "tokens"}, l, 9, 3) : l \in [1 .. 3 -> {"1", "2", "3"}]}
  \cup {Given("OK", o, <<"1", "1", "1">>, n, 2) :
           o \in SUBSET {"length", "tokens"}, n \in {2, 5}}
  \cup {Given("OK", {"length", "tokens"}, <<>>, 2, 2)}
  \cup {Given(c, {}, <<>>, 0, 0) : c \in {"NOT_FOUND", "OTHER"}}
=============================================================================
