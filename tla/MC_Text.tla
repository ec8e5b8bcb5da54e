------------------------------- MODULE MC_Text -------------------------------
(* Texts of at most MaxLength pieces that SentencePiece can produce: the first   *)
(* starts a word, no mark follows another, and none ends the text.             *)
EXTENDS TextPipeline

CONSTANT MaxLength

MCPieces     == {<<"_", "a">>, <<"b">>, <<"_", ".">>, <<".">>, <<"_">>, <<".", ".", ".">>}
MCCharacters == {"_", "a", "b", "."}
MCEndMarkers == {<<"_", ".">>, <<".">>, <<".", ".", ".">>}

Starts(piece) == piece[1] = Mark
MCTexts ==
  {t \in UNION {[1 .. n -> MCPieces] : n \in 0 .. MaxLength} :
     t # <<>> => /\ Starts(t[1])
                 /\ t[Len(t)] # <<"_">>
                 /\ \A k \in 1 .. Len(t) - 1 : t[k] = <<"_">> => ~ Starts(t[k + 1])}
=============================================================================
