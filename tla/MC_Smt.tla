------------------------------- MODULE MC_Smt -------------------------------
(* Batches of at most 3 sentences; vectors that are empty or hold the entries *)
(* of earlier calls; texts with one or two words, and with double spaces.    *)
EXTENDS Smt

CONSTANTS a, b, empty
MCBatches == {<<>>, <<<<a>>>>, <<<<a, b>>, <<b>>>>, <<<<a>>, <<>>, <<b, a>>>>}
MCEarlier == {<<>>, <<<<b>>>>, <<<<>>, <<a>>>>}
MCTexts   == {<<>>, <<a>>, <<b, a>>, <<empty, b>>, <<a, empty, b>>}
=============================================================================
