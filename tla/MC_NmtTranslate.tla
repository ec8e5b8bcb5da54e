--------------------------- MODULE MC_NmtTranslate ---------------------------
(* Texts of N sentences; n-best lists of 1 to MaxLines lines, each with a    *)
(* number of fields taken from Fields.                                       *)
EXTENDS NmtTranslate

CONSTANTS Fields, MaxLines

MCAnswers == UNION {[1 .. n -> Fields] : n \in 1 .. MaxLines}
=============================================================================
