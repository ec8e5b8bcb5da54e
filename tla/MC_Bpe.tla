------------------------------- MODULE MC_Bpe -------------------------------
(* Every codes file of at most two lines over five strings, and five files  *)
(* of three lines; words of at most three letters and some of four, alone or *)
(* twice with another between; and an empty word.                            *)
EXTENDS Bpe

CONSTANTS a, at

MCSeparator == <<at, at>>

Single(l)   == <<l>>
MCStrings   == {<<a>>, <<at>>, <<EndOfWord>>, <<a, a>>, <<a, at>>}
MCPairs     == MCStrings \X MCStrings

FilesOf(n)  == [1 .. n -> MCPairs]
LongerFiles == {<<<<(<<a>>), (<<a>>)>>, <<(<<a, a>>), (<<a>>)>>, <<(<<a>>), <<EndOfWord>>>>>>,
                <<<<(<<a>>), (<<at>>)>>, <<(<<at>>), (<<a>>)>>, <<(<<a, at>>), (<<a>>)>>>>,
                <<<<(<<at>>), <<EndOfWord>>>>, <<(<<a>>), <<at, EndOfWord>>>>,
                  <<(<<a>>), <<a, at, EndOfWord>>>>>>,
                <<<<(<<at>>), (<<at>>)>>, <<(<<a>>), <<at, at>>>>, <<(<<at, at>>), <<EndOfWord>>>>>>,
                <<<<(<<a>>), (<<a>>)>>, <<(<<a>>), (<<at>>)>>, <<(<<a>>), (<<a>>)>>>>}

MCCodeFiles == FilesOf(0) \cup FilesOf(1) \cup FilesOf(2) \cup LongerFiles

Words(n)    == [1 .. n -> {a, at}]
MCWords     == Words(1) \cup Words(2) \cup Words(3)
                 \cup {<<a, a, a, a>>, <<a, at, a, at>>, <<at, a, a, at>>, <<a, at, at, a>>}

MCInputs    == {<<w>> : w \in MCWords} \cup {<<w, <<a, at>>, w>> : w \in MCWords}
                 \cup {<<>>, <<(<<a>>), <<>>>>}
=============================================================================
