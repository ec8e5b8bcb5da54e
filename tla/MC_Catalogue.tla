---------------------------- MODULE MC_Catalogue ----------------------------
(* Every configuration of at most three entries of eight sorts, good and bad, *)
(* and every one of at most two good entries over lists of languages with one *)
(* or two of them, the same one twice, or none.                               *)
EXTENDS LanguageCatalogue

CONSTANTS news, web, fr, en, de

AllKeys == FirstKeys \cup ProcessingKeys

EntryOf(keys, src, tgt, spm) ==
  [keys |-> keys, domain |-> news, source |-> src, target |-> tgt, spm |-> spm]

MixedEntries == {EntryOf(AllKeys, <<fr>>, <<en>>, TRUE),
                 EntryOf(AllKeys, <<fr, en>>, <<en, fr>>, TRUE),
                 EntryOf(AllKeys, <<>>, <<fr>>, TRUE),
                 EntryOf(AllKeys, <<fr>>, <<en>>, FALSE),
                 EntryOf(AllKeys, <<fr, IllTyped>>, <<en>>, TRUE),
                 EntryOf(AllKeys, <<fr>>, <<IllTyped>>, FALSE),
                 EntryOf(FirstKeys, <<fr>>, <<en>>, FALSE),
                 EntryOf(AllKeys \ {"domain"}, <<fr>>, <<en>>, TRUE)}

GoodEntries == [keys   : {AllKeys},
                domain : {news, web},
                source : {<<fr>>, <<fr, en>>, <<en, en>>},
                target : {<<>>, <<en, de>>, <<de, fr>>},
                spm    : {TRUE}]

UpTo(n, entries) == UNION {[1 .. m -> entries] : m \in 0 .. n}

ConfigurationOf(file, entries) == [file |-> file, entries |-> entries]

MCConfigurations ==
  {ConfigurationOf("missing", <<>>), ConfigurationOf("malformed", <<>>)} \cup
  {ConfigurationOf("ok", e) : e \in UpTo(3, MixedEntries) \cup UpTo(2, GoodEntries)}
=============================================================================
