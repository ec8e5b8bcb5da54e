---------------------------- MODULE ModelLoading ----------------------------
(***************************************************************************)
(* The REST server's constructor (abstract_server.cpp): it reads a YAML    *)
(* configuration and builds _list_translation_model, one model for each    *)
(* entry of "models", in one pass.                                         *)
(*                                                                         *)
(* The pass has one catch clause for an entry, of an exception that no     *)
(* step of it throws, and one for the whole, of BadFile.  Everything else  *)
(* ends the process: a YAML conversion that fails leaves main, and         *)
(* spm::spm calls exit.                                                    *)
(*                                                                         *)
(* Of an entry the model keeps which keys have a scalar value, its domain, *)
(* its lists of languages, and whether its SentencePiece model can be      *)
(* loaded.                                                                 *)
(***************************************************************************)
EXTENDS Integers, Sequences

CONSTANTS
  Domains,         \* the domains of the configurations
  Languages,       \* their languages
  Configurations   \* what YAML::LoadFile is given

\* The keys read with as<string>(); the first four before the languages.
FirstKeys      == {"domain", "nmt_model_address", "nmt_model_port", "spm_model"}
ProcessingKeys == {"source_language_processing", "target_language_processing"}

\* An element of a list of languages that is not a scalar.
IllTyped == "a list"

\* source, target: the list under "source_languages" or "target_languages"; a key
\* that is absent or holds a scalar has size() 0, so it is the empty list.
EntryType == [keys   : SUBSET STRING,
              domain : Domains,
              source : Seq(Languages \cup {IllTyped}),
              target : Seq(Languages \cup {IllTyped}),
              spm    : BOOLEAN]

ConfigurationType == [file : {"missing", "malformed", "ok"}, entries : Seq(EntryType)]

ASSUME LanguagesAssumption == IllTyped \notin Languages
ASSUME ConfigurationsAssumption ==
  /\ Configurations \subseteq ConfigurationType
  /\ \A f \in Configurations : f.file # "ok" => f.entries = <<>>

VARIABLES config,   \* the configuration
          pc,       \* the next step of the constructor, or how it ended
          entry,    \* the entry it is at
          source,   \* source_languages_vec
          target,   \* target_languages_vec
          models    \* _list_translation_model

vars == <<config, pc, entry, source, target, models>>

\* constructed; exit(1); or an exception that leaves main.
Ended == {"constructed", "exited", "aborted"}

Init == /\ config \in Configurations
        /\ pc = "file"
        /\ entry = 1
        /\ source = <<>>
        /\ target = <<>>
        /\ models = <<>>

Entry == config.entries[entry]

Goto(l) == pc' = l /\ UNCHANGED <<config, entry, source, target, models>>

-----------------------------------------------------------------------------
\* YAML::LoadFile: BadFile is caught, ParserException is not.
LoadFile == /\ pc = "file"
            /\ \/ config.file = "missing"   /\ Goto("exited")
               \/ config.file = "malformed" /\ Goto("aborted")
               \/ config.file = "ok"        /\ Goto("entry")

\* The loop over the models, and the first conversions of an entry.
LastEntry == /\ pc = "entry"
             /\ entry > Len(config.entries)
             /\ Goto("constructed")

ReadKeys == /\ pc = "entry"
            /\ entry <= Len(config.entries)
            /\ Goto(IF FirstKeys \subseteq Entry.keys THEN "source" ELSE "aborted")

\* The next element of a list of languages, after those already pushed.
ReadSource ==
  /\ pc = "source"
  /\ IF Len(source) = Len(Entry.source) THEN Goto("target")
     ELSE LET lang == Entry.source[Len(source) + 1]
          IN  IF lang = IllTyped THEN Goto("aborted")
              ELSE /\ source' = Append(source, lang)
                   /\ UNCHANGED <<config, pc, entry, target, models>>

ReadTarget ==
  /\ pc = "target"
  /\ IF Len(target) = Len(Entry.target) THEN Goto("processing")
     ELSE LET lang == Entry.target[Len(target) + 1]
          IN  IF lang = IllTyped THEN Goto("aborted")
              ELSE /\ target' = Append(target, lang)
                   /\ UNCHANGED <<config, pc, entry, source, models>>

ReadProcessingUnchecked ==  \* mutant: the keys' values are not converted
  pc = "processing" /\ Goto("load")

ReadProcessing ==
  /\ pc = "processing"
  /\ Goto(IF ProcessingKeys \subseteq Entry.keys THEN "load" ELSE "aborted")

\* new nmt, with its new spm; the vectors are local to an iteration.
Unloadable == /\ pc = "load"
              /\ ~ Entry.spm
              /\ Goto("exited")

LoadSwapped ==  \* mutant: the vectors in the wrong order
  /\ pc = "load" /\ Entry.spm
  /\ models' = Append(models, [domain |-> Entry.domain, source |-> target, target |-> source])
  /\ pc' = "entry" /\ entry' = entry + 1 /\ source' = <<>> /\ target' = <<>>
  /\ UNCHANGED config

LoadModel ==
  /\ pc = "load"
  /\ Entry.spm
  /\ models' = Append(models, [domain |-> Entry.domain, source |-> source, target |-> target])
  /\ pc' = "entry" /\ entry' = entry + 1 /\ source' = <<>> /\ target' = <<>>
  /\ UNCHANGED config

Next == \/ LoadFile \/ LastEntry \/ ReadKeys \/ ReadSource \/ ReadTarget
        \/ ReadProcessing \/ Unloadable \/ LoadModel

Spec == Init /\ [][Next]_vars

-----------------------------------------------------------------------------
ModelType == [domain : Domains, source : Seq(Languages), target : Seq(Languages)]

TypeOK == /\ config \in Configurations
          /\ pc \in Ended \cup {"file", "entry", "source", "target", "processing", "load"}
          /\ entry \in Nat \ {0}
          /\ source \in Seq(Languages)
          /\ target \in Seq(Languages)
          /\ models \in Seq(ModelType)

\* What an entry asks for, and what becomes of it.
Configured(i) == [domain |-> config.entries[i].domain, source |-> config.entries[i].source,
                  target |-> config.entries[i].target]

WellTyped(e) == /\ FirstKeys \cup ProcessingKeys \subseteq e.keys
                /\ \A i \in DOMAIN e.source : e.source[i] # IllTyped
                /\ \A i \in DOMAIN e.target : e.target[i] # IllTyped

Loadable(e) == WellTyped(e) /\ e.spm

\* A server that is constructed has every model of its configuration, in the order
\* of the file, each with its own languages and no others; there is no server with
\* some of its models (abstract_server.cpp:34-74).
AllOrNothing ==
  pc = "constructed" =>
    /\ Len(models) = Len(config.entries)
    /\ \A i \in DOMAIN models : models[i] = Configured(i) /\ Loadable(config.entries[i])

\* The first entry that cannot be loaded ends the process, and the way it ends tells
\* a model that is missing (spm.cpp:13) from an entry that is ill typed; a file that
\* is missing exits, one that cannot be parsed aborts (abstract_server.cpp:75-78).
FirstFailureEndsIt ==
  pc \in {"exited", "aborted"} =>
    \/ config.file # "ok" /\ (pc = "exited" <=> config.file = "missing")
    \/ /\ entry <= Len(config.entries)
       /\ \A i \in 1 .. entry - 1 : Loadable(config.entries[i])
       /\ ~ Loadable(config.entries[entry])
       /\ pc = "exited" <=> WellTyped(config.entries[entry])

\* Inductive: the models of the entries before this one, and as much of this one as
\* was read.
Prefix(s, t) == Len(s) <= Len(t) /\ \A i \in DOMAIN s : s[i] = t[i] /\ t[i] # IllTyped

Progress ==
  /\ pc = "file" => entry = 1 /\ models = <<>>
  /\ pc \in {"file", "entry"} => source = <<>> /\ target = <<>>
  /\ pc \notin Ended \cup {"file"} => config.file = "ok"
  /\ pc = "constructed" => entry = Len(config.entries) + 1
  /\ entry <= Len(config.entries) + 1
  /\ Len(models) = entry - 1
  /\ \A i \in DOMAIN models : models[i] = Configured(i) /\ Loadable(config.entries[i])

Reading ==
  /\ pc \in {"source", "target", "processing", "load"} =>
       /\ entry <= Len(config.entries)
       /\ FirstKeys \subseteq Entry.keys
       /\ Prefix(source, Entry.source)
       /\ Prefix(target, Entry.target)
  /\ pc \in {"target", "processing", "load"} => Len(source) = Len(Entry.source)
  /\ pc \in {"processing", "load"} => Len(target) = Len(Entry.target)
  /\ pc = "load" => ProcessingKeys \subseteq Entry.keys

IInv == TypeOK /\ Progress /\ Reading /\ FirstFailureEndsIt
=============================================================================
