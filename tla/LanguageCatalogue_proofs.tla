----------------------- MODULE LanguageCatalogue_proofs -----------------------
(* The configuration is loaded whole or not at all, and what the answer to   *)
(* GET /translate/ lists is what was loaded, for every configuration: first  *)
(* the loading (ModelLoading), then the catalogue.                           *)
EXTENDS LanguageCatalogue, FiniteSetTheorems, TLAPS

\* The entry being read.
LEMMA EntryTyped ==
  ASSUME TypeOK, entry <= Len(config.entries)
  PROVE  /\ entry \in DOMAIN config.entries
         /\ Entry \in EntryType
         /\ Entry.source \in Seq(Languages \cup {IllTyped})
         /\ Entry.target \in Seq(Languages \cup {IllTyped})
<1>1. config \in ConfigurationType
  BY ConfigurationsAssumption DEF TypeOK
<1>2. config.entries \in Seq(EntryType) /\ entry \in DOMAIN config.entries
  BY <1>1 DEF ConfigurationType, TypeOK
<1>3. Entry \in EntryType
  BY <1>2 DEF Entry
<1>. QED
  BY <1>2, <1>3 DEF EntryType

LEMMA ElementTyped ==
  ASSUME NEW S, NEW t \in Seq(S), NEW i \in 1 .. Len(t)
  PROVE  t[i] \in S
OBVIOUS

\* One more element of a prefix.
LEMMA PrefixGrows ==
  ASSUME NEW s \in Seq(Languages), NEW t \in Seq(Languages \cup {IllTyped}),
         Prefix(s, t), Len(s) # Len(t), t[Len(s) + 1] # IllTyped
  PROVE  /\ Append(s, t[Len(s) + 1]) \in Seq(Languages)
         /\ Prefix(Append(s, t[Len(s) + 1]), t)
<1>. DEFINE n == Len(s)
            x == t[n + 1]
<1>1. n \in Nat /\ Len(t) \in Nat /\ n <= Len(t) /\ n # Len(t)
  BY DEF Prefix
<1>2. n + 1 \in 1 .. Len(t) /\ DOMAIN t = 1 .. Len(t) /\ DOMAIN s = 1 .. n
  BY <1>1
<1>3. x \in Languages
  <2>. DEFINE All == Languages \cup {IllTyped}
  <2>1. t \in Seq(All)
    OBVIOUS
  <2>2. \A y \in All : y # IllTyped => y \in Languages
    OBVIOUS
  <2>. HIDE DEF All
  <2>3. t[n + 1] \in All
    BY <1>2, <2>1, ElementTyped
  <2>. QED
    BY <2>2, <2>3
<1>4. \A i \in 1 .. n : s[i] = t[i] /\ t[i] # IllTyped
  BY <1>2 DEF Prefix
<1>5. x = t[n + 1] /\ x # IllTyped
  OBVIOUS
<1>. HIDE DEF x
<1>6. /\ Append(s, x) \in Seq(Languages)
      /\ Len(Append(s, x)) = n + 1
      /\ DOMAIN Append(s, x) = 1 .. n + 1
      /\ Append(s, x)[n + 1] = x
      /\ \A i \in 1 .. n : Append(s, x)[i] = s[i]
  BY <1>3
<1>7. \A i \in 1 .. n + 1 : Append(s, x)[i] = t[i] /\ t[i] # IllTyped
  BY <1>1, <1>4, <1>5, <1>6
<1>8. Prefix(Append(s, x), t)
  BY <1>1, <1>6, <1>7 DEF Prefix
<1>. QED
  BY <1>6, <1>8 DEF x

\* A prefix that has all of it is the whole, and the whole is well typed.
LEMMA PrefixWhole ==
  ASSUME NEW s \in Seq(Languages), NEW t \in Seq(Languages \cup {IllTyped}),
         Prefix(s, t), Len(s) = Len(t)
  PROVE  s = t /\ \A i \in DOMAIN t : t[i] # IllTyped
<1>1. DOMAIN s = 1 .. Len(s) /\ DOMAIN t = 1 .. Len(s)
  BY DEF Prefix
<1>2. \A i \in 1 .. Len(s) : s[i] = t[i] /\ t[i] # IllTyped
  BY <1>1 DEF Prefix
<1>3. s = [i \in 1 .. Len(s) |-> s[i]] /\ t = [i \in 1 .. Len(s) |-> t[i]]
  BY <1>1
<1>. QED
  BY <1>1, <1>2, <1>3

\* At the end of an entry's reading it is known to be well typed.
LEMMA ReadWhole ==
  ASSUME IInv, pc = "load"
  PROVE  /\ entry \in 1 .. Len(config.entries)
         /\ source = Entry.source /\ target = Entry.target
         /\ WellTyped(Entry)
<1>1. /\ entry <= Len(config.entries)
      /\ FirstKeys \subseteq Entry.keys /\ ProcessingKeys \subseteq Entry.keys
      /\ Prefix(source, Entry.source) /\ Prefix(target, Entry.target)
      /\ Len(source) = Len(Entry.source) /\ Len(target) = Len(Entry.target)
  BY DEF IInv, Reading
<1>2. /\ entry \in DOMAIN config.entries
      /\ Entry.source \in Seq(Languages \cup {IllTyped})
      /\ Entry.target \in Seq(Languages \cup {IllTyped})
  BY <1>1, EntryTyped DEF IInv
<1>3. source \in Seq(Languages) /\ target \in Seq(Languages) /\ entry \in Nat \ {0}
  BY DEF IInv, TypeOK
<1>4. source = Entry.source /\ \A i \in DOMAIN Entry.source : Entry.source[i] # IllTyped
  BY <1>1, <1>2, <1>3, PrefixWhole
<1>5. target = Entry.target /\ \A i \in DOMAIN Entry.target : Entry.target[i] # IllTyped
  BY <1>1, <1>2, <1>3, PrefixWhole
<1>6. Len(config.entries) \in Nat
  BY ConfigurationsAssumption DEF IInv, TypeOK, ConfigurationType
<1>. QED
  BY <1>1, <1>3, <1>4, <1>5, <1>6 DEF WellTyped

-----------------------------------------------------------------------------
LEMMA InitInvariant == Init => IInv
<1>. SUFFICES ASSUME Init PROVE IInv
  OBVIOUS
<1>1. config \in ConfigurationType
  BY ConfigurationsAssumption DEF Init
<1>2. Len(config.entries) \in Nat
  BY <1>1 DEF ConfigurationType
<1>3. TypeOK
  BY DEF Init, TypeOK
<1>. QED
  BY <1>2, <1>3 DEF Init, IInv, Progress, Reading, FirstFailureEndsIt, Ended

\* A step that only moves the program counter.
LEMMA GotoInvariant ==
  ASSUME IInv, NEW l \in Ended \cup {"entry", "source", "target", "processing", "load"},
         Goto(l),
         l \notin Ended => config.file = "ok",
         l = "constructed" => entry = Len(config.entries) + 1,
         l = "entry" => source = <<>> /\ target = <<>>,
         Reading', FirstFailureEndsIt'
  PROVE  IInv'
<1>1. TypeOK'
  BY DEF IInv, TypeOK, Goto
<1>2. Progress'
  BY DEF IInv, Progress, Goto, Configured, Ended
<1>. QED
  BY <1>1, <1>2 DEF IInv

\* An entry found wanting is the first one that cannot be loaded.
LEMMA FailingEntry ==
  ASSUME IInv, config.file = "ok", entry <= Len(config.entries),
         ~ Loadable(Entry),
         NEW l \in {"exited", "aborted"}, Goto(l), l = "exited" <=> WellTyped(Entry)
  PROVE  FirstFailureEndsIt'
<1>1. /\ entry \in Nat \ {0} /\ Len(models) = entry - 1 /\ models \in Seq(ModelType)
      /\ \A i \in DOMAIN models : Loadable(config.entries[i])
  BY DEF IInv, TypeOK, Progress
<1>2. \A i \in 1 .. entry - 1 : Loadable(config.entries[i])
  BY <1>1
<1>3. config' = config /\ entry' = entry /\ pc' = l
  BY DEF Goto
<1>. QED
  BY <1>1, <1>2, <1>3 DEF FirstFailureEndsIt, Loadable, Entry, WellTyped

LEMMA NextInvariant == IInv /\ [Next]_vars => IInv'
<1>. SUFFICES ASSUME IInv, [Next]_vars PROVE IInv'
  OBVIOUS
<1>0. TypeOK /\ Progress /\ Reading /\ FirstFailureEndsIt
  BY DEF IInv
<1>01. Len(config.entries) \in Nat /\ entry \in Nat \ {0}
  BY <1>0, ConfigurationsAssumption DEF TypeOK, ConfigurationType
<1>1. CASE LoadFile
  <2>1. pc = "file"
    BY <1>1 DEF LoadFile
  <2>2. CASE config.file = "missing" /\ Goto("exited")
    <3>1. Reading' /\ FirstFailureEndsIt'
      BY <2>2 DEF Goto, Reading, FirstFailureEndsIt
    <3>. QED
      BY <2>2, <3>1, GotoInvariant DEF Ended
  <2>3. CASE config.file = "malformed" /\ Goto("aborted")
    <3>1. Reading' /\ FirstFailureEndsIt'
      BY <2>3 DEF Goto, Reading, FirstFailureEndsIt
    <3>. QED
      BY <2>3, <3>1, GotoInvariant DEF Ended
  <2>4. CASE config.file = "ok" /\ Goto("entry")
    <3>1. Reading' /\ FirstFailureEndsIt'
      BY <2>4 DEF Goto, Reading, FirstFailureEndsIt
    <3>2. source = <<>> /\ target = <<>>
      BY <1>0, <2>1 DEF Progress
    <3>. QED
      BY <2>4, <3>1, <3>2, GotoInvariant DEF Ended
  <2>. QED
    BY <1>1, <2>2, <2>3, <2>4 DEF LoadFile
<1>2. CASE LastEntry
  <2>1. /\ pc = "entry" /\ entry > Len(config.entries) /\ Goto("constructed")
        /\ entry <= Len(config.entries) + 1
    BY <1>0, <1>2 DEF LastEntry, Progress
  <2>2. entry = Len(config.entries) + 1
    BY <1>01, <2>1
  <2>3. Reading' /\ FirstFailureEndsIt'
    BY <2>1 DEF Goto, Reading, FirstFailureEndsIt
  <2>. QED
    BY <2>1, <2>2, <2>3, GotoInvariant DEF Ended
<1>3. CASE ReadKeys
  <2>1. /\ pc = "entry" /\ entry <= Len(config.entries)
        /\ config.file = "ok" /\ source = <<>> /\ target = <<>>
    BY <1>0, <1>3 DEF ReadKeys, Progress, Ended
  <2>2. CASE FirstKeys \subseteq Entry.keys /\ Goto("source")
    <3>1. Prefix(source, Entry.source) /\ Prefix(target, Entry.target)
      BY <1>0, <2>1, EntryTyped DEF Prefix
    <3>2. Reading'
      BY <2>1, <2>2, <3>1 DEF Goto, Reading, Entry, Prefix
    <3>3. FirstFailureEndsIt'
      BY <2>2 DEF Goto, FirstFailureEndsIt
    <3>. QED
      BY <2>1, <2>2, <3>2, <3>3, GotoInvariant DEF Ended
  <2>3. CASE ~ (FirstKeys \subseteq Entry.keys) /\ Goto("aborted")
    <3>1. ~ WellTyped(Entry)
      BY <2>3 DEF WellTyped
    <3>2. FirstFailureEndsIt'
      BY <1>0, <1>01, <2>1, <2>3, <3>1, FailingEntry DEF Loadable
    <3>3. Reading'
      BY <2>3 DEF Goto, Reading
    <3>. QED
      BY <2>3, <3>2, <3>3, GotoInvariant DEF Ended
  <2>. QED
    BY <1>3, <2>2, <2>3 DEF ReadKeys
<1>4. CASE ReadSource
  <2>1. /\ pc = "source" /\ entry <= Len(config.entries) /\ config.file = "ok"
        /\ FirstKeys \subseteq Entry.keys
        /\ Prefix(source, Entry.source) /\ Prefix(target, Entry.target)
        /\ source \in Seq(Languages)
    BY <1>0, <1>4 DEF ReadSource, Progress, Reading, Ended, TypeOK
  <2>2. entry \in DOMAIN config.entries /\ Entry.source \in Seq(Languages \cup {IllTyped})
    BY <1>0, <2>1, EntryTyped
  <2>3. CASE Len(source) = Len(Entry.source) /\ Goto("target")
    <3>1. Reading'
      BY <2>1, <2>3 DEF Goto, Reading, Entry, Prefix
    <3>2. FirstFailureEndsIt'
      BY <2>3 DEF Goto, FirstFailureEndsIt
    <3>. QED
      BY <2>1, <2>3, <3>1, <3>2, GotoInvariant DEF Ended
  <2>4. CASE /\ Len(source) # Len(Entry.source)
             /\ Entry.source[Len(source) + 1] = IllTyped
             /\ Goto("aborted")
    <3>1. ~ WellTyped(Entry)
      <4>1. Len(source) + 1 \in DOMAIN Entry.source
        BY <2>1, <2>2, <2>4 DEF Prefix
      <4>. QED
        BY <2>4, <4>1 DEF WellTyped
    <3>2. FirstFailureEndsIt'
      BY <1>0, <1>01, <2>1, <2>4, <3>1, FailingEntry DEF Loadable
    <3>3. Reading'
      BY <2>4 DEF Goto, Reading
    <3>. QED
      BY <2>4, <3>2, <3>3, GotoInvariant DEF Ended
  <2>5. CASE /\ Len(source) # Len(Entry.source)
             /\ Entry.source[Len(source) + 1] # IllTyped
             /\ source' = Append(source, Entry.source[Len(source) + 1])
             /\ UNCHANGED <<config, pc, entry, target, models>>
    <3>1. source' \in Seq(Languages) /\ Prefix(source', Entry.source)
      BY <2>1, <2>2, <2>5, PrefixGrows
    <3>2. TypeOK'
      BY <1>0, <2>5, <3>1 DEF TypeOK
    <3>3. Progress'
      BY <1>0, <2>1, <2>5 DEF Progress, Configured
    <3>4. Reading'
      BY <2>1, <2>5, <3>1 DEF Reading, Entry, Prefix
    <3>5. FirstFailureEndsIt'
      BY <2>1, <2>5 DEF FirstFailureEndsIt
    <3>. QED
      BY <3>2, <3>3, <3>4, <3>5 DEF IInv
  <2>. QED
    BY <1>4, <2>3, <2>4, <2>5 DEF ReadSource
<1>5. CASE ReadTarget
  <2>1. /\ pc = "target" /\ entry <= Len(config.entries) /\ config.file = "ok"
        /\ FirstKeys \subseteq Entry.keys
        /\ Prefix(source, Entry.source) /\ Prefix(target, Entry.target)
        /\ Len(source) = Len(Entry.source)
        /\ target \in Seq(Languages)
    BY <1>0, <1>5 DEF ReadTarget, Progress, Reading, Ended, TypeOK
  <2>2. entry \in DOMAIN config.entries /\ Entry.target \in Seq(Languages \cup {IllTyped})
    BY <1>0, <2>1, EntryTyped
  <2>3. CASE Len(target) = Len(Entry.target) /\ Goto("processing")
    <3>1. Reading'
      BY <2>1, <2>3 DEF Goto, Reading, Entry, Prefix
    <3>2. FirstFailureEndsIt'
      BY <2>3 DEF Goto, FirstFailureEndsIt
    <3>. QED
      BY <2>1, <2>3, <3>1, <3>2, GotoInvariant DEF Ended
  <2>4. CASE /\ Len(target) # Len(Entry.target)
             /\ Entry.target[Len(target) + 1] = IllTyped
             /\ Goto("aborted")
    <3>1. ~ WellTyped(Entry)
      <4>1. Len(target) + 1 \in DOMAIN Entry.target
        BY <2>1, <2>2, <2>4 DEF Prefix
      <4>. QED
        BY <2>4, <4>1 DEF WellTyped
    <3>2. FirstFailureEndsIt'
      BY <1>0, <1>01, <2>1, <2>4, <3>1, FailingEntry DEF Loadable
    <3>3. Reading'
      BY <2>4 DEF Goto, Reading
    <3>. QED
      BY <2>4, <3>2, <3>3, GotoInvariant DEF Ended
  <2>5. CASE /\ Len(target) # Len(Entry.target)
             /\ Entry.target[Len(target) + 1] # IllTyped
             /\ target' = Append(target, Entry.target[Len(target) + 1])
             /\ UNCHANGED <<config, pc, entry, source, models>>
    <3>1. target' \in Seq(Languages) /\ Prefix(target', Entry.target)
      BY <2>1, <2>2, <2>5, PrefixGrows
    <3>2. TypeOK'
      BY <1>0, <2>5, <3>1 DEF TypeOK
    <3>3. Progress'
      BY <1>0, <2>1, <2>5 DEF Progress, Configured
    <3>4. Reading'
      BY <2>1, <2>5, <3>1 DEF Reading, Entry, Prefix
    <3>5. FirstFailureEndsIt'
      BY <2>1, <2>5 DEF FirstFailureEndsIt
    <3>. QED
      BY <3>2, <3>3, <3>4, <3>5 DEF IInv
  <2>. QED
    BY <1>5, <2>3, <2>4, <2>5 DEF ReadTarget
<1>6. CASE ReadProcessing
  <2>1. pc = "processing" /\ entry <= Len(config.entries) /\ config.file = "ok"
    BY <1>0, <1>6 DEF ReadProcessing, Progress, Reading, Ended
  <2>2. CASE ProcessingKeys \subseteq Entry.keys /\ Goto("load")
    <3>1. Reading'
      BY <1>0, <2>1, <2>2 DEF Goto, Reading, Entry, Prefix
    <3>2. FirstFailureEndsIt'
      BY <2>2 DEF Goto, FirstFailureEndsIt
    <3>. QED
      BY <2>1, <2>2, <3>1, <3>2, GotoInvariant DEF Ended
  <2>3. CASE ~ (ProcessingKeys \subseteq Entry.keys) /\ Goto("aborted")
    <3>1. ~ WellTyped(Entry)
      BY <2>3 DEF WellTyped
    <3>2. FirstFailureEndsIt'
      BY <1>0, <1>01, <2>1, <2>3, <3>1, FailingEntry DEF Loadable
    <3>3. Reading'
      BY <2>3 DEF Goto, Reading
    <3>. QED
      BY <2>3, <3>2, <3>3, GotoInvariant DEF Ended
  <2>. QED
    BY <1>6, <2>2, <2>3 DEF ReadProcessing
<1>7. CASE Unloadable
  <2>1. pc = "load" /\ ~ Entry.spm /\ Goto("exited")
    BY <1>7 DEF Unloadable
  <2>2. entry \in 1 .. Len(config.entries) /\ WellTyped(Entry)
    BY <2>1, ReadWhole
  <2>3. FirstFailureEndsIt'
    <3>1. config.file = "ok" /\ entry <= Len(config.entries) /\ ~ Loadable(Entry)
      BY <1>0, <1>01, <2>1, <2>2 DEF Progress, Ended, Loadable
    <3>. QED
      BY <2>1, <2>2, <3>1, FailingEntry
  <2>4. Reading'
    BY <2>1 DEF Goto, Reading
  <2>. QED
    BY <2>1, <2>3, <2>4, GotoInvariant DEF Ended
<1>8. CASE LoadModel
  <2>. DEFINE m == [domain |-> Entry.domain, source |-> source, target |-> target]
  <2>1. /\ pc = "load" /\ Entry.spm
        /\ models' = Append(models, m)
        /\ pc' = "entry" /\ entry' = entry + 1
        /\ source' = <<>> /\ target' = <<>> /\ config' = config
    BY <1>8 DEF LoadModel
  <2>2. /\ entry \in 1 .. Len(config.entries)
        /\ source = Entry.source /\ target = Entry.target
        /\ WellTyped(Entry)
    BY <2>1, ReadWhole
  <2>. DEFINE name == Entry.domain
  <2>20. name \in Domains
    BY <1>0, <1>01, <2>2, EntryTyped DEF EntryType
  <2>21. Configured(entry) = m /\ Loadable(config.entries[entry])
    BY <2>1, <2>2 DEF Configured, Loadable, Entry
  <2>22. source \in Seq(Languages) /\ target \in Seq(Languages)
    BY <1>0 DEF TypeOK
  <2>. HIDE DEF name
  <2>23. [domain |-> name, source |-> source, target |-> target] \in ModelType
    BY <2>20, <2>22 DEF ModelType
  <2>24. m \in ModelType
    BY <2>23 DEF name
  <2>3. m = Configured(entry) /\ Loadable(config.entries[entry]) /\ m \in ModelType
    BY <2>21, <2>24
  <2>4. models \in Seq(ModelType) /\ Len(models) = entry - 1 /\ config.file = "ok"
    BY <1>0, <2>1 DEF TypeOK, Progress, Ended
  <2>. HIDE DEF m
  <2>5. /\ models' \in Seq(ModelType)
        /\ Len(models') = entry
        /\ DOMAIN models' = 1 .. entry /\ DOMAIN models = 1 .. entry - 1
        /\ models'[entry] = m
        /\ \A i \in 1 .. entry - 1 : models'[i] = models[i]
    BY <1>01, <2>1, <2>3, <2>4
  <2>6. \A i \in 1 .. entry - 1 : models[i] = Configured(i) /\ Loadable(config.entries[i])
    BY <1>0, <2>5 DEF Progress
  <2>7. \A i \in 1 .. entry : models'[i] = Configured(i) /\ Loadable(config.entries[i])
    BY <1>01, <2>3, <2>5, <2>6
  <2>8. TypeOK'
    BY <1>0, <2>1, <2>5 DEF TypeOK
  <2>9. Progress'
    BY <1>01, <2>1, <2>2, <2>4, <2>5, <2>7 DEF Progress, Configured, Ended
  <2>10. Reading' /\ FirstFailureEndsIt'
    BY <2>1 DEF Reading, FirstFailureEndsIt
  <2>. QED
    BY <2>8, <2>9, <2>10 DEF IInv
<1>9. CASE UNCHANGED vars
  BY <1>0, <1>9 DEF IInv, TypeOK, Progress, Reading, FirstFailureEndsIt, vars, Entry,
                    Configured
<1>. QED
  BY <1>1, <1>2, <1>3, <1>4, <1>5, <1>6, <1>7, <1>8, <1>9 DEF Next

LEMMA Invariant == Spec => []IInv
BY InitInvariant, NextInvariant, PTL DEF Spec

-----------------------------------------------------------------------------
\* The locals and the list of models keep their types: no list of a model ever has
\* an element that is not a language.
THEOREM TypeCorrect == Spec => []TypeOK
<1>1. IInv => TypeOK
  BY DEF IInv
<1>. QED
  BY <1>1, Invariant, PTL

\* A server that is constructed has all the models of its configuration, each with
\* its own languages, however long the configuration is.
THEOREM AllOrNothingHolds == Spec => []AllOrNothing
<1>1. IInv => AllOrNothing
  <2>. SUFFICES ASSUME IInv, pc = "constructed"
                PROVE  /\ Len(models) = Len(config.entries)
                       /\ \A i \in DOMAIN models :
                            models[i] = Configured(i) /\ Loadable(config.entries[i])
    BY DEF AllOrNothing
  <2>1. /\ entry = Len(config.entries) + 1 /\ Len(models) = entry - 1
        /\ \A i \in DOMAIN models : models[i] = Configured(i) /\ Loadable(config.entries[i])
    BY DEF IInv, Progress
  <2>2. Len(config.entries) \in Nat
    BY ConfigurationsAssumption DEF IInv, TypeOK, ConfigurationType
  <2>. QED
    BY <2>1, <2>2
<1>. QED
  BY <1>1, Invariant, PTL

\* The first entry that cannot be loaded ends the process, and what is wrong with it
\* decides how.
THEOREM FirstFailureEndsItHolds == Spec => []FirstFailureEndsIt
<1>1. IInv => FirstFailureEndsIt
  BY DEF IInv
<1>. QED
  BY <1>1, Invariant, PTL

-----------------------------------------------------------------------------
\* The source and the target that the loops are at are languages, of a model that
\* fits them.
LEMMA CurrentFits ==
  ASSUME TypeOK, CatalogueTypeOK, Position, at = "target", inc_tgt <= Len(Current.target)
  PROVE  /\ Src \in Languages /\ Tgt \in Languages /\ Current.domain \in Domains
         /\ Fitting(Current.domain, Src, Tgt) # {}
<1>1. inc \in DOMAIN models /\ Current \in ModelType
  BY DEF TypeOK, CatalogueTypeOK, Position, Current
<1>2. Current.source \in Seq(Languages) /\ Current.target \in Seq(Languages)
  BY <1>1 DEF ModelType
<1>3. inc_src \in DOMAIN Current.source /\ inc_tgt \in DOMAIN Current.target
  BY <1>2 DEF CatalogueTypeOK, Position
<1>4. Src \in Languages /\ Tgt \in Languages
  BY <1>2, <1>3 DEF Src, Tgt
<1>5. inc \in Fitting(Current.domain, Src, Tgt)
  BY <1>1, <1>3 DEF Fitting, isSrcLang, isTgtLang, Current, Src, Tgt
<1>. QED
  BY <1>1, <1>4, <1>5 DEF ModelType

\* The entry of a known source, with one more domain under a target.
HasOneMore(new, object, t, d) ==
  /\ DOMAIN new = DOMAIN object \cup {t}
  /\ new \in [DOMAIN new -> Seq(Domains)]
  /\ \A u \in DOMAIN new : \A n \in DOMAIN new[u] :
       \/ u \in DOMAIN object /\ n \in DOMAIN object[u] /\ new[u][n] = object[u][n]
       \/ u = t /\ new[u][n] = d

LEMMA KnownGrows ==
  ASSUME NEW d \in Domains, NEW t, NEW object, object \in [DOMAIN object -> Seq(Domains)]
  PROVE  HasOneMore(Grown(object, t, d), object, t, d)
<1>1. CASE t \in DOMAIN object
  <2>. DEFINE new == [object EXCEPT ![t] = Append(@, d)]
  <2>1. DOMAIN new = DOMAIN object \cup {t}
    BY <1>1
  <2>2. object[t] \in Seq(Domains) /\ new[t] = Append(object[t], d)
    BY <1>1
  <2>3. \A u \in DOMAIN object \ {t} : new[u] = object[u]
    BY <1>1
  <2>4. new[t] \in Seq(Domains)
    BY <2>2
  <2>5. \A n \in DOMAIN new[t] : \/ n \in DOMAIN object[t] /\ new[t][n] = object[t][n]
                                 \/ new[t][n] = d
    BY <2>2
  <2>6. new \in [DOMAIN new -> Seq(Domains)]
    BY <1>1, <2>2
  <2>. HIDE DEF new
  <2>7. \A u \in DOMAIN new : \A n \in DOMAIN new[u] :
          \/ u \in DOMAIN object /\ n \in DOMAIN object[u] /\ new[u][n] = object[u][n]
          \/ u = t /\ new[u][n] = d
    BY <1>1, <2>1, <2>3, <2>5
  <2>. QED
    BY <1>1, <2>1, <2>6, <2>7 DEF new, Grown, HasOneMore
<1>2. CASE t \notin DOMAIN object
  <2>. DEFINE new == Insert(object, t, <<d>>)
  <2>1. DOMAIN new = DOMAIN object \cup {t}
    BY DEF Insert
  <2>2. new[t] = <<d>> /\ \A u \in DOMAIN object : new[u] = object[u]
    BY <1>2 DEF Insert
  <2>3. new = [u \in DOMAIN new |-> new[u]]
    BY DEF Insert
  <2>4. <<d>> \in Seq(Domains) /\ DOMAIN <<d>> = {1} /\ <<d>>[1] = d
    OBVIOUS
  <2>. HIDE DEF new
  <2>5. new \in [DOMAIN new -> Seq(Domains)]
    BY <2>1, <2>2, <2>3, <2>4
  <2>6. \A u \in DOMAIN new : \A n \in DOMAIN new[u] :
          \/ u \in DOMAIN object /\ n \in DOMAIN object[u] /\ new[u][n] = object[u][n]
          \/ u = t /\ new[u][n] = d
    BY <2>1, <2>2, <2>4
  <2>. QED
    BY <1>2, <2>1, <2>5, <2>6 DEF new, Grown, HasOneMore
<1>. QED
  BY <1>1, <1>2

\* The value under a source after AddTarget.
SourceEntry(s) == /\ DOMAIN languages'[s] \subseteq Languages
                  /\ languages'[s] \in [DOMAIN languages'[s] -> Seq(Domains)]

\* An element of the catalogue is an old one or the one added.
OldOrAdded(s, t, n) ==
  \/ /\ s \in DOMAIN languages /\ t \in DOMAIN languages[s] /\ n \in DOMAIN languages[s][t]
     /\ languages'[s][t][n] = languages[s][t][n]
  \/ s = Src /\ t = Tgt /\ languages'[s][t][n] = Current.domain

\* AddTarget adds nothing but the current source, target and domain.
LEMMA AddTargetAdds ==
  ASSUME TypeOK, CatalogueTypeOK, Position, AddTarget
  PROVE  /\ DOMAIN languages' = DOMAIN languages \cup {Src}
         /\ \A s \in DOMAIN languages' : SourceEntry(s)
         /\ \A s \in DOMAIN languages' : \A t \in DOMAIN languages'[s] :
              \A n \in DOMAIN languages'[s][t] : OldOrAdded(s, t, n)
<1>1. Src \in Languages /\ Tgt \in Languages /\ Current.domain \in Domains
  BY CurrentFits DEF AddTarget
<1>2. \A s \in DOMAIN languages : /\ DOMAIN languages[s] \subseteq Languages
                                  /\ languages[s] \in [DOMAIN languages[s] -> Seq(Domains)]
  BY DEF CatalogueTypeOK
<1>3. CASE known
  <2>. DEFINE old == languages[Src]
              d   == Current.domain
              new == Grown(old, Tgt, d)
  <2>1. Src \in DOMAIN languages
    BY <1>3 DEF Position, AddTarget
  <2>2. languages' = [languages EXCEPT ![Src] = new]
    <3>1. languages' = AddToKnown
      BY <1>3 DEF AddTarget
    <3>. QED
      BY <3>1 DEF AddToKnown
  <2>3. old \in [DOMAIN old -> Seq(Domains)] /\ DOMAIN old \subseteq Languages
    BY <1>2, <2>1
  <2>4. /\ DOMAIN new = DOMAIN old \cup {Tgt}
        /\ new \in [DOMAIN new -> Seq(Domains)]
        /\ \A u \in DOMAIN new : \A n \in DOMAIN new[u] :
             \/ u \in DOMAIN old /\ n \in DOMAIN old[u] /\ new[u][n] = old[u][n]
             \/ u = Tgt /\ new[u][n] = d
    <3>1. d \in Domains
      BY <1>1
    <3>2. HasOneMore(new, old, Tgt, d)
      <4>. HIDE DEF old, d
      <4>. QED
        BY <2>3, <3>1, KnownGrows
    <3>. QED
      BY <3>2 DEF HasOneMore
  <2>. HIDE DEF new
  <2>5. /\ DOMAIN languages' = DOMAIN languages
        /\ languages'[Src] = new
        /\ \A s \in DOMAIN languages \ {Src} : languages'[s] = languages[s]
    BY <2>1, <2>2
  <2>6. \A s \in DOMAIN languages' : SourceEntry(s)
    BY <1>1, <1>2, <2>3, <2>4, <2>5 DEF SourceEntry
  <2>7. \A s \in DOMAIN languages' : \A t \in DOMAIN languages'[s] :
          \A n \in DOMAIN languages'[s][t] : OldOrAdded(s, t, n)
    BY <2>1, <2>4, <2>5 DEF OldOrAdded
  <2>. QED
    BY <2>1, <2>5, <2>6, <2>7
<1>4. CASE ~ known
  <2>. DEFINE none == [t \in {} |-> <<>>]
              new == Insert(none, Tgt, <<Current.domain>>)
  <2>1. languages' = Insert(languages, Src, new)
    BY <1>4 DEF AddTarget, AddToNew
  <2>2. /\ DOMAIN new = {Tgt} /\ new[Tgt] = <<Current.domain>>
        /\ new = [u \in DOMAIN new |-> new[u]]
    BY DEF Insert
  <2>3. <<Current.domain>> \in Seq(Domains) /\ DOMAIN <<Current.domain>> = {1}
        /\ <<Current.domain>>[1] = Current.domain
    BY <1>1
  <2>. HIDE DEF new
  <2>4. /\ DOMAIN languages' = DOMAIN languages \cup {Src}
        /\ \A s \in DOMAIN languages : languages'[s] = languages[s]
        /\ Src \notin DOMAIN languages => languages'[Src] = new
    BY <2>1 DEF Insert
  <2>5. new \in [DOMAIN new -> Seq(Domains)] /\ DOMAIN new \subseteq Languages
    BY <1>1, <2>2, <2>3
  <2>6. \A s \in DOMAIN languages' : SourceEntry(s)
    BY <1>2, <2>4, <2>5 DEF SourceEntry
  <2>7. \A s \in DOMAIN languages' : \A t \in DOMAIN languages'[s] :
          \A n \in DOMAIN languages'[s][t] : OldOrAdded(s, t, n)
    BY <2>2, <2>3, <2>4 DEF OldOrAdded
  <2>. QED
    BY <2>4, <2>6, <2>7
<1>. QED
  BY <1>3, <1>4 DEF CatalogueTypeOK

-----------------------------------------------------------------------------
LEMMA CatalogueInitInvariant == CatalogueInit => CatalogueInv
<1>. SUFFICES ASSUME CatalogueInit PROVE CatalogueInv
  OBVIOUS
<1>1. IInv
  BY InitInvariant DEF CatalogueInit
<1>2. /\ inc = 1 /\ inc_src = 1 /\ inc_tgt = 1 /\ known = FALSE /\ at = "source"
      /\ languages = [s \in {} |-> <<>>] /\ DOMAIN languages = {}
      /\ models = <<>>
  BY DEF CatalogueInit, Init
<1>. QED
  <2>1. Len(models) = 0
    BY <1>2
  <2>2. CatalogueTypeOK
    <3>1. known \in BOOLEAN
      BY <1>2
    <3>2. inc \in 1 .. Len(models) + 1
      BY <1>2, <2>1
    <3>. QED
      BY <1>2, <3>1, <3>2 DEF CatalogueTypeOK
  <2>3. Sound /\ Position
    BY <1>2 DEF Sound, Position
  <2>. QED
    BY <1>1, <2>2, <2>3 DEF CatalogueInv

LEMMA LoadInvariant == CatalogueInv /\ Load => CatalogueInv'
<1>. SUFFICES ASSUME CatalogueInv, Load PROVE CatalogueInv'
  OBVIOUS
<1>1. IInv'
  BY NextInvariant DEF CatalogueInv, Load
<1>2. pc # "constructed"
  BY DEF Load, Next, LoadFile, LastEntry, ReadKeys, ReadSource, ReadTarget, ReadProcessing,
         Unloadable, LoadModel
<1>3. /\ at = "source" /\ inc = 1 /\ inc_src = 1 /\ languages = [s \in {} |-> <<>>]
      /\ inc_tgt \in Nat \ {0} /\ known \in BOOLEAN
  BY <1>2 DEF CatalogueInv, Position, CatalogueTypeOK
<1>4. UNCHANGED <<inc, inc_src, inc_tgt, known, languages, at>>
  BY DEF Load, catalogue_vars
<1>5. Len(models') \in Nat
  BY <1>1 DEF IInv, TypeOK
<1>. QED
  BY <1>1, <1>3, <1>4, <1>5 DEF CatalogueInv, CatalogueTypeOK, Sound, Position

\* The loops leave what was loaded alone.
LEMMA ListingKeeps ==
  ASSUME IInv, Listing
  PROVE  /\ IInv' /\ models' = models /\ pc' = pc /\ pc = "constructed"
         /\ Len(models) \in Nat
<1>1. IInv'
  BY NextInvariant DEF Listing
<1>. QED
  BY <1>1 DEF Listing, vars, IInv, TypeOK

LEMMA AddTargetInvariant == CatalogueInv /\ AddTarget => CatalogueInv'
<1>. SUFFICES ASSUME CatalogueInv, AddTarget PROVE CatalogueInv'
  OBVIOUS
<1>1. /\ IInv' /\ models' = models /\ pc' = pc /\ pc = "constructed"
      /\ Len(models) \in Nat
  BY ListingKeeps DEF CatalogueInv, AddTarget
<1>2. /\ TypeOK /\ CatalogueTypeOK /\ Position /\ Sound
      /\ at = "target" /\ inc_tgt <= Len(Current.target)
      /\ inc_tgt' = inc_tgt + 1
      /\ inc' = inc /\ inc_src' = inc_src /\ known' = known /\ at' = at
  BY DEF CatalogueInv, IInv, AddTarget
<1>3. /\ DOMAIN languages' = DOMAIN languages \cup {Src}
      /\ \A s \in DOMAIN languages' : SourceEntry(s)
      /\ \A s \in DOMAIN languages' : \A t \in DOMAIN languages'[s] :
           \A n \in DOMAIN languages'[s][t] : OldOrAdded(s, t, n)
  BY <1>2, AddTargetAdds
<1>4. Src \in Languages /\ Fitting(Current.domain, Src, Tgt) # {}
  BY <1>2, CurrentFits
<1>5. Current' = Current /\ Src' = Src
  BY <1>1, <1>2 DEF Current, Src
<1>6. CatalogueTypeOK'
  BY <1>1, <1>2, <1>3, <1>4 DEF CatalogueTypeOK, SourceEntry
<1>7. Position'
  BY <1>1, <1>2, <1>3, <1>5 DEF Position
<1>8. Sound'
  <2>. SUFFICES ASSUME NEW s \in DOMAIN languages', NEW t \in DOMAIN languages'[s],
                       NEW n \in DOMAIN languages'[s][t]
                PROVE  Fitting(languages'[s][t][n], s, t) # {}
    BY <1>1 DEF Sound, Fitting
  <2>1. OldOrAdded(s, t, n)
    BY <1>3
  <2>. QED
    BY <1>2, <1>4, <2>1 DEF OldOrAdded, Sound
<1>. QED
  BY <1>1, <1>6, <1>7, <1>8 DEF CatalogueInv

\* The other steps of the loops move their counters only.
LEMMA MoveInvariant ==
  ASSUME CatalogueInv, LookUp \/ NextSource \/ NextModel \/ SendAnswer
  PROVE  CatalogueInv'
<1>1. Listing
  BY DEF LookUp, NextSource, NextModel, SendAnswer
<1>2. /\ IInv' /\ models' = models /\ pc' = pc /\ pc = "constructed"
      /\ Len(models) \in Nat
  BY <1>1, ListingKeeps DEF CatalogueInv
<1>3. languages' = languages
  BY DEF LookUp, NextSource, NextModel, SendAnswer
<1>4. Sound'
  BY <1>2, <1>3 DEF CatalogueInv, Sound, Fitting
<1>5. CatalogueTypeOK'
  <2>1. /\ inc' \in 1 .. Len(models) + 1
        /\ inc_src' \in Nat \ {0} /\ inc_tgt' \in Nat \ {0}
    BY <1>2 DEF CatalogueInv, CatalogueTypeOK, LookUp, NextSource, NextModel, SendAnswer
  <2>2. known' \in BOOLEAN
    <3>1. CASE known' = (Src \in DOMAIN languages)
      BY <3>1
    <3>2. CASE known' = known
      BY <3>2 DEF CatalogueInv, CatalogueTypeOK
    <3>. QED
      BY <3>1, <3>2 DEF LookUp, NextSource, NextModel, SendAnswer
  <2>3. at' \in {"source", "target", "done"}
    BY DEF LookUp, NextSource, NextModel, SendAnswer
  <2>. QED
    BY <1>2, <1>3, <2>1, <2>2, <2>3 DEF CatalogueInv, CatalogueTypeOK
<1>6. Position'
  BY <1>2, <1>3 DEF CatalogueInv, Position, Current, Src, LookUp, NextSource, NextModel,
                    SendAnswer
<1>. QED
  BY <1>2, <1>4, <1>5, <1>6 DEF CatalogueInv

LEMMA CatalogueNextInvariant ==
  CatalogueInv /\ [CatalogueNext]_<<vars, catalogue_vars>> => CatalogueInv'
<1>. SUFFICES ASSUME CatalogueInv, [CatalogueNext]_<<vars, catalogue_vars>>
              PROVE  CatalogueInv'
  OBVIOUS
<1>1. CASE UNCHANGED <<vars, catalogue_vars>>
  <2>1. IInv'
    BY <1>1, NextInvariant DEF CatalogueInv
  <2>2. UNCHANGED <<config, pc, entry, source, target, models>>
        /\ UNCHANGED <<inc, inc_src, inc_tgt, known, languages, at>>
    BY <1>1 DEF vars, catalogue_vars
  <2>. QED
    BY <2>1, <2>2 DEF CatalogueInv, CatalogueTypeOK, Sound, Position, Fitting, Current, Src
<1>. QED
  BY <1>1, LoadInvariant, AddTargetInvariant, MoveInvariant DEF CatalogueNext

LEMMA CatalogueInvariant == CatalogueSpec => []CatalogueInv
BY CatalogueInitInvariant, CatalogueNextInvariant, PTL DEF CatalogueSpec

-----------------------------------------------------------------------------
\* The place the loops are at.
Here == <<inc, inc_src, inc_tgt>>

\* A place is made of positions, and its source is a language.
LEMMA PlaceTyped ==
  ASSUME TypeOK, NEW p \in Places
  PROVE  /\ p = <<p[1], p[2], p[3]>>
         /\ p[1] \in 1 .. Len(models) /\ p[2] \in Nat \ {0} /\ p[3] \in Nat \ {0}
         /\ p[2] <= Len(models[p[1]].source) /\ p[3] <= Len(models[p[1]].target)
         /\ Source(p) \in Languages
<1>0. PICK m \in DOMAIN models :
        p \in {<<m, i, j>> : i \in DOMAIN models[m].source, j \in DOMAIN models[m].target}
  BY DEF Places
<1>1. PICK i \in DOMAIN models[m].source, j \in DOMAIN models[m].target : p = <<m, i, j>>
  BY <1>0
<1>2. m \in 1 .. Len(models) /\ models[m] \in ModelType
  BY DEF TypeOK
<1>3. models[m].source \in Seq(Languages) /\ models[m].target \in Seq(Languages)
  BY <1>2 DEF ModelType
<1>. QED
  BY <1>1, <1>2, <1>3 DEF Source

LEMMA HereIsAPlace ==
  ASSUME TypeOK, CatalogueTypeOK, Position, at = "target", inc_tgt <= Len(Current.target)
  PROVE  Here \in Places /\ Source(Here) = Src /\ ~ Visited(Here)
<1>1. inc \in DOMAIN models /\ Current \in ModelType
  BY DEF TypeOK, CatalogueTypeOK, Position, Current
<1>2. Current.source \in Seq(Languages) /\ Current.target \in Seq(Languages)
  BY <1>1 DEF ModelType
<1>3. inc_src \in DOMAIN Current.source /\ inc_tgt \in DOMAIN Current.target
  BY <1>2 DEF CatalogueTypeOK, Position
<1>4. Here \in Places
  BY <1>1, <1>3 DEF Here, Places, Current
<1>. QED
  BY <1>4 DEF Here, Source, Src, Current, Visited, CatalogueTypeOK

\* Before the loops start nothing is visited and nothing listed.
Fresh == /\ TypeOK
         /\ at = "source" /\ inc = 1 /\ inc_src = 1 /\ languages = [s \in {} |-> <<>>]

LEMMA FreshExact == Fresh => ExactInv
<1>. SUFFICES ASSUME Fresh PROVE ExactInv
  OBVIOUS
<1>1. \A p \in Places : ~ Visited(p)
  BY PlaceTyped DEF Fresh, Visited
<1>2. \A s, t, d : Sources(s, t, d) = {}
  BY <1>1 DEF Sources
<1>3. \A s, t : Listed(s, t) = <<>>
  BY DEF Listed, Fresh
<1>4. \A s, t, d : {n \in DOMAIN Listed(s, t) : Listed(s, t)[n] = d} = {}
  BY <1>3
<1>. QED
  BY <1>1, <1>2, <1>4, FS_EmptySet DEF ExactInv, Remembered, ListedExactly, Fresh

\* What the loops read does not change while they run.
LEMMA PlacesKept ==
  ASSUME models' = models
  PROVE  /\ Places' = Places
         /\ \A p : Source(p)' = Source(p) /\ Introduces(p)' = Introduces(p)
BY DEF Places, Source, Introduces

\* A step that only moves the loops visits nothing.
LEMMA MoveVisitsNothing ==
  ASSUME CatalogueInv, LookUp \/ NextSource \/ NextModel \/ SendAnswer
  PROVE  \A p \in Places : Visited(p)' = Visited(p)
<1>1. TypeOK /\ CatalogueTypeOK /\ Position
  BY DEF CatalogueInv, IInv
<1>. SUFFICES ASSUME NEW p \in Places PROVE Visited(p)' = Visited(p)
  OBVIOUS
<1>2. /\ p[1] \in 1 .. Len(models) /\ p[2] \in Nat \ {0} /\ p[3] \in Nat \ {0}
      /\ p[2] <= Len(models[p[1]].source) /\ p[3] <= Len(models[p[1]].target)
  BY <1>1, PlaceTyped
<1>3. inc \in Nat /\ inc_src \in Nat \ {0} /\ inc_tgt \in Nat \ {0} /\ Len(models) \in Nat
  BY <1>1 DEF CatalogueTypeOK, TypeOK
<1>4. CASE LookUp
  BY <1>2, <1>3, <1>4 DEF LookUp, Visited
<1>5. CASE NextSource
  <2>1. /\ at = "target" /\ at' = "source" /\ inc' = inc /\ inc_src' = inc_src + 1
        /\ inc_tgt > Len(models[inc].target)
    BY <1>5 DEF NextSource, Current
  <2>2. (p[1] = inc) => (p[3] < inc_tgt)
    BY <1>1, <1>2, <1>3, <2>1, SMTT(60) DEF TypeOK, ModelType
  <2>. QED
    BY <1>2, <1>3, <2>1, <2>2 DEF Visited
<1>6. CASE NextModel
  <2>1. /\ at = "source" /\ at' = "source" /\ inc' = inc + 1 /\ inc_src' = 1
        /\ inc_src > Len(models[inc].source)
    BY <1>6 DEF NextModel, Current
  <2>2. (p[1] = inc) => (p[2] < inc_src)
    BY <1>1, <1>2, <1>3, <2>1, SMTT(60) DEF TypeOK, ModelType
  <2>. QED
    BY <1>2, <1>3, <2>1, <2>2 DEF Visited
<1>7. CASE SendAnswer
  BY <1>7 DEF SendAnswer, Visited
<1>. QED
  BY <1>4, <1>5, <1>6, <1>7

LEMMA MoveExact ==
  ASSUME CatalogueInv, ExactInv, LookUp \/ NextSource \/ NextModel \/ SendAnswer
  PROVE  ExactInv'
<1>1. models' = models /\ languages' = languages
  BY DEF LookUp, NextSource, NextModel, SendAnswer, Listing, vars
<1>2. \A p \in Places : Visited(p)' = Visited(p)
  BY MoveVisitsNothing
<1>3. /\ Places' = Places
      /\ \A p : Source(p)' = Source(p) /\ Introduces(p)' = Introduces(p)
  BY <1>1, PlacesKept
<1>4. \A s, t, d : Sources(s, t, d)' = Sources(s, t, d)
  BY <1>1, <1>2, <1>3 DEF Sources
<1>5. \A s, t : Listed(s, t)' = Listed(s, t)
  BY <1>1 DEF Listed
<1>6. ListedExactly' /\ \A s, t \in Languages, d \in Domains : IsFiniteSet(Sources(s, t, d)')
  BY <1>4, <1>5 DEF ExactInv, ListedExactly
<1>7. Remembered'
  <2>1. \A s \in Languages :
          s \in DOMAIN languages' <=> \E p \in Places' : Visited(p)' /\ Source(p)' = s
    BY <1>1, <1>2, <1>3 DEF ExactInv, Remembered
  <2>2. ASSUME LookUp
        PROVE  known' <=> \E p \in Places' : Before(p)' /\ Source(p)' = Src'
    <3>1. /\ at = "source" /\ inc' = inc /\ inc_src' = inc_src
          /\ inc <= Len(models) /\ inc_src <= Len(Current.source)
          /\ known' = (Src \in DOMAIN languages)
      BY <2>2 DEF LookUp
    <3>2. Src' = Src /\ \A p : Before(p)' = Before(p)
      BY <1>1, <3>1 DEF Src, Current, Before
    <3>3. Src \in Languages
      <4>1. inc \in DOMAIN models /\ Current \in ModelType
        BY <3>1 DEF CatalogueInv, IInv, TypeOK, CatalogueTypeOK, Current
      <4>2. Current.source \in Seq(Languages)
        BY <4>1 DEF ModelType
      <4>3. inc_src \in DOMAIN Current.source
        BY <3>1, <4>2 DEF CatalogueInv, CatalogueTypeOK
      <4>. QED
        BY <4>2, <4>3 DEF Src
    <3>4. \A p : Visited(p) <=> Before(p)
      BY <3>1 DEF Visited, Before
    <3>. QED
      BY <1>3, <3>1, <3>2, <3>3, <3>4 DEF ExactInv, Remembered
  <2>3. LookUp \/ at' # "target"
    BY DEF NextSource, NextModel, SendAnswer
  <2>. QED
    BY <2>1, <2>2, <2>3 DEF Remembered
<1>. QED
  BY <1>4, <1>6, <1>7 DEF ExactInv

\* How often d occurs in a list.
Count(list, d) == Cardinality({n \in DOMAIN list : list[n] = d})

\* Another domain at the end of a list counts once more, for that domain only.
LEMMA OneMore ==
  ASSUME NEW list \in Seq(Domains), NEW e \in Domains, NEW d
  PROVE  Count(Append(list, e), d) = Count(list, d) + (IF e = d THEN 1 ELSE 0)
<1>. DEFINE old == {n \in DOMAIN list : list[n] = d}
            new == {n \in DOMAIN Append(list, e) : Append(list, e)[n] = d}
<1>1. /\ DOMAIN list = 1 .. Len(list) /\ Len(list) \in Nat
      /\ DOMAIN Append(list, e) = 1 .. Len(list) + 1
      /\ \A n \in 1 .. Len(list) : Append(list, e)[n] = list[n]
      /\ Append(list, e)[Len(list) + 1] = e
  OBVIOUS
<1>2. new = IF e = d THEN old \cup {Len(list) + 1} ELSE old
  BY <1>1
<1>3. Len(list) + 1 \notin old
  BY <1>1
<1>4. old \in SUBSET (1 .. Len(list))
  BY <1>1
<1>. HIDE DEF old, new
<1>5. IsFiniteSet(1 .. Len(list))
  BY <1>1, FS_Interval
<1>6. IsFiniteSet(old)
  BY <1>4, <1>5, FS_Subset
<1>7. Cardinality(old \cup {Len(list) + 1}) = Cardinality(old) + 1 /\ Cardinality(old) \in Nat
  BY <1>3, <1>6, FS_AddElement, FS_CardinalityType
<1>8. Cardinality(new) = Cardinality(old) + (IF e = d THEN 1 ELSE 0)
  BY <1>2, <1>7
<1>. QED
  BY <1>8 DEF old, new, Count

\* A target is listed unless it comes with a new source, after the first.
Lists == Introduces(Here) => inc_tgt = 1

LEMMA AddTargetLists ==
  ASSUME CatalogueInv, ExactInv, AddTarget, NEW s \in Languages, NEW t \in Languages
  PROVE  Listed(s, t)' = IF Lists /\ s = Src /\ t = Tgt
                         THEN Append(Listed(s, t), Current.domain) ELSE Listed(s, t)
<1>1. /\ TypeOK /\ CatalogueTypeOK /\ Position
      /\ at = "target" /\ inc_tgt <= Len(Current.target)
  BY DEF CatalogueInv, IInv, AddTarget
<1>2. Src \in Languages /\ Tgt \in Languages /\ Current.domain \in Domains
  BY <1>1, CurrentFits
<1>3. Introduces(Here) <=> ~ known
  <2>1. known <=> \E p \in Places : Before(p) /\ Source(p) = Src
    BY <1>1 DEF ExactInv, Remembered
  <2>2. Source(Here) = Src
    BY <1>1, HereIsAPlace
  <2>3. \A p : Before(p) <=> (p[1] < Here[1] \/ (p[1] = Here[1] /\ p[2] < Here[2]))
    BY DEF Before, Here
  <2>. QED
    BY <2>1, <2>2, <2>3 DEF Introduces
<1>4. \A u \in DOMAIN languages : /\ DOMAIN languages[u] \subseteq Languages
                                  /\ languages[u] \in [DOMAIN languages[u] -> Seq(Domains)]
  BY <1>1 DEF CatalogueTypeOK
<1>5. Append(<<>>, Current.domain) = <<Current.domain>>
  BY <1>2
<1>6. CASE known
  <2>. DEFINE old == languages[Src]
              new == Grown(old, Tgt, Current.domain)
  <2>1. Src \in DOMAIN languages
    BY <1>1, <1>6 DEF Position
  <2>2. languages' = [languages EXCEPT ![Src] = new]
    BY <1>6 DEF AddTarget, AddToKnown
  <2>3. /\ DOMAIN new = DOMAIN old \cup {Tgt}
        /\ new[Tgt] = Append(Listed(Src, Tgt), Current.domain)
        /\ \A u \in DOMAIN old \ {Tgt} : new[u] = old[u]
    BY <1>4, <1>5, <2>1 DEF Grown, Insert, Listed
  <2>. HIDE DEF new
  <2>4. /\ DOMAIN languages' = DOMAIN languages
        /\ languages'[Src] = new
        /\ \A u \in DOMAIN languages \ {Src} : languages'[u] = languages[u]
    BY <2>1, <2>2
  <2>5. Lists
    BY <1>3, <1>6 DEF Lists
  <2>. QED
    BY <2>1, <2>3, <2>4, <2>5 DEF Listed
<1>7. ASSUME ~ known
      PROVE  languages' = Insert(languages, Src, Insert([u \in {} |-> <<>>], Tgt, <<Current.domain>>))
  BY <1>7 DEF AddTarget, AddToNew
<1>8. CASE ~ known /\ inc_tgt = 1
  <2>1. Src \notin DOMAIN languages
    <3>1. \A p \in Places : Visited(p) <=> Before(p)
      BY <1>1, <1>8, PlaceTyped DEF Visited, Before
    <3>. QED
      BY <1>1, <1>2, <1>8, <3>1 DEF ExactInv, Remembered
  <2>. DEFINE new == Insert([u \in {} |-> <<>>], Tgt, <<Current.domain>>)
  <2>2. DOMAIN new = {Tgt} /\ new[Tgt] = <<Current.domain>>
    BY DEF Insert
  <2>3. languages' = Insert(languages, Src, new)
    BY <1>7, <1>8
  <2>. HIDE DEF new
  <2>4. /\ DOMAIN languages' = DOMAIN languages \cup {Src}
        /\ languages'[Src] = new
        /\ \A u \in DOMAIN languages : languages'[u] = languages[u]
    BY <2>1, <2>3 DEF Insert
  <2>5. Lists
    BY <1>8 DEF Lists
  <2>. QED
    BY <1>5, <2>1, <2>2, <2>4, <2>5 DEF Listed
<1>9. CASE ~ known /\ inc_tgt # 1
  <2>1. Src \in DOMAIN languages
    <3>. DEFINE first == <<inc, inc_src, 1>>
    <3>1. /\ Here \in Places /\ Source(Here) = Src
      BY <1>1, HereIsAPlace
    <3>2. first \in Places
      <4>0. PICK m \in DOMAIN models :
              Here \in {<<m, i, j>> : i \in DOMAIN models[m].source,
                                      j \in DOMAIN models[m].target}
        BY <3>1 DEF Places
      <4>1. PICK i \in DOMAIN models[m].source, j \in DOMAIN models[m].target :
              Here = <<m, i, j>>
        BY <4>0
      <4>2. m = inc /\ i = inc_src
        BY <4>1 DEF Here
      <4>3. models[m].target \in Seq(Languages)
        <5>1. models[m] \in ModelType
          BY <1>1 DEF TypeOK
        <5>. QED
          BY <5>1 DEF ModelType
      <4>4. 1 \in DOMAIN models[m].target
        BY <4>3
      <4>. QED
        BY <4>2, <4>4 DEF Places
    <3>3. Source(first) = Src
      BY <3>1 DEF Source, Here
    <3>4. Visited(first)
      BY <1>1, <1>9 DEF Visited, CatalogueTypeOK
    <3>. QED
      BY <1>2, <3>2, <3>3, <3>4 DEF ExactInv, Remembered
  <2>2. /\ DOMAIN languages' = DOMAIN languages
        /\ \A u \in DOMAIN languages : languages'[u] = languages[u]
    BY <1>7, <1>9, <2>1 DEF Insert
  <2>3. ~ Lists
    BY <1>3, <1>9 DEF Lists
  <2>. QED
    BY <2>2, <2>3 DEF Listed
<1>. QED
  BY <1>6, <1>8, <1>9 DEF CatalogueInv, CatalogueTypeOK

\* AddTarget visits the place the loops are at.
LEMMA AddTargetVisits ==
  ASSUME CatalogueInv, AddTarget
  PROVE  \A p \in Places : Visited(p)' <=> (Visited(p) \/ p = Here)
<1>1. /\ TypeOK /\ CatalogueTypeOK
      /\ at = "target" /\ at' = "target"
      /\ inc' = inc /\ inc_src' = inc_src /\ inc_tgt' = inc_tgt + 1
  BY DEF CatalogueInv, IInv, AddTarget
<1>. SUFFICES ASSUME NEW p \in Places PROVE Visited(p)' <=> (Visited(p) \/ p = Here)
  OBVIOUS
<1>2. /\ p = <<p[1], p[2], p[3]>>
      /\ p[1] \in Nat /\ p[2] \in Nat /\ p[3] \in Nat
  BY <1>1, PlaceTyped
<1>3. inc \in Nat /\ inc_src \in Nat /\ inc_tgt \in Nat
  BY <1>1 DEF CatalogueTypeOK
<1>4. p = Here <=> (p[1] = inc /\ p[2] = inc_src /\ p[3] = inc_tgt)
  BY <1>2 DEF Here
<1>. QED
  BY <1>1, <1>2, <1>3, <1>4 DEF Visited

LEMMA AddTargetExact ==
  ASSUME CatalogueInv, ExactInv, AddTarget
  PROVE  ExactInv'
<1>1. /\ TypeOK /\ CatalogueTypeOK /\ Position
      /\ at = "target" /\ inc_tgt <= Len(Current.target)
  BY DEF CatalogueInv, IInv, AddTarget
<1>2. /\ models' = models /\ at' = at /\ known' = known
      /\ inc' = inc /\ inc_src' = inc_src
  BY DEF AddTarget, Listing, vars
<1>3. \A p \in Places : Visited(p)' <=> (Visited(p) \/ p = Here)
  BY AddTargetVisits
<1>4. /\ Places' = Places
      /\ \A p : Source(p)' = Source(p) /\ Introduces(p)' = Introduces(p)
  BY <1>2, PlacesKept
<1>5. Here \in Places /\ Source(Here) = Src /\ ~ Visited(Here)
  BY <1>1, HereIsAPlace
<1>6. Src \in Languages /\ Tgt \in Languages /\ Current.domain \in Domains
  BY <1>1, CurrentFits
<1>7. Remembered'
  <2>1. DOMAIN languages' = DOMAIN languages \cup {Src}
    BY <1>1, AddTargetAdds
  <2>2. \A s \in Languages :
          s \in DOMAIN languages' <=> \E p \in Places' : Visited(p)' /\ Source(p)' = s
    BY <1>3, <1>4, <1>5, <2>1 DEF ExactInv, Remembered
  <2>3. Src' = Src /\ \A p : Before(p)' = Before(p)
    BY <1>2 DEF Src, Current, Before
  <2>4. known' <=> \E p \in Places' : Before(p)' /\ Source(p)' = Src'
    BY <1>1, <1>2, <1>4, <2>3 DEF ExactInv, Remembered
  <2>. QED
    BY <2>2, <2>4 DEF Remembered
<1>8. ASSUME NEW s \in Languages, NEW t \in Languages, NEW d \in Domains
      PROVE  /\ IsFiniteSet(Sources(s, t, d)')
             /\ Count(Listed(s, t)', d) = Cardinality(Sources(s, t, d)')
  <2>. DEFINE This == Lists /\ s = Src /\ t = Tgt
              list == Listed(s, t)
              dom  == Current.domain
  <2>1. Sources(s, t, d)' = IF This /\ d = dom THEN Sources(s, t, d) \cup {Here}
                            ELSE Sources(s, t, d)
    <3>1. models[Here[1]].target[Here[3]] = Tgt /\ models[Here[1]].domain = dom /\ Here[3] = inc_tgt
      BY DEF Here, Tgt, Current
    <3>2. \A p \in Places : p \in Sources(s, t, d)' <=>
            (p \in Sources(s, t, d) \/ (p = Here /\ This /\ d = dom))
      BY <1>2, <1>3, <1>4, <1>5, <3>1 DEF Sources, Lists
    <3>3. Sources(s, t, d) \subseteq Places /\ Sources(s, t, d)' \subseteq Places
      BY <1>4 DEF Sources
    <3>. QED
      BY <1>5, <3>2, <3>3
  <2>2. Here \notin Sources(s, t, d)
    BY <1>5 DEF Sources
  <2>3. /\ IsFiniteSet(Sources(s, t, d))
        /\ Count(list, d) = Cardinality(Sources(s, t, d))
    BY DEF ExactInv, ListedExactly, Count
  <2>4. Listed(s, t)' = IF This THEN Append(list, dom) ELSE list
    BY AddTargetLists
  <2>5. list \in Seq(Domains)
    BY <1>1 DEF CatalogueTypeOK, Listed
  <2>6. Cardinality(Sources(s, t, d)) \in Nat
    BY <2>3, FS_CardinalityType
  <2>7. /\ IsFiniteSet(Sources(s, t, d) \cup {Here})
        /\ Cardinality(Sources(s, t, d) \cup {Here}) = Cardinality(Sources(s, t, d)) + 1
    BY <2>2, <2>3, FS_AddElement
  <2>8. Count(Append(list, dom), d) = Count(list, d) + (IF dom = d THEN 1 ELSE 0)
    <3>1. dom \in Domains
      BY <1>6
    <3>. HIDE DEF list, dom
    <3>. QED
      BY <2>5, <3>1, OneMore
  <2>. HIDE DEF This, list, dom
  <2>9. CASE This
    BY <2>1, <2>3, <2>4, <2>6, <2>7, <2>8, <2>9
  <2>10. CASE ~ This
    BY <2>1, <2>3, <2>4, <2>10
  <2>. QED
    BY <2>9, <2>10
<1>9. ListedExactly' /\ (\A s, t \in Languages, d \in Domains : IsFiniteSet(Sources(s, t, d)))'
  BY <1>8 DEF ListedExactly, Count
<1>. QED
  BY <1>7, <1>9 DEF ExactInv

LEMMA ExactNextInvariant ==
  CatalogueInv /\ ExactInv /\ [CatalogueNext]_<<vars, catalogue_vars>> => ExactInv'
<1>. SUFFICES ASSUME CatalogueInv, ExactInv, [CatalogueNext]_<<vars, catalogue_vars>>
              PROVE  ExactInv'
  OBVIOUS
<1>1. CASE Load
  <2>1. pc # "constructed"
    BY <1>1 DEF Load, Next, LoadFile, LastEntry, ReadKeys, ReadSource, ReadTarget,
                ReadProcessing, Unloadable, LoadModel
  <2>2. at = "source" /\ inc = 1 /\ inc_src = 1 /\ languages = [s \in {} |-> <<>>]
    BY <2>1 DEF CatalogueInv, Position
  <2>3. UNCHANGED <<inc, inc_src, inc_tgt, known, languages, at>>
    BY <1>1 DEF Load, catalogue_vars
  <2>4. TypeOK'
    BY <1>1, NextInvariant DEF Load, CatalogueInv, IInv
  <2>5. Fresh'
    BY <2>2, <2>3, <2>4 DEF Fresh
  <2>. QED
    BY <2>5, FreshExact, PTL
<1>2. CASE UNCHANGED <<vars, catalogue_vars>>
  <2>1. UNCHANGED <<config, pc, entry, source, target, models>>
        /\ UNCHANGED <<inc, inc_src, inc_tgt, known, languages, at>>
    BY <1>2 DEF vars, catalogue_vars
  <2>2. /\ Places' = Places
        /\ \A p : Source(p)' = Source(p) /\ Introduces(p)' = Introduces(p)
    BY <2>1, PlacesKept
  <2>3. /\ \A p : Visited(p)' = Visited(p) /\ Before(p)' = Before(p)
        /\ Src' = Src /\ \A s, t : Listed(s, t)' = Listed(s, t)
    BY <2>1 DEF Visited, Before, Src, Current, Listed
  <2>4. \A s, t, d : Sources(s, t, d)' = Sources(s, t, d)
    BY <2>1, <2>2, <2>3 DEF Sources
  <2>5. Remembered'
    BY <2>1, <2>2, <2>3 DEF ExactInv, Remembered
  <2>. QED
    BY <2>3, <2>4, <2>5 DEF ExactInv, ListedExactly
<1>. QED
  BY <1>1, <1>2, MoveExact, AddTargetExact DEF CatalogueNext

LEMMA ExactInvariant == CatalogueSpec => []ExactInv
<1>1. CatalogueInit => ExactInv
  <2>1. CatalogueInit => Fresh
    BY CatalogueInitInvariant DEF CatalogueInit, CatalogueInv, IInv, Fresh
  <2>. QED
    BY <2>1, FreshExact
<1>. QED
  BY <1>1, ExactNextInvariant, CatalogueInvariant, PTL DEF CatalogueSpec

-----------------------------------------------------------------------------
\* Listing the catalogue disturbs nothing of the loading, so that what is proved of
\* the loading (AllOrNothing, FirstFailureEndsIt) holds of the server that lists.
THEOREM LoadingUndisturbed == CatalogueSpec => Spec
<1>1. CatalogueInit => Init
  BY DEF CatalogueInit
<1>2. [CatalogueNext]_<<vars, catalogue_vars>> => [Next]_vars
  BY DEF CatalogueNext, Load, LookUp, AddTarget, NextSource, NextModel, SendAnswer, Listing,
         catalogue_vars
<1>. QED
  BY <1>1, <1>2, PTL DEF CatalogueSpec, Spec

\* The loops stay inside the models, and the catalogue keeps its shape.
THEOREM CatalogueTypeCorrect == CatalogueSpec => []CatalogueTypeOK
<1>1. CatalogueInv => CatalogueTypeOK
  BY DEF CatalogueInv
<1>. QED
  BY <1>1, CatalogueInvariant, PTL

\* Whatever the catalogue lists can be asked for, at any time while it is put
\* together.
THEOREM CatalogueIsSound == CatalogueSpec => []Sound
<1>1. CatalogueInv => Sound
  BY DEF CatalogueInv
<1>. QED
  BY <1>1, CatalogueInvariant, PTL

\* The catalogue has each triple of the models visited as many times as it occurs,
\* but for the targets lost with a new source: for every configuration.
THEOREM ListedExactlyHolds == CatalogueSpec => []ListedExactly
<1>1. ExactInv => ListedExactly
  BY DEF ExactInv
<1>. QED
  BY <1>1, ExactInvariant, PTL
=============================================================================
