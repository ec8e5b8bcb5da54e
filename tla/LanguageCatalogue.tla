-------------------------- MODULE LanguageCatalogue --------------------------
(***************************************************************************)
(* The answer to GET /translate/: rest_server::doTranslationGet,           *)
(* rest_server.cpp:40-104, lists for each source language the target       *)
(* languages, and for each of these the domains, of the loaded models:     *)
(* those of the server that ModelLoading has constructed.                  *)
(*                                                                         *)
(* The JSON objects are functions from their keys.  nlohmann's push_back   *)
(* of a key and value on an object is std::map::insert: when the key is    *)
(* there already, nothing changes.                                         *)
(***************************************************************************)
EXTENDS ModelLoading, FiniteSets

VARIABLES inc, inc_src, inc_tgt, \* the model, source and target the loops are at
          known,                 \* is the source in languages, when its turn starts?
          languages,             \* languages_json
          at                     \* "source": in the loop over the sources;
                                 \* "target": in one over the targets; "done"

catalogue_vars == <<inc, inc_src, inc_tgt, known, languages, at>>

-----------------------------------------------------------------------------
CatalogueInit == /\ Init
                 /\ inc = 1 /\ inc_src = 1 /\ inc_tgt = 1
                 /\ known = FALSE
                 /\ languages = [s \in {} |-> <<>>]
                 /\ at = "source"

\* The server is there, and the answer is being put together.
Listing == pc = "constructed" /\ UNCHANGED vars

\* The configuration is being loaded.
Load == Next /\ UNCHANGED catalogue_vars

\* The model, the source and the target languages the loops are at.
Current == models[inc]
Src     == Current.source[inc_src]
Tgt     == Current.target[inc_tgt]

\* Mutant: push_back overwrites.
Overwrite(object, key, value) ==
  [k \in DOMAIN object \cup {key} |-> IF k = key THEN value ELSE object[k]]

\* push_back of a key and its value on a JSON object.
Insert(object, key, value) ==
  [k \in DOMAIN object \cup {key} |-> IF k \in DOMAIN object THEN object[k] ELSE value]

\* Mutant: source and target are swapped for a known source.
AddSwapped == Insert(languages, Tgt, Insert([t \in {} |-> <<>>], Src, <<Current.domain>>))

\* A source seen for the first time: each target is pushed with the source, so all
\* but the first are lost.
AddToNew == Insert(languages, Src, Insert([t \in {} |-> <<>>], Tgt, <<Current.domain>>))

\* A known source: a new target is inserted, a known one gets one more domain.
Grown(object, t, d) == IF t \in DOMAIN object THEN [object EXCEPT ![t] = Append(@, d)]
                                              ELSE Insert(object, t, <<d>>)

AddToKnown == [languages EXCEPT ![Src] = Grown(languages[Src], Tgt, Current.domain)]

\* languages_json.find(lang_src_vec[inc_src]): the branch all its targets take.
LookUp == /\ Listing
          /\ at = "source"
          /\ inc <= Len(models) /\ inc_src <= Len(Current.source)
          /\ known' = (Src \in DOMAIN languages)
          /\ inc_tgt' = 1
          /\ at' = "target"
          /\ UNCHANGED <<inc, inc_src, languages>>

AddTarget == /\ Listing
             /\ at = "target"
             /\ inc_tgt <= Len(Current.target)
             /\ languages' = IF known THEN AddToKnown ELSE AddToNew
             /\ inc_tgt' = inc_tgt + 1
             /\ UNCHANGED <<inc, inc_src, known, at>>

NextSource == /\ Listing
              /\ at = "target"
              /\ inc_tgt > Len(Current.target)
              /\ inc_src' = inc_src + 1
              /\ at' = "source"
              /\ UNCHANGED <<inc, inc_tgt, known, languages>>

NextModel == /\ Listing
             /\ at = "source"
             /\ inc <= Len(models) /\ inc_src > Len(Current.source)
             /\ inc' = inc + 1
             /\ inc_src' = 1
             /\ UNCHANGED <<inc_tgt, known, languages, at>>

SendAnswer == /\ Listing
              /\ at = "source" /\ inc > Len(models)
              /\ at' = "done"
              /\ UNCHANGED <<inc, inc_src, inc_tgt, known, languages>>

CatalogueNext == \/ Load
                 \/ LookUp \/ AddTarget \/ NextSource \/ NextModel \/ SendAnswer

CatalogueSpec == CatalogueInit /\ [][CatalogueNext]_<<vars, catalogue_vars>>

-----------------------------------------------------------------------------
\* nmt::isSrcLang and isTgtLang; and askTranslation's find_if, as the set of the
\* models that fit: it takes the first.
isSrcLang(m, lang) == \E i \in DOMAIN m.source : m.source[i] = lang
isTgtLang(m, lang) == \E i \in DOMAIN m.target : m.target[i] = lang
Fitting(domain, src, tgt) ==
  {i \in DOMAIN models : /\ models[i].domain = domain
                         /\ isSrcLang(models[i], src)
                         /\ isTgtLang(models[i], tgt)}

CatalogueTypeOK ==
  /\ inc \in 1 .. Len(models) + 1
  /\ inc_src \in Nat \ {0} /\ inc_tgt \in Nat \ {0}
  /\ known \in BOOLEAN
  /\ DOMAIN languages \subseteq Languages
  /\ \A s \in DOMAIN languages :
       /\ DOMAIN languages[s] \subseteq Languages
       /\ languages[s] \in [DOMAIN languages[s] -> Seq(Domains)]
  /\ at \in {"source", "target", "done"}

\* Whatever the catalogue lists can be asked for: doTranslationPost finds a model
\* for it (rest_server.cpp:58-95 against :238-246).
Sound == \A s \in DOMAIN languages : \A t \in DOMAIN languages[s] :
           \A n \in DOMAIN languages[s][t] : Fitting(languages[s][t][n], s, t) # {}

\* Where the loops are, and the source they are at; with the two above it is inductive.
Position ==
  /\ pc # "constructed" => /\ at = "source" /\ inc = 1 /\ inc_src = 1
                           /\ languages = [s \in {} |-> <<>>]
  /\ at = "target" => inc <= Len(models) /\ inc_src <= Len(Current.source)
  /\ at = "target" /\ known => Src \in DOMAIN languages

CatalogueInv == IInv /\ CatalogueTypeOK /\ Sound /\ Position

\* The places the loops go through: model, source, target, by their positions;
\* those gone through already; and those of a source that is new there.
Places == UNION {{<<m, i, j>> : i \in DOMAIN models[m].source, j \in DOMAIN models[m].target} :
                   m \in DOMAIN models}

Source(p) == models[p[1]].source[p[2]]

Visited(p) == \/ p[1] < inc
              \/ p[1] = inc /\ p[2] < inc_src
              \/ p[1] = inc /\ p[2] = inc_src /\ at = "target" /\ p[3] < inc_tgt

Introduces(p) ==
  \A q \in Places : Source(q) = Source(p) =>
    ~ (q[1] < p[1] \/ (q[1] = p[1] /\ q[2] < p[2]))

\* The places that should have put the triple in the catalogue, were it not for
\* the targets lost with a new source.
Sources(s, t, d) == {p \in Places : /\ Visited(p)
                                    /\ Introduces(p) => p[3] = 1
                                    /\ Source(p) = s
                                    /\ models[p[1]].target[p[3]] = t
                                    /\ models[p[1]].domain = d}

Listed(s, t) == IF s \in DOMAIN languages /\ t \in DOMAIN languages[s]
                THEN languages[s][t] ELSE <<>>

\* The catalogue has exactly, and as many times as they occur, the triples of the
\* models visited, but for the targets after the first of the model that brings a
\* source in: those are missing until another model repeats them
\* (rest_server.cpp:66-76 against :78-94).
ListedExactly ==
  \A s, t \in Languages, d \in Domains :
    Cardinality({n \in DOMAIN Listed(s, t) : Listed(s, t)[n] = d})
      = Cardinality(Sources(s, t, d))

\* Inductive, with CatalogueInv: the sources listed are those of the places visited,
\* and known tells whether this one's was among them before its loop began.
Before(p) == p[1] < inc \/ (p[1] = inc /\ p[2] < inc_src)

Remembered ==
  /\ \A s \in Languages : s \in DOMAIN languages <=> \E p \in Places : Visited(p) /\ Source(p) = s
  /\ at = "target" => (known <=> \E p \in Places : Before(p) /\ Source(p) = Src)

ExactInv == /\ Remembered
            /\ \A s, t \in Languages, d \in Domains : IsFiniteSet(Sources(s, t, d))
            /\ ListedExactly
=============================================================================
