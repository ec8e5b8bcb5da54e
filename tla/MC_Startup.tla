----------------------------- MODULE MC_Startup -----------------------------
(* Environments that set one variable, one with a configuration, or two of    *)
(* those that matter here; command lines of one argument, whatever its        *)
(* option, of two that matter, and the same with a configuration; and the     *)
(* environment of docker-compose-marian.yml.                                  *)
EXTENDS Startup, FiniteSets

MCTexts  == {"", "0", "1", "70000", "-1"}
MCNumber == [t \in MCTexts |-> CASE t = "1" -> 1 [] t = "70000" -> 70000 [] t = "-1" -> -1
                                 [] OTHER -> 0]

\* The variables of which both texts matter here, the others being like "src".
Sensitive == {"threads", "grpc", "config", "spm", "sentencepiece", "tensorflow_serving"}

MCEnvironments ==
  UNION {{e \in [s -> {"0", "1"}] : \A n \in s \ Sensitive : e[n] = "1"} :
           s \in {t \in SUBSET Names : Cardinality(t) <= 1} \cup {{n, "config"} : n \in Names}
                  \cup {t \in SUBSET Sensitive : Cardinality(t) = 2}}
    \cup [{"config"} -> {""}]
    \cup [{"port"} -> {"70000", "-1"}] \cup [{"port", "grpc"} -> {"70000", "-1"}]

ArgumentOf(opt, text) == [opt |-> opt, text |-> text]

Arguments == {ArgumentOf("threads", "0"), ArgumentOf("grpc", ""), ArgumentOf("spm", "1"),
              ArgumentOf("port", "70000"), ArgumentOf("config", ""), ArgumentOf("help", "")}

EachArgument ==
  {ArgumentOf(o, IF o \in {"grpc", "debug", "tensorflow_serving"} THEN "" ELSE "1") :
     o \in Options}

WithConfig == ArgumentOf("config", "0")

MCCommandLines ==
  LET short == {<<>>} \cup {<<a>> : a \in Arguments \cup EachArgument}
                 \cup [1 .. 2 -> Arguments]
  IN  short \cup {Append(line, WithConfig) : line \in short}

\* docker-compose-marian.yml:10-20, with texts of its own.
ComposeTexts  == {"", "0", "1", "9009", "host", "file", "spm", "xx"}
ComposeNumber == [t \in ComposeTexts |->
                    IF t = "9009" THEN 9009 ELSE IF t = "1" THEN 1 ELSE 0]

Compose == [server_host |-> "host", threads |-> "1", port |-> "9009", config |-> "file",
            spm |-> "spm", src |-> "xx", tgt |-> "xx", grpc |-> "0", debug |-> "1",
            tensorflow_serving |-> "0"]

MCCompose == {Compose}

NoArguments == {<<>>}
=============================================================================
