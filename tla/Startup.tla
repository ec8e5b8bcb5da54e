------------------------------ MODULE Startup ------------------------------
(***************************************************************************)
(* main and ProcessArgs (text-translation.cpp): the options are set from   *)
(* their defaults, then from the environment, one variable after another,  *)
(* then from the command line, one argument after another; the             *)
(* configuration is asked for, and the server is chosen, constructed,      *)
(* initialised and started.                                                *)
(*                                                                         *)
(* The ten blocks of main and the ten cases of ProcessArgs are copies of   *)
(* one another; Blocks and Cases have a row for each of them, with what    *)
(* that copy tests, reads, converts and sets.                              *)
(*                                                                         *)
(* A value is a text; Number is what atoi makes of it.  What the loading   *)
(* of the REST server's configuration does is the subject of ModelLoading; *)
(* here its outcome is open.  A server that serves never returns: nothing  *)
(* calls shutdown from another thread, so what main and the destructors do *)
(* afterwards is not reached.                                              *)
(***************************************************************************)
EXTENDS Integers, Sequences

CONSTANTS
  Texts,         \* the texts that variables and arguments hold; "" is one
  Number,        \* [Texts -> Int]
  No,            \* the texts that say no to a choice, "0" for one
  SpmFiles,      \* the texts that name a SentencePiece model that can be loaded
  Environments,  \* partial functions from the variables' names to Texts
  CommandLines   \* sequences of [opt, text]

Options == {"threads", "port", "grpc", "debug", "config", "server_host", "spm",
            "src", "tgt", "tensorflow_serving"}
Numbers == {"threads", "port", "grpc", "debug"}

\* A variable has the name of its option, "threads" for API_NMT_THREADS and so on;
\* "spm" stands for API_NMT_SENTENCE_PIECE_MODEL, and "sentencepiece" for
\* API_NMT_SENTENCEPIECE_MODEL.
Names == Options \cup {"sentencepiece"}

ASSUME TextsAssumption == "" \in Texts /\ SpmFiles \subseteq Texts \ {""}
                          /\ No \subseteq Texts
                          /\ Number \in [Texts -> Int]
IsEnvironment(e) == DOMAIN e \subseteq Names /\ \A n \in DOMAIN e : e[n] \in Texts

Argument == [opt : Options \cup {"help"}, text : Texts]

ASSUME EnvironmentsAssumption == \A e \in Environments : IsEnvironment(e)
ASSUME CommandLinesAssumption == CommandLines \subseteq Seq(Argument)

VARIABLES env,    \* the environment
          argv,   \* the command line
          pc,     \* the part of main it is in, or how it ended
          next,   \* the variable or the argument that is read next
          value,  \* the options' values
          bound   \* the port the server listens to, 0 for one the system picks; -1 before

vars == <<env, argv, pc, next, value, bound>>

\* After usage; for want of a model; by an exception that leaves main, from the
\* configuration; by a null pointer, in main; in init, for want of a worker; in start,
\* for want of its port.
Ended == {"exited", "unloadable", "aborted", "dead", "idle", "unbound"}

DefaultNoSpm ==  \* mutant: an option without a default
  [threads |-> 1, port |-> 9009, grpc |-> 0, debug |-> 0, config |-> "", server_host |-> "",
   src |-> "", tgt |-> "", tensorflow_serving |-> FALSE]

Default == [threads |-> 1, port |-> 9009, grpc |-> 0, debug |-> 0, config |-> "",
            server_host |-> "", spm |-> "", src |-> "", tgt |-> "",
            tensorflow_serving |-> FALSE]

Init == /\ env \in Environments
        /\ argv \in CommandLines
        /\ pc = "env"
        /\ next = 1
        /\ value = Default
        /\ bound = -1

-----------------------------------------------------------------------------
\* Mutant: a copy that still sets the other language.
BlockCopied(test, read, option, as) ==
  [test |-> test, read |-> read, option |-> IF option = "tgt" THEN "src" ELSE option, as |-> as]

\* A block of main: the variable it tests, the one it reads, the option it sets, and
\* what it makes of the text.
Block(test, read, option, as) == [test |-> test, read |-> read, option |-> option, as |-> as]

Blocks == <<
  Block("threads",            "threads",            "threads",            "atoi"),
  Block("port",               "port",               "port",               "atoi"),
  Block("grpc",               "grpc",               "grpc",               "atoi"),
  Block("debug",              "debug",              "debug",              "atoi"),
  Block("config",             "config",             "config",             "string"),
  Block("server_host",        "server_host",        "server_host",        "string"),
  Block("spm",                "sentencepiece",      "spm",                "string"),
  Block("src",                "src",                "src",                "string"),
  Block("tgt",                "tgt",                "tgt",                "string"),
  Block("tensorflow_serving", "tensorflow_serving", "tensorflow_serving", "pointer") >>

\* A case of the switch: the option it sets, and what it makes of optarg.
Sets(option, as) == [option |-> option, as |-> as]

Cases == [threads            |-> Sets("threads", "atoi"),
          port               |-> Sets("port", "atoi"),
          grpc               |-> Sets("grpc", "one"),
          debug              |-> Sets("debug", "one"),
          config             |-> Sets("config", "string"),
          server_host        |-> Sets("server_host", "string"),
          spm                |-> Sets("spm", "string"),
          src                |-> Sets("src", "string"),
          tgt                |-> Sets("tgt", "string"),
          tensorflow_serving |-> Sets("tensorflow_serving", "true")]

\* A pointer that is not null makes a true boolean, whatever it points to.
Converted(as, text) == CASE as = "atoi"   -> Number[text]
                         [] as = "string" -> text
                         [] as = "one"    -> 1
                         [] as \in {"pointer", "true"} -> TRUE

VariableNotSet(block) == /\ block.test \notin DOMAIN env
                         /\ UNCHANGED <<pc, value>>

VariableSet(block) ==
  /\ {block.test, block.read} \subseteq DOMAIN env
  /\ value' = [value EXCEPT ![block.option] = Converted(block.as, env[block.read])]
  /\ UNCHANGED pc

\* The variable that is read is not the one that is tested: a null pointer.
NullRead(block) == /\ block.test \in DOMAIN env
                   /\ block.read \notin DOMAIN env
                   /\ pc' = "dead"
                   /\ UNCHANGED value

ReadVariable ==
  /\ pc = "env"
  /\ next <= Len(Blocks)
  /\ LET block == Blocks[next]
     IN  VariableNotSet(block) \/ VariableSet(block) \/ NullRead(block)
  /\ next' = next + 1
  /\ UNCHANGED <<env, argv, bound>>

EnvironmentRead == /\ pc = "env"
                   /\ next > Len(Blocks)
                   /\ pc' = "args" /\ next' = 1
                   /\ UNCHANGED <<env, argv, value, bound>>

\* getopt_long and the switch over its result.
ReadArgument ==
  /\ pc = "args"
  /\ next <= Len(argv)
  /\ argv[next].opt \in Options
  /\ LET case == Cases[argv[next].opt]
     IN  value' = [value EXCEPT ![case.option] = Converted(case.as, argv[next].text)]
  /\ next' = next + 1
  /\ UNCHANGED <<env, argv, pc, bound>>

\* --help, or an option that is not known.
Usage == /\ pc = "args"
         /\ next <= Len(argv)
         /\ argv[next].opt = "help"
         /\ pc' = "exited"
         /\ UNCHANGED <<env, argv, next, value, bound>>

\* No configuration: usage.
CheckConfig == /\ pc = "args"
               /\ next > Len(argv)
               /\ pc' = IF value.config = "" THEN "exited" ELSE "choose"
               /\ UNCHANGED <<env, argv, next, value, bound>>

ChooseByArgument ==  \* mutant: the environment has no say
  /\ pc = "choose"
  /\ IF \A k \in DOMAIN argv : argv[k].opt # "grpc"
     THEN pc' \in {"init", "unloadable", "aborted"}
     ELSE pc' = IF value.spm \in SpmFiles THEN "init" ELSE "unloadable"
  /\ UNCHANGED <<env, argv, next, value, bound>>

\* The REST server's constructor loads the models of the configuration, the gRPC
\* server's the one SentencePiece model.
ChooseServer ==
  /\ pc = "choose"
  /\ IF value.grpc = 0
     THEN pc' \in {"init", "unloadable", "aborted"}
     ELSE pc' = IF value.spm \in SpmFiles THEN "init" ELSE "unloadable"
  /\ UNCHANGED <<env, argv, next, value, bound>>

\* The endpoint and its routes, or the service.  Only the endpoint is given the number
\* of threads; what it does with less than one is open.
InitServer == /\ pc = "init"
              /\ \/ pc' = "start"
                 \/ value.grpc = 0 /\ value.threads < 1 /\ pc' = "idle"
              /\ UNCHANGED <<env, argv, next, value, bound>>

\* Mutant: the port is not cut to the width of a port.
WholePort(n) == n

\* A Pistache::Port has 16 bits; gRPC is given the digits, and takes no other port.
Ports      == 0 .. 65535
PortOf(n)  == n % 65536
Valid      == value.grpc = 0 \/ value.port \in Ports

Start == /\ pc = "start"
         /\ Valid
         /\ bound' = IF value.grpc = 0 THEN PortOf(value.port) ELSE value.port
         /\ pc' = "serving"
         /\ UNCHANGED <<env, argv, next, value>>

\* The port cannot be had: serve throws, and nothing catches it; BuildAndStart gives a
\* null pointer, and the call of Wait goes through it.
NoPort == /\ pc = "start"
          /\ pc' = "unbound"
          /\ UNCHANGED <<env, argv, next, value, bound>>

Next == \/ ReadVariable \/ EnvironmentRead \/ ReadArgument \/ Usage
        \/ CheckConfig \/ ChooseServer \/ InitServer \/ Start \/ NoPort

Spec == Init /\ [][Next]_vars

-----------------------------------------------------------------------------
TypeOK == /\ IsEnvironment(env)
          /\ argv \in Seq(Argument)
          /\ pc \in {"env", "args", "choose", "init", "start", "serving"} \cup Ended
          /\ next \in Nat \ {0}
          /\ DOMAIN value = Options
          /\ \A o \in Numbers : value[o] \in Int
          /\ \A o \in Options \ (Numbers \cup {"tensorflow_serving"}) : value[o] \in Texts
          /\ value.tensorflow_serving \in BOOLEAN
          /\ bound = -1 \/ bound \in Ports

\* What a variable asks of its option, as docker-compose-marian.yml writes them; what an
\* argument asks, as usage describes them.
Asked(o, text) == IF o \in Numbers THEN Number[text]
                  ELSE IF o = "tensorflow_serving" THEN text \notin No ELSE text
AskedBy(a) == IF a.opt \in {"grpc", "debug"} THEN 1
              ELSE IF a.opt = "tensorflow_serving" THEN TRUE ELSE Asked(a.opt, a.text)

\* What was asked of an option: by the last argument that gives it, or else by the
\* environment, or else by its default.
Given(o)     == {k \in DOMAIN argv : argv[k].opt = o}
LastOf(K)    == CHOOSE k \in K : \A l \in K : l <= k
Requested(o) == IF Given(o) # {} THEN AskedBy(argv[LastOf(Given(o))])
                ELSE IF o \in DOMAIN env THEN Asked(o, env[o])
                ELSE Default[o]

\* Asked for by a variable alone that main does not take at its word: the SentencePiece
\* model when its other spelling says another one, TensorFlow Serving when it says no.
Misread(o) == /\ Given(o) = {}
              /\ o \in DOMAIN env
              /\ \/ o = "spm" /\ env[o] # env["sentencepiece"]
                 \/ o = "tensorflow_serving" /\ env[o] \in No

\* A server runs with what was asked of each option, arguments before variables before
\* defaults, the last of several arguments, whatever was said of the other options, but
\* for the two variables that are not taken at their word, and for these it never does:
\* API_NMT_TENSORFLOW_SERVING=0, as docker-compose-marian.yml:20 has it, asks for
\* TensorFlow Serving (text-translation.cpp:30-143, 162-225; :199-201 and :222 for the
\* two).
Constructed == pc \in {"init", "start", "serving", "idle", "unbound"}

Precedence == Constructed => \A o \in Options : value[o] = Requested(o) <=> ~Misread(o)

\* How it ends is known from what was asked, wherever in the environment or on the
\* command line it was asked: a server of the kind asked for, if there is a
\* configuration and no --help; a SentencePiece variable without its other spelling is
\* the only way to die before there is a server; only the REST server can be aborted by
\* its configuration, and only it can fail for want of a thread
\* (text-translation.cpp:146-158, :199-204, :242-251).
RightEnd ==
  /\ pc = "dead" => "spm" \in DOMAIN env /\ "sentencepiece" \notin DOMAIN env
  /\ Constructed \/ pc \in {"unloadable", "aborted"} =>
       /\ Requested("config") # ""
       /\ Given("help") = {}
       /\ "spm" \in DOMAIN env => "sentencepiece" \in DOMAIN env
  /\ pc = "exited" => Given("help") # {} \/ Requested("config") = ""
  /\ pc = "aborted" => Requested("grpc") = 0
  /\ pc = "idle" => Requested("grpc") = 0 /\ Requested("threads") < 1
  /\ Constructed /\ Requested("grpc") # 0 => value.spm \in SpmFiles

\* A server that serves does so on the port that was asked for if that is a port; if
\* not, a REST server serves on another one, and a gRPC server does not serve
\* (rest_server.cpp:11, grpc_server.cpp:11-19).
PortAsAsked ==
  pc = "serving" =>
    /\ bound = Requested("port") <=> Requested("port") \in Ports
    /\ Requested("port") \notin Ports => Requested("grpc") = 0

\* The environment that docker-compose-marian.yml gives the server lets it start
\* (docker-compose-marian.yml:14 sets API_NMT_SENTENCE_PIECE_MODEL).
ComposeStarts == pc # "dead"

-----------------------------------------------------------------------------
\* Inductive: an option has, at every point of the reading, the value of what was read
\* so far.
VariablesRead == IF pc = "env" THEN {Blocks[i].option : i \in 1 .. next - 1} ELSE Options
ArgumentsRead == IF pc = "env" THEN {} ELSE IF pc = "args" THEN 1 .. next - 1 ELSE DOMAIN argv

GivenSoFar(o) == {k \in ArgumentsRead : argv[k].opt = o}
Taken(o) == IF o = "spm" THEN env["sentencepiece"]
            ELSE IF o = "tensorflow_serving" THEN TRUE ELSE Asked(o, env[o])
SoFar(o) == IF GivenSoFar(o) # {} THEN AskedBy(argv[LastOf(GivenSoFar(o))])
            ELSE IF o \in DOMAIN env /\ o \in VariablesRead THEN Taken(o)
            ELSE Default[o]

AsRead ==
  /\ \A o \in Options : value[o] = SoFar(o)
  /\ GivenSoFar("help") = {}
  /\ "spm" \in VariablesRead /\ "spm" \in DOMAIN env => "sentencepiece" \in DOMAIN env

Control ==
  /\ pc = "env" => next <= 11
  /\ pc = "args" => next <= Len(argv) + 1
  /\ pc \in {"choose", "unloadable", "aborted"} \/ Constructed => value.config # ""
  /\ pc = "aborted" => value.grpc = 0
  /\ pc = "idle" => value.grpc = 0 /\ value.threads < 1
  /\ Constructed /\ value.grpc # 0 => value.spm \in SpmFiles
  /\ pc = "serving" => /\ Valid
                       /\ bound = IF value.grpc = 0 THEN PortOf(value.port) ELSE value.port

IInv == /\ TypeOK /\ RightEnd /\ Control
        /\ pc \notin {"dead", "exited"} => AsRead
=============================================================================
