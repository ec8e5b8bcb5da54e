--------------------------- MODULE Startup_proofs ---------------------------
(* What holds of a start for any environment and any command line.           *)
EXTENDS Startup, TLAPS

\* A value of the type of its option.
Fits(o, v) == /\ o \in Numbers => v \in Int
              /\ o = "tensorflow_serving" => v \in BOOLEAN
              /\ o \in Options \ (Numbers \cup {"tensorflow_serving"}) => v \in Texts

LEMMA AskedFits ==
  ASSUME NEW o \in Options, NEW text \in Texts
  PROVE  Fits(o, Asked(o, text))
BY TextsAssumption DEF Fits, Asked, Numbers

\* What a block does with the variable it reads is what Taken says of its option.
Row(i, test, read, option, as) ==
  Blocks[i].test = test /\ Blocks[i].read = read /\ Blocks[i].option = option /\ Blocks[i].as = as

LEMMA TheRows ==
  /\ Len(Blocks) = 10
  /\ Row(1, "threads", "threads", "threads", "atoi")
  /\ Row(2, "port", "port", "port", "atoi")
  /\ Row(3, "grpc", "grpc", "grpc", "atoi")
  /\ Row(4, "debug", "debug", "debug", "atoi")
  /\ Row(5, "config", "config", "config", "string")
  /\ Row(6, "server_host", "server_host", "server_host", "string")
  /\ Row(7, "spm", "sentencepiece", "spm", "string")
  /\ Row(8, "src", "src", "src", "string")
  /\ Row(9, "tgt", "tgt", "tgt", "string")
  /\ Row(10, "tensorflow_serving", "tensorflow_serving", "tensorflow_serving", "pointer")
BY DEF Blocks, Block, Row

LEMMA Conversions ==
  /\ \A text : /\ Converted("atoi", text) = Number[text]
               /\ Converted("string", text) = text
               /\ Converted("one", text) = 1
               /\ Converted("pointer", text) = TRUE
               /\ Converted("true", text) = TRUE
  /\ \A o, text : /\ o \in Numbers => Asked(o, text) = Number[text]
                  /\ o \notin Numbers \cup {"tensorflow_serving"} => Asked(o, text) = text
<1>1. \A text : Converted("atoi", text) = Number[text]
  BY DEF Converted
<1>2. \A text : Converted("string", text) = text
  BY DEF Converted
<1>3. \A text : Converted("one", text) = 1
  BY DEF Converted
<1>4. \A text : Converted("pointer", text) = TRUE
  BY DEF Converted
<1>5. \A text : Converted("true", text) = TRUE
  BY DEF Converted
<1>6. \A o, text : /\ o \in Numbers => Asked(o, text) = Number[text]
                   /\ o \notin Numbers \cup {"tensorflow_serving"} => Asked(o, text) = text
  BY DEF Asked
<1>. QED
  BY <1>1, <1>2, <1>3, <1>4, <1>5, <1>6

LEMMA TheBlocks ==
  ASSUME NEW i \in 1 .. 10
  PROVE  /\ Blocks[i].option \in Options
         /\ Blocks[i].test = Blocks[i].option
         /\ Blocks[i].read = IF Blocks[i].option = "spm" THEN "sentencepiece" ELSE Blocks[i].option
         /\ \A text : Converted(Blocks[i].as, text) =
                       IF Blocks[i].option = "tensorflow_serving" THEN TRUE
                       ELSE Asked(Blocks[i].option, text)
<1>1. i \in {1, 2, 3, 4, 5, 6, 7, 8, 9, 10}
  OBVIOUS
<1>2. CASE i \in {1, 2, 3, 4}
  <2>1. /\ Blocks[i].test = Blocks[i].option
        /\ Blocks[i].read = IF Blocks[i].option = "spm" THEN "sentencepiece" ELSE Blocks[i].option
        /\ Blocks[i].option \in Numbers /\ Blocks[i].as = "atoi"
    BY <1>2, TheRows DEF Row, Options, Numbers
  <2>2. \A text : Converted(Blocks[i].as, text) = Asked(Blocks[i].option, text)
    BY <2>1, Conversions
  <2>. QED
    BY <2>1, <2>2 DEF Options, Numbers
<1>3. CASE i \in {5, 6, 7, 8, 9}
  <2>1. /\ Blocks[i].test = Blocks[i].option
        /\ Blocks[i].read = IF Blocks[i].option = "spm" THEN "sentencepiece" ELSE Blocks[i].option
        /\ Blocks[i].option \in Options \ (Numbers \cup {"tensorflow_serving"})
        /\ Blocks[i].as = "string"
    BY <1>3, TheRows DEF Row, Options, Numbers
  <2>2. \A text : Converted(Blocks[i].as, text) = Asked(Blocks[i].option, text)
    BY <2>1, Conversions
  <2>. QED
    BY <2>1, <2>2 DEF Options, Numbers
<1>4. CASE i = 10
  <2>1. Blocks[i].option = "tensorflow_serving" /\ Blocks[i].as = "pointer"
    BY <1>4, TheRows DEF Row
  <2>2. Blocks[i].test = "tensorflow_serving" /\ Blocks[i].read = "tensorflow_serving"
    BY <1>4, TheRows DEF Row
  <2>. QED
    BY <2>1, <2>2, Conversions DEF Options
<1>. QED
  BY <1>1, <1>2, <1>3, <1>4

LEMMA EveryOption == {Blocks[i].option : i \in 1 .. 10} = Options
<1>1. \A i \in 1 .. 10 : Blocks[i].option \in Options
  BY TheBlocks
<1>2. \A o \in Options : \E i \in 1 .. 10 : Blocks[i].option = o
  <2>1. {1, 2, 3, 4, 5, 6, 7, 8, 9, 10} \subseteq 1 .. 10
    OBVIOUS
  <2>. QED
    BY <2>1, TheRows, ZenonT(60) DEF Row, Options
<1>. QED
  BY <1>1, <1>2

\* A case sets the option it is for, to what the argument asks.
LEMMA TheCases ==
  ASSUME NEW a \in Argument, a.opt \in Options
  PROVE  Cases[a.opt].option = a.opt /\ Converted(Cases[a.opt].as, a.text) = AskedBy(a)
<1>1. CASE a.opt \in {"threads", "port"}
  <2>1. Cases[a.opt].option = a.opt /\ Cases[a.opt].as = "atoi"
    BY <1>1 DEF Cases, Sets
  <2>2. AskedBy(a) = Asked(a.opt, a.text) /\ a.opt \in Numbers
    BY <1>1 DEF AskedBy, Numbers
  <2>. QED
    BY <2>1, <2>2, Conversions
<1>2. CASE a.opt \in {"grpc", "debug"}
  <2>1. Cases[a.opt].option = a.opt /\ Cases[a.opt].as = "one"
    BY <1>2 DEF Cases, Sets
  <2>2. AskedBy(a) = 1
    BY <1>2 DEF AskedBy
  <2>. QED
    BY <2>1, <2>2, Conversions
<1>3. CASE a.opt \in {"config", "server_host", "spm", "src", "tgt"}
  <2>1. Cases[a.opt].option = a.opt /\ Cases[a.opt].as = "string"
    BY <1>3 DEF Cases, Sets
  <2>2. AskedBy(a) = Asked(a.opt, a.text) /\ a.opt \notin Numbers \cup {"tensorflow_serving"}
    BY <1>3 DEF AskedBy, Numbers
  <2>. QED
    BY <2>1, <2>2, Conversions
<1>4. CASE a.opt = "tensorflow_serving"
  <2>1. Cases[a.opt].option = a.opt /\ Cases[a.opt].as = "true"
    BY <1>4 DEF Cases, Sets
  <2>2. AskedBy(a) = TRUE
    BY <1>4 DEF AskedBy
  <2>. QED
    BY <2>1, <2>2, Conversions
<1>. QED
  BY <1>1, <1>2, <1>3, <1>4 DEF Options

LEMMA ArgumentFits ==
  ASSUME NEW a \in Argument, a.opt \in Options
  PROVE  Fits(a.opt, AskedBy(a))
<1>1. a.text \in Texts
  BY DEF Argument
<1>2. CASE a.opt \in {"grpc", "debug"}
  <2>1. AskedBy(a) = 1
    BY <1>2 DEF AskedBy
  <2>. QED
    BY <1>2, <2>1 DEF Fits, Numbers
<1>4. CASE a.opt = "tensorflow_serving"
  <2>1. AskedBy(a) = TRUE
    BY <1>4 DEF AskedBy
  <2>. QED
    BY <1>4, <2>1 DEF Fits, Numbers
<1>3. CASE a.opt \notin {"grpc", "debug", "tensorflow_serving"}
  <2>1. AskedBy(a) = Asked(a.opt, a.text)
    BY <1>3 DEF AskedBy
  <2>. QED
    BY <1>1, <2>1, AskedFits
<1>. QED
  BY <1>2, <1>3, <1>4

\* Setting one option keeps the types of all.
LEMMA SetOption ==
  ASSUME TypeOK, NEW o \in Options, NEW v, Fits(o, v), value' = [value EXCEPT ![o] = v]
  PROVE  /\ DOMAIN value' = Options
         /\ \A q \in Numbers : value'[q] \in Int
         /\ \A q \in Options \ (Numbers \cup {"tensorflow_serving"}) : value'[q] \in Texts
         /\ value'.tensorflow_serving \in BOOLEAN
         /\ value'[o] = v
         /\ \A q \in Options \ {o} : value'[q] = value[q]
<1>1. DOMAIN value = Options /\ "tensorflow_serving" \in Options /\ Numbers \subseteq Options
      /\ "tensorflow_serving" \notin Numbers
  BY DEF TypeOK, Numbers, Options
<1>2. value'[o] = v /\ \A q \in Options \ {o} : value'[q] = value[q]
  BY <1>1
<1>. QED
  BY <1>1, <1>2 DEF TypeOK, Fits

LEMMA Typed ==
  ASSUME TypeOK
  PROVE  /\ Len(argv) \in Nat /\ DOMAIN argv = 1 .. Len(argv)
         /\ \A k \in DOMAIN argv : argv[k] \in Argument
         /\ next \in Nat \ {0}
         /\ \A o \in DOMAIN env : env[o] \in Texts
BY DEF TypeOK, IsEnvironment

\* When all is read, it is what was asked, but for what is misread.
LEMMA AllRead ==
  ASSUME pc \notin {"env", "args"} \/ (pc = "args" /\ next > Len(argv)), TypeOK, Control
  PROVE  /\ GivenSoFar("help") = Given("help")
         /\ VariablesRead = Options
         /\ \A o \in Options : SoFar(o) = IF Given(o) = {} /\ o \in DOMAIN env THEN Taken(o)
                                          ELSE Requested(o)
<1>1. ArgumentsRead = DOMAIN argv
  <2>1. ASSUME pc = "args"
        PROVE  1 .. next - 1 = DOMAIN argv
    <3>1. next <= Len(argv) + 1 /\ next > Len(argv)
      BY <2>1 DEF Control
    <3>. QED
      BY <3>1, Typed
  <2>. QED
    BY <2>1 DEF ArgumentsRead
<1>2. VariablesRead = Options
  BY DEF VariablesRead
<1>3. \A q : GivenSoFar(q) = Given(q)
  BY <1>1 DEF GivenSoFar, Given
<1>. QED
  BY <1>2, <1>3 DEF SoFar, Requested

\* What a step leaves alone keeps what was asked.
LEMMA SameRequest ==
  ASSUME UNCHANGED <<env, argv>>
  PROVE  /\ \A o : Requested(o)' = Requested(o) /\ Given(o)' = Given(o)
BY DEF Requested, Given, LastOf, AskedBy, Asked

-----------------------------------------------------------------------------
LEMMA InitInvariant == Init => IInv
<1>. SUFFICES ASSUME Init PROVE IInv
  OBVIOUS
<1>1. env \in Environments /\ argv \in CommandLines /\ pc = "env" /\ next = 1 /\ value = Default
      /\ bound = -1
  BY DEF Init
<1>2. TypeOK
  <2>1. IsEnvironment(env) /\ argv \in Seq(Argument)
    BY <1>1, EnvironmentsAssumption, CommandLinesAssumption
  <2>2. /\ DOMAIN value = Options
        /\ \A o \in Numbers : value[o] \in Int
        /\ \A o \in Options \ (Numbers \cup {"tensorflow_serving"}) : value[o] \in Texts
        /\ value.tensorflow_serving \in BOOLEAN
    <3>1. DOMAIN value = Options
      BY <1>1, ZenonT(60) DEF Default, Options
    <3>2. ASSUME NEW o \in Numbers
          PROVE  value[o] \in Int
      <4>1. o = "threads" \/ o = "port" \/ o = "grpc" \/ o = "debug"
        BY DEF Numbers
      <4>2. /\ Default["threads"] = 1 /\ Default["grpc"] = 0 /\ Default["debug"] = 0
            /\ Default["port"] \in Int
        BY DEF Default
      <4>. QED
        BY <1>1, <4>1, <4>2
    <3>3. ASSUME NEW o \in Options \ (Numbers \cup {"tensorflow_serving"})
          PROVE  value[o] \in Texts
      <4>1. o = "config" \/ o = "server_host" \/ o = "spm" \/ o = "src" \/ o = "tgt"
        BY DEF Numbers, Options
      <4>2. /\ Default["config"] = "" /\ Default["server_host"] = "" /\ Default["spm"] = ""
            /\ Default["src"] = "" /\ Default["tgt"] = ""
        BY DEF Default
      <4>. QED
        BY <1>1, <4>1, <4>2, TextsAssumption
    <3>4. value.tensorflow_serving \in BOOLEAN
      BY <1>1, ZenonT(60) DEF Default
    <3>. QED
      BY <3>1, <3>2, <3>3, <3>4
  <2>. QED
    BY <1>1, <2>1, <2>2 DEF TypeOK
<1>3. RightEnd /\ Control
  BY <1>1 DEF RightEnd, Control, Constructed
<1>4. AsRead
  <2>1. VariablesRead = {} /\ ArgumentsRead = {}
    BY <1>1 DEF VariablesRead, ArgumentsRead
  <2>. QED
    BY <1>1, <2>1 DEF AsRead, SoFar, GivenSoFar
<1>. QED
  BY <1>2, <1>3, <1>4 DEF IInv

\* Reading variable number next adds its option to what was read.
LEMMA OneMoreVariable ==
  ASSUME TypeOK, pc = "env", next <= Len(Blocks)
  PROVE  /\ next \in 1 .. 10
         /\ {Blocks[i].option : i \in 1 .. (next + 1) - 1} =
              {Blocks[i].option : i \in 1 .. next - 1} \cup {Blocks[next].option}
<1>1. next \in 1 .. 10
  BY TheRows, Typed
<1>2. 1 .. (next + 1) - 1 = (1 .. next - 1) \cup {next}
  BY <1>1
<1>. QED
  BY <1>1, <1>2

LEMMA ReadVariableInvariant == ASSUME IInv, ReadVariable PROVE IInv'
<1>0. /\ TypeOK /\ RightEnd /\ Control /\ AsRead /\ pc = "env" /\ next <= Len(Blocks)
      /\ next' = next + 1 /\ UNCHANGED <<env, argv, bound>>
  BY DEF IInv, ReadVariable
<1>b. PICK block : block = Blocks[next]
  OBVIOUS
<1>o. PICK o : o = block.option
  OBVIOUS
<1>1. next \in 1 .. 10 /\ next' \in Nat \ {0} /\ next' <= 11
  BY <1>0, OneMoreVariable
<1>r. /\ o \in Options /\ block.test = o /\ block.option = o
      /\ block.read = IF o = "spm" THEN "sentencepiece" ELSE o
      /\ \A text : Converted(block.as, text) =
                    IF o = "tensorflow_serving" THEN TRUE ELSE Asked(o, text)
  BY <1>1, <1>b, <1>o, TheBlocks
<1>2. ASSUME pc' = "env"
      PROVE  VariablesRead' = VariablesRead \cup {o} /\ ArgumentsRead' = {} /\ ArgumentsRead = {}
  BY <1>0, <1>2, <1>b, <1>o, OneMoreVariable DEF VariablesRead, ArgumentsRead
<1>3. ASSUME pc' = "env"
      PROVE  RightEnd' /\ Control'
  BY <1>1, <1>3 DEF RightEnd, Control, Constructed
<1>4. ASSUME pc' = "env"
      PROVE  /\ \A q : GivenSoFar(q)' = {} /\ GivenSoFar(q) = {}
             /\ \A q \in Options \ {o} : SoFar(q)' = SoFar(q)
             /\ SoFar(o)' = IF o \in DOMAIN env THEN Taken(o) ELSE Default[o]
             /\ o \notin DOMAIN env => SoFar(o) = Default[o]
  <2>1. \A q : GivenSoFar(q)' = {} /\ GivenSoFar(q) = {}
    BY <1>2, <1>4 DEF GivenSoFar
  <2>2. ASSUME NEW q PROVE Taken(q)' = Taken(q)
    BY <1>0 DEF Taken, Asked
  <2>. QED
    BY <1>0, <1>r, <1>2, <1>4, <2>1, <2>2 DEF SoFar
<1>5. CASE VariableNotSet(block)
  <2>1. pc' = "env" /\ value' = value /\ o \notin DOMAIN env
    BY <1>0, <1>5, <1>r DEF VariableNotSet
  <2>2. TypeOK'
    BY <1>0, <1>1, <2>1 DEF TypeOK, IsEnvironment
  <2>3. AsRead'
    <3>1. \A q \in Options : SoFar(q)' = SoFar(q)
      BY <1>4, <2>1
    <3>. QED
      BY <1>0, <1>2, <1>4, <2>1, <3>1 DEF AsRead
  <2>. QED
    BY <1>3, <2>1, <2>2, <2>3 DEF IInv
<1>6. CASE VariableSet(block)
  <2>1. /\ pc' = "env" /\ o \in DOMAIN env /\ block.read \in DOMAIN env
        /\ value' = [value EXCEPT ![o] = Converted(block.as, env[block.read])]
    BY <1>0, <1>6, <1>r DEF VariableSet
  <2>2. Converted(block.as, env[block.read]) = Taken(o)
    <3>1. CASE o = "spm"
      BY <1>r, <3>1, Conversions DEF Taken, Numbers
    <3>2. CASE o = "tensorflow_serving"
      <4>1. Taken(o) = TRUE
        BY <3>2 DEF Taken
      <4>. QED
        BY <1>r, <3>2, <4>1
    <3>3. CASE o \notin {"spm", "tensorflow_serving"}
      BY <1>r, <3>3 DEF Taken
    <3>. QED
      BY <3>1, <3>2, <3>3
  <2>3. Fits(o, Taken(o))
    <3>1. CASE o = "tensorflow_serving"
      BY <3>1 DEF Taken, Fits, Numbers
    <3>2. CASE o = "spm"
      BY <1>0, <1>r, <2>1, <3>2, Typed DEF Taken, Fits, Numbers
    <3>3. CASE o \notin {"tensorflow_serving", "spm"}
      BY <1>0, <1>r, <2>1, <3>3, AskedFits, Typed DEF Taken
    <3>. QED
      BY <3>1, <3>2, <3>3
  <2>4. /\ DOMAIN value' = Options
        /\ \A q \in Numbers : value'[q] \in Int
        /\ \A q \in Options \ (Numbers \cup {"tensorflow_serving"}) : value'[q] \in Texts
        /\ value'.tensorflow_serving \in BOOLEAN
        /\ value'[o] = Taken(o)
        /\ \A q \in Options \ {o} : value'[q] = value[q]
    BY <1>0, <1>r, <2>1, <2>2, <2>3, SetOption
  <2>5. TypeOK'
    BY <1>0, <1>1, <2>1, <2>4 DEF TypeOK, IsEnvironment
  <2>6. AsRead'
    <3>1. ASSUME NEW q \in Options
          PROVE  value'[q] = SoFar(q)'
      <4>1. CASE q = o
        BY <1>4, <2>1, <2>4, <4>1
      <4>2. CASE q # o
        BY <1>0, <1>4, <2>1, <2>4, <4>2 DEF AsRead
      <4>. QED
        BY <4>1, <4>2
    <3>2. "spm" \in VariablesRead' /\ "spm" \in DOMAIN env' => "sentencepiece" \in DOMAIN env'
      BY <1>0, <1>r, <1>2, <2>1 DEF AsRead
    <3>. QED
      BY <1>4, <2>1, <3>1, <3>2 DEF AsRead
  <2>. QED
    BY <1>3, <2>1, <2>5, <2>6 DEF IInv
<1>7. CASE NullRead(block)
  <2>1. pc' = "dead" /\ value' = value /\ "spm" \in DOMAIN env /\ "sentencepiece" \notin DOMAIN env
    BY <1>7, <1>r DEF NullRead
  <2>2. TypeOK'
    BY <1>0, <1>1, <2>1 DEF TypeOK, IsEnvironment, Ended
  <2>3. RightEnd' /\ Control'
    BY <1>0, <2>1 DEF RightEnd, Control, Constructed
  <2>. QED
    BY <2>1, <2>2, <2>3 DEF IInv
<1>. QED
  BY <1>5, <1>6, <1>7, <1>b DEF ReadVariable

LEMMA EnvironmentReadInvariant == ASSUME IInv, EnvironmentRead PROVE IInv'
<1>0. /\ TypeOK /\ RightEnd /\ Control /\ AsRead /\ pc = "env" /\ pc' = "args" /\ next' = 1
      /\ next > Len(Blocks) /\ UNCHANGED <<env, argv, value, bound>>
  BY DEF IInv, EnvironmentRead
<1>1. TypeOK'
  BY <1>0 DEF TypeOK, IsEnvironment
<1>2. RightEnd' /\ Control'
  BY <1>0, Typed DEF RightEnd, Control, Constructed
<1>3. VariablesRead = Options /\ VariablesRead' = Options
  <2>1. 1 .. next - 1 = 1 .. 10
    <3>1. next <= 11
      BY <1>0 DEF Control
    <3>2. next = 11
      BY <1>0, <3>1, TheRows, Typed
    <3>. QED
      BY <3>2
  <2>. QED
    BY <1>0, <2>1, EveryOption DEF VariablesRead
<1>4. ArgumentsRead = {} /\ ArgumentsRead' = {}
  BY <1>0 DEF ArgumentsRead
<1>5. \A q : GivenSoFar(q) = {} /\ GivenSoFar(q)' = {}
  BY <1>4 DEF GivenSoFar
<1>6. \A q \in Options : SoFar(q)' = SoFar(q)
  BY <1>0, <1>3, <1>5 DEF SoFar, Taken, Asked
<1>7. AsRead'
  BY <1>0, <1>3, <1>5, <1>6 DEF AsRead
<1>. QED
  BY <1>1, <1>2, <1>7 DEF IInv

\* The last argument read is the last one that gives its option.
LEMMA ReadArgumentInvariant == ASSUME IInv, ReadArgument PROVE IInv'
<1>0. /\ TypeOK /\ RightEnd /\ Control /\ AsRead /\ pc = "args" /\ pc' = "args"
      /\ next <= Len(argv) /\ argv[next].opt \in Options /\ next' = next + 1
      /\ value' = [value EXCEPT ![Cases[argv[next].opt].option] =
                                  Converted(Cases[argv[next].opt].as, argv[next].text)]
      /\ UNCHANGED <<env, argv, bound>>
  BY DEF IInv, ReadArgument
<1>n. PICK n \in Nat \ {0} : n = next
  BY <1>0, Typed
<1>a. PICK a \in Argument : a = argv[n] /\ n \in DOMAIN argv
  BY <1>0, <1>n, Typed
<1>o. PICK o \in Options : o = a.opt
  BY <1>0, <1>a, <1>n
<1>1. /\ Len(argv) \in Nat /\ n <= Len(argv) /\ next' = n + 1
      /\ value' = [value EXCEPT ![o] = AskedBy(a)]
  BY <1>0, <1>a, <1>n, <1>o, TheCases, Typed
<1>2. /\ DOMAIN value' = Options
      /\ \A q \in Numbers : value'[q] \in Int
      /\ \A q \in Options \ (Numbers \cup {"tensorflow_serving"}) : value'[q] \in Texts
      /\ value'.tensorflow_serving \in BOOLEAN
      /\ value'[o] = AskedBy(a)
      /\ \A q \in Options \ {o} : value'[q] = value[q]
  <2>1. Fits(o, AskedBy(a))
    BY <1>o, ArgumentFits
  <2>. QED
    BY <1>0, <1>1, <2>1, SetOption
<1>3. TypeOK'
  <2>1. next' \in Nat \ {0}
    BY <1>1
  <2>. QED
    BY <1>0, <1>2, <2>1 DEF TypeOK, IsEnvironment
<1>4. RightEnd' /\ Control'
  <2>1. next' <= Len(argv') + 1
    BY <1>0, <1>1
  <2>. QED
    BY <1>0, <2>1 DEF RightEnd, Control, Constructed
<1>5. ArgumentsRead' = ArgumentsRead \cup {n} /\ \A k \in ArgumentsRead : k \in Nat /\ k < n
  <2>1. 1 .. (n + 1) - 1 = (1 .. n - 1) \cup {n}
    OBVIOUS
  <2>. QED
    BY <1>0, <1>1, <1>n, <2>1 DEF ArgumentsRead
<1>6. \A q : GivenSoFar(q)' = IF q = o THEN GivenSoFar(q) \cup {n} ELSE GivenSoFar(q)
  BY <1>0, <1>5, <1>a, <1>o DEF GivenSoFar
<1>7. LastOf(GivenSoFar(o))' = n
  <2>1. PICK K : K = GivenSoFar(o)'
    OBVIOUS
  <2>2. K = GivenSoFar(o) \cup {n} /\ GivenSoFar(o) \subseteq ArgumentsRead
    BY <1>6, <2>1 DEF GivenSoFar
  <2>3. n \in K /\ \A l \in K : l \in Nat /\ l <= n
    BY <1>5, <2>2
  <2>4. \A k \in K : (\A l \in K : l <= k) => k = n
    BY <2>3
  <2>. QED
    BY <2>1, <2>3, <2>4 DEF LastOf
<1>8. VariablesRead' = VariablesRead
  BY <1>0 DEF VariablesRead
<1>9. \A q \in Options \ {o} : SoFar(q)' = SoFar(q)
  <2>. SUFFICES ASSUME NEW q \in Options \ {o} PROVE SoFar(q)' = SoFar(q)
    OBVIOUS
  <2>1. GivenSoFar(q)' = GivenSoFar(q)
    BY <1>6
  <2>. QED
    BY <1>0, <1>8, <2>1 DEF SoFar, Taken, Asked, AskedBy, LastOf
<1>10. SoFar(o)' = AskedBy(a)
  <2>1. GivenSoFar(o)' # {}
    BY <1>6
  <2>2. argv'[LastOf(GivenSoFar(o))'] = a
    BY <1>0, <1>7, <1>a
  <2>. QED
    BY <2>1, <2>2 DEF SoFar, AskedBy, Asked
<1>11. AsRead'
  <2>1. GivenSoFar("help")' = {}
    <3>1. "help" \notin Options
      BY DEF Options
    <3>. QED
      BY <1>0, <1>6, <3>1 DEF AsRead
  <2>2. ASSUME NEW q \in Options
        PROVE  value'[q] = SoFar(q)'
    <3>1. CASE q = o
      BY <1>2, <1>10, <3>1
    <3>2. CASE q # o
      BY <1>0, <1>2, <1>9, <3>2 DEF AsRead
    <3>. QED
      BY <3>1, <3>2
  <2>. QED
    BY <1>0, <1>8, <2>1, <2>2 DEF AsRead
<1>. QED
  BY <1>3, <1>4, <1>11 DEF IInv

-----------------------------------------------------------------------------
\* After the reading, nothing that was read or asked changes any more.
LEMMA ReadingStands ==
  ASSUME TypeOK, Control, AsRead, pc # "env", pc = "args" => next > Len(argv),
         pc' \notin {"env", "args"}, UNCHANGED <<env, argv, value>>
  PROVE  AsRead'
<1>1. ArgumentsRead = DOMAIN argv /\ ArgumentsRead' = DOMAIN argv
  <2>1. ASSUME pc = "args"
        PROVE  1 .. next - 1 = DOMAIN argv
    <3>1. next <= Len(argv) + 1
      BY <2>1 DEF Control
    <3>. QED
      BY <2>1, <3>1, Typed
  <2>. QED
    BY <2>1 DEF ArgumentsRead
<1>2. VariablesRead = Options /\ VariablesRead' = Options
  BY DEF VariablesRead
<1>3. \A q : GivenSoFar(q)' = GivenSoFar(q)
  BY <1>1 DEF GivenSoFar
<1>4. ASSUME NEW q PROVE SoFar(q)' = SoFar(q)
  <2>1. GivenSoFar(q)' = GivenSoFar(q)
    BY <1>3
  <2>. QED
    BY <1>2, <2>1 DEF SoFar, Taken, Asked, AskedBy, LastOf
<1>. QED
  BY <1>2, <1>3, <1>4 DEF AsRead

\* Any number is cut to a port.
LEMMA CutToPort ==
  ASSUME NEW n \in Int
  PROVE  PortOf(n) \in Ports /\ (n \in Ports => PortOf(n) = n)
<1>1. PortOf(n) \in Ports
  BY SMTT(60) DEF PortOf, Ports
<1>2. ASSUME n >= 0, n <= 65535
      PROVE  PortOf(n) = n
  BY <1>2 DEF PortOf
<1>3. n \in Ports => n >= 0 /\ n <= 65535
  BY SMTT(60) DEF Ports
<1>. QED
  BY <1>1, <1>2, <1>3

\* What was read is what was asked, but for the two that are not taken at their word.
LEMMA ReadIsRequested ==
  ASSUME TypeOK, Control, AsRead, pc # "env", pc = "args" => next > Len(argv)
  PROVE  /\ \A o \in Options : value[o] = Requested(o) <=> ~Misread(o)
         /\ value.config = Requested("config") /\ value.grpc = Requested("grpc")
         /\ value.port = Requested("port") /\ value.threads = Requested("threads")
         /\ Given("help") = {}
         /\ "spm" \in DOMAIN env => "sentencepiece" \in DOMAIN env
<1>1. /\ GivenSoFar("help") = Given("help") /\ VariablesRead = Options
      /\ \A o \in Options : SoFar(o) = IF Given(o) = {} /\ o \in DOMAIN env THEN Taken(o)
                                       ELSE Requested(o)
  BY AllRead
<1>2. {"config", "grpc", "port", "threads", "spm"} \subseteq Options
  BY DEF Options
<1>3. ASSUME NEW o \in Options
      PROVE  value[o] = Requested(o) <=> ~Misread(o)
  <2>1. CASE Given(o) # {} \/ o \notin DOMAIN env
    BY <1>1, <2>1 DEF AsRead, Misread
  <2>2. CASE Given(o) = {} /\ o \in DOMAIN env
    <3>1. value[o] = Taken(o) /\ Requested(o) = Asked(o, env[o])
      BY <1>1, <2>2 DEF AsRead, Requested
    <3>2. CASE o = "spm"
      BY <2>2, <3>1, <3>2 DEF Taken, Asked, Misread, Numbers
    <3>3. CASE o = "tensorflow_serving"
      <4>1. value[o] = TRUE /\ Requested(o) = (env[o] \notin No)
        BY <3>1, <3>3 DEF Taken, Asked, Numbers
      <4>2. Misread(o) <=> env[o] \in No
        BY <2>2, <3>3 DEF Misread
      <4>. QED
        BY <4>1, <4>2
    <3>4. CASE o \notin {"spm", "tensorflow_serving"}
      BY <2>2, <3>1, <3>4 DEF Taken, Misread
    <3>. QED
      BY <3>2, <3>3, <3>4
  <2>. QED
    BY <2>1, <2>2
<1>4. ~Misread("config") /\ ~Misread("grpc") /\ ~Misread("port") /\ ~Misread("threads")
  BY DEF Misread
<1>5. Given("help") = {} /\ ("spm" \in DOMAIN env => "sentencepiece" \in DOMAIN env)
  BY <1>1, <1>2 DEF AsRead
<1>. QED
  BY <1>2, <1>3, <1>4, <1>5

LEMMA UsageInvariant == ASSUME IInv, Usage PROVE IInv'
<1>0. /\ TypeOK /\ pc = "args" /\ pc' = "exited" /\ next <= Len(argv) /\ argv[next].opt = "help"
      /\ UNCHANGED <<env, argv, next, value, bound>>
  BY DEF IInv, Usage
<1>1. TypeOK'
  BY <1>0 DEF TypeOK, IsEnvironment, Ended
<1>2. RightEnd'
  <2>1. next \in Given("help")
    BY <1>0, Typed DEF Given
  <2>2. Given("help")' # {}
    BY <1>0, <2>1, SameRequest
  <2>. QED
    BY <1>0, <2>2 DEF RightEnd, Constructed
<1>3. Control'
  BY <1>0 DEF Control, Constructed
<1>. QED
  BY <1>0, <1>1, <1>2, <1>3 DEF IInv

LEMMA CheckConfigInvariant == ASSUME IInv, CheckConfig PROVE IInv'
<1>0. /\ TypeOK /\ AsRead /\ Control /\ pc = "args" /\ next > Len(argv)
      /\ pc' = IF value.config = "" THEN "exited" ELSE "choose"
      /\ UNCHANGED <<env, argv, next, value, bound>>
  BY DEF IInv, CheckConfig
<1>1. TypeOK'
  BY <1>0 DEF TypeOK, IsEnvironment, Ended
<1>2. Control'
  BY <1>0 DEF Control, Constructed
<1>3. RightEnd'
  <2>1. value.config = Requested("config")
    BY <1>0, ReadIsRequested
  <2>2. Requested("config")' = value.config
    BY <1>0, <2>1, SameRequest
  <2>. QED
    BY <1>0, <2>2 DEF RightEnd, Constructed
<1>4. AsRead'
  BY <1>0, ReadingStands
<1>. QED
  BY <1>1, <1>2, <1>3, <1>4 DEF IInv

\* From the choice of the server on, every end of a start keeps to what was asked.
LEMMA ChosenEnds ==
  ASSUME TypeOK, Control, AsRead, pc \in {"choose", "init", "start"},
         pc' \in {"init", "start", "serving", "idle", "unbound", "unloadable", "aborted"},
         UNCHANGED <<env, argv, value>>,
         pc' = "aborted" => value.grpc = 0,
         pc' = "idle" => value.grpc = 0 /\ value.threads < 1,
         pc' \in {"init", "start", "serving", "unbound"} /\ value.grpc # 0 => value.spm \in SpmFiles
  PROVE  RightEnd' /\ AsRead' /\ value'.config # ""
<1>1. value.config # ""
  BY DEF Control, Constructed
<1>2. /\ value.config = Requested("config") /\ value.grpc = Requested("grpc")
      /\ value.threads = Requested("threads") /\ Given("help") = {}
      /\ "spm" \in DOMAIN env => "sentencepiece" \in DOMAIN env
  BY ReadIsRequested
<1>3. /\ Requested("config")' = Requested("config") /\ Requested("grpc")' = Requested("grpc")
      /\ Requested("threads")' = Requested("threads") /\ Given("help")' = Given("help")
  BY SameRequest
<1>4. RightEnd'
  <2>1. Requested("config")' # "" /\ Given("help")' = {}
    BY <1>1, <1>2, <1>3
  <2>2. "spm" \in DOMAIN env' => "sentencepiece" \in DOMAIN env'
    BY <1>2
  <2>3. ((Requested("grpc") = 0)' <=> value.grpc = 0)
        /\ ((Requested("threads") < 1)' <=> value.threads < 1)
    BY <1>2, <1>3
  <2>4. pc' \notin {"dead", "exited"}
    OBVIOUS
  <2>. QED
    BY <2>1, <2>2, <2>3, <2>4 DEF RightEnd, Constructed
<1>5. AsRead'
  BY ReadingStands
<1>. QED
  BY <1>1, <1>4, <1>5

LEMMA ChooseServerInvariant == ASSUME IInv, ChooseServer PROVE IInv'
<1>0. /\ TypeOK /\ AsRead /\ Control /\ pc = "choose"
      /\ UNCHANGED <<env, argv, next, value, bound>>
      /\ pc' \in {"init", "unloadable", "aborted"}
      /\ value.grpc # 0 => pc' = IF value.spm \in SpmFiles THEN "init" ELSE "unloadable"
  BY DEF IInv, ChooseServer
<1>1. TypeOK'
  BY <1>0 DEF TypeOK, IsEnvironment, Ended
<1>2. RightEnd' /\ AsRead' /\ value'.config # ""
  BY <1>0, ChosenEnds
<1>3. Control'
  BY <1>0, <1>2 DEF Control, Constructed
<1>. QED
  BY <1>1, <1>2, <1>3 DEF IInv

LEMMA InitServerInvariant == ASSUME IInv, InitServer PROVE IInv'
<1>0. /\ TypeOK /\ AsRead /\ Control /\ pc = "init"
      /\ pc' = "start" \/ (value.grpc = 0 /\ value.threads < 1 /\ pc' = "idle")
      /\ UNCHANGED <<env, argv, next, value, bound>>
  BY DEF IInv, InitServer
<1>1. TypeOK'
  BY <1>0 DEF TypeOK, IsEnvironment, Ended
<1>2. value.grpc # 0 => value.spm \in SpmFiles
  BY <1>0 DEF Control, Constructed
<1>3. RightEnd' /\ AsRead' /\ value'.config # ""
  BY <1>0, <1>2, ChosenEnds
<1>4. Control'
  BY <1>0, <1>2, <1>3 DEF Control, Constructed
<1>. QED
  BY <1>1, <1>3, <1>4 DEF IInv

LEMMA StartInvariant == ASSUME IInv, Start PROVE IInv'
<1>0. /\ TypeOK /\ AsRead /\ Control /\ pc = "start" /\ pc' = "serving" /\ Valid
      /\ bound' = IF value.grpc = 0 THEN PortOf(value.port) ELSE value.port
      /\ UNCHANGED <<env, argv, next, value>>
  BY DEF IInv, Start
<1>1. value.port \in Int
  BY <1>0 DEF TypeOK, Numbers
<1>2. bound' \in Ports
  BY <1>0, <1>1, CutToPort DEF Valid
<1>3. TypeOK'
  BY <1>0, <1>2 DEF TypeOK, IsEnvironment
<1>4. value.grpc # 0 => value.spm \in SpmFiles
  BY <1>0 DEF Control, Constructed
<1>5. RightEnd' /\ AsRead' /\ value'.config # ""
  BY <1>0, <1>4, ChosenEnds
<1>6. Control'
  <2>1. Valid'
    BY <1>0 DEF Valid
  <2>2. PortOf(value.port)' = PortOf(value.port)
    BY <1>0
  <2>. QED
    BY <1>0, <1>4, <1>5, <2>1, <2>2 DEF Control, Constructed
<1>. QED
  BY <1>3, <1>5, <1>6 DEF IInv

LEMMA NoPortInvariant == ASSUME IInv, NoPort PROVE IInv'
<1>0. /\ TypeOK /\ AsRead /\ Control /\ pc = "start" /\ pc' = "unbound"
      /\ UNCHANGED <<env, argv, next, value, bound>>
  BY DEF IInv, NoPort
<1>1. TypeOK'
  BY <1>0 DEF TypeOK, IsEnvironment, Ended
<1>2. value.grpc # 0 => value.spm \in SpmFiles
  BY <1>0 DEF Control, Constructed
<1>3. RightEnd' /\ AsRead' /\ value'.config # ""
  BY <1>0, <1>2, ChosenEnds
<1>4. Control'
  BY <1>0, <1>2, <1>3 DEF Control, Constructed
<1>. QED
  BY <1>1, <1>3, <1>4 DEF IInv

-----------------------------------------------------------------------------
LEMMA StepInvariant == IInv /\ [Next]_vars => IInv'
<1>. SUFFICES ASSUME IInv, [Next]_vars PROVE IInv'
  OBVIOUS
<1>1. CASE UNCHANGED vars
  <2>1. TypeOK'
    BY <1>1 DEF vars, IInv, TypeOK, IsEnvironment
  <2>2. RightEnd'
    BY <1>1, SameRequest DEF vars, IInv, RightEnd, Constructed
  <2>3. Control'
    <3>1. Valid' = Valid /\ PortOf(value.port)' = PortOf(value.port)
      BY <1>1 DEF vars, Valid, PortOf, Ports
    <3>. QED
      BY <1>1, <3>1 DEF vars, IInv, Control, Constructed
  <2>4. AsRead' <=> AsRead
    <3>1. VariablesRead' = VariablesRead /\ ArgumentsRead' = ArgumentsRead
      BY <1>1 DEF vars, VariablesRead, ArgumentsRead
    <3>2. \A q : GivenSoFar(q)' = GivenSoFar(q)
      BY <1>1, <3>1 DEF vars, GivenSoFar
    <3>3. ASSUME NEW q PROVE SoFar(q)' = SoFar(q)
      <4>1. GivenSoFar(q)' = GivenSoFar(q)
        BY <3>2
      <4>. QED
        BY <1>1, <3>1, <4>1 DEF vars, SoFar, Taken, Asked, AskedBy, LastOf
    <3>. QED
      BY <1>1, <3>1, <3>2, <3>3 DEF vars, AsRead
  <2>. QED
    BY <1>1, <2>1, <2>2, <2>3, <2>4 DEF vars, IInv
<1>2. CASE Next
  BY <1>2, ReadVariableInvariant, EnvironmentReadInvariant, ReadArgumentInvariant,
     UsageInvariant, CheckConfigInvariant, ChooseServerInvariant, InitServerInvariant,
     StartInvariant, NoPortInvariant DEF Next
<1>. QED
  BY <1>1, <1>2

LEMMA Invariant == Spec => []IInv
BY InitInvariant, StepInvariant, PTL DEF Spec

\* Every option always has a value of its type, and a port that is bound is a port.
THEOREM TypeCorrect == Spec => []TypeOK
<1>1. IInv => TypeOK
  BY DEF IInv
<1>. QED
  BY <1>1, Invariant, PTL

\* For every environment and command line, however long: a server is constructed with
\* what was asked of each option, the last argument before the variable before the
\* default, exactly when this is not a SentencePiece variable that differs from its other
\* spelling or a variable that says no to TensorFlow Serving
\* (text-translation.cpp:30-143, 162-225).
THEOREM PrecedenceHolds == Spec => []Precedence
<1>1. IInv => Precedence
  <2>. SUFFICES ASSUME IInv, Constructed
                PROVE  \A o \in Options : value[o] = Requested(o) <=> ~Misread(o)
    BY DEF Precedence
  <2>1. TypeOK /\ Control /\ AsRead /\ pc \notin {"env", "args"}
    BY DEF IInv, Constructed
  <2>. QED
    BY <2>1, ReadIsRequested
<1>. QED
  BY <1>1, Invariant, PTL

\* How a start ends is known from what was asked (text-translation.cpp:146-158, 199-204,
\* 242-251).
THEOREM RightEndHolds == Spec => []RightEnd
<1>1. IInv => RightEnd
  BY DEF IInv
<1>. QED
  BY <1>1, Invariant, PTL

\* Whatever number is given for the port: a server that serves does so on it if it is
\* a port, and only a REST server serves if it is not (rest_server.cpp:11,
\* grpc_server.cpp:11-19).
THEOREM PortAsAskedHolds == Spec => []PortAsAsked
<1>1. IInv => PortAsAsked
  <2>. SUFFICES ASSUME IInv, pc = "serving"
                PROVE  /\ bound = Requested("port") <=> Requested("port") \in Ports
                       /\ Requested("port") \notin Ports => Requested("grpc") = 0
    BY DEF PortAsAsked
  <2>1. TypeOK /\ Control /\ AsRead
    BY DEF IInv
  <2>2. value.port = Requested("port") /\ value.grpc = Requested("grpc")
    BY <2>1, ReadIsRequested
  <2>3. Valid /\ bound = IF value.grpc = 0 THEN PortOf(value.port) ELSE value.port
    BY <2>1 DEF Control
  <2>4. value.port \in Int
    BY <2>1 DEF TypeOK, Numbers
  <2>. QED
    BY <2>2, <2>3, <2>4, CutToPort DEF Valid
<1>. QED
  BY <1>1, Invariant, PTL
=============================================================================
