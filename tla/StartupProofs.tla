---------------------------- MODULE StartupProofs ----------------------------
(***************************************************************************)
(* Theorems of Startup for all command lines, configuration files and      *)
(* environments.  The state machine reads arguments and lines one by one,  *)
(* the reference looks for the latest that matters: the invariant says     *)
(* that they agree on what has been read, stage by stage.                  *)
(***************************************************************************)
EXTENDS Startup, TLAPS

-----------------------------------------------------------------------------
(* The latest element of a set of indices.                                 *)

LEMMA LatestNew ==
  ASSUME NEW k \in Nat, NEW S, S \subseteq 1..k - 1
  PROVE  Latest(S \cup {k}) = k
<1>1. k \in S \cup {k} /\ \A j \in S \cup {k} : j <= k
  OBVIOUS
<1>2. \A l \in S \cup {k} : (\A j \in S \cup {k} : j <= l) => l = k
  <2> TAKE l \in S \cup {k}
  <2> HAVE \A j \in S \cup {k} : j <= l
  <2>1. l \in Nat /\ k <= l /\ l <= k
    OBVIOUS
  <2> QED
    BY <2>1
<1> QED
  BY <1>1, <1>2 DEF Latest

(* One more argument is taken into account.                                *)
LEMMA OneMoreArgument ==
  ASSUME NEW k \in Nat \ {0}, NEW o
  PROVE  /\ argv[k].opt # o => OptionAt(o, k + 1) = OptionAt(o, k)
         /\ argv[k].opt = o => OptionAt(o, k + 1) =
                                 IF o \in WithArgument THEN argv[k].arg ELSE ""
<1>1. Given(o, k + 1) = IF argv[k].opt = o THEN Given(o, k) \cup {k} ELSE Given(o, k)
  BY DEF Given
<1>2. Given(o, k) \subseteq 1..k - 1
  BY DEF Given
<1>3. Latest(Given(o, k) \cup {k}) = k
  BY <1>2, LatestNew
<1>4. CASE argv[k].opt # o
  BY <1>1, <1>4 DEF OptionAt
<1>5. CASE argv[k].opt = o
  <2>1. Given(o, k + 1) # {} /\ Latest(Given(o, k + 1)) = k
    BY <1>1, <1>3, <1>5
  <2> QED
    BY <2>1, <1>5 DEF OptionAt
<1> QED
  BY <1>4, <1>5

(* One more line is taken into account.                                    *)
LEMMA OneMoreLine ==
  ASSUME NEW lines, NEW k \in Nat \ {0}, NEW S, S \subseteq 1..k - 1
  PROVE  ValueAt(lines, S \cup {k}) = lines[k][2]
<1>1. Latest(S \cup {k}) = k
  BY LatestNew
<1>2. S \cup {k} # {}
  OBVIOUS
<1> QED
  BY <1>1, <1>2 DEF ValueAt

LEMMA OwnLinesStep ==
  ASSUME NEW lines, NEW k \in Nat \ {0}, NEW key
  PROVE  /\ OwnLines(lines, key, k) \subseteq 1..k - 1
         /\ Len(lines[k]) = 2 /\ lines[k][1] = key /\ ~IsKafka(lines[k])
            => OwnLines(lines, key, k + 1) = OwnLines(lines, key, k) \cup {k}
         /\ Len(lines[k]) # 2 \/ lines[k][1] # key \/ IsKafka(lines[k])
            => OwnLines(lines, key, k + 1) = OwnLines(lines, key, k)
<1>1. 1..(k + 1) - 1 = (1..k - 1) \cup {k}
  OBVIOUS
<1> QED
  BY <1>1 DEF OwnLines

LEMMA KafkaLinesStep ==
  ASSUME NEW lines, NEW k \in Nat \ {0}, NEW key, NEW accepted
  PROVE  /\ KafkaLines(lines, accepted, key, k) \subseteq 1..k - 1
         /\ Len(lines[k]) = 2 /\ Property(lines[k][1]) = key
              /\ <<lines[k][1], lines[k][2]>> \in accepted
            => KafkaLines(lines, accepted, key, k + 1) = KafkaLines(lines, accepted, key, k) \cup {k}
         /\ \/ Len(lines[k]) # 2
            \/ Property(lines[k][1]) # key
            \/ <<lines[k][1], lines[k][2]>> \notin accepted
            => KafkaLines(lines, accepted, key, k + 1) = KafkaLines(lines, accepted, key, k)
<1>1. 1..(k + 1) - 1 = (1..k - 1) \cup {k}
  OBVIOUS
<1> QED
  BY <1>1 DEF KafkaLines

LEMMA OtherLine ==
  ASSUME NEW lines, NEW k \in Nat \ {0}, NEW key, NEW accepted,
         Len(lines[k]) # 2 \/ <<lines[k][1], lines[k][2]>> \notin accepted
  PROVE  KafkaLines(lines, accepted, key, k + 1) = KafkaLines(lines, accepted, key, k)
BY KafkaLinesStep

LEMMA NothingRead ==
  /\ \A o : OptionAt(o, 1) = None
  /\ OperandsAt(1) = {}
  /\ \A lines, key : ValueAt(lines, OwnLines(lines, key, 1)) = None
  /\ \A lines, accepted, key : ValueAt(lines, KafkaLines(lines, accepted, key, 1)) = None
<1>1. 1..1 - 1 = {}
  OBVIOUS
<1> QED
  BY <1>1 DEF OptionAt, Given, OperandsAt, ValueAt, OwnLines, KafkaLines

-----------------------------------------------------------------------------
(* Types. *)

LEMMA InitType == Init => TypeOK
<1> SUFFICES ASSUME Init PROVE TypeOK
  OBVIOUS
<1>1. argv \in Seq(Arguments) /\ environment \in Environment
  BY StartupAssumption DEF Init
<1>2. /\ {"", "-1", "500"} \subseteq Texts
  BY StartupAssumption
<1>4. members \in [decode : BOOLEAN, template : Optional, partition : Texts, exit_eof : BOOLEAN,
                   consumed : Optional, published : Optional, timeout : Texts]
  BY <1>2 DEF Init, Optional
<1>5. options \in [Letters -> Optional] /\ operands \in Seq(Texts)
  BY DEF Init, Optional
<1>3. /\ conf \in [Texts -> Optional] /\ tconf \in [Texts -> Optional]
      /\ pconf \in [Texts -> Optional]
  BY DEF Init, Optional
<1> QED
  BY <1>1, <1>3, <1>4, <1>5 DEF Init, TypeOK

(* The argument and the line that are read are of their types.             *)
LEMMA ReadTypes ==
  ASSUME TypeOK
  PROVE  /\ pc = "args" /\ n <= Len(argv) => argv[n] \in Arguments
         /\ \A f \in DOMAIN ConfigFiles : /\ Len(ConfigFiles[f]) \in Nat
              /\ \A k \in 1..Len(ConfigFiles[f]) :
                   /\ Len(ConfigFiles[f][k]) \in Nat
                   /\ Len(ConfigFiles[f][k]) = 2 =>
                        ConfigFiles[f][k][1] \in Texts /\ ConfigFiles[f][k][2] \in Texts
<1>1. argv \in Seq(Arguments) /\ n \in Nat \ {0}
  BY DEF TypeOK
<1>2. n <= Len(argv) => argv[n] \in Arguments
  BY <1>1
<1>3. ASSUME NEW f \in DOMAIN ConfigFiles
      PROVE  ConfigFiles[f] \in Seq(Seq(Texts))
  BY StartupAssumption
<1>4. ASSUME NEW f \in DOMAIN ConfigFiles, NEW k \in 1..Len(ConfigFiles[f])
      PROVE  ConfigFiles[f][k] \in Seq(Texts)
  BY <1>3
<1>5. ASSUME NEW x \in Seq(Texts)
      PROVE  Len(x) \in Nat /\ (Len(x) = 2 => x[1] \in Texts /\ x[2] \in Texts)
  OBVIOUS
<1> QED
  BY <1>2, <1>3, <1>4, <1>5

(* The file is one of the readable ones once it has been opened.           *)
Configuring == {"lines", "template", "broker", "partition", "cloud", "group", "debug",
                "consumer", "producer", "timeout", "configured", "file", "consuming"}
FileOpen == pc \in Configuring => options["c"] \in DOMAIN ConfigFiles

LEMMA SetType ==
  ASSUME NEW c \in [Texts -> Optional], NEW accepted, NEW key \in Texts, NEW value \in Texts
  PROVE  Set(c, accepted, key, value) \in [Texts -> Optional]
BY StartupAssumption DEF Set, Property, Optional

LEMMA TypeStep == TypeOK /\ FileOpen /\ [Next]_vars => TypeOK' /\ FileOpen'
<1> SUFFICES ASSUME TypeOK, FileOpen, [Next]_vars PROVE TypeOK' /\ FileOpen'
  OBVIOUS
<1> USE DEF Inputs, kafka
<1>t. TypeOK
  OBVIOUS
<1>f. FileOpen
  OBVIOUS
<1>0. /\ \A key \in Texts : pconf[key] \in Optional
      /\ \A o \in Letters : options[o] \in Optional
      /\ None \notin Texts /\ "" \in Texts
      /\ {"metadata.broker.list", "bootstrap.servers", "group.id", "debug", "acm.type",
          "acm.error.template", "asn1.kafka.partition", "asn1.topic.consumer",
          "asn1.topic.producer", "asn1.consumer.timeout.ms",
          "./config/Output.error.xml"} \subseteq Texts
      /\ environment.host \in Texts
  BY StartupAssumption DEF TypeOK, Environment
<1>n. n \in Nat \ {0}
  BY DEF TypeOK
<1>m. \A k \in Nat \ {0} : k + 1 \in Nat \ {0}
  OBVIOUS
<1>k. /\ conf \in [Texts -> Optional] /\ tconf \in [Texts -> Optional]
      /\ pconf \in [Texts -> Optional]
  BY DEF TypeOK
<1>l. {"c", "t", "p", "g", "b", "d", "T"} \subseteq Letters
  BY DEF Letters, WithArgument
<1> HIDE DEF Optional
<1>u. CASE UNCHANGED vars
  BY <1>u, <1>t, <1>f DEF vars, TypeOK, FileOpen
<1>1. CASE ParseOption
  <2>1. argv[n].opt \in Letters /\ argv[n].arg \in Texts
    BY <1>1, ReadTypes DEF ParseOption, Arguments
  <2>2. options' \in [Letters -> Optional]
    BY <1>1, <2>1, <1>0 DEF ParseOption, TypeOK, Optional
  <2>3. n' \in Nat \ {0}
    BY <1>1, <1>n, <1>m DEF ParseOption
  <2>4. pc' = "args"
    BY <1>1 DEF ParseOption
  <2> QED
    BY <1>1, <2>2, <2>3, <2>4 DEF ParseOption, TypeOK, FileOpen, Configuring
<1>2. CASE ParseOperand
  <2>1. argv[n].arg \in Texts
    BY <1>2, ReadTypes DEF ParseOperand, Arguments
  <2>2. operands' \in Seq(Texts) /\ n' \in Nat \ {0} /\ pc' = "args"
    BY <1>2, <2>1 DEF ParseOperand, TypeOK
  <2> QED
    BY <1>2, <2>2 DEF ParseOperand, TypeOK, FileOpen, Configuring
<1>3. CASE ParseFails
  BY <1>3, <1>t DEF ParseFails, Goto, TypeOK, Ended, FileOpen, Configuring
<1>4. CASE Dispatch
  <2>1. pc' \in {"success", "failure", "serving", "aborted", "open"}
    BY <1>4 DEF Dispatch
  <2> QED
    BY <1>4, <2>1 DEF Dispatch, TypeOK, Ended, FileOpen, Configuring
<1>5. CASE Configured
  <2>1. pc = "configured" /\ pc' \in {"success", "file", "consuming"}
    BY <1>5 DEF Configured
  <2> QED
    BY <1>5, <2>1 DEF Configured, TypeOK, Ended, FileOpen, Configuring
<1>6. CASE FileTest
  <2>1. pc' \in {"success", "failure", "aborted"}
    BY <1>6 DEF FileTest
  <2> QED
    BY <1>6, <2>1 DEF FileTest, TypeOK, Ended, FileOpen, Configuring
<1>7. CASE OpenFile
  <2>1. pc' = "failure" \/ (pc' = "lines" /\ options["c"] \in DOMAIN ConfigFiles)
    BY <1>7 DEF OpenFile
  <2> QED
    BY <1>7, <2>1 DEF OpenFile, TypeOK, Ended, FileOpen, Configuring
<1>8. CASE SkipLine
  BY <1>8 DEF SkipLine, TypeOK, FileOpen, Configuring
<1>9. CASE KafkaLine
  <2>a. options["c"] \in DOMAIN ConfigFiles /\ n \in 1..Len(Lines) /\ Len(Lines[n]) = 2
    BY <1>9, <1>n, ReadTypes DEF KafkaLine, FileOpen, Configuring, Line, Lines
  <2>1. Line[1] \in Texts /\ Line[2] \in Texts
    BY <2>a, ReadTypes DEF Line, Lines
  <2>2. conf' \in [Texts -> Optional] /\ tconf' \in [Texts -> Optional] /\ n' \in Nat \ {0}
    BY <1>9, <1>k, <1>n, <1>m, <2>1, SetType DEF KafkaLine
  <2> QED
    BY <1>9, <2>2 DEF KafkaLine, TypeOK, FileOpen, Configuring
<1>10. CASE AcmLine
  <2>a. options["c"] \in DOMAIN ConfigFiles /\ n \in 1..Len(Lines) /\ Len(Lines[n]) = 2
    BY <1>10, <1>n, ReadTypes DEF AcmLine, FileOpen, Configuring, Line, Lines
  <2>1. Line[1] \in Texts /\ Line[2] \in Texts
    BY <2>a, ReadTypes DEF Line, Lines
  <2>2. pconf' \in [Texts -> Optional] /\ n' \in Nat \ {0}
    BY <1>10, <1>k, <1>n, <1>m, <2>1 DEF AcmLine, Optional
  <2> QED
    BY <1>10, <2>2 DEF AcmLine, TypeOK, FileOpen, Configuring
<1>11. CASE Type
  BY <1>11, <1>t, <1>f DEF Type, Goto, TypeOK, FileOpen, Configuring
<1>12. CASE LoadTemplate
  <2>1. ErrorTemplate \in Optional
    BY <1>0 DEF ErrorTemplate, Optional
  <2>2. pc = "template" /\ pc' \in {"broker", "failure"}
    BY <1>12 DEF LoadTemplate
  <2> QED
    BY <1>12, <2>1, <2>2 DEF LoadTemplate, TypeOK, Ended, FileOpen, Configuring
<1>13. CASE Broker
  <2>1. conf' \in [Texts -> Optional]
    BY <1>13, <1>0, <1>l, SetType DEF Broker, TypeOK, IsSet, Optional
  <2> QED
    BY <1>13, <2>1 DEF Broker, Goto, TypeOK, FileOpen, Configuring
<1>14. CASE Partition
  <2>1. Either("p", "asn1.kafka.partition") \in Numbers => Either("p", "asn1.kafka.partition") \in Texts
    BY <1>0, <1>l, StartupAssumption DEF Either, Optional
  <2>2. pc = "partition" /\ pc' \in {"cloud", "failure"}
    BY <1>14 DEF Partition
  <2>3. members' \in [decode : BOOLEAN, template : Optional, partition : Texts,
                       exit_eof : BOOLEAN, consumed : Optional, published : Optional, timeout : Texts]
    BY <1>14, <2>1 DEF Partition, TypeOK
  <2> QED
    BY <1>14, <2>2, <2>3 DEF Partition, TypeOK, Ended, FileOpen, Configuring
<1>15. CASE Cloud
  <2>1. conf' \in [Texts -> Optional]
    BY <1>15, <1>0, SetType DEF Cloud, TypeOK
  <2> QED
    BY <1>15, <2>1 DEF Cloud, Goto, TypeOK, FileOpen, Configuring
<1>16. CASE Group
  <2>1. conf' \in [Texts -> Optional]
    BY <1>16, <1>0, <1>l, SetType DEF Group, MustSet, TypeOK, IsSet, Optional
  <2>2. pc = "group" /\ pc' \in {"debug", "failure"}
    BY <1>16 DEF Group, Goto
  <2> QED
    BY <1>16, <2>1, <2>2 DEF Group, MustSet, TypeOK, Ended, FileOpen, Configuring
<1>17. CASE Debug
  <2>1. conf' \in [Texts -> Optional]
    BY <1>17, <1>0, <1>l, SetType DEF Debug, MustSet, TypeOK, IsSet, Optional
  <2>2. pc = "debug" /\ pc' \in {"consumer", "failure"}
    BY <1>17 DEF Debug, Goto
  <2>3. members' \in [decode : BOOLEAN, template : Optional, partition : Texts,
                       exit_eof : BOOLEAN, consumed : Optional, published : Optional, timeout : Texts]
    BY <1>17 DEF Debug, TypeOK, IsSet
  <2> QED
    BY <1>17, <2>1, <2>2, <2>3 DEF Debug, MustSet, TypeOK, Ended, FileOpen, Configuring
<1>18. CASE ConsumerTopic
  <2>1. pc = "consumer" /\ pc' \in {"producer", "failure"}
    BY <1>18 DEF ConsumerTopic, Goto
  <2> QED
    BY <1>18, <1>0, <2>1 DEF ConsumerTopic, TypeOK, Ended, FileOpen, Configuring
<1>19. CASE ProducerTopic
  <2>1. pc = "producer" /\ pc' \in {"timeout", "failure"}
    BY <1>19 DEF ProducerTopic, Goto
  <2>2. Either("t", "asn1.topic.producer") \in Optional
    BY <1>0, <1>l DEF Either
  <2> QED
    BY <1>19, <2>1, <2>2 DEF ProducerTopic, TypeOK, Ended, FileOpen, Configuring
<1>20. CASE Timeout
  <2>1. pconf["asn1.consumer.timeout.ms"] \in Numbers => pconf["asn1.consumer.timeout.ms"] \in Texts
    BY <1>0, StartupAssumption DEF Optional
  <2>2. members' \in [decode : BOOLEAN, template : Optional, partition : Texts,
                       exit_eof : BOOLEAN, consumed : Optional, published : Optional, timeout : Texts]
    BY <1>20, <2>1 DEF Timeout, TypeOK
  <2> QED
    BY <1>20, <2>2 DEF Timeout, Goto, TypeOK, FileOpen, Configuring
<1> QED
  BY <1>u, <1>1, <1>2, <1>3, <1>4, <1>5, <1>6, <1>7, <1>8, <1>9, <1>10, <1>11, <1>12,
     <1>13, <1>14, <1>15, <1>16, <1>17, <1>18, <1>19, <1>20
     DEF Next, Parse, Main, ReadFile, Settings

(* The variables keep their types for every command line, file and         *)
(* environment.                                                            *)
THEOREM TypeCorrect == Spec => []TypeOK
<1>1. Init => TypeOK /\ FileOpen
  BY InitType DEF Init, FileOpen, Configuring
<1> QED
  BY <1>1, TypeStep, PTL DEF Spec

-----------------------------------------------------------------------------
(* The invariant. *)

Ready         == {"configured", "file", "consuming"}
FromTimeout   == Ready \cup {"timeout"}
FromProducer  == FromTimeout \cup {"producer"}
FromConsumer  == FromProducer \cup {"consumer"}
FromDebug     == FromConsumer \cup {"debug"}
FromGroup     == FromDebug \cup {"group"}
FromCloud     == FromGroup \cup {"cloud"}
FromPartition == FromCloud \cup {"partition"}
FromBroker    == FromPartition \cup {"broker"}
FromTemplate  == FromBroker \cup {"template"}
Working       == FromTemplate \cup {"lines", "open", "args"}

(* The options and operands are those of the arguments before k. *)
OptionsAt(k) ==
  /\ \A o \in Letters : options[o] = OptionAt(o, k)
  /\ operands = <<>> <=> OperandsAt(k) = {}
  /\ operands # <<>> =>
       \E j \in OperandsAt(k) : operands[1] = argv[j].arg /\ \A l \in OperandsAt(k) : j <= l

WellFormed(k) == \A j \in 1..k - 1 : argv[j].opt \notin {"?", ":"}

ArgumentsRead ==
  pc = "args" => n <= Len(argv) + 1 /\ OptionsAt(n) /\ WellFormed(n)

Dispatched ==
  pc \in Working \ {"args"} =>
    /\ OptionsAt(Len(argv) + 1) /\ WellFormed(Len(argv) + 1)
    /\ Option("h") = None /\ environment.logs
    /\ Option("H") # None => Option("C") # None

NothingSet ==
  pc \in {"args", "open"} =>
    /\ \A key \in Texts : conf[key] = None /\ tconf[key] = None /\ pconf[key] = None
    /\ pc = "open" => n = 1

Opened == pc \in FromTemplate \cup {"lines"} => Option("c") \in DOMAIN ConfigFiles

LinesRead ==
  pc = "lines" =>
    /\ n <= Len(File) + 1
    /\ \A key \in Texts :
         /\ pconf[key] = ValueAt(File, OwnLines(File, key, n))
         /\ conf[key] = ValueAt(File, KafkaLines(File, GlobalProperties, key, n))
         /\ tconf[key] = ValueAt(File, KafkaLines(File, TopicProperties, key, n))

FileRead ==
  pc \in FromTemplate =>
    \A key \in Texts : pconf[key] = InFile(key) /\ tconf[key] = InScope(TopicProperties, key)

KafkaSoFar(key, stage) ==
  IF key = "metadata.broker.list" /\ stage \in FromGroup /\ environment.kafka_type
  THEN environment.host
  ELSE IF key = "metadata.broker.list" /\ stage \in FromPartition
  THEN FirstGiven(Option("b"), InScope(GlobalProperties, key))
  ELSE IF key = "group.id" /\ stage \in FromDebug
  THEN FirstGiven(Option("g"), InScope(GlobalProperties, key))
  ELSE IF key = "debug" /\ stage \in FromConsumer
  THEN FirstGiven(Option("d"), InScope(GlobalProperties, key))
  ELSE InScope(GlobalProperties, key)

KafkaSet ==
  /\ pc \in FromTemplate => \A key \in Texts : conf[key] = KafkaSoFar(key, pc)
  /\ pc \in FromDebug /\ Option("g") # None => <<"group.id", Option("g")>> \in GlobalProperties
  /\ pc \in FromConsumer /\ Option("d") # None => <<"debug", Option("d")>> \in GlobalProperties

MembersSet ==
  /\ pc \in FromTemplate => members.decode = Specified.decode
  /\ pc \in FromBroker => members.template = Specified.template /\ Specified.template \in Templates
  /\ pc \in FromCloud => members.partition = Specified.partition /\ Specified.partition \in Numbers
  /\ pc \in FromConsumer => members.exit_eof = Specified.exit_eof
  /\ pc \in FromProducer => members.consumed = Specified.consumed /\ Specified.consumed # None
  /\ pc \in FromTimeout => members.published = Specified.published /\ Specified.published # None
  /\ pc \in Ready => members.timeout = Specified.timeout

Defaults ==
  /\ pc \in Working \ FromTemplate => members.decode = TRUE
  /\ pc \in Working \ FromCloud => members.partition = "-1"
  /\ pc \in Working \ Ready => members.timeout = "500"

Purpose == pc = "file" => Option("C") = None /\ Option("F") # None

Agreement ==
  /\ TypeOK /\ FileOpen
  /\ ArgumentsRead /\ Dispatched /\ NothingSet /\ Opened /\ LinesRead /\ FileRead
  /\ KafkaSet /\ MembersSet /\ Defaults /\ Purpose /\ EndsAsSpecified

LEMMA Stages ==
  /\ Working = {"args", "open", "lines", "template", "broker", "partition", "cloud", "group",
                "debug", "consumer", "producer", "timeout", "configured", "file", "consuming"}
  /\ FromTemplate = Working \ {"args", "open", "lines"}
  /\ FromBroker = FromTemplate \ {"template"} /\ FromPartition = FromBroker \ {"broker"}
  /\ FromCloud = FromPartition \ {"partition"} /\ FromGroup = FromCloud \ {"cloud"}
  /\ FromDebug = FromGroup \ {"group"} /\ FromConsumer = FromDebug \ {"debug"}
  /\ FromProducer = FromConsumer \ {"consumer"} /\ FromTimeout = FromProducer \ {"producer"}
  /\ Ready = FromTimeout \ {"timeout"}
BY DEF Working, FromTemplate, FromBroker, FromPartition, FromCloud, FromGroup, FromDebug,
       FromConsumer, FromProducer, FromTimeout, Ready

(* The reference depends on what the process is started with alone.        *)
LEMMA ReferenceKept ==
  ASSUME UNCHANGED Inputs
  PROVE  /\ argv' = argv /\ environment' = environment
         /\ \A o, k : OptionAt(o, k)' = OptionAt(o, k)
         /\ \A o : Option(o)' = Option(o)
         /\ \A k : OperandsAt(k)' = OperandsAt(k)
         /\ \A k : WellFormed(k)' = WellFormed(k)
         /\ File' = File
         /\ \A key : InFile(key)' = InFile(key)
         /\ \A accepted, key : InScope(accepted, key)' = InScope(accepted, key)
         /\ Specified' = Specified /\ Outcome' = Outcome /\ Configurable' = Configurable
<1>1. argv' = argv /\ environment' = environment
  BY DEF Inputs
<1>2. \A o, k : OptionAt(o, k)' = OptionAt(o, k)
  BY <1>1 DEF OptionAt, Given
<1>3. \A o : Option(o)' = Option(o)
  BY <1>1 DEF Option, OptionAt, Given
<1>4. \A k : OperandsAt(k)' = OperandsAt(k) /\ WellFormed(k)' = WellFormed(k)
  BY <1>1 DEF OperandsAt, WellFormed
<1>5. File' = File
  BY <1>3 DEF File
<1>6. \A key : InFile(key)' = InFile(key)
  BY <1>5 DEF InFile, OwnLines
<1>7. \A accepted, key : InScope(accepted, key)' = InScope(accepted, key)
  BY <1>5 DEF InScope, KafkaLines
<1>8. Specified' = Specified
  BY <1>3, <1>6 DEF Specified
<1>9. Configurable' = Configurable
  BY <1>3, <1>8 DEF Configurable
<1>10. Operands' = Operands /\ FirstOperand' = FirstOperand
  BY <1>1 DEF Operands, OperandsAt, FirstOperand
<1>11. Outcome' = Outcome
  BY <1>1, <1>3, <1>9, <1>10 DEF Outcome
<1> QED
  BY <1>1, <1>2, <1>3, <1>4, <1>5, <1>6, <1>7, <1>8, <1>9, <1>11

-----------------------------------------------------------------------------
(* The ends. *)

LEMMA Refusal ==
  ASSUME Dispatched, pc \in Working \ {"args"}, ~Configurable, TypeOK
  PROVE  Outcome = "failure"
<1>1. \A j \in DOMAIN argv : argv[j].opt \notin {"?", ":"}
  BY DEF Dispatched, WellFormed, TypeOK
<1>2. Option("h") = None /\ environment.logs /\ (Option("H") # None => Option("C") # None)
  BY DEF Dispatched
<1> HIDE DEF Configurable, Option
<1> QED
  BY <1>1, <1>2 DEF Outcome

LEMMA Complete ==
  ASSUME Agreement, pc \in Ready
  PROVE  members = Specified /\ Configurable
<1>1. /\ members.decode = Specified.decode /\ members.template = Specified.template
      /\ members.partition = Specified.partition /\ members.exit_eof = Specified.exit_eof
      /\ members.consumed = Specified.consumed /\ members.published = Specified.published
      /\ members.timeout = Specified.timeout
      /\ Specified.template \in Templates /\ Specified.partition \in Numbers
      /\ Specified.consumed # None /\ Specified.published # None
  BY Stages DEF Agreement, MembersSet
<1>2. /\ Option("g") # None => <<"group.id", Option("g")>> \in GlobalProperties
      /\ Option("d") # None => <<"debug", Option("d")>> \in GlobalProperties
      /\ Option("c") \in DOMAIN ConfigFiles
  BY Stages DEF Agreement, KafkaSet, Opened
<1>3. Configurable
  <2> HIDE DEF Specified, Option
  <2> QED
    BY <1>1, <1>2 DEF Configurable
<1>4. members = Specified
  <2>1. members = [decode |-> members.decode, template |-> members.template,
                   partition |-> members.partition, exit_eof |-> members.exit_eof,
                   consumed |-> members.consumed, published |-> members.published,
                   timeout |-> members.timeout]
    BY DEF Agreement, TypeOK
  <2>2. Specified = [decode |-> Specified.decode, template |-> Specified.template,
                     partition |-> Specified.partition, exit_eof |-> Specified.exit_eof,
                     consumed |-> Specified.consumed, published |-> Specified.published,
                     timeout |-> Specified.timeout]
    BY DEF Specified
  <2> HIDE DEF Specified
  <2> QED
    BY <1>1, <2>1, <2>2
<1> QED
  BY <1>3, <1>4

(* Once the process has ended without work, only its end matters.          *)
LEMMA Ending ==
  ASSUME Agreement, [Next]_vars, UNCHANGED Inputs,
         pc' \in {"success", "failure", "aborted", "serving"}, pc' = Outcome
  PROVE  Agreement'
<1>1. TypeOK' /\ FileOpen'
  BY TypeStep DEF Agreement
<1>2. pc' \notin Working /\ pc' \notin FromTemplate /\ pc' \notin FromBroker /\ pc' \notin FromCloud
      /\ pc' \notin FromDebug /\ pc' \notin FromConsumer /\ pc' \notin FromProducer
      /\ pc' \notin FromTimeout /\ pc' \notin Ready /\ pc' \notin {"args", "open", "lines", "file"}
  BY Stages
<1>3. EndsAsSpecified'
  BY ReferenceKept DEF EndsAsSpecified
<1>4. ArgumentsRead' /\ Dispatched' /\ NothingSet' /\ Opened' /\ LinesRead' /\ FileRead'
  BY <1>2 DEF ArgumentsRead, Dispatched, NothingSet, Opened, LinesRead, FileRead
<1>5. KafkaSet' /\ MembersSet' /\ Defaults' /\ Purpose'
  BY <1>2 DEF KafkaSet, MembersSet, Defaults, Purpose
<1> QED
  BY <1>1, <1>3, <1>4, <1>5 DEF Agreement

LEMMA DispatchedKept ==
  ASSUME Agreement, UNCHANGED <<Inputs, options, operands>>, pc \in Working \ {"args"}
  PROVE  Dispatched'
<1>1. argv' = argv /\ environment' = environment /\ (\A o : Option(o)' = Option(o))
  BY ReferenceKept
<1>2. (\A o, k : OptionAt(o, k)' = OptionAt(o, k)) /\ (\A k : OperandsAt(k)' = OperandsAt(k))
  BY ReferenceKept
<1>3. OptionsAt(Len(argv) + 1)'
  BY <1>1, <1>2 DEF OptionsAt, Agreement, Dispatched
<1>4. WellFormed(Len(argv) + 1)'
  BY <1>1 DEF WellFormed, Agreement, Dispatched
<1>5. Option("h")' = None /\ environment'.logs /\ (Option("H")' # None => Option("C")' # None)
  BY <1>1 DEF Agreement, Dispatched
<1> QED
  BY <1>3, <1>4, <1>5 DEF Dispatched

(* A step among the settings keeps what was read before them.              *)
LEMMA ReadKept ==
  ASSUME Agreement, UNCHANGED <<Inputs, options, operands, tconf, pconf>>,
         pc \in FromTemplate, pc' \in FromTemplate
  PROVE  ArgumentsRead' /\ Dispatched' /\ NothingSet' /\ Opened' /\ LinesRead' /\ FileRead'
<1>1. pc \in Working \ {"args"} /\ pc' \in Working /\ pc' \notin {"args", "open", "lines"}
  BY Stages
<1>2. UNCHANGED Inputs
  OBVIOUS
<1>3. Opened'
  BY <1>2, ReferenceKept DEF Agreement, Opened
<1>4. FileRead'
  BY <1>2, ReferenceKept DEF Agreement, FileRead
<1>5. Dispatched'
  BY <1>1, DispatchedKept
<1> QED
  BY <1>1, <1>3, <1>4, <1>5 DEF ArgumentsRead, NothingSet, LinesRead

-----------------------------------------------------------------------------
(* The initial state, the arguments and main(). *)

LEMMA InitAgreement == Init => Agreement
<1> SUFFICES ASSUME Init PROVE Agreement
  OBVIOUS
<1>1. TypeOK /\ FileOpen
  BY InitType DEF Init, FileOpen, Configuring
<1>2. pc = "args" /\ n = 1 /\ operands = <<>> /\ argv \in Seq(Arguments)
  BY <1>1 DEF Init, TypeOK
<1>3. ArgumentsRead
  BY <1>2, NothingRead DEF Init, ArgumentsRead, OptionsAt, WellFormed
<1>4. NothingSet /\ Defaults
  BY <1>2 DEF Init, NothingSet, Defaults
<1>5. Dispatched /\ Opened /\ LinesRead /\ FileRead /\ KafkaSet /\ MembersSet
  BY <1>2, Stages DEF Dispatched, Opened, LinesRead, FileRead, KafkaSet, MembersSet
<1>6. Purpose /\ EndsAsSpecified
  BY <1>2 DEF Purpose, EndsAsSpecified, Ended
<1> QED
  BY <1>1, <1>3, <1>4, <1>5, <1>6 DEF Agreement

(* An argument that is no operand leaves the operands; one that is comes   *)
(* after those before it.                                                  *)
LEMMA OneMoreOperand ==
  ASSUME NEW k \in Nat \ {0}
  PROVE  /\ argv[k].opt # "operand" => OperandsAt(k + 1) = OperandsAt(k)
         /\ argv[k].opt = "operand" => OperandsAt(k + 1) = OperandsAt(k) \cup {k}
         /\ OperandsAt(k) \subseteq 1..k - 1
<1>1. 1..(k + 1) - 1 = (1..k - 1) \cup {k}
  OBVIOUS
<1> QED
  BY <1>1 DEF OperandsAt

(* A step that stays among the arguments.                                  *)
LEMMA StillArguments ==
  ASSUME Agreement, [Next]_vars, UNCHANGED <<Inputs, kafka, pconf, members>>,
         pc = "args", pc' = "args", ArgumentsRead'
  PROVE  Agreement'
<1>1. TypeOK' /\ FileOpen'
  BY TypeStep DEF Agreement
<1>2. NothingSet' /\ Defaults'
  BY DEF Agreement, NothingSet, Defaults, kafka
<1>3. Dispatched' /\ Opened' /\ LinesRead' /\ FileRead' /\ KafkaSet' /\ MembersSet'
  BY Stages DEF Dispatched, Opened, LinesRead, FileRead, KafkaSet, MembersSet
<1>4. Purpose' /\ EndsAsSpecified'
  BY DEF Purpose, EndsAsSpecified, Ended
<1> QED
  BY <1>1, <1>2, <1>3, <1>4 DEF Agreement

LEMMA ParseOptionStep == Agreement /\ ParseOption => Agreement'
<1> SUFFICES ASSUME Agreement, ParseOption PROVE Agreement'
  OBVIOUS
<1>1. /\ pc = "args" /\ pc' = "args" /\ n' = n + 1 /\ n <= Len(argv)
      /\ UNCHANGED <<Inputs, kafka, pconf, members, operands>> /\ argv[n].opt \in Letters
  BY DEF ParseOption
<1>2. n \in Nat \ {0} /\ Len(argv) \in Nat /\ OptionsAt(n) /\ WellFormed(n)
  BY <1>1 DEF Agreement, TypeOK, ArgumentsRead
<1>3. argv' = argv /\ (\A o, k : OptionAt(o, k)' = OptionAt(o, k))
      /\ (\A k : OperandsAt(k)' = OperandsAt(k))
  BY <1>1, ReferenceKept
<1>4. n' <= Len(argv') + 1
  BY <1>1, <1>2, <1>3
<1>5. \A o \in Letters : options'[o] = OptionAt(o, n + 1)
  <2> TAKE o \in Letters
  <2>1. options \in [Letters -> Optional]
    BY DEF Agreement, TypeOK
  <2>2. options[o] = OptionAt(o, n)
    BY <1>2 DEF OptionsAt
  <2>3. CASE argv[n].opt = o
    <3>1. options'[o] = IF o \in WithArgument THEN argv[n].arg ELSE ""
      BY <2>1, <2>3 DEF ParseOption
    <3> QED
      BY <3>1, <2>3, <1>2, OneMoreArgument
  <2>4. CASE argv[n].opt # o
    <3>1. options'[o] = options[o]
      BY <2>1, <2>4 DEF ParseOption
    <3> QED
      BY <3>1, <2>2, <2>4, <1>2, OneMoreArgument
  <2> QED
    BY <2>3, <2>4
<1>6. argv[n].opt \notin {"operand", "?", ":"}
  BY <1>1 DEF Letters, WithArgument, Flags
<1>7. OperandsAt(n + 1) = OperandsAt(n)
  BY <1>2, <1>6, OneMoreOperand
<1>8. OptionsAt(n)'
  BY <1>1, <1>2, <1>3, <1>5, <1>7 DEF OptionsAt
<1>9. WellFormed(n)'
  BY <1>1, <1>2, <1>3, <1>6 DEF WellFormed
<1>10. ArgumentsRead'
  BY <1>4, <1>8, <1>9 DEF ArgumentsRead
<1> QED
  BY <1>1, <1>10, StillArguments DEF Next, Parse

LEMMA ParseOperandStep == Agreement /\ ParseOperand => Agreement'
<1> SUFFICES ASSUME Agreement, ParseOperand PROVE Agreement'
  OBVIOUS
<1>1. /\ pc = "args" /\ pc' = "args" /\ n' = n + 1 /\ n <= Len(argv)
      /\ UNCHANGED <<Inputs, kafka, pconf, members, options>> /\ argv[n].opt = "operand"
      /\ operands' = Append(operands, argv[n].arg)
  BY DEF ParseOperand
<1>2. n \in Nat \ {0} /\ Len(argv) \in Nat /\ OptionsAt(n) /\ WellFormed(n)
      /\ operands \in Seq(Texts)
  BY <1>1 DEF Agreement, TypeOK, ArgumentsRead
<1>3. argv' = argv /\ (\A o, k : OptionAt(o, k)' = OptionAt(o, k))
      /\ (\A k : OperandsAt(k)' = OperandsAt(k))
  BY <1>1, ReferenceKept
<1>4. n' <= Len(argv') + 1
  BY <1>1, <1>2, <1>3
<1>5. \A o \in Letters : options'[o] = OptionAt(o, n + 1)
  <2> TAKE o \in Letters
  <2>1. o # "operand" /\ options'[o] = OptionAt(o, n)
    BY <1>1, <1>2 DEF OptionsAt, Letters, WithArgument, Flags
  <2> QED
    BY <2>1, <1>1, <1>2, OneMoreArgument
<1>6. OperandsAt(n + 1) = OperandsAt(n) \cup {n} /\ OperandsAt(n) \subseteq 1..n - 1
  BY <1>1, <1>2, OneMoreOperand
<1>7. /\ operands' # <<>>
      /\ operands = <<>> => operands'[1] = argv[n].arg
      /\ operands # <<>> => operands'[1] = operands[1]
  BY <1>1, <1>2
<1>8. \E j \in OperandsAt(n + 1) :
        operands'[1] = argv[j].arg /\ \A l \in OperandsAt(n + 1) : j <= l
  <2>1. CASE operands = <<>>
    <3>1. OperandsAt(n + 1) = {n}
      BY <1>2, <1>6, <2>1 DEF OptionsAt
    <3> QED
      BY <3>1, <1>2, <1>7, <2>1
  <2>2. CASE operands # <<>>
    <3>1. PICK j \in OperandsAt(n) : operands[1] = argv[j].arg /\ \A l \in OperandsAt(n) : j <= l
      BY <1>2, <2>2 DEF OptionsAt
    <3>2. j \in OperandsAt(n + 1) /\ j <= n
      BY <1>2, <1>6
    <3> QED
      BY <3>1, <3>2, <1>6, <1>7, <2>2
  <2> QED
    BY <2>1, <2>2
<1>9. OperandsAt(n + 1) # {}
  BY <1>6
<1>10. OptionsAt(n)'
  BY <1>1, <1>3, <1>5, <1>7, <1>8, <1>9 DEF OptionsAt
<1>11. WellFormed(n)'
  BY <1>1, <1>2, <1>3 DEF WellFormed
<1>12. ArgumentsRead'
  BY <1>4, <1>10, <1>11 DEF ArgumentsRead
<1> QED
  BY <1>1, <1>12, StillArguments DEF Next, Parse

LEMMA ParseFailsStep == Agreement /\ ParseFails => Agreement'
<1> SUFFICES ASSUME Agreement, ParseFails PROVE Agreement'
  OBVIOUS
<1>1. pc' = "failure" /\ UNCHANGED Inputs /\ n <= Len(argv) /\ argv[n].opt \in {"?", ":"}
  BY DEF ParseFails, Goto
<1>2. n \in DOMAIN argv
  BY <1>1 DEF Agreement, TypeOK
<1>3. Outcome = "failure"
  BY <1>1, <1>2 DEF Outcome
<1> QED
  BY <1>1, <1>3, Ending DEF Next, Parse

LEMMA DispatchStep == Agreement /\ Dispatch => Agreement'
<1> SUFFICES ASSUME Agreement, Dispatch PROVE Agreement'
  OBVIOUS
<1>1. /\ pc = "args" /\ n > Len(argv) /\ n' = 1
      /\ UNCHANGED <<Inputs, options, operands, kafka, pconf, members>>
  BY DEF Dispatch
<1>2. n = Len(argv) + 1 /\ Len(argv) \in Nat
  BY <1>1 DEF Agreement, TypeOK, ArgumentsRead
<1>3. OptionsAt(Len(argv) + 1) /\ WellFormed(Len(argv) + 1)
  BY <1>1, <1>2 DEF Agreement, ArgumentsRead
<1>4. \A o \in Letters : options[o] = Option(o)
  BY <1>3 DEF OptionsAt, Option
<1>5. {"h", "H", "C"} \subseteq Letters
  BY DEF Letters, Flags
<1>6. /\ IsSet("h") <=> Option("h") # None
      /\ IsSet("H") <=> Option("H") # None
      /\ IsSet("C") <=> Option("C") # None
  BY <1>4, <1>5 DEF IsSet
<1>7. \A j \in DOMAIN argv : argv[j].opt \notin {"?", ":"}
  BY <1>3 DEF Agreement, TypeOK, WellFormed
<1>8. CASE pc' # "open"
  <2>1. pc' \in {"success", "failure", "aborted", "serving"}
    BY <1>8 DEF Dispatch
  <2>2. pc' = Outcome
    <3> HIDE DEF Option, Configurable
    <3> QED
      BY <1>6, <1>7, <1>8 DEF Dispatch, Outcome
  <2> QED
    BY <1>1, <2>1, <2>2, Ending DEF Next, Main
<1>9. CASE pc' = "open"
  <2>1. TypeOK' /\ FileOpen'
    BY TypeStep DEF Agreement, Next, Main
  <2>2. Option("h") = None /\ environment.logs /\ (Option("H") # None => Option("C") # None)
    <3>1. ~IsSet("h") /\ environment.logs /\ ~(IsSet("H") /\ ~IsSet("C"))
      BY <1>9 DEF Dispatch
    <3> HIDE DEF IsSet, Option
    <3> QED
      BY <3>1, <1>6
  <2>3. Dispatched'
    <3>1. argv' = argv /\ environment' = environment /\ (\A o : Option(o)' = Option(o))
      BY <1>1, ReferenceKept
    <3>2. (\A o, k : OptionAt(o, k)' = OptionAt(o, k)) /\ (\A k : OperandsAt(k)' = OperandsAt(k))
      BY <1>1, ReferenceKept
    <3>3. OptionsAt(Len(argv) + 1)'
      BY <1>1, <1>3, <3>1, <3>2 DEF OptionsAt
    <3>4. WellFormed(Len(argv) + 1)'
      BY <1>3, <3>1 DEF WellFormed
    <3> QED
      BY <2>2, <3>1, <3>3, <3>4 DEF Dispatched
  <2>4. NothingSet' /\ Defaults'
    BY <1>1, <1>9, Stages DEF Agreement, NothingSet, Defaults, kafka
  <2>5. ArgumentsRead' /\ Opened' /\ LinesRead' /\ FileRead' /\ KafkaSet' /\ MembersSet'
    BY <1>9, Stages DEF ArgumentsRead, Opened, LinesRead, FileRead, KafkaSet, MembersSet
  <2>6. Purpose' /\ EndsAsSpecified'
    BY <1>9 DEF Purpose, EndsAsSpecified, Ended
  <2> QED
    BY <2>1, <2>3, <2>4, <2>5, <2>6 DEF Agreement
<1> QED
  BY <1>8, <1>9

LEMMA ConfiguredStep == Agreement /\ Configured => Agreement'
<1> SUFFICES ASSUME Agreement, Configured PROVE Agreement'
  OBVIOUS
<1>1. /\ pc = "configured" /\ pc' \in {"success", "file", "consuming"}
      /\ UNCHANGED <<Inputs, n, options, operands, kafka, pconf, members>>
  BY DEF Configured
<1>2. /\ pc \in Ready /\ pc \in Working \ {"args"} /\ pc \in FromTemplate
  BY <1>1, Stages
<1>3. Configurable /\ members = Specified
  BY <1>2, Complete
<1>4. {"F", "C"} \subseteq Letters
  BY DEF Letters, Flags
<1>5. /\ IsSet("F") <=> Option("F") # None
      /\ IsSet("C") <=> Option("C") # None
  BY <1>2, <1>4 DEF Agreement, Dispatched, OptionsAt, Option, IsSet
<1>6. \A j \in DOMAIN argv : argv[j].opt \notin {"?", ":"}
  BY <1>2 DEF Agreement, Dispatched, WellFormed, TypeOK
<1>7. Option("h") = None /\ environment.logs /\ (Option("H") # None => Option("C") # None)
  BY <1>2 DEF Agreement, Dispatched
<1>8. CASE pc' = "success"
  <2>1. IsSet("C")
    BY <1>8 DEF Configured
  <2>2. Outcome = "success"
    <3> HIDE DEF Configurable, Option, IsSet
    <3> QED
      BY <2>1, <1>3, <1>5, <1>6, <1>7 DEF Outcome
  <2> QED
    BY <1>1, <1>8, <2>2, Ending DEF Next, Main
<1>9. CASE pc' \in {"file", "consuming"}
  <2>1. TypeOK' /\ FileOpen'
    BY TypeStep DEF Agreement, Next, Main
  <2>2. pc' \in FromTemplate /\ pc' \in Ready /\ ~IsSet("C") /\ (pc' = "file" <=> IsSet("F"))
    BY <1>1, <1>9, Stages DEF Configured
  <2>3. ArgumentsRead' /\ Dispatched' /\ NothingSet' /\ Opened' /\ LinesRead' /\ FileRead'
    BY <1>1, <1>2, <2>2, ReadKept DEF kafka
  <2>4. KafkaSet'
    <3>1. conf' = conf /\ (\A o : Option(o)' = Option(o))
          /\ (\A accepted, key : InScope(accepted, key)' = InScope(accepted, key))
          /\ environment' = environment
      BY <1>1, ReferenceKept DEF kafka
    <3>2. \A stage \in Ready : /\ stage \in FromTemplate /\ stage \in FromGroup
            /\ stage \in FromPartition /\ stage \in FromDebug /\ stage \in FromConsumer
      BY Stages
    <3>3. \A key \in Texts : conf[key] = KafkaSoFar(key, pc)
      BY <1>2 DEF Agreement, KafkaSet
    <3>4. \A key \in Texts : conf'[key] = KafkaSoFar(key, pc)'
      BY <3>1, <3>2, <3>3, <1>2, <2>2 DEF KafkaSoFar, FirstGiven
    <3>5. /\ Option("g") # None => <<"group.id", Option("g")>> \in GlobalProperties
          /\ Option("d") # None => <<"debug", Option("d")>> \in GlobalProperties
      BY <1>2, <3>2 DEF Agreement, KafkaSet
    <3> QED
      BY <3>1, <3>4, <3>5 DEF KafkaSet
  <2>5. MembersSet'
    <3>1. members' = members /\ Specified' = Specified
      BY <1>1, ReferenceKept
    <3>2. MembersSet
      BY DEF Agreement
    <3> HIDE DEF Specified
    <3> QED
      BY <1>2, <2>2, <3>1, <3>2, Stages DEF MembersSet
  <2>6. Defaults'
    BY <2>2, Stages DEF Defaults
  <2>7. Purpose'
    BY <1>1, <1>5, <2>2, ReferenceKept DEF Purpose
  <2>8. EndsAsSpecified'
    <3>1. pc' = "consuming" => Outcome = "consuming"
      <4> HIDE DEF Configurable, Option, IsSet
      <4> QED
        BY <2>2, <1>3, <1>5, <1>6, <1>7 DEF Outcome
    <3> QED
      BY <1>1, <1>9, <3>1, ReferenceKept DEF EndsAsSpecified, Ended
  <2> QED
    BY <2>1, <2>3, <2>4, <2>5, <2>6, <2>7, <2>8 DEF Agreement
<1> QED
  BY <1>1, <1>8, <1>9

LEMMA FileTestStep == Agreement /\ FileTest => Agreement'
<1> SUFFICES ASSUME Agreement, FileTest PROVE Agreement'
  OBVIOUS
<1>1. /\ pc = "file" /\ pc' \in {"success", "failure", "aborted"} /\ UNCHANGED Inputs
  BY DEF FileTest
<1>2. /\ pc \in Ready /\ pc \in Working \ {"args"}
  BY <1>1, Stages
<1>3. Configurable
  BY <1>2, Complete
<1>4. Option("C") = None /\ Option("F") # None
  BY <1>1 DEF Agreement, Purpose
<1>5. \A j \in DOMAIN argv : argv[j].opt \notin {"?", ":"}
  BY <1>2 DEF Agreement, Dispatched, WellFormed, TypeOK
<1>6. Option("h") = None /\ environment.logs /\ Option("H") = None
  BY <1>2, <1>4 DEF Agreement, Dispatched
<1>7. operands = <<>> <=> Operands = {}
  BY <1>2 DEF Agreement, Dispatched, OptionsAt, Operands
<1>8. operands # <<>> => operands[1] = FirstOperand
  <2> HAVE operands # <<>>
  <2>1. PICK j \in Operands : operands[1] = argv[j].arg /\ \A l \in Operands : j <= l
    BY <1>2 DEF Agreement, Dispatched, OptionsAt, Operands
  <2>2. \A j1, j2 \in Operands :
          (\A l \in Operands : j1 <= l) /\ (\A l \in Operands : j2 <= l) => j1 = j2
    <3>1. Operands \subseteq Nat
      BY DEF Operands, OperandsAt
    <3>2. ASSUME NEW j1 \in Operands, NEW j2 \in Operands, j1 <= j2, j2 <= j1 PROVE j1 = j2
      BY <3>1, <3>2
    <3> QED
      BY <3>2
  <2>3. j = CHOOSE k \in Operands : \A l \in Operands : k <= l
    BY <2>1, <2>2
  <2> QED
    BY <2>1, <2>3 DEF FirstOperand
<1>9. pc' = Outcome
  <2> HIDE DEF Configurable, Option, Operands, FirstOperand
  <2> QED
    BY <1>3, <1>4, <1>5, <1>6, <1>7, <1>8 DEF Outcome, FileTest
<1> QED
  BY <1>1, <1>9, Ending DEF Next, Main

-----------------------------------------------------------------------------
(* The lines of the file. *)

LEMMA OptionsOfWorking ==
  ASSUME Agreement, pc \in Working \ {"args"}
  PROVE  \A o \in Letters : options[o] = Option(o)
BY DEF Agreement, Dispatched, OptionsAt, Option

(* A step that stays among the lines.                                      *)
LEMMA StillLines ==
  ASSUME Agreement, [Next]_vars, UNCHANGED <<Inputs, options, operands, members>>,
         pc \in {"open", "lines"}, pc' = "lines", LinesRead', Opened'
  PROVE  Agreement'
<1>1. TypeOK' /\ FileOpen'
  BY TypeStep DEF Agreement
<1>2. pc \in Working \ {"args"}
  BY Stages
<1>3. Dispatched'
  BY <1>2, DispatchedKept
<1>4. ArgumentsRead' /\ NothingSet' /\ FileRead' /\ KafkaSet' /\ MembersSet'
  BY Stages DEF ArgumentsRead, NothingSet, FileRead, KafkaSet, MembersSet
<1>5. Defaults'
  BY Stages DEF Agreement, Defaults
<1>6. Purpose' /\ EndsAsSpecified'
  BY DEF Purpose, EndsAsSpecified, Ended
<1> QED
  BY <1>1, <1>3, <1>4, <1>5, <1>6 DEF Agreement

LEMMA OpenFileStep == Agreement /\ OpenFile => Agreement'
<1> SUFFICES ASSUME Agreement, OpenFile PROVE Agreement'
  OBVIOUS
<1>1. pc = "open" /\ UNCHANGED <<Inputs, n, options, operands, kafka, pconf, members>>
  BY DEF OpenFile
<1>2. pc \in Working \ {"args"}
  BY <1>1, Stages
<1>3. options["c"] = Option("c")
  BY <1>2, OptionsOfWorking DEF Letters, WithArgument
<1>4. None \notin DOMAIN ConfigFiles
  BY StartupAssumption
<1>5. CASE Option("c") \in DOMAIN ConfigFiles
  <2>1. pc' = "lines"
    BY <1>3, <1>4, <1>5 DEF OpenFile, IsSet
  <2>2. Opened'
    BY <1>1, <1>5, ReferenceKept DEF Opened
  <2>3. LinesRead'
    <3>1. n' = 1 /\ File' = File /\ Len(File) \in Nat
      BY <1>1, <1>5, ReferenceKept, ReadTypes DEF Agreement, NothingSet, File
    <3>2. \A key \in Texts : conf'[key] = None /\ tconf'[key] = None /\ pconf'[key] = None
      BY <1>1 DEF Agreement, NothingSet, kafka
    <3>3. \A key : /\ ValueAt(File, OwnLines(File, key, 1)) = None
                   /\ ValueAt(File, KafkaLines(File, GlobalProperties, key, 1)) = None
                   /\ ValueAt(File, KafkaLines(File, TopicProperties, key, 1)) = None
      BY NothingRead
    <3> HIDE DEF File, ValueAt, OwnLines, KafkaLines
    <3> QED
      BY <3>1, <3>2, <3>3 DEF LinesRead
  <2> QED
    BY <1>1, <2>1, <2>2, <2>3, StillLines DEF Next, ReadFile
<1>6. CASE Option("c") \notin DOMAIN ConfigFiles
  <2>1. pc' = "failure" /\ ~Configurable
    BY <1>3, <1>6 DEF OpenFile, Configurable
  <2>2. Outcome = "failure"
    BY <1>2, <2>1, Refusal DEF Agreement
  <2> QED
    BY <1>1, <2>1, <2>2, Ending DEF Next, ReadFile
<1> QED
  BY <1>5, <1>6

(* What is known of the line that is read next.                            *)
LEMMA NextLine ==
  ASSUME Agreement, pc = "lines"
  PROVE  /\ Lines = File /\ n \in Nat \ {0} /\ Len(File) \in Nat /\ n <= Len(File) + 1
         /\ n <= Len(Lines) /\ Len(Line) = 2 => Line[1] \in Texts /\ Line[2] \in Texts
         /\ \A key \in Texts :
              /\ pconf[key] = ValueAt(File, OwnLines(File, key, n))
              /\ conf[key] = ValueAt(File, KafkaLines(File, GlobalProperties, key, n))
              /\ tconf[key] = ValueAt(File, KafkaLines(File, TopicProperties, key, n))
<1>1. pc \in Working \ {"args"} /\ pc \in Configuring
  BY Stages DEF Configuring
<1>2. options["c"] = Option("c") /\ options["c"] \in DOMAIN ConfigFiles
  BY <1>1, OptionsOfWorking DEF Letters, WithArgument, Agreement, FileOpen
<1>3. Lines = File
  BY <1>2 DEF Lines, File
<1>4. n \in Nat \ {0} /\ TypeOK /\ LinesRead
  BY DEF Agreement, TypeOK
<1>5. Len(Lines) \in Nat
  BY <1>2, <1>4, ReadTypes DEF Lines
<1>6. n <= Len(Lines) /\ Len(Line) = 2 => Line[1] \in Texts /\ Line[2] \in Texts
  BY <1>2, <1>4, <1>5, ReadTypes DEF Lines, Line
<1> HIDE DEF File, Lines, Line, ValueAt, OwnLines, KafkaLines
<1> QED
  BY <1>3, <1>4, <1>5, <1>6 DEF LinesRead

(* A line has been read: the settings are those of one line more.          *)
LEMMA LineStep ==
  ASSUME Agreement, [Next]_vars, pc = "lines", pc' = "lines", n <= Len(Lines), n' = n + 1,
         UNCHANGED <<Inputs, options, operands, members>>,
         \A key \in Texts :
           /\ pconf'[key] = ValueAt(File, OwnLines(File, key, n + 1))
           /\ conf'[key] = ValueAt(File, KafkaLines(File, GlobalProperties, key, n + 1))
           /\ tconf'[key] = ValueAt(File, KafkaLines(File, TopicProperties, key, n + 1))
  PROVE  Agreement'
<1>1. File' = File /\ Option("c")' = Option("c")
  BY ReferenceKept
<1>2. Lines = File /\ n \in Nat \ {0} /\ Len(File) \in Nat
  BY NextLine
<1>3. Opened'
  BY <1>1 DEF Agreement, Opened
<1>4. n' <= Len(File) + 1
  BY <1>2
<1>5. \A key : /\ OwnLines(File, key, n)' = OwnLines(File, key, n + 1)
               /\ KafkaLines(File, GlobalProperties, key, n)' = KafkaLines(File, GlobalProperties, key, n + 1)
               /\ KafkaLines(File, TopicProperties, key, n)' = KafkaLines(File, TopicProperties, key, n + 1)
  BY <1>1 DEF OwnLines, KafkaLines
<1>6. LinesRead'
  <2> HIDE DEF File, OwnLines, KafkaLines
  <2> QED
    BY <1>1, <1>4, <1>5 DEF LinesRead, ValueAt
<1> QED
  BY <1>3, <1>6, StillLines

LEMMA SkipLineStep == Agreement /\ SkipLine => Agreement'
<1> SUFFICES ASSUME Agreement, SkipLine PROVE Agreement'
  OBVIOUS
<1>1. /\ pc = "lines" /\ pc' = "lines" /\ n <= Len(Lines) /\ n' = n + 1
      /\ UNCHANGED <<Inputs, options, operands, members>>
      /\ UNCHANGED <<conf, tconf, pconf>> /\ Len(Line) # 2
  BY DEF SkipLine, kafka
<1>2. n \in Nat \ {0} /\ Lines = File
  BY <1>1, NextLine
<1>3. Len(File[n]) # 2
  BY <1>1, <1>2 DEF Line
<1>4. \A key : /\ OwnLines(File, key, n + 1) = OwnLines(File, key, n)
               /\ KafkaLines(File, GlobalProperties, key, n + 1) = KafkaLines(File, GlobalProperties, key, n)
               /\ KafkaLines(File, TopicProperties, key, n + 1) = KafkaLines(File, TopicProperties, key, n)
  <2>1. \A key : OwnLines(File, key, n + 1) = OwnLines(File, key, n)
    BY <1>2, <1>3, OwnLinesStep
  <2>2. ASSUME NEW key, NEW accepted
        PROVE  KafkaLines(File, accepted, key, n + 1) = KafkaLines(File, accepted, key, n)
    BY <1>2, <1>3, OtherLine
  <2> QED
    BY <2>1, <2>2
<1>5. \A key \in Texts :
        /\ pconf[key] = ValueAt(File, OwnLines(File, key, n))
        /\ conf[key] = ValueAt(File, KafkaLines(File, GlobalProperties, key, n))
        /\ tconf[key] = ValueAt(File, KafkaLines(File, TopicProperties, key, n))
  BY <1>1, NextLine
<1>6. [Next]_vars
  BY DEF Next, ReadFile
<1> QED
  BY <1>1, <1>4, <1>5, <1>6, LineStep

LEMMA AcmLineStep == Agreement /\ AcmLine => Agreement'
<1> SUFFICES ASSUME Agreement, AcmLine PROVE Agreement'
  OBVIOUS
<1>1. /\ pc = "lines" /\ pc' = "lines" /\ n <= Len(Lines) /\ n' = n + 1
      /\ UNCHANGED <<Inputs, options, operands, members>>
      /\ UNCHANGED <<conf, tconf>> /\ Len(Line) = 2 /\ ~IsKafka(Line)
      /\ pconf' = [pconf EXCEPT ![Line[1]] = Line[2]]
  BY DEF AcmLine, kafka
<1>2. n \in Nat \ {0} /\ Lines = File /\ Line = File[n]
  BY <1>1, NextLine DEF Line
<1>3. <<File[n][1], File[n][2]>> \notin GlobalProperties \cup TopicProperties
  BY <1>1, <1>2 DEF IsKafka
<1>4. \A key : /\ KafkaLines(File, GlobalProperties, key, n + 1) = KafkaLines(File, GlobalProperties, key, n)
               /\ KafkaLines(File, TopicProperties, key, n + 1) = KafkaLines(File, TopicProperties, key, n)
  BY <1>2, <1>3, KafkaLinesStep
<1>5. \A key \in Texts :
        /\ pconf[key] = ValueAt(File, OwnLines(File, key, n))
        /\ conf[key] = ValueAt(File, KafkaLines(File, GlobalProperties, key, n))
        /\ tconf[key] = ValueAt(File, KafkaLines(File, TopicProperties, key, n))
  BY <1>1, NextLine
<1>6. ASSUME NEW key \in Texts
      PROVE  pconf'[key] = ValueAt(File, OwnLines(File, key, n + 1))
  <2>1. pconf \in [Texts -> Optional]
    BY DEF Agreement, TypeOK
  <2>2. OwnLines(File, key, n) \subseteq 1..n - 1
    BY <1>2, OwnLinesStep
  <2>3. CASE File[n][1] = key
    <3>1. OwnLines(File, key, n + 1) = OwnLines(File, key, n) \cup {n}
      <4>1. Len(File[n]) = 2 /\ ~IsKafka(File[n])
        BY <1>1, <1>2
      <4> QED
        BY <1>2, <2>3, <4>1, OwnLinesStep
    <3>2. ValueAt(File, OwnLines(File, key, n) \cup {n}) = File[n][2]
      BY <1>2, <2>2, OneMoreLine
    <3> QED
      BY <1>1, <1>2, <2>1, <2>3, <3>1, <3>2
  <2>4. CASE File[n][1] # key
    <3>1. OwnLines(File, key, n + 1) = OwnLines(File, key, n)
      BY <1>2, <2>4, OwnLinesStep
    <3> QED
      BY <1>1, <1>2, <1>5, <2>1, <2>4, <3>1
  <2> QED
    BY <2>3, <2>4
<1>7. [Next]_vars
  BY DEF Next, ReadFile
<1> QED
  BY <1>1, <1>4, <1>5, <1>6, <1>7, LineStep

(* One more line of a file, or none, in one of Kafka's scopes.             *)
LEMMA ScopeStep ==
  ASSUME NEW c \in [Texts -> Optional], NEW accepted, NEW lines, NEW k \in Nat \ {0},
         NEW key \in Texts, Len(lines[k]) = 2,
         c[key] = ValueAt(lines, KafkaLines(lines, accepted, key, k))
  PROVE  Set(c, accepted, lines[k][1], lines[k][2])[key] =
           ValueAt(lines, KafkaLines(lines, accepted, key, k + 1))
<1>1. KafkaLines(lines, accepted, key, k) \subseteq 1..k - 1
  BY KafkaLinesStep
<1>2. CASE Property(lines[k][1]) = key /\ <<lines[k][1], lines[k][2]>> \in accepted
  <2>1. KafkaLines(lines, accepted, key, k + 1) = KafkaLines(lines, accepted, key, k) \cup {k}
    BY <1>2, KafkaLinesStep
  <2>2. ValueAt(lines, KafkaLines(lines, accepted, key, k) \cup {k}) = lines[k][2]
    BY <1>1, OneMoreLine
  <2> QED
    BY <1>2, <2>1, <2>2 DEF Set
<1>3. CASE ~(Property(lines[k][1]) = key /\ <<lines[k][1], lines[k][2]>> \in accepted)
  <2>1. KafkaLines(lines, accepted, key, k + 1) = KafkaLines(lines, accepted, key, k)
    BY <1>3, KafkaLinesStep
  <2>2. Set(c, accepted, lines[k][1], lines[k][2])[key] = c[key]
    BY <1>3 DEF Set
  <2> QED
    BY <2>1, <2>2
<1> QED
  BY <1>2, <1>3

LEMMA KafkaLineStep == Agreement /\ KafkaLine => Agreement'
<1> SUFFICES ASSUME Agreement, KafkaLine PROVE Agreement'
  OBVIOUS
<1>1. /\ pc = "lines" /\ pc' = "lines" /\ n <= Len(Lines) /\ n' = n + 1
      /\ UNCHANGED <<Inputs, options, operands, members>>
      /\ pconf' = pconf /\ Len(Line) = 2 /\ IsKafka(Line)
      /\ tconf' = Set(tconf, TopicProperties, Line[1], Line[2])
      /\ conf' = Set(conf, GlobalProperties, Line[1], Line[2])
  BY DEF KafkaLine
<1>2. n \in Nat \ {0} /\ Lines = File /\ Line = File[n]
  BY <1>1, NextLine DEF Line
<1>3. \A key : OwnLines(File, key, n + 1) = OwnLines(File, key, n)
  BY <1>1, <1>2, OwnLinesStep
<1>4. conf \in [Texts -> Optional] /\ tconf \in [Texts -> Optional]
  BY DEF Agreement, TypeOK
<1>5. \A key \in Texts :
        /\ pconf[key] = ValueAt(File, OwnLines(File, key, n))
        /\ conf[key] = ValueAt(File, KafkaLines(File, GlobalProperties, key, n))
        /\ tconf[key] = ValueAt(File, KafkaLines(File, TopicProperties, key, n))
  BY <1>1, NextLine
<1>6. \A key \in Texts :
        /\ conf'[key] = ValueAt(File, KafkaLines(File, GlobalProperties, key, n + 1))
        /\ tconf'[key] = ValueAt(File, KafkaLines(File, TopicProperties, key, n + 1))
  BY <1>1, <1>2, <1>4, <1>5, ScopeStep
<1>7. [Next]_vars
  BY DEF Next, ReadFile
<1> QED
  BY <1>1, <1>3, <1>5, <1>6, <1>7, LineStep

-----------------------------------------------------------------------------
(* The settings. *)

LEMMA TypeActionStep == Agreement /\ Type => Agreement'
<1> SUFFICES ASSUME Agreement, Type PROVE Agreement'
  OBVIOUS
<1>1. /\ pc = "lines" /\ pc' = "template" /\ n > Len(Lines)
      /\ UNCHANGED <<Inputs, n, options, operands, conf, tconf, pconf>>
  BY DEF Type, Goto, kafka
<1>2. pc \in Working \ {"args"} /\ pc \notin FromTemplate /\ pc \notin FromCloud /\ pc \notin Ready
  BY <1>1, Stages
<1>3. TypeOK' /\ FileOpen'
  BY TypeStep DEF Agreement, Next, Settings
<1>4. n = Len(File) + 1
  BY <1>1, NextLine
<1>5. \A key \in Texts : /\ pconf[key] = InFile(key)
                          /\ conf[key] = InScope(GlobalProperties, key)
                          /\ tconf[key] = InScope(TopicProperties, key)
  BY <1>1, <1>4, NextLine DEF InFile, InScope
<1>6. Opened' /\ FileRead'
  BY <1>1, <1>5, ReferenceKept DEF Agreement, Opened, FileRead
<1>7. Dispatched'
  BY <1>1, <1>2, DispatchedKept
<1>8. KafkaSet'
  <2>1. \A key : KafkaSoFar(key, pc)' = InScope(GlobalProperties, key)
    BY <1>1, Stages, ReferenceKept DEF KafkaSoFar
  <2> HIDE DEF KafkaSoFar, InScope, Option
  <2> QED
    BY <1>1, <1>5, <2>1, Stages DEF KafkaSet
<1>9. members'.decode = Specified.decode
  <2>1. options["T"] = Option("T")
    BY <1>2, OptionsOfWorking DEF Letters, WithArgument
  <2>2. pconf["acm.type"] = InFile("acm.type")
    BY <1>5, StartupAssumption
  <2>3. members.decode = TRUE
    BY <1>2, Stages DEF Agreement, Defaults
  <2>4. members'.decode = IF options["T"] \in Codecs THEN options["T"] = "decode"
                          ELSE IF pconf["acm.type"] \in Codecs THEN pconf["acm.type"] = "decode"
                          ELSE members.decode
    BY DEF Type, Agreement, TypeOK
  <2>5. Specified.decode = IF Option("T") \in Codecs THEN Option("T") = "decode"
                           ELSE InFile("acm.type") # "encode"
    BY DEF Specified
  <2> HIDE DEF Specified, Option, InFile
  <2> QED
    BY <2>1, <2>2, <2>3, <2>4, <2>5 DEF Codecs
<1>10. MembersSet'
  <2> HIDE DEF Specified
  <2> QED
    BY <1>1, <1>9, Stages, ReferenceKept DEF MembersSet
<1>11. Defaults'
  <2>1. members'.partition = members.partition /\ members'.timeout = members.timeout
    BY DEF Type, Agreement, TypeOK
  <2> QED
    BY <1>1, <1>2, <2>1, Stages DEF Agreement, Defaults
<1>12. ArgumentsRead' /\ NothingSet' /\ LinesRead' /\ Purpose' /\ EndsAsSpecified'
  BY <1>1 DEF ArgumentsRead, NothingSet, LinesRead, Purpose, EndsAsSpecified, Ended
<1> QED
  BY <1>3, <1>6, <1>7, <1>8, <1>10, <1>11, <1>12 DEF Agreement

(* A setting has been made, and configure() goes on.                       *)
LEMMA SettingStep ==
  ASSUME Agreement, [Next]_vars, UNCHANGED <<Inputs, options, operands, tconf, pconf>>,
         pc \in FromTemplate, pc' \in FromTemplate \ {"file", "consuming"},
         KafkaSet', MembersSet', Defaults'
  PROVE  Agreement'
<1>1. TypeOK' /\ FileOpen'
  BY TypeStep DEF Agreement
<1>2. ArgumentsRead' /\ Dispatched' /\ NothingSet' /\ Opened' /\ LinesRead' /\ FileRead'
  BY ReadKept
<1>3. pc' \notin Ended /\ pc' # "file"
  BY Stages DEF Ended
<1>4. Purpose' /\ EndsAsSpecified'
  BY <1>3 DEF Purpose, EndsAsSpecified
<1> QED
  BY <1>1, <1>2, <1>4 DEF Agreement

(* A setting that is refused ends the process.                             *)
LEMMA RefusedStep ==
  ASSUME Agreement, [Next]_vars, UNCHANGED Inputs, pc \in FromTemplate, pc' = "failure",
         ~Configurable
  PROVE  Agreement'
<1>1. Outcome = "failure"
  BY Refusal, Stages DEF Agreement
<1> QED
  BY <1>1, Ending

LEMMA KafkaKept ==
  ASSUME Agreement, UNCHANGED <<Inputs, conf>>, pc \in FromTemplate, pc' \in FromTemplate,
         pc' \in FromPartition <=> pc \in FromPartition, pc' \in FromGroup <=> pc \in FromGroup,
         pc' \in FromDebug <=> pc \in FromDebug, pc' \in FromConsumer <=> pc \in FromConsumer
  PROVE  KafkaSet'
<1>1. /\ environment' = environment /\ (\A o : Option(o)' = Option(o))
      /\ (\A accepted, key : InScope(accepted, key)' = InScope(accepted, key))
  BY ReferenceKept
<1>2. \A key : KafkaSoFar(key, pc)' = KafkaSoFar(key, pc)
  <2> HIDE DEF Option, InScope
  <2> QED
    BY <1>1 DEF KafkaSoFar, FirstGiven
<1> HIDE DEF KafkaSoFar, Option
<1> QED
  BY <1>1, <1>2 DEF Agreement, KafkaSet

LEMMA MembersKept ==
  ASSUME Agreement, UNCHANGED <<Inputs, members>>, pc \in FromTemplate, pc' \in FromTemplate,
         pc' \in FromBroker <=> pc \in FromBroker, pc' \in FromCloud <=> pc \in FromCloud,
         pc' \in FromConsumer <=> pc \in FromConsumer, pc' \in FromProducer <=> pc \in FromProducer,
         pc' \in FromTimeout <=> pc \in FromTimeout, pc' \in Ready <=> pc \in Ready
  PROVE  MembersSet' /\ Defaults'
<1>1. Specified' = Specified
  BY ReferenceKept
<1>2. MembersSet'
  <2> HIDE DEF Specified
  <2> QED
    BY <1>1 DEF Agreement, MembersSet
<1>3. Defaults'
  BY Stages DEF Agreement, Defaults
<1> QED
  BY <1>2, <1>3

(* What the options and the file have come to, among the settings.         *)
LEMMA Sources ==
  ASSUME Agreement, pc \in FromTemplate
  PROVE  /\ \A o \in {"t", "p", "g", "b", "d", "x"} : options[o] = Option(o)
         /\ \A key \in Texts : pconf[key] = InFile(key) /\ conf[key] = KafkaSoFar(key, pc)
         /\ conf \in [Texts -> Optional]
         /\ \A o \in {"t", "p", "g", "b", "d"} : Option(o) \in Optional
<1>1. pc \in Working \ {"args"}
  BY Stages
<1>2. {"t", "p", "g", "b", "d", "x"} \subseteq Letters
  BY DEF Letters, WithArgument, Flags
<1>3. \A o \in Letters : options[o] = Option(o)
  BY <1>1, OptionsOfWorking
<1>4. \A key \in Texts : pconf[key] = InFile(key) /\ conf[key] = KafkaSoFar(key, pc)
  BY DEF Agreement, FileRead, KafkaSet
<1>5. options \in [Letters -> Optional] /\ conf \in [Texts -> Optional]
  BY DEF Agreement, TypeOK
<1> HIDE DEF Option, Letters, KafkaSoFar, InFile
<1> QED
  BY <1>2, <1>3, <1>4, <1>5

LEMMA LoadTemplateStep == Agreement /\ LoadTemplate => Agreement'
<1> SUFFICES ASSUME Agreement, LoadTemplate PROVE Agreement'
  OBVIOUS
<1>1. /\ pc = "template" /\ UNCHANGED <<Inputs, options, operands, conf, tconf, pconf>>
      /\ pc' = IF ErrorTemplate \in Templates THEN "broker" ELSE "failure"
      /\ members' = [members EXCEPT !.template = ErrorTemplate] /\ [Next]_vars
  BY DEF LoadTemplate, kafka, Next, Settings
<1>2. pc \in FromTemplate
  BY <1>1, Stages
<1>3. ErrorTemplate = Specified.template
  <2>1. pconf["acm.error.template"] = InFile("acm.error.template")
    BY <1>2, Sources, StartupAssumption
  <2> HIDE DEF InFile
  <2> QED
    BY <2>1 DEF ErrorTemplate, Specified, FirstGiven
<1>4. Specified' = Specified
  BY <1>1, ReferenceKept
<1> HIDE DEF ErrorTemplate, Specified
<1>5. CASE ErrorTemplate \in Templates
  <2>1. pc' = "broker"
    BY <1>1, <1>5
  <2>2. KafkaSet'
    BY <1>1, <2>1, Stages, KafkaKept
  <2>3. /\ members'.template = ErrorTemplate /\ members'.decode = members.decode
        /\ members'.partition = members.partition /\ members'.timeout = members.timeout
    BY <1>1 DEF Agreement, TypeOK
  <2>4. MembersSet' /\ Defaults'
    BY <1>1, <1>3, <1>4, <1>5, <2>1, <2>3, Stages DEF Agreement, MembersSet, Defaults
  <2> QED
    BY <1>1, <1>2, <2>1, <2>2, <2>4, Stages, SettingStep
<1>6. CASE ErrorTemplate \notin Templates
  <2>1. pc' = "failure" /\ ~Configurable
    BY <1>1, <1>3, <1>6 DEF Configurable
  <2> QED
    BY <1>1, <1>2, <2>1, RefusedStep
<1> QED
  BY <1>5, <1>6

LEMMA PartitionStep == Agreement /\ Partition => Agreement'
<1> SUFFICES ASSUME Agreement, Partition PROVE Agreement'
  OBVIOUS
<1> DEFINE given == Either("p", "asn1.kafka.partition")
<1>1. /\ pc = "partition" /\ UNCHANGED <<Inputs, options, operands, conf, tconf, pconf>>
      /\ pc' = IF given \in Numbers \cup {None} THEN "cloud" ELSE "failure"
      /\ members' = IF given \in Numbers THEN [members EXCEPT !.partition = given] ELSE members
      /\ [Next]_vars
  BY DEF Partition, kafka, Next, Settings
<1>2. pc \in FromTemplate
  BY <1>1, Stages
<1>3. given = FirstGiven(Option("p"), InFile("asn1.kafka.partition"))
  <2>1. /\ pconf["asn1.kafka.partition"] = InFile("asn1.kafka.partition")
        /\ options["p"] = Option("p")
    BY <1>2, Sources, StartupAssumption
  <2> HIDE DEF InFile, Option
  <2> QED
    BY <2>1 DEF Either, IsSet, FirstGiven
<1>4. Specified.partition = IF given # None THEN given ELSE "-1"
  BY <1>3 DEF Specified, FirstGiven
<1>5. Specified' = Specified
  BY <1>1, ReferenceKept
<1>6. None \notin Numbers /\ "-1" \in Numbers
  BY StartupAssumption
<1> HIDE DEF given, Specified
<1>7. CASE given \in Numbers \cup {None}
  <2>1. pc' = "cloud"
    BY <1>1, <1>7
  <2>2. KafkaSet'
    BY <1>1, <2>1, Stages, KafkaKept
  <2>3. /\ members'.partition = IF given \in Numbers THEN given ELSE members.partition
        /\ members'.template = members.template /\ members'.decode = members.decode
        /\ members'.timeout = members.timeout
    BY <1>1 DEF Agreement, TypeOK
  <2>4. members.partition = "-1"
    BY <1>1, Stages DEF Agreement, Defaults
  <2>5. members'.partition = Specified.partition /\ Specified.partition \in Numbers
    BY <1>4, <1>6, <1>7, <2>3, <2>4
  <2>6. MembersSet' /\ Defaults'
    BY <1>1, <1>5, <2>1, <2>3, <2>5, Stages DEF Agreement, MembersSet, Defaults
  <2> QED
    BY <1>1, <1>2, <2>1, <2>2, <2>6, Stages, SettingStep
<1>8. CASE given \notin Numbers \cup {None}
  <2>1. pc' = "failure" /\ ~Configurable
    BY <1>1, <1>4, <1>8 DEF Configurable
  <2> QED
    BY <1>1, <1>2, <2>1, RefusedStep
<1> QED
  BY <1>7, <1>8

LEMMA ConsumerTopicStep == Agreement /\ ConsumerTopic => Agreement'
<1> SUFFICES ASSUME Agreement, ConsumerTopic PROVE Agreement'
  OBVIOUS
<1> DEFINE topic == pconf["asn1.topic.consumer"]
<1>1. /\ pc = "consumer" /\ UNCHANGED <<Inputs, options, operands, conf, tconf, pconf>>
      /\ pc' = IF topic = None THEN "failure" ELSE "producer"
      /\ members' = [members EXCEPT !.consumed = topic] /\ [Next]_vars
  BY DEF ConsumerTopic, Goto, kafka, Next, Settings
<1>2. pc \in FromTemplate
  BY <1>1, Stages
<1>3. topic = Specified.consumed
  <2>1. topic = InFile("asn1.topic.consumer")
    BY <1>2, Sources, StartupAssumption
  <2> HIDE DEF InFile
  <2> QED
    BY <2>1 DEF Specified
<1>4. Specified' = Specified
  BY <1>1, ReferenceKept
<1> HIDE DEF topic, Specified
<1>5. CASE topic # None
  <2>1. pc' = "producer"
    BY <1>1, <1>5
  <2>2. KafkaSet'
    BY <1>1, <2>1, Stages, KafkaKept
  <2>3. /\ members'.consumed = topic /\ members'.decode = members.decode
        /\ members'.template = members.template /\ members'.partition = members.partition
        /\ members'.exit_eof = members.exit_eof /\ members'.timeout = members.timeout
    BY <1>1 DEF Agreement, TypeOK
  <2>4. MembersSet' /\ Defaults'
    BY <1>1, <1>3, <1>4, <1>5, <2>1, <2>3, Stages DEF Agreement, MembersSet, Defaults
  <2> QED
    BY <1>1, <1>2, <2>1, <2>2, <2>4, Stages, SettingStep
<1>6. CASE topic = None
  <2>1. pc' = "failure" /\ ~Configurable
    BY <1>1, <1>3, <1>6 DEF Configurable
  <2> QED
    BY <1>1, <1>2, <2>1, RefusedStep
<1> QED
  BY <1>5, <1>6

LEMMA ProducerTopicStep == Agreement /\ ProducerTopic => Agreement'
<1> SUFFICES ASSUME Agreement, ProducerTopic PROVE Agreement'
  OBVIOUS
<1> DEFINE topic == Either("t", "asn1.topic.producer")
<1>1. /\ pc = "producer" /\ UNCHANGED <<Inputs, options, operands, conf, tconf, pconf>>
      /\ pc' = IF topic = None THEN "failure" ELSE "timeout"
      /\ members' = [members EXCEPT !.published = topic] /\ [Next]_vars
  BY DEF ProducerTopic, Goto, kafka, Next, Settings
<1>2. pc \in FromTemplate
  BY <1>1, Stages
<1>3. topic = Specified.published
  <2>1. pconf["asn1.topic.producer"] = InFile("asn1.topic.producer") /\ options["t"] = Option("t")
    BY <1>2, Sources, StartupAssumption
  <2> HIDE DEF InFile, Option
  <2> QED
    BY <2>1 DEF Specified, Either, IsSet, FirstGiven
<1>4. Specified' = Specified
  BY <1>1, ReferenceKept
<1> HIDE DEF topic, Specified
<1>5. CASE topic # None
  <2>1. pc' = "timeout"
    BY <1>1, <1>5
  <2>2. KafkaSet'
    BY <1>1, <2>1, Stages, KafkaKept
  <2>3. /\ members'.published = topic /\ members'.decode = members.decode
        /\ members'.template = members.template /\ members'.partition = members.partition
        /\ members'.exit_eof = members.exit_eof /\ members'.consumed = members.consumed
        /\ members'.timeout = members.timeout
    BY <1>1 DEF Agreement, TypeOK
  <2>4. MembersSet' /\ Defaults'
    BY <1>1, <1>3, <1>4, <1>5, <2>1, <2>3, Stages DEF Agreement, MembersSet, Defaults
  <2> QED
    BY <1>1, <1>2, <2>1, <2>2, <2>4, Stages, SettingStep
<1>6. CASE topic = None
  <2>1. pc' = "failure" /\ ~Configurable
    BY <1>1, <1>3, <1>6 DEF Configurable
  <2> QED
    BY <1>1, <1>2, <2>1, RefusedStep
<1> QED
  BY <1>5, <1>6

LEMMA TimeoutStep == Agreement /\ Timeout => Agreement'
<1> SUFFICES ASSUME Agreement, Timeout PROVE Agreement'
  OBVIOUS
<1> DEFINE given == pconf["asn1.consumer.timeout.ms"]
<1>1. /\ pc = "timeout" /\ UNCHANGED <<Inputs, options, operands, conf, tconf, pconf>>
      /\ pc' = "configured" /\ [Next]_vars
      /\ members' = [members EXCEPT !.timeout = IF given \in Numbers THEN given ELSE @]
  BY DEF Timeout, Goto, kafka, Next, Settings
<1>2. pc \in FromTemplate
  BY <1>1, Stages
<1>3. Specified.timeout = IF given \in Numbers THEN given ELSE "500"
  <2>1. given = InFile("asn1.consumer.timeout.ms")
    BY <1>2, Sources, StartupAssumption
  <2> HIDE DEF InFile
  <2> QED
    BY <2>1 DEF Specified
<1>4. Specified' = Specified
  BY <1>1, ReferenceKept
<1> HIDE DEF given, Specified
<1>5. KafkaSet'
  BY <1>1, Stages, KafkaKept
<1>6. members.timeout = "500"
  BY <1>1, Stages DEF Agreement, Defaults
<1>7. /\ members'.timeout = IF given \in Numbers THEN given ELSE members.timeout
      /\ members'.published = members.published /\ members'.decode = members.decode
      /\ members'.template = members.template /\ members'.partition = members.partition
      /\ members'.exit_eof = members.exit_eof /\ members'.consumed = members.consumed
  BY <1>1 DEF Agreement, TypeOK
<1>8. members'.timeout = Specified.timeout
  BY <1>3, <1>6, <1>7
<1>9. MembersSet' /\ Defaults'
  BY <1>1, <1>4, <1>7, <1>8, Stages DEF Agreement, MembersSet, Defaults
<1> QED
  BY <1>1, <1>2, <1>5, <1>9, Stages, SettingStep

(* One property has been set, if its source gives it.                      *)
LEMMA KafkaGiven ==
  ASSUME Agreement, UNCHANGED Inputs, pc \in FromTemplate, pc' \in FromTemplate,
         NEW name \in Texts, NEW value,
         \A key \in Texts : conf'[key] = IF key = name THEN value ELSE conf[key],
         \A key \in Texts : KafkaSoFar(key, pc)' = IF key = name THEN value ELSE KafkaSoFar(key, pc),
         pc' \in FromDebug /\ Option("g") # None => <<"group.id", Option("g")>> \in GlobalProperties,
         pc' \in FromConsumer /\ Option("d") # None => <<"debug", Option("d")>> \in GlobalProperties
  PROVE  KafkaSet'
<1>1. \A o : Option(o)' = Option(o)
  BY ReferenceKept
<1> HIDE DEF KafkaSoFar, Option
<1>2. \A key \in Texts : conf[key] = KafkaSoFar(key, pc)
  BY DEF Agreement, KafkaSet
<1> QED
  BY <1>1, <1>2 DEF KafkaSet

LEMMA ScopesKept ==
  ASSUME UNCHANGED Inputs, NEW from, NEW to, pc = from, pc' = to
  PROVE  \A key : KafkaSoFar(key, pc)' = KafkaSoFar(key, to)
<1>1. /\ environment' = environment /\ (\A o : Option(o)' = Option(o))
      /\ (\A accepted, key : InScope(accepted, key)' = InScope(accepted, key))
  BY ReferenceKept
<1> HIDE DEF Option, InScope
<1> QED
  BY <1>1 DEF KafkaSoFar, FirstGiven

LEMMA BrokerStep == Agreement /\ Broker => Agreement'
<1> SUFFICES ASSUME Agreement, Broker PROVE Agreement'
  OBVIOUS
<1> DEFINE name == "metadata.broker.list"
           value == IF Option("b") # None THEN Option("b") ELSE InScope(GlobalProperties, name)
<1>1. /\ pc = "broker" /\ pc' = "partition" /\ [Next]_vars
      /\ UNCHANGED <<Inputs, options, operands, tconf, pconf, members>>
      /\ conf' = IF IsSet("b") THEN Set(conf, GlobalProperties, name, options["b"]) ELSE conf
  BY DEF Broker, Goto, Next, Settings
<1>2. pc \in FromTemplate /\ pc' \in FromTemplate \ {"file", "consuming"}
  BY <1>1, Stages
<1>3. /\ options["b"] = Option("b") /\ conf \in [Texts -> Optional] /\ Option("b") \in Optional
      /\ \A key \in Texts : conf[key] = KafkaSoFar(key, pc)
  BY <1>2, Sources
<1>4. name \in Texts /\ name # "bootstrap.servers"
      /\ \A v \in Texts : <<name, v>> \in GlobalProperties
  BY StartupAssumption
<1>5. KafkaSoFar(name, pc) = InScope(GlobalProperties, name)
  BY <1>1, Stages DEF KafkaSoFar
<1>6. \A key : KafkaSoFar(key, pc)' = IF key = name THEN value ELSE KafkaSoFar(key, pc)
  <2>1. \A key : KafkaSoFar(key, pc)' = KafkaSoFar(key, "partition")
    BY <1>1, ScopesKept
  <2> HIDE DEF Option, InScope
  <2> QED
    BY <1>1, <2>1, Stages DEF KafkaSoFar, FirstGiven
<1>7. \A key \in Texts : conf'[key] = IF key = name THEN value ELSE conf[key]
  <2> HIDE DEF Option, InScope, KafkaSoFar, name
  <2>1. CASE Option("b") # None
    <3>1. <<name, Option("b")>> \in GlobalProperties
      BY <1>3, <1>4, <2>1 DEF Optional
    <3>2. \A key \in Texts : Set(conf, GlobalProperties, name, Option("b"))[key] =
                                IF key = name THEN Option("b") ELSE conf[key]
      BY <1>3, <1>4, <3>1 DEF Set, Property
    <3> QED
      BY <1>1, <1>3, <2>1, <3>2 DEF IsSet
  <2>2. CASE Option("b") = None
    BY <1>1, <1>3, <1>4, <1>5, <2>2 DEF IsSet
  <2> QED
    BY <2>1, <2>2
<1> HIDE DEF value
<1>8. KafkaSet'
  BY <1>1, <1>2, <1>4, <1>6, <1>7, Stages, KafkaGiven
<1>9. MembersSet' /\ Defaults'
  BY <1>1, Stages, MembersKept
<1> QED
  BY <1>1, <1>2, <1>8, <1>9, SettingStep

LEMMA CloudStep == Agreement /\ Cloud => Agreement'
<1> SUFFICES ASSUME Agreement, Cloud PROVE Agreement'
  OBVIOUS
<1> DEFINE name == "metadata.broker.list"
           value == IF environment.kafka_type THEN environment.host ELSE KafkaSoFar(name, pc)
<1>1. /\ pc = "cloud" /\ pc' = "group" /\ [Next]_vars
      /\ UNCHANGED <<Inputs, options, operands, tconf, pconf, members>>
      /\ conf' = IF environment.kafka_type
                 THEN Set(conf, GlobalProperties, "bootstrap.servers", environment.host) ELSE conf
  BY DEF Cloud, Goto, Next, Settings
<1>2. pc \in FromTemplate /\ pc' \in FromTemplate \ {"file", "consuming"}
  BY <1>1, Stages
<1>3. /\ conf \in [Texts -> Optional]
      /\ \A key \in Texts : conf[key] = KafkaSoFar(key, pc)
  BY <1>2, Sources
<1>4. /\ name \in Texts /\ "bootstrap.servers" \in Texts
      /\ <<"bootstrap.servers", environment.host>> \in GlobalProperties
  <2>1. environment.host \in Texts
    BY DEF Agreement, TypeOK, Environment
  <2> QED
    BY <2>1, StartupAssumption
<1>5. \A key : KafkaSoFar(key, pc)' = IF key = name THEN value ELSE KafkaSoFar(key, pc)
  <2>1. \A key : KafkaSoFar(key, pc)' = KafkaSoFar(key, "group")
    BY <1>1, ScopesKept
  <2> HIDE DEF Option, InScope
  <2> QED
    BY <1>1, <2>1, Stages DEF KafkaSoFar, FirstGiven
<1>6. \A key \in Texts : conf'[key] = IF key = name THEN value ELSE conf[key]
  <2>1. \A key \in Texts : Set(conf, GlobalProperties, "bootstrap.servers", environment.host)[key] =
                              IF key = name THEN environment.host ELSE conf[key]
    BY <1>3, <1>4 DEF Set, Property
  <2> HIDE DEF KafkaSoFar, name
  <2> QED
    BY <1>1, <1>3, <1>4, <2>1
<1> HIDE DEF value
<1>7. KafkaSet'
  BY <1>1, <1>2, <1>4, <1>5, <1>6, Stages, KafkaGiven
<1>8. MembersSet' /\ Defaults'
  BY <1>1, Stages, MembersKept
<1> QED
  BY <1>1, <1>2, <1>7, <1>8, SettingStep

LEMMA GroupStep == Agreement /\ Group => Agreement'
<1> SUFFICES ASSUME Agreement, Group PROVE Agreement'
  OBVIOUS
<1> DEFINE name == "group.id"
           value == IF Option("g") # None THEN Option("g") ELSE InScope(GlobalProperties, name)
<1>1. /\ pc = "group" /\ [Next]_vars
      /\ UNCHANGED <<Inputs, options, operands, tconf, pconf>>
      /\ pc' = IF IsSet("g") /\ <<name, options["g"]>> \notin GlobalProperties
               THEN "failure" ELSE "debug"
      /\ conf' = IF IsSet("g") THEN Set(conf, GlobalProperties, name, options["g"]) ELSE conf
      /\ members' = members
  BY DEF Group, MustSet, Refused, Goto, Next, Settings
<1>2. pc \in FromTemplate
  BY <1>1, Stages
<1>3. /\ options["g"] = Option("g") /\ options["x"] = Option("x")
      /\ conf \in [Texts -> Optional] /\ Option("g") \in Optional
      /\ \A key \in Texts : conf[key] = KafkaSoFar(key, pc)
  BY <1>2, Sources
<1>4. name \in Texts
  BY StartupAssumption
<1>5. CASE Option("g") # None /\ <<name, Option("g")>> \notin GlobalProperties
  <2>1. pc' = "failure" /\ ~Configurable
    <3> HIDE DEF Option, Specified
    <3> QED
      BY <1>1, <1>3, <1>5 DEF IsSet, Configurable
  <2> QED
    BY <1>1, <1>2, <2>1, RefusedStep
<1>6. CASE Option("g") # None => <<name, Option("g")>> \in GlobalProperties
  <2>1. pc' = "debug"
    <3> HIDE DEF Option
    <3> QED
      BY <1>1, <1>3, <1>6 DEF IsSet
  <2>2. KafkaSoFar(name, pc) = InScope(GlobalProperties, name)
    BY <1>1, Stages DEF KafkaSoFar
  <2>3. \A key : KafkaSoFar(key, pc)' = IF key = name THEN value ELSE KafkaSoFar(key, pc)
    <3>1. \A key : KafkaSoFar(key, pc)' = KafkaSoFar(key, "debug")
      BY <1>1, <2>1, ScopesKept
    <3> HIDE DEF Option, InScope
    <3> QED
      BY <1>1, <3>1, Stages DEF KafkaSoFar, FirstGiven
  <2>4. \A key \in Texts : conf'[key] = IF key = name THEN value ELSE conf[key]
    <3> HIDE DEF Option, InScope, KafkaSoFar
    <3>1. CASE Option("g") # None
      <4>1. \A key \in Texts : Set(conf, GlobalProperties, name, Option("g"))[key] =
                                  IF key = name THEN Option("g") ELSE conf[key]
        BY <1>3, <1>4, <1>6, <3>1 DEF Set, Property
      <4> QED
        BY <1>1, <1>3, <3>1, <4>1 DEF IsSet
    <3>2. CASE Option("g") = None
      BY <1>1, <1>3, <1>4, <2>2, <3>2 DEF IsSet
    <3> QED
      BY <3>1, <3>2
  <2> HIDE DEF value
  <2>5. KafkaSet'
    <3>1. Option("g") # None => (pc \in FromDebug => <<"group.id", Option("g")>> \in GlobalProperties)
      BY DEF Agreement, KafkaSet
    <3>2. pc' \in FromTemplate
      BY <2>1, Stages
    <3> HIDE DEF Option, KafkaSoFar
    <3> QED
      BY <1>1, <1>2, <1>4, <1>6, <2>1, <2>3, <2>4, <3>1, <3>2, Stages, KafkaGiven
  <2>6. MembersSet' /\ Defaults'
    BY <1>1, <2>1, Stages, MembersKept
  <2> QED
    BY <1>1, <1>2, <2>1, <2>5, <2>6, Stages, SettingStep
<1> QED
  BY <1>5, <1>6


LEMMA DebugStep == Agreement /\ Debug => Agreement'
<1> SUFFICES ASSUME Agreement, Debug PROVE Agreement'
  OBVIOUS
<1> DEFINE name == "debug"
           value == IF Option("d") # None THEN Option("d") ELSE InScope(GlobalProperties, name)
<1>1. /\ pc = "debug" /\ [Next]_vars
      /\ UNCHANGED <<Inputs, options, operands, tconf, pconf>>
      /\ pc' = IF IsSet("d") /\ <<name, options["d"]>> \notin GlobalProperties
               THEN "failure" ELSE "consumer"
      /\ conf' = IF IsSet("d") THEN Set(conf, GlobalProperties, name, options["d"]) ELSE conf
      /\ members' = [members EXCEPT !.exit_eof = IsSet("x")]
  BY DEF Debug, MustSet, Refused, Goto, Next, Settings
<1>2. pc \in FromTemplate
  BY <1>1, Stages
<1>3. /\ options["d"] = Option("d") /\ options["x"] = Option("x")
      /\ conf \in [Texts -> Optional] /\ Option("d") \in Optional
      /\ \A key \in Texts : conf[key] = KafkaSoFar(key, pc)
  BY <1>2, Sources
<1>4. name \in Texts
  BY StartupAssumption
<1>5. CASE Option("d") # None /\ <<name, Option("d")>> \notin GlobalProperties
  <2>1. pc' = "failure" /\ ~Configurable
    <3> HIDE DEF Option, Specified
    <3> QED
      BY <1>1, <1>3, <1>5 DEF IsSet, Configurable
  <2> QED
    BY <1>1, <1>2, <2>1, RefusedStep
<1>6. CASE Option("d") # None => <<name, Option("d")>> \in GlobalProperties
  <2>1. pc' = "consumer"
    <3> HIDE DEF Option
    <3> QED
      BY <1>1, <1>3, <1>6 DEF IsSet
  <2>2. KafkaSoFar(name, pc) = InScope(GlobalProperties, name)
    BY <1>1, Stages DEF KafkaSoFar
  <2>3. \A key : KafkaSoFar(key, pc)' = IF key = name THEN value ELSE KafkaSoFar(key, pc)
    <3>1. \A key : KafkaSoFar(key, pc)' = KafkaSoFar(key, "consumer")
      BY <1>1, <2>1, ScopesKept
    <3> HIDE DEF Option, InScope
    <3> QED
      BY <1>1, <3>1, Stages DEF KafkaSoFar, FirstGiven
  <2>4. \A key \in Texts : conf'[key] = IF key = name THEN value ELSE conf[key]
    <3> HIDE DEF Option, InScope, KafkaSoFar
    <3>1. CASE Option("d") # None
      <4>1. \A key \in Texts : Set(conf, GlobalProperties, name, Option("d"))[key] =
                                  IF key = name THEN Option("d") ELSE conf[key]
        BY <1>3, <1>4, <1>6, <3>1 DEF Set, Property
      <4> QED
        BY <1>1, <1>3, <3>1, <4>1 DEF IsSet
    <3>2. CASE Option("d") = None
      BY <1>1, <1>3, <1>4, <2>2, <3>2 DEF IsSet
    <3> QED
      BY <3>1, <3>2
  <2> HIDE DEF value
  <2>5. KafkaSet'
    <3>1. Option("g") # None => (pc \in FromDebug => <<"group.id", Option("g")>> \in GlobalProperties)
      BY DEF Agreement, KafkaSet
    <3>2. pc' \in FromTemplate
      BY <2>1, Stages
    <3> HIDE DEF Option, KafkaSoFar
    <3> QED
      BY <1>1, <1>2, <1>4, <1>6, <2>1, <2>3, <2>4, <3>1, <3>2, Stages, KafkaGiven
  <2>6. MembersSet' /\ Defaults'
    <3>1. members'.exit_eof = Specified.exit_eof
      <4> HIDE DEF Option
      <4> QED
        BY <1>1, <1>3 DEF Agreement, TypeOK, IsSet, Specified
    <3>2. /\ members'.decode = members.decode /\ members'.template = members.template
          /\ members'.partition = members.partition /\ members'.timeout = members.timeout
      BY <1>1 DEF Agreement, TypeOK
    <3>3. Specified' = Specified
      BY <1>1, ReferenceKept
    <3> HIDE DEF Specified
    <3> QED
      BY <1>1, <2>1, <3>1, <3>2, <3>3, Stages DEF Agreement, MembersSet, Defaults
  <2> QED
    BY <1>1, <1>2, <2>1, <2>5, <2>6, Stages, SettingStep
<1> QED
  BY <1>5, <1>6

-----------------------------------------------------------------------------
(* The theorems. *)

LEMMA StutterStep == Agreement /\ UNCHANGED vars => Agreement'
<1> SUFFICES ASSUME Agreement, UNCHANGED vars PROVE Agreement'
  OBVIOUS
<1>1. /\ UNCHANGED <<Inputs, argv, environment, pc, n, options, operands>>
      /\ UNCHANGED <<conf, tconf, pconf, members>>
  BY DEF vars, kafka, Inputs
<1>2. TypeOK' /\ FileOpen'
  BY TypeStep DEF Agreement
<1>3. (\A o, k : OptionAt(o, k)' = OptionAt(o, k)) /\ (\A k : OperandsAt(k)' = OperandsAt(k))
      /\ (\A o : Option(o)' = Option(o)) /\ File' = File
  BY <1>1, ReferenceKept
<1>4. ArgumentsRead'
  <2>1. CASE pc = "args"
    <3>1. n <= Len(argv) + 1 /\ OptionsAt(n) /\ WellFormed(n)
      BY <2>1 DEF Agreement, ArgumentsRead
    <3>2. OptionsAt(n)'
      BY <1>1, <1>3, <3>1 DEF OptionsAt
    <3>3. WellFormed(n)'
      BY <1>1, <3>1 DEF WellFormed
    <3> QED
      BY <1>1, <3>1, <3>2, <3>3 DEF ArgumentsRead
  <2>2. CASE pc # "args"
    BY <1>1, <2>2 DEF ArgumentsRead
  <2> QED
    BY <2>1, <2>2
<1>5. Dispatched'
  <2>1. CASE pc \in Working \ {"args"}
    BY <1>1, <2>1, DispatchedKept
  <2>2. CASE pc \notin Working \ {"args"}
    BY <1>1, <2>2 DEF Dispatched
  <2> QED
    BY <2>1, <2>2
<1>6. NothingSet' /\ Opened' /\ Defaults' /\ Purpose'
  BY <1>1, <1>3 DEF Agreement, NothingSet, Opened, Defaults, Purpose
<1>7. LinesRead'
  <2>1. \A key, accepted : /\ OwnLines(File, key, n)' = OwnLines(File, key, n)
                           /\ KafkaLines(File, accepted, key, n)' = KafkaLines(File, accepted, key, n)
    BY <1>1, <1>3 DEF OwnLines, KafkaLines
  <2> HIDE DEF File, OwnLines, KafkaLines
  <2> QED
    BY <1>1, <1>3, <2>1 DEF Agreement, LinesRead, ValueAt
<1>8. FileRead'
  BY <1>1, ReferenceKept DEF Agreement, FileRead
<1>9. KafkaSet'
  BY <1>1, KafkaKept, Stages DEF Agreement, KafkaSet
<1>10. MembersSet'
  <2>1. Specified' = Specified
    BY <1>1, ReferenceKept
  <2> HIDE DEF Specified
  <2> QED
    BY <1>1, <2>1 DEF Agreement, MembersSet
<1>11. EndsAsSpecified'
  BY <1>1, ReferenceKept DEF Agreement, EndsAsSpecified
<1> QED
  BY <1>2, <1>4, <1>5, <1>6, <1>7, <1>8, <1>9, <1>10, <1>11 DEF Agreement

LEMMA AgreementStep == Agreement /\ [Next]_vars => Agreement'
<1> SUFFICES ASSUME Agreement, [Next]_vars PROVE Agreement'
  OBVIOUS
<1>1. CASE Parse
  BY <1>1, ParseOptionStep, ParseOperandStep, ParseFailsStep DEF Parse
<1>2. CASE Main
  BY <1>2, DispatchStep, ConfiguredStep, FileTestStep DEF Main
<1>3. CASE ReadFile
  BY <1>3, OpenFileStep, SkipLineStep, KafkaLineStep, AcmLineStep DEF ReadFile
<1>4. CASE Settings
  BY <1>4, TypeActionStep, LoadTemplateStep, BrokerStep, PartitionStep, CloudStep, GroupStep,
     DebugStep, ConsumerTopicStep, ProducerTopicStep, TimeoutStep DEF Settings
<1>5. CASE UNCHANGED vars
  BY <1>5, StutterStep
<1> QED
  BY <1>1, <1>2, <1>3, <1>4, <1>5 DEF Next

(* A process that starts works with the settings its sources specify, for  *)
(* every command line, file and environment.                               *)
THEOREM SettingsCorrect == Spec => []SettingsAsSpecified
<1>1. Agreement => SettingsAsSpecified
  <2> SUFFICES ASSUME Agreement, pc \in Ready
               PROVE  /\ members = Specified
                      /\ \A key \in Texts : /\ conf[key] = SpecifiedKafka(key)
                                            /\ tconf[key] = InScope(TopicProperties, key)
    BY DEF SettingsAsSpecified, Ready
  <2>1. members = Specified
    BY Complete
  <2>2. pc \in FromTemplate /\ pc \in FromPartition /\ pc \in FromGroup /\ pc \in FromDebug
        /\ pc \in FromConsumer
    BY Stages
  <2>3. \A key \in Texts : KafkaSoFar(key, pc) = SpecifiedKafka(key)
    <3> HIDE DEF Option, InScope
    <3> QED
      BY <2>2 DEF KafkaSoFar, SpecifiedKafka
  <2>4. \A key \in Texts : conf[key] = KafkaSoFar(key, pc) /\ tconf[key] = InScope(TopicProperties, key)
    BY <2>2 DEF Agreement, KafkaSet, FileRead
  <2> HIDE DEF KafkaSoFar, SpecifiedKafka, Specified, InScope
  <2> QED
    BY <2>1, <2>3, <2>4
<1> QED
  BY <1>1, InitAgreement, AgreementStep, PTL DEF Spec

(* A process ends, or goes to work, exactly as its sources call for.       *)
THEOREM EndsCorrect == Spec => []EndsAsSpecified
<1>1. Agreement => EndsAsSpecified
  BY DEF Agreement
<1> QED
  BY <1>1, InitAgreement, AgreementStep, PTL DEF Spec

-----------------------------------------------------------------------------
(* The way to a decision. *)

(* How far a start at p has come. *)
PlaceOf(p) ==
  CASE p = "args"       -> 1
    [] p = "open"       -> 2
    [] p = "lines"      -> 3
    [] p = "template"   -> 4
    [] p = "broker"     -> 5
    [] p = "partition"  -> 6
    [] p = "cloud"      -> 7
    [] p = "group"      -> 8
    [] p = "debug"      -> 9
    [] p = "consumer"   -> 10
    [] p = "producer"   -> 11
    [] p = "timeout"    -> 12
    [] p = "configured" -> 13
    [] p = "file"       -> 14
    [] p \in Ended      -> 15

Place == PlaceOf(pc)

(* A start never turns back: each step leaves its place for a later one,   *)
(* or reads one more argument, or one more line of a file that stays the   *)
(* same; a process that has decided stays so (main.cpp and acm.cpp:360-582)*)
StartAdvances ==
  [][/\ Place \in 1..14
     /\ \/ Place' \in (Place + 1)..15
        \/ pc = "args" /\ pc' = pc /\ n' = n + 1 /\ n <= Len(argv)
        \/ pc = "lines" /\ pc' = pc /\ n' = n + 1 /\ n <= Len(Lines) /\ Lines' = Lines]_vars

(* Where the steps lead that leave their place.                            *)
Turns ==
  \/ pc = "args" /\ pc' \in {"open"} \cup Ended
  \/ pc = "open" /\ pc' \in {"lines"} \cup Ended
  \/ pc = "lines" /\ pc' = "template"
  \/ pc = "template" /\ pc' \in {"broker"} \cup Ended
  \/ pc = "broker" /\ pc' = "partition"
  \/ pc = "partition" /\ pc' \in {"cloud"} \cup Ended
  \/ pc = "cloud" /\ pc' = "group"
  \/ pc = "group" /\ pc' \in {"debug"} \cup Ended
  \/ pc = "debug" /\ pc' \in {"consumer"} \cup Ended
  \/ pc = "consumer" /\ pc' \in {"producer"} \cup Ended
  \/ pc = "producer" /\ pc' \in {"timeout"} \cup Ended
  \/ pc = "timeout" /\ pc' = "configured"
  \/ pc = "configured" /\ pc' \in {"file"} \cup Ended
  \/ pc = "file" /\ pc' \in Ended

(* The places in order. *)
LEMMA Places ==
  /\ PlaceOf("args") = 1 /\ PlaceOf("open") = 2 /\ PlaceOf("lines") = 3
  /\ PlaceOf("template") = 4 /\ PlaceOf("broker") = 5 /\ PlaceOf("partition") = 6
  /\ PlaceOf("cloud") = 7 /\ PlaceOf("group") = 8 /\ PlaceOf("debug") = 9
  /\ PlaceOf("consumer") = 10 /\ PlaceOf("producer") = 11 /\ PlaceOf("timeout") = 12
  /\ PlaceOf("configured") = 13 /\ PlaceOf("file") = 14
  /\ \A p \in Ended : PlaceOf(p) = 15
<1>1. \A p \in Ended : PlaceOf(p) = 15
  <2> TAKE p \in Ended
  <2>1. p \notin {"args", "open", "lines", "template", "broker", "partition", "cloud", "group",
                 "debug", "consumer", "producer", "timeout", "configured", "file"}
    BY DEF Ended
  <2> QED
    BY <2>1 DEF PlaceOf
<1> QED
  BY <1>1 DEF PlaceOf, Ended

(* Every turn is one forward. *)
LEMMA TurnsAdvance == Turns => Place \in 1..14 /\ Place' \in (Place + 1)..15
BY Places DEF Turns, Place

(* A start, whatever the command line and the configuration file hold,     *)
(* comes to a decision: it never turns back (acm.cpp:360-582).             *)
THEOREM StartGetsOn == Spec => StartAdvances
<1> DEFINE Reads ==
      \/ pc = "args" /\ pc' = pc /\ n' = n + 1 /\ n <= Len(argv)
      \/ pc = "lines" /\ pc' = pc /\ n' = n + 1 /\ n <= Len(Lines) /\ Lines' = Lines
<1>1. Next => Turns \/ Reads
  <2> USE DEF Goto, Ended, kafka
  <2>1. CASE ParseOption \/ ParseOperand
    BY <2>1 DEF ParseOption, ParseOperand
  <2>2. CASE ParseFails \/ Dispatch
    BY <2>2 DEF ParseFails, Dispatch, Turns
  <2>3. CASE Configured
    BY <2>3 DEF Configured, Turns
  <2>4. CASE FileTest \/ OpenFile
    BY <2>4 DEF FileTest, OpenFile, Turns
  <2>5. CASE SkipLine \/ KafkaLine \/ AcmLine
    BY <2>5 DEF SkipLine, KafkaLine, AcmLine, Lines
  <2>6. CASE Type \/ LoadTemplate \/ Broker
    BY <2>6 DEF Type, LoadTemplate, Broker, Turns
  <2>7. CASE Partition \/ Cloud
    BY <2>7 DEF Partition, Cloud, Turns
  <2>8. CASE Group \/ Debug
    BY <2>8 DEF Group, Debug, Turns
  <2>9. CASE ConsumerTopic \/ ProducerTopic \/ Timeout
    BY <2>9 DEF ConsumerTopic, ProducerTopic, Timeout, Turns
  <2> HIDE DEF Reads
  <2> QED
    BY <2>1, <2>2, <2>3, <2>4, <2>5, <2>6, <2>7, <2>8, <2>9
       DEF Next, Parse, Main, ReadFile, Settings
<1>2. Reads => Place \in 1..14
  BY Places DEF Place
<1>3. Next => Place \in 1..14 /\ (Place' \in (Place + 1)..15 \/ Reads)
  BY <1>1, <1>2, TurnsAdvance
<1> QED
  BY <1>3, PTL DEF Spec, StartAdvances
=============================================================================
