-------------------------------- MODULE Startup --------------------------------
(***************************************************************************)
(* From main() to the first message: the command line (Tool::parseArgs()), *)
(* what the process is to do, and ASN1_Codec::configure(), which combines  *)
(* the configuration file, the options and the environment; then the file  *)
(* mode of filetest(), up to its exit status.                              *)
(*                                                                         *)
(* A text is a member of a set.  A line of the configuration file is the   *)
(* sequence of its stripped pieces around '=': none for an empty line or   *)
(* a comment, one for "key=", three for "key=a=b".                         *)
(***************************************************************************)
EXTENDS Naturals, Sequences

CONSTANTS
  Texts,            \* names and values
  CommandLines,     \* the command lines, as sequences of [opt, arg]
  ConfigFiles,      \* the readable configuration files: their lines
  Environments,     \* the environments
  InputFiles,       \* the operands that name a file, and what is in it
  Templates,        \* the files that load as an error template
  Numbers,          \* the texts std::stoi() converts
  TopicProperties,  \* <<key, value>> librdkafka accepts for a topic, and
  GlobalProperties  \* globally

WithArgument == {"c", "t", "p", "g", "b", "d", "T"}
Flags        == {"C", "x", "h", "F", "H"}
Letters      == WithArgument \cup Flags
None         == "(not set)"
Codecs       == {"encode", "decode"}

(* kafka_type: KAFKA_TYPE is CONFLUENT; host: DOCKER_HOST_IP; logs:        *)
(* setup_logger() finds or makes the log directory and file; http: the     *)
(* port and the concurrency of the server are absent or numbers.           *)
Environment == [kafka_type : BOOLEAN, host : Texts, logs : BOOLEAN, http : BOOLEAN]
Arguments   == [opt : Letters \cup {"operand", "?", ":"}, arg : Texts]

ASSUME StartupAssumption ==
  /\ None \notin Texts
  /\ {"", "metadata.broker.list", "bootstrap.servers", "group.id", "debug", "acm.type",
      "acm.error.template", "asn1.kafka.partition", "asn1.topic.consumer",
      "asn1.topic.producer", "asn1.consumer.timeout.ms",
      "./config/Output.error.xml", "-1", "500"} \subseteq Texts
  /\ CommandLines \subseteq Seq(Arguments)
  /\ DOMAIN ConfigFiles \subseteq Texts
  /\ ConfigFiles \in [DOMAIN ConfigFiles -> Seq(Seq(Texts))]
  /\ Environments \subseteq Environment
  /\ {"-1", "500"} \subseteq Numbers /\ Numbers \subseteq Texts
  /\ {"metadata.broker.list", "bootstrap.servers"} \X Texts \subseteq GlobalProperties
  /\ TopicProperties \subseteq Texts \X Texts
  /\ GlobalProperties \subseteq Texts \X Texts

VARIABLES
  argv, environment,   \* what the process is started with
  pc,                  \* where main() and configure() are, or how it ended
  n,                   \* the argument, then the line to read next
  options, operands,   \* of the Tool
  conf, tconf, pconf,  \* settings for Kafka, its topics, and the ACM itself
  members              \* members of ASN1_Codec that configure() sets

kafka == <<conf, tconf>>
vars  == <<argv, environment, pc, n, options, operands, kafka, pconf, members>>

Ended == {"success", "failure", "aborted", "serving", "consuming"}

Init ==
  /\ argv \in CommandLines
  /\ environment \in Environments
  /\ pc = "args"
  /\ n = 1
  /\ options = [o \in Letters |-> None]
  /\ operands = <<>>
  /\ conf = [k \in Texts |-> None]
  /\ tconf = [k \in Texts |-> None]
  /\ pconf = [k \in Texts |-> None]
  /\ members = [decode |-> TRUE, template |-> None, partition |-> "-1", exit_eof |-> TRUE,
                consumed |-> None, published |-> None, timeout |-> "500"]

Goto(from, to) == pc = from /\ pc' = to
IsSet(o)       == options[o] # None
Inputs         == <<argv, environment>>

-----------------------------------------------------------------------------
(* Tool::parseArgs() *)

ParseOption ==
  /\ pc = "args" /\ n <= Len(argv)
  /\ argv[n].opt \in Letters
  /\ options' = [options EXCEPT ![argv[n].opt] =
       IF argv[n].opt \in WithArgument THEN argv[n].arg ELSE ""]
  /\ n' = n + 1
  /\ UNCHANGED <<Inputs, pc, operands, kafka, pconf, members>>

ParseOperand ==
  /\ pc = "args" /\ n <= Len(argv)
  /\ argv[n].opt = "operand"
  /\ operands' = Append(operands, argv[n].arg)
  /\ n' = n + 1
  /\ UNCHANGED <<Inputs, pc, options, kafka, pconf, members>>

(* An unknown option, or one without the argument it needs. *)
ParseFails ==
  /\ Goto("args", "failure") /\ n <= Len(argv)
  /\ argv[n].opt \in {"?", ":"}
  /\ UNCHANGED <<Inputs, n, options, operands, kafka, pconf, members>>

-----------------------------------------------------------------------------
(* main() *)

Dispatch ==
  /\ pc = "args" /\ n > Len(argv)
  /\ pc' = CASE IsSet("h") -> "success"
             [] ~IsSet("h") /\ ~environment.logs -> "failure"
             [] OTHER ->
                  IF IsSet("H") /\ ~IsSet("C")
                  THEN IF environment.http THEN "serving" ELSE "aborted"
                  ELSE "open"
  /\ n' = 1
  /\ UNCHANGED <<Inputs, options, operands, kafka, pconf, members>>

(* What a process that could be configured does: -C wins over -F. *)
Configured ==
  /\ pc = "configured"
  /\ pc' = CASE IsSet("C")                  -> "success"
             [] ~IsSet("C") /\ IsSet("F")   -> "file"
             [] ~IsSet("C") /\ ~IsSet("F")  -> "consuming"
  /\ UNCHANGED <<Inputs, n, options, operands, kafka, pconf, members>>

(* filetest(): operands[0] is read whether or not there is one; an empty   *)
(* file is a success, any other as its message is answered.                *)
FileTest ==
  /\ pc = "file"
  /\ pc' = IF operands = <<>> THEN "aborted"
           ELSE IF operands[1] \in DOMAIN InputFiles
                   /\ InputFiles[operands[1]] \in {"empty", "answered"}
           THEN "success" ELSE "failure"
  /\ UNCHANGED <<Inputs, n, options, operands, kafka, pconf, members>>

-----------------------------------------------------------------------------
(* configure(): the lines of the file *)

OpenFile ==
  /\ pc = "open"
  /\ pc' = IF IsSet("c") /\ options["c"] \in DOMAIN ConfigFiles THEN "lines" ELSE "failure"
  /\ UNCHANGED <<Inputs, n, options, operands, kafka, pconf, members>>

Lines == ConfigFiles[options["c"]]
Line  == Lines[n]

(* librdkafka knows one property by two names. *)
Property(key) == IF key = "bootstrap.servers" THEN "metadata.broker.list" ELSE key

(* RdKafka::Conf::set() *)
Set(c, accepted, key, value) ==
  IF <<key, value>> \in accepted THEN [c EXCEPT ![Property(key)] = value] ELSE c

IsKafka(line) == <<line[1], line[2]>> \in TopicProperties \cup GlobalProperties

(* Mutant: getline() is not called again. *)
SkipLineStays ==
  /\ pc = "lines" /\ n <= Len(Lines)
  /\ Len(Line) # 2
  /\ UNCHANGED vars

(* A line that is not two pieces is ignored with a warning at most. *)
SkipLine ==
  /\ pc = "lines" /\ n <= Len(Lines)
  /\ Len(Line) # 2
  /\ n' = n + 1
  /\ UNCHANGED <<Inputs, pc, options, operands, kafka, pconf, members>>

KafkaLine ==
  /\ pc = "lines" /\ n <= Len(Lines)
  /\ Len(Line) = 2 /\ IsKafka(Line)
  /\ tconf' = Set(tconf, TopicProperties, Line[1], Line[2])
  /\ conf' = Set(conf, GlobalProperties, Line[1], Line[2])
  /\ n' = n + 1
  /\ UNCHANGED <<Inputs, pc, options, operands, pconf, members>>

(* Mutant: a setting given again keeps its first value, as insert() would. *)
AcmLineOnce ==
  /\ pc = "lines" /\ n <= Len(Lines)
  /\ Len(Line) = 2 /\ ~IsKafka(Line)
  /\ pconf' = [pconf EXCEPT ![Line[1]] = IF @ = None THEN Line[2] ELSE @]
  /\ n' = n + 1
  /\ UNCHANGED <<Inputs, pc, options, operands, kafka, members>>

(* Everything librdkafka refuses is the ACM's, also a property of its own  *)
(* with a value it does not accept.                                        *)
AcmLine ==
  /\ pc = "lines" /\ n <= Len(Lines)
  /\ Len(Line) = 2 /\ ~IsKafka(Line)
  /\ pconf' = [pconf EXCEPT ![Line[1]] = Line[2]]
  /\ n' = n + 1
  /\ UNCHANGED <<Inputs, pc, options, operands, kafka, members>>

-----------------------------------------------------------------------------
(* configure(): the settings, from the options, the environment or pconf   *)

(* The value an option or else the file gives, None when neither does. *)
Either(o, key) == IF IsSet(o) THEN options[o] ELSE pconf[key]

(* A value that is neither "encode" nor "decode" changes nothing. *)
Type ==
  /\ Goto("lines", "template") /\ n > Len(Lines)
  /\ members' = [members EXCEPT !.decode =
       IF options["T"] \in Codecs THEN options["T"] = "decode"
       ELSE IF pconf["acm.type"] \in Codecs THEN pconf["acm.type"] = "decode" ELSE @]
  /\ UNCHANGED <<Inputs, n, options, operands, kafka, pconf>>

ErrorTemplate ==
  LET file == pconf["acm.error.template"]
  IN IF file = None THEN "./config/Output.error.xml" ELSE file

LoadTemplate ==
  /\ pc = "template"
  /\ pc' = IF ErrorTemplate \in Templates THEN "broker" ELSE "failure"
  /\ members' = [members EXCEPT !.template = ErrorTemplate]
  /\ UNCHANGED <<Inputs, n, options, operands, kafka, pconf>>

Broker ==
  /\ Goto("broker", "partition")
  /\ conf' = IF IsSet("b") THEN Set(conf, GlobalProperties, "metadata.broker.list", options["b"])
             ELSE conf
  /\ UNCHANGED <<Inputs, n, options, operands, tconf, pconf, members>>

(* stoi() throws, and every caller of configure() makes that a failure. *)
Partition ==
  /\ pc = "partition"
  /\ LET given == Either("p", "asn1.kafka.partition") IN
       /\ pc' = IF given \in Numbers \cup {None} THEN "cloud" ELSE "failure"
       /\ members' = IF given \in Numbers THEN [members EXCEPT !.partition = given] ELSE members
  /\ UNCHANGED <<Inputs, n, options, operands, kafka, pconf>>

(* The credentials and protocol settings that go with it are left out.     *)
Cloud ==
  /\ Goto("cloud", "group")
  /\ conf' = IF environment.kafka_type
             THEN Set(conf, GlobalProperties, "bootstrap.servers", environment.host) ELSE conf
  /\ UNCHANGED <<Inputs, n, options, operands, tconf, pconf, members>>

(* An option that is a Kafka property, and must be accepted. *)
MustSet(o, key) ==
  /\ conf' = IF IsSet(o) THEN Set(conf, GlobalProperties, key, options[o]) ELSE conf
  /\ UNCHANGED <<Inputs, n, options, operands, tconf, pconf>>

Refused(o, key) == IsSet(o) /\ <<key, options[o]>> \notin GlobalProperties

(* Mutant: the group identifier is set as the broker is. *)
GroupUnchecked ==
  /\ Goto("group", "debug")
  /\ MustSet("g", "group.id")
  /\ UNCHANGED members

Group ==
  /\ Goto("group", IF Refused("g", "group.id") THEN "failure" ELSE "debug")
  /\ MustSet("g", "group.id")
  /\ UNCHANGED members

Debug ==
  /\ Goto("debug", IF Refused("d", "debug") THEN "failure" ELSE "consumer")
  /\ MustSet("d", "debug")
  /\ members' = [members EXCEPT !.exit_eof = IsSet("x")]

ConsumerTopic ==
  /\ Goto("consumer", IF pconf["asn1.topic.consumer"] = None THEN "failure" ELSE "producer")
  /\ members' = [members EXCEPT !.consumed = pconf["asn1.topic.consumer"]]
  /\ UNCHANGED <<Inputs, n, options, operands, kafka, pconf>>

ProducerTopic ==
  /\ Goto("producer", IF Either("t", "asn1.topic.producer") = None THEN "failure" ELSE "timeout")
  /\ members' = [members EXCEPT !.published = Either("t", "asn1.topic.producer")]
  /\ UNCHANGED <<Inputs, n, options, operands, kafka, pconf>>

(* Mutant: a timeout that is missing is taken for one. *)
TimeoutUnchecked ==
  /\ Goto("timeout", "configured")
  /\ members' = [members EXCEPT !.timeout = pconf["asn1.consumer.timeout.ms"]]
  /\ UNCHANGED <<Inputs, n, options, operands, kafka, pconf>>

(* A timeout that is no number is ignored: the exception is caught here. *)
Timeout ==
  /\ Goto("timeout", "configured")
  /\ members' = [members EXCEPT !.timeout =
       IF pconf["asn1.consumer.timeout.ms"] \in Numbers
       THEN pconf["asn1.consumer.timeout.ms"] ELSE @]
  /\ UNCHANGED <<Inputs, n, options, operands, kafka, pconf>>

Parse     == ParseOption \/ ParseOperand \/ ParseFails
Main      == Dispatch \/ Configured \/ FileTest
ReadFile  == OpenFile \/ SkipLine \/ KafkaLine \/ AcmLine
Settings  == Type \/ LoadTemplate \/ Broker \/ Partition \/ Cloud \/ Group \/ Debug
               \/ ConsumerTopic \/ ProducerTopic \/ Timeout

Next == Parse \/ Main \/ ReadFile \/ Settings

Spec == Init /\ [][Next]_vars

(* One thread, which waits for nobody. *)
FairSpec == Spec /\ WF_vars(Next)

-----------------------------------------------------------------------------
(* Reference: what is meant by a command line, a file and an environment,  *)
(* source by source and key by key.                                        *)

Latest(S) == CHOOSE k \in S : \A j \in S : j <= k

(* The option o as the arguments before k leave it. *)
Given(o, k) == {j \in 1..k - 1 : argv[j].opt = o}
OptionAt(o, k) ==
  IF Given(o, k) = {} THEN None
  ELSE IF o \in WithArgument THEN argv[Latest(Given(o, k))].arg ELSE ""
Option(o) == OptionAt(o, Len(argv) + 1)

(* The setting of the ACM, or of Kafka in one scope, as the lines of the   *)
(* file before k leave it.                                                 *)
OwnLines(lines, key, k) ==
  {j \in 1..k - 1 : Len(lines[j]) = 2 /\ lines[j][1] = key /\ ~IsKafka(lines[j])}
KafkaLines(lines, accepted, key, k) ==
  {j \in 1..k - 1 : /\ Len(lines[j]) = 2 /\ Property(lines[j][1]) = key
                    /\ <<lines[j][1], lines[j][2]>> \in accepted}
ValueAt(lines, S) == IF S = {} THEN None ELSE lines[Latest(S)][2]

File      == ConfigFiles[Option("c")]
InFile(k) == ValueAt(File, OwnLines(File, k, Len(File) + 1))
InScope(accepted, k) == ValueAt(File, KafkaLines(File, accepted, k, Len(File) + 1))

FirstGiven(a, b) == IF a # None THEN a ELSE b

(* The settings of a process that starts.  docs/configuration.md:22: an    *)
(* option overrides the file.                                              *)
Specified ==
  [decode    |-> IF Option("T") \in Codecs THEN Option("T") = "decode"
                 ELSE InFile("acm.type") # "encode",
   template  |-> FirstGiven(InFile("acm.error.template"), "./config/Output.error.xml"),
   partition |-> FirstGiven(FirstGiven(Option("p"), InFile("asn1.kafka.partition")), "-1"),
   exit_eof  |-> Option("x") # None,
   consumed  |-> InFile("asn1.topic.consumer"),
   published |-> FirstGiven(Option("t"), InFile("asn1.topic.producer")),
   timeout   |-> IF InFile("asn1.consumer.timeout.ms") \in Numbers
                 THEN InFile("asn1.consumer.timeout.ms") ELSE "500"]

SpecifiedKafka(key) ==
  CASE key = "metadata.broker.list" /\ environment.kafka_type -> environment.host
    [] key = "metadata.broker.list" /\ ~environment.kafka_type ->
         FirstGiven(Option("b"), InScope(GlobalProperties, key))
    [] key = "group.id" -> FirstGiven(Option("g"), InScope(GlobalProperties, key))
    [] key = "debug" -> FirstGiven(Option("d"), InScope(GlobalProperties, key))
    [] OTHER -> InScope(GlobalProperties, key)

(* Whether configure() succeeds. *)
Configurable ==
  /\ Option("c") \in DOMAIN ConfigFiles
  /\ Specified.template \in Templates
  /\ Specified.partition \in Numbers
  /\ \A o \in {"g", "d"} : Option(o) # None =>
       <<IF o = "g" THEN "group.id" ELSE "debug", Option(o)>> \in GlobalProperties
  /\ None \notin {Specified.consumed, Specified.published}

OperandsAt(k) == {j \in 1..k - 1 : argv[j].opt = "operand"}
Operands      == OperandsAt(Len(argv) + 1)
FirstOperand  == argv[CHOOSE j \in Operands : \A k \in Operands : j <= k].arg

(* How a process ends, or what it turns to. *)
Outcome ==
  IF \E j \in DOMAIN argv : argv[j].opt \in {"?", ":"} THEN "failure"
  ELSE IF Option("h") # None THEN "success"
  ELSE IF ~environment.logs THEN "failure"
  ELSE IF Option("C") # None THEN IF Configurable THEN "success" ELSE "failure"
  ELSE IF Option("H") # None THEN IF environment.http THEN "serving" ELSE "aborted"
  ELSE IF ~Configurable THEN "failure"
  ELSE IF Option("F") = None THEN "consuming"
  ELSE IF Operands = {} THEN "aborted"
  ELSE IF /\ FirstOperand \in DOMAIN InputFiles
          /\ InputFiles[FirstOperand] \in {"empty", "answered"} THEN "success"
  ELSE "failure"

-----------------------------------------------------------------------------
(* Properties *)

Optional == Texts \cup {None}

(* The variables keep their types. *)
TypeOK ==
  /\ argv \in Seq(Arguments) /\ environment \in Environment
  /\ pc \in Ended \cup {"args", "open", "lines", "template", "broker", "partition", "cloud",
                        "group", "debug", "consumer", "producer", "timeout", "configured", "file"}
  /\ n \in Nat \ {0}
  /\ options \in [Letters -> Optional]
  /\ operands \in Seq(Texts)
  /\ conf \in [Texts -> Optional] /\ tconf \in [Texts -> Optional]
  /\ pconf \in [Texts -> Optional]
  /\ members \in [decode : BOOLEAN, template : Optional, partition : Texts, exit_eof : BOOLEAN,
                  consumed : Optional, published : Optional, timeout : Texts]

(* A process consumes or works on a file with the settings its sources     *)
(* specify: the last argument of an option, else the last line of the file *)
(* that has the key and is not Kafka's, else the default; the cloud broker *)
(* wins over both (acm.cpp:382-582, docs/configuration.md:22).             *)
SettingsAsSpecified ==
  pc \in {"configured", "file", "consuming"} =>
    /\ members = Specified
    /\ \A key \in Texts : /\ conf[key] = SpecifiedKafka(key)
                          /\ tconf[key] = InScope(TopicProperties, key)

(* Whatever the order of the checks on the way, a process fails, succeeds, *)
(* aborts or goes to work exactly when its inputs call for it; -C accepts  *)
(* a configuration exactly when a process without it would start           *)
(* (acm.cpp:360-583, 1722-1760, 1987-2035).                                *)
EndsAsSpecified == pc \in Ended => pc = Outcome

(* Every start comes to a decision. *)
EveryStartDecides == <>(pc \in Ended)
=============================================================================
