------------------------------ MODULE MCStartup ------------------------------
(* Instance of Startup: every command line of a configuration file and up   *)
(* to two more arguments, over files that give a setting twice, give a      *)
(* wrong one, or leave one out.                                             *)
EXTENDS Startup

Names ==
  {"metadata.broker.list", "bootstrap.servers", "group.id", "debug", "acm.type",
   "acm.error.template", "asn1.kafka.partition", "asn1.topic.consumer",
   "asn1.topic.producer", "asn1.consumer.timeout.ms", "auto.offset.reset"}
MCTexts ==
  Names \cup {"", "./config/Output.error.xml", "-1", "500", "encode", "decode", "encoder",
              "0", "five", "host:9092", "other:9092", "ode", "all", "in", "in2", "out",
              "out2", "smallest", "good", "twice", "lacking", "misspelt", "absent"}

MCNumbers == {"-1", "500", "0"}
MCTemplates == {"./config/Output.error.xml"}
MCTopicProperties == {<<"auto.offset.reset", "smallest">>}
MCGlobalProperties ==
  MCTopicProperties \cup ({"metadata.broker.list", "bootstrap.servers"} \X MCTexts)
    \cup ({"group.id"} \X (MCTexts \ {""})) \cup {<<"debug", "all">>}

Topics == <<<<"asn1.topic.consumer", "in">>, <<"asn1.topic.producer", "out">>>>
MCConfigFiles ==
  [good |-> Topics \o <<<<"acm.type", "encode">>, <<>>, <<"metadata.broker.list", "host:9092">>,
              <<"asn1.kafka.partition", "0">>, <<"asn1.consumer.timeout.ms", "0">>,
              <<"auto.offset.reset", "smallest">>>>,
   twice |-> Topics \o <<<<"acm.type", "encode">>, <<"acm.type", "encoder">>,
              <<"bootstrap.servers", "other:9092">>, <<"metadata.broker.list", "host:9092">>,
              <<"asn1.topic.consumer", "in2">>, <<"group.id", "ode">>, <<"group.id", "">>,
              <<"asn1.consumer.timeout.ms", "0">>, <<"asn1.consumer.timeout.ms", "five">>>>,
   lacking |-> <<<<"asn1.topic.consumer", "in">>, <<"asn1.topic.producer">>,
              <<"asn1.topic.producer", "out", "out2">>, <<"auto.offset.reset", "in">>>>,
   misspelt |-> Topics \o <<<<"asn1.kafka.partition", "five">>>>,
   out |-> <<<<"asn1.topic.producer", "out">>>>,
   out2 |-> Topics \o <<<<"acm.error.template", "absent">>>>]

Argument(o, a) == [opt |-> o, arg |-> a]
More ==
  {Argument("T", "decode"), Argument("T", "encoder"), Argument("p", "500"),
   Argument("p", "five"), Argument("b", "other:9092"), Argument("g", "all"), Argument("g", ""),
   Argument("d", "all"), Argument("d", "ode"), Argument("t", "out2"), Argument("t", "in"),
   Argument("c", "absent"), Argument("operand", "in"), Argument("operand", "out"),
   Argument("operand", "absent"), Argument("?", ""), Argument(":", "")}
    \cup {Argument(o, "") : o \in Flags}
MCCommandLines ==
  {<<>>} \cup
  {<<Argument("c", f)>> \o s : f \in DOMAIN MCConfigFiles,
                               s \in {<<>>} \cup {<<a>> : a \in More} \cup (More \X More)}

MCInputFiles == [in |-> "answered", out |-> "empty", out2 |-> "refused"]

Usual == [kafka_type |-> FALSE, host |-> "", logs |-> TRUE, http |-> TRUE]
MCEnvironments ==
  {Usual, [Usual EXCEPT !.kafka_type = TRUE, !.host = "ode"],
   [Usual EXCEPT !.logs = FALSE], [Usual EXCEPT !.http = FALSE]}
=============================================================================
