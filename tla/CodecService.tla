---------------------------- MODULE CodecService ----------------------------
(***************************************************************************)
(* The run loop of the ACM process, ASN1_Codec::operator() in              *)
(* src/src/acm.cpp with launch_consumer(), topic_available(),              *)
(* launch_producer(), the control of process_message() and the signal      *)
(* handler, against the part of Kafka it talks to.                         *)
(*                                                                         *)
(* A payload is reduced to whether it is empty: whatever a message         *)
(* contains, handling it saves exactly one document in output_msg_stream   *)
(* (MessageCodec shows this), so a document is the number of the message   *)
(* it answers.  The program counter stops at every point where the signal  *)
(* handler can change what the next test of a flag sees.                   *)
(***************************************************************************)
EXTENDS Naturals, Sequences

CONSTANTS
  ExitEof,       \* the -x option was given (exit_eof)
  PartitionEof,  \* librdkafka reports the end of a partition
  MaxMessages,   \* bound: messages the ODE appends to the input topic
  MaxSignals,    \* bound: signals delivered
  MaxTrouble     \* bound: failures of Kafka calls and error events

ASSUME ConstantsAssumption ==
  /\ ExitEof \in BOOLEAN
  /\ PartitionEof \in BOOLEAN
  /\ MaxMessages \in Nat
  /\ MaxSignals \in Nat
  /\ MaxTrouble \in Nat

VARIABLES
  pc,              \* where the main thread is
  bootstrap,       \* static flags, cleared by the signal handler
  data_available,
  consumer,        \* consumer_ptr holds a consumer
  producer,        \* producer_ptr and published_topic_ptr are usable
  msg,             \* the last result of consume()
  stream,          \* output_msg_stream: the documents it holds
  eof_cnt,
  msg_recv_count,
  msg_send_count,
  input,           \* the consumed topic: per message, "text" or "empty"
  topicReady,      \* the broker's metadata list the consumed topic
  position,        \* messages handed to the application so far
  eofAt,           \* the end was already reported at this position (0: never)
  sent,            \* records produce() accepted, oldest first
  trouble,         \* failures so far
  signals,         \* signals delivered so far
  refused          \* history: messages whose record produce() refused

service == <<pc, bootstrap, data_available, consumer, producer, msg, stream,
             eof_cnt, msg_recv_count, msg_send_count>>
kafka   == <<input, topicReady, position, eofAt, sent, trouble>>
history == <<signals, refused>>
vars    == <<service, kafka, history>>

flags    == <<bootstrap, data_available>>
clients  == <<consumer, producer>>
counters == <<eof_cnt, msg_recv_count, msg_send_count>>

Payloads == {"text", "empty"}
Fates    == {"queued", "delivered", "lost"}

Running == {"boot", "reset", "create", "await", "metadata", "subscribe",
            "producer", "inner", "consume", "process", "publish"}
Exited  == {"exit_success", "exit_failure"}

(* What consume() returns.  nonEmpty is msg->len() > 0: for an error event *)
(* that length is the length of librdkafka's error text.                   *)
Event(kind, nonEmpty, off) == [kind |-> kind, nonEmpty |-> nonEmpty, off |-> off]
Idle == Event("idle", FALSE, 0)

(* A producer that is destroyed, or a process that ends, without flush()   *)
(* takes the records it has not delivered with it.                         *)
Abandon(records) ==
  [i \in DOMAIN records |->
     IF records[i].fate = "queued" THEN [records[i] EXCEPT !.fate = "lost"]
                                   ELSE records[i]]

Goto(from, to) == pc = from /\ pc' = to
Trouble == trouble < MaxTrouble /\ trouble' = trouble + 1

Init ==
  /\ pc = "boot"
  /\ bootstrap = TRUE
  /\ data_available = TRUE
  /\ consumer = FALSE
  /\ producer = FALSE
  /\ msg = Idle
  /\ stream = <<>>
  /\ eof_cnt = 0
  /\ msg_recv_count = 0
  /\ msg_send_count = 0
  /\ input = <<>>
  /\ topicReady \in BOOLEAN
  /\ position = 0
  /\ eofAt = 0
  /\ sent = <<>>
  /\ trouble = 0
  /\ signals = 0
  /\ refused = {}

-----------------------------------------------------------------------------
(* The bootstrap loop. *)

EnterBootstrap ==
  /\ bootstrap
  /\ Goto("boot", "reset")
  /\ UNCHANGED <<flags, clients, msg, stream, counters, kafka, history>>

(* The loop ends, operator() returns and main() calls std::exit(), which   *)
(* destroys neither the consumer nor the producer.                         *)
Shutdown ==
  /\ ~bootstrap
  /\ Goto("boot", "exit_success")
  /\ sent' = Abandon(sent)
  /\ UNCHANGED <<flags, clients, msg, stream, counters, history,
                 input, topicReady, position, eofAt, trouble>>

ResetFlag ==
  /\ Goto("reset", "create")
  /\ data_available' = TRUE
  /\ UNCHANGED <<bootstrap, clients, msg, stream, counters, kafka, history>>

CreateConsumer ==
  /\ Goto("create", "await")
  /\ consumer' = TRUE
  /\ UNCHANGED <<flags, producer, msg, stream, counters, kafka, history>>

CreateConsumerFails ==
  /\ ~consumer
  /\ Goto("create", "boot")
  /\ Trouble
  /\ UNCHANGED <<flags, clients, msg, stream, counters, history,
                 input, topicReady, position, eofAt, sent>>

(* The wait for the consumed topic: the flag is tested, then the metadata  *)
(* are requested.                                                          *)
WaitTopic ==
  /\ data_available
  /\ Goto("await", "metadata")
  /\ UNCHANGED <<flags, clients, msg, stream, counters, kafka, history>>

WaitCancelled ==
  /\ ~data_available
  /\ Goto("await", "boot")
  /\ UNCHANGED <<flags, clients, msg, stream, counters, kafka, history>>

(* Mutant: a topic that was found is not counted. *)
TopicFoundUncounted ==
  /\ topicReady
  /\ Goto("metadata", "await")
  /\ UNCHANGED <<flags, clients, msg, stream, counters, kafka, history>>

TopicFound ==
  /\ topicReady
  /\ Goto("metadata", "subscribe")
  /\ UNCHANGED <<flags, clients, msg, stream, counters, kafka, history>>

TopicMissing ==
  /\ ~topicReady
  /\ Goto("metadata", "await")
  /\ UNCHANGED <<flags, clients, msg, stream, counters, kafka, history>>

(* Any metadata error makes topic_available() end the process.             *)
MetadataFails ==
  /\ Goto("metadata", "exit_failure")
  /\ Trouble
  /\ sent' = Abandon(sent)
  /\ UNCHANGED <<flags, clients, msg, stream, counters, history,
                 input, topicReady, position, eofAt>>

(* Mutant: a new subscription reads the topic from its start. *)
SubscribeRewinds ==
  /\ Goto("subscribe", "producer")
  /\ eofAt' = 0
  /\ position' = 0
  /\ UNCHANGED <<flags, clients, msg, stream, counters, history,
                 input, topicReady, sent, trouble>>

(* A new subscription may report the end of the partition anew.            *)
Subscribe ==
  /\ Goto("subscribe", "producer")
  /\ eofAt' \in {0, eofAt}
  /\ UNCHANGED <<flags, clients, msg, stream, counters, history,
                 input, topicReady, position, sent, trouble>>

SubscribeFails ==
  /\ Goto("subscribe", "boot")
  /\ Trouble
  /\ UNCHANGED <<flags, clients, msg, stream, counters, history,
                 input, topicReady, position, eofAt, sent>>

(* launch_producer() overwrites producer_ptr: the previous producer is     *)
(* destroyed with whatever it still had queued.                            *)
LaunchProducer ==
  /\ Goto("producer", "inner")
  /\ producer' = TRUE
  /\ sent' = Abandon(sent)
  /\ UNCHANGED <<flags, consumer, msg, stream, counters, history,
                 input, topicReady, position, eofAt, trouble>>

(* Mutant: the failure of launch_producer() does not start over. *)
LaunchProducerFailsGoesOn ==
  /\ Goto("producer", "inner")
  /\ Trouble
  /\ producer' = FALSE
  /\ sent' = Abandon(sent)
  /\ UNCHANGED <<flags, consumer, msg, stream, counters, history,
                 input, topicReady, position, eofAt>>

LaunchProducerFails ==
  /\ Goto("producer", "boot")
  /\ Trouble
  /\ producer' = FALSE
  /\ sent' = Abandon(sent)
  /\ UNCHANGED <<flags, consumer, msg, stream, counters, history,
                 input, topicReady, position, eofAt>>

-----------------------------------------------------------------------------
(* The consume-produce loop. *)

KeepConsuming ==
  /\ data_available
  /\ Goto("inner", "consume")
  /\ UNCHANGED <<flags, clients, msg, stream, counters, kafka, history>>

(* Mutant: the outer loop does not test bootstrap. *)
LeaveLoopUntested ==
  /\ ~data_available
  /\ Goto("inner", "reset")
  /\ UNCHANGED <<flags, clients, msg, stream, counters, kafka, history>>

LeaveLoop ==
  /\ ~data_available
  /\ Goto("inner", "boot")
  /\ UNCHANGED <<flags, clients, msg, stream, counters, kafka, history>>

(* consume() returns the next message of the partition ...                 *)
ConsumeMessage ==
  /\ Goto("consume", "process")
  /\ position < Len(input)
  /\ position' = position + 1
  /\ msg' = Event("message", input[position + 1] = "text", position + 1)
  /\ UNCHANGED <<flags, clients, stream, counters, history,
                 input, topicReady, eofAt, sent, trouble>>

(* ... or times out ...                                                    *)
ConsumeNothing ==
  /\ Goto("consume", "process")
  /\ msg' = Idle
  /\ UNCHANGED <<flags, clients, stream, counters, kafka, history>>

(* ... or reports the end of the partition ...                             *)
ConsumeEof ==
  /\ PartitionEof
  /\ Goto("consume", "process")
  /\ position = Len(input)
  /\ eofAt # position + 1
  /\ eofAt' = position + 1
  /\ \E text \in BOOLEAN : msg' = Event("eof", text, 0)
  /\ UNCHANGED <<flags, clients, stream, counters, history,
                 input, topicReady, position, sent, trouble>>

(* ... or any other error: unknown topic, unknown partition, the default   *)
(* case of the switch.                                                     *)
ConsumeFault ==
  /\ Goto("consume", "process")
  /\ Trouble
  /\ \E text \in BOOLEAN : msg' = Event("fault", text, 0)
  /\ UNCHANGED <<flags, clients, stream, counters, history,
                 input, topicReady, position, eofAt, sent>>

(* Mutant: an empty message gets no error document. *)
ProcessMessageSkipsEmpty ==
  /\ msg.kind = "message"
  /\ Goto("process", "publish")
  /\ msg_recv_count' = msg_recv_count + 1
  /\ stream' = IF msg.nonEmpty THEN Append(stream, msg.off) ELSE stream
  /\ UNCHANGED <<flags, clients, msg, eof_cnt, msg_send_count, kafka, history>>

(* process_message() and the catch clauses around it. *)
ProcessMessage ==
  /\ msg.kind = "message"
  /\ Goto("process", "publish")
  /\ msg_recv_count' = msg_recv_count + 1
  /\ stream' = Append(stream, msg.off)
  /\ UNCHANGED <<flags, clients, msg, eof_cnt, msg_send_count, kafka, history>>

(* Mutant: the case of a timeout has no break. *)
ProcessNothingFallsThrough ==
  /\ msg.kind = "idle"
  /\ Goto("process", "publish")
  /\ msg_recv_count' = msg_recv_count + 1
  /\ stream' = Append(stream, msg.off)
  /\ UNCHANGED <<flags, clients, msg, eof_cnt, msg_send_count, kafka, history>>

ProcessNothing ==
  /\ msg.kind = "idle"
  /\ Goto("process", "publish")
  /\ UNCHANGED <<flags, clients, msg, stream, counters, kafka, history>>

partition_cnt == 1

ProcessEof ==
  /\ msg.kind = "eof"
  /\ Goto("process", "publish")
  /\ eof_cnt' = IF ExitEof THEN eof_cnt + 1 ELSE eof_cnt
  /\ data_available' = (data_available /\ ~(ExitEof /\ eof_cnt' = partition_cnt))
  /\ UNCHANGED <<bootstrap, clients, msg, stream, msg_recv_count,
                 msg_send_count, kafka, history>>

(* Mutant: an error event ends the outer loop too. *)
ProcessFaultEnds ==
  /\ msg.kind = "fault"
  /\ Goto("process", "publish")
  /\ data_available' = FALSE
  /\ bootstrap' = FALSE
  /\ UNCHANGED <<clients, msg, stream, counters, kafka, history>>

ProcessFault ==
  /\ msg.kind = "fault"
  /\ Goto("process", "publish")
  /\ data_available' = FALSE
  /\ UNCHANGED <<bootstrap, clients, msg, stream, counters, kafka, history>>

(* Mutant: the stream is not cleared. *)
PublishRecordKeepsStream ==
  /\ msg.nonEmpty
  /\ Goto("publish", "inner")
  /\ sent' = Append(sent, [docs |-> stream, fate |-> "queued"])
  /\ msg_send_count' = msg_send_count + 1
  /\ UNCHANGED <<flags, clients, msg, stream, eof_cnt, msg_recv_count, history,
                 input, topicReady, position, eofAt, trouble>>

(* The test of msg->len() decides alone whether a record is produced.      *)
PublishRecord ==
  /\ msg.nonEmpty
  /\ Goto("publish", "inner")
  /\ sent' = Append(sent, [docs |-> stream, fate |-> "queued"])
  /\ msg_send_count' = msg_send_count + 1
  /\ stream' = <<>>
  /\ UNCHANGED <<flags, clients, msg, eof_cnt, msg_recv_count, history,
                 input, topicReady, position, eofAt, trouble>>

(* Mutant: a refused record is counted as published. *)
PublishRefusedCounts ==
  /\ msg.nonEmpty
  /\ Goto("publish", "inner")
  /\ Trouble
  /\ stream' = <<>>
  /\ msg_send_count' = msg_send_count + 1
  /\ refused' = refused \cup {stream[i] : i \in DOMAIN stream}
  /\ UNCHANGED <<flags, clients, msg, eof_cnt, msg_recv_count, signals,
                 input, topicReady, position, eofAt, sent>>

(* produce() refuses the record (its queue is full): logged and forgotten. *)
PublishRefused ==
  /\ msg.nonEmpty
  /\ Goto("publish", "inner")
  /\ Trouble
  /\ stream' = <<>>
  /\ refused' = refused \cup {stream[i] : i \in DOMAIN stream}
  /\ UNCHANGED <<flags, clients, msg, counters, signals,
                 input, topicReady, position, eofAt, sent>>

PublishNothing ==
  /\ ~msg.nonEmpty
  /\ Goto("publish", "inner")
  /\ UNCHANGED <<flags, clients, msg, stream, counters, kafka, history>>

-----------------------------------------------------------------------------
(* The signal handler and Kafka, concurrent with the main thread. *)

Signal ==
  /\ pc \in Running
  /\ signals < MaxSignals
  /\ signals' = signals + 1
  /\ data_available' = FALSE
  /\ bootstrap' = FALSE
  /\ UNCHANGED <<pc, clients, msg, stream, counters, kafka, refused>>

MessageArrives ==
  /\ topicReady
  /\ Len(input) < MaxMessages
  /\ \E p \in Payloads : input' = Append(input, p)
  /\ UNCHANGED <<service, history, topicReady, position, eofAt, sent, trouble>>

TopicCreated ==
  /\ ~topicReady
  /\ topicReady' = TRUE
  /\ UNCHANGED <<service, history, input, position, eofAt, sent, trouble>>

OldestQueued(i) ==
  /\ sent[i].fate = "queued"
  /\ \A j \in 1..(i - 1) : sent[j].fate # "queued"

(* librdkafka's sender thread delivers the queue in order, or gives up on  *)
(* a record; nobody is told, there is no delivery report callback.         *)
Settle(fate) ==
  /\ \E i \in DOMAIN sent :
       /\ OldestQueued(i)
       /\ sent' = [sent EXCEPT ![i].fate = fate]
  /\ UNCHANGED <<service, history, input, topicReady, position, eofAt>>

Deliver       == Settle("delivered") /\ UNCHANGED trouble
DeliveryFails == Settle("lost") /\ Trouble

Launch ==
  \/ EnterBootstrap \/ Shutdown \/ ResetFlag
  \/ CreateConsumer \/ CreateConsumerFails
  \/ WaitTopic \/ WaitCancelled \/ TopicFound \/ TopicMissing \/ MetadataFails
  \/ Subscribe \/ SubscribeFails
  \/ LaunchProducer \/ LaunchProducerFails

Loop ==
  \/ KeepConsuming \/ LeaveLoop
  \/ ConsumeMessage \/ ConsumeNothing \/ ConsumeEof \/ ConsumeFault
  \/ ProcessMessage \/ ProcessNothing \/ ProcessEof \/ ProcessFault
  \/ PublishRecord \/ PublishRefused \/ PublishNothing

Environment ==
  \/ Signal \/ MessageArrives \/ TopicCreated \/ Deliver \/ DeliveryFails

Next == Launch \/ Loop \/ Environment

Spec == Init /\ [][Next]_vars

(* The main thread keeps running; a message that is in the topic is        *)
(* fetched sooner or later.                                                *)
FairSpec == Spec /\ WF_vars(Launch \/ Loop) /\ SF_vars(ConsumeMessage)

-----------------------------------------------------------------------------
(* Properties *)

Messages == 1..Len(input)
Held     == IF pc = "process" /\ msg.kind = "message" THEN <<msg.off>> ELSE <<>>
Answered == {r \in Messages : \E i \in DOMAIN sent :
                                \E k \in DOMAIN sent[i].docs : sent[i].docs[k] = r}
Waiting  == {r \in Messages : \E k \in DOMAIN stream : stream[k] = r}
InHand   == {r \in Messages : \E k \in DOMAIN Held : Held[k] = r}

Events  == [kind : {"idle", "message", "eof", "fault"}, nonEmpty : BOOLEAN, off : Nat]
Records == [docs : Seq(Nat), fate : Fates]

Types ==
  /\ pc \in Running \cup Exited
  /\ bootstrap \in BOOLEAN
  /\ data_available \in BOOLEAN
  /\ consumer \in BOOLEAN
  /\ producer \in BOOLEAN
  /\ msg \in Events
  /\ stream \in Seq(Nat)
  /\ eof_cnt \in Nat
  /\ msg_recv_count \in Nat
  /\ msg_send_count \in Nat
  /\ input \in Seq(Payloads)
  /\ topicReady \in BOOLEAN
  /\ position \in 0..Len(input)
  /\ eofAt \in Nat
  /\ sent \in Seq(Records)
  /\ trouble \in Nat
  /\ signals \in Nat
  /\ refused \subseteq Nat

(* The variables keep their types, and every document in the output        *)
(* stream, in the records and in those refused answers a message taken     *)
(* from the input topic: none is made for an event that is no message      *)
(* (acm.cpp:941-1030, 1885-1940).                                          *)
TypeOK ==
  /\ Types
  /\ \A k \in DOMAIN stream : stream[k] \in 1..position
  /\ \A i \in DOMAIN sent : \A k \in DOMAIN sent[i].docs : sent[i].docs[k] \in 1..position
  /\ refused \subseteq 1..position

(* Between consume() and produce() nothing vanishes: every message handed  *)
(* to the process is in hand, or its document is in the stream, in a       *)
(* record produce() accepted or in one it refused (acm.cpp:1885-1940).     *)
NothingVanishes == Answered \cup Waiting \cup InHand \cup refused = 1..position

(* Only replies to empty messages, whose msg->len() is 0, are held back    *)
(* and published in a later record: every other message is answered, as    *)
(* the last document, by the record produced in its own pass through the   *)
(* loop (acm.cpp:1919-1940).                                               *)
OnlyEmptyMessagesWait ==
  /\ \A i \in DOMAIN sent : \A k \in 1..(Len(sent[i].docs) - 1) :
       input[sent[i].docs[k]] = "empty"
  /\ \A k \in DOMAIN stream :
       \/ input[stream[k]] = "empty"
       \/ pc = "publish" /\ k = Len(stream) /\ msg.nonEmpty /\ msg.off = stream[k]

(* consume() and produce() are called through pointers that launching may  *)
(* leave null: the loop is never entered, in whatever order the launches   *)
(* failed, without both (acm.cpp:1872-1885).                               *)
ClientsReady ==
  /\ pc \in {"await", "metadata", "subscribe", "producer"} => consumer
  /\ pc \in {"inner", "consume", "process", "publish"} => consumer /\ producer

(* The counters logged at shutdown (acm.cpp:1947-1949): received counts    *)
(* the messages consumed, published the records produce() accepted,        *)
(* whatever became of those.                                               *)
CountersExact ==
  /\ msg_recv_count + Len(Held) = position
  /\ msg_send_count = Len(sent)

(* No Kafka error, end of partition or failed launch makes the process     *)
(* report success: only a signal does.                                     *)
OnlySignalEndsWell == pc = "exit_success" => signals > 0

(* The promise to the ODE (ReplyLog): replies are published in the order   *)
(* of the messages and no message is answered twice.                       *)
Promise ==
  INSTANCE ReplyLog WITH
    arrived <- Len(input),
    taken   <- position,
    open    <- stream \o Held,
    replies <- [i \in DOMAIN sent |-> sent[i].docs]

RepliesOnceInOrder == Promise!AnsweredOnceInOrder
ImplementsReplyLog == Promise!Spec

(* The process as the only member of its group, and the topic's only       *)
(* partition; a message is named by both.                                  *)
Member    == "acm"
Partition == "partition"
Named(numbers) == {Partition} \X numbers
Answers(docs)  == Named({docs[k] : k \in DOMAIN docs})

(* The records with a fate, without those that answer nothing.             *)
Fated(fate) == {i \in DOMAIN sent : sent[i].docs # <<>> /\ sent[i].fate = fate}
With(fate)  == {Answers(sent[i].docs) : i \in Fated(fate)}
Up          == pc \in Running

(* The run loop is a process of ConsumerGroup, which reduces it to what    *)
(* the other processes of the group and its restarts can see of it.  Its   *)
(* assignment counts from the creation of the consumer; its end is the     *)
(* only disruption.                                                        *)
Group ==
  INSTANCE ConsumerGroup WITH
    Processes <- {Member}, Partitions <- {Partition}, Nobody <- "nobody",
    MaxDisruptions <- 1, MaxRebalances <- 0,
    log         <- [p \in {Partition} |-> Len(input)],
    committed   <- [p \in {Partition} |-> 0],
    owner       <- [p \in {Partition} |-> IF consumer THEN Member ELSE "nobody"],
    running     <- IF Up THEN {Member} ELSE {},
    assigned    <- [c \in {Member} |-> IF Up /\ consumer THEN {Partition} ELSE {}],
    position    <- [c \in {Member} |-> [p \in {Partition} |-> position]],
    hand        <- [c \in {Member} |-> Answers(Held)],
    held        <- [c \in {Member} |-> IF Up THEN Answers(stream) ELSE {}],
    queue       <- [c \in {Member} |-> With("queued")],
    delivered   <- UNION With("delivered"),
    lost        <- (UNION With("lost")) \cup Named(refused)
                     \cup IF Up THEN {} ELSE Answers(stream),
    taken       <- [m \in Named(1..MaxMessages) |-> IF m[2] <= position THEN 1 ELSE 0],
    disruptions <- IF Up THEN 0 ELSE 1,
    rebalances  <- 0

ImplementsGroup == Group!Spec

(* A stop that is requested while the flag is not just being reset ends    *)
(* the process, from wherever the main thread is: waiting for the topic,   *)
(* launching, consuming.                                                   *)
StopHonoured ==
  (~bootstrap /\ ~data_available /\ pc # "reset") ~> pc \in Exited

(* A message in the topic is eventually taken unless the process was asked *)
(* to stop or failed on the metadata, through relaunches and the waits     *)
(* between them.                                                           *)
EveryMessageTaken ==
  \A n \in 1..MaxMessages :
    Len(input) >= n ~> (position >= n \/ ~bootstrap \/ pc \in Exited)

(* What comments and documents say, and the code does not do.              *)

(* acm.hpp:254 calls data_available "flag to exit application; set via     *)
(* signals": a signal ends the application.                                *)
SignalEndsApplication == signals > 0 ~> pc \in Exited

(* configuration.md:40: -x exits when the last message of the partition    *)
(* has been received.                                                      *)
ExitsAtEof == eof_cnt >= partition_cnt ~> pc \in Exited

(* interface.md:27: the ACM keeps no state with regard to a particular     *)
(* message, so a record answers one message.                               *)
OneReplyPerRecord == \A i \in DOMAIN sent : Len(sent[i].docs) <= 1
=============================================================================
