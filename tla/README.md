# asn1_codec: a TLA+ verification project

The ACM (ASN.1 codec module) of the ODE takes XML documents from one Kafka
topic, encodes or decodes the ASN.1 in them, and publishes the answers to
another topic; the same codec also works on a file or behind an HTTP server.
This directory specifies that program from its source (`src/src/acm.cpp` unless
a path is given), checks the specifications with TLC on small instances and
proves what matters most with TLAPS for all of them.

## 1. Inventory

| Component | State | Operations | Interacts with | Module |
|---|---|---|---|---|
| **Run loop** `operator()`, `launch_consumer`, `topic_available`, `launch_producer`, signal handler | static flags `bootstrap`, `data_available`; `consumer_ptr`, `producer_ptr`, `published_topic_ptr`; `output_msg_stream`; counters | launch, wait for topic, consume, process, publish, shut down | Kafka (calls), signal handler (shared flags), codec (call) | `CodecService`, `ReplyLog` |
| **Message codec** `process_message`, `set_codec_requirements`, `encode_message`, `decode_message`, `add_error_xml` | registers `opsflag`, `decode_*`, `decode_*_type`, `protocol_`, `hex_data_`; documents `input_doc`, `error_doc` | one message to one document, or an exception caught by the run loop | pugixml, asn1c, hex conversion, output buffer | `MessageCodec` |
| **File mode** `file_test`, `filetest` | as the codec | one file through the codec | codec, `main()` | `MessageCodec`, `Startup` |
| **Output buffer** `dynamic_buffer_append` | `buffer`, `buffer_size`, `allocated_size` | append a chunk | callback of the asn1c encoders | `DynamicBuffer` |
| **Hex conversion** `hex_to_bytes_`, `bytes_to_hex_` | locals | text to bytes, bytes to text | codec | `HexCodec` |
| **Consumer group and supervision** (`src/supervisord.conf`, `src/run_acm.sh`) | committed offsets, owners of partitions, processes | commit, rebalance, evict, crash, restart | Kafka, supervisord, run loop | `ConsumerGroup` |
| **HTTP server** `src/src/http_server.cpp`, `decode_messageframe_data` | one shared `ASN1_Codec`, locals of each request | `post_single`, `post_batch` on several threads | crow, codec | `HttpServer` |
| **Configuration** `main`, `configure`, `src/src/tool.cpp` | options, operands, `conf`, `tconf`, `pconf`, members | parse, dispatch, choose between the sources of a setting | run loop, file mode, HTTP server | `Startup` |
| BLOB producer, logger, utilities, Kafka test tool, generated ASN.1 code, vendored libraries | | | | section 7 |

What is hard in it, and what each component must get right:

* **Run loop.** A signal arrives between any two statements; every Kafka call
  can fail and starts the launch over; `consume()` returns messages, silence,
  the end of a partition and errors in any order; the output stream outlives a
  pass of the loop. Correct means: no message is lost between `consume()` and
  `produce()`, replies are in order and none is repeated, the clients exist
  when they are used, the counters tell the truth, a stop ends the process and
  nothing else makes it report success.
* **Message codec.** Its registers outlive messages and exceptions leave it in
  the middle of a document. Correct means that an answer depends on its message
  alone, that there is exactly one, that it is complete or an error, that an
  error carries none of the data, that the exit status of file mode agrees with
  it, and that what is allocated on the way is freed.
* **Output buffer.** Growth by doubling with arithmetic modulo the word size,
  moves, failing allocations. Correct means no write outside the allocation,
  no byte lost, and termination of the doubling.
* **Hex conversion.** Ranges of signed characters, odd lengths, halves of
  signed bytes. Correct means that one codec reads what another wrote.
* **Consumer group.** The code never commits: librdkafka commits what
  `consume()` returned, while the answer is still in the process. Correct means
  that the group skips nothing, goes back never, repeats only after a
  disruption, and that what is lost can be named.
* **HTTP server.** Threads share a codec; a line of a batch fails in the middle
  of variables that live outside the loop. Correct means that a response is a
  function of its request.
* **Configuration.** Some forty assignments in an order that decides which
  source wins, eleven ways to fail. Correct means the documented precedence and
  the same verdict from every mode.

`PROJECT.json` lists the hazards one by one with the line where each bites and
the properties that would catch it.

## 2. Modules

| Module | What it is |
|---|---|
| `ReplyLog` | abstract: messages arrive, are taken one by one, and what has been taken is published in one record or discarded |
| `CodecService` | the run loop, its signal handler and the part of Kafka it talks to; implements `ReplyLog` and, seen as one process, `ConsumerGroup` |
| `MessageCodec` | one message or file after another through `process_message()` and the catch clauses |
| `EncodeDecode` | what a decoder makes of the answers of an encoder: two instances of `MessageCodec` |
| `HexCodec` | the two hex conversions, loop by loop |
| `DynamicBuffer` | the callback that grows the encoders' buffer |
| `ConsumerGroup` | several run loops, seen from outside, in one consumer group under supervisord |
| `HttpServer` | the request handlers on several threads over one codec |
| `Startup` | from the command line to the first message, or to the exit status |
| `MCMessageCodec`, `MCHexCodec`, `MCDynamicBuffer`, `MCHttpServer`, `MCStartup` | input sets for TLC |
| `ReplyLogProofs`, `CodecServiceProofs`, `MessageCodecProofs`, `HexCodecProofs`, `DynamicBufferProofs`, `ConsumerGroupProofs`, `HttpServerProofs`, `StartupProofs` | theorems |

How they compose: `Startup` ends where `CodecService` begins (`consuming`),
where file mode enters `MessageCodec` (`file`) or where `HttpServer` begins
(`serving`). `CodecService` calls `MessageCodec` once per message; what it
relies on, that a message handled leaves exactly one document, is
`AnswerDependsOnMessageAlone`. `ConsumerGroup` is made of processes that do what
`CodecService` does: `ImplementsGroup` is the refinement of a group of one
process on one partition, which maps the message being processed to `hand`, the
entries of `output_msg_stream` to `held`, the records accepted and not yet
delivered to `queue`, and what failed to the fates it failed by.

The definitions named `Mutant` in comments are wrong versions of the definition
that follows them (a dropped reset, a forgotten test). They take no part in any
specification; `PROJECT.json` says which property catches which.

### CodecService

`pc` names the place of the main thread; it stops wherever a signal can change
what the next test of a flag sees:

| `pc` | Place in the code |
|---|---|
| `boot` | `while (bootstrap)`, 1868 |
| `reset` | before `data_available = true`, 1870 |
| `create` | `launch_consumer()`: create the consumer, 609-615 |
| `await`, `metadata` | the wait for the topic, 620-632, and the metadata request in `topic_available()`, 287-324 |
| `subscribe`, `producer` | 634-641 and `launch_producer()`, 585-602 |
| `inner` | `while (data_available)`, 1885 |
| `consume`, `process`, `publish` | 1887; `process_message()` with the catch clauses, 929-1034 and 1889-1917; 1919-1940 |
| `exit_success`, `exit_failure` | `operator()` returned to `main()`; `std::exit()` in `topic_available()` |

The variables of the process have the names of the code (`consumer` and
`producer` say whether the pointers are usable, `stream` is
`output_msg_stream`). A payload is "text" or "empty" and a document is the
number of the message it answers: by `MessageCodec`, handling a message saves
one document whatever it holds. External actions are the ODE that appends
messages, the broker that creates the topic, librdkafka's delivery of accepted
records, and the signal. `signals` and `refused` are history.

Two facts of the outside are assumptions of the model. `consume()` returns the
messages of the partition in order, each once; a second process of the group or
a restart changes that, and is what `ConsumerGroup` is about. And the length of
an error event's text is not known: both an empty and a non-empty one are
possible.

### MessageCodec

A payload is a nest of layers (advisory, IEEE 1609.2, MessageFrame), its
encoding the sequence of layers, outermost first, each with the rule that
encoded it. asn1c is reduced to whether it accepts a layer, pugixml to the
presence of nodes; that the XML `xer_encode()` writes can be parsed again is
assumed. The stages follow the calls: `requirements` and `entry` are
`set_codec_requirements()`, `encode` and `layer` are `encode_message()` and
`encode_for_protocol()`, `decode`, `dot2`, `unsecured`, `frame` and `insert` are
`decode_message()`, `template` and `input` the catch clauses that answer with
`error_doc` and `input_doc`. `file` tells whether messages are Kafka records or
files given to `file_test()`, which switches between encoding and decoding
itself and returns a status (`r`). Two kinds of file get no document: one that
`fopen()` fails on is a failure and leaves the object as it was, the mode included
(`FileTestUnopened`), an empty one is a success (`FileTestEmpty`). `heap`
counts the structures and buffers allocated for the message: where an exception
is thrown out of asn1c, the model lets either nothing or one block remain.
`Expected` is the reference: the document computed from the message alone.
Where the code reads the name of a node after it destroyed it (1145-1152), the
model lets the name be the right one or any of `FreedNames`.

`EncodeDecode` gives the last hex string of an encoder's answer back, as the bytes
of a message that is otherwise the same (`Returned`), to a decoder (`Decoder`, a
second instance of `MessageCodec`). `encode_message()` and `decode_message()` share
no code that says which layers there are, in which order and by which rule; whether
they agree is what the module is about.

### HexCodec and DynamicBuffer

`HexCodec` runs the loops one character or byte at a time; a byte is a number,
`|=` is computed bit by bit on its low half. The text that is decoded is the
ODE's or the one the other conversion just made. `DynamicBuffer` splits a call
in the loop that grows the buffer and the copy; sizes are taken modulo `WORD`,
`malloc()` may fail and never returns more than `MaxObject`, which is less than
half of the address space.

### ConsumerGroup

A process has the partitions it believes to be its own (`assigned`), the
position `consume()` got to in each, and the messages it holds: in
`process_message()` (`hand`), answered in `output_msg_stream` (`held`) or in the
producer's queue (`queue`, a set of records: a record holds the answers of
several messages, if the earlier ones were held back, and is delivered or lost
as a whole). The coordinator has the committed offset and the
owner of each partition; the two views differ between an eviction and the moment
the process notices. No configuration in the repository turns automatic commits
off and the code calls neither `commitSync()` nor `close()` nor `flush()`, so
what is committed is what `consume()` returned, at any moment (`AutoCommit`) and
when a partition is revoked. A process that ends, by a crash or by
`std::exit()`, drops everything it holds; `Relaunch` replaces the producer
together with its queue. The group, its commits and the delivery of records are
librdkafka and Kafka: they are modelled from how the code uses them and marked
external in the map.

### HttpServer

Each thread runs one handler: `getline` is the head of the loop over the lines of
a batch, `json` the fields of a line, `decode`, `check`, `encode` and `copy` are
`decode_messageframe_data()`. A line is reduced to what it fails on; what it says
is its number, so that `timestamp`, `message_type` and `hex_line`, which live
outside the loop, hold the number of the line they were last read from. The XER
text is written in two chunks: threads that shared the buffer would mix them. A
single request that throws is answered by crow with status 500.

### Startup

`args` is the loop of `Tool::parseArgs()`, `open` to `timeout` are
`configure()` from the file to its last setting, `configured` and `file` the rest
of `main()`. A line of the configuration file is the sequence of its stripped
pieces. librdkafka is the two sets of properties it accepts; it knows one
property by two names. The reference reads arguments, lines and the environment
as a whole: `Specified` the settings, `Configurable` the verdict, `Outcome` the
end of the process. The log options are reduced to whether `setup_logger()`
succeeds, and the credentials that go with the cloud broker are left out.

## 3. Runs

| Run | Question | Bounds and why they are enough |
|---|---|---|
| `service` | safety of the run loop, and refinement of `ReplyLog` and of `ConsumerGroup` | 2 messages (a held-back document and the record that takes it along), 1 signal at any point, 1 failing Kafka call or error event at any point, `-x` and end-of-partition events on. A failure leaves no trace but the state it leads to, and all of those are reached with one |
| `service_live` | a stop ends the process, a message is taken | 1 message, 1 signal, 2 failures, so that a relaunch can fail too |
| `messages` | an answer depends on its message alone, is complete or a clean error, agrees with the status, leaks a block at most, and can be decoded again | every ordered pair of messages from sets with all lists of one or two entries, the orders of three, missing rules, unknown types, invalid rules, missing nodes, rejected layers, files that are empty or cannot be opened, as records of an encoder, of a decoder, or as files in any mixture of directions; a register that leaks does so to the next message. 1.7 million states |
| `group` | what the group commits, repeats and loses | 2 processes and 1 partition (an exchange needs no more), 2 messages, 2 ends or evictions, so that the process that takes over can end or be evicted too, and 1 revocation. 420 000 states |
| `http` | a response is a function of its request | 2 threads, 3 requests (the third meets what two left behind), batches of up to three lines that fail at every place. 280 000 states |
| `startup` | the settings and the end of a start | every command line of a configuration file and up to two more arguments out of 22, over six files that give a setting twice, leave one out, misspell one or use both names of a property, and four environments. 130 000 states |
| `hex` | digits, refusals and the round trip | all 256 characters and bytes, pairs and triples of those at the edges of the ranges |
| `buffer` | room, content, termination of the doubling | first size 2 (4 after doubling), objects up to 16, chunks of 0, 1, 2, 3 and 9 bytes: fits exactly, lacks the terminator, needs two doublings, exceeds the limit |

Violation runs, each showing where a document or comment says more than the
code does (quoted under "findings" in `PROJECT.json`):

| Run | What TLC shows |
|---|---|
| `signal_lost` | boot, signal, reset: `data_available` is true again, the consume loop does not test `bootstrap`, and the process goes on for ever |
| `exit_eof` | with `-x` the end of the partition leads to a relaunch instead of the exit |
| `residue` | the error document of an empty message is published in the next message's record |
| `outer_only` | decoding with `Ieee1609Dot2Data` alone drops the bytes and answers without error and without XML |

More disagreements seen while reading, which need no run:

* `encode_message()` derives the order of the layers from their set (1196-1236),
  innermost first, whatever the order of `<encodings>`, which
  `docs/interface.md:48` says is the order of processing.
* An error event with a text that is not empty makes the loop publish an empty
  record (1919): in `CodecService`, `PublishRecord` with an empty stream.
* `msg_send_count` is the number of records queued, not of those delivered
  (1930; `src/include/acm.hpp:273`): a record counted can be lost with the
  producer's queue.
* The offset option `-o` (`docs/configuration.md:35`) is parsed and never read;
  `-p`, described as the partition to read from (line 33), is the one produced to.

`CHECK_DEADLOCK FALSE` stands in the configurations of systems that stop: the
process exits, the bounded number of messages or requests is used up, a failed
append ends the encoding, every process of the group may be idle.

### Fairness

* `CodecService`: weak fairness of the main thread as a whole (it is never
  blocked for ever: every Kafka call has a timeout and the waits are sleeps) and
  strong fairness of `ConsumeMessage`: `consume()` may time out any number of
  times, but a broker that holds a message delivers it if it is asked again and
  again. Nothing is assumed of the environment: no topic, no message and no
  signal has to come. `MaxTrouble` makes failures finitely many; if every launch
  failed for ever, nothing would be taken. `EveryMessageTaken` excludes
  behaviours in which the process was asked to stop or exited on a metadata
  error.
* `ConsumerGroup`: supervisord starts a process that is not running
  (`autorestart=true`; that a restart succeeds within `startretries` is
  assumed), sessions expire, free partitions are assigned, the commit timer
  fires, an evicted process notices, and a process finishes the message in its
  hand, in one way or another: all weak. `Consume` is strongly fair, because a
  partition may come and go. Nothing is assumed of `Deliver`: committed does not
  mean delivered.
* `HttpServer`: each thread that handles a request is scheduled again and again.
* `Startup`: one thread, which waits for nobody.
* `DynamicBuffer`: a call in progress continues; `malloc()` fails only above its
  limit.

## 4. Properties

`CodecService`: `TypeOK` says, besides the types, that every document in the output
stream, in the records sent and among the refused answers a message already taken;
`NothingVanishes` accounts for every message taken;
`OnlyEmptyMessagesWait` says exactly which replies are held back;
`ClientsReady` guards the pointers through all orders of failing launches;
`CountersExact` relates the counters to what was consumed and accepted;
`OnlySignalEndsWell`; `RepliesOnceInOrder` and `ImplementsReplyLog` are the
promise to the ODE; `ImplementsGroup` says that `ConsumerGroup` is about this
loop; `StopHonoured` and `EveryMessageTaken` the liveness. Note
the exception in `StopHonoured` (not while the flag is about to be reset): it is
what `signal_lost` is about.

`MessageCodec`: `AnswerDependsOnMessageAlone` compares every answer with the
reference, after every other message; `ErrorsCarryNoBytes`; `EncodesAllLayers`;
`LeaksAtMostOneBlock` bounds what a message leaves allocated and says that only
errors leave anything; `StatusTellsAnswer` says that the exit status of file mode
is a failure exactly when the file could not be opened or its document is an error;
`DecoderReadsAnswer` says that what the encoder answers without an error the
decoder, asked the same, reads to the end and gives its XML.

`ConsumerGroup`: `NothingSkipped`, `TakenAccounted`, `RedeliveryNeedsDisruption`,
`CommitsAdvance` and, under fairness, `EveryMessageCommitted`. Together they say
what the ODE gets: each message is taken at least once and committed; it can be
answered twice only after a crash or an eviction; and it can stay unanswered only
through the failures `lost` names. Not promised, and not true, is that what is
committed was answered: `AutoCommit` runs while the answer is in the process.

`HttpServer`: `TypeOK`, which also says that each record of a response holds the
whole text one of its lines deserves, also while the response is being written;
`ResponseOfRequestAlone`, `LeaksOnlyFailures`,
`EveryRequestAnswered`. `Startup`: `SettingsAsSpecified`, `EndsAsSpecified`,
`EveryStartDecides`. `HexCodec`: `DecodesDigits`, `RefusesOnlyOthers`,
`RoundTrip`. `DynamicBuffer`: `RoomForChunk`, `HoldsText`, `CallsReturn`.

## 5. What is proved

For every value of the constants, from the assumptions on them named in the
modules:

* `CodecServiceProofs`: `TypeCorrect`, `ClientsAlwaysReady`,
  `CountersAlwaysExact`, `SuccessNeedsSignal`, `NoneVanishes`,
  `OnlyEmptyOnesWait`, `Refinement`, `OnceInOrder`, `GroupMember`,
  `StopLeadsOut`, `StopEnds`, `FairStopEnds` and `NextTaken` (the last four are
  explained under Progress).
  The inductive invariant adds to these properties the control facts they need
  (a stop flag implies a signal, a message in hand has the number `position`).
  `OnceInOrder` is not proved on the run loop: `ReplyLogProofs` proves
  `RepliesInOrder` once for the abstract log, with an invariant that orders the
  open messages after the published ones, and the refinement carries it over.
  `NoneVanishes` rests on `Accounted`: a message number taken is answered,
  waiting, in hand or refused, and no other number is; what `TypeCorrect` says of
  the documents follows from it too. `OnlyEmptyOnesWait` rests
  on `EmptyWait`: the entries of the stream other than the one just answered are
  empty messages, since a message in hand without text is an empty one and
  later arrivals change no earlier message.
  `GroupMember` shows the run loop to be a process of `ConsumerGroup`: each step
  that moves a message is one action of the group under the mapping, every other
  step changes nothing the group sees (`GroupStep`, `UnseenStep`). It needs
  `Seated` (no position before the first consumer, which makes its creation the
  group's `Assign`) and `OnceInOrder`: two records with the same answers would be
  one to the group.
* `MessageCodecProofs`: `TypeCorrect`, `ErrorsClean`, `LeaksBounded`,
  `StatusCorrect`, `AnswersRight`, `EncodesWhole` and `DecoderReadsEncoder`,
  for any series of messages
  with any encodings and nests of any form. The invariant has three parts.
  `Sound` ties the stage to the registers and the number of blocks (`heap` is
  nonzero only between the allocation and the free of the path taken). `Clean`
  says that a document in the making has no error code, that what was encoded of
  it is gone wherever an error can still be raised, and that the template never
  takes over anything of a message. `Faithful` says, stage by stage, that the
  registers and the document are what the message alone determines: the loop over
  the encodings has computed `RuleAt` up to its index (`Reading`), the layers
  encoded so far are the suffixes of `Nest(Asked)` and the document the prefix
  that is left of the tree (`Layering`), the string to decode is the rest of the
  bytes after the layers accepted (`Decoding`); `Ready` is why nothing older can
  be seen, since it holds from `set_codec_requirements()` on whatever the
  registers held before. Each CHOOSE and CASE of the reference is reduced to the
  facts the steps establish by the lemmas `RuleSteps`, `RuleOfLast`,
  `EncodedCases` and `DecodedCases`; `EncodesWhole` follows from `Faithful` and
  the form of `Nest`. `DecoderReadsEncoder` puts the two directions together: the
  last hex string an encoder answered with, given back as the bytes of a message
  with the same encodings, is decoded to the end and answered with its XML. The
  decoder is the `Decoder` of `EncodeDecode`; both read the rules of the same list (`ReferenceOfList`,
  `DecoderOfList`). The theorem needs a MessageFrame and no advisory among the
  encodings: `decode_message()` has no step that unpacks an advisory, so with one
  the encoder's answer is nothing the decoder reads back (`acm.cpp:1257-1571`).
* `HexCodecProofs`: `TypeCorrect`, `DecodingExact`, `RefusalsJustified`,
  `RoundTripExact`, for texts and buffers of any length. The invariant says what
  the part of the text read so far has become (`Read`), what of the buffer has
  been written (`Wrote`), and that the text of a buffer passes through the
  removal of white space unchanged.
* `DynamicBufferProofs`: `TypeCorrect`, `NoOverrun`, `NothingLost`, for any word
  size and any chunks. The assumption `2 * MaxObject < WORD` is what keeps
  `buffer_size + size + 1` from wrapping; without it the test could pass
  wrongly.
* `ConsumerGroupProofs`: `TypeCorrect`, `NeverSkips`, `CommitsOnlyAdvance`,
  `AlwaysAccounted`, `CommittedAnswered`, `RedeliveryBounded`, for any number of
  processes, partitions and disruptions. `IInv` says that the owner of a partition is never
  behind what is committed (`OwnerAhead`) and that everything before a position
  was taken (`PositionsSeen`); the first is what makes a commit an advance, and
  it is the coordinator's refusal of an evicted member's commit that keeps it.
  `RedeliveryBounded` counts sessions: each member that may still take a message
  again, because it works on an old assignment, was evicted once.
  `CommittedAnswered` joins `NeverSkips` and `AlwaysAccounted`: what the group
  committed is delivered, in the hands of a process or lost to a named failure,
  and when no process has anything in hand only the first and the last are left.
* `HttpServerProofs`: `TypeCorrect`, `ResponsesIndependent`, `LeaksBounded`,
  `LinesServed` and `SinglesAnswered`, for
  any number of threads and lines. `Progress` says for one thread what the lines
  read so far have become; `OthersStayOut` that a step of another thread changes
  none of it; that the records hold whole texts, also those not yet sent, follows
  from the two (`WholeTexts`); with it `LinesServed` and `SinglesAnswered` (under Progress) follow
  one thread alone.
* `StartupProofs`: `TypeCorrect`, `SettingsCorrect`, `EndsCorrect`, for every
  command line, file and environment. `Agreement` says, place by place, that the
  options are those of the arguments read, the settings those of the lines read,
  the members the part of `Specified` already reached, and that no check passed so far was
  one that `Configurable` fails.

### Progress

Five theorems state the measure that a liveness property rests on, as an action
property and for every value of the constants:

| Theorem | What never goes back |
|---|---|
| `StopLeadsOut` | the steps from a stop that was seen to the end of the process: at most five, one fewer with each step of the main thread, left alone by the environment |
| `AnswersGetOn` | the steps from a message to its answer: at most eight and one for each encoding, `Unread` entries and layers included |
| `RequestsGetOn` | the place of a thread in its request, which no other thread moves |
| `StartGetsOn` | the place of a start, and within it the argument or line it is at |
| `GrowthStops` | the size of the buffer, bounded by `MaxObject` and by twice the room needed |

From such a measure to liveness there are two more things: that the process takes
a step at all, which fairness gives, and that there is one to take (ENABLED, which
no installed prover handles). Where the measure is bounded by a constant the
liveness itself is proved, from the recurrence that fairness gives:

| Theorem | What eventually happens | Taken for granted |
|---|---|---|
| `StopEnds` | `StopHonoured` | `MainGoesOn`: the main thread takes step after step until the process has ended |
| `NextTaken` | the message after position k is taken, for every k, unless the process is to stop or has ended | `MainGoesOn`; `Fetches`: a consume() that finds a message again and again returns one; `Calm`: from some moment on no Kafka call fails |
| `ReadIsAnswered` | a message whose requirements are read is answered | `KeepsWorking`: the codec takes step after step while it has a message |
| `EntriesRead` | the k-th encoding is followed by the next or by the answer, for every k | `KeepsWorking` |
| `LinesServed` | the k-th line of a thread's request is done with, for every k | `KeepsGoing(t)`: a thread that has a request is scheduled again and again |
| `SinglesAnswered` | a request of a single message is answered | `KeepsGoing(t)` |

The lemmas `FairnessGives`, `FairnessKeepsWorking` and `FairnessKeepsGoing` derive
these hypotheses from WF and SF as the fair specifications state them (for the
codec from WF of `Next`, its single thread that nothing blocks), with one formula
each about ENABLED as what is left: that the action is enabled wherever
its guard holds. No run states it, and it can be read off the modules: at each
place the guards of the actions cover every case.
`FairStopEnds` is `StopEnds` stated for `FairSpec` in this way. `Calm` is
what the bound `MaxTrouble` on the failures makes of every behaviour; it is a
hypothesis because it, too, needs an induction.

The properties over a measure with no constant bound - all messages of a topic,
all lines of a batch, all arguments and lines of a start, all growth steps - need
an induction over temporal formulas, which the provers cannot do. For them the
theorems above are the induction steps, and the runs check the whole on small
instances.

### Only model-checked

* `EveryMessageTaken`, `EveryMessageCommitted`, `EveryRequestAnswered`,
  `EveryStartDecides` and `CallsReturn`, which are inductions over temporal
  formulas. `NextTaken`, `LinesServed` and the measures in the first table are
  their steps, but for `EveryMessageCommitted`: of the group only the safety
  half is proved (`NeverSkips`, `CommittedAnswered`).

Every other invariant, action property and refinement of a passing run is also
proved, and `StopHonoured` is proved up to ENABLED: a run checks it, with all its
hypotheses discharged by TLC, on the constants of the liveness run.

## 6. What is left

* The refinement is of a group of one process. That several run loops together
  are a group of several, with the coordinator between them, is not stated: it
  would need their product, which is beyond what TLC explores here.
* With a prover for ENABLED the hypotheses of `FairStopEnds` and of the three
  lemmas on fairness could be discharged; with induction over temporal formulas
  `NextTaken` would give `EveryMessageTaken` and `LinesServed` would give
  `EveryRequestAnswered`.

## 7. Not modelled

* The BLOB producer: its target is commented out of the build
  (`src/src/CMakeLists.txt:47,117`) and its source names `std::err`, so there is
  no program to be faithful to.
* The logger (pure output; that it may fail to start is an input of `Startup`),
  the string utilities (stateless; `Startup` takes a line as the pieces they
  return), the Kafka example tool and the test program (read as documentation).
* The C code asn1c generates and the vendored libraries under `src/include`
  (json, catch, crow, spdlog, rapidjson), which are most of the lines of the
  repository: the models contain what the ACM's own code asks of them.
* Timing (the 500 ms timeout, the 1.5 s pauses) is reduced to "any number of
  times". The contents of error messages and time stamps are left out.
