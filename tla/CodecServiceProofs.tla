------------------------- MODULE CodecServiceProofs -------------------------
(***************************************************************************)
(* Theorems of CodecService for every value of its constants: the type     *)
(* invariant, the state the main loop may rely on, the counters, where     *)
(* every message taken is, the promise of ReplyLog, by refinement, that a  *)
(* stop ends the process and that the next message is taken.               *)
(***************************************************************************)
EXTENDS CodecService, TLAPS

(* The message in hand is the last one taken; the flag that ends the       *)
(* process well is cleared by a signal only.                               *)
Control ==
  /\ pc = "process" /\ msg.kind = "message" => msg.off = position /\ position > 0
  /\ ~bootstrap => signals > 0

IInv == Types /\ Control /\ ClientsReady /\ CountersExact /\ OnlySignalEndsWell

-----------------------------------------------------------------------------
(* What Abandon and Append do to the records. *)

(* Losing the queued records changes their fate and nothing else.          *)
LEMMA AbandonKeepsDocs ==
  ASSUME NEW r \in Seq(Records)
  PROVE  /\ Abandon(r) \in Seq(Records)
         /\ Len(Abandon(r)) = Len(r)
         /\ \A i \in DOMAIN r : Abandon(r)[i].docs = r[i].docs
<1>1. \A i \in DOMAIN r : r[i] \in Records
  OBVIOUS
<1>2. \A i \in DOMAIN r : Abandon(r)[i] \in Records /\ Abandon(r)[i].docs = r[i].docs
  BY <1>1 DEF Abandon, Records, Fates
<1>3. DOMAIN Abandon(r) = 1..Len(r) /\ Len(r) \in Nat
  BY DEF Abandon
<1>4. Abandon(r) \in [1..Len(r) -> Records]
  BY <1>2, <1>3 DEF Abandon
<1> QED
  BY <1>2, <1>3, <1>4

(* Settling a record changes its fate and nothing else.                    *)
LEMMA SettleKeepsDocs ==
  ASSUME NEW r \in Seq(Records), NEW i \in DOMAIN r, NEW f \in Fates
  PROVE  /\ [r EXCEPT ![i].fate = f] \in Seq(Records)
         /\ Len([r EXCEPT ![i].fate = f]) = Len(r)
         /\ \A k \in DOMAIN r : [r EXCEPT ![i].fate = f][k].docs = r[k].docs
<1> DEFINE s == [r EXCEPT ![i].fate = f]
<1>1. DOMAIN s = 1..Len(r) /\ Len(r) \in Nat
  OBVIOUS
<1>2. \A k \in DOMAIN r : r[k] \in Records
  OBVIOUS
<1>3. \A k \in DOMAIN r : s[k] \in Records /\ s[k].docs = r[k].docs
  BY <1>2 DEF Records
<1>4. s \in [1..Len(r) -> Records]
  BY <1>1, <1>3
<1> QED
  BY <1>1, <1>3, <1>4

-----------------------------------------------------------------------------
(* The initial state satisfies the invariant.                              *)
LEMMA InitIInv == Init => IInv
<1> SUFFICES ASSUME Init PROVE IInv
  OBVIOUS
<1>1. msg \in Events /\ msg.kind = "idle"
  BY DEF Init, Events, Idle, Event
<1>2. stream = <<>> /\ stream \in Seq(Nat) /\ input \in Seq(Payloads) /\ Len(input) = 0
  BY DEF Init
<1>3. sent \in Seq(Records) /\ Len(sent) = 0
  BY DEF Init
<1>4. Types
  <2>1. /\ bootstrap \in BOOLEAN /\ data_available \in BOOLEAN
        /\ consumer \in BOOLEAN /\ producer \in BOOLEAN /\ topicReady \in BOOLEAN
    BY Zenon DEF Init
  <2> QED
    BY <1>1, <1>2, <1>3, <2>1 DEF Init, Types, Running, Exited
<1>5. CountersExact
  BY <1>1, <1>3 DEF Init, CountersExact, Held
<1>6. Control /\ ClientsReady /\ OnlySignalEndsWell
  BY <1>1 DEF Init, Control, ClientsReady, OnlySignalEndsWell
<1> QED
  BY <1>4, <1>5, <1>6 DEF IInv

(* A step either leaves the documents of every record alone or publishes   *)
(* one more record.                                                        *)
SameDocs ==
  /\ Len(sent') = Len(sent)
  /\ \A i \in DOMAIN sent : sent'[i].docs = sent[i].docs

LEMMA SentSteps ==
  Types /\ [Next]_vars => sent' \in Seq(Records) /\ (SameDocs \/ PublishRecord)
<1> SUFFICES ASSUME Types, [Next]_vars
             PROVE  sent' \in Seq(Records) /\ (SameDocs \/ PublishRecord)
  OBVIOUS
<1>1. sent \in Seq(Records) /\ stream \in Seq(Nat)
  BY DEF Types
<1>2. CASE sent' = sent
  BY <1>1, <1>2 DEF SameDocs
<1>3. CASE sent' = Abandon(sent)
  BY <1>1, <1>3, AbandonKeepsDocs DEF SameDocs
<1>4. CASE \E fate \in Fates : Settle(fate)
  <2>1. PICK fate \in Fates : Settle(fate)
    BY <1>4
  <2>2. PICK i \in DOMAIN sent : sent' = [sent EXCEPT ![i].fate = fate]
    BY <2>1 DEF Settle
  <2> QED
    BY <1>1, <2>2, SettleKeepsDocs DEF SameDocs
<1>5. CASE PublishRecord
  <2>1. [docs |-> stream, fate |-> "queued"] \in Records
    BY <1>1 DEF Records, Fates
  <2> QED
    BY <1>1, <1>5, <2>1 DEF PublishRecord
<1>6. \/ sent' = sent
      \/ sent' = Abandon(sent)
      \/ \E fate \in Fates : Settle(fate)
      \/ PublishRecord
  <2> USE DEF kafka
  <2>1. CASE Launch
    BY <2>1 DEF Launch, EnterBootstrap, Shutdown, ResetFlag, CreateConsumer,
       CreateConsumerFails, WaitTopic, WaitCancelled, TopicFound, TopicMissing,
       MetadataFails, Subscribe, SubscribeFails, LaunchProducer, LaunchProducerFails
  <2>2. CASE Loop
    BY <2>2 DEF Loop, KeepConsuming, LeaveLoop, ConsumeMessage, ConsumeNothing,
       ConsumeEof, ConsumeFault, ProcessMessage, ProcessNothing, ProcessEof,
       ProcessFault, PublishRefused, PublishNothing
  <2>3. CASE Environment
    BY <2>3 DEF Environment, Signal, MessageArrives, TopicCreated, Deliver,
       DeliveryFails, Fates
  <2>4. CASE UNCHANGED vars
    BY <2>4 DEF vars
  <2> QED
    BY <2>1, <2>2, <2>3, <2>4 DEF Next
<1> QED
  BY <1>2, <1>3, <1>4, <1>5, <1>6

(* Every step keeps the types.                                             *)
LEMMA NextTypes == IInv /\ [Next]_vars => Types'
<1> SUFFICES ASSUME IInv, [Next]_vars PROVE Types'
  OBVIOUS
<1>0. sent' \in Seq(Records)
  BY SentSteps DEF IInv
<1> USE DEF IInv, Types, service, kafka, history, flags, clients, counters,
            Goto, Trouble, Running, Exited
<1>1. CASE EnterBootstrap
  BY <1>1 DEF EnterBootstrap
<1>2. CASE Shutdown
  BY <1>0, <1>2 DEF Shutdown
<1>3. CASE ResetFlag
  BY <1>3 DEF ResetFlag
<1>4. CASE CreateConsumer
  BY <1>4 DEF CreateConsumer
<1>5. CASE CreateConsumerFails
  BY <1>5 DEF CreateConsumerFails
<1>6. CASE WaitTopic
  BY <1>6 DEF WaitTopic
<1>7. CASE WaitCancelled
  BY <1>7 DEF WaitCancelled
<1>8. CASE TopicFound
  BY <1>8 DEF TopicFound
<1>9. CASE TopicMissing
  BY <1>9 DEF TopicMissing
<1>10. CASE MetadataFails
  BY <1>0, <1>10 DEF MetadataFails
<1>11. CASE Subscribe
  BY <1>11 DEF Subscribe
<1>12. CASE SubscribeFails
  BY <1>12 DEF SubscribeFails
<1>13. CASE LaunchProducer
  BY <1>0, <1>13 DEF LaunchProducer
<1>14. CASE LaunchProducerFails
  <2>1. trouble' \in Nat
    BY <1>14 DEF LaunchProducerFails
  <2>2. producer' \in BOOLEAN
    BY <1>14, Zenon DEF LaunchProducerFails
  <2> QED
    BY <1>0, <1>14, <2>1, <2>2 DEF LaunchProducerFails
<1>15. CASE KeepConsuming
  BY <1>15 DEF KeepConsuming
<1>16. CASE LeaveLoop
  BY <1>16 DEF LeaveLoop
<1>17. CASE ConsumeMessage
  BY <1>17 DEF ConsumeMessage, Events, Event, Control
<1>18. CASE ConsumeNothing
  BY <1>18 DEF ConsumeNothing, Events, Event, Idle
<1>19. CASE ConsumeEof
  BY <1>19 DEF ConsumeEof, Events, Event
<1>20. CASE ConsumeFault
  BY <1>20 DEF ConsumeFault, Events, Event
<1>21. CASE ProcessMessage
  BY <1>21 DEF ProcessMessage, Events, Control
<1>22. CASE ProcessNothing
  BY <1>22 DEF ProcessNothing
<1>23. CASE ProcessEof
  BY <1>23 DEF ProcessEof
<1>24. CASE ProcessFault
  BY <1>24 DEF ProcessFault
<1>25. CASE PublishRecord
  BY <1>0, <1>25 DEF PublishRecord
<1>26. CASE PublishRefused
  <2>1. \A i \in DOMAIN stream : stream[i] \in Nat
    OBVIOUS
  <2>2. refused' \subseteq Nat
    BY <1>26, <2>1 DEF PublishRefused
  <2>3. stream' \in Seq(Nat)
    BY <1>26 DEF PublishRefused
  <2> QED
    BY <1>26, <2>2, <2>3 DEF PublishRefused
<1>27. CASE PublishNothing
  BY <1>27 DEF PublishNothing
<1>28. CASE Signal
  <2>1. signals' \in Nat
    BY <1>28 DEF Signal
  <2>2. bootstrap' \in BOOLEAN /\ data_available' \in BOOLEAN
    BY <1>28, Zenon DEF Signal
  <2> QED
    BY <1>28, <2>1, <2>2 DEF Signal
<1>29. CASE MessageArrives
  BY <1>29 DEF MessageArrives, Payloads
<1>30. CASE TopicCreated
  BY <1>30 DEF TopicCreated
<1>31. CASE Deliver
  BY <1>0, <1>31 DEF Deliver, Settle
<1>32. CASE DeliveryFails
  BY <1>0, <1>32 DEF DeliveryFails, Settle
<1>33. CASE UNCHANGED vars
  BY <1>33 DEF vars
<1> QED
  BY <1>1, <1>2, <1>3, <1>4, <1>5, <1>6, <1>7, <1>8, <1>9, <1>10, <1>11, <1>12, <1>13,
     <1>14, <1>15, <1>16, <1>17, <1>18, <1>19, <1>20, <1>21, <1>22, <1>23, <1>24, <1>25,
     <1>26, <1>27, <1>28, <1>29, <1>30, <1>31, <1>32, <1>33
     DEF Next, Launch, Loop, Environment

(* The message in hand stays the last one taken.                           *)
LEMMA NextControl == IInv /\ [Next]_vars => Control'
<1> SUFFICES ASSUME IInv, [Next]_vars PROVE Control'
  OBVIOUS
<1> USE DEF IInv, Control, Types, service, kafka, history, flags, clients, counters, Goto
<1>1. CASE Launch
  BY <1>1 DEF Launch, EnterBootstrap, Shutdown, ResetFlag, CreateConsumer,
       CreateConsumerFails, WaitTopic, WaitCancelled, TopicFound, TopicMissing,
       MetadataFails, Subscribe, SubscribeFails, LaunchProducer, LaunchProducerFails
<1>2. CASE Loop
  BY <1>2 DEF Loop, KeepConsuming, LeaveLoop, ConsumeMessage, ConsumeNothing,
       ConsumeEof, ConsumeFault, ProcessMessage, ProcessNothing, ProcessEof,
       ProcessFault, PublishRecord, PublishRefused, PublishNothing, Event, Idle
<1>3. CASE Environment
  BY <1>3 DEF Environment, Signal, MessageArrives, TopicCreated, Deliver,
       DeliveryFails, Settle
<1>4. CASE UNCHANGED vars
  BY <1>4 DEF vars
<1> QED
  BY <1>1, <1>2, <1>3, <1>4 DEF Next

(* The loop is never entered without both clients.                         *)
LEMMA NextClientsReady == IInv /\ [Next]_vars => ClientsReady'
<1> SUFFICES ASSUME IInv, [Next]_vars PROVE ClientsReady'
  OBVIOUS
<1> USE DEF IInv, ClientsReady, service, kafka, history, flags, clients, counters, Goto
<1>1. CASE Launch
  <2>1. CASE EnterBootstrap
    BY <2>1 DEF EnterBootstrap
  <2>2. CASE Shutdown
    BY <2>2 DEF Shutdown
  <2>3. CASE ResetFlag
    BY <2>3 DEF ResetFlag
  <2>4. CASE CreateConsumer
    BY <2>4 DEF CreateConsumer
  <2>5. CASE CreateConsumerFails
    BY <2>5 DEF CreateConsumerFails
  <2>6. CASE WaitTopic
    BY <2>6 DEF WaitTopic
  <2>7. CASE WaitCancelled
    BY <2>7 DEF WaitCancelled
  <2>8. CASE TopicFound
    BY <2>8 DEF TopicFound
  <2>9. CASE TopicMissing
    BY <2>9 DEF TopicMissing
  <2>10. CASE MetadataFails
    BY <2>10 DEF MetadataFails
  <2>11. CASE Subscribe
    BY <2>11 DEF Subscribe
  <2>12. CASE SubscribeFails
    BY <2>12 DEF SubscribeFails
  <2>13. CASE LaunchProducer
    BY <2>13 DEF LaunchProducer
  <2>14. CASE LaunchProducerFails
    BY <2>14 DEF LaunchProducerFails
  <2> QED
    BY <1>1, <2>1, <2>2, <2>3, <2>4, <2>5, <2>6, <2>7, <2>8, <2>9, <2>10, <2>11, <2>12, <2>13, <2>14
       DEF Launch
<1>2. CASE Loop
  BY <1>2 DEF Loop, KeepConsuming, LeaveLoop, ConsumeMessage, ConsumeNothing,
       ConsumeEof, ConsumeFault, ProcessMessage, ProcessNothing, ProcessEof,
       ProcessFault, PublishRecord, PublishRefused, PublishNothing
<1>3. CASE Environment
  BY <1>3 DEF Environment, Signal, MessageArrives, TopicCreated, Deliver,
       DeliveryFails, Settle
<1>4. CASE UNCHANGED vars
  BY <1>4 DEF vars
<1> QED
  BY <1>1, <1>2, <1>3, <1>4 DEF Next

(* Success is reported only after a signal.                                *)
LEMMA NextOnlySignalEndsWell == IInv /\ [Next]_vars => OnlySignalEndsWell'
<1> SUFFICES ASSUME IInv, [Next]_vars PROVE OnlySignalEndsWell'
  OBVIOUS
<1> USE DEF IInv, Control, OnlySignalEndsWell, Types, service, kafka, history, flags, clients, counters, Goto
<1>1. CASE Launch
  BY <1>1 DEF Launch, EnterBootstrap, Shutdown, ResetFlag, CreateConsumer,
       CreateConsumerFails, WaitTopic, WaitCancelled, TopicFound, TopicMissing,
       MetadataFails, Subscribe, SubscribeFails, LaunchProducer, LaunchProducerFails
<1>2. CASE Loop
  BY <1>2 DEF Loop, KeepConsuming, LeaveLoop, ConsumeMessage, ConsumeNothing,
       ConsumeEof, ConsumeFault, ProcessMessage, ProcessNothing, ProcessEof,
       ProcessFault, PublishRecord, PublishRefused, PublishNothing
<1>3. CASE Environment
  BY <1>3 DEF Environment, Signal, MessageArrives, TopicCreated, Deliver,
       DeliveryFails, Settle, Running, Exited
<1>4. CASE UNCHANGED vars
  BY <1>4 DEF vars
<1> QED
  BY <1>1, <1>2, <1>3, <1>4 DEF Next

(* A step that neither takes, processes nor publishes keeps the counters,  *)
(* the position and what is in hand.                                       *)
LEMMA CountersFrame ==
  Types /\ [Next]_vars =>
    \/ ConsumeMessage \/ ProcessMessage \/ PublishRecord
    \/ /\ UNCHANGED <<position, msg_recv_count, msg_send_count>>
       /\ Held' = Held
<1> SUFFICES ASSUME Types, [Next]_vars, ~ConsumeMessage, ~ProcessMessage, ~PublishRecord
             PROVE  UNCHANGED <<position, msg_recv_count, msg_send_count>> /\ Held' = Held
  OBVIOUS
<1> USE DEF service, kafka, history, flags, clients, counters, Goto, Held
<1>1. CASE Launch
  BY <1>1 DEF Launch, EnterBootstrap, Shutdown, ResetFlag, CreateConsumer,
       CreateConsumerFails, WaitTopic, WaitCancelled, TopicFound, TopicMissing,
       MetadataFails, Subscribe, SubscribeFails, LaunchProducer, LaunchProducerFails
<1>2. CASE Loop
  BY <1>2 DEF Loop, KeepConsuming, LeaveLoop, ConsumeNothing, ConsumeEof,
       ConsumeFault, ProcessNothing, ProcessEof, ProcessFault, PublishRefused,
       PublishNothing, Event, Idle
<1>3. CASE Environment
  BY <1>3 DEF Environment, Signal, MessageArrives, TopicCreated, Deliver,
       DeliveryFails, Settle
<1>4. CASE UNCHANGED vars
  BY <1>4 DEF vars
<1> QED
  BY <1>1, <1>2, <1>3, <1>4 DEF Next

(* The counters follow the position and the records accepted.              *)
LEMMA NextCountersExact == IInv /\ [Next]_vars => CountersExact'
<1> SUFFICES ASSUME IInv, [Next]_vars PROVE CountersExact'
  OBVIOUS
<1> USE DEF IInv, Types, CountersExact
<1>1. sent' \in Seq(Records) /\ (SameDocs \/ PublishRecord)
  BY SentSteps
<1>2. CASE ConsumeMessage
  <2>1. Held = <<>> /\ Held' = <<position + 1>>
    BY <1>2 DEF ConsumeMessage, Goto, Held, Event
  <2> QED
    BY <1>2, <2>1 DEF ConsumeMessage, counters
<1>3. CASE ProcessMessage
  <2>1. Held = <<msg.off>> /\ Held' = <<>>
    BY <1>3 DEF ProcessMessage, Goto, Held
  <2> QED
    BY <1>3, <2>1 DEF ProcessMessage, kafka
<1>4. CASE PublishRecord
  <2>1. Held = <<>> /\ Held' = <<>>
    BY <1>4 DEF PublishRecord, Goto, Held
  <2> QED
    BY <1>4, <2>1 DEF PublishRecord
<1>5. CASE /\ UNCHANGED <<position, msg_recv_count, msg_send_count>>
           /\ Held' = Held /\ SameDocs
  BY <1>5 DEF SameDocs
<1> QED
  BY <1>1, <1>2, <1>3, <1>4, <1>5, CountersFrame

(* The invariant is inductive.                                             *)
LEMMA NextIInv == IInv /\ [Next]_vars => IInv'
  BY NextTypes, NextControl, NextClientsReady, NextOnlySignalEndsWell,
     NextCountersExact DEF IInv

(* In every reachable state the invariant holds.                           *)
THEOREM Invariance == Spec => []IInv
  BY InitIInv, NextIInv, PTL DEF Spec

(* consume() and produce() never go through a null pointer.                *)
THEOREM ClientsAlwaysReady == Spec => []ClientsReady
<1>1. IInv => ClientsReady
  BY DEF IInv
<1> QED
  BY Invariance, <1>1, PTL

(* The counters say what was consumed and what was handed to produce().    *)
THEOREM CountersAlwaysExact == Spec => []CountersExact
<1>1. IInv => CountersExact
  BY DEF IInv
<1> QED
  BY Invariance, <1>1, PTL

(* Only a signal makes the process report success.                         *)
THEOREM SuccessNeedsSignal == Spec => []OnlySignalEndsWell
<1>1. IInv => OnlySignalEndsWell
  BY DEF IInv
<1> QED
  BY Invariance, <1>1, PTL

-----------------------------------------------------------------------------
(* Where every message taken is. *)

IsAnswered(n) == \E i \in DOMAIN sent : \E k \in DOMAIN sent[i].docs : sent[i].docs[k] = n
IsWaiting(n)  == \E k \in DOMAIN stream : stream[k] = n
IsInHand(n)   == pc = "process" /\ msg.kind = "message" /\ msg.off = n

Accounted ==
  \A n : IsAnswered(n) \/ IsWaiting(n) \/ IsInHand(n) \/ n \in refused <=> n \in 1..position

(* A message in hand without text is an empty one, so that its reply may   *)
(* wait.                                                                   *)
EmptyWait ==
  /\ pc = "process" /\ msg.kind = "message" /\ ~msg.nonEmpty => input[msg.off] = "empty"
  /\ OnlyEmptyMessagesWait

(* A step that moves no message leaves each where it is.                   *)
LEMMA MovesFrame ==
  IInv /\ [Next]_vars =>
    \/ ConsumeMessage \/ ProcessMessage \/ PublishRecord \/ PublishRefused
    \/ /\ UNCHANGED <<position, stream, refused>> /\ SameDocs
       /\ \A n : IsInHand(n)' <=> IsInHand(n)
       /\ pc' = "process" /\ msg'.kind = "message" => UNCHANGED msg
       /\ pc = "publish" => (pc' = "publish" /\ UNCHANGED msg) \/ PublishNothing
       /\ input' = input \/ \E p \in Payloads : input' = Append(input, p)
<1> SUFFICES ASSUME IInv, [Next]_vars,
                    ~ConsumeMessage, ~ProcessMessage, ~PublishRecord, ~PublishRefused
             PROVE  /\ UNCHANGED <<position, stream, refused>> /\ SameDocs
                    /\ \A n : IsInHand(n)' <=> IsInHand(n)
                    /\ pc' = "process" /\ msg'.kind = "message" => UNCHANGED msg
                    /\ pc = "publish" => (pc' = "publish" /\ UNCHANGED msg) \/ PublishNothing
                    /\ input' = input \/ \E p \in Payloads : input' = Append(input, p)
  OBVIOUS
<1>0. SameDocs
  BY SentSteps DEF IInv
<1> USE DEF service, kafka, history, flags, clients, counters, Goto, IsInHand
<1>1. CASE Launch
  BY <1>0, <1>1 DEF Launch, EnterBootstrap, Shutdown, ResetFlag, CreateConsumer,
       CreateConsumerFails, WaitTopic, WaitCancelled, TopicFound, TopicMissing,
       MetadataFails, Subscribe, SubscribeFails, LaunchProducer, LaunchProducerFails
<1>2. CASE Loop
  BY <1>0, <1>2 DEF Loop, KeepConsuming, LeaveLoop, ConsumeNothing, ConsumeEof,
       ConsumeFault, ProcessNothing, ProcessEof, ProcessFault, PublishNothing, Event, Idle
<1>3. CASE Environment
  BY <1>0, <1>3 DEF Environment, Signal, MessageArrives, TopicCreated, Deliver,
       DeliveryFails, Settle
<1>4. CASE UNCHANGED vars
  BY <1>0, <1>4 DEF vars
<1> QED
  BY <1>1, <1>2, <1>3, <1>4 DEF Next

LEMMA SameAnswered ==
  ASSUME IInv, sent' \in Seq(Records), SameDocs
  PROVE  \A n : IsAnswered(n)' <=> IsAnswered(n)
<1>1. DOMAIN sent' = DOMAIN sent /\ \A i \in DOMAIN sent : sent'[i].docs = sent[i].docs
  BY DEF IInv, Types, SameDocs
<1> QED
  BY <1>1 DEF IsAnswered

(* A record that is produced answers what waited.                          *)
LEMMA PublishAnswers ==
  ASSUME IInv, PublishRecord
  PROVE  /\ DOMAIN sent' = DOMAIN sent \cup {Len(sent) + 1}
         /\ \A i \in DOMAIN sent : sent'[i] = sent[i]
         /\ sent'[Len(sent) + 1].docs = stream
         /\ \A n : IsAnswered(n)' <=> IsAnswered(n) \/ IsWaiting(n)
<1> DEFINE r == [docs |-> stream, fate |-> "queued"]
<1>1. sent' = Append(sent, r) /\ sent \in Seq(Records)
  BY DEF PublishRecord, IInv, Types
<1>2. /\ DOMAIN sent' = DOMAIN sent \cup {Len(sent) + 1}
      /\ \A i \in DOMAIN sent : sent'[i] = sent[i]
      /\ sent'[Len(sent) + 1] = r
  BY <1>1
<1>3. sent'[Len(sent) + 1].docs = stream
  BY <1>2
<1> QED
  BY <1>2, <1>3 DEF IsAnswered, IsWaiting

LEMMA NextAccounted == IInv /\ Accounted /\ [Next]_vars => Accounted'
<1> SUFFICES ASSUME IInv, Accounted, [Next]_vars PROVE Accounted'
  OBVIOUS
<1>0. sent' \in Seq(Records) /\ stream \in Seq(Nat) /\ position \in Nat
  BY SentSteps DEF IInv, Types
<1>1. CASE ConsumeMessage
  <2>1. /\ pc = "consume" /\ pc' = "process" /\ position' = position + 1
        /\ msg'.kind = "message" /\ msg'.off = position + 1
        /\ UNCHANGED <<stream, refused, sent>>
    BY <1>1 DEF ConsumeMessage, Goto, Event, history
  <2>2. \A n : ~IsInHand(n) /\ (IsInHand(n)' <=> n = position + 1)
    BY <2>1 DEF IsInHand
  <2>3. \A n : (IsAnswered(n)' <=> IsAnswered(n)) /\ (IsWaiting(n)' <=> IsWaiting(n))
    BY <2>1 DEF IsAnswered, IsWaiting
  <2>4. \A n : n \in 1..position + 1 <=> n \in 1..position \/ n = position + 1
    BY <1>0
  <2> QED
    BY <2>1, <2>2, <2>3, <2>4 DEF Accounted
<1>2. CASE ProcessMessage
  <2>1. /\ pc = "process" /\ pc' = "publish" /\ msg.kind = "message"
        /\ stream' = Append(stream, msg.off) /\ msg.off \in Nat
        /\ UNCHANGED <<position, refused, sent>>
    BY <1>2 DEF ProcessMessage, Goto, kafka, history, IInv, Types, Events
  <2>2. \A n : ~IsInHand(n)' /\ (IsInHand(n) <=> n = msg.off)
    BY <2>1 DEF IsInHand
  <2>3. \A n : IsWaiting(n)' <=> IsWaiting(n) \/ n = msg.off
    <3>1. /\ DOMAIN stream' = DOMAIN stream \cup {Len(stream) + 1}
          /\ \A k \in DOMAIN stream : stream'[k] = stream[k]
          /\ stream'[Len(stream) + 1] = msg.off
      BY <1>0, <2>1
    <3> QED
      BY <3>1 DEF IsWaiting
  <2>4. \A n : IsAnswered(n)' <=> IsAnswered(n)
    BY <2>1 DEF IsAnswered
  <2> QED
    BY <2>1, <2>2, <2>3, <2>4 DEF Accounted
<1>3. CASE PublishRecord
  <2>1. pc = "publish" /\ pc' = "inner" /\ stream' = <<>> /\ UNCHANGED <<position, refused>>
    BY <1>3 DEF PublishRecord, Goto, history
  <2>2. \A n : ~IsInHand(n) /\ ~IsInHand(n)' /\ ~IsWaiting(n)'
    BY <2>1 DEF IsInHand, IsWaiting
  <2>3. \A n : IsAnswered(n)' <=> IsAnswered(n) \/ IsWaiting(n)
    BY <1>3, PublishAnswers
  <2> QED
    BY <2>1, <2>2, <2>3 DEF Accounted
<1>4. CASE PublishRefused
  <2>1. /\ pc = "publish" /\ pc' = "inner" /\ stream' = <<>> /\ UNCHANGED <<position, sent>>
        /\ refused' = refused \cup {stream[k] : k \in DOMAIN stream}
    BY <1>4 DEF PublishRefused, Goto
  <2>2. \A n : ~IsInHand(n) /\ ~IsInHand(n)' /\ ~IsWaiting(n)'
    BY <2>1 DEF IsInHand, IsWaiting
  <2>3. \A n : n \in refused' <=> n \in refused \/ IsWaiting(n)
    BY <2>1 DEF IsWaiting
  <2>4. \A n : IsAnswered(n)' <=> IsAnswered(n)
    BY <2>1 DEF IsAnswered
  <2> QED
    BY <2>1, <2>2, <2>3, <2>4 DEF Accounted
<1>5. CASE /\ UNCHANGED <<position, stream, refused>> /\ SameDocs
           /\ \A n : IsInHand(n)' <=> IsInHand(n)
  <2>1. \A n : IsAnswered(n)' <=> IsAnswered(n)
    BY <1>0, <1>5, SameAnswered
  <2>2. \A n : IsWaiting(n)' <=> IsWaiting(n)
    BY <1>5 DEF IsWaiting
  <2> QED
    BY <1>5, <2>1, <2>2 DEF Accounted
<1> QED
  BY <1>1, <1>2, <1>3, <1>4, <1>5, MovesFrame

LEMMA InitAccounted == Init => Accounted /\ EmptyWait
<1> SUFFICES ASSUME Init PROVE Accounted /\ EmptyWait
  OBVIOUS
<1>1. pc = "boot" /\ DOMAIN sent = {} /\ DOMAIN stream = {} /\ refused = {} /\ position = 0
  BY DEF Init
<1>2. \A n : n \notin 1..0
  OBVIOUS
<1> QED
  BY <1>1, <1>2 DEF Accounted, IsAnswered, IsWaiting, IsInHand, EmptyWait, OnlyEmptyMessagesWait

(* Messages that arrive later do not change those that were taken.         *)
LEMMA OldMessages ==
  ASSUME IInv, Accounted, input' = input \/ \E p \in Payloads : input' = Append(input, p)
  PROVE  /\ \A n \in 1..position : input'[n] = input[n]
         /\ \A k \in DOMAIN stream : stream[k] \in 1..position
         /\ \A i \in DOMAIN sent : \A k \in DOMAIN sent[i].docs : sent[i].docs[k] \in 1..position
         /\ pc = "process" /\ msg.kind = "message" => msg.off \in 1..position
<1>1. input \in Seq(Payloads) /\ position \in 0..Len(input)
  BY DEF IInv, Types
<1>2. \A n \in 1..position : input'[n] = input[n]
  BY <1>1
<1>3. \A k \in DOMAIN stream : IsWaiting(stream[k])
  BY DEF IsWaiting
<1>4. \A i \in DOMAIN sent : \A k \in DOMAIN sent[i].docs : IsAnswered(sent[i].docs[k])
  BY DEF IsAnswered
<1>5. pc = "process" /\ msg.kind = "message" => IsInHand(msg.off)
  BY DEF IsInHand
<1> QED
  BY <1>2, <1>3, <1>4, <1>5 DEF Accounted

LEMMA NextEmptyWait == IInv /\ Accounted /\ EmptyWait /\ [Next]_vars => EmptyWait'
<1> SUFFICES ASSUME IInv, Accounted, EmptyWait, [Next]_vars PROVE EmptyWait'
  OBVIOUS
<1> DEFINE Led(docs) == \A k \in 1..(Len(docs) - 1) : input[docs[k]] = "empty"
           Waits(k) == \/ input[stream[k]] = "empty"
                       \/ pc = "publish" /\ k = Len(stream) /\ msg.nonEmpty /\ msg.off = stream[k]
<1>0. /\ sent' \in Seq(Records) /\ sent \in Seq(Records) /\ stream \in Seq(Nat)
      /\ input \in Seq(Payloads) /\ position \in 0..Len(input) /\ msg \in Events
      /\ \A i \in DOMAIN sent : Led(sent[i].docs)
      /\ \A k \in DOMAIN stream : Waits(k)
      /\ pc = "process" /\ msg.kind = "message" /\ ~msg.nonEmpty => input[msg.off] = "empty"
  BY SentSteps DEF IInv, Types, EmptyWait, OnlyEmptyMessagesWait
<1>1. CASE ConsumeMessage
  <2>1. /\ pc = "consume" /\ pc' = "process" /\ position < Len(input)
        /\ msg'.nonEmpty = (input[position + 1] = "text") /\ msg'.off = position + 1
        /\ UNCHANGED <<stream, input, sent>>
    BY <1>1 DEF ConsumeMessage, Goto, Event, history
  <2>2. input[position + 1] \in Payloads
    BY <1>0, <2>1
  <2>3. ~msg'.nonEmpty => input'[msg'.off] = "empty"
    BY <2>1, <2>2 DEF Payloads
  <2> QED
    BY <1>0, <2>1, <2>3 DEF EmptyWait, OnlyEmptyMessagesWait
<1>2. CASE ProcessMessage
  <2>1. /\ pc = "process" /\ pc' = "publish" /\ msg.kind = "message"
        /\ stream' = Append(stream, msg.off) /\ msg.off \in Nat
        /\ UNCHANGED <<input, sent, msg>>
    BY <1>0, <1>2 DEF ProcessMessage, Goto, kafka, history, Events
  <2>2. /\ DOMAIN stream' = DOMAIN stream \cup {Len(stream) + 1} /\ Len(stream') = Len(stream) + 1
        /\ \A k \in DOMAIN stream : stream'[k] = stream[k]
        /\ stream'[Len(stream) + 1] = msg.off
    BY <1>0, <2>1
  <2>3. \A k \in DOMAIN stream : input[stream[k]] = "empty"
    BY <1>0, <2>1
  <2>4. \A k \in DOMAIN stream' : Waits(k)'
    BY <1>0, <2>1, <2>2, <2>3
  <2> QED
    BY <1>0, <2>1, <2>4 DEF EmptyWait, OnlyEmptyMessagesWait
<1>3. CASE PublishRecord
  <2>1. pc' = "inner" /\ stream' = <<>> /\ UNCHANGED input
    BY <1>3 DEF PublishRecord, Goto
  <2>2. Led(stream)
    <3>1. \A k \in 1..(Len(stream) - 1) : k \in DOMAIN stream /\ k # Len(stream)
      BY <1>0
    <3> QED
      BY <1>0, <3>1
  <2>3. /\ DOMAIN sent' = DOMAIN sent \cup {Len(sent) + 1}
        /\ \A i \in DOMAIN sent : sent'[i] = sent[i]
        /\ sent'[Len(sent) + 1].docs = stream
    BY <1>3, PublishAnswers
  <2>4. \A i \in DOMAIN sent' : Led(sent'[i].docs)
    BY <1>0, <2>2, <2>3
  <2> QED
    BY <2>1, <2>4 DEF EmptyWait, OnlyEmptyMessagesWait
<1>4. CASE PublishRefused
  <2>1. pc' = "inner" /\ stream' = <<>> /\ UNCHANGED <<input, sent>>
    BY <1>4 DEF PublishRefused, Goto
  <2> QED
    BY <1>0, <2>1 DEF EmptyWait, OnlyEmptyMessagesWait
<1>5. CASE /\ UNCHANGED <<position, stream, refused>> /\ SameDocs
           /\ \A n : IsInHand(n)' <=> IsInHand(n)
           /\ pc' = "process" /\ msg'.kind = "message" => UNCHANGED msg
           /\ pc = "publish" => (pc' = "publish" /\ UNCHANGED msg) \/ PublishNothing
           /\ input' = input \/ \E p \in Payloads : input' = Append(input, p)
  <2>1. /\ \A n \in 1..position : input'[n] = input[n]
        /\ \A k \in DOMAIN stream : stream[k] \in 1..position
        /\ \A i \in DOMAIN sent : \A k \in DOMAIN sent[i].docs : sent[i].docs[k] \in 1..position
        /\ pc = "process" /\ msg.kind = "message" => msg.off \in 1..position
    BY <1>5, OldMessages
  <2>2. DOMAIN sent' = DOMAIN sent /\ \A i \in DOMAIN sent : sent'[i].docs = sent[i].docs
    BY <1>0, <1>5 DEF SameDocs
  <2>3. \A i \in DOMAIN sent : \A k \in 1..(Len(sent[i].docs) - 1) : k \in DOMAIN sent[i].docs
    <3>1. \A i \in DOMAIN sent : sent[i].docs \in Seq(Nat)
      <4>1. \A i \in DOMAIN sent : sent[i] \in Records
        BY <1>0
      <4> QED
        BY <4>1 DEF Records
    <3>2. \A s \in Seq(Nat) : \A k \in 1..(Len(s) - 1) : k \in DOMAIN s
      OBVIOUS
    <3> QED
      BY <3>1, <3>2
  <2>4. \A i \in DOMAIN sent' : \A k \in 1..(Len(sent'[i].docs) - 1) : input'[sent'[i].docs[k]] = "empty"
    <3> SUFFICES ASSUME NEW j \in DOMAIN sent', NEW k \in 1..(Len(sent'[j].docs) - 1)
                 PROVE  input'[sent'[j].docs[k]] = "empty"
      OBVIOUS
    <3>1. j \in DOMAIN sent /\ sent'[j].docs = sent[j].docs
      BY <2>2
    <3>2. k \in 1..(Len(sent[j].docs) - 1)
      BY <3>1
    <3>3. input[sent[j].docs[k]] = "empty" /\ sent[j].docs[k] \in 1..position
      BY <1>0, <2>1, <2>3, <3>1, <3>2
    <3> QED
      BY <2>1, <3>1, <3>3
  <2>5. \A k \in DOMAIN stream' : Waits(k)'
    <3>1. CASE pc = "publish" /\ PublishNothing
      <4>1. ~msg.nonEmpty
        BY <3>1 DEF PublishNothing
      <4> QED
        BY <1>0, <1>5, <2>1, <4>1
    <3>2. CASE pc = "publish" /\ pc' = "publish" /\ UNCHANGED msg
      BY <1>0, <1>5, <2>1, <3>2
    <3>3. CASE pc # "publish"
      BY <1>0, <1>5, <2>1, <3>3
    <3> QED
      BY <1>5, <3>1, <3>2, <3>3
  <2>6. pc' = "process" /\ msg'.kind = "message" /\ ~msg'.nonEmpty => input'[msg'.off] = "empty"
    <3> SUFFICES ASSUME pc' = "process", msg'.kind = "message", ~msg'.nonEmpty
                 PROVE  input'[msg'.off] = "empty"
      OBVIOUS
    <3>1. msg' = msg /\ IsInHand(msg.off)'
      BY <1>5 DEF IsInHand
    <3>2. pc = "process" /\ msg.kind = "message"
      BY <1>5, <3>1 DEF IsInHand
    <3> QED
      BY <1>0, <2>1, <3>1, <3>2
  <2> QED
    BY <2>4, <2>5, <2>6 DEF EmptyWait, OnlyEmptyMessagesWait
<1> QED
  BY <1>1, <1>2, <1>3, <1>4, <1>5, MovesFrame

LEMMA AlwaysAccounted == Spec => [](IInv /\ Accounted /\ EmptyWait)
  BY InitIInv, NextIInv, InitAccounted, NextAccounted, NextEmptyWait, PTL DEF Spec

(* The variables keep their types and no document answers anything but a   *)
(* message taken.                                                          *)
THEOREM TypeCorrect == Spec => []TypeOK
<1>1. IInv /\ Accounted => TypeOK
  <2> SUFFICES ASSUME IInv, Accounted PROVE TypeOK
    OBVIOUS
  <2>1. \A k \in DOMAIN stream : stream[k] \in 1..position
    BY DEF Accounted, IsWaiting
  <2>2. \A j \in DOMAIN sent : \A k \in DOMAIN sent[j].docs : sent[j].docs[k] \in 1..position
    BY DEF Accounted, IsAnswered
  <2>3. refused \subseteq 1..position
    BY DEF Accounted
  <2> QED
    BY <2>1, <2>2, <2>3 DEF IInv, TypeOK
<1> QED
  BY <1>1, AlwaysAccounted, PTL

(* Between consume() and produce() no message vanishes, whatever fails.    *)
THEOREM NoneVanishes == Spec => []NothingVanishes
<1>1. IInv /\ Accounted => NothingVanishes
  <2> SUFFICES ASSUME IInv, Accounted PROVE NothingVanishes
    OBVIOUS
  <2>1. position \in 0..Len(input) /\ input \in Seq(Payloads)
    BY DEF IInv, Types
  <2>2. 1..position \subseteq Messages
    BY <2>1 DEF Messages
  <2>3. \A n : n \in InHand <=> n \in Messages /\ IsInHand(n)
    BY DEF InHand, Held, IsInHand
  <2>4. \A n : /\ n \in Answered <=> n \in Messages /\ IsAnswered(n)
               /\ n \in Waiting <=> n \in Messages /\ IsWaiting(n)
    BY DEF Answered, Waiting, IsAnswered, IsWaiting
  <2>5. \A n : n \in Answered \cup Waiting \cup InHand \cup refused <=> n \in 1..position
    BY <2>2, <2>3, <2>4 DEF Accounted
  <2> QED
    BY <2>5 DEF NothingVanishes
<1> QED
  BY <1>1, AlwaysAccounted, PTL

(* Only replies to empty messages are held back, for any series of them.   *)
THEOREM OnlyEmptyOnesWait == Spec => []OnlyEmptyMessagesWait
<1>1. EmptyWait => OnlyEmptyMessagesWait
  BY DEF EmptyWait
<1> QED
  BY <1>1, AlwaysAccounted, PTL

-----------------------------------------------------------------------------
(* CodecService implements ReplyLog. *)

Open    == stream \o Held
Replies == [i \in DOMAIN sent |-> sent[i].docs]

(* A function over 1..n is a sequence of length n.                         *)
LEMMA FunctionIsSeq ==
  ASSUME NEW S, NEW n \in Nat, NEW f \in [1..n -> S]
  PROVE  f \in Seq(S) /\ Len(f) = n
  OBVIOUS

(* An extended sequence, as a function.                                    *)
LEMMA AppendIsFunction ==
  ASSUME NEW S, NEW s \in Seq(S), NEW e \in S
  PROVE  Append(s, e) = [i \in 1..(Len(s) + 1) |-> Append(s, e)[i]]
<1> DEFINE a == Append(s, e)
<1>1. a \in Seq(S) /\ Len(a) = Len(s) + 1
  OBVIOUS
<1>2. a = [i \in 1..Len(a) |-> a[i]]
  <2>1. \A t \in Seq(S) : t = [i \in 1..Len(t) |-> t[i]]
    OBVIOUS
  <2> QED
    BY <1>1, <2>1
<1> QED
  BY <1>1, <1>2

(* Nothing is taken, open or published initially.                          *)
LEMMA RefinesInit == Init => Promise!Init
<1> SUFFICES ASSUME Init PROVE Promise!Init
  OBVIOUS
<1>1. Held = <<>>
  BY DEF Init, Held
<1> QED
  BY <1>1 DEF Init, Promise!Init

(* Records whose documents stay the same are the same replies.             *)
LEMMA SameReplies ==
  Types /\ sent' \in Seq(Records) /\ SameDocs => Replies' = Replies
<1> SUFFICES ASSUME Types, sent' \in Seq(Records), SameDocs PROVE Replies' = Replies
  OBVIOUS
<1>1. DOMAIN sent' = DOMAIN sent
  BY DEF Types, SameDocs
<1>2. \A i \in DOMAIN sent : sent'[i].docs = sent[i].docs
  BY DEF SameDocs
<1> QED
  BY <1>1, <1>2 DEF Replies

(* A step changes the position, what is open and the input in one of these *)
(* ways.                                                                   *)
LEMMA OpenSteps ==
  IInv /\ [Next]_vars =>
    \/ ConsumeMessage \/ PublishRecord \/ PublishRefused \/ MessageArrives
    \/ UNCHANGED <<position, Open, input>> /\ SameDocs
<1> SUFFICES ASSUME IInv, [Next]_vars,
                    ~ConsumeMessage, ~PublishRecord, ~PublishRefused, ~MessageArrives
             PROVE  UNCHANGED <<position, Open, input>> /\ SameDocs
  OBVIOUS
<1> USE DEF service, kafka, history, flags, clients, counters, Goto
<1>0. SameDocs /\ stream \in Seq(Nat)
  BY SentSteps DEF IInv, Types
<1>1. CASE Launch
  BY <1>0, <1>1 DEF Open, Held, Launch, EnterBootstrap, Shutdown, ResetFlag, CreateConsumer,
       CreateConsumerFails, WaitTopic, WaitCancelled, TopicFound, TopicMissing,
       MetadataFails, Subscribe, SubscribeFails, LaunchProducer, LaunchProducerFails
<1>2. CASE ProcessMessage
  <2>1. msg.off \in Nat /\ stream \in Seq(Nat)
    BY DEF IInv, Types, Events
  <2>2. Held = <<msg.off>> /\ Held' = <<>> /\ stream' = Append(stream, msg.off)
    BY <1>2 DEF ProcessMessage, Held
  <2>3. Open = Append(stream, msg.off) /\ Open' = Append(stream, msg.off)
    BY <2>1, <2>2 DEF Open
  <2> QED
    BY <1>0, <1>2, <2>3 DEF ProcessMessage
<1>3. CASE Loop /\ ~ProcessMessage
  BY <1>0, <1>3 DEF Open, Held, Loop, KeepConsuming, LeaveLoop, ConsumeNothing, ConsumeEof,
       ConsumeFault, ProcessNothing, ProcessEof, ProcessFault, PublishRefused,
       PublishNothing, Event, Idle
<1>4. CASE Environment
  BY <1>0, <1>4 DEF Open, Held, Environment, Signal, TopicCreated, Deliver,
       DeliveryFails, Settle
<1>5. CASE UNCHANGED vars
  BY <1>0, <1>5 DEF Open, Held, vars
<1> QED
  BY <1>1, <1>2, <1>3, <1>4, <1>5 DEF Next

(* Every step of the service is a step of the log or changes nothing in it. *)
LEMMA RefinesNext == IInv /\ [Next]_vars => [Promise!Next]_Promise!vars
<1> SUFFICES ASSUME IInv, [Next]_vars PROVE [Promise!Next]_Promise!vars
  OBVIOUS
<1> USE DEF IInv, Types
<1>1. sent' \in Seq(Records) /\ (SameDocs \/ PublishRecord)
  BY SentSteps
<1>2. stream \in Seq(Nat) /\ input \in Seq(Payloads) /\ position \in Nat
  OBVIOUS
<1>3. CASE ConsumeMessage
  <2>1. Held = <<>> /\ Held' = <<position + 1>> /\ stream' = stream
    BY <1>3 DEF ConsumeMessage, Goto, Held, Event
  <2>2. Open' = Append(Open, position + 1)
    BY <1>2, <2>1 DEF Open
  <2>3. Replies' = Replies
    BY <1>3 DEF ConsumeMessage, Replies
  <2>4. Promise!Take
    BY <1>3, <2>2, <2>3 DEF ConsumeMessage, Promise!Take, Open, Replies
  <2> QED
    BY <2>4 DEF Promise!Next
<1>4. CASE PublishRecord
  <2>1. Held = <<>> /\ Held' = <<>> /\ stream' = <<>>
    BY <1>4 DEF PublishRecord, Goto, Held
  <2>2. Open = stream /\ Open' = <<>>
    BY <1>2, <2>1 DEF Open
  <2>3. Replies' = Append(Replies, Open)
    <3> DEFINE r == [docs |-> stream, fate |-> "queued"]
    <3>1. sent' = Append(sent, r) /\ sent \in Seq(Records)
      BY <1>4 DEF PublishRecord
    <3>2. /\ DOMAIN sent = 1..Len(sent) /\ Len(sent) \in Nat
          /\ DOMAIN sent' = 1..(Len(sent) + 1)
          /\ \A i \in DOMAIN sent : sent'[i] = sent[i]
          /\ sent'[Len(sent) + 1] = r
      BY <3>1
    <3>3. /\ DOMAIN Replies = DOMAIN sent /\ DOMAIN Replies' = DOMAIN sent'
          /\ \A i \in DOMAIN sent : Replies[i] = sent[i].docs
          /\ \A i \in DOMAIN sent' : Replies'[i] = sent'[i].docs
      BY DEF Replies
    <3>4. \A i \in DOMAIN sent : sent[i].docs \in Seq(Nat)
      <4>1. \A i \in DOMAIN sent : sent[i] \in Records
        BY <3>1
      <4> QED
        BY <4>1 DEF Records
    <3>5. Replies \in Seq(Seq(Nat)) /\ Len(Replies) = Len(sent)
      <4>1. Replies \in [1..Len(sent) -> Seq(Nat)]
        BY <3>2, <3>4 DEF Replies
      <4> QED
        BY <3>2, <4>1, FunctionIsSeq
    <3>6. /\ DOMAIN Append(Replies, Open) = 1..(Len(sent) + 1)
          /\ \A i \in DOMAIN sent : Append(Replies, Open)[i] = Replies[i]
          /\ Append(Replies, Open)[Len(sent) + 1] = Open
      BY <2>2, <3>2, <3>5
    <3>7. \A i \in DOMAIN sent' : Replies'[i] = Append(Replies, Open)[i]
      BY <2>2, <3>2, <3>3, <3>6
    <3>8. Append(Replies, Open) = [i \in 1..(Len(sent) + 1) |-> Append(Replies, Open)[i]]
      BY <1>2, <2>2, <3>5, AppendIsFunction
    <3> QED
      BY <3>2, <3>7, <3>8 DEF Replies
  <2>4. Promise!Publish
    BY <1>4, <2>2, <2>3 DEF PublishRecord, Promise!Publish, Open, Replies
  <2> QED
    BY <2>4 DEF Promise!Next
<1>5. CASE PublishRefused
  <2>1. Held' = <<>> /\ stream' = <<>>
    BY <1>5 DEF PublishRefused, Goto, Held
  <2>2. Promise!Discard
    BY <1>5, <2>1 DEF PublishRefused, Promise!Discard
  <2> QED
    BY <2>2 DEF Promise!Next
<1>6. CASE MessageArrives
  <2>1. Len(input') = Len(input) + 1
    BY <1>6 DEF MessageArrives, Payloads
  <2>2. Promise!Arrive
    BY <1>6, <2>1 DEF MessageArrives, Promise!Arrive, service, Held
  <2> QED
    BY <2>2 DEF Promise!Next
<1>7. CASE UNCHANGED <<position, Open, input>> /\ SameDocs
  <2>1. Replies' = Replies
    BY <1>1, <1>7, SameReplies
  <2> QED
    BY <1>7, <2>1 DEF Promise!vars, Open, Replies
<1> QED
  BY <1>3, <1>4, <1>5, <1>6, <1>7, OpenSteps

(* The run loop implements the reply log.                                  *)
THEOREM Refinement == Spec => ImplementsReplyLog
  BY Invariance, RefinesInit, RefinesNext, PTL DEF Spec, ImplementsReplyLog, Promise!Spec

(* The proofs about the log, for the log this service maintains.           *)
Log ==
  INSTANCE ReplyLogProofs WITH
    arrived <- Len(input),
    taken   <- position,
    open    <- stream \o Held,
    replies <- [i \in DOMAIN sent |-> sent[i].docs]

(* Replies come in the order of the messages and no message is answered    *)
(* twice, however launches, errors, signals and deliveries interleave.     *)
THEOREM OnceInOrder == Spec => []RepliesOnceInOrder
<1>1. Init => Log!IInv
  <2>1. Promise!Init => Log!Init
    BY DEF Promise!Init, Log!Init
  <2> QED
    BY <2>1, RefinesInit, Log!InitIInv
<1>2. IInv /\ Log!IInv /\ [Next]_vars => Log!IInv'
  <2>1. [Promise!Next]_Promise!vars => [Log!Next]_Log!vars
    BY DEF Promise!Next, Promise!vars, Promise!Arrive, Promise!Take,
           Promise!Publish, Promise!Discard,
           Log!Next, Log!vars, Log!Arrive, Log!Take, Log!Publish, Log!Discard
  <2> QED
    BY <2>1, RefinesNext, Log!NextIInv
<1>3. Log!IInv => RepliesOnceInOrder
  BY DEF Log!IInv, Log!AnsweredOnceInOrder, Log!RecordsIncrease, Log!Increasing,
         RepliesOnceInOrder, Promise!AnsweredOnceInOrder,
         Promise!RecordsIncrease, Promise!Increasing
<1> QED
  BY Invariance, <1>1, <1>2, <1>3, PTL DEF Spec


-----------------------------------------------------------------------------
(* CodecService is a process of ConsumerGroup: every step of the run loop  *)
(* is a step the group knows, or one it does not see.                      *)

(* Nothing is taken before there is a consumer.                            *)
Seated ==
  /\ ~consumer => position = 0
  /\ Len(input) <= MaxMessages

(* Holds in every behaviour. *)
LEMMA SeatedAlways == Spec => []Seated
<1>1. Init => Seated
  BY ConstantsAssumption DEF Init, Seated
<1>2. IInv /\ Seated /\ [Next]_vars => Seated'
  <2> SUFFICES ASSUME IInv, Seated, [Next]_vars PROVE Seated'
    OBVIOUS
  <2> USE DEF Seated, service, kafka, history, flags, clients, counters, Goto
  <2>1. CASE Launch
    BY <2>1 DEF Launch, EnterBootstrap, Shutdown, ResetFlag, CreateConsumer,
         CreateConsumerFails, WaitTopic, WaitCancelled, TopicFound, TopicMissing,
         MetadataFails, Subscribe, SubscribeFails, LaunchProducer, LaunchProducerFails
  <2>2. CASE Loop
    BY <2>2 DEF Loop, KeepConsuming, LeaveLoop, ConsumeMessage, ConsumeNothing,
         ConsumeEof, ConsumeFault, ProcessMessage, ProcessNothing, ProcessEof,
         ProcessFault, PublishRecord, PublishRefused, PublishNothing, IInv, ClientsReady
  <2>3. CASE MessageArrives
    BY <2>3, ConstantsAssumption DEF MessageArrives, IInv, Types, Payloads
  <2>4. CASE Environment /\ ~MessageArrives
    BY <2>4 DEF Environment, Signal, TopicCreated, Deliver, DeliveryFails, Settle
  <2>5. CASE UNCHANGED vars
    BY <2>5 DEF vars
  <2> QED
    BY <2>1, <2>2, <2>3, <2>4, <2>5 DEF Next
<1> QED
  BY <1>1, <1>2, Invariance, PTL DEF Spec

(* A step of the run loop the group can see, or one it cannot.             *)
LEMMA GroupFrame ==
  IInv /\ [Next]_vars =>
    \/ CreateConsumer \/ Shutdown \/ MetadataFails \/ LaunchProducer \/ LaunchProducerFails
    \/ ConsumeMessage \/ ProcessMessage \/ PublishRecord \/ PublishRefused
    \/ MessageArrives \/ Deliver \/ DeliveryFails
    \/ UNCHANGED <<input, consumer, position, stream, sent, refused, Up, Held>>
<1> SUFFICES ASSUME IInv, [Next]_vars,
                    ~CreateConsumer, ~Shutdown, ~MetadataFails, ~LaunchProducer,
                    ~LaunchProducerFails, ~ConsumeMessage, ~ProcessMessage,
                    ~PublishRecord, ~PublishRefused, ~MessageArrives, ~Deliver, ~DeliveryFails
             PROVE  UNCHANGED <<input, consumer, position, stream, sent, refused, Up, Held>>
  OBVIOUS
<1> USE DEF service, kafka, history, flags, clients, counters, Goto, Up, Running, Held
<1>1. CASE Launch
  BY <1>1 DEF Launch, EnterBootstrap, ResetFlag, CreateConsumerFails, WaitTopic,
       WaitCancelled, TopicFound, TopicMissing, Subscribe, SubscribeFails
<1>2. CASE Loop
  BY <1>2 DEF Loop, KeepConsuming, LeaveLoop, ConsumeNothing, ConsumeEof, ConsumeFault,
       ProcessNothing, ProcessEof, ProcessFault, PublishNothing, Event, Idle
<1>3. CASE Environment
  BY <1>3 DEF Environment, Signal, TopicCreated
<1>4. CASE UNCHANGED vars
  BY <1>4 DEF vars
<1> QED
  BY <1>1, <1>2, <1>3, <1>4 DEF Next

(* The process starts as a member that has taken nothing. *)
LEMMA GroupInit == Init => Group!Init
<1> SUFFICES ASSUME Init PROVE Group!Init
  OBVIOUS
<1>1. Up /\ ~consumer /\ Len(input) = 0 /\ position = 0 /\ stream = <<>> /\ refused = {}
  BY DEF Init, Up, Running
<1>2. Answers(<<>>) = {} /\ Named({}) = {}
  BY DEF Answers, Named
<1>3. Held = <<>>
  BY DEF Init, Held
<1>4. \A fate : With(fate) = {}
  BY DEF Init, With, Fated
<1>5. \A m \in Named(1..MaxMessages) : ~(m[2] <= 0)
  BY ConstantsAssumption DEF Named
<1>6. Group!Message = Named(1..MaxMessages)
  BY DEF Group!Message, Group!Offsets, Named
<1> QED
  BY <1>1, <1>2, <1>3, <1>4, <1>5, <1>6 DEF Group!Init

-----------------------------------------------------------------------------
(* What the steps do to the records, as the group sees them.               *)

(* Losing what is queued.                                                  *)
LEMMA AbandonWith ==
  ASSUME IInv, sent' = Abandon(sent)
  PROVE  /\ With("queued")' = {}
         /\ With("delivered")' = With("delivered")
         /\ With("lost")' = With("lost") \cup With("queued")
<1>1. DOMAIN sent' = DOMAIN sent
  BY DEF Abandon
<1>2. \A i \in DOMAIN sent : sent[i] \in Records
  BY DEF IInv, Types
<1>3. \A i \in DOMAIN sent :
        /\ sent'[i].docs = sent[i].docs
        /\ sent'[i].fate = IF sent[i].fate = "queued" THEN "lost" ELSE sent[i].fate
  BY <1>2 DEF Abandon, Records
<1>4. \A S : S \notin With("queued")'
  BY <1>1, <1>3 DEF With, Fated
<1>5. \A S : S \in With("delivered")' <=> S \in With("delivered")
  BY <1>1, <1>3 DEF With, Fated
<1>6. \A S : S \in With("lost")' <=> S \in With("lost") \/ S \in With("queued")
  BY <1>1, <1>3 DEF With, Fated
<1> QED
  BY <1>4, <1>5, <1>6

(* One more record.                                                        *)
LEMMA PublishWith ==
  ASSUME IInv, PublishRecord
  PROVE  /\ With("delivered")' = With("delivered")
         /\ With("lost")' = With("lost")
         /\ With("queued")' = With("queued")
                                \cup IF stream = <<>> THEN {} ELSE {Answers(stream)}
<1>1. /\ DOMAIN sent' = DOMAIN sent \cup {Len(sent) + 1}
      /\ \A i \in DOMAIN sent : sent'[i] = sent[i]
  BY PublishAnswers
<1>2. sent'[Len(sent) + 1] = [docs |-> stream, fate |-> "queued"]
  BY DEF PublishRecord, IInv, Types
<1>3. sent'[Len(sent) + 1].docs = stream /\ sent'[Len(sent) + 1].fate = "queued"
  BY <1>2
<1>4. \A S : S \in With("delivered")' <=> S \in With("delivered")
  BY <1>1, <1>3 DEF With, Fated
<1>5. \A S : S \in With("lost")' <=> S \in With("lost")
  BY <1>1, <1>3 DEF With, Fated
<1>6. \A S : S \in With("queued")' <=>
        S \in With("queued") \/ (stream # <<>> /\ S = Answers(stream))
  <2>1. \A S : S \in With("queued")' <=>
          \E k \in DOMAIN sent' : /\ sent'[k].docs # <<>> /\ sent'[k].fate = "queued"
                                  /\ S = Answers(sent'[k].docs)
    BY DEF With, Fated, Answers, Named
  <2> QED
    BY <1>1, <1>3, <2>1 DEF With, Fated
<1> QED
  BY <1>4, <1>5, <1>6

(* Records with answers have different ones.                               *)
LEMMA RecordsDiffer ==
  ASSUME IInv, RepliesOnceInOrder,
         NEW i \in DOMAIN sent, NEW j \in DOMAIN sent, i # j, sent[i].docs # <<>>
  PROVE  Answers(sent[i].docs) # Answers(sent[j].docs)
<1>1. sent \in Seq(Records) /\ i \in Nat /\ j \in Nat
  BY DEF IInv, Types
<1>2. \A k \in DOMAIN sent : sent[k] \in Records
  BY <1>1
<1>3. sent[i].docs \in Seq(Nat) /\ sent[j].docs \in Seq(Nat)
  BY <1>2 DEF Records
<1>4. 1 \in DOMAIN sent[i].docs
  BY <1>3
<1>5. \A a \in DOMAIN sent[i].docs, b \in DOMAIN sent[j].docs : sent[i].docs[a] # sent[j].docs[b]
  <2>1. \A k \in DOMAIN sent : Replies[k] = sent[k].docs
    BY DEF Replies
  <2>2. DOMAIN Replies = DOMAIN sent
    BY DEF Replies
  <2>3. \A k, l \in DOMAIN Replies : k < l =>
           \A a \in DOMAIN Replies[k], b \in DOMAIN Replies[l] : Replies[k][a] < Replies[l][b]
    BY DEF RepliesOnceInOrder, Promise!AnsweredOnceInOrder, Promise!RecordsIncrease, Replies
  <2>4. \A k, l \in DOMAIN sent : k < l =>
           \A a \in DOMAIN sent[k].docs, b \in DOMAIN sent[l].docs :
             sent[k].docs[a] < sent[l].docs[b]
    BY <2>1, <2>2, <2>3
  <2>5. \A a \in DOMAIN sent[i].docs : sent[i].docs[a] \in Nat
    BY <1>3
  <2>6. \A b \in DOMAIN sent[j].docs : sent[j].docs[b] \in Nat
    BY <1>3
  <2>7. i < j \/ j < i
    BY <1>1
  <2> QED
    BY <2>4, <2>5, <2>6, <2>7
<1>6. <<Partition, sent[i].docs[1]>> \in Answers(sent[i].docs)
  BY <1>4 DEF Answers, Named
<1>7. <<Partition, sent[i].docs[1]>> \notin Answers(sent[j].docs)
  BY <1>4, <1>5 DEF Answers, Named
<1> QED
  BY <1>6, <1>7

(* One record leaves the queue, or one that answers nothing.               *)
LEMMA SettleWith ==
  ASSUME IInv, RepliesOnceInOrder, NEW fate \in {"delivered", "lost"}, Settle(fate)
  PROVE  \/ \A f \in Fates : With(f)' = With(f)
         \/ \E S \in With("queued") :
              /\ With("queued")' = With("queued") \ {S}
              /\ With(fate)' = With(fate) \cup {S}
              /\ \A f \in {"delivered", "lost"} \ {fate} : With(f)' = With(f)
<1> PICK i \in DOMAIN sent : OldestQueued(i) /\ sent' = [sent EXCEPT ![i].fate = fate]
  BY DEF Settle
<1>1. \A j \in DOMAIN sent : sent[j] \in Records
  BY DEF IInv, Types
<1>2. DOMAIN sent' = DOMAIN sent
  OBVIOUS
<1>3. \A j \in DOMAIN sent : /\ sent'[j].docs = sent[j].docs
                             /\ sent'[j].fate = IF j = i THEN fate ELSE sent[j].fate
  BY <1>1 DEF Records
<1>4. sent[i].fate = "queued"
  BY DEF OldestQueued
<1>5. CASE sent[i].docs = <<>>
  <2>1. \A S : S \in With("queued")' <=> S \in With("queued")
    BY <1>2, <1>3, <1>5 DEF With, Fated
  <2>2. \A S : S \in With("delivered")' <=> S \in With("delivered")
    BY <1>2, <1>3, <1>4, <1>5 DEF With, Fated
  <2>3. \A S : S \in With("lost")' <=> S \in With("lost")
    BY <1>2, <1>3, <1>4, <1>5 DEF With, Fated
  <2> QED
    BY <2>1, <2>2, <2>3 DEF Fates
<1>6. CASE sent[i].docs # <<>>
  <2> DEFINE A == Answers(sent[i].docs)
  <2>1. A \in With("queued")
    BY <1>4, <1>6 DEF With, Fated
  <2>2. \A j \in DOMAIN sent : sent[j].docs # <<>> /\ Answers(sent[j].docs) = A => j = i
    BY RecordsDiffer
  <2>3. \A S : S \in With("queued")' <=> S \in With("queued") /\ S # A
    <3> HIDE DEF A
    <3>1. \A S : S \in With("queued")' <=>
            \E j \in DOMAIN sent : /\ sent[j].docs # <<>> /\ S = Answers(sent[j].docs)
                                   /\ j # i /\ sent[j].fate = "queued"
      BY <1>2, <1>3 DEF With, Fated
    <3> QED
      BY <2>2, <3>1, <1>4, <1>6 DEF With, Fated, A
  <2>4. \A S : S \in With(fate)' <=> S \in With(fate) \/ S = A
    BY <1>2, <1>3, <1>4, <1>6 DEF With, Fated
  <2>5. \A f \in {"delivered", "lost"} \ {fate} : \A S : S \in With(f)' <=> S \in With(f)
    BY <1>2, <1>3, <1>4 DEF With, Fated
  <2> HIDE DEF A
  <2>6. /\ With("queued")' = With("queued") \ {A}
        /\ With(fate)' = With(fate) \cup {A}
        /\ \A f \in {"delivered", "lost"} \ {fate} : With(f)' = With(f)
    BY <2>3, <2>4, <2>5
  <2> QED
    BY <2>1, <2>6
<1> QED
  BY <1>5, <1>6

(* The messages a list of documents answers. *)
LEMMA AnswersOf ==
  /\ Answers(<<>>) = {}
  /\ \A n : Answers(<<n>>) = {<<Partition, n>>}
  /\ \A s \in Seq(Nat) : s # <<>> => Answers(s) # {}
  /\ \A s \in Seq(Nat), n \in Nat : Answers(Append(s, n)) = Answers(s) \cup {<<Partition, n>>}
<1>1. Answers(<<>>) = {} /\ \A n : Answers(<<n>>) = {<<Partition, n>>}
  BY DEF Answers, Named
<1>2. ASSUME NEW s \in Seq(Nat), s # <<>> PROVE Answers(s) # {}
  <2>1. 1 \in DOMAIN s
    BY <1>2
  <2>2. <<Partition, s[1]>> \in Answers(s)
    BY <2>1 DEF Answers, Named
  <2> QED
    BY <2>2
<1>3. ASSUME NEW s \in Seq(Nat), NEW n \in Nat
      PROVE  Answers(Append(s, n)) = Answers(s) \cup {<<Partition, n>>}
  <2>1. /\ DOMAIN Append(s, n) = DOMAIN s \cup {Len(s) + 1}
        /\ \A k \in DOMAIN s : Append(s, n)[k] = s[k]
        /\ Append(s, n)[Len(s) + 1] = n
    OBVIOUS
  <2>2. {Append(s, n)[k] : k \in DOMAIN Append(s, n)} = {s[k] : k \in DOMAIN s} \cup {n}
    BY <2>1
  <2>3. \A S, m : m \in Named(S \cup {n}) <=> m \in Named(S) \/ m = <<Partition, n>>
    BY DEF Named
  <2> QED
    BY <2>2, <2>3 DEF Answers
<1> QED
  BY <1>1, <1>2, <1>3

(* What the group sees of a step that leaves this alone is nothing.        *)
GroupView ==
  <<Len(input), consumer, position, Up, Answers(Held), IF Up THEN Answers(stream) ELSE {},
    With("queued"), UNION With("delivered"),
    (UNION With("lost")) \cup Named(refused) \cup IF Up THEN {} ELSE Answers(stream)>>

LEMMA UnseenStep == UNCHANGED GroupView => UNCHANGED Group!vars
BY DEF GroupView, Group!vars, Group!topic, Group!member, Group!work, Group!history

(* Each step of the process is a step of the member. *)
LEMMA GroupStep ==
  IInv /\ Seated /\ RepliesOnceInOrder /\ [Next]_vars => [Group!Next]_Group!vars
<1> SUFFICES ASSUME IInv, Seated, RepliesOnceInOrder, [Next]_vars
             PROVE  [Group!Next]_Group!vars
  OBVIOUS
<1>0. /\ stream \in Seq(Nat) /\ input \in Seq(Payloads) /\ position \in 0..Len(input)
      /\ sent \in Seq(Records) /\ refused \subseteq Nat /\ consumer \in BOOLEAN
      /\ MaxMessages \in Nat /\ Len(input) \in 0..MaxMessages
  BY ConstantsAssumption DEF IInv, Types, Seated
<1> USE DEF Goto, clients, flags, counters, history
<1>1. CASE CreateConsumer
  <2>1. /\ pc = "create" /\ pc' = "await" /\ consumer' = TRUE
        /\ UNCHANGED <<input, position, stream, sent, refused>>
    BY <1>1 DEF CreateConsumer, kafka
  <2>2. Up /\ Up' /\ Held = <<>> /\ Held' = <<>>
    BY <2>1 DEF Up, Running, Held
  <2>3. UNCHANGED <<With("queued"), With("delivered"), With("lost"), Answers(stream), Answers(Held)>>
    BY <2>1, <2>2 DEF With, Fated, Answers
  <2>4. CASE consumer
    BY <2>1, <2>2, <2>3, <2>4, UnseenStep DEF GroupView
  <2>5. CASE ~consumer
    <3>1. position = 0
      BY <2>5 DEF Seated
    <3>2. Group!Assign(Member, Partition)
      BY <1>0, <2>1, <2>2, <2>3, <2>5, <3>1
         DEF Group!Assign, Group!work, Group!history, Member, Partition
    <3> QED
      BY <3>2 DEF Group!Next
  <2> QED
    BY <2>4, <2>5
<1>2. CASE Shutdown \/ MetadataFails
  <2>1. /\ pc \in {"boot", "metadata"} /\ pc' \in Exited
        /\ sent' = Abandon(sent) /\ UNCHANGED <<input, position, stream, refused, consumer>>
    BY <1>2 DEF Shutdown, MetadataFails, Exited
  <2>2. Up /\ ~Up' /\ Held = <<>> /\ Held' = <<>>
    BY <2>1 DEF Up, Running, Exited, Held
  <2>3. /\ With("queued")' = {} /\ With("delivered")' = With("delivered")
        /\ With("lost")' = With("lost") \cup With("queued")
    BY <2>1, AbandonWith
  <2>4. UNION With("lost")' = (UNION With("lost")) \cup UNION With("queued")
    BY <2>3
  <2>5. Answers(Held) = {} /\ Answers(Held)' = {} /\ Answers(stream)' = Answers(stream)
    BY <2>1, <2>2 DEF Answers, Named
  <2>6. Group!InHands(Member) = Answers(stream) \cup UNION With("queued")
    BY <2>2, <2>5 DEF Group!InHands
  <2>7. ((UNION With("lost")) \cup Named(refused) \cup Answers(stream))' =
          (UNION With("lost")) \cup Named(refused) \cup {} \cup Group!InHands(Member)
    <3>1. Named(refused)' = Named(refused)
      BY <2>1
    <3> QED
      BY <2>4, <2>5, <2>6, <3>1
  <2>8. UNCHANGED <<Group!topic, position, UNION With("delivered")>>
    BY <2>1, <2>3 DEF Group!topic
  <2>9. \A X : [[c \in {Member} |-> X] EXCEPT ![Member] = {}] = [c \in {Member} |-> {}]
    OBVIOUS
  <2>10. ((UNION With("lost")) \cup Named(refused) \cup (IF Up THEN {} ELSE Answers(stream)))' =
           (UNION With("lost")) \cup Named(refused) \cup (IF Up THEN {} ELSE Answers(stream))
             \cup Group!InHands(Member)
    BY <2>2, <2>7
  <2>11. /\ (IF Up THEN Answers(stream) ELSE {})' = {}
         /\ (IF Up /\ consumer THEN {Partition} ELSE {})' = {}
         /\ (IF Up THEN {Member} ELSE {})' = (IF Up THEN {Member} ELSE {}) \ {Member}
         /\ Member \in (IF Up THEN {Member} ELSE {})
         /\ (IF Up THEN 0 ELSE 1) < 1
         /\ (IF Up THEN 0 ELSE 1)' = (IF Up THEN 0 ELSE 1) + 1
    BY <2>2
  <2>12. Group!End(Member)
    BY <2>3, <2>5, <2>8, <2>9, <2>10, <2>11 DEF Group!End
  <2> QED
    BY <2>12 DEF Group!Next
<1>3. CASE LaunchProducer \/ LaunchProducerFails
  <2>1. /\ pc = "producer" /\ pc' \in {"inner", "boot"}
        /\ sent' = Abandon(sent) /\ UNCHANGED <<input, position, stream, refused, consumer>>
    BY <1>3 DEF LaunchProducer, LaunchProducerFails
  <2>2. Up /\ Up' /\ Held = <<>> /\ Held' = <<>>
    BY <2>1 DEF Up, Running, Held
  <2>3. /\ With("queued")' = {} /\ With("delivered")' = With("delivered")
        /\ With("lost")' = With("lost") \cup With("queued")
    BY <2>1, AbandonWith
  <2>4. UNION With("lost")' = (UNION With("lost")) \cup UNION With("queued")
    BY <2>3
  <2>5. Answers(Held) = {} /\ Answers(Held)' = {} /\ Answers(stream)' = Answers(stream)
    BY <2>1, <2>2 DEF Answers, Named
  <2>6. Group!Relaunch(Member)
    BY <2>1, <2>2, <2>3, <2>4, <2>5 DEF Group!Relaunch, Group!topic, Group!member
  <2> QED
    BY <2>6 DEF Group!Next
<1>4. CASE ConsumeMessage
  <2>1. /\ pc = "consume" /\ pc' = "process" /\ position < Len(input) /\ position' = position + 1
        /\ msg'.kind = "message" /\ msg'.off = position + 1 /\ consumer
        /\ UNCHANGED <<input, stream, sent, refused, consumer>>
    BY <1>4 DEF ConsumeMessage, Event, IInv, ClientsReady
  <2>2. Up /\ Up' /\ Held = <<>> /\ Held' = <<position + 1>>
    BY <2>1 DEF Up, Running, Held
  <2>3. UNCHANGED <<With("queued"), With("delivered"), With("lost"), Answers(stream)>>
    BY <2>1 DEF With, Fated, Answers
  <2>4. Answers(Held) = {} /\ Answers(Held)' = {<<Partition, position + 1>>}
    BY <2>2, AnswersOf DEF Answers, Named
  <2>5. <<Partition, position + 1>> \in Named(1..MaxMessages)
    BY <1>0, <2>1 DEF Named
  <2> DEFINE Count(n) == [m \in Named(1..MaxMessages) |-> IF m[2] <= n THEN 1 ELSE 0]
             this     == <<Partition, position + 1>>
  <2>6. Count(position + 1) = [Count(position) EXCEPT ![this] = @ + 1]
    <3>1. \A m \in Named(1..MaxMessages) : /\ m[2] \in Nat
                                           /\ m = this <=> m[2] = position + 1
      BY DEF Named
    <3>2. \A m \in Named(1..MaxMessages) :
            m # this => (m[2] <= position + 1 <=> m[2] <= position)
      BY <1>0, <3>1
    <3>3. /\ Count(position + 1)[this] = 1
          /\ Count(position)[this] = 0
          /\ \A m \in Named(1..MaxMessages) :
               m # this => Count(position + 1)[m] = Count(position)[m]
      BY <1>0, <2>5, <3>2
    <3>4. [Count(position) EXCEPT ![this] = @ + 1] =
            [m \in Named(1..MaxMessages) |-> IF m = this THEN Count(position)[this] + 1
                                                        ELSE Count(position)[m]]
      BY <2>5
    <3>5. Count(position + 1) =
            [m \in Named(1..MaxMessages) |-> IF m = this THEN 1 ELSE Count(position)[m]]
      BY <3>3
    <3> QED
      BY <3>3, <3>4, <3>5
  <2>7. Group!Consume(Member, Partition)
    BY <1>0, <2>1, <2>2, <2>3, <2>4, <2>6 DEF Group!Consume, Group!topic
  <2> QED
    BY <2>7 DEF Group!Next
<1>5. CASE ProcessMessage
  <2>1. /\ pc = "process" /\ pc' = "publish" /\ msg.kind = "message" /\ msg.off \in Nat
        /\ stream' = Append(stream, msg.off)
        /\ UNCHANGED <<input, position, sent, refused, consumer>>
    BY <1>5 DEF ProcessMessage, kafka, IInv, Types, Events
  <2>2. Up /\ Up' /\ Held = <<msg.off>> /\ Held' = <<>>
    BY <2>1 DEF Up, Running, Held
  <2>3. UNCHANGED <<With("queued"), With("delivered"), With("lost")>>
    BY <2>1 DEF With, Fated, Answers
  <2>4. Answers(Held) = {<<Partition, msg.off>>} /\ Answers(Held)' = {}
    BY <2>2, AnswersOf DEF Answers, Named
  <2>5. Answers(stream)' = Answers(stream) \cup Answers(Held)
    <3>1. Answers(stream)' = Answers(Append(stream, msg.off))
      BY <2>1 DEF Answers, Named
    <3> QED
      BY <1>0, <2>1, <2>4, <3>1, AnswersOf
  <2>6. Group!Hold(Member)
    BY <2>1, <2>2, <2>3, <2>4, <2>5
       DEF Group!Hold, Group!topic, Group!member, Group!history
  <2> QED
    BY <2>6 DEF Group!Next, Group!Handle
<1>6. CASE PublishRecord
  <2>1. /\ pc = "publish" /\ pc' = "inner" /\ stream' = <<>>
        /\ UNCHANGED <<input, position, refused, consumer>>
    BY <1>6 DEF PublishRecord
  <2>2. Up /\ Up' /\ Held = <<>> /\ Held' = <<>>
    BY <2>1 DEF Up, Running, Held
  <2>3. /\ With("delivered")' = With("delivered") /\ With("lost")' = With("lost")
        /\ With("queued")' = With("queued") \cup IF stream = <<>> THEN {} ELSE {Answers(stream)}
    BY <1>6, PublishWith
  <2>4. Answers(Held) = {} /\ Answers(Held)' = {} /\ Answers(stream)' = {}
    BY <2>1, <2>2 DEF Answers, Named
  <2>5. CASE stream = <<>>
    <3>1. Answers(stream) = {}
      BY <2>5, AnswersOf
    <3> QED
      BY <2>1, <2>2, <2>3, <2>4, <2>5, <3>1, UnseenStep DEF GroupView
  <2>6. CASE stream # <<>>
    <3>1. Answers(stream) # {}
      BY <1>0, <2>6, AnswersOf
    <3>2. Group!Publish(Member)
      BY <2>1, <2>2, <2>3, <2>4, <2>6, <3>1
         DEF Group!Publish, Group!topic, Group!member, Group!history
    <3> QED
      BY <3>2 DEF Group!Next, Group!Handle
  <2> QED
    BY <2>5, <2>6
<1>7. CASE PublishRefused
  <2>1. /\ pc = "publish" /\ pc' = "inner" /\ stream' = <<>>
        /\ refused' = refused \cup {stream[i] : i \in DOMAIN stream}
        /\ UNCHANGED <<input, position, sent, consumer>>
    BY <1>7 DEF PublishRefused
  <2>2. Up /\ Up' /\ Held = <<>> /\ Held' = <<>>
    BY <2>1 DEF Up, Running, Held
  <2>3. UNCHANGED <<With("queued"), With("delivered"), With("lost")>>
    BY <2>1 DEF With, Fated, Answers
  <2>4. Answers(Held) = {} /\ Answers(Held)' = {} /\ Answers(stream)' = {}
    BY <2>1, <2>2 DEF Answers, Named
  <2>5. Named(refused)' = Named(refused) \cup Answers(stream)
    BY <2>1 DEF Answers, Named
  <2>6. CASE stream = <<>>
    <3>1. Answers(stream) = {}
      BY <2>6, AnswersOf
    <3> QED
      BY <2>1, <2>2, <2>3, <2>4, <2>5, <2>6, <3>1, UnseenStep DEF GroupView
  <2>7. CASE stream # <<>>
    <3>1. Answers(stream) # {}
      BY <1>0, <2>7, AnswersOf
    <3>2. Group!PublishRefused(Member)
      BY <2>1, <2>2, <2>3, <2>4, <2>5, <2>7, <3>1
         DEF Group!PublishRefused, Group!topic, Group!member
    <3> QED
      BY <3>2 DEF Group!Next, Group!Handle
  <2> QED
    BY <2>6, <2>7
<1>8. CASE MessageArrives
  <2>1. /\ Len(input) < MaxMessages /\ Len(input') = Len(input) + 1
        /\ UNCHANGED <<pc, msg, position, stream, sent, refused, consumer>>
    BY <1>0, <1>8 DEF MessageArrives, service, clients
  <2>2. UNCHANGED <<Up, Answers(Held), With("queued"), With("delivered"), With("lost"),
                    Answers(stream), Named(refused)>>
    BY <2>1 DEF Up, Held, With, Fated, Answers, Named
  <2>3. Group!MessageArrives(Partition)
    BY <2>1, <2>2 DEF Group!MessageArrives, Group!member, Group!work, Group!history
  <2> QED
    BY <2>3 DEF Group!Next
<1>9. CASE Deliver \/ DeliveryFails
  <2>0. UNCHANGED <<input, pc, msg, position, stream, refused, consumer>>
    BY <1>9 DEF Deliver, DeliveryFails, Settle, service
  <2>1. UNCHANGED <<Up, Answers(Held), Answers(stream), Named(refused)>>
    BY <2>0 DEF Up, Held, Answers, Named
  <2>2. CASE UNCHANGED <<With("queued"), With("delivered"), With("lost")>>
    BY <2>0, <2>1, <2>2, UnseenStep DEF GroupView
  <2>3. ASSUME NEW S \in With("queued"), With("queued")' = With("queued") \ {S},
               With("delivered")' = With("delivered") \cup {S}, With("lost")' = With("lost")
        PROVE  Group!Deliver(Member, S)
    BY <2>0, <2>1, <2>3 DEF Group!Deliver, Group!topic, Group!member
  <2>4. ASSUME NEW S \in With("queued"), With("queued")' = With("queued") \ {S},
               With("lost")' = With("lost") \cup {S}, With("delivered")' = With("delivered")
        PROVE  Group!DeliveryFails(Member, S)
    BY <2>0, <2>1, <2>4 DEF Group!DeliveryFails, Group!topic, Group!member
  <2>5. CASE Deliver
    BY <2>2, <2>3, <2>5, SettleWith DEF Deliver, Fates, Group!Next
  <2>6. CASE DeliveryFails
    BY <2>2, <2>4, <2>6, SettleWith DEF DeliveryFails, Fates, Group!Next
  <2> QED
    BY <1>9, <2>5, <2>6
<1>10. CASE UNCHANGED <<input, consumer, position, stream, sent, refused, Up, Held>>
  <2>1. UNCHANGED <<With("queued"), With("delivered"), With("lost"), Answers(stream),
                    Answers(Held), Named(refused)>>
    BY <1>10 DEF With, Fated, Answers, Named
  <2> QED
    BY <1>10, <2>1, UnseenStep DEF GroupView
<1> QED
  BY <1>1, <1>2, <1>3, <1>4, <1>5, <1>6, <1>7, <1>8, <1>9, <1>10, GroupFrame

(* The run loop (acm.cpp:1846-1951), with its relaunches, refused and lost *)
(* records and its end, is what ConsumerGroup takes an ACM process to be:  *)
(* what is proved of the group holds of processes that run this loop.      *)
THEOREM GroupMember == Spec => ImplementsGroup
<1>1. IInv /\ Seated /\ RepliesOnceInOrder /\ [Next]_vars => [Group!Next]_Group!vars
  BY GroupStep
<1> QED
  BY <1>1, GroupInit, Invariance, SeatedAlways, OnceInOrder, PTL DEF Spec, ImplementsGroup, Group!Spec

-----------------------------------------------------------------------------
(* The way out. *)

(* A stop was requested and is not just being overwritten. *)
StopSeen == ~bootstrap /\ ~data_available /\ pc # "reset"

(* Steps of the main thread from a place to the end of the process, once   *)
(* both flags are cleared.                                                 *)
StepsToExit ==
  CASE pc \in Exited                           -> 0
    [] pc = "boot"                             -> 1
    [] pc \in {"inner", "await"}               -> 2
    [] pc \in {"publish", "create", "producer"} -> 3
    [] pc \in {"process", "subscribe"}         -> 4
    [] pc \in {"consume", "metadata"}          -> 5

(* A stop that was seen is never forgotten, and every step the main thread *)
(* takes after it, a launch that fails or an error event included, brings  *)
(* it nearer to std::exit(): five steps at most (acm.cpp:1868-1951).       *)
StopNearsExit ==
  [][StopSeen => /\ StopSeen'
                 /\ StepsToExit \in 0..5
                 /\ Launch \/ Loop => StepsToExit' < StepsToExit
                 /\ Environment => StepsToExit' = StepsToExit]_vars

(* Wherever a stop is seen, the way out is known. *)
LEMMA StepsToExitType == Types /\ StopSeen => StepsToExit \in 0..5
BY DEF Types, StopSeen, StepsToExit, Running, Exited

(* What a step does once a stop was seen. *)
LEMMA StopStep ==
  ASSUME IInv, Next, StopSeen
  PROVE  /\ StopSeen'
         /\ StepsToExit \in 0..5
         /\ Launch \/ Loop => StepsToExit' < StepsToExit
         /\ Environment => StepsToExit' = StepsToExit
<1>1. StepsToExit \in 0..5
  BY StepsToExitType DEF IInv
<1> USE DEF StopSeen, StepsToExit, Exited, service, flags, Goto
<1>2. Launch => StopSeen' /\ StepsToExit' < StepsToExit
  BY DEF Launch, EnterBootstrap, Shutdown, ResetFlag, CreateConsumer,
       CreateConsumerFails, WaitTopic, WaitCancelled, TopicFound, TopicMissing,
       MetadataFails, Subscribe, SubscribeFails, LaunchProducer, LaunchProducerFails
<1>3. Loop => StopSeen' /\ StepsToExit' < StepsToExit
  <2> SUFFICES ASSUME Loop PROVE StopSeen' /\ StepsToExit' < StepsToExit
    OBVIOUS
  <2>1. CASE KeepConsuming \/ LeaveLoop
    BY <2>1 DEF KeepConsuming, LeaveLoop
  <2>2. CASE ConsumeMessage \/ ConsumeNothing \/ ConsumeEof \/ ConsumeFault
    BY <2>2 DEF ConsumeMessage, ConsumeNothing, ConsumeEof, ConsumeFault
  <2>3. CASE ProcessMessage \/ ProcessNothing \/ ProcessEof \/ ProcessFault
    <3>1. pc = "process" /\ pc' = "publish" /\ bootstrap' = bootstrap
      BY <2>3 DEF ProcessMessage, ProcessNothing, ProcessEof, ProcessFault
    <3>2. ~data_available'
      BY <2>3 DEF ProcessMessage, ProcessNothing, ProcessEof, ProcessFault
    <3> QED
      BY <3>1, <3>2
  <2>4. CASE PublishRecord \/ PublishRefused \/ PublishNothing
    BY <2>4 DEF PublishRecord, PublishRefused, PublishNothing
  <2> QED
    BY <2>1, <2>2, <2>3, <2>4 DEF Loop
<1>4. Environment => StopSeen' /\ pc' = pc
  BY DEF Environment, Signal, MessageArrives, TopicCreated, Deliver, DeliveryFails, Settle
<1> HIDE DEF StopSeen, StepsToExit
<1>5. pc' = pc => StepsToExit' = StepsToExit
  BY DEF StepsToExit
<1> QED
  BY <1>1, <1>2, <1>3, <1>4, <1>5 DEF Next

(* A stop request leads out of the bootstrap loop, the wait for a topic    *)
(* and the message loop alike: five steps of the main thread suffice       *)
(* (acm.cpp:1868-1951).                                                    *)
THEOREM StopLeadsOut == Spec => StopNearsExit
<1>1. IInv /\ [Next]_vars =>
        [StopSeen => /\ StopSeen'
                     /\ StepsToExit \in 0..5
                     /\ Launch \/ Loop => StepsToExit' < StepsToExit
                     /\ Environment => StepsToExit' = StepsToExit]_vars
  BY StopStep
<1> QED
  BY <1>1, Invariance, PTL DEF Spec, StopNearsExit

-----------------------------------------------------------------------------
(* Liveness.  Fairness is taken for what it gives: the main thread takes   *)
(* step after step until the process has ended, and a consume() that finds *)
(* a message again and again returns one.                                  *)

MainGoesOn == []<><<Launch \/ Loop>>_vars \/ <>(pc \in Exited)

Fetches ==
  []<>(pc = "consume" /\ position < Len(input)) => []<><<ConsumeMessage>>_vars

(* Both are the fairness of FairSpec, the guards of the actions standing   *)
(* for ENABLED.                                                            *)
LEMMA FairnessGives ==
  /\ FairSpec /\ [](pc \notin Exited => ENABLED <<Launch \/ Loop>>_vars) => MainGoesOn
  /\ FairSpec /\ [](pc = "consume" /\ position < Len(input) => ENABLED <<ConsumeMessage>>_vars)
       => Fetches
<1>1. pc \notin Exited <=> ~(pc \in Exited)
  OBVIOUS
<1> QED
  BY <1>1, PTL DEF FairSpec, MainGoesOn, Fetches

(* A stop was seen, and k steps are left at most. *)
Near(k) == StopSeen /\ StepsToExit \in 0..k

(* The bound on the steps left, of the state after a step.                 *)
LEMMA StepsToExitAfter == (Types /\ StopSeen)' => (StepsToExit \in 0..5)'
BY StepsToExitType, PTL

(* What is near stays near, whatever the environment does.                 *)
LEMMA NearStays ==
  ASSUME NEW k \in 0..5
  PROVE  IInv /\ Near(k) /\ [Next]_vars => Near(k)'
<1> SUFFICES ASSUME IInv, Near(k), [Next]_vars PROVE Near(k)'
  OBVIOUS
<1>1. StopSeen /\ StepsToExit \in 0..k
  BY DEF Near
<1>2. CASE Next
  <2>1. StepsToExit' \in 0..5
    <3>1. Types'
      BY NextIInv DEF IInv
    <3> QED
      BY <1>1, <1>2, <3>1, StopStep, StepsToExitAfter
  <2>2. StopSeen' /\ (StepsToExit' < StepsToExit \/ StepsToExit' = StepsToExit)
    BY <1>1, <1>2, StopStep DEF Next
  <2> QED
    BY <1>1, <2>1, <2>2 DEF Near
<1>3. CASE UNCHANGED vars
  BY <1>1, <1>3 DEF Near, StopSeen, StepsToExit, vars, service
<1> QED
  BY <1>2, <1>3

(* Each step of the main thread is one of those left. *)
LEMMA NearMoves ==
  ASSUME NEW k \in 0..4
  PROVE  IInv /\ Near(k + 1) /\ <<Launch \/ Loop>>_vars => Near(k)'
<1> SUFFICES ASSUME IInv, Near(k + 1), Launch \/ Loop PROVE Near(k)'
  OBVIOUS
<1>1. StopSeen /\ StepsToExit \in 0..(k + 1)
  BY DEF Near
<1>2. Next
  BY DEF Next
<1>3. StepsToExit' \in 0..5
  <2>1. Types'
    BY <1>2, NextIInv DEF IInv
  <2> QED
    BY <1>1, <1>2, <2>1, StopStep, StepsToExitAfter
<1>4. StopSeen' /\ StepsToExit' < StepsToExit
  BY <1>1, <1>2, StopStep
<1> QED
  BY <1>1, <1>3, <1>4 DEF Near

(* A process that has ended does not come back. *)
LEMMA ExitStays == pc \in Exited /\ [Next]_vars => (pc \in Exited)'
<1> USE DEF Exited, service, Goto
<1>1. pc \in Exited => ~Launch
  BY DEF Launch, EnterBootstrap, Shutdown, ResetFlag, CreateConsumer,
       CreateConsumerFails, WaitTopic, WaitCancelled, TopicFound, TopicMissing,
       MetadataFails, Subscribe, SubscribeFails, LaunchProducer, LaunchProducerFails
<1>2. pc \in Exited => ~Loop
  BY DEF Loop, KeepConsuming, LeaveLoop, ConsumeMessage, ConsumeNothing,
       ConsumeEof, ConsumeFault, ProcessMessage, ProcessNothing, ProcessEof,
       ProcessFault, PublishRecord, PublishRefused, PublishNothing
<1>3. Environment => pc' = pc
  BY DEF Environment, Signal, MessageArrives, TopicCreated, Deliver, DeliveryFails, Settle
<1> QED
  BY <1>1, <1>2, <1>3 DEF Next, vars

(* A stop that is requested while the flag is not just being reset ends    *)
(* the process, wherever the main thread is (acm.cpp:1868-1951).           *)
THEOREM StopEnds == Spec /\ MainGoesOn => StopHonoured
<1>1. /\ IInv /\ Near(0) /\ [Next]_vars => Near(0)'
      /\ IInv /\ Near(1) /\ [Next]_vars => Near(1)'
      /\ IInv /\ Near(2) /\ [Next]_vars => Near(2)'
      /\ IInv /\ Near(3) /\ [Next]_vars => Near(3)'
      /\ IInv /\ Near(4) /\ [Next]_vars => Near(4)'
      /\ IInv /\ Near(5) /\ [Next]_vars => Near(5)'
  BY NearStays
<1>2. /\ IInv /\ Near(1) /\ <<Launch \/ Loop>>_vars => Near(0)'
      /\ IInv /\ Near(2) /\ <<Launch \/ Loop>>_vars => Near(1)'
      /\ IInv /\ Near(3) /\ <<Launch \/ Loop>>_vars => Near(2)'
      /\ IInv /\ Near(4) /\ <<Launch \/ Loop>>_vars => Near(3)'
      /\ IInv /\ Near(5) /\ <<Launch \/ Loop>>_vars => Near(4)'
  BY NearMoves
<1>3. IInv /\ Near(0) => pc \in Exited
  <2> SUFFICES ASSUME IInv, Near(0) PROVE pc \in Exited
    OBVIOUS
  <2>1. pc \in Running \cup Exited /\ pc # "reset" /\ StepsToExit = 0
    BY DEF IInv, Types, Near, StopSeen
  <2>2. pc \in Running /\ pc # "reset" => StepsToExit \in 1..5
    BY DEF StepsToExit, Running, Exited
  <2> QED
    BY <2>1, <2>2
<1>4. IInv /\ ~bootstrap /\ ~data_available /\ pc # "reset" => Near(5)
  BY StepsToExitType DEF IInv, Near, StopSeen
<1>5. pc \in Exited /\ [Next]_vars => (pc \in Exited)'
  BY ExitStays
<1> QED
  BY <1>1, <1>2, <1>3, <1>4, <1>5, Invariance, PTL DEF Spec, MainGoesOn, StopHonoured

(* So FairSpec keeps StopHonoured, if its main thread has a step to take   *)
(* wherever it is (which ENABLED says, and the prover cannot).             *)
THEOREM FairStopEnds ==
  FairSpec /\ [](pc \notin Exited => ENABLED <<Launch \/ Loop>>_vars) => StopHonoured
BY FairnessGives, StopEnds, PTL DEF FairSpec

-----------------------------------------------------------------------------
(* From some moment on no Kafka call fails.  MaxTrouble makes it so. *)
NoTrouble == trouble' = trouble
Calm == <>[][NoTrouble]_vars

(* The broker knows the topic of a message it holds. *)
Listed == Len(input) > 0 => topicReady

(* A message arrives on a topic that was created only. *)
LEMMA ListedAlways == Spec => []Listed
<1>1. Init => Listed
  BY DEF Init, Listed
<1>2. Listed /\ [Next]_vars => Listed'
  <2> SUFFICES ASSUME Listed, [Next]_vars PROVE Listed'
    OBVIOUS
  <2> USE DEF Listed, kafka
  <2>1. CASE Launch
    BY <2>1 DEF Launch, EnterBootstrap, Shutdown, ResetFlag, CreateConsumer,
       CreateConsumerFails, WaitTopic, WaitCancelled, TopicFound, TopicMissing,
       MetadataFails, Subscribe, SubscribeFails, LaunchProducer, LaunchProducerFails
  <2>2. CASE Loop
    BY <2>2 DEF Loop, KeepConsuming, LeaveLoop, ConsumeMessage, ConsumeNothing,
       ConsumeEof, ConsumeFault, ProcessMessage, ProcessNothing, ProcessEof,
       ProcessFault, PublishRecord, PublishRefused, PublishNothing
  <2>3. CASE Environment
    BY <2>3 DEF Environment, Signal, MessageArrives, TopicCreated, Deliver,
       DeliveryFails, Settle
  <2>4. CASE UNCHANGED vars
    BY <2>4 DEF vars
  <2> QED
    BY <2>1, <2>2, <2>3, <2>4 DEF Next
<1> QED
  BY <1>1, <1>2, PTL DEF Spec

(* Message k + 1 is the next one of a process nobody asked to stop. *)
Due(k) == position = k /\ Len(input) > k /\ bootstrap /\ pc \in Running

(* It was taken, or the process is to stop or has ended. *)
Served(k) == position > k \/ ~bootstrap \/ pc \in Exited

(* The steps to the next consume() when no call fails: through the loop, or   *)
(* out of it and through a launch.                                            *)
StepsToConsume ==
  CASE pc = "consume"   -> 0
    [] pc = "inner"     -> IF data_available THEN 1 ELSE 9
    [] pc = "producer"  -> IF data_available THEN 2 ELSE 10
    [] pc = "subscribe" -> IF data_available THEN 3 ELSE 11
    [] pc = "metadata"  -> IF data_available THEN 4 ELSE 12
    [] pc = "await"     -> IF data_available THEN 5 ELSE 9
    [] pc = "create"    -> IF data_available THEN 6 ELSE 10
    [] pc = "reset"     -> 7
    [] pc = "boot"      -> 8
    [] pc = "publish"   -> 10
    [] pc = "process"   -> 11

(* No more than j steps to the consume() that can take it. *)
Closer(k, j) == Due(k) /\ StepsToConsume \in 0..j

(* A position is not taken back, nor a stop, nor an end. *)
LEMMA ServedStays ==
  ASSUME NEW k \in Nat
  PROVE  IInv /\ Served(k) /\ [Next]_vars => Served(k)'
<1> SUFFICES ASSUME IInv, Served(k), [Next]_vars PROVE Served(k)'
  OBVIOUS
<1>1. position \in Nat /\ position' \in Nat
  BY NextIInv DEF IInv, Types
<1>2. position' >= position /\ (~bootstrap => ~bootstrap')
  <2> USE <1>1 DEF service, kafka, flags
  <2>1. CASE Launch
    BY <2>1 DEF Launch, EnterBootstrap, Shutdown, ResetFlag, CreateConsumer,
       CreateConsumerFails, WaitTopic, WaitCancelled, TopicFound, TopicMissing,
       MetadataFails, Subscribe, SubscribeFails, LaunchProducer, LaunchProducerFails
  <2>2. CASE Loop
    BY <2>2 DEF Loop, KeepConsuming, LeaveLoop, ConsumeMessage, ConsumeNothing,
       ConsumeEof, ConsumeFault, ProcessMessage, ProcessNothing, ProcessEof,
       ProcessFault, PublishRecord, PublishRefused, PublishNothing
  <2>3. CASE Environment
    BY <2>3 DEF Environment, Signal, MessageArrives, TopicCreated, Deliver,
       DeliveryFails, Settle
  <2>4. CASE UNCHANGED vars
    BY <2>4 DEF vars
  <2> QED
    BY <2>1, <2>2, <2>3, <2>4 DEF Next
<1>3. pc \in Exited => pc' \in Exited
  BY ExitStays
<1> QED
  BY <1>1, <1>2, <1>3 DEF Served

(* What is due stays due until it is served. *)
LEMMA DueStays ==
  ASSUME NEW k \in Nat
  PROVE  IInv /\ Due(k) /\ [Next]_vars => Due(k)' \/ Served(k)'
<1> SUFFICES ASSUME IInv, Due(k), [Next]_vars PROVE Due(k)' \/ Served(k)'
  OBVIOUS
<1>1. /\ position \in Nat /\ position' \in Nat
      /\ Len(input) \in Nat /\ Len(input') \in Nat /\ input \in Seq(Payloads)
      /\ bootstrap' \in BOOLEAN /\ pc' \in Running \cup Exited
  BY NextIInv DEF IInv, Types
<1>2. position' >= position /\ Len(input') >= Len(input)
  <2> USE <1>1 DEF service, kafka, flags
  <2>1. CASE Launch
    BY <2>1 DEF Launch, EnterBootstrap, Shutdown, ResetFlag, CreateConsumer,
       CreateConsumerFails, WaitTopic, WaitCancelled, TopicFound, TopicMissing,
       MetadataFails, Subscribe, SubscribeFails, LaunchProducer, LaunchProducerFails
  <2>2. CASE Loop
    BY <2>2 DEF Loop, KeepConsuming, LeaveLoop, ConsumeMessage, ConsumeNothing,
       ConsumeEof, ConsumeFault, ProcessMessage, ProcessNothing, ProcessEof,
       ProcessFault, PublishRecord, PublishRefused, PublishNothing
  <2>3. CASE Environment
    BY <2>3 DEF Environment, Signal, MessageArrives, TopicCreated, Deliver,
       DeliveryFails, Settle
  <2>4. CASE UNCHANGED vars
    BY <2>4 DEF vars
  <2> QED
    BY <2>1, <2>2, <2>3, <2>4 DEF Next
<1> QED
  BY <1>1, <1>2 DEF Due, Served

(* The steps left, place by place. *)
StepsByPlace ==
  /\ pc = "consume" => StepsToConsume = 0
  /\ pc = "inner" => StepsToConsume = IF data_available THEN 1 ELSE 9
  /\ pc = "producer" => StepsToConsume = IF data_available THEN 2 ELSE 10
  /\ pc = "subscribe" => StepsToConsume = IF data_available THEN 3 ELSE 11
  /\ pc = "metadata" => StepsToConsume = IF data_available THEN 4 ELSE 12
  /\ pc = "await" => StepsToConsume = IF data_available THEN 5 ELSE 9
  /\ pc = "create" => StepsToConsume = IF data_available THEN 6 ELSE 10
  /\ pc = "reset" => StepsToConsume = 7
  /\ pc = "boot" => StepsToConsume = 8
  /\ pc = "publish" => StepsToConsume = 10
  /\ pc = "process" => StepsToConsume = 11

LEMMA StepsToConsumeValues == StepsByPlace
BY DEF StepsByPlace, StepsToConsume

(* On the way to consume() every step of the main thread that does not fail   *)
(* is one closer.                                                             *)
LEMMA CloserStep ==
  ASSUME NEW k \in Nat, IInv, Listed, Due(k), pc # "consume",
         Launch \/ Loop, trouble' = trouble, Due(k)'
  PROVE  StepsToConsume' < StepsToConsume
<1>1. topicReady /\ trouble \in Nat /\ trouble' # trouble + 1
  BY DEF IInv, Types, Listed, Due
<1>2. bootstrap /\ pc' \in Running
  BY DEF Due
<1>3. \/ pc = "boot" /\ pc' = "reset"
      \/ pc = "reset" /\ pc' = "create" /\ data_available'
      \/ data_available' = data_available /\ \/ pc = "create" /\ pc' = "await"
                                             \/ pc = "metadata" /\ pc' = "subscribe"
                                             \/ pc = "subscribe" /\ pc' = "producer"
                                             \/ pc = "producer" /\ pc' = "inner"
      \/ data_available' /\ data_available /\ \/ pc = "await" /\ pc' = "metadata"
                                              \/ pc = "inner" /\ pc' = "consume"
      \/ ~data_available /\ pc \in {"await", "inner"} /\ pc' = "boot"
      \/ pc = "process" /\ pc' = "publish"
      \/ pc = "publish" /\ pc' = "inner"
  <2> USE <1>1, <1>2 DEF Goto, Trouble, flags, Running
  <2>1. CASE EnterBootstrap
    BY <2>1 DEF EnterBootstrap
  <2>2. CASE Shutdown
    BY <2>2 DEF Shutdown
  <2>3. CASE ResetFlag
    BY <2>3 DEF ResetFlag
  <2>4. CASE CreateConsumer
    BY <2>4 DEF CreateConsumer
  <2>5. CASE CreateConsumerFails
    BY <2>5 DEF CreateConsumerFails
  <2>6. CASE WaitTopic
    BY <2>6 DEF WaitTopic
  <2>7. CASE WaitCancelled
    BY <2>7 DEF WaitCancelled
  <2>8. CASE TopicFound
    BY <2>8 DEF TopicFound
  <2>9. CASE TopicMissing
    BY <2>9 DEF TopicMissing
  <2>10. CASE MetadataFails
    BY <2>10 DEF MetadataFails
  <2>11. CASE Subscribe
    BY <2>11 DEF Subscribe
  <2>12. CASE SubscribeFails
    BY <2>12 DEF SubscribeFails
  <2>13. CASE LaunchProducer
    BY <2>13 DEF LaunchProducer
  <2>14. CASE LaunchProducerFails
    BY <2>14 DEF LaunchProducerFails
  <2>15. CASE KeepConsuming
    BY <2>15 DEF KeepConsuming
  <2>16. CASE LeaveLoop
    BY <2>16 DEF LeaveLoop
  <2>17. CASE ConsumeMessage
    BY <2>17 DEF ConsumeMessage
  <2>18. CASE ConsumeNothing
    BY <2>18 DEF ConsumeNothing
  <2>19. CASE ConsumeEof
    BY <2>19 DEF ConsumeEof
  <2>20. CASE ConsumeFault
    BY <2>20 DEF ConsumeFault
  <2>21. CASE ProcessMessage
    BY <2>21 DEF ProcessMessage
  <2>22. CASE ProcessNothing
    BY <2>22 DEF ProcessNothing
  <2>23. CASE ProcessEof
    BY <2>23 DEF ProcessEof
  <2>24. CASE ProcessFault
    BY <2>24 DEF ProcessFault
  <2>25. CASE PublishRecord
    BY <2>25 DEF PublishRecord
  <2>26. CASE PublishRefused
    BY <2>26 DEF PublishRefused
  <2>27. CASE PublishNothing
    BY <2>27 DEF PublishNothing
  <2> QED
    BY <2>1, <2>2, <2>3, <2>4, <2>5, <2>6, <2>7, <2>8, <2>9, <2>10, <2>11, <2>12, <2>13, <2>14, <2>15, <2>16, <2>17, <2>18, <2>19, <2>20, <2>21, <2>22, <2>23, <2>24, <2>25, <2>26, <2>27 DEF Launch, Loop
<1>4. StepsByPlace'
  BY StepsToConsumeValues, PTL
<1> QED
  BY <1>3, <1>4, StepsToConsumeValues DEF StepsByPlace

(* Every other step that does not ask it to stop leaves it where it is. *)
LEMMA StaysClose ==
  ASSUME NEW k \in Nat, Due(k), Environment \/ UNCHANGED vars, Due(k)'
  PROVE  pc' = pc /\ StepsToConsume' = StepsToConsume
<1>1. pc' = pc /\ data_available' = data_available
  BY DEF Due, Environment, Signal, MessageArrives, TopicCreated, Deliver,
         DeliveryFails, Settle, vars, service
<1> QED
  BY <1>1 DEF StepsToConsume

(* There are twelve steps at most. *)
LEMMA StepsToConsumeType == pc \in Running => StepsToConsume \in 0..12
BY DEF Running, StepsToConsume

(* Nor are there more after a step. *)
LEMMA StepsToConsumeAfter == (pc \in Running)' => (StepsToConsume \in 0..12)'
BY StepsToConsumeType, PTL

(* What is close stays close until it is served, unless a consume() comes     *)
(* back with nothing.                                                         *)
LEMMA CloserStays ==
  ASSUME NEW k \in Nat, NEW j \in 1..12
  PROVE  /\ IInv /\ Listed /\ Closer(k, j) /\ [Next]_vars /\ [NoTrouble]_vars
              => Closer(k, j)' \/ Served(k)' \/ Closer(k, 0)
         /\ IInv /\ Listed /\ Closer(k, j) /\ <<Launch \/ Loop>>_vars
              /\ [NoTrouble]_vars
              => Closer(k, j - 1)' \/ Served(k)' \/ Closer(k, 0)
<1> SUFFICES ASSUME IInv, Listed, Closer(k, j), [Next]_vars, [NoTrouble]_vars,
                    ~Served(k)', ~Closer(k, 0)
             PROVE  /\ Closer(k, j)'
                    /\ Launch \/ Loop => Closer(k, j - 1)'
  BY DEF Next
<1>1. Due(k) /\ StepsToConsume \in 0..j /\ pc # "consume" /\ trouble' = trouble
  <2>1. pc = "consume" => StepsToConsume = 0
    BY DEF StepsToConsume
  <2> QED
    BY <2>1 DEF Closer, vars, kafka, NoTrouble
<1>2. Due(k)'
  BY <1>1, DueStays
<1>3. StepsToConsume' \in 0..12
  BY <1>2, StepsToConsumeAfter DEF Due
<1>4. Launch \/ Loop => StepsToConsume' < StepsToConsume
  BY <1>1, <1>2, CloserStep
<1>5. Environment \/ UNCHANGED vars => StepsToConsume' = StepsToConsume
  BY <1>1, <1>2, StaysClose
<1> QED
  BY <1>1, <1>2, <1>3, <1>4, <1>5 DEF Closer, Next

(* A message consume() returns is the one that was due. *)
LEMMA TakesDue ==
  ASSUME NEW k \in Nat
  PROVE  Due(k) /\ <<ConsumeMessage>>_vars => Served(k)'
BY DEF Due, ConsumeMessage, Served

(* Where nothing fails any more and consume() sooner or later returns a       *)
(* message that is there, the next message is taken, from wherever the main   *)
(* thread is and whatever relaunches lie between (acm.cpp:1868-1887); by      *)
(* EveryMessageTaken so are those after it.                                   *)
THEOREM NextTaken ==
  ASSUME NEW k \in Nat
  PROVE  Spec /\ MainGoesOn /\ Fetches /\ Calm
           => ((position = k /\ Len(input) > k)
                  ~> (position > k \/ ~bootstrap \/ pc \in Exited))
<1>1. IInv /\ position = k /\ Len(input) > k => Due(k) \/ Served(k)
  BY DEF Due, Served, IInv, Types
<1>2. IInv /\ Due(k) => Closer(k, 12)
  BY StepsToConsumeType DEF Closer, Due
<1>3. IInv /\ Due(k) /\ [Next]_vars => Due(k)' \/ Served(k)'
  BY DueStays
<1>4. IInv /\ Served(k) /\ [Next]_vars => Served(k)'
  BY ServedStays
<1>5. Closer(k, 0) => pc = "consume" /\ position < Len(input)
  <2>1. pc \in Running /\ pc # "consume" => StepsToConsume \in 1..12
    BY DEF StepsToConsume, Running
  <2> QED
    BY <2>1 DEF Closer, Due
<1>6. Due(k) /\ <<ConsumeMessage>>_vars => Served(k)'
  BY TakesDue
<1>7. Served(k) <=> (position > k \/ ~bootstrap \/ pc \in Exited)
  BY DEF Served
<1>8. Spec /\ MainGoesOn /\ Calm
         => ([]<>Closer(k, 12) => []<>(Closer(k, 8) \/ Served(k)))
  <2>1. /\ IInv /\ Listed /\ Closer(k, 12) /\ [Next]_vars /\ [NoTrouble]_vars
             => Closer(k, 12)' \/ Served(k)' \/ Closer(k, 0)
        /\ IInv /\ Listed /\ Closer(k, 12) /\ <<Launch \/ Loop>>_vars /\ [NoTrouble]_vars
             => Closer(k, 11)' \/ Served(k)' \/ Closer(k, 0)
        /\ IInv /\ Listed /\ Closer(k, 11) /\ [Next]_vars /\ [NoTrouble]_vars
             => Closer(k, 11)' \/ Served(k)' \/ Closer(k, 0)
        /\ IInv /\ Listed /\ Closer(k, 11) /\ <<Launch \/ Loop>>_vars /\ [NoTrouble]_vars
             => Closer(k, 10)' \/ Served(k)' \/ Closer(k, 0)
        /\ IInv /\ Listed /\ Closer(k, 10) /\ [Next]_vars /\ [NoTrouble]_vars
             => Closer(k, 10)' \/ Served(k)' \/ Closer(k, 0)
        /\ IInv /\ Listed /\ Closer(k, 10) /\ <<Launch \/ Loop>>_vars /\ [NoTrouble]_vars
             => Closer(k, 9)' \/ Served(k)' \/ Closer(k, 0)
        /\ IInv /\ Listed /\ Closer(k, 9) /\ [Next]_vars /\ [NoTrouble]_vars
             => Closer(k, 9)' \/ Served(k)' \/ Closer(k, 0)
        /\ IInv /\ Listed /\ Closer(k, 9) /\ <<Launch \/ Loop>>_vars /\ [NoTrouble]_vars
             => Closer(k, 8)' \/ Served(k)' \/ Closer(k, 0)
    BY CloserStays
  <2>2. Closer(k, 0) => Closer(k, 8)
    BY DEF Closer
  <2> QED
    BY <2>1, <2>2, <1>4, <1>7, Invariance, ListedAlways, PTL DEF Spec, MainGoesOn, Calm
<1>9. Spec /\ MainGoesOn /\ Calm
         => ([]<>Closer(k, 8) => []<>(Closer(k, 4) \/ Served(k)))
  <2>1. /\ IInv /\ Listed /\ Closer(k, 8) /\ [Next]_vars /\ [NoTrouble]_vars
             => Closer(k, 8)' \/ Served(k)' \/ Closer(k, 0)
        /\ IInv /\ Listed /\ Closer(k, 8) /\ <<Launch \/ Loop>>_vars /\ [NoTrouble]_vars
             => Closer(k, 7)' \/ Served(k)' \/ Closer(k, 0)
        /\ IInv /\ Listed /\ Closer(k, 7) /\ [Next]_vars /\ [NoTrouble]_vars
             => Closer(k, 7)' \/ Served(k)' \/ Closer(k, 0)
        /\ IInv /\ Listed /\ Closer(k, 7) /\ <<Launch \/ Loop>>_vars /\ [NoTrouble]_vars
             => Closer(k, 6)' \/ Served(k)' \/ Closer(k, 0)
        /\ IInv /\ Listed /\ Closer(k, 6) /\ [Next]_vars /\ [NoTrouble]_vars
             => Closer(k, 6)' \/ Served(k)' \/ Closer(k, 0)
        /\ IInv /\ Listed /\ Closer(k, 6) /\ <<Launch \/ Loop>>_vars /\ [NoTrouble]_vars
             => Closer(k, 5)' \/ Served(k)' \/ Closer(k, 0)
        /\ IInv /\ Listed /\ Closer(k, 5) /\ [Next]_vars /\ [NoTrouble]_vars
             => Closer(k, 5)' \/ Served(k)' \/ Closer(k, 0)
        /\ IInv /\ Listed /\ Closer(k, 5) /\ <<Launch \/ Loop>>_vars /\ [NoTrouble]_vars
             => Closer(k, 4)' \/ Served(k)' \/ Closer(k, 0)
    BY CloserStays
  <2>2. Closer(k, 0) => Closer(k, 4)
    BY DEF Closer
  <2> QED
    BY <2>1, <2>2, <1>4, <1>7, Invariance, ListedAlways, PTL DEF Spec, MainGoesOn, Calm
<1>10. Spec /\ MainGoesOn /\ Calm
         => ([]<>Closer(k, 4) => []<>(Closer(k, 0) \/ Served(k)))
  <2>1. /\ IInv /\ Listed /\ Closer(k, 4) /\ [Next]_vars /\ [NoTrouble]_vars
             => Closer(k, 4)' \/ Served(k)' \/ Closer(k, 0)
        /\ IInv /\ Listed /\ Closer(k, 4) /\ <<Launch \/ Loop>>_vars /\ [NoTrouble]_vars
             => Closer(k, 3)' \/ Served(k)' \/ Closer(k, 0)
        /\ IInv /\ Listed /\ Closer(k, 3) /\ [Next]_vars /\ [NoTrouble]_vars
             => Closer(k, 3)' \/ Served(k)' \/ Closer(k, 0)
        /\ IInv /\ Listed /\ Closer(k, 3) /\ <<Launch \/ Loop>>_vars /\ [NoTrouble]_vars
             => Closer(k, 2)' \/ Served(k)' \/ Closer(k, 0)
        /\ IInv /\ Listed /\ Closer(k, 2) /\ [Next]_vars /\ [NoTrouble]_vars
             => Closer(k, 2)' \/ Served(k)' \/ Closer(k, 0)
        /\ IInv /\ Listed /\ Closer(k, 2) /\ <<Launch \/ Loop>>_vars /\ [NoTrouble]_vars
             => Closer(k, 1)' \/ Served(k)' \/ Closer(k, 0)
        /\ IInv /\ Listed /\ Closer(k, 1) /\ [Next]_vars /\ [NoTrouble]_vars
             => Closer(k, 1)' \/ Served(k)' \/ Closer(k, 0)
        /\ IInv /\ Listed /\ Closer(k, 1) /\ <<Launch \/ Loop>>_vars /\ [NoTrouble]_vars
             => Closer(k, 0)' \/ Served(k)' \/ Closer(k, 0)
    BY CloserStays
  <2> QED
    BY <2>1, <1>4, <1>7, Invariance, ListedAlways, PTL DEF Spec, MainGoesOn, Calm
<1> QED
  BY <1>1, <1>2, <1>3, <1>4, <1>5, <1>6, <1>7, <1>8, <1>9, <1>10, Invariance, PTL
  DEF Spec, Fetches
=============================================================================
