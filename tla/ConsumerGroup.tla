---------------------------- MODULE ConsumerGroup ----------------------------
(***************************************************************************)
(* Several ACM processes, started and restarted by supervisord             *)
(* (src/supervisord.conf), in one Kafka consumer group.                    *)
(*                                                                         *)
(* Each process is the run loop of CodecService seen from outside: take a  *)
(* message, answer it into output_msg_stream, publish the stream.  No      *)
(* configuration of the repository turns enable.auto.commit off and the    *)
(* code never commits, closes or flushes: librdkafka stores the offset of  *)
(* a message when consume() returns it and commits what is stored from     *)
(* time to time and when a partition is revoked.  With                     *)
(* auto.offset.reset=smallest (src/config/aem.properties) a partition      *)
(* nothing was committed for is read from its first message.               *)
(***************************************************************************)
EXTENDS Naturals, FiniteSets

CONSTANTS
  Processes,        \* the numprocs processes of supervisord.conf
  Partitions,       \* partitions of the consumed topic
  Nobody,           \* the owner of a partition that is not assigned
  MaxMessages,      \* bound: messages appended to a partition
  MaxDisruptions,   \* bound: processes that end, and evictions
  MaxRebalances     \* bound: partitions revoked in good order

ASSUME GroupAssumption ==
  /\ IsFiniteSet(Processes)
  /\ Nobody \notin Processes
  /\ MaxMessages \in Nat
  /\ MaxDisruptions \in Nat
  /\ MaxRebalances \in Nat

VARIABLES
  log,          \* messages in each partition
  committed,    \* messages of each partition the group has committed
  owner,        \* the member the coordinator assigned each partition to
  running,      \* processes that are up
  assigned,     \* the partitions each process believes to be its own
  position,     \* messages of a partition consume() got to, and has stored
  hand,         \* the messages in process_message(), at most one a process
  held,         \* answers in output_msg_stream, not yet published
  queue,        \* records in the producer's queue: the messages each answers
  delivered,    \* messages whose answer reached the published topic
  lost,         \* history: messages an answer to which was dropped
  taken,        \* history: how often each message was returned by consume()
  disruptions,  \* history: processes that ended, and evictions
  rebalances

topic   == <<log, committed, owner, rebalances>>
member  == <<running, assigned, position>>
work    == <<hand, held, queue>>
history == <<delivered, lost, taken, disruptions>>
vars    == <<topic, member, work, history>>

Offsets == 1..MaxMessages
Message == Partitions \X Offsets

(* The coordinator and the process agree that p is the process's. *)
Owns(c, p) == owner[p] = c /\ p \in assigned[c]

InHands(c) == hand[c] \cup held[c] \cup UNION queue[c]

Init ==
  /\ log = [p \in Partitions |-> 0]
  /\ committed = [p \in Partitions |-> 0]
  /\ owner = [p \in Partitions |-> Nobody]
  /\ running = Processes
  /\ assigned = [c \in Processes |-> {}]
  /\ position = [c \in Processes |-> [p \in Partitions |-> 0]]
  /\ hand = [c \in Processes |-> {}]
  /\ held = [c \in Processes |-> {}]
  /\ queue = [c \in Processes |-> {}]
  /\ delivered = {}
  /\ lost = {}
  /\ taken = [m \in Message |-> 0]
  /\ disruptions = 0
  /\ rebalances = 0

MessageArrives(p) ==
  /\ log[p] < MaxMessages
  /\ log' = [log EXCEPT ![p] = @ + 1]
  /\ UNCHANGED <<committed, owner, rebalances, member, work, history>>

-----------------------------------------------------------------------------
(* supervisord *)

(* Mutant: autorestart=false. *)
StartOnce(c) ==
  /\ disruptions = 0
  /\ c \notin running
  /\ running' = running \cup {c}
  /\ UNCHANGED <<topic, assigned, position, work, history>>

(* autostart=true and autorestart=true. *)
Start(c) ==
  /\ c \notin running
  /\ running' = running \cup {c}
  /\ UNCHANGED <<topic, assigned, position, work, history>>

(* The process crashes, or exits after a signal or a metadata error:       *)
(* main() calls std::exit(), so neither close() nor flush() runs, and      *)
(* nothing the process held survives.                                      *)
End(c) ==
  /\ c \in running
  /\ disruptions < MaxDisruptions
  /\ disruptions' = disruptions + 1
  /\ running' = running \ {c}
  /\ assigned' = [assigned EXCEPT ![c] = {}]
  /\ lost' = lost \cup InHands(c)
  /\ hand' = [hand EXCEPT ![c] = {}]
  /\ held' = [held EXCEPT ![c] = {}]
  /\ queue' = [queue EXCEPT ![c] = {}]
  /\ UNCHANGED <<topic, position, delivered, taken>>

-----------------------------------------------------------------------------
(* The group coordinator and librdkafka's side of it *)

Assign(c, p) ==
  /\ c \in running
  /\ owner[p] = Nobody
  /\ p \notin assigned[c]
  /\ owner' = [owner EXCEPT ![p] = c]
  /\ assigned' = [assigned EXCEPT ![c] = @ \cup {p}]
  /\ position' = [position EXCEPT ![c][p] = committed[p]]
  /\ UNCHANGED <<log, committed, rebalances, running, work, history>>

(* Mutant: nothing is committed on revocation. *)
RevokeWithoutCommit(c, p) ==
  /\ Owns(c, p)
  /\ rebalances < MaxRebalances
  /\ rebalances' = rebalances + 1
  /\ owner' = [owner EXCEPT ![p] = Nobody]
  /\ assigned' = [assigned EXCEPT ![c] = @ \ {p}]
  /\ UNCHANGED <<log, committed, running, position, work, history>>

(* A partition is taken away in good order: what is stored is committed    *)
(* first, the offset of a message still in hand included.                  *)
Revoke(c, p) ==
  /\ Owns(c, p)
  /\ rebalances < MaxRebalances
  /\ rebalances' = rebalances + 1
  /\ committed' = [committed EXCEPT ![p] = position[c][p]]
  /\ owner' = [owner EXCEPT ![p] = Nobody]
  /\ assigned' = [assigned EXCEPT ![c] = @ \ {p}]
  /\ UNCHANGED <<log, running, position, work, history>>

(* Mutant: the coordinator accepts a commit of a member it evicted. *)
AutoCommitUnfenced(c) ==
  /\ c \in running
  /\ committed' = [p \in Partitions |->
                     IF p \in assigned[c] THEN position[c][p] ELSE committed[p]]
  /\ UNCHANGED <<log, owner, rebalances, member, work, history>>

(* The commit every auto.commit.interval.ms; the coordinator refuses it    *)
(* for partitions the process no longer owns.                              *)
AutoCommit(c) ==
  /\ c \in running
  /\ committed' = [p \in Partitions |->
                     IF Owns(c, p) THEN position[c][p] ELSE committed[p]]
  /\ UNCHANGED <<log, owner, rebalances, member, work, history>>

(* The coordinator gives up on a member that is alive (a lost connection,  *)
(* a call that took too long); the member goes on consuming.               *)
Evict(c) ==
  /\ c \in running
  /\ \E p \in Partitions : Owns(c, p)
  /\ disruptions < MaxDisruptions
  /\ disruptions' = disruptions + 1
  /\ owner' = [p \in Partitions |-> IF owner[p] = c THEN Nobody ELSE owner[p]]
  /\ UNCHANGED <<log, committed, rebalances, member, work, delivered, lost, taken>>

(* The evicted member finds out. *)
Notice(c, p) ==
  /\ p \in assigned[c]
  /\ owner[p] # c
  /\ assigned' = [assigned EXCEPT ![c] = @ \ {p}]
  /\ UNCHANGED <<topic, running, position, work, history>>

(* The session of a process that ended times out. *)
Expire(p) ==
  /\ owner[p] \in Processes
  /\ ~Owns(owner[p], p)
  /\ owner' = [owner EXCEPT ![p] = Nobody]
  /\ UNCHANGED <<log, committed, rebalances, member, work, history>>

-----------------------------------------------------------------------------
(* The run loop *)

(* Mutant: the offset stored is one too far. *)
ConsumeStoresNext(c, p) ==
  /\ c \in running
  /\ hand[c] = {}
  /\ p \in assigned[c]
  /\ position[c][p] < log[p]
  /\ hand' = [hand EXCEPT ![c] = {<<p, position[c][p] + 1>>}]
  /\ taken' = [taken EXCEPT ![<<p, position[c][p] + 1>>] = @ + 1]
  /\ position' = [position EXCEPT ![c][p] = @ + 2]
  /\ UNCHANGED <<topic, running, assigned, held, queue, delivered, lost, disruptions>>

Consume(c, p) ==
  /\ c \in running
  /\ hand[c] = {}
  /\ p \in assigned[c]
  /\ position[c][p] < log[p]
  /\ hand' = [hand EXCEPT ![c] = {<<p, position[c][p] + 1>>}]
  /\ taken' = [taken EXCEPT ![<<p, position[c][p] + 1>>] = @ + 1]
  /\ position' = [position EXCEPT ![c][p] = @ + 1]
  /\ UNCHANGED <<topic, running, assigned, held, queue, delivered, lost, disruptions>>

(* The answer to an empty message stays in the stream (msg->len() is 0). *)
Hold(c) ==
  /\ hand[c] # {}
  /\ held' = [held EXCEPT ![c] = @ \cup hand[c]]
  /\ hand' = [hand EXCEPT ![c] = {}]
  /\ UNCHANGED <<topic, member, queue, history>>

(* produce() accepts the stream; the text of an error event, which is not  *)
(* empty either, makes it publish what the stream holds without a message. *)
Publish(c) ==
  /\ hand[c] \cup held[c] # {}
  /\ queue' = [queue EXCEPT ![c] = @ \cup {held[c] \cup hand[c]}]
  /\ hand' = [hand EXCEPT ![c] = {}]
  /\ held' = [held EXCEPT ![c] = {}]
  /\ UNCHANGED <<topic, member, history>>

(* produce() refuses the stream: it is dropped all the same. *)
PublishRefused(c) ==
  /\ hand[c] \cup held[c] # {}
  /\ lost' = lost \cup held[c] \cup hand[c]
  /\ hand' = [hand EXCEPT ![c] = {}]
  /\ held' = [held EXCEPT ![c] = {}]
  /\ UNCHANGED <<topic, member, queue, delivered, taken, disruptions>>

(* librdkafka's sender thread delivers a record, or gives up on it. *)
Deliver(c, record) ==
  /\ record \in queue[c]
  /\ queue' = [queue EXCEPT ![c] = @ \ {record}]
  /\ delivered' = delivered \cup record
  /\ UNCHANGED <<topic, member, hand, held, lost, taken, disruptions>>

DeliveryFails(c, record) ==
  /\ record \in queue[c]
  /\ queue' = [queue EXCEPT ![c] = @ \ {record}]
  /\ lost' = lost \cup record
  /\ UNCHANGED <<topic, member, hand, held, delivered, taken, disruptions>>

(* Mutant: output_msg_stream does not survive a relaunch. *)
RelaunchClearsStream(c) ==
  /\ c \in running
  /\ hand[c] = {}
  /\ lost' = lost \cup UNION queue[c]
  /\ queue' = [queue EXCEPT ![c] = {}]
  /\ held' = [held EXCEPT ![c] = {}]
  /\ UNCHANGED <<topic, member, hand, delivered, taken, disruptions>>

(* An error event leaves the consume loop: launch_producer() replaces the  *)
(* producer and its queue with it, the stream stays.                       *)
Relaunch(c) ==
  /\ c \in running
  /\ hand[c] = {}
  /\ lost' = lost \cup UNION queue[c]
  /\ queue' = [queue EXCEPT ![c] = {}]
  /\ UNCHANGED <<topic, member, hand, held, delivered, taken, disruptions>>

Handle(c) == Hold(c) \/ Publish(c) \/ PublishRefused(c)

Next ==
  \/ \E p \in Partitions : MessageArrives(p) \/ Expire(p)
  \/ \E c \in Processes :
       \/ Start(c) \/ End(c) \/ AutoCommit(c) \/ Evict(c)
       \/ Handle(c) \/ Relaunch(c)
       \/ \E p \in Partitions :
            Assign(c, p) \/ Revoke(c, p) \/ Notice(c, p) \/ Consume(c, p)
       \/ \E record \in queue[c] : Deliver(c, record) \/ DeliveryFails(c, record)

Spec == Init /\ [][Next]_vars

(* supervisord restarts, the coordinator expires and assigns, timers fire, *)
(* and a process keeps handling what it took.  A partition may move any    *)
(* number of times up to the bounds, so being assigned one and consuming   *)
(* from it only has to be possible again and again.                        *)
Fairness ==
  /\ \A p \in Partitions : WF_vars(Expire(p)) /\ WF_vars(\E c \in Processes : Assign(c, p))
  /\ \A c \in Processes :
       /\ WF_vars(Start(c)) /\ WF_vars(AutoCommit(c))
       /\ WF_vars(hand[c] # {} /\ Handle(c))
       /\ \A p \in Partitions : WF_vars(Notice(c, p)) /\ SF_vars(Consume(c, p))

FairSpec == Spec /\ Fairness

-----------------------------------------------------------------------------
(* Properties *)

(* The variables keep their types; neither the group's offset nor the      *)
(* position of a process gets past the end of a partition.                 *)
TypeOK ==
  /\ log \in [Partitions -> 0..MaxMessages]
  /\ committed \in [Partitions -> Nat]
  /\ owner \in [Partitions -> Processes \cup {Nobody}]
  /\ running \subseteq Processes
  /\ assigned \in [Processes -> SUBSET Partitions]
  /\ position \in [Processes -> [Partitions -> Nat]]
  /\ hand \in [Processes -> SUBSET Message]
  /\ held \in [Processes -> SUBSET Message]
  /\ queue \in [Processes -> SUBSET SUBSET Message]
  /\ delivered \subseteq Message
  /\ lost \subseteq Message
  /\ taken \in [Message -> Nat]
  /\ disruptions \in 0..MaxDisruptions
  /\ rebalances \in 0..MaxRebalances
  /\ \A p \in Partitions : committed[p] \leq log[p]
  /\ \A c \in Processes, p \in Partitions : position[c][p] \leq log[p]

(* However processes end, are evicted and exchange partitions, the group   *)
(* never skips a message: what it committed was returned by consume() to   *)
(* some process (acm.cpp:1887).                                            *)
NothingSkipped ==
  \A p \in Partitions : \A n \in 1..committed[p] : taken[<<p, n>>] > 0

(* A message that was taken is answered on the published topic, still in   *)
(* some process, or was dropped by a named failure: an end of the process, *)
(* a relaunch, a refused or an undelivered record (acm.cpp:1885-1940).     *)
TakenAccounted ==
  \A m \in Message : taken[m] > 0 =>
    m \in delivered \cup lost \cup UNION {InHands(c) : c \in Processes}

(* A message is taken again only because a process ended or was evicted,   *)
(* once for each time that happened: partitions that move in good order    *)
(* repeat nothing.                                                         *)
RedeliveryNeedsDisruption ==
  \A m \in Message : taken[m] \leq 1 + disruptions

(* The group's offset never goes back: a process that lost its partition   *)
(* cannot undo what the next owner committed.                              *)
CommitsAdvance == [][\A p \in Partitions : committed'[p] \geq committed[p]]_vars

(* supervisord keeps the group going: a message of the topic is eventually *)
(* behind the committed offset, whichever processes ended on the way.      *)
EveryMessageCommitted ==
  \A p \in Partitions, n \in Offsets : log[p] >= n ~> committed[p] >= n
=============================================================================
