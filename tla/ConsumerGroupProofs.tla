------------------------- MODULE ConsumerGroupProofs -------------------------
(***************************************************************************)
(* Theorems of ConsumerGroup for any number of processes, partitions,      *)
(* messages, disruptions and rebalances.                                   *)
(***************************************************************************)
EXTENDS ConsumerGroup, FiniteSetTheorems, TLAPS

(* The owner of a partition is never behind the group's offset ...         *)
OwnerAhead ==
  \A c \in Processes, p \in Partitions : Owns(c, p) => position[c][p] >= committed[p]

(* ... and whoever believes to own it has seen what it stands behind, or   *)
(* another process has.                                                    *)
PositionsSeen ==
  \A c \in Processes, p \in Partitions :
    p \in assigned[c] => \A n \in 1..position[c][p] : taken[<<p, n>>] > 0

IInv == TypeOK /\ OwnerAhead /\ PositionsSeen /\ NothingSkipped

-----------------------------------------------------------------------------
LEMMA TypeInit == Init => TypeOK
<1> SUFFICES ASSUME Init PROVE TypeOK
  OBVIOUS
<1>1. 0 \in 0..MaxMessages /\ 0 \in 0..MaxDisruptions /\ 0 \in 0..MaxRebalances
  BY GroupAssumption
<1> QED
  BY <1>1 DEF Init, TypeOK

LEMMA TypeStep == TypeOK /\ [Next]_vars => TypeOK'
<1> SUFFICES ASSUME TypeOK, [Next]_vars PROVE TypeOK'
  OBVIOUS
<1> USE GroupAssumption DEF TypeOK
<1>1. ASSUME NEW p \in Partitions, MessageArrives(p) PROVE TypeOK'
  <2>1. log[p] \in Nat /\ MaxMessages \in Nat /\ log[p] + 1 \in 0..MaxMessages
    BY <1>1 DEF MessageArrives
  <2>2. /\ log' \in [Partitions -> 0..MaxMessages]
        /\ \A q \in Partitions : log'[q] \in Nat /\ log[q] \in Nat /\ log'[q] >= log[q]
    BY <1>1, <2>1 DEF MessageArrives
  <2>3. UNCHANGED <<committed, owner, rebalances, member, work, history>>
    BY <1>1 DEF MessageArrives
  <2> HIDE DEF TypeOK
  <2>4. TypeOK
    OBVIOUS
  <2> QED
    BY <2>2, <2>3, <2>4 DEF TypeOK, member, work, history
<1>2. ASSUME NEW p \in Partitions, Expire(p) PROVE TypeOK'
  BY <1>2 DEF Expire, member, work, history
<1>3. ASSUME NEW c \in Processes, Start(c) PROVE TypeOK'
  BY <1>3 DEF Start, topic, work, history
<1>4. ASSUME NEW c \in Processes, End(c) PROVE TypeOK'
  BY <1>4 DEF End, topic, InHands
<1>5. ASSUME NEW c \in Processes, AutoCommit(c) PROVE TypeOK'
  BY <1>5 DEF AutoCommit, member, work, history
<1>6. ASSUME NEW c \in Processes, Evict(c) PROVE TypeOK'
  BY <1>6 DEF Evict, member, work
<1>7. ASSUME NEW c \in Processes, Handle(c) PROVE TypeOK'
  <2>1. CASE Hold(c)
    BY <2>1 DEF Hold, topic, member, history
  <2>2. CASE Publish(c)
    BY <2>2 DEF Publish, topic, member, history
  <2>3. CASE PublishRefused(c)
    BY <2>3 DEF PublishRefused, topic, member
  <2> QED
    BY <1>7, <2>1, <2>2, <2>3 DEF Handle
<1>8. ASSUME NEW c \in Processes, Relaunch(c) PROVE TypeOK'
  BY <1>8 DEF Relaunch, topic, member
<1>9. ASSUME NEW c \in Processes, NEW p \in Partitions, Assign(c, p) PROVE TypeOK'
  BY <1>9 DEF Assign, work, history
<1>10. ASSUME NEW c \in Processes, NEW p \in Partitions, Revoke(c, p) PROVE TypeOK'
  BY <1>10 DEF Revoke, work, history
<1>11. ASSUME NEW c \in Processes, NEW p \in Partitions, Notice(c, p) PROVE TypeOK'
  BY <1>11 DEF Notice, topic, work, history
<1>12. ASSUME NEW c \in Processes, NEW p \in Partitions, Consume(c, p) PROVE TypeOK'
  <2>1. <<p, position[c][p] + 1>> \in Message
    BY <1>12 DEF Consume, Message, Offsets
  <2>2. hand' \in [Processes -> SUBSET Message] /\ taken' \in [Message -> Nat]
    BY <1>12, <2>1 DEF Consume
  <2>3. /\ position' \in [Processes -> [Partitions -> Nat]]
        /\ \A d \in Processes, q \in Partitions : position'[d][q] \leq log[q]
    BY <1>12 DEF Consume
  <2>4. UNCHANGED <<topic, running, assigned, held, queue, delivered, lost, disruptions>>
    BY <1>12 DEF Consume
  <2>5. UNCHANGED <<log, committed, owner, rebalances, running, assigned, held, queue,
                    delivered, lost, disruptions>>
    BY <2>4 DEF topic
  <2> QED
    BY <2>2, <2>3, <2>5
<1>13. ASSUME NEW c \in Processes, NEW record \in queue[c],
              Deliver(c, record) \/ DeliveryFails(c, record)
       PROVE TypeOK'
  <2>1. record \subseteq Message
    OBVIOUS
  <2>2. CASE Deliver(c, record)
    BY <2>1, <2>2 DEF Deliver, topic, member
  <2>3. CASE DeliveryFails(c, record)
    BY <2>1, <2>3 DEF DeliveryFails, topic, member
  <2> QED
    BY <1>13, <2>2, <2>3
<1>14. CASE UNCHANGED vars
  BY <1>14 DEF vars, topic, member, work, history
<1> QED
  BY <1>1, <1>2, <1>3, <1>4, <1>5, <1>6, <1>7, <1>8, <1>9, <1>10, <1>11, <1>12, <1>13, <1>14
     DEF Next

(* The variables of the group keep their types, and neither offsets nor    *)
(* positions pass the end of a partition.                                  *)
THEOREM TypeCorrect == Spec => []TypeOK
BY TypeInit, TypeStep, PTL DEF Spec

-----------------------------------------------------------------------------
(* Offsets and positions.                                                  *)

(* What the offsets and positions are made of; most steps leave it alone.  *)
offsets == <<committed, owner, assigned, position, taken>>

LEMMA OffsetSteps ==
  [Next]_vars =>
    \/ UNCHANGED offsets
    \/ \E p \in Partitions : Expire(p)
    \/ \E c \in Processes : End(c) \/ AutoCommit(c) \/ Evict(c)
    \/ \E c \in Processes, p \in Partitions :
         Assign(c, p) \/ Revoke(c, p) \/ Notice(c, p) \/ Consume(c, p)
BY DEF Next, vars, offsets, MessageArrives, Start, Handle, Hold, Publish, PublishRefused,
       Relaunch, Deliver, DeliveryFails, topic, member, work, history

(* Only the owner of a partition moves its offset, to its own position.    *)
LEMMA CommitSteps ==
  TypeOK /\ [Next]_vars =>
    \A p \in Partitions :
      \/ committed'[p] = committed[p]
      \/ \E c \in Processes : Owns(c, p) /\ committed'[p] = position[c][p]
<1> SUFFICES ASSUME TypeOK, [Next]_vars, NEW p \in Partitions
             PROVE  \/ committed'[p] = committed[p]
                    \/ \E c \in Processes : Owns(c, p) /\ committed'[p] = position[c][p]
  OBVIOUS
<1>1. committed \in [Partitions -> Nat]
  BY DEF TypeOK
<1>2. CASE UNCHANGED committed
  BY <1>2
<1>3. CASE \E c \in Processes : AutoCommit(c)
  BY <1>3 DEF AutoCommit
<1>4. CASE \E c \in Processes, q \in Partitions : Revoke(c, q)
  BY <1>1, <1>4 DEF Revoke
<1> QED
  BY <1>2, <1>3, <1>4, OffsetSteps
     DEF offsets, Expire, End, Evict, Assign, Notice, Consume, topic

(* What was taken stays taken.                                             *)
LEMMA TakenSteps ==
  TypeOK /\ [Next]_vars => \A m \in Message : taken'[m] >= taken[m]
<1> SUFFICES ASSUME TypeOK, [Next]_vars, NEW m \in Message PROVE taken'[m] >= taken[m]
  OBVIOUS
<1>1. taken \in [Message -> Nat]
  BY DEF TypeOK
<1>2. CASE UNCHANGED taken
  BY <1>1, <1>2
<1>3. CASE \E c \in Processes, p \in Partitions : Consume(c, p)
  BY <1>1, <1>3 DEF Consume
<1> QED
  BY <1>2, <1>3, OffsetSteps
     DEF offsets, Expire, End, AutoCommit, Evict, Assign, Revoke, Notice, work, history

LEMMA OwnerAheadStep == IInv /\ [Next]_vars => OwnerAhead'
<1> SUFFICES ASSUME IInv, [Next]_vars,
                    NEW c \in Processes, NEW p \in Partitions, Owns(c, p)'
             PROVE  position'[c][p] >= committed'[p]
  BY DEF OwnerAhead
<1>1. /\ committed \in [Partitions -> Nat] /\ position \in [Processes -> [Partitions -> Nat]]
      /\ assigned \in [Processes -> SUBSET Partitions]
      /\ owner \in [Partitions -> Processes \cup {Nobody}]
      /\ \A d \in Processes, q \in Partitions : Owns(d, q) => position[d][q] >= committed[q]
  BY DEF IInv, TypeOK, OwnerAhead
<1>2. CASE \E d \in Processes : AutoCommit(d)
  BY <1>1, <1>2 DEF AutoCommit, Owns, member
<1>3. CASE \E d \in Processes, q \in Partitions : Assign(d, q)
  BY <1>1, <1>3 DEF Assign, Owns
<1>4. CASE \E d \in Processes, q \in Partitions : Revoke(d, q)
  BY <1>1, <1>4, GroupAssumption DEF Revoke, Owns
<1>5. CASE \E d \in Processes, q \in Partitions : Consume(d, q)
  BY <1>1, <1>5 DEF Consume, Owns, topic
<1>6. CASE \E d \in Processes, q \in Partitions : Notice(d, q)
  BY <1>1, <1>6 DEF Notice, Owns, topic
<1>7. CASE \E d \in Processes : End(d) \/ Evict(d)
  BY <1>1, <1>7, GroupAssumption DEF End, Evict, Owns, topic, member
<1>8. CASE \E q \in Partitions : Expire(q)
  BY <1>1, <1>8, GroupAssumption DEF Expire, Owns, member
<1>9. CASE UNCHANGED offsets
  BY <1>1, <1>9 DEF offsets, Owns
<1> QED
  BY <1>2, <1>3, <1>4, <1>5, <1>6, <1>7, <1>8, <1>9, OffsetSteps

LEMMA PositionsSeenStep == IInv /\ [Next]_vars => PositionsSeen'
<1> SUFFICES ASSUME IInv, [Next]_vars,
                    NEW c \in Processes, NEW p \in Partitions, p \in assigned'[c],
                    NEW n \in 1..position'[c][p]
             PROVE  taken'[<<p, n>>] > 0
  BY DEF PositionsSeen
<1>1. /\ committed \in [Partitions -> Nat] /\ position \in [Processes -> [Partitions -> Nat]]
      /\ assigned \in [Processes -> SUBSET Partitions]
      /\ taken \in [Message -> Nat] /\ taken' \in [Message -> Nat]
  BY TypeStep DEF IInv, TypeOK
<1>2. position'[c][p] <= log'[p] /\ log'[p] \in 0..MaxMessages /\ position'[c][p] \in Nat
  BY TypeStep DEF IInv, TypeOK
<1>3. <<p, n>> \in Message /\ n \in Nat
  BY <1>2, GroupAssumption DEF Message, Offsets
<1>4. taken'[<<p, n>>] >= taken[<<p, n>>]
  BY <1>3, TakenSteps DEF IInv
<1>5. SUFFICES \/ taken[<<p, n>>] > 0
               \/ \E d \in Processes, q \in Partitions :
                    Consume(d, q) /\ <<p, n>> = <<q, position[d][q] + 1>>
  <2>1. CASE taken[<<p, n>>] > 0
    BY <1>1, <1>3, <1>4, <2>1
  <2>2. ASSUME NEW d \in Processes, NEW q \in Partitions,
               Consume(d, q), <<p, n>> = <<q, position[d][q] + 1>>
        PROVE  taken'[<<p, n>>] > 0
    <3>1. taken'[<<p, n>>] = taken[<<p, n>>] + 1
      BY <1>1, <1>3, <2>2 DEF Consume
    <3> QED
      BY <1>1, <1>3, <3>1
  <2> QED
    BY <1>5, <2>1, <2>2
<1>6. CASE p \in assigned[c] /\ n \in 1..position[c][p]
  BY <1>6 DEF IInv, PositionsSeen
<1>7. CASE \E d \in Processes, q \in Partitions : Assign(d, q)
  BY <1>1, <1>6, <1>7 DEF Assign, IInv, NothingSkipped
<1>8. CASE \E d \in Processes, q \in Partitions : Consume(d, q)
  <2> PICK d \in Processes, q \in Partitions : Consume(d, q)
    BY <1>8
  <2>1. p \in assigned[c]
    BY DEF Consume
  <2>2. CASE d = c /\ q = p
    <3>1. position'[c][p] = position[c][p] + 1
      BY <1>1, <2>2 DEF Consume
    <3>2. position[c][p] \in Nat
      BY <1>1
    <3>3. n \in 1..(position[c][p] + 1)
      BY <3>1
    <3>4. n \in 1..position[c][p] \/ n = position[c][p] + 1
      BY <3>2, <3>3
    <3> QED
      BY <1>6, <2>1, <2>2, <3>4
  <2>3. CASE ~(d = c /\ q = p)
    BY <1>1, <1>6, <2>1, <2>3 DEF Consume
  <2> QED
    BY <2>2, <2>3
<1>9. CASE \E d \in Processes, q \in Partitions : Revoke(d, q) \/ Notice(d, q)
  BY <1>1, <1>6, <1>9 DEF Revoke, Notice
<1>10. CASE \E d \in Processes : End(d) \/ AutoCommit(d) \/ Evict(d)
  BY <1>1, <1>6, <1>10 DEF End, AutoCommit, Evict, member
<1>11. CASE UNCHANGED offsets \/ \E q \in Partitions : Expire(q)
  BY <1>6, <1>11 DEF offsets, Expire, member
<1> QED
  BY <1>7, <1>8, <1>9, <1>10, <1>11, OffsetSteps

LEMMA NothingSkippedStep == IInv /\ [Next]_vars => NothingSkipped'
<1> SUFFICES ASSUME IInv, [Next]_vars,
                    NEW p \in Partitions, NEW n \in 1..committed'[p]
             PROVE  taken'[<<p, n>>] > 0
  BY DEF NothingSkipped
<1>1. committed'[p] \in Nat /\ committed'[p] <= log'[p] /\ log'[p] \in 0..MaxMessages
  BY TypeStep DEF IInv, TypeOK
<1>2. <<p, n>> \in Message
  BY <1>1, GroupAssumption DEF Message, Offsets
<1>3. taken[<<p, n>>] > 0
  BY CommitSteps DEF IInv, NothingSkipped, PositionsSeen, Owns
<1>4. taken[<<p, n>>] \in Nat /\ taken'[<<p, n>>] \in Nat
  BY <1>2, TypeStep DEF IInv, TypeOK
<1> QED
  BY <1>2, <1>3, <1>4, TakenSteps DEF IInv

LEMMA IInvInit == Init => IInv
<1> SUFFICES ASSUME Init PROVE IInv
  OBVIOUS
<1>1. OwnerAhead /\ PositionsSeen /\ NothingSkipped
  BY DEF Init, OwnerAhead, PositionsSeen, NothingSkipped, Owns
<1> QED
  BY <1>1, TypeInit DEF IInv

LEMMA IInvStep == IInv /\ [Next]_vars => IInv'
BY TypeStep, OwnerAheadStep, PositionsSeenStep, NothingSkippedStep DEF IInv

LEMMA IInvAlways == Spec => []IInv
BY IInvInit, IInvStep, PTL DEF Spec

(* The group never commits past a message no process has taken, however    *)
(* many processes end or are evicted, and in whatever order.               *)
THEOREM NeverSkips == Spec => []NothingSkipped
<1>1. IInv => NothingSkipped
  BY DEF IInv
<1> QED
  BY <1>1, IInvAlways, PTL

(* The committed offset of a partition never goes back.                    *)
THEOREM CommitsOnlyAdvance == Spec => CommitsAdvance
<1>1. IInv /\ [Next]_vars => [\A p \in Partitions : committed'[p] >= committed[p]]_vars
  <2> SUFFICES ASSUME IInv, [Next]_vars, NEW p \in Partitions
               PROVE  committed'[p] >= committed[p]
    OBVIOUS
  <2>1. committed[p] \in Nat
    BY DEF IInv, TypeOK
  <2> QED
    BY <2>1, CommitSteps DEF IInv, OwnerAhead
<1> QED
  BY <1>1, IInvAlways, PTL DEF Spec, CommitsAdvance

-----------------------------------------------------------------------------
(* What becomes of the messages.                                           *)

(* Where a message that was taken can be.                                  *)
Placed(m) == m \in delivered \/ m \in lost \/ \E c \in Processes : m \in InHands(c)

(* No step makes a message disappear from all the places it can be.        *)
LEMMA PlacedStays ==
  TypeOK /\ [Next]_vars => \A m \in Message : Placed(m) => Placed(m)'
<1> SUFFICES ASSUME TypeOK, [Next]_vars, NEW m \in Message, Placed(m) PROVE Placed(m)'
  OBVIOUS
<1>1. /\ hand \in [Processes -> SUBSET Message] /\ held \in [Processes -> SUBSET Message]
      /\ queue \in [Processes -> SUBSET SUBSET Message]
  BY DEF TypeOK
<1>2. CASE \E c \in Processes : End(c)
  BY <1>1, <1>2 DEF Placed, InHands, End
<1>3. CASE \E c \in Processes : Hold(c)
  BY <1>1, <1>3 DEF Placed, InHands, Hold, history
<1>4. CASE \E c \in Processes : Publish(c)
  <2> PICK c \in Processes : Publish(c)
    BY <1>4
  <2>1. /\ InHands(c)' = InHands(c)
        /\ \A d \in Processes \ {c} : InHands(d)' = InHands(d)
    <3>1. /\ hand'[c] = {} /\ held'[c] = {}
          /\ queue'[c] = queue[c] \cup {held[c] \cup hand[c]}
      BY <1>1 DEF Publish
    <3>2. UNION queue'[c] = (UNION queue[c]) \cup held[c] \cup hand[c]
      BY <3>1
    <3>3. \A d \in Processes \ {c} :
            hand'[d] = hand[d] /\ held'[d] = held[d] /\ queue'[d] = queue[d]
      BY <1>1 DEF Publish
    <3> QED
      BY <3>1, <3>2, <3>3 DEF InHands
  <2> QED
    BY <2>1 DEF Placed, Publish, history
<1>5. CASE \E c \in Processes : PublishRefused(c)
  BY <1>1, <1>5 DEF Placed, InHands, PublishRefused
<1>6. CASE \E c \in Processes : Relaunch(c)
  BY <1>1, <1>6 DEF Placed, InHands, Relaunch
<1>7. CASE \E c \in Processes : \E r \in queue[c] : Deliver(c, r) \/ DeliveryFails(c, r)
  BY <1>1, <1>7 DEF Placed, InHands, Deliver, DeliveryFails
<1>8. CASE \E c \in Processes, p \in Partitions : Consume(c, p)
  BY <1>1, <1>8 DEF Placed, InHands, Consume
<1>9. CASE UNCHANGED <<hand, held, queue, delivered, lost>>
  BY <1>9 DEF Placed, InHands
<1> QED
  BY <1>2, <1>3, <1>4, <1>5, <1>6, <1>7, <1>8, <1>9
     DEF Next, Handle, vars, MessageArrives, Expire, Start, AutoCommit, Evict, Assign, Revoke,
         Notice, work, history

LEMMA TakenAccountedStep ==
  TypeOK /\ TakenAccounted /\ [Next]_vars => TakenAccounted'
<1> SUFFICES ASSUME TypeOK, TakenAccounted, [Next]_vars,
                    NEW m \in Message, taken'[m] > 0
             PROVE  Placed(m)'
  BY DEF TakenAccounted, Placed
<1>1. taken \in [Message -> Nat] /\ hand \in [Processes -> SUBSET Message]
  BY DEF TypeOK
<1>2. CASE taken[m] > 0
  BY <1>2, PlacedStays DEF TakenAccounted, Placed
<1>3. CASE \E c \in Processes, p \in Partitions : Consume(c, p)
  <2> PICK c \in Processes, p \in Partitions : Consume(c, p)
    BY <1>3
  <2>1. CASE m = <<p, position[c][p] + 1>>
    BY <1>1, <2>1 DEF Consume, Placed, InHands
  <2>2. CASE m # <<p, position[c][p] + 1>>
    BY <1>1, <1>2, <2>2 DEF Consume
  <2> QED
    BY <2>1, <2>2
<1>4. CASE UNCHANGED taken
  BY <1>2, <1>4
<1> QED
  BY <1>3, <1>4, OffsetSteps
     DEF offsets, Expire, End, AutoCommit, Evict, Assign, Revoke, Notice, work, history

(* A message that was taken never vanishes without one of the named        *)
(* failures, whatever the processes of the group do.                       *)
THEOREM AlwaysAccounted == Spec => []TakenAccounted
<1>1. Init => TypeOK /\ TakenAccounted
  BY TypeInit DEF Init, TakenAccounted
<1>2. TypeOK /\ TakenAccounted /\ [Next]_vars => (TypeOK /\ TakenAccounted)'
  BY TypeStep, TakenAccountedStep
<1> QED
  BY <1>1, <1>2, PTL DEF Spec

(* The consumer never commits by itself and nothing is flushed, so a        *)
(* committed message need not be answered; but it cannot be missing either: *)
(* it is on the published topic, in a process, or in what a named failure   *)
(* dropped (acm.cpp:1887-1940).                                             *)
CommittedAccounted ==
  \A p \in Partitions : \A n \in 1..committed[p] :
    <<p, n>> \in delivered \cup lost \cup UNION {InHands(c) : c \in Processes}

(* So what is committed and was not dropped is answered as soon as no       *)
(* process has anything left to do.                                         *)
QuietAnswered ==
  (\A c \in Processes : InHands(c) = {}) =>
    \A p \in Partitions : \A n \in 1..committed[p] : <<p, n>> \in delivered \cup lost

(* The group answers what it commits or can name the failure, for any       *)
(* number of processes, partitions, crashes and evictions.                  *)
THEOREM CommittedAnswered == Spec => [](CommittedAccounted /\ QuietAnswered)
<1>1. IInv /\ TakenAccounted => CommittedAccounted
  <2> SUFFICES ASSUME IInv, TakenAccounted, NEW p \in Partitions, NEW n \in 1..committed[p]
               PROVE  <<p, n>> \in delivered \cup lost \cup UNION {InHands(c) : c \in Processes}
    BY DEF CommittedAccounted
  <2>1. n \in Offsets
    <3>1. committed[p] \in Nat /\ log[p] \in 0..MaxMessages /\ committed[p] <= log[p]
      BY DEF IInv, TypeOK
    <3> QED
      BY <3>1, GroupAssumption DEF Offsets
  <2>2. <<p, n>> \in Message /\ taken[<<p, n>>] > 0
    BY <2>1 DEF Message, IInv, NothingSkipped
  <2> QED
    BY <2>2 DEF TakenAccounted
<1>2. CommittedAccounted => QuietAnswered
  BY DEF CommittedAccounted, QuietAnswered
<1> QED
  BY <1>1, <1>2, IInvAlways, AlwaysAccounted, PTL

-----------------------------------------------------------------------------
(* How often a message is taken.                                           *)

(* The sessions that may still take message n of p, and the one the next   *)
(* owner will have if the partition has none now.                          *)
Behind(p, n) == {c \in Processes : p \in assigned[c] /\ position[c][p] < n}
Open(p, n) ==
  IF committed[p] < n /\ \A c \in Processes : ~Owns(c, p) THEN 1 ELSE 0

(* Each session takes a message once, and only a disruption opens a        *)
(* session of the partition beside another or behind the position of the   *)
(* last one.                                                               *)
Sessions ==
  \A p \in Partitions, n \in Offsets :
    taken[<<p, n>>] + Cardinality(Behind(p, n)) + Open(p, n) <= 1 + disruptions

LEMMA BehindFinite ==
  \A p, n : IsFiniteSet(Behind(p, n)) /\ Cardinality(Behind(p, n)) \in Nat
<1> TAKE p, n
<1>1. Behind(p, n) \subseteq Processes
  BY DEF Behind
<1>2. IsFiniteSet(Behind(p, n))
  BY <1>1, FS_Subset, GroupAssumption
<1> QED
  BY <1>2, FS_CardinalityType

LEMMA SessionsStep == TypeOK /\ Sessions /\ [Next]_vars => Sessions'
<1> SUFFICES ASSUME TypeOK, Sessions, [Next]_vars, NEW p \in Partitions, NEW n \in Offsets
             PROVE  (taken[<<p, n>>] + Cardinality(Behind(p, n)) + Open(p, n)
                       <= 1 + disruptions)'
  BY DEF Sessions
<1> DEFINE B == Behind(p, n)
           t == taken[<<p, n>>]
           o == Open(p, n)
<1>1. /\ committed \in [Partitions -> Nat] /\ position \in [Processes -> [Partitions -> Nat]]
      /\ assigned \in [Processes -> SUBSET Partitions]
      /\ owner \in [Partitions -> Processes \cup {Nobody}]
      /\ taken \in [Message -> Nat] /\ n \in Nat
  BY DEF TypeOK, Offsets
<1>2. <<p, n>> \in Message /\ t \in Nat /\ o \in 0..1 /\ o' \in 0..1
  BY <1>1 DEF Message, Open
<1>3. t + Cardinality(B) + o <= 1 + disruptions /\ disruptions \in Nat
  BY GroupAssumption DEF Sessions, TypeOK
<1>4. IsFiniteSet(B) /\ Cardinality(B) \in Nat
  BY BehindFinite
<1>5. \A S \in SUBSET B : Cardinality(S) <= Cardinality(B) /\ Cardinality(S) \in Nat
  BY <1>4, FS_Subset, FS_CardinalityType
<1>6. SUFFICES t' + Cardinality(B') + o' <= 1 + disruptions'
  OBVIOUS
<1>7. ASSUME B' \subseteq B, t' = t, disruptions' = disruptions, o' <= o
      PROVE  t' + Cardinality(B') + o' <= 1 + disruptions'
  <2> HIDE DEF B, t, o
  <2> QED
    BY <1>2, <1>3, <1>4, <1>5, <1>7
<1>8. ASSUME B' \subseteq B, t' = t, disruptions' = disruptions + 1
      PROVE  t' + Cardinality(B') + o' <= 1 + disruptions'
  <2> HIDE DEF B, t, o
  <2> QED
    BY <1>2, <1>3, <1>4, <1>5, <1>8
<1>9. CASE \E c \in Processes : End(c) \/ Evict(c)
  <2>1. B' \subseteq B /\ t' = t /\ disruptions' = disruptions + 1
    BY <1>1, <1>9 DEF End, Evict, Behind, member
  <2> QED
    BY <1>8, <2>1
<1>10. CASE UNCHANGED <<offsets, disruptions>>
  BY <1>7, <1>10, <1>2 DEF offsets, Behind, Open, Owns
<1>11. CASE \E q \in Partitions : Expire(q)
  <2>1. B' = B /\ t' = t /\ disruptions' = disruptions
    BY <1>11 DEF Expire, Behind, member, history
  <2>2. o' = o
    BY <1>1, <1>11, GroupAssumption DEF Expire, Open, Owns, member
  <2> QED
    BY <1>2, <1>7, <2>1, <2>2
<1>12. CASE \E c \in Processes : AutoCommit(c)
  <2>1. B' = B /\ t' = t /\ disruptions' = disruptions
    BY <1>12 DEF AutoCommit, Behind, member, history
  <2>2. o' = o
    BY <1>1, <1>12 DEF AutoCommit, Open, Owns, member
  <2> QED
    BY <1>2, <1>7, <2>1, <2>2
<1>13. CASE \E c \in Processes, q \in Partitions : Notice(c, q)
  <2>1. B' \subseteq B /\ t' = t /\ disruptions' = disruptions
    BY <1>1, <1>13 DEF Notice, Behind, history
  <2>2. o' = o
    BY <1>1, <1>13 DEF Notice, Open, Owns, topic
  <2> QED
    BY <1>2, <1>7, <2>1, <2>2
<1>14. CASE \E c \in Processes, q \in Partitions : Assign(c, q)
  <2> PICK c \in Processes, q \in Partitions : Assign(c, q)
    BY <1>14
  <2>1. t' = t /\ disruptions' = disruptions
    BY DEF Assign, history
  <2>2. CASE q # p
    <3>1. B' = B /\ o' = o
      BY <1>1, <2>2, GroupAssumption DEF Assign, Behind, Open, Owns
    <3> QED
      BY <1>2, <1>7, <2>1, <3>1
  <2>3. CASE q = p
    <3>1. /\ o = IF committed[p] < n THEN 1 ELSE 0
          /\ o' = 0
      BY <1>1, <2>3, GroupAssumption DEF Assign, Open, Owns
    <3>2. B' = IF committed[p] < n THEN B \cup {c} ELSE B
      BY <1>1, <2>3 DEF Assign, Behind
    <3>3. c \notin B
      BY <2>3 DEF Assign, Behind
    <3>4. Cardinality(B \cup {c}) = Cardinality(B) + 1
      BY <1>4, <3>3, FS_AddElement
    <3> HIDE DEF B, t, o
    <3> QED
      BY <1>2, <1>3, <1>4, <2>1, <3>1, <3>2, <3>4
  <2> QED
    BY <2>2, <2>3
<1>15. CASE \E c \in Processes, q \in Partitions : Revoke(c, q)
  <2> PICK c \in Processes, q \in Partitions : Revoke(c, q)
    BY <1>15
  <2>1. t' = t /\ disruptions' = disruptions
    BY DEF Revoke, history
  <2>2. CASE q # p
    <3>1. B' = B /\ o' = o
      BY <1>1, <2>2 DEF Revoke, Behind, Open, Owns
    <3> QED
      BY <1>2, <1>7, <2>1, <3>1
  <2>3. CASE q = p
    <3>1. o' = IF c \in B THEN 1 ELSE 0
      BY <1>1, <2>3, GroupAssumption DEF Revoke, Open, Owns, Behind
    <3>2. o = 0
      BY <2>3 DEF Revoke, Open
    <3>3. B' = B \ {c}
      BY <1>1, <2>3 DEF Revoke, Behind
    <3>4. Cardinality(B \ {c}) = IF c \in B THEN Cardinality(B) - 1 ELSE Cardinality(B)
      BY <1>4, FS_RemoveElement
    <3> HIDE DEF B, t, o
    <3> QED
      BY <1>2, <1>3, <1>4, <2>1, <3>1, <3>2, <3>3, <3>4
  <2> QED
    BY <2>2, <2>3
<1>16. CASE \E c \in Processes, q \in Partitions : Consume(c, q)
  <2> PICK c \in Processes, q \in Partitions : Consume(c, q)
    BY <1>16
  <2>1. o' = o /\ disruptions' = disruptions
    BY DEF Consume, Open, Owns, topic
  <2>2. CASE <<q, position[c][q] + 1>> # <<p, n>>
    <3>1. t' = t
      BY <1>1, <1>2, <2>2 DEF Consume
    <3>2. B' \subseteq B
      BY <1>1, <2>2 DEF Consume, Behind
    <3> QED
      BY <1>2, <1>7, <2>1, <3>1, <3>2
  <2>3. CASE q = p /\ n = position[c][p] + 1
    <3>1. t' = t + 1
      BY <1>1, <1>2, <2>3 DEF Consume
    <3>2. c \in B
      BY <1>1, <2>3 DEF Consume, Behind
    <3>3. B' = B \ {c}
      BY <1>1, <2>3 DEF Consume, Behind
    <3>4. Cardinality(B \ {c}) = Cardinality(B) - 1
      BY <1>4, <3>2, FS_RemoveElement
    <3> HIDE DEF B, t, o
    <3> QED
      BY <1>2, <1>3, <1>4, <2>1, <3>1, <3>3, <3>4
  <2> QED
    BY <2>2, <2>3
<1>17. UNCHANGED offsets => disruptions' = disruptions \/ \E c \in Processes : End(c) \/ Evict(c)
  BY DEF Next, vars, MessageArrives, Expire, Start, AutoCommit, Handle, Hold, Publish,
         PublishRefused, Relaunch, Assign, Revoke, Notice, Consume, Deliver, DeliveryFails,
         work, history
<1> QED
  BY <1>9, <1>10, <1>11, <1>12, <1>13, <1>14, <1>15, <1>16, <1>17, OffsetSteps

(* A message is taken at most once more than processes ended or were       *)
(* evicted: nothing else makes the group repeat a message.                 *)
THEOREM RedeliveryBounded == Spec => []RedeliveryNeedsDisruption
<1>1. Init => TypeOK /\ Sessions
  <2> SUFFICES ASSUME Init, NEW p \in Partitions, NEW n \in Offsets
               PROVE  taken[<<p, n>>] + Cardinality(Behind(p, n)) + Open(p, n) <= 1 + disruptions
    BY TypeInit DEF Sessions
  <2>1. taken[<<p, n>>] = 0 /\ disruptions = 0 /\ Open(p, n) \in 0..1 /\ Behind(p, n) = {}
    BY DEF Init, Message, Open, Behind
  <2> QED
    BY <2>1, FS_EmptySet
<1>2. TypeOK /\ Sessions /\ [Next]_vars => (TypeOK /\ Sessions)'
  BY TypeStep, SessionsStep
<1>3. TypeOK /\ Sessions => RedeliveryNeedsDisruption
  <2> SUFFICES ASSUME TypeOK, Sessions, NEW p \in Partitions, NEW n \in Offsets
               PROVE  taken[<<p, n>>] <= 1 + disruptions
    BY DEF RedeliveryNeedsDisruption, Message
  <2>1. taken[<<p, n>>] \in Nat /\ Open(p, n) \in 0..1 /\ disruptions \in Nat
    BY GroupAssumption DEF TypeOK, Message, Open
  <2>2. Cardinality(Behind(p, n)) \in Nat
    BY BehindFinite
  <2> QED
    BY <2>1, <2>2 DEF Sessions
<1> QED
  BY <1>1, <1>2, <1>3, PTL DEF Spec
=============================================================================
