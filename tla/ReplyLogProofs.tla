--------------------------- MODULE ReplyLogProofs ---------------------------
(***************************************************************************)
(* The promise of ReplyLog: no message is answered twice and no answer     *)
(* overtakes another.  AnsweredOnceInOrder is not inductive: a step that   *)
(* publishes `open` needs to know that it is increasing itself, holds      *)
(* messages that were taken, and comes after everything published.         *)
(***************************************************************************)
EXTENDS ReplyLog, TLAPS

OpenIsNext ==
  /\ Increasing(open)
  /\ \A k \in DOMAIN open : open[k] <= taken
  /\ \A i \in DOMAIN replies : \A a \in DOMAIN replies[i], k \in DOMAIN open :
       replies[i][a] < open[k]

IInv == TypeOK /\ AnsweredOnceInOrder /\ OpenIsNext

(* The empty log is in order.  *)
LEMMA InitIInv == Init => IInv
  BY DEF Init, IInv, TypeOK, AnsweredOnceInOrder, RecordsIncrease, OpenIsNext,
         Increasing

(* Each step of the log keeps what is published and what is open in order. *)
LEMMA NextIInv == IInv /\ [Next]_vars => IInv'
<1> SUFFICES ASSUME IInv, [Next]_vars PROVE IInv'
  OBVIOUS
<1> USE DEF IInv, TypeOK
<1>1. CASE Arrive
  BY <1>1 DEF Arrive, AnsweredOnceInOrder, RecordsIncrease, OpenIsNext, Increasing
<1>2. CASE Take
  <2>1. TypeOK'
    BY <1>2 DEF Take
  <2>2. AnsweredOnceInOrder'
    BY <1>2 DEF Take, AnsweredOnceInOrder, RecordsIncrease, Increasing
  <2>3. OpenIsNext'
    <3>1. /\ DOMAIN open' = 1..(Len(open) + 1)
          /\ \A k \in DOMAIN open : open'[k] = open[k]
          /\ open'[Len(open) + 1] = taken + 1
      BY <1>2 DEF Take
    <3>2. /\ DOMAIN open = 1..Len(open)
          /\ \A k \in DOMAIN open : open[k] \in Nat
          /\ Len(open) \in Nat
      OBVIOUS
    <3>3. Increasing(open')
      <4> SUFFICES ASSUME NEW i \in DOMAIN open', NEW j \in DOMAIN open', i < j
                   PROVE  open'[i] < open'[j]
        BY DEF Increasing
      <4>1. i \in DOMAIN open /\ open[i] <= taken /\ open[i] \in Nat
        BY <3>1, <3>2 DEF OpenIsNext
      <4>2. CASE j \in DOMAIN open
        BY <3>1, <4>1, <4>2 DEF OpenIsNext, Increasing
      <4>3. CASE j = Len(open) + 1
        BY <3>1, <4>1, <4>3
      <4> QED
        BY <3>1, <3>2, <4>2, <4>3
    <3>4. \A k \in DOMAIN open' : open'[k] <= taken'
      BY <1>2, <3>1, <3>2 DEF Take, OpenIsNext
    <3>5. \A i \in DOMAIN replies : \A a \in DOMAIN replies[i] :
            replies[i][a] \in Nat /\ replies[i][a] <= taken
      BY DEF AnsweredOnceInOrder
    <3>6. \A i \in DOMAIN replies : \A a \in DOMAIN replies[i], k \in DOMAIN open' :
            replies[i][a] < open'[k]
      <4> SUFFICES ASSUME NEW i \in DOMAIN replies, NEW a \in DOMAIN replies[i],
                          NEW k \in DOMAIN open'
                   PROVE  replies[i][a] < open'[k]
        OBVIOUS
      <4>1. CASE k \in DOMAIN open
        BY <3>1, <4>1 DEF OpenIsNext
      <4>2. CASE k = Len(open) + 1
        BY <3>1, <3>5, <4>2
      <4> QED
        BY <3>1, <3>2, <4>1, <4>2
    <3> QED
      BY <1>2, <3>3, <3>4, <3>6 DEF Take, OpenIsNext
  <2> QED
    BY <2>1, <2>2, <2>3
<1>3. CASE Publish
  <2>1. TypeOK'
    BY <1>3 DEF Publish
  <2>2. /\ DOMAIN replies' = 1..(Len(replies) + 1)
        /\ DOMAIN replies = 1..Len(replies)
        /\ Len(replies) \in Nat
        /\ \A i \in DOMAIN replies : replies'[i] = replies[i]
        /\ replies'[Len(replies) + 1] = open
    BY <1>3 DEF Publish
  <2>3. RecordsIncrease'
    <3> SUFFICES ASSUME NEW i \in DOMAIN replies', NEW j \in DOMAIN replies', i < j,
                        NEW a \in DOMAIN replies'[i], NEW b \in DOMAIN replies'[j]
                 PROVE  replies'[i][a] < replies'[j][b]
      BY DEF RecordsIncrease
    <3>1. i \in DOMAIN replies /\ replies'[i] = replies[i]
      BY <2>2
    <3>2. CASE j \in DOMAIN replies
      BY <2>2, <3>1, <3>2 DEF AnsweredOnceInOrder, RecordsIncrease
    <3>3. CASE j = Len(replies) + 1
      BY <2>2, <3>1, <3>3 DEF OpenIsNext
    <3> QED
      BY <2>2, <3>2, <3>3
  <2>4. \A i \in DOMAIN replies' :
          /\ Increasing(replies'[i])
          /\ \A a \in DOMAIN replies'[i] : replies'[i][a] <= taken'
    BY <1>3, <2>2 DEF Publish, AnsweredOnceInOrder, OpenIsNext
  <2>5. OpenIsNext'
    BY <1>3 DEF Publish, OpenIsNext, Increasing
  <2> QED
    BY <2>1, <2>3, <2>4, <2>5 DEF AnsweredOnceInOrder
<1>4. CASE Discard
  BY <1>4 DEF Discard, AnsweredOnceInOrder, RecordsIncrease, OpenIsNext, Increasing
<1>5. CASE UNCHANGED vars
  BY <1>5 DEF vars, AnsweredOnceInOrder, RecordsIncrease, OpenIsNext, Increasing
<1> QED
  BY <1>1, <1>2, <1>3, <1>4, <1>5 DEF Next

(* Replies are published in the order of the messages, each at most once.  *)
THEOREM RepliesInOrder == Spec => []AnsweredOnceInOrder
<1>1. IInv => AnsweredOnceInOrder
  BY DEF IInv
<1> QED
  BY InitIInv, NextIInv, <1>1, PTL DEF Spec
=============================================================================
