------------------------------ MODULE ReplyLog ------------------------------
(***************************************************************************)
(* What the codec promises to the ODE that feeds it, with Kafka, signals,  *)
(* relaunches and errors abstracted away: messages arrive in a log, the    *)
(* codec takes them one by one, keeps the numbers of those it has taken    *)
(* and not yet answered in `open`, and closes them either by publishing    *)
(* them all in one record or by discarding them all.                       *)
(*                                                                         *)
(* CodecService implements this specification: taken is the consumer's     *)
(* position, open is output_msg_stream plus the message in hand, replies   *)
(* is what produce() accepted.                                             *)
(***************************************************************************)
EXTENDS Naturals, Sequences

VARIABLES
  arrived,  \* how many messages the input topic holds
  taken,    \* how many of them have been taken
  open,     \* message numbers taken, neither published nor discarded yet
  replies   \* the records published; a record is a sequence of message numbers

vars == <<arrived, taken, open, replies>>

Init ==
  /\ arrived = 0
  /\ taken = 0
  /\ open = <<>>
  /\ replies = <<>>

Arrive ==
  /\ arrived' = arrived + 1
  /\ UNCHANGED <<taken, open, replies>>

Take ==
  /\ taken < arrived
  /\ taken' = taken + 1
  /\ open' = Append(open, taken + 1)
  /\ UNCHANGED <<arrived, replies>>

Publish ==
  /\ replies' = Append(replies, open)
  /\ open' = <<>>
  /\ UNCHANGED <<arrived, taken>>

Discard ==
  /\ open' = <<>>
  /\ UNCHANGED <<arrived, taken, replies>>

Next == Arrive \/ Take \/ Publish \/ Discard

Spec == Init /\ [][Next]_vars

-----------------------------------------------------------------------------

TypeOK ==
  /\ arrived \in Nat
  /\ taken \in Nat
  /\ open \in Seq(Nat)
  /\ replies \in Seq(Seq(Nat))

Increasing(s) == \A i, j \in DOMAIN s : i < j => s[i] < s[j]

(* Message numbers answered by different records. *)
RecordsIncrease ==
  \A i, j \in DOMAIN replies : i < j =>
    \A a \in DOMAIN replies[i], b \in DOMAIN replies[j] :
      replies[i][a] < replies[j][b]

(* No message is answered twice and no answer overtakes an earlier one,    *)
(* inside a record or between records, and only messages that were taken   *)
(* are answered.                                                           *)
AnsweredOnceInOrder ==
  /\ RecordsIncrease
  /\ \A i \in DOMAIN replies :
       /\ Increasing(replies[i])
       /\ \A a \in DOMAIN replies[i] : replies[i][a] <= taken
=============================================================================
