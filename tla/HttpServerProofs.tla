-------------------------- MODULE HttpServerProofs --------------------------
(***************************************************************************)
(* Theorems of HttpServer for any number of threads and any requests.      *)
(***************************************************************************)
EXTENDS HttpServer, TLAPS

(* What a thread knows of itself. *)
Local(t) == <<pc[t], req[t], line[t], timestamp[t], message_type[t], hex_line[t],
              xb[t], outfile[t], status[t], heap[t]>>

-----------------------------------------------------------------------------
(* Responses. *)

(* A line that cannot be answered leaves a response complete.              *)
LEMMA SkipKeepsAnswers ==
  ASSUME NEW out, NEW t, NEW r, NEW n \in Nat, Answers(out, t, r, n), r.lines[n + 1] # "ok"
  PROVE  Answers(out, t, r, n + 1)
<1>1. Answerable(r, n + 1) = Answerable(r, n)
  BY DEF Answerable
<1> QED
  BY <1>1 DEF Answers

(* The record of the next line completes the response up to it.            *)
LEMMA AppendKeepsAnswers ==
  ASSUME NEW out \in Seq(Records), NEW t, NEW r, NEW n \in Nat, Answers(out, t, r, n),
         r.lines[n + 1] = "ok", Deserved(t, r, n + 1) \in Records
  PROVE  Answers(Append(out, Deserved(t, r, n + 1)), t, r, n + 1)
<1> DEFINE new == Append(out, Deserved(t, r, n + 1))
<1>1. Answerable(r, n + 1) = Answerable(r, n) \cup {n + 1}
  BY DEF Answerable
<1>2. /\ DOMAIN new = 1..(Len(out) + 1) /\ DOMAIN out = 1..Len(out) /\ Len(out) \in Nat
      /\ \A i \in 1..Len(out) : new[i] = out[i]
      /\ new[Len(out) + 1] = Deserved(t, r, n + 1)
  OBVIOUS
<1> HIDE DEF new
<1>3. \A k : Deserved(t, r, k).xml[1].line = k
  BY DEF Deserved
<1>4. \A i \in DOMAIN out : out[i].xml[1].line < n + 1
  BY <1>3 DEF Answers, Answerable
<1>5. \A i, j \in DOMAIN new : i < j => new[i].xml[1].line < new[j].xml[1].line
  <2> TAKE i, j \in DOMAIN new
  <2> HAVE i < j
  <2>1. i \in DOMAIN out
    BY <1>2
  <2>2. CASE j \in DOMAIN out
    BY <1>2, <2>1, <2>2 DEF Answers
  <2>3. CASE j = Len(out) + 1
    BY <1>2, <1>3, <1>4, <2>1, <2>3
  <2> QED
    BY <1>2, <2>2, <2>3
<1>6. \A k \in Answerable(r, n + 1) : \E i \in DOMAIN new : new[i] = Deserved(t, r, k)
  <2> TAKE k \in Answerable(r, n + 1)
  <2>1. CASE k = n + 1
    BY <1>2, <2>1
  <2>2. CASE k \in Answerable(r, n)
    BY <1>2, <2>2 DEF Answers
  <2> QED
    BY <1>1, <2>1, <2>2
<1>7. \A i \in DOMAIN new : \E k \in Answerable(r, n + 1) : new[i] = Deserved(t, r, k)
  <2> TAKE i \in DOMAIN new
  <2>1. CASE i \in DOMAIN out
    BY <1>1, <1>2, <2>1 DEF Answers
  <2>2. CASE i = Len(out) + 1
    BY <1>1, <1>2, <2>2
  <2> QED
    BY <1>2, <2>1, <2>2
<1> QED
  BY <1>5, <1>6, <1>7 DEF Answers, new

-----------------------------------------------------------------------------
(* Types. *)

(* A thread handles the one request it was given, all of whose lines are   *)
(* of the kinds the server's assumption allows.                            *)
LEMMA RequestKnown ==
  Types => \A t \in Threads : pc[t] # "free" =>
    /\ Request(t) \in Requests /\ req[t] = {Request(t)}
    /\ Len(Request(t).lines) \in Nat
    /\ \A k \in 1..Len(Request(t).lines) : Request(t).lines[k] \in Lines \cup JsonErrors
<1> SUFFICES ASSUME Types, NEW t \in Threads, pc[t] # "free"
             PROVE  /\ Request(t) \in Requests /\ req[t] = {Request(t)}
                    /\ Len(Request(t).lines) \in Nat
                    /\ \A k \in 1..Len(Request(t).lines) :
                         Request(t).lines[k] \in Lines \cup JsonErrors
  OBVIOUS
<1> PICK r \in Requests : req[t] = {r}
  BY DEF Types
<1>1. Request(t) = r
  BY DEF Request
<1>2. r.lines \in Seq(Lines \cup JsonErrors)
  BY ServerAssumption
<1> QED
  BY <1>1, <1>2

LEMMA TypeInit == Init => Types
BY ServerAssumption DEF Init, Types

Places == {"free", "getline", "json", "decode", "check", "encode", "copy", "done"}

(* What every step of a thread in a request does to the variables that     *)
(* locate it.                                                              *)
Moves(t) ==
  /\ UNCHANGED <<req, accepted>>
  /\ pc[t] # "free"
  /\ \E to \in Places : pc' = [pc EXCEPT ![t] = to]
  /\ \/ line' = line
     \/ /\ line' = [line EXCEPT ![t] = line[t] + 1]
        /\ line[t] < Len(Request(t).lines)

LEMMA StepMoves == ASSUME NEW t \in Threads, Step(t) PROVE Moves(t)
<1> USE DEF Moves, Goto, Places
<1>1. CASE SkipBlank(t) \/ GetLine(t)
  BY <1>1 DEF SkipBlank, GetLine
<1>2. CASE EndOfBatch(t) \/ RefuseJson(t) \/ ReadFields(t)
  BY <1>2 DEF EndOfBatch, RefuseJson, ReadFields
<1>3. CASE RefuseHex(t) \/ DecodeFails(t)
  BY <1>3 DEF RefuseHex, DecodeFails, Throw
<1>4. CASE CheckFails(t) \/ EncodeFails(t)
  BY <1>4 DEF CheckFails, EncodeFails, Throw
<1>5. CASE Decode(t) \/ Check(t) \/ AppendChunk(t) \/ Encoded(t)
  BY <1>5 DEF Decode, Check, AppendChunk, Encoded
<1>6. CASE Write(t) \/ Respond(t)
  BY <1>6 DEF Write, Respond
<1> QED
  BY <1>1, <1>2, <1>3, <1>4, <1>5, <1>6 DEF Step

(* Where it is and what it reads stay in their types.                      *)
LEMMA PlaceStep ==
  ASSUME Types, NEW t \in Threads, Moves(t)
  PROVE  /\ pc' \in [Threads -> Places] /\ req' \in [Threads -> SUBSET Requests]
         /\ \A u \in Threads : pc'[u] # "free" => \E r \in Requests : req'[u] = {r}
         /\ line' \in [Threads -> Nat]
         /\ \A u \in Threads : pc'[u] # "free" => line'[u] <= Len(Request(u)'.lines)
<1>1. Len(Request(t).lines) \in Nat
  BY RequestKnown DEF Moves
<1>2. /\ pc \in [Threads -> Places] /\ req \in [Threads -> SUBSET Requests]
      /\ \A u \in Threads : pc[u] # "free" => \E r \in Requests : req[u] = {r}
      /\ line \in [Threads -> Nat]
  BY DEF Types, Places
<1>3. \A u \in Threads : pc[u] # "free" => line[u] <= Len(Request(u).lines)
  BY DEF Types
<1>4. \A u \in Threads : Request(u)' = Request(u)
  BY DEF Moves, Request
<1>5. \A u \in Threads : pc'[u] # "free" => pc[u] # "free"
  BY <1>2 DEF Moves
<1>6. /\ line' \in [Threads -> Nat] /\ line'[t] <= Len(Request(t).lines)
      /\ \A u \in Threads : u # t => line'[u] = line[u]
  BY <1>1, <1>2, <1>3 DEF Moves
<1>7. pc' \in [Threads -> Places]
  BY <1>2 DEF Moves
<1>8. req' = req
  BY DEF Moves
<1>9. \A u \in Threads : pc'[u] # "free" => line'[u] <= Len(Request(u).lines)
  BY <1>3, <1>5, <1>6
<1> HIDE DEF Moves
<1>10. \A u \in Threads : pc'[u] # "free" => line'[u] <= Len(Request(u)'.lines)
  BY <1>4, <1>9
<1> QED
  BY <1>2, <1>5, <1>6, <1>7, <1>8, <1>10

(* What a step writes, variable by variable.                               *)
Writes(t) ==
  /\ \/ timestamp' = timestamp
     \/ timestamp' = [timestamp EXCEPT ![t] = line[t]]
  /\ \/ message_type' = message_type
     \/ message_type' = [message_type EXCEPT ![t] = line[t]]
  /\ \/ hex_line' = hex_line
     \/ hex_line' = [hex_line EXCEPT ![t] = line[t]]
     \/ hex_line' = [hex_line EXCEPT ![t] = line[t] + 1]
  /\ \/ xb' = xb
     \/ xb' = [xb EXCEPT ![t] = <<>>]
     \/ xb' = [xb EXCEPT ![t] = Append(xb[t], Chunk(t, Len(xb[t]) + 1))]
  /\ \/ outfile' = outfile
     \/ outfile' = [outfile EXCEPT ![t] = Append(outfile[t],
          [type |-> message_type[t], stamp |-> timestamp[t], xml |-> xb[t]])]
  /\ \/ status' = status
     \/ status' = [status EXCEPT ![t] = 200]
     \/ status' = [status EXCEPT ![t] = 500]
  /\ \/ heap' = heap
     \/ \E k \in {"structure", "text"} : Allocate(t, k) \/ Free(t, k)

LEMMA StepWrites == ASSUME NEW t \in Threads, Step(t) PROVE Writes(t)
<1> USE DEF locals, Buffer, Throw
<1>1. CASE SkipBlank(t)
  BY <1>1 DEF SkipBlank, Writes
<1>2. CASE GetLine(t)
  BY <1>2 DEF GetLine, Writes
<1>3. CASE EndOfBatch(t)
  BY <1>3 DEF EndOfBatch, Writes
<1>4. CASE RefuseJson(t)
  BY <1>4 DEF RefuseJson, Writes
<1>5. CASE ReadFields(t)
  BY <1>5 DEF ReadFields, Writes
<1>6. CASE RefuseHex(t)
  BY <1>6 DEF RefuseHex, Writes
<1>7. CASE DecodeFails(t)
  BY <1>7 DEF DecodeFails, Writes
<1>8. CASE Decode(t)
  BY <1>8 DEF Decode, Writes
<1>9. CASE CheckFails(t)
  BY <1>9 DEF CheckFails, Writes
<1>10. CASE Check(t)
  BY <1>10 DEF Check, Writes
<1>11. CASE AppendChunk(t)
  BY <1>11 DEF AppendChunk, Writes
<1>12. CASE EncodeFails(t)
  BY <1>12 DEF EncodeFails, Writes
<1>13. CASE Encoded(t)
  BY <1>13 DEF Encoded, Writes
<1>14. CASE Write(t)
  BY <1>14 DEF Write, Writes
<1>15. CASE Respond(t)
  BY <1>15 DEF Respond, Writes
<1> QED
  BY <1>1, <1>2, <1>3, <1>4, <1>5, <1>6, <1>7, <1>8, <1>9, <1>10, <1>11, <1>12, <1>13, <1>14,
     <1>15 DEF Step

(* The buffers, the blocks and the response stay in their types.           *)
LEMMA DataStep ==
  ASSUME Types, NEW t \in Threads, Writes(t)
  PROVE  /\ timestamp' \in [Threads -> Nat] /\ message_type' \in [Threads -> Nat]
         /\ hex_line' \in [Threads -> Nat] /\ xb' \in [Threads -> Seq(Chunks)]
         /\ outfile' \in [Threads -> Seq(Records)] /\ status' \in [Threads -> {0, 200, 500}]
         /\ heap' \in [Threads -> SUBSET Blocks]
<1>1. /\ line \in [Threads -> Nat]
      /\ timestamp \in [Threads -> Nat] /\ message_type \in [Threads -> Nat]
      /\ hex_line \in [Threads -> Nat] /\ xb \in [Threads -> Seq(Chunks)]
      /\ outfile \in [Threads -> Seq(Records)] /\ status \in [Threads -> {0, 200, 500}]
      /\ heap \in [Threads -> SUBSET Blocks]
  BY DEF Types
<1>2. line[t] \in Nat /\ line[t] + 1 \in Nat
  BY <1>1
<1>3. timestamp' \in [Threads -> Nat] /\ message_type' \in [Threads -> Nat]
  <2>1. \/ timestamp' = timestamp
        \/ timestamp' = [timestamp EXCEPT ![t] = line[t]]
    BY DEF Writes
  <2>2. \/ message_type' = message_type
        \/ message_type' = [message_type EXCEPT ![t] = line[t]]
    BY DEF Writes
  <2> QED
    BY <1>1, <1>2, <2>1, <2>2, SMTT(30)
<1>4. hex_line' \in [Threads -> Nat]
  <2>1. \/ hex_line' = hex_line
        \/ hex_line' = [hex_line EXCEPT ![t] = line[t]]
        \/ hex_line' = [hex_line EXCEPT ![t] = line[t] + 1]
    BY DEF Writes
  <2> QED
    BY <1>1, <1>2, <2>1, SMTT(30)
<1>5. xb' \in [Threads -> Seq(Chunks)]
  <2>1. \/ xb' = xb
        \/ xb' = [xb EXCEPT ![t] = <<>>]
        \/ xb' = [xb EXCEPT ![t] = Append(xb[t], Chunk(t, Len(xb[t]) + 1))]
    BY DEF Writes
  <2>2. hex_line[t] \in Nat /\ Len(xb[t]) + 1 \in Nat
    BY <1>1
  <2>3. Chunk(t, Len(xb[t]) + 1) \in Chunks
    BY <2>2 DEF Chunk, Chunks
  <2>4. Append(xb[t], Chunk(t, Len(xb[t]) + 1)) \in Seq(Chunks)
    BY <1>1, <2>3
  <2>5. CASE xb' = xb
    BY <1>1, <2>5
  <2>6. CASE xb' = [xb EXCEPT ![t] = <<>>]
    <3>1. <<>> \in Seq(Chunks)
      OBVIOUS
    <3> QED
      BY <1>1, <2>6, <3>1
  <2>7. CASE xb' = [xb EXCEPT ![t] = Append(xb[t], Chunk(t, Len(xb[t]) + 1))]
    BY <1>1, <2>4, <2>7
  <2> QED
    BY <2>1, <2>5, <2>6, <2>7
<1>6. outfile' \in [Threads -> Seq(Records)]
  <2> DEFINE r == [type |-> message_type[t], stamp |-> timestamp[t], xml |-> xb[t]]
  <2>1. r \in Records
    BY <1>1 DEF Records
  <2>2. outfile' = outfile \/ outfile' = [outfile EXCEPT ![t] = Append(outfile[t], r)]
    BY DEF Writes
  <2> HIDE DEF r
  <2>3. Append(outfile[t], r) \in Seq(Records)
    BY <1>1, <2>1
  <2>4. CASE outfile' = outfile
    BY <1>1, <2>4
  <2>5. CASE outfile' = [outfile EXCEPT ![t] = Append(outfile[t], r)]
    BY <1>1, <2>3, <2>5
  <2> QED
    BY <2>2, <2>4, <2>5
<1>7. status' \in [Threads -> {0, 200, 500}]
  <2>1. \/ status' = status
        \/ status' = [status EXCEPT ![t] = 200]
        \/ status' = [status EXCEPT ![t] = 500]
    BY DEF Writes
  <2>2. CASE status' = status
    BY <1>1, <2>2
  <2>3. CASE status' = [status EXCEPT ![t] = 200]
    BY <1>1, <2>3
  <2>4. CASE status' = [status EXCEPT ![t] = 500]
    BY <1>1, <2>4
  <2> QED
    BY <2>1, <2>2, <2>3, <2>4
<1>8. heap' \in [Threads -> SUBSET Blocks]
  <2>1. \A k \in {"structure", "text"} : Block(t, k) \in Blocks
    BY <1>2 DEF Block, Blocks
  <2>2. \/ heap' = heap
        \/ \E k \in {"structure", "text"} : Allocate(t, k) \/ Free(t, k)
    BY DEF Writes
  <2>3. CASE heap' = heap
    BY <1>1, <2>3
  <2>4. ASSUME NEW k \in {"structure", "text"}, Allocate(t, k)
        PROVE  heap' \in [Threads -> SUBSET Blocks]
    <3>1. heap[t] \cup {Block(t, k)} \in SUBSET Blocks
      BY <1>1, <2>1
    <3> QED
      BY <1>1, <2>4, <3>1 DEF Allocate
  <2>5. ASSUME NEW k \in {"structure", "text"}, Free(t, k)
        PROVE  heap' \in [Threads -> SUBSET Blocks]
    <3>1. heap[t] \ {Block(t, k)} \in SUBSET Blocks
      BY <1>1
    <3> QED
      BY <1>1, <2>5, <3>1 DEF Free
  <2> QED
    BY <2>2, <2>3, <2>4, <2>5
<1> QED
  BY <1>3, <1>4, <1>5, <1>6, <1>7, <1>8

LEMMA TypeStepOwn ==
  ASSUME Types, NEW t \in Threads, Step(t)
  PROVE  Types'
<1>1. accepted' \in 0..MaxRequests
  BY StepMoves DEF Moves, Types
<1> QED
  BY <1>1, StepMoves, StepWrites, PlaceStep, DataStep, ZenonT(30) DEF Types, Places

LEMMA TypeStepAccept ==
  ASSUME Types, NEW t \in Threads, Accept(t)
  PROVE  Types'
<1>0. PICK r \in Requests :
      /\ req' = [req EXCEPT ![t] = {r}]
      /\ Goto(t, "free", IF r.batch THEN "getline" ELSE "decode")
      /\ line' = [line EXCEPT ![t] = IF r.batch THEN 0 ELSE 1]
      /\ hex_line' = [hex_line EXCEPT ![t] = IF r.batch THEN 0 ELSE 1]
  BY DEF Accept
<1>1. /\ accepted' \in 0..MaxRequests
      /\ timestamp' \in [Threads -> Nat] /\ message_type' \in [Threads -> Nat]
      /\ outfile' \in [Threads -> Seq(Records)] /\ status' \in [Threads -> {0, 200, 500}]
      /\ heap' \in [Threads -> SUBSET Blocks] /\ xb' \in [Threads -> Seq(Chunks)]
  BY ServerAssumption DEF Accept, Types
<1>2. /\ pc' \in [Threads -> {"free", "getline", "json", "decode", "check", "encode", "copy", "done"}]
      /\ req' \in [Threads -> SUBSET Requests]
      /\ line' \in [Threads -> Nat] /\ hex_line' \in [Threads -> Nat]
  BY <1>0 DEF Goto, Types
<1>3. ASSUME NEW u \in Threads, pc'[u] # "free"
      PROVE  (\E q \in Requests : req'[u] = {q}) /\ line'[u] <= Len(Request(u)'.lines)
  <2>1. CASE u = t
    <3>1. req'[t] = {r} /\ line'[t] = IF r.batch THEN 0 ELSE 1
      BY <1>0 DEF Types
    <3>2. Request(t)' = r
      BY <3>1 DEF Request
    <3>3. r.batch \in BOOLEAN /\ r.lines \in Seq(Lines \cup JsonErrors)
          /\ (~r.batch => Len(r.lines) = 1)
      BY ServerAssumption
    <3>4. Len(r.lines) \in Nat /\ (~r.batch => Len(r.lines) = 1)
      BY <3>3
    <3>5. r.batch => line'[t] <= Len(r.lines)
      BY <3>1, <3>4
    <3>6. ~r.batch => line'[t] <= Len(r.lines)
      BY <3>1, <3>4, SMTT(30)
    <3>7. line'[t] <= Len(r.lines)
      BY <3>3, <3>5, <3>6
    <3> QED
      BY <2>1, <3>1, <3>2, <3>7
  <2>2. CASE u # t
    <3>1. req'[u] = req[u] /\ line'[u] = line[u] /\ pc[u] # "free"
      BY <1>0, <1>3, <2>2 DEF Types, Goto
    <3>2. Request(u)' = Request(u)
      BY <3>1 DEF Request
    <3>3. (\E q \in Requests : req[u] = {q}) /\ line[u] <= Len(Request(u).lines)
      BY <3>1 DEF Types
    <3> QED
      BY <3>1, <3>2, <3>3
  <2> QED
    BY <2>1, <2>2
<1> QED
  BY <1>1, <1>2, <1>3 DEF Types

LEMMA TypeStep == Types /\ [Next]_vars => Types'
<1> SUFFICES ASSUME Types, [Next]_vars PROVE Types'
  OBVIOUS
<1>1. CASE UNCHANGED vars
  <2>1. UNCHANGED <<pc, req, line, timestamp, message_type, hex_line, xb, outfile, status,
                    heap, accepted>>
    BY <1>1 DEF vars, locals
  <2>2. \A u : Request(u)' = Request(u)
    BY <2>1 DEF Request
  <2> QED
    BY <2>1, <2>2 DEF Types
<1> QED
  BY <1>1, TypeStepOwn, TypeStepAccept DEF Next

-----------------------------------------------------------------------------
(* Responses answer their requests. *)

Done(t) ==
  /\ Answers(outfile[t], t, Request(t), Len(Request(t).lines))
  /\ status[t] = IF Request(t).batch \/ Request(t).lines[1] = "ok" THEN 200 ELSE 500

(* The response is complete up to the line before the one at hand.         *)
Reading(t) ==
  /\ line[t] >= 1
  /\ Answers(outfile[t], t, Request(t), line[t] - 1)
  /\ ~Request(t).batch => line[t] = 1

(* ... whose number the thread's own variables hold.                       *)
Decoding(t) ==
  /\ Reading(t)
  /\ hex_line[t] = line[t]
  /\ Request(t).is_json => timestamp[t] = line[t] /\ message_type[t] = line[t]

Progress(t) ==
  /\ ~Request(t).is_json => timestamp[t] = 0 /\ message_type[t] = 0
  /\ pc[t] = "getline" => Request(t).batch /\ Answers(outfile[t], t, Request(t), line[t])
  /\ pc[t] = "json" => Reading(t) /\ Request(t).is_json
  /\ pc[t] \in {"decode", "check", "encode", "copy"} => Decoding(t)
  /\ pc[t] \in {"decode", "check", "encode", "copy"} => Current(t) \notin JsonErrors
  /\ pc[t] \in {"check", "encode", "copy"} =>
       Current(t) \notin {"blank", "bad_hex", "bad_data"}
  /\ pc[t] = "check" => xb[t] = <<>>
  /\ pc[t] \in {"encode", "copy"} =>
       /\ Current(t) # "bad_constraint"
       /\ \A i \in DOMAIN xb[t] : xb[t][i] = Chunk(t, i)
       /\ Len(xb[t]) <= IF Current(t) = "bad_xer" THEN 1 ELSE 2
  /\ pc[t] = "copy" => Len(xb[t]) = 2
  /\ pc[t] = "done" => Done(t)

ThreadInv(t) == pc[t] # "free" => Progress(t)

(* A thread is not disturbed by what another one does.                     *)
LEMMA OthersStayOut ==
  ASSUME Types, NEW t \in Threads, NEW u \in Threads, u # t, Accept(u) \/ Step(u)
  PROVE  Local(t)' = Local(t)
<1>1. /\ pc \in [Threads -> Places] /\ req \in [Threads -> SUBSET Requests]
      /\ line \in [Threads -> Nat]
      /\ timestamp \in [Threads -> Nat] /\ message_type \in [Threads -> Nat]
      /\ hex_line \in [Threads -> Nat] /\ xb \in [Threads -> Seq(Chunks)]
      /\ outfile \in [Threads -> Seq(Records)] /\ status \in [Threads -> {0, 200, 500}]
      /\ heap \in [Threads -> SUBSET Blocks]
  BY DEF Types, Places
<1>2. CASE Accept(u)
  BY <1>1, <1>2 DEF Accept, Goto, Local
<1>3. CASE Step(u)
  <2>1. Moves(u) /\ Writes(u)
    BY <1>3, StepMoves, StepWrites
  <2>2. pc'[t] = pc[t] /\ req'[t] = req[t] /\ line'[t] = line[t]
    BY <1>1, <2>1 DEF Moves
  <2>3. timestamp'[t] = timestamp[t]
    BY <1>1, <2>1 DEF Writes
  <2>4. message_type'[t] = message_type[t]
    BY <1>1, <2>1 DEF Writes
  <2>5. hex_line'[t] = hex_line[t]
    BY <1>1, <2>1 DEF Writes
  <2>6. xb'[t] = xb[t]
    BY <1>1, <2>1 DEF Writes
  <2>7. outfile'[t] = outfile[t]
    BY <1>1, <2>1 DEF Writes
  <2>8. status'[t] = status[t]
    BY <1>1, <2>1 DEF Writes
  <2>9. heap'[t] = heap[t]
    BY <1>1, <2>1 DEF Writes, Allocate, Free
  <2> QED
    BY <2>2, <2>3, <2>4, <2>5, <2>6, <2>7, <2>8, <2>9 DEF Local
<1> QED
  BY <1>2, <1>3

LEMMA UndisturbedThread ==
  ASSUME NEW t \in Threads, ThreadInv(t), Local(t)' = Local(t)
  PROVE  ThreadInv(t)'
<1>1. Request(t)' = Request(t) /\ pc'[t] = pc[t] /\ line'[t] = line[t]
  BY DEF Local, Request
<1>2. /\ timestamp'[t] = timestamp[t] /\ message_type'[t] = message_type[t]
      /\ hex_line'[t] = hex_line[t] /\ xb'[t] = xb[t] /\ outfile'[t] = outfile[t]
      /\ status'[t] = status[t]
  BY DEF Local
<1>3. Current(t)' = Current(t) /\ Done(t)' = Done(t) /\ Reading(t)' = Reading(t)
      /\ Decoding(t)' = Decoding(t) /\ \A i : Chunk(t, i)' = Chunk(t, i)
  BY <1>1, <1>2 DEF Current, Done, Reading, Decoding, Chunk
<1> QED
  BY <1>1, <1>2, <1>3 DEF ThreadInv, Progress

LEMMA AcceptStarts ==
  ASSUME Types, NEW t \in Threads, Accept(t)
  PROVE  ThreadInv(t)'
<1> PICK r \in Requests :
      /\ req' = [req EXCEPT ![t] = {r}]
      /\ Goto(t, "free", IF r.batch THEN "getline" ELSE "decode")
      /\ line' = [line EXCEPT ![t] = IF r.batch THEN 0 ELSE 1]
      /\ hex_line' = [hex_line EXCEPT ![t] = IF r.batch THEN 0 ELSE 1]
  BY DEF Accept
<1>1. /\ pc'[t] = IF r.batch THEN "getline" ELSE "decode"
      /\ req'[t] = {r}
      /\ line'[t] = IF r.batch THEN 0 ELSE 1
      /\ hex_line'[t] = IF r.batch THEN 0 ELSE 1
  BY DEF Goto, Types
<1>2. timestamp'[t] = 0 /\ message_type'[t] = 0 /\ outfile'[t] = <<>>
  BY DEF Accept, Types
<1>3. Request(t)' = r
  BY <1>1 DEF Request
<1>4. Answers(outfile[t]', t, r, 0)
  BY <1>2 DEF Answers, Answerable
<1>5. CASE r.batch
  BY <1>1, <1>2, <1>3, <1>4, <1>5 DEF ThreadInv, Progress
<1>6. CASE ~r.batch
  <2>1. ~r.is_json /\ r.lines \in Seq(Lines) /\ Len(r.lines) = 1
    BY <1>6, ServerAssumption
  <2>2. r.lines[1] \in Lines
    BY <2>1
  <2>3. Current(t)' \notin JsonErrors
    BY <1>1, <1>3, <1>6, <2>2 DEF Current, Lines, HexErrors, JsonErrors
  <2>4. line'[t] - 1 = 0
    BY <1>1, <1>6
  <2>5. Decoding(t)'
    BY <1>1, <1>2, <1>3, <1>4, <1>6, <2>1, <2>4 DEF Decoding, Reading
  <2> QED
    BY <1>1, <1>2, <1>3, <1>6, <2>3, <2>5 DEF ThreadInv, Progress
<1> QED
  BY <1>5, <1>6

(* A line that cannot be answered ends the response of a single request    *)
(* with 500 and leaves that of a batch as it is.                           *)
LEMMA ThrowEnds ==
  ASSUME Types, NEW t \in Threads, ThreadInv(t), NEW from \in Places \ {"free"},
         Throw(t, from), pc[t] \in {"decode", "check", "encode"}, Current(t) # "ok",
         UNCHANGED <<req, line, locals, outfile>>
  PROVE  ThreadInv(t)'
<1>1. Progress(t) /\ Reading(t) /\ Request(t)' = Request(t) /\ line[t] \in Nat
  BY DEF ThreadInv, Progress, Decoding, Request, Types
<1>2. UNCHANGED <<line, timestamp, message_type, hex_line, outfile>>
  BY DEF locals
<1>3. Answers(outfile[t], t, Request(t), line[t])
  <2>1. line[t] - 1 \in Nat /\ (line[t] - 1) + 1 = line[t]
    BY <1>1 DEF Reading
  <2> QED
    BY <1>1, <2>1, SkipKeepsAnswers DEF Reading, Current
<1>4. CASE Request(t).batch
  <2>1. pc'[t] = "getline"
    BY <1>4 DEF Throw, Goto, Types
  <2> QED
    BY <1>1, <1>2, <1>3, <1>4, <2>1 DEF ThreadInv, Progress
<1>5. CASE ~Request(t).batch
  <2>1. pc'[t] = "done" /\ status'[t] = 500
    BY <1>5 DEF Throw, Goto, Types
  <2>2. line[t] = 1
    BY <1>1, <1>5 DEF Reading
  <2>3. Len(Request(t).lines) = 1
    BY <1>5, ServerAssumption, RequestKnown
  <2>4. Done(t)'
    BY <1>1, <1>2, <1>3, <1>5, <2>1, <2>2, <2>3 DEF Done, Current
  <2> QED
    BY <1>1, <1>2, <2>1, <2>4 DEF ThreadInv, Progress
<1> QED
  BY <1>4, <1>5

LEMMA LoopKeepsThread ==
  ASSUME Types, NEW t \in Threads, ThreadInv(t),
         \/ SkipBlank(t) \/ GetLine(t) \/ EndOfBatch(t) \/ RefuseJson(t) \/ ReadFields(t)
  PROVE  ThreadInv(t)'
<1>1. pc[t] \in {"getline", "json"} /\ Progress(t) /\ line[t] \in Nat /\ req' = req
  BY DEF SkipBlank, GetLine, EndOfBatch, RefuseJson, ReadFields, Goto, ThreadInv, Types
<1>2. Request(t)' = Request(t) /\ Request(t) \in Requests
  BY <1>1, RequestKnown DEF Request
<1>3. CASE SkipBlank(t)
  <2>1. /\ pc[t] = "getline" /\ pc'[t] = "getline" /\ line'[t] = line[t] + 1
        /\ Request(t).lines[line[t] + 1] = "blank"
    BY <1>3 DEF SkipBlank, Goto, Types
  <2>2. UNCHANGED <<timestamp, message_type, outfile>>
    BY <1>3 DEF SkipBlank, locals
  <2>3. Answers(outfile[t], t, Request(t), line[t] + 1)
    BY <1>1, <2>1, SkipKeepsAnswers DEF Progress
  <2> QED
    BY <1>1, <1>2, <2>1, <2>2, <2>3 DEF ThreadInv, Progress
<1>4. CASE GetLine(t)
  <2>1. /\ pc[t] = "getline" /\ line'[t] = line[t] + 1 /\ line[t] < Len(Request(t).lines)
        /\ pc'[t] = IF Request(t).is_json THEN "json" ELSE "decode"
        /\ ~Request(t).is_json => hex_line'[t] = line[t] + 1
    BY <1>4 DEF GetLine, Goto, Types
  <2>2. UNCHANGED <<timestamp, message_type, outfile>>
    BY <1>4 DEF GetLine
  <2>3. Request(t).batch /\ Answers(outfile[t], t, Request(t), line[t])
    BY <1>1, <2>1 DEF Progress
  <2>4. line'[t] - 1 = line[t] /\ line'[t] >= 1
    BY <1>1, <2>1
  <2>5. Reading(t)'
    BY <1>2, <2>2, <2>3, <2>4 DEF Reading
  <2>6. CASE Request(t).is_json
    BY <1>1, <1>2, <2>1, <2>2, <2>5, <2>6 DEF ThreadInv, Progress
  <2>7. CASE ~Request(t).is_json
    <3>1. Request(t).lines \in Seq(Lines)
      BY <1>2, <2>7, ServerAssumption
    <3>2. Request(t).lines[line[t] + 1] \in Lines
      BY <1>1, <2>1, <3>1
    <3>3. Current(t)' \notin JsonErrors
      BY <1>2, <2>1, <3>2 DEF Current, Lines, HexErrors, JsonErrors
    <3>4. Decoding(t)'
      BY <1>2, <2>1, <2>5, <2>7 DEF Decoding
    <3> QED
      BY <1>1, <1>2, <2>1, <2>2, <2>7, <3>3, <3>4 DEF ThreadInv, Progress
  <2> QED
    BY <2>6, <2>7
<1>5. CASE EndOfBatch(t)
  <2>1. /\ pc[t] = "getline" /\ pc'[t] = "done" /\ line[t] = Len(Request(t).lines)
        /\ status'[t] = 200
    BY <1>5 DEF EndOfBatch, Goto, Types
  <2>2. UNCHANGED <<timestamp, message_type, outfile>>
    BY <1>5 DEF EndOfBatch, locals
  <2>3. Done(t)'
    BY <1>1, <1>2, <2>1, <2>2 DEF Done, Progress
  <2> QED
    BY <1>1, <1>2, <2>1, <2>2, <2>3 DEF ThreadInv, Progress
<1>6. CASE RefuseJson(t)
  <2>1. pc[t] = "json" /\ pc'[t] = "getline" /\ Current(t) \in JsonErrors
    BY <1>6 DEF RefuseJson, Goto, Types
  <2>2. UNCHANGED <<line, outfile>>
    BY <1>6 DEF RefuseJson
  <2>3. Reading(t) /\ Request(t).is_json
    BY <1>1, <2>1 DEF Progress
  <2>4. Request(t).batch
    BY <1>2, <2>3, ServerAssumption
  <2>5. line[t] - 1 \in Nat /\ (line[t] - 1) + 1 = line[t] /\ Request(t).lines[line[t]] # "ok"
    BY <1>1, <2>1, <2>3 DEF Reading, Current, JsonErrors
  <2>6. Answers(outfile[t], t, Request(t), line[t])
    BY <2>3, <2>5, SkipKeepsAnswers DEF Reading
  <2> QED
    BY <1>2, <2>1, <2>2, <2>3, <2>4, <2>6 DEF ThreadInv, Progress
<1>7. CASE ReadFields(t)
  <2>1. /\ pc[t] = "json" /\ pc'[t] = "decode" /\ Current(t) \notin JsonErrors
        /\ timestamp'[t] = line[t] /\ message_type'[t] = line[t] /\ hex_line'[t] = line[t]
    BY <1>7 DEF ReadFields, Goto, Types
  <2>2. UNCHANGED <<line, outfile>>
    BY <1>7 DEF ReadFields
  <2>3. Reading(t) /\ Request(t).is_json
    BY <1>1, <2>1 DEF Progress
  <2>4. Decoding(t)' /\ Current(t)' = Current(t)
    BY <1>2, <2>1, <2>2, <2>3 DEF Decoding, Reading, Current
  <2> QED
    BY <1>2, <2>1, <2>2, <2>3, <2>4 DEF ThreadInv, Progress
<1> QED
  BY <1>3, <1>4, <1>5, <1>6, <1>7

LEMMA CodecKeepsThread ==
  ASSUME Types, NEW t \in Threads, ThreadInv(t),
         \/ RefuseHex(t) \/ DecodeFails(t) \/ Decode(t) \/ CheckFails(t) \/ Check(t)
         \/ AppendChunk(t) \/ EncodeFails(t) \/ Encoded(t) \/ Write(t) \/ Respond(t)
  PROVE  ThreadInv(t)'
<1>1. CASE RefuseHex(t) \/ DecodeFails(t)
  <2>1. /\ Throw(t, "decode") /\ pc[t] = "decode" /\ Current(t) # "ok"
        /\ UNCHANGED <<req, line, locals, outfile>>
    BY <1>1 DEF RefuseHex, DecodeFails, Throw, Goto
  <2> QED
    BY <2>1, ThrowEnds DEF Places
<1>2. CASE CheckFails(t)
  <2>1. /\ Throw(t, "check") /\ pc[t] = "check" /\ Current(t) # "ok"
        /\ UNCHANGED <<req, line, locals, outfile>>
    BY <1>2 DEF CheckFails, Throw, Goto
  <2> QED
    BY <2>1, ThrowEnds DEF Places
<1>3. CASE EncodeFails(t)
  <2>1. /\ Throw(t, "encode") /\ pc[t] = "encode" /\ Current(t) # "ok"
        /\ UNCHANGED <<req, line, locals, outfile>>
    BY <1>3 DEF EncodeFails, Throw, Goto
  <2> QED
    BY <2>1, ThrowEnds DEF Places
<1>4. CASE Respond(t)
  BY <1>4 DEF Respond, Goto, Types, ThreadInv
<1>5. ASSUME Decode(t) \/ Check(t) \/ AppendChunk(t) \/ Encoded(t) \/ Write(t)
      PROVE  /\ Progress(t) /\ Decoding(t) /\ Current(t) \notin JsonErrors
             /\ Request(t)' = Request(t) /\ Current(t)' = Current(t)
             /\ UNCHANGED <<line, timestamp, message_type, hex_line>>
             /\ \A i : Chunk(t, i)' = Chunk(t, i)
  <2>1. pc[t] \in {"decode", "check", "encode", "copy"} /\ UNCHANGED <<req, line, locals>>
    BY <1>5 DEF Decode, Check, AppendChunk, Encoded, Write, Goto
  <2>2. Request(t)' = Request(t) /\ UNCHANGED <<line, timestamp, message_type, hex_line>>
    BY <2>1 DEF Request, locals
  <2> QED
    BY <2>1, <2>2 DEF ThreadInv, Progress, Current, Chunk
<1>6. ASSUME Decode(t) \/ Check(t) \/ AppendChunk(t) \/ Encoded(t)
      PROVE  Decoding(t)'
  <2>1. UNCHANGED outfile
    BY <1>6 DEF Decode, Check, AppendChunk, Encoded
  <2> QED
    BY <1>5, <1>6, <2>1 DEF Decoding, Reading
<1>7. CASE Decode(t)
  <2>1. /\ pc'[t] = "check" /\ xb'[t] = <<>>
        /\ Current(t) \notin {"blank", "bad_hex", "bad_data"}
    BY <1>7 DEF Decode, Goto, Buffer, Types
  <2> QED
    BY <1>5, <1>6, <1>7, <2>1 DEF ThreadInv, Progress
<1>8. CASE Check(t)
  <2>1. pc[t] = "check" /\ pc'[t] = "encode" /\ xb' = xb /\ Current(t) # "bad_constraint"
    BY <1>8 DEF Check, Goto, Types
  <2>2. xb[t] = <<>> /\ Current(t) \notin {"blank", "bad_hex", "bad_data"}
    BY <1>5, <1>8, <2>1 DEF Progress
  <2> QED
    BY <1>5, <1>6, <1>8, <2>1, <2>2 DEF ThreadInv, Progress
<1>9. CASE AppendChunk(t)
  <2>1. /\ pc[t] = "encode" /\ pc'[t] = "encode"
        /\ Len(xb[t]) < IF Current(t) = "bad_xer" THEN 1 ELSE 2
        /\ xb'[t] = Append(xb[t], Chunk(t, Len(xb[t]) + 1))
        /\ xb[t] \in Seq(Chunks)
    BY <1>9 DEF AppendChunk, Goto, Buffer, Types
  <2>2. /\ Current(t) \notin {"blank", "bad_hex", "bad_data", "bad_constraint"}
        /\ \A i \in DOMAIN xb[t] : xb[t][i] = Chunk(t, i)
    BY <1>5, <1>9, <2>1 DEF Progress
  <2>3. /\ DOMAIN xb'[t] = 1..(Len(xb[t]) + 1) /\ Len(xb'[t]) = Len(xb[t]) + 1
        /\ \A i \in 1..Len(xb[t]) : xb'[t][i] = xb[t][i]
        /\ xb'[t][Len(xb[t]) + 1] = Chunk(t, Len(xb[t]) + 1)
        /\ Len(xb[t]) \in Nat /\ DOMAIN xb[t] = 1..Len(xb[t])
    BY <2>1
  <2>4. \A i \in DOMAIN xb'[t] : xb'[t][i] = Chunk(t, i)
    BY <2>2, <2>3
  <2>5. Len(xb'[t]) <= IF Current(t) = "bad_xer" THEN 1 ELSE 2
    BY <2>1, <2>3
  <2> QED
    BY <1>5, <1>6, <1>9, <2>1, <2>2, <2>4, <2>5 DEF ThreadInv, Progress
<1>10. CASE Encoded(t)
  <2>1. pc[t] = "encode" /\ pc'[t] = "copy" /\ xb' = xb /\ Len(xb[t]) >= 2
        /\ Len(xb[t]) \in Nat
    BY <1>10 DEF Encoded, Goto, Buffer, Types
  <2>2. /\ Current(t) \notin {"blank", "bad_hex", "bad_data", "bad_constraint"}
        /\ \A i \in DOMAIN xb[t] : xb[t][i] = Chunk(t, i)
        /\ Len(xb[t]) <= IF Current(t) = "bad_xer" THEN 1 ELSE 2
    BY <1>5, <1>10, <2>1 DEF Progress
  <2>3. Len(xb[t]) = 2
    <3> DEFINE n == Len(xb[t])
    <3>1. n \in Nat /\ n >= 2 /\ n <= IF Current(t) = "bad_xer" THEN 1 ELSE 2
      BY <2>1, <2>2
    <3> HIDE DEF n
    <3>2. n = 2
      BY <3>1
    <3> QED
      BY <3>2 DEF n
  <2> QED
    BY <1>5, <1>6, <1>10, <2>1, <2>2, <2>3 DEF ThreadInv, Progress
<1>11. CASE Write(t)
  <2> DEFINE r == Request(t)
  <2>1. /\ pc[t] = "copy" /\ pc'[t] = IF r.batch THEN "getline" ELSE "done"
        /\ outfile'[t] = Append(outfile[t],
             [type |-> message_type[t], stamp |-> timestamp[t], xml |-> xb[t]])
        /\ status'[t] = IF r.batch THEN status[t] ELSE 200
        /\ outfile[t] \in Seq(Records) /\ xb[t] \in Seq(Chunks) /\ line[t] \in Nat
        /\ message_type[t] \in Nat /\ timestamp[t] \in Nat
    BY <1>11 DEF Write, Goto, Buffer, Types
  <2>2. /\ Len(xb[t]) = 2 /\ \A i \in DOMAIN xb[t] : xb[t][i] = Chunk(t, i)
        /\ Current(t) \notin {"blank", "bad_hex", "bad_data", "bad_constraint"}
        /\ Len(xb[t]) <= IF Current(t) = "bad_xer" THEN 1 ELSE 2
    BY <1>5, <1>11, <2>1 DEF Progress
  <2>3. Current(t) = "ok"
    <3>1. line[t] \in 1..Len(r.lines)
      <4>1. line[t] <= Len(r.lines) /\ line[t] >= 1
        BY <1>5, <1>11, <2>1 DEF Decoding, Reading, Types
      <4>2. Len(r.lines) \in Nat
        BY <2>1, RequestKnown
      <4> QED
        BY <2>1, <4>1, <4>2
    <3>2. Current(t) \in Lines \cup JsonErrors
      BY <2>1, <3>1, RequestKnown DEF Current
    <3> QED
      BY <1>5, <1>11, <2>2, <3>2 DEF Lines, HexErrors
  <2>4. [type |-> message_type[t], stamp |-> timestamp[t], xml |-> xb[t]]
          = Deserved(t, r, line[t])
    <3>1. xb[t] = <<Chunk(t, 1), Chunk(t, 2)>>
      BY <2>1, <2>2, SMTT(30)
    <3>2. hex_line[t] = line[t]
      BY <1>5, <1>11 DEF Decoding
    <3>3. /\ message_type[t] = IF r.is_json THEN line[t] ELSE 0
          /\ timestamp[t] = IF r.is_json THEN line[t] ELSE 0
      BY <1>5, <1>11 DEF Decoding, Progress
    <3> QED
      BY <3>1, <3>2, <3>3 DEF Deserved, Chunk
  <2>5. Deserved(t, r, line[t]) \in Records
    <3>1. [type |-> message_type[t], stamp |-> timestamp[t], xml |-> xb[t]] \in Records
      BY <2>1 DEF Records
    <3> QED
      BY <2>4, <3>1
  <2>6. line[t] - 1 \in Nat /\ (line[t] - 1) + 1 = line[t]
    BY <1>5, <1>11, <2>1 DEF Decoding, Reading
  <2>7. Answers(outfile'[t], t, r, line[t])
    <3>1. Answers(outfile[t], t, r, line[t] - 1) /\ r.lines[line[t]] = "ok"
      BY <1>5, <1>11, <2>3 DEF Decoding, Reading, Current
    <3>2. Answers(Append(outfile[t], Deserved(t, r, (line[t] - 1) + 1)), t, r, (line[t] - 1) + 1)
      BY <2>1, <2>5, <2>6, <3>1, AppendKeepsAnswers
    <3> QED
      BY <2>1, <2>4, <2>6, <3>2
  <2>8. CASE r.batch
    BY <1>5, <1>11, <2>1, <2>7, <2>8 DEF ThreadInv, Progress
  <2>9. CASE ~r.batch
    <3>1. line[t] = 1 /\ Len(r.lines) = 1
      BY <1>5, <1>11, <2>1, <2>9, ServerAssumption, RequestKnown DEF Decoding, Reading
    <3>2. Done(t)'
      BY <1>5, <1>11, <2>1, <2>3, <2>7, <2>9, <3>1 DEF Done, Current
    <3> QED
      BY <1>5, <1>11, <2>1, <2>9, <3>2 DEF ThreadInv, Progress
  <2> QED
    BY <2>8, <2>9
<1> QED
  BY <1>1, <1>2, <1>3, <1>4, <1>7, <1>8, <1>9, <1>10, <1>11

ThreadsInv == \A t \in Threads : ThreadInv(t)

LEMMA ThreadsStep == Types /\ ThreadsInv /\ [Next]_vars => ThreadsInv'
<1> SUFFICES ASSUME Types, ThreadsInv, [Next]_vars, NEW t \in Threads PROVE ThreadInv(t)'
  BY DEF ThreadsInv
<1>1. ThreadInv(t)
  BY DEF ThreadsInv
<1>2. CASE UNCHANGED vars
  BY <1>1, <1>2, UndisturbedThread DEF vars, locals, Local
<1>3. ASSUME NEW u \in Threads, Accept(u) \/ Step(u), u # t PROVE ThreadInv(t)'
  BY <1>1, <1>3, OthersStayOut, UndisturbedThread
<1>4. ASSUME Accept(t) PROVE ThreadInv(t)'
  BY <1>4, AcceptStarts
<1>5. ASSUME Step(t) PROVE ThreadInv(t)'
  BY <1>1, <1>5, LoopKeepsThread, CodecKeepsThread DEF Step
<1> QED
  BY <1>2, <1>3, <1>4, <1>5 DEF Next

(* What a response holds are whole texts of lines of the request. *)
LEMMA WholeTexts ==
  ASSUME NEW t, NEW n \in Nat, n <= Len(Request(t).lines), Len(Request(t).lines) \in Nat,
         Answers(outfile[t], t, Request(t), n)
  PROVE  \A i \in DOMAIN outfile[t] : \E k \in DOMAIN Request(t).lines :
           outfile[t][i].xml = Deserved(t, Request(t), k).xml
<1> SUFFICES ASSUME NEW i \in DOMAIN outfile[t]
             PROVE  \E k \in 1..Len(Request(t).lines) :
                      outfile[t][i].xml = Deserved(t, Request(t), k).xml
  OBVIOUS
<1>1. PICK k \in Answerable(Request(t), n) : outfile[t][i] = Deserved(t, Request(t), k)
  BY DEF Answers
<1>2. k \in 1..Len(Request(t).lines)
  BY DEF Answerable
<1> QED
  BY <1>1, <1>2

(* The variables of the server keep their types, no thread reads past the  *)
(* end of its request, and no record holds a part of a text or a mixture.  *)
THEOREM TypeCorrect == Spec => []TypeOK
<1>1. Init => Types /\ ThreadsInv
  BY TypeInit DEF Init, ThreadsInv, ThreadInv
<1>2. Types /\ ThreadsInv /\ [Next]_vars => (Types /\ ThreadsInv)'
  BY TypeStep, ThreadsStep
<1>3. Types /\ ThreadsInv => TypeOK
  <2> SUFFICES ASSUME Types, ThreadsInv, NEW t \in Threads, pc[t] # "free"
               PROVE  \A i \in DOMAIN outfile[t] : \E k \in DOMAIN Request(t).lines :
                        outfile[t][i].xml = Deserved(t, Request(t), k).xml
    BY DEF TypeOK
  <2>1. /\ Progress(t) /\ pc[t] \in Places /\ line[t] \in Nat
        /\ Len(Request(t).lines) \in Nat /\ line[t] <= Len(Request(t).lines)
    BY RequestKnown, ServerAssumption DEF ThreadsInv, ThreadInv, Types, Places
  <2>2. \E n \in Nat : n <= Len(Request(t).lines) /\ Answers(outfile[t], t, Request(t), n)
    <3>1. CASE pc[t] = "getline"
      BY <2>1, <3>1 DEF Progress
    <3>2. CASE pc[t] \in {"json", "decode", "check", "encode", "copy"}
      <4>1. Reading(t)
        BY <2>1, <3>2 DEF Progress, Decoding
      <4>2. line[t] - 1 \in Nat /\ line[t] - 1 <= Len(Request(t).lines)
        BY <2>1, <4>1 DEF Reading
      <4> QED
        BY <4>1, <4>2 DEF Reading
    <3>3. CASE pc[t] = "done"
      BY <2>1, <3>3 DEF Progress, Done
    <3> QED
      BY <2>1, <3>1, <3>2, <3>3 DEF Places
  <2> QED
    BY <2>1, <2>2, WholeTexts
<1> QED
  BY <1>1, <1>2, <1>3, PTL DEF Spec

(* Every response answers exactly the lines of its own request that can be *)
(* answered, in order, whatever the other threads do through the codec.    *)
THEOREM ResponsesIndependent == Spec => []ResponseOfRequestAlone
<1>1. Init => Types /\ ThreadsInv
  BY TypeInit DEF Init, ThreadsInv, ThreadInv
<1>2. Types /\ ThreadsInv /\ [Next]_vars => (Types /\ ThreadsInv)'
  BY TypeStep, ThreadsStep
<1>3. ThreadsInv => ResponseOfRequestAlone
  BY DEF ThreadsInv, ThreadInv, Progress, Done, ResponseOfRequestAlone
<1> QED
  BY <1>1, <1>2, <1>3, PTL DEF Spec

-----------------------------------------------------------------------------
(* Blocks. *)

(* Block b of thread t is in use, or came from a line that leaks it.       *)
Accounted(t, b) ==
  \/ b.line = line[t] /\ pc[t] \in IF b.kind = "structure" THEN {"check", "encode"}
                                                        ELSE {"encode", "copy"}
  \/ Request(t).lines[b.line] = IF b.kind = "structure" THEN "bad_data" ELSE "bad_xer"

BlocksInv(t) == pc[t] # "free" => \A b \in heap[t] : Accounted(t, b)

LEMMA OwnBlocks ==
  ASSUME Types, NEW t \in Threads, BlocksInv(t), Step(t)
  PROVE  BlocksInv(t)'
<1> SUFFICES ASSUME NEW b \in heap'[t] PROVE Accounted(t, b)'
  BY DEF BlocksInv
<1>1. Request(t)' = Request(t) /\ pc[t] # "free"
  BY StepMoves DEF Moves, Request
<1>2. /\ pc \in [Threads -> Places] /\ line \in [Threads -> Nat]
      /\ heap \in [Threads -> SUBSET Blocks]
  BY DEF Types, Places
<1>3. \A c \in heap[t] : Accounted(t, c) /\ c.kind \in {"structure", "text"}
                          /\ c = [line |-> c.line, kind |-> c.kind]
  BY <1>1, <1>2 DEF BlocksInv, Blocks
<1>4. \A k \in {"structure", "text"} :
        Block(t, k).line = line[t] /\ Block(t, k).kind = k
  BY DEF Block
<1>5. CASE SkipBlank(t) \/ GetLine(t)
  BY <1>1, <1>2, <1>3, <1>5 DEF SkipBlank, GetLine, Goto, Accounted
<1>6. CASE EndOfBatch(t) \/ RefuseJson(t) \/ ReadFields(t)
  BY <1>1, <1>2, <1>3, <1>6 DEF EndOfBatch, RefuseJson, ReadFields, Goto, Accounted
<1>7. CASE RefuseHex(t) \/ Respond(t)
  BY <1>1, <1>2, <1>3, <1>7 DEF RefuseHex, Respond, Throw, Goto, Accounted
<1>8. CASE DecodeFails(t)
  <2>1. pc[t] = "decode" /\ line' = line /\ Request(t).lines[line[t]] = "bad_data"
    BY <1>8 DEF DecodeFails, Throw, Goto, Current
  <2>2. b \in heap[t] \/ b = Block(t, "structure")
    BY <1>2, <1>8 DEF DecodeFails, Allocate
  <2> QED
    BY <1>1, <1>3, <1>4, <2>1, <2>2 DEF Accounted
<1>9. CASE Decode(t)
  <2>1. pc[t] = "decode" /\ pc'[t] = "check" /\ line' = line
    BY <1>2, <1>9 DEF Decode, Goto
  <2>2. b \in heap[t] \/ b = Block(t, "structure")
    BY <1>2, <1>9 DEF Decode, Allocate
  <2> QED
    BY <1>1, <1>3, <1>4, <2>1, <2>2 DEF Accounted
<1>10. CASE CheckFails(t)
  <2>1. pc[t] = "check" /\ line' = line
    BY <1>2, <1>10 DEF CheckFails, Throw, Goto
  <2>2. b \in heap[t] /\ b # Block(t, "structure")
    BY <1>2, <1>10 DEF CheckFails, Free
  <2>3. ~(b.line = line[t] /\ b.kind = "structure")
    BY <1>3, <2>2 DEF Block
  <2> QED
    BY <1>1, <1>3, <2>1, <2>2, <2>3 DEF Accounted
<1>11. CASE Check(t)
  BY <1>1, <1>2, <1>3, <1>11 DEF Check, Goto, Accounted
<1>12. CASE AppendChunk(t)
  <2>1. pc[t] = "encode" /\ pc'[t] = "encode" /\ line' = line
    BY <1>2, <1>12 DEF AppendChunk, Goto
  <2>2. b \in heap[t] \/ b = Block(t, "text")
    BY <1>2, <1>12 DEF AppendChunk, Allocate
  <2> QED
    BY <1>1, <1>3, <1>4, <2>1, <2>2 DEF Accounted
<1>13. CASE EncodeFails(t) \/ Encoded(t)
  <2>1. /\ pc[t] = "encode" /\ line' = line
        /\ pc'[t] = "copy" \/ Request(t).lines[line[t]] = "bad_xer"
    BY <1>2, <1>13 DEF EncodeFails, Encoded, Throw, Goto, Current
  <2>2. b \in heap[t] /\ b # Block(t, "structure")
    BY <1>2, <1>13 DEF EncodeFails, Encoded, Free
  <2>3. ~(b.line = line[t] /\ b.kind = "structure")
    BY <1>3, <2>2 DEF Block
  <2> QED
    BY <1>1, <1>3, <2>1, <2>2, <2>3 DEF Accounted
<1>14. CASE Write(t)
  <2>1. pc[t] = "copy" /\ line' = line
    BY <1>2, <1>14 DEF Write, Goto
  <2>2. b \in heap[t] /\ b # Block(t, "text")
    BY <1>2, <1>14 DEF Write, Free
  <2>3. ~(b.line = line[t] /\ b.kind = "text")
    BY <1>3, <2>2 DEF Block
  <2> QED
    BY <1>1, <1>3, <2>1, <2>2, <2>3 DEF Accounted
<1> QED
  BY <1>5, <1>6, <1>7, <1>8, <1>9, <1>10, <1>11, <1>12, <1>13, <1>14 DEF Step

(* Nothing but the blocks of lines that failed in asn_decode() or          *)
(* xer_encode() is left behind by a request.                               *)
THEOREM LeaksBounded == Spec => []LeaksOnlyFailures
<1> DEFINE Inv == Types /\ \A t \in Threads : BlocksInv(t)
<1>1. Init => Inv
  BY TypeInit DEF Init, BlocksInv
<1>2. Inv /\ [Next]_vars => Inv'
  <2> SUFFICES ASSUME Inv, [Next]_vars, NEW t \in Threads PROVE BlocksInv(t)'
    BY TypeStep
  <2>1. ASSUME Local(t)' = Local(t) PROVE BlocksInv(t)'
    <3>1. pc'[t] = pc[t] /\ line'[t] = line[t] /\ heap'[t] = heap[t] /\ Request(t)' = Request(t)
      BY <2>1 DEF Local, Request
    <3> QED
      BY <3>1 DEF BlocksInv, Accounted
  <2>2. CASE UNCHANGED vars
    BY <2>1, <2>2 DEF vars, locals, Local
  <2>3. ASSUME NEW u \in Threads, Accept(u) \/ Step(u), u # t PROVE BlocksInv(t)'
    BY <2>1, <2>3, OthersStayOut
  <2>4. ASSUME Accept(t) PROVE BlocksInv(t)'
    <3>1. heap'[t] = {}
      BY <2>4 DEF Accept, Types
    <3> QED
      BY <3>1 DEF BlocksInv
  <2>5. ASSUME Step(t) PROVE BlocksInv(t)'
    BY <2>5, OwnBlocks
  <2> QED
    BY <2>2, <2>3, <2>4, <2>5 DEF Next
<1>3. Inv => LeaksOnlyFailures
  BY DEF BlocksInv, Accounted, LeaksOnlyFailures
<1> QED
  BY <1>1, <1>2, <1>3, PTL DEF Spec

-----------------------------------------------------------------------------
(* The way to the response. *)

(* How far a thread has come with its request: ten for each line it read,  *)
(* and its place within the line; the text has two chunks at most.         *)
Reached(t) ==
  10 * line[t] + CASE pc[t] = "json"    -> 1
                   [] pc[t] = "decode"  -> 2
                   [] pc[t] = "check"   -> 3
                   [] pc[t] = "encode"  -> 4 + Len(xb[t])
                   [] pc[t] = "copy"    -> 7
                   [] pc[t] = "getline" -> 8
                   [] pc[t] = "done"    -> 9

(* Every step of a thread takes its request forward, whatever its lines    *)
(* fail on, up to a bound that depends on their number only; and no other  *)
(* thread takes it back (http_server.cpp:159-249).                         *)
RequestsAdvance ==
  [][\A t \in Threads : pc[t] # "free" =>
       /\ Reached(t) \in 0..(10 * Len(Request(t).lines) + 9)
       /\ Step(t) => IF pc[t] = "done" THEN pc'[t] = "free" ELSE Reached(t)' > Reached(t)
       /\ ~Step(t) => Reached(t)' = Reached(t)]_vars

(* How far a thread can come. *)
LEMMA ReachedType ==
  ASSUME Types, ThreadsInv, NEW t \in Threads, pc[t] # "free"
  PROVE  Reached(t) \in 0..(10 * Len(Request(t).lines) + 9)
<1>1. /\ line[t] \in Nat /\ Len(Request(t).lines) \in Nat /\ line[t] <= Len(Request(t).lines)
      /\ pc[t] \in Places /\ Len(xb[t]) \in Nat
  BY RequestKnown DEF Types, Places
<1>2. pc[t] = "encode" => Len(xb[t]) <= 2
  <2>1. pc[t] = "encode" => Len(xb[t]) <= IF Current(t) = "bad_xer" THEN 1 ELSE 2
    BY DEF ThreadsInv, ThreadInv, Progress
  <2> QED
    BY <1>1, <2>1
<1> QED
  BY <1>1, <1>2, SMTT(30) DEF Reached, Places

(* Each step of a thread is one forward. *)
LEMMA StepAdvances ==
  ASSUME Types, ThreadsInv, NEW t \in Threads, Step(t)
  PROVE  IF pc[t] = "done" THEN pc'[t] = "free" ELSE Reached(t)' > Reached(t)
<1>1. /\ pc \in [Threads -> Places] /\ line \in [Threads -> Nat]
      /\ line[t] \in Nat /\ xb \in [Threads -> Seq(Chunks)]
      /\ Len(xb[t]) \in Nat
  BY DEF Types, Places
<1>2. pc[t] = "encode" => Len(xb[t]) <= 2
  <2>1. pc[t] = "encode" => Len(xb[t]) <= IF Current(t) = "bad_xer" THEN 1 ELSE 2
    BY DEF ThreadsInv, ThreadInv, Progress
  <2> QED
    BY <1>1, <2>1
<1>3. CASE SkipBlank(t) \/ GetLine(t)
  <2>1. pc[t] = "getline" /\ pc'[t] \in {"getline", "json", "decode"} /\ line'[t] = line[t] + 1
    BY <1>1, <1>3 DEF SkipBlank, GetLine, Goto
  <2> QED
    BY <1>1, <2>1 DEF Reached
<1>4. CASE EndOfBatch(t) \/ RefuseJson(t) \/ ReadFields(t)
  <2>1. /\ line'[t] = line[t]
        /\ \/ pc[t] = "getline" /\ pc'[t] = "done"
           \/ pc[t] = "json" /\ pc'[t] \in {"getline", "decode"}
    BY <1>1, <1>4 DEF EndOfBatch, RefuseJson, ReadFields, Goto
  <2> QED
    BY <1>1, <2>1 DEF Reached
<1>5. CASE RefuseHex(t) \/ DecodeFails(t) \/ CheckFails(t) \/ EncodeFails(t)
  <2>1. /\ line'[t] = line[t]
        /\ pc[t] \in {"decode", "check", "encode"} /\ pc'[t] \in {"getline", "done"}
    BY <1>1, <1>5 DEF RefuseHex, DecodeFails, CheckFails, EncodeFails, Throw, Goto
  <2> QED
    BY <1>1, <1>2, <2>1 DEF Reached
<1>6. CASE Decode(t) \/ Encoded(t)
  <2>1. /\ line'[t] = line[t]
        /\ \/ pc[t] = "decode" /\ pc'[t] = "check"
           \/ pc[t] = "encode" /\ pc'[t] = "copy"
    BY <1>1, <1>6 DEF Decode, Encoded, Goto
  <2> QED
    BY <1>1, <1>2, <2>1 DEF Reached
<1>7. CASE Check(t)
  <2>1. line'[t] = line[t] /\ pc[t] = "check" /\ pc'[t] = "encode" /\ xb' = xb
    BY <1>1, <1>7 DEF Check, Goto
  <2> QED
    BY <1>1, <2>1 DEF Reached
<1>8. CASE AppendChunk(t)
  <2>1. line'[t] = line[t] /\ pc[t] = "encode" /\ pc'[t] = "encode"
    BY <1>1, <1>8 DEF AppendChunk, Goto
  <2>2. Len(xb'[t]) = Len(xb[t]) + 1
    BY <1>1, <1>8 DEF AppendChunk, Buffer
  <2> QED
    BY <1>1, <2>1, <2>2 DEF Reached
<1>9. CASE Write(t) \/ Respond(t)
  <2>1. /\ line'[t] = line[t]
        /\ \/ pc[t] = "copy" /\ pc'[t] \in {"getline", "done"}
           \/ pc[t] = "done" /\ pc'[t] = "free"
    BY <1>1, <1>9 DEF Write, Respond, Goto
  <2> QED
    BY <1>1, <2>1 DEF Reached
<1> QED
  BY <1>3, <1>4, <1>5, <1>6, <1>7, <1>8, <1>9 DEF Step

(* No request, whatever its lines are and whatever fails on them, keeps a  *)
(* thread of the server forever (http_server.cpp:159-249).                 *)
THEOREM RequestsGetOn == Spec => RequestsAdvance
<1>1. Init => Types /\ ThreadsInv
  BY TypeInit DEF Init, ThreadsInv, ThreadInv
<1>2. Types /\ ThreadsInv /\ [Next]_vars => (Types /\ ThreadsInv)'
  BY TypeStep, ThreadsStep
<1>3. Types /\ ThreadsInv /\ [Next]_vars =>
        [\A t \in Threads : pc[t] # "free" =>
           /\ Reached(t) \in 0..(10 * Len(Request(t).lines) + 9)
           /\ Step(t) => IF pc[t] = "done" THEN pc'[t] = "free" ELSE Reached(t)' > Reached(t)
           /\ ~Step(t) => Reached(t)' = Reached(t)]_vars
  <2> SUFFICES ASSUME Types, ThreadsInv, Next, NEW t \in Threads, pc[t] # "free"
               PROVE  /\ Reached(t) \in 0..(10 * Len(Request(t).lines) + 9)
                      /\ Step(t) => IF pc[t] = "done" THEN pc'[t] = "free"
                                                      ELSE Reached(t)' > Reached(t)
                      /\ ~Step(t) => Reached(t)' = Reached(t)
    OBVIOUS
  <2>1. ~Accept(t)
    BY DEF Accept, Goto
  <2>2. ASSUME ~Step(t) PROVE Local(t)' = Local(t)
    <3>1. PICK u \in Threads : Accept(u) \/ Step(u)
      BY DEF Next
    <3>2. u # t
      BY <2>1, <2>2, <3>1
    <3> QED
      BY <3>1, <3>2, OthersStayOut
  <2>3. ASSUME Local(t)' = Local(t) PROVE Reached(t)' = Reached(t)
    BY <2>3 DEF Local, Reached
  <2> QED
    BY <2>2, <2>3, ReachedType, StepAdvances
<1> QED
  BY <1>1, <1>2, <1>3, PTL DEF Spec, RequestsAdvance

-----------------------------------------------------------------------------
(* Liveness.  A thread that has a request is scheduled again and again.    *)

KeepsGoing(t) == []<><<Step(t)>>_vars \/ []<>(pc[t] = "free")

(* This is the fairness of FairSpec, having a request standing for ENABLED.  *)
LEMMA FairnessKeepsGoing ==
  ASSUME NEW t \in Threads
  PROVE  WF_vars(Step(t)) /\ [](pc[t] # "free" => ENABLED <<Step(t)>>_vars) => KeepsGoing(t)
<1>1. pc[t] # "free" <=> ~(pc[t] = "free")
  OBVIOUS
<1> QED
  BY <1>1, PTL DEF KeepsGoing

(* A thread is j places into what follows its k-th line, or through with it. *)
Within(t, k, j) == pc[t] # "free" /\ line[t] = k /\ Reached(t) >= 10 * k + j
Past(t, k)      == pc[t] # "free" /\ (line[t] > k \/ pc[t] = "done")

(* A request ends at the place where it is answered. *)
LEMMA StaysBusy ==
  ASSUME Types, NEW t \in Threads, Step(t), pc[t] # "done"
  PROVE  pc'[t] # "free"
<1>1. pc \in [Threads -> Places]
  BY DEF Types, Places
<1>2. ~Respond(t)
  BY DEF Respond, Goto
<1> QED
  BY <1>1, <1>2 DEF Step, SkipBlank, GetLine, EndOfBatch, RefuseJson, ReadFields, RefuseHex,
     DecodeFails, Decode, CheckFails, Check, AppendChunk, EncodeFails, Encoded, Write, Throw, Goto

(* Where a thread is can be told, before a step and after it. *)
Located == \A t \in Threads : pc[t] # "free" => Reached(t) \in Nat

LEMMA ThreadsLocated == Types /\ ThreadsInv => Located
BY ReachedType, RequestKnown DEF Located

LEMMA LocatedAfter == (Types /\ ThreadsInv)' => Located'
BY ThreadsLocated, PTL

(* What is within a line stays there, and gets on with each step of the thread. *)
LEMMA WithinMoves ==
  ASSUME NEW t \in Threads, NEW k \in Nat, NEW j \in 0..8
  PROVE  /\ Types /\ ThreadsInv /\ Within(t, k, j) /\ [Next]_vars
              => Within(t, k, j)' \/ Past(t, k)' \/ Past(t, k)
         /\ Types /\ ThreadsInv /\ Within(t, k, j) /\ <<Step(t)>>_vars
              => Within(t, k, j + 1)' \/ Past(t, k)' \/ Past(t, k)
<1> SUFFICES ASSUME Types, ThreadsInv, Within(t, k, j), [Next]_vars, ~Past(t, k), ~Past(t, k)'
             PROVE  /\ Within(t, k, j)'
                    /\ Step(t) => Within(t, k, j + 1)'
  BY DEF Next
<1>1. /\ pc[t] # "free" /\ pc[t] # "done" /\ line[t] = k /\ Reached(t) >= 10 * k + j
      /\ Reached(t) \in Nat
  BY ReachedType, RequestKnown DEF Within, Past
<1>2. ASSUME Step(t) PROVE Within(t, k, j)' /\ Within(t, k, j + 1)'
  <2>1. pc'[t] # "free" /\ ~(line'[t] > k)
    BY <1>1, <1>2, StaysBusy DEF Past
  <2>2. line'[t] = k
    <3>1. line \in [Threads -> Nat]
      BY DEF Types
    <3>2. line' = line \/ line' = [line EXCEPT ![t] = line[t] + 1]
      BY <1>2, StepMoves DEF Moves
    <3> QED
      BY <1>1, <2>1, <3>1, <3>2
  <2>3. Reached(t)' > Reached(t)
    BY <1>1, <1>2, StepAdvances
  <2>4. Reached(t)' \in Nat
    BY <2>1, TypeStep, ThreadsStep, LocatedAfter DEF Located
  <2> QED
    BY <1>1, <2>1, <2>2, <2>3, <2>4 DEF Within
<1>3. ASSUME ~Step(t) PROVE Within(t, k, j)'
  <2>1. Local(t)' = Local(t)
    <3>1. ~Accept(t)
      BY <1>1 DEF Accept, Goto
    <3>2. CASE UNCHANGED vars
      BY <3>2 DEF vars, locals, Local
    <3>3. CASE Next
      <4>1. PICK u \in Threads : Accept(u) \/ Step(u)
        BY <3>3 DEF Next
      <4> QED
        BY <1>3, <3>1, <4>1, OthersStayOut
    <3> QED
      BY <3>2, <3>3
  <2> QED
    BY <1>1, <2>1 DEF Local, Within, Reached
<1> QED
  BY <1>2, <1>3

(* After its last place a line is done with. *)
LEMMA WithinEnds ==
  ASSUME NEW t \in Threads, NEW k \in Nat
  PROVE  Types /\ ThreadsInv /\ Within(t, k, 9) => Past(t, k)
<1> SUFFICES ASSUME Types, ThreadsInv, Within(t, k, 9), pc[t] # "done" PROVE FALSE
  BY DEF Within, Past
<1>1. pc[t] \in Places /\ Len(xb[t]) \in Nat
  BY DEF Types, Places
<1>2. pc[t] = "encode" => Len(xb[t]) <= 2
  <2>1. pc[t] = "encode" => Len(xb[t]) <= IF Current(t) = "bad_xer" THEN 1 ELSE 2
    BY DEF ThreadsInv, ThreadInv, Progress, Within
  <2> QED
    BY <1>1, <2>1
<1> QED
  BY <1>1, <1>2 DEF Within, Reached, Places

LineServed(t, k) == (pc[t] # "free" /\ line[t] = k) ~> Past(t, k)

(* Every line of a batch is done with, whatever it fails on and whatever the *)
(* other threads do (http_server.cpp:159-249).                               *)
THEOREM LinesServed ==
  ASSUME NEW t \in Threads, NEW k \in Nat
  PROVE  Spec /\ KeepsGoing(t) => LineServed(t, k)
<1> DEFINE Inv == Types /\ ThreadsInv
<1>1. Init => Inv
  BY TypeInit DEF Init, ThreadsInv, ThreadInv
<1>2. Inv /\ [Next]_vars => Inv'
  BY TypeStep, ThreadsStep
<1>3. Inv /\ pc[t] # "free" /\ line[t] = k => Within(t, k, 0)
  <2> SUFFICES ASSUME Inv, pc[t] # "free", line[t] = k PROVE Within(t, k, 0)
    OBVIOUS
  <2>1. pc[t] \in Places /\ Len(xb[t]) \in Nat
    BY DEF Types, Places
  <2> QED
    BY <2>1 DEF Within, Reached, Places
<1>4. Inv /\ Within(t, k, 9) => Past(t, k)
  BY WithinEnds
<1>5. /\ Inv /\ Within(t, k, 0) /\ [Next]_vars => Within(t, k, 0)' \/ Past(t, k)' \/ Past(t, k)
      /\ Inv /\ Within(t, k, 0) /\ <<Step(t)>>_vars => Within(t, k, 1)' \/ Past(t, k)' \/ Past(t, k)
      /\ Inv /\ Within(t, k, 1) /\ [Next]_vars => Within(t, k, 1)' \/ Past(t, k)' \/ Past(t, k)
      /\ Inv /\ Within(t, k, 1) /\ <<Step(t)>>_vars => Within(t, k, 2)' \/ Past(t, k)' \/ Past(t, k)
      /\ Inv /\ Within(t, k, 2) /\ [Next]_vars => Within(t, k, 2)' \/ Past(t, k)' \/ Past(t, k)
      /\ Inv /\ Within(t, k, 2) /\ <<Step(t)>>_vars => Within(t, k, 3)' \/ Past(t, k)' \/ Past(t, k)
      /\ Inv /\ Within(t, k, 3) /\ [Next]_vars => Within(t, k, 3)' \/ Past(t, k)' \/ Past(t, k)
      /\ Inv /\ Within(t, k, 3) /\ <<Step(t)>>_vars => Within(t, k, 4)' \/ Past(t, k)' \/ Past(t, k)
      /\ Inv /\ Within(t, k, 4) /\ [Next]_vars => Within(t, k, 4)' \/ Past(t, k)' \/ Past(t, k)
      /\ Inv /\ Within(t, k, 4) /\ <<Step(t)>>_vars => Within(t, k, 5)' \/ Past(t, k)' \/ Past(t, k)
      /\ Inv /\ Within(t, k, 5) /\ [Next]_vars => Within(t, k, 5)' \/ Past(t, k)' \/ Past(t, k)
      /\ Inv /\ Within(t, k, 5) /\ <<Step(t)>>_vars => Within(t, k, 6)' \/ Past(t, k)' \/ Past(t, k)
      /\ Inv /\ Within(t, k, 6) /\ [Next]_vars => Within(t, k, 6)' \/ Past(t, k)' \/ Past(t, k)
      /\ Inv /\ Within(t, k, 6) /\ <<Step(t)>>_vars => Within(t, k, 7)' \/ Past(t, k)' \/ Past(t, k)
      /\ Inv /\ Within(t, k, 7) /\ [Next]_vars => Within(t, k, 7)' \/ Past(t, k)' \/ Past(t, k)
      /\ Inv /\ Within(t, k, 7) /\ <<Step(t)>>_vars => Within(t, k, 8)' \/ Past(t, k)' \/ Past(t, k)
      /\ Inv /\ Within(t, k, 8) /\ [Next]_vars => Within(t, k, 8)' \/ Past(t, k)' \/ Past(t, k)
      /\ Inv /\ Within(t, k, 8) /\ <<Step(t)>>_vars => Within(t, k, 9)' \/ Past(t, k)' \/ Past(t, k)
  BY WithinMoves
<1>6. Within(t, k, 0) \/ Within(t, k, 1) \/ Within(t, k, 2) \/ Within(t, k, 3)
        \/ Within(t, k, 4) \/ Within(t, k, 5) \/ Within(t, k, 6) \/ Within(t, k, 7)
        \/ Within(t, k, 8) => ~(pc[t] = "free")
  BY DEF Within
<1> QED
  BY <1>1, <1>2, <1>3, <1>4, <1>5, <1>6, PTL DEF Spec, KeepsGoing, LineServed

(* A thread has a single request. *)
Single(t) == pc[t] # "free" /\ ~Request(t).batch

LEMMA SingleStays ==
  ASSUME NEW t \in Threads
  PROVE  Types /\ Single(t) /\ [Next]_vars => Single(t)' \/ pc[t] = "done"
<1> SUFFICES ASSUME Types, Single(t), [Next]_vars, pc[t] # "done" PROVE Single(t)'
  OBVIOUS
<1>1. ~Accept(t)
  BY DEF Single, Accept, Goto
<1>2. CASE Step(t)
  <2>1. pc'[t] # "free" /\ req' = req
    BY <1>2, StaysBusy, StepMoves DEF Moves
  <2> QED
    BY <2>1 DEF Single, Request
<1>3. ASSUME Local(t)' = Local(t) PROVE Single(t)'
  BY <1>3 DEF Local, Single, Request
<1>4. CASE UNCHANGED vars
  BY <1>3, <1>4 DEF vars, locals, Local
<1>5. CASE Next /\ ~Step(t)
  <2>1. PICK u \in Threads : Accept(u) \/ Step(u)
    BY <1>5 DEF Next
  <2> QED
    BY <1>1, <1>3, <1>5, <2>1, OthersStayOut
<1> QED
  BY <1>2, <1>4, <1>5

(* So every single request that is accepted is answered, with the status   *)
(* ResponsesIndependent speaks of: EveryRequestAnswered for such requests. *)
THEOREM SinglesAnswered ==
  ASSUME NEW t \in Threads
  PROVE  Spec /\ KeepsGoing(t) => (Single(t) ~> pc[t] = "done")
<1> DEFINE Inv == Types /\ ThreadsInv
<1>1. Spec /\ KeepsGoing(t) => LineServed(t, 1)
  BY LinesServed
<1>2. Inv /\ Single(t) => pc[t] # "free" /\ (line[t] = 1 \/ pc[t] = "done")
  <2> SUFFICES ASSUME Inv, Single(t), pc[t] # "done" PROVE line[t] = 1
    BY DEF Single
  <2>1. pc[t] \in Places /\ Progress(t) /\ pc[t] # "free" /\ ~Request(t).batch
    BY DEF Types, Places, ThreadsInv, ThreadInv, Single
  <2>2. pc[t] # "getline"
    BY <2>1 DEF Progress
  <2>3. Reading(t)
    BY <2>1, <2>2 DEF Progress, Decoding, Places
  <2> QED
    BY <2>1, <2>3 DEF Reading
<1>3. Inv /\ Single(t) /\ [Next]_vars => Single(t)' \/ pc[t] = "done"
  BY SingleStays
<1>4. Inv /\ Single(t) /\ Past(t, 1) => pc[t] = "done"
  <2> SUFFICES ASSUME Inv, Single(t), line[t] > 1 PROVE FALSE
    BY DEF Past
  <2>1. Request(t) \in Requests /\ line[t] <= Len(Request(t).lines) /\ line[t] \in Nat
    BY RequestKnown DEF Single, Types
  <2>2. Len(Request(t).lines) = 1
    BY <2>1, ServerAssumption DEF Single
  <2> QED
    BY <2>1, <2>2
<1>5. Init => Inv
  BY TypeInit DEF Init, ThreadsInv, ThreadInv
<1>6. Inv /\ [Next]_vars => Inv'
  BY TypeStep, ThreadsStep
<1> QED
  BY <1>1, <1>2, <1>3, <1>4, <1>5, <1>6, PTL DEF Spec, LineServed
=============================================================================
