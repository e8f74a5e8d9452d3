------------------------------ MODULE HttpServer ------------------------------
(***************************************************************************)
(* The HTTP server (src/src/http_server.cpp): post_single() and            *)
(* post_batch() on several threads, all through one ASN1_Codec whose       *)
(* decode_messageframe_data() they call.                                   *)
(*                                                                         *)
(* A line of a request is reduced to how far it gets; what it says is its  *)
(* number.  The XER text of a message is written in two chunks, so that    *)
(* two threads that shared a buffer would mix them.                        *)
(***************************************************************************)
EXTENDS Naturals, Sequences

CONSTANTS
  Threads,      \* the concurrency of the server
  Requests,     \* the requests clients send
  MaxRequests   \* bound: requests accepted

(* What a line of JSON fails on: parsing, then each field in the order it  *)
(* is read.                                                                *)
JsonErrors == {"broken", "no_timestamp", "no_type", "no_hex"}

(* What the hex text of a line fails on: not hexadecimal (or empty),       *)
(* asn_decode(), asn_check_constraints(), xer_encode().                    *)
HexErrors == {"bad_hex", "bad_data", "bad_constraint", "bad_xer"}

Lines == {"blank", "ok"} \cup HexErrors

ASSUME ServerAssumption ==
  /\ MaxRequests \in Nat
  /\ \A r \in Requests :
       /\ r.batch \in BOOLEAN /\ r.is_json \in BOOLEAN
       /\ r.lines \in Seq(Lines \cup JsonErrors)
       /\ ~r.is_json => r.lines \in Seq(Lines)
       /\ ~r.batch => ~r.is_json /\ Len(r.lines) = 1

VARIABLES
  pc,            \* where each thread is
  req,           \* the request each thread handles: a set of at most one
  line,          \* lines of it read so far
  timestamp,     \* locals of post_batch(): the line each was last read from
  message_type,
  hex_line,
  xb,            \* the XER buffers: the chunks written
  outfile,       \* the records of the response
  status,        \* the status of the response
  heap,          \* the ASN.1 structures and XER buffers each thread allocated
                 \* for its request and did not free
  accepted       \* requests accepted so far

locals == <<timestamp, message_type, hex_line>>
vars == <<pc, req, line, locals, xb, outfile, status, heap, accepted>>

(* Mutant: the XER buffer is a member of the codec all threads share. *)
SharedBuffer(t) == CHOOSE u \in Threads : TRUE

(* The XER buffer thread t writes to, a local of its own. *)
Buffer(t) == t

Request(t)  == CHOOSE r \in req[t] : TRUE
Current(t)  == Request(t).lines[line[t]]
Chunk(t, i) == [thread |-> t, line |-> hex_line[t], part |-> i]
Block(t, kind) == [line |-> line[t], kind |-> kind]
Allocate(t, kind) == heap' = [heap EXCEPT ![t] = @ \cup {Block(t, kind)}]
Free(t, kind)     == heap' = [heap EXCEPT ![t] = @ \ {Block(t, kind)}]
Goto(t, from, to) == pc[t] = from /\ pc' = [pc EXCEPT ![t] = to]

Init ==
  /\ pc = [t \in Threads |-> "free"]
  /\ req = [t \in Threads |-> {}]
  /\ line = [t \in Threads |-> 0]
  /\ timestamp = [t \in Threads |-> 0]
  /\ message_type = [t \in Threads |-> 0]
  /\ hex_line = [t \in Threads |-> 0]
  /\ xb = [t \in Threads |-> <<>>]
  /\ outfile = [t \in Threads |-> <<>>]
  /\ status = [t \in Threads |-> 0]
  /\ heap = [t \in Threads |-> {}]
  /\ accepted = 0

(* A thread takes a request; the whole body of a single one is one line.   *)
Accept(t) ==
  /\ accepted < MaxRequests
  /\ accepted' = accepted + 1
  /\ \E r \in Requests :
       /\ req' = [req EXCEPT ![t] = {r}]
       /\ Goto(t, "free", IF r.batch THEN "getline" ELSE "decode")
       /\ line' = [line EXCEPT ![t] = IF r.batch THEN 0 ELSE 1]
       /\ hex_line' = [hex_line EXCEPT ![t] = IF r.batch THEN 0 ELSE 1]
  /\ timestamp' = [timestamp EXCEPT ![t] = 0]
  /\ message_type' = [message_type EXCEPT ![t] = 0]
  /\ outfile' = [outfile EXCEPT ![t] = <<>>]
  /\ status' = [status EXCEPT ![t] = 0]
  /\ heap' = [heap EXCEPT ![t] = {}]
  /\ UNCHANGED xb

-----------------------------------------------------------------------------
(* The loop over the lines of a batch *)

(* Mutant: an empty line is tested before it is consumed. *)
SkipBlankAgain(t) ==
  /\ Goto(t, "getline", "getline")
  /\ line[t] < Len(Request(t).lines)
  /\ Request(t).lines[line[t] + 1] = "blank"
  /\ UNCHANGED <<req, line, locals, xb, outfile, status, heap, accepted>>

SkipBlank(t) ==
  /\ Goto(t, "getline", "getline")
  /\ line[t] < Len(Request(t).lines)
  /\ Request(t).lines[line[t] + 1] = "blank"
  /\ line' = [line EXCEPT ![t] = @ + 1]
  /\ UNCHANGED <<req, locals, xb, outfile, status, heap, accepted>>

GetLine(t) ==
  /\ Goto(t, "getline", IF Request(t).is_json THEN "json" ELSE "decode")
  /\ line[t] < Len(Request(t).lines)
  /\ Request(t).lines[line[t] + 1] # "blank"
  /\ line' = [line EXCEPT ![t] = @ + 1]
  /\ hex_line' = IF Request(t).is_json THEN hex_line
                 ELSE [hex_line EXCEPT ![t] = line[t] + 1]
  /\ UNCHANGED <<req, timestamp, message_type, xb, outfile, status, heap, accepted>>

EndOfBatch(t) ==
  /\ Goto(t, "getline", "done")
  /\ line[t] = Len(Request(t).lines)
  /\ status' = [status EXCEPT ![t] = 200]
  /\ UNCHANGED <<req, line, locals, xb, outfile, heap, accepted>>

(* json::parse_error is caught inside the loop, the type_error of a        *)
(* missing field by the clause around it, when the fields before it have   *)
(* been overwritten.                                                       *)
RefuseJson(t) ==
  /\ Goto(t, "json", "getline")
  /\ Current(t) \in JsonErrors
  /\ timestamp' = IF Current(t) \in {"no_type", "no_hex"}
                  THEN [timestamp EXCEPT ![t] = line[t]] ELSE timestamp
  /\ message_type' = IF Current(t) = "no_hex"
                     THEN [message_type EXCEPT ![t] = line[t]] ELSE message_type
  /\ UNCHANGED <<req, line, hex_line, xb, outfile, status, heap, accepted>>

ReadFields(t) ==
  /\ Goto(t, "json", "decode")
  /\ Current(t) \notin JsonErrors
  /\ timestamp' = [timestamp EXCEPT ![t] = line[t]]
  /\ message_type' = [message_type EXCEPT ![t] = line[t]]
  /\ hex_line' = [hex_line EXCEPT ![t] = line[t]]
  /\ UNCHANGED <<req, line, xb, outfile, status, heap, accepted>>

-----------------------------------------------------------------------------
(* decode_messageframe_data() *)

(* Where an exception takes the thread: the clause inside the loop of a    *)
(* batch, or crow's handler, which answers a single request with 500.      *)
Throw(t, from) ==
  /\ Goto(t, from, IF Request(t).batch THEN "getline" ELSE "done")
  /\ status' = IF Request(t).batch THEN status ELSE [status EXCEPT ![t] = 500]

RefuseHex(t) ==
  /\ Throw(t, "decode")
  /\ Current(t) \in {"blank", "bad_hex"}
  /\ xb' = [xb EXCEPT ![Buffer(t)] = <<>>]
  /\ UNCHANGED <<req, line, locals, outfile, heap, accepted>>

(* asn_decode() fails: what it has allocated is never freed. *)
DecodeFails(t) ==
  /\ Throw(t, "decode")
  /\ Current(t) = "bad_data"
  /\ xb' = [xb EXCEPT ![Buffer(t)] = <<>>]
  /\ Allocate(t, "structure") \/ UNCHANGED heap
  /\ UNCHANGED <<req, line, locals, outfile, accepted>>

Decode(t) ==
  /\ Goto(t, "decode", "check")
  /\ Current(t) \notin {"blank", "bad_hex", "bad_data"}
  /\ xb' = [xb EXCEPT ![Buffer(t)] = <<>>]
  /\ Allocate(t, "structure")
  /\ UNCHANGED <<req, line, locals, outfile, status, accepted>>

(* Mutant: the structure is not freed before the exception. *)
CheckFailsUnfreed(t) ==
  /\ Throw(t, "check")
  /\ Current(t) = "bad_constraint"
  /\ UNCHANGED <<req, line, locals, xb, outfile, heap, accepted>>

CheckFails(t) ==
  /\ Throw(t, "check")
  /\ Current(t) = "bad_constraint"
  /\ Free(t, "structure")
  /\ UNCHANGED <<req, line, locals, xb, outfile, accepted>>

Check(t) ==
  /\ Goto(t, "check", "encode")
  /\ Current(t) # "bad_constraint"
  /\ UNCHANGED <<req, line, locals, xb, outfile, status, heap, accepted>>

(* dynamic_buffer_append() allocates the buffer with the first chunk. *)
AppendChunk(t) ==
  /\ Goto(t, "encode", "encode")
  /\ Len(xb[Buffer(t)]) < IF Current(t) = "bad_xer" THEN 1 ELSE 2
  /\ xb' = [xb EXCEPT ![Buffer(t)] = Append(@, Chunk(t, Len(@) + 1))]
  /\ Allocate(t, "text")
  /\ UNCHANGED <<req, line, locals, outfile, status, accepted>>

(* Mutant: the result of xer_encode() is not tested. *)
EncodeFailsUntested(t) ==
  /\ Goto(t, "encode", "copy")
  /\ Current(t) = "bad_xer"
  /\ Free(t, "structure")
  /\ UNCHANGED <<req, line, locals, xb, outfile, status, accepted>>

(* xer_encode() fails, before or after the first chunk: the structure is   *)
(* freed, the buffer is not.                                               *)
EncodeFails(t) ==
  /\ Throw(t, "encode")
  /\ Current(t) = "bad_xer"
  /\ Free(t, "structure")
  /\ UNCHANGED <<req, line, locals, xb, outfile, accepted>>

Encoded(t) ==
  /\ Goto(t, "encode", "copy")
  /\ Len(xb[Buffer(t)]) >= 2
  /\ Free(t, "structure")
  /\ UNCHANGED <<req, line, locals, xb, outfile, status, accepted>>

(* The text is copied out of the buffer, the buffer freed, and a line with *)
(* the metadata and one with the text are written, or the single response. *)
Write(t) ==
  /\ Goto(t, "copy", IF Request(t).batch THEN "getline" ELSE "done")
  /\ outfile' = [outfile EXCEPT ![t] =
       Append(@, [type |-> message_type[t], stamp |-> timestamp[t], xml |-> xb[Buffer(t)]])]
  /\ Free(t, "text")
  /\ status' = IF Request(t).batch THEN status ELSE [status EXCEPT ![t] = 200]
  /\ UNCHANGED <<req, line, locals, xb, accepted>>

Respond(t) ==
  /\ Goto(t, "done", "free")
  /\ UNCHANGED <<req, line, locals, xb, outfile, status, heap, accepted>>

Step(t) ==
  \/ SkipBlank(t) \/ GetLine(t) \/ EndOfBatch(t) \/ RefuseJson(t) \/ ReadFields(t)
  \/ RefuseHex(t) \/ DecodeFails(t) \/ Decode(t) \/ CheckFails(t) \/ Check(t)
  \/ AppendChunk(t) \/ EncodeFails(t) \/ Encoded(t) \/ Write(t) \/ Respond(t)

Next == \E t \in Threads : Accept(t) \/ Step(t)

Spec == Init /\ [][Next]_vars

(* A thread that handles a request is scheduled again and again. *)
FairSpec == Spec /\ \A t \in Threads : WF_vars(Step(t))

-----------------------------------------------------------------------------
(* Properties *)

Chunks  == [thread : Threads, line : Nat, part : Nat]
Blocks  == [line : Nat, kind : {"structure", "text"}]
Records == [type : Nat, stamp : Nat, xml : Seq(Chunks)]

Types ==
  /\ pc \in [Threads -> {"free", "getline", "json", "decode", "check", "encode", "copy", "done"}]
  /\ req \in [Threads -> SUBSET Requests]
  /\ \A t \in Threads : pc[t] # "free" => \E r \in Requests : req[t] = {r}
  /\ line \in [Threads -> Nat]
  /\ \A t \in Threads : pc[t] # "free" => line[t] <= Len(Request(t).lines)
  /\ timestamp \in [Threads -> Nat]
  /\ message_type \in [Threads -> Nat]
  /\ hex_line \in [Threads -> Nat]
  /\ xb \in [Threads -> Seq(Chunks)]
  /\ outfile \in [Threads -> Seq(Records)]
  /\ status \in [Threads -> {0, 200, 500}]
  /\ heap \in [Threads -> SUBSET Blocks]
  /\ accepted \in 0..MaxRequests

(* The record line k of request r deserves by itself, from thread t: the   *)
(* metadata of the line and its whole text.                                *)
Deserved(t, r, k) ==
  [type  |-> IF r.is_json THEN k ELSE 0,
   stamp |-> IF r.is_json THEN k ELSE 0,
   xml   |-> <<[thread |-> t, line |-> k, part |-> 1],
               [thread |-> t, line |-> k, part |-> 2]>>]

(* The variables keep their types; a thread never reads past the end of    *)
(* its request, and each record of its response, while it is written too,  *)
(* holds the whole text of one line of that request                        *)
(* (acm.cpp:1426-1440, http_server.cpp:159-249).                           *)
TypeOK ==
  /\ Types
  /\ \A t \in Threads : pc[t] # "free" =>
       \A i \in DOMAIN outfile[t] : \E k \in DOMAIN Request(t).lines :
         outfile[t][i].xml = Deserved(t, Request(t), k).xml

Answerable(r, n) == {k \in 1..n : r.lines[k] = "ok"}

(* out holds one record for each answerable line of r up to n, in the      *)
(* order of the lines, and nothing else.                                   *)
Answers(out, t, r, n) ==
  /\ \A k \in Answerable(r, n) : \E i \in DOMAIN out : out[i] = Deserved(t, r, k)
  /\ \A i \in DOMAIN out : \E k \in Answerable(r, n) : out[i] = Deserved(t, r, k)
  /\ \A i, j \in DOMAIN out : i < j => out[i].xml[1].line < out[j].xml[1].line

(* Whatever the other threads decode meanwhile through the same codec, and *)
(* whatever fails in the lines before, a response answers exactly the      *)
(* lines of its own request that can be answered, each with its own        *)
(* metadata and text; a single request that cannot gets status 500         *)
(* (http_server.cpp:159-249).                                              *)
ResponseOfRequestAlone ==
  \A t \in Threads : pc[t] = "done" =>
    /\ Answers(outfile[t], t, Request(t), Len(Request(t).lines))
    /\ status[t] = IF Request(t).batch \/ Request(t).lines[1] = "ok" THEN 200 ELSE 500

(* What a request leaves allocated are structures of lines that failed in  *)
(* asn_decode() and buffers of lines that failed in xer_encode(): no other *)
(* way out of a handler leaks, whatever the lines before it left           *)
(* (acm.cpp:1391-1440, http_server.cpp:159-237).                           *)
LeaksOnlyFailures ==
  \A t \in Threads : pc[t] # "free" => \A b \in heap[t] :
    \/ b.line = line[t] /\ pc[t] \in IF b.kind = "structure" THEN {"check", "encode"}
                                                          ELSE {"encode", "copy"}
    \/ Request(t).lines[b.line] = IF b.kind = "structure" THEN "bad_data" ELSE "bad_xer"

(* A request that was accepted is answered, whatever its lines.            *)
EveryRequestAnswered == \A t \in Threads : pc[t] # "free" ~> pc[t] = "done"
=============================================================================
