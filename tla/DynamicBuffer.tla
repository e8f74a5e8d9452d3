---------------------------- MODULE DynamicBuffer ----------------------------
(***************************************************************************)
(* dynamic_buffer_append() in src/src/acm.cpp: the callback through which  *)
(* the ASN.1 encoders write their output, chunk by chunk, into a buffer    *)
(* that doubles when it is too small.  Sizes are size_t, so their          *)
(* arithmetic is modulo WORD; one call of the callback runs through the    *)
(* phases grow (the while loop) and copy.                                  *)
(***************************************************************************)
EXTENDS Naturals, Sequences

CONSTANTS
  WORD,       \* number of values of size_t
  MaxObject,  \* the largest object malloc() can return
  FirstSize,  \* 64 in the code, doubled before its first use
  Bytes,      \* what chunks are made of
  Chunks      \* the chunks an encoder may append

NUL  == "nul"
Junk == "junk"   \* memory malloc() returned and nobody wrote

ASSUME SizesAssumption ==
  /\ WORD \in Nat /\ MaxObject \in Nat
  /\ FirstSize \in Nat \ {0}
  /\ 2 * MaxObject < WORD
  /\ 2 * FirstSize < WORD
ASSUME ChunksAssumption ==
  /\ Chunks \subseteq Seq(Bytes)
  /\ \A c \in Chunks : Len(c) <= MaxObject

VARIABLES
  phase,           \* "idle", "grow", "copy" or, after a failed call, "failed"
  buffer_size,
  allocated_size,
  buffer,          \* the bytes at 0 .. allocated_size - 1
  chunk,           \* the arguments buffer and size of the call
  text             \* history: everything appended successfully

vars == <<phase, buffer_size, allocated_size, buffer, chunk, text>>

Init ==
  /\ phase = "idle"
  /\ buffer_size = 0
  /\ allocated_size = 0
  /\ buffer = [k \in {} |-> Junk]
  /\ chunk = <<>>
  /\ text = <<>>

(* Mutant: the terminator is forgotten in the loop's test. *)
NeededWithoutNul == (buffer_size + Len(chunk)) % WORD
(* Mutant: the first allocation doubles zero. *)
NewSizeFromZero == (2 * allocated_size) % WORD

Needed  == (buffer_size + Len(chunk) + 1) % WORD
NewSize == (2 * (IF allocated_size # 0 THEN allocated_size ELSE FirstSize)) % WORD

Append_ ==
  /\ phase = "idle"
  /\ phase' = "grow"
  /\ chunk' \in Chunks
  /\ UNCHANGED <<buffer_size, allocated_size, buffer, text>>

(* Mutant: the old bytes are not moved. *)
GrowWithoutMove ==
  /\ phase = "grow"
  /\ Needed > allocated_size
  /\ NewSize <= MaxObject
  /\ allocated_size' = NewSize
  /\ buffer' = [k \in 0..(NewSize - 1) |-> Junk]
  /\ UNCHANGED <<phase, buffer_size, chunk, text>>

(* Mutant: the new size is not recorded. *)
GrowWithoutSize ==
  /\ phase = "grow"
  /\ Needed > allocated_size
  /\ NewSize <= MaxObject
  /\ buffer' = [k \in 0..(NewSize - 1) |-> IF k < buffer_size THEN buffer[k] ELSE Junk]
  /\ UNCHANGED <<phase, buffer_size, allocated_size, chunk, text>>

Grow ==
  /\ phase = "grow"
  /\ Needed > allocated_size
  /\ NewSize <= MaxObject
  /\ allocated_size' = NewSize
  /\ buffer' = [k \in 0..(NewSize - 1) |-> IF k < buffer_size THEN buffer[k] ELSE Junk]
  /\ UNCHANGED <<phase, buffer_size, chunk, text>>

(* malloc() may fail at any size; the encoder gives up at the first -1.    *)
GrowFails ==
  /\ phase = "grow"
  /\ Needed > allocated_size
  /\ phase' = "failed"
  /\ UNCHANGED <<buffer_size, allocated_size, buffer, chunk, text>>

LargeEnough ==
  /\ phase = "grow"
  /\ Needed <= allocated_size
  /\ phase' = "copy"
  /\ UNCHANGED <<buffer_size, allocated_size, buffer, chunk, text>>

(* The bytes after the previous ones, and the terminator after them.       *)
Copied ==
  [k \in DOMAIN buffer |->
     CASE k < buffer_size                                 -> buffer[k]
       [] buffer_size <= k /\ k < buffer_size + Len(chunk) -> chunk[k - buffer_size + 1]
       [] k = buffer_size + Len(chunk)                    -> NUL
       [] OTHER                                           -> buffer[k]]

Copy ==
  /\ phase = "copy"
  /\ phase' = "idle"
  /\ buffer' = Copied
  /\ buffer_size' = buffer_size + Len(chunk)
  /\ text' = text \o chunk
  /\ UNCHANGED <<allocated_size, chunk>>

Next == Append_ \/ Grow \/ GrowFails \/ LargeEnough \/ Copy

Spec == Init /\ [][Next]_vars
(* A call runs on; malloc() must fail only beyond its limit.               *)
FairSpec ==
  Spec /\ WF_vars(Grow \/ (NewSize > MaxObject /\ GrowFails) \/ LargeEnough \/ Copy)

-----------------------------------------------------------------------------
(* Properties *)

(* The sizes fit: the buffer is as long as it is said to be and what is in *)
(* it, with a terminator, fits.                                            *)
TypeOK ==
  /\ phase \in {"idle", "grow", "copy", "failed"}
  /\ buffer_size \in Nat
  /\ allocated_size \in 0..MaxObject
  /\ DOMAIN buffer = 0..(allocated_size - 1)
  /\ chunk \in Seq(Bytes) /\ Len(chunk) <= MaxObject
  /\ text \in Seq(Bytes)
  /\ buffer_size < allocated_size \/ (buffer_size = 0 /\ allocated_size = 0)

(* When the loop is left there is room for the chunk and the terminator,   *)
(* in true arithmetic: the test buffer_size + size + 1 > allocated_size    *)
(* never wraps into a false answer (acm.cpp:117-131).                      *)
RoomForChunk == phase = "copy" => buffer_size + Len(chunk) + 1 <= allocated_size

(* The buffer holds what was appended, in order and complete, however      *)
(* often it moved; between calls it is terminated (acm.cpp:122-133).       *)
HoldsText ==
  /\ buffer_size = Len(text)
  /\ \A k \in 0..(buffer_size - 1) : buffer[k] = text[k + 1]
  /\ phase = "idle" /\ allocated_size > 0 => buffer[buffer_size] = NUL

(* A call returns: doubling reaches the size needed or malloc() fails.     *)
CallsReturn == phase = "grow" ~> phase \in {"idle", "failed"}
=============================================================================
