------------------------- MODULE DynamicBufferProofs -------------------------
(***************************************************************************)
(* The append buffer never overruns and never loses a byte, for every word *)
(* size, every limit of malloc() below half of it, and all chunks.  The    *)
(* argument: sizes stay below MaxObject, so neither the sum in the loop's  *)
(* test nor the doubling wraps.                                            *)
(***************************************************************************)
EXTENDS DynamicBuffer, TLAPS

IInv == TypeOK /\ RoomForChunk /\ HoldsText

(* Below the modulus, arithmetic is exact.                                 *)
LEMMA NoWrap ==
  ASSUME NEW n \in Nat, NEW w \in Nat, n < w
  PROVE  n % w = n
  OBVIOUS

(* The sizes computed by the loop are the true ones.                       *)
LEMMA ExactSizes ==
  ASSUME TypeOK
  PROVE  /\ Needed = buffer_size + Len(chunk) + 1
         /\ NewSize = 2 * (IF allocated_size # 0 THEN allocated_size ELSE FirstSize)
         /\ NewSize > allocated_size
<1>1. buffer_size + Len(chunk) + 1 < WORD
  BY SizesAssumption DEF TypeOK
<1>2. buffer_size + Len(chunk) + 1 \in Nat
  BY DEF TypeOK
<1>3. 2 * (IF allocated_size # 0 THEN allocated_size ELSE FirstSize) < WORD
  BY SizesAssumption DEF TypeOK
<1>4. 2 * (IF allocated_size # 0 THEN allocated_size ELSE FirstSize) \in Nat
  BY SizesAssumption DEF TypeOK
<1>5. Needed = buffer_size + Len(chunk) + 1
  BY <1>1, <1>2, NoWrap, SizesAssumption DEF Needed
<1>6. NewSize = 2 * (IF allocated_size # 0 THEN allocated_size ELSE FirstSize)
  <2> DEFINE n == 2 * (IF allocated_size # 0 THEN allocated_size ELSE FirstSize)
  <2> HIDE DEF n
  <2>1. n \in Nat /\ n < WORD /\ WORD \in Nat
    BY <1>3, <1>4, SizesAssumption DEF n
  <2>2. n % WORD = n
    BY <2>1, NoWrap
  <2> QED
    BY <2>2 DEF n, NewSize
<1>7. NewSize > allocated_size
  BY <1>6, SizesAssumption DEF TypeOK
<1> QED
  BY <1>5, <1>6, <1>7

(* Every step keeps the sizes, the room and the contents.                  *)
LEMMA NextIInv == IInv /\ [Next]_vars => IInv'
<1> SUFFICES ASSUME IInv, [Next]_vars PROVE IInv'
  OBVIOUS
<1> USE DEF IInv, TypeOK
<1>1. CASE Append_
  <2>1. chunk' \in Seq(Bytes) /\ Len(chunk') <= MaxObject
    BY <1>1, ChunksAssumption DEF Append_
  <2> QED
    BY <1>1, <2>1 DEF Append_, RoomForChunk, HoldsText
<1>2. CASE Grow
  <2>1. NewSize \in Nat /\ NewSize > allocated_size /\ NewSize <= MaxObject
    BY <1>2, ExactSizes, SizesAssumption DEF Grow
  <2>2. /\ DOMAIN buffer' = 0..(allocated_size' - 1)
        /\ \A k \in 0..(buffer_size - 1) : buffer'[k] = buffer[k]
    BY <1>2, <2>1 DEF Grow
  <2>3. TypeOK'
    BY <1>2, <2>1, <2>2 DEF Grow
  <2> QED
    BY <1>2, <2>2, <2>3 DEF Grow, RoomForChunk, HoldsText
<1>3. CASE GrowFails
  BY <1>3 DEF GrowFails, RoomForChunk, HoldsText
<1>4. CASE LargeEnough
  BY <1>4, ExactSizes DEF LargeEnough, RoomForChunk, HoldsText
<1>5. CASE Copy
  <2>1. buffer_size + Len(chunk) + 1 <= allocated_size
    BY <1>5 DEF Copy, RoomForChunk
  <2>2. TypeOK'
    <3>1. DOMAIN buffer' = 0..(allocated_size' - 1)
      BY <1>5 DEF Copy, Copied
    <3>2. text' \in Seq(Bytes)
      BY <1>5 DEF Copy
    <3>3. buffer_size' \in Nat /\ buffer_size' < allocated_size'
      BY <1>5, <2>1 DEF Copy
    <3> QED
      BY <1>5, <3>1, <3>2, <3>3 DEF Copy
  <2>3. buffer_size' = Len(text')
    BY <1>5 DEF Copy, HoldsText
  <2>4. \A k \in 0..(buffer_size' - 1) : buffer'[k] = text'[k + 1]
    <3> SUFFICES ASSUME NEW k \in 0..(buffer_size' - 1) PROVE buffer'[k] = text'[k + 1]
      OBVIOUS
    <3>1. k \in DOMAIN buffer /\ k < buffer_size + Len(chunk) /\ k \in Nat
      BY <1>5, <2>1 DEF Copy
    <3>2. CASE k < buffer_size
      <4>1. buffer'[k] = buffer[k]
        BY <1>5, <3>1, <3>2 DEF Copy, Copied
      <4>2. text'[k + 1] = text[k + 1]
        BY <1>5, <3>1, <3>2 DEF Copy, HoldsText
      <4> QED
        BY <3>1, <3>2, <4>1, <4>2 DEF HoldsText
    <3>3. CASE buffer_size <= k
      <4>1. buffer'[k] = chunk[k - buffer_size + 1]
        BY <1>5, <3>1, <3>3 DEF Copy, Copied
      <4>2. text'[k + 1] = chunk[k - buffer_size + 1]
        BY <1>5, <3>1, <3>3 DEF Copy, HoldsText
      <4> QED
        BY <4>1, <4>2
    <3> QED
      BY <3>1, <3>2, <3>3
  <2>5. buffer'[buffer_size'] = NUL
    <3>1. buffer_size + Len(chunk) \in DOMAIN buffer
      BY <2>1
    <3> QED
      BY <1>5, <3>1 DEF Copy, Copied
  <2> QED
    BY <1>5, <2>2, <2>3, <2>4, <2>5 DEF Copy, RoomForChunk, HoldsText
<1>6. CASE UNCHANGED vars
  BY <1>6 DEF vars, RoomForChunk, HoldsText
<1> QED
  BY <1>1, <1>2, <1>3, <1>4, <1>5, <1>6 DEF Next

(* The invariant holds in every reachable state.                           *)
LEMMA Invariance == Spec => []IInv
<1>1. Init => IInv
  BY SizesAssumption DEF Init, IInv, TypeOK, RoomForChunk, HoldsText
<1> QED
  BY <1>1, NextIInv, PTL DEF Spec

(* The types and sizes are kept.                                           *)
THEOREM TypeCorrect == Spec => []TypeOK
<1>1. IInv => TypeOK
  BY DEF IInv
<1> QED
  BY Invariance, <1>1, PTL

(* No chunk is ever written past the end of the buffer.                    *)
THEOREM NoOverrun == Spec => []RoomForChunk
<1>1. IInv => RoomForChunk
  BY DEF IInv
<1> QED
  BY Invariance, <1>1, PTL

(* The buffer always holds exactly what was appended.                      *)
THEOREM NothingLost == Spec => []HoldsText
<1>1. IInv => HoldsText
  BY DEF IInv
<1> QED
  BY Invariance, <1>1, PTL

-----------------------------------------------------------------------------
(* The doubling. *)

(* Whenever the buffer grows, to at least twice its size, it was too small *)
(* for the call at hand, whose arguments stay: it never gets past what     *)
(* malloc() can return, which bounds the turns of the loop, nor to twice   *)
(* the room needed, the first allocation aside (acm.cpp:117-131).          *)
GrowthBounded ==
  [][allocated_size' # allocated_size =>
       /\ phase = "grow" /\ UNCHANGED <<phase, buffer_size, chunk>>
       /\ allocated_size' \in (allocated_size + 1)..MaxObject
       /\ allocated_size' >= 2 * allocated_size
       /\ \/ allocated_size' = 2 * FirstSize
          \/ allocated_size' < 2 * (buffer_size + Len(chunk) + 1)]_vars

(* The doubling loop of dynamic_buffer_append() ends, and before the       *)
(* buffer is twice what it has to hold (acm.cpp:117-131).                  *)
THEOREM GrowthStops == Spec => GrowthBounded
<1>1. IInv /\ [Next]_vars =>
        [allocated_size' # allocated_size =>
           /\ phase = "grow" /\ UNCHANGED <<phase, buffer_size, chunk>>
           /\ allocated_size' \in (allocated_size + 1)..MaxObject
           /\ allocated_size' >= 2 * allocated_size
           /\ \/ allocated_size' = 2 * FirstSize
              \/ allocated_size' < 2 * (buffer_size + Len(chunk) + 1)]_vars
  <2> SUFFICES ASSUME IInv, Next, allocated_size' # allocated_size
               PROVE  /\ phase = "grow" /\ UNCHANGED <<phase, buffer_size, chunk>>
                      /\ allocated_size' \in (allocated_size + 1)..MaxObject
                      /\ allocated_size' >= 2 * allocated_size
                      /\ \/ allocated_size' = 2 * FirstSize
                         \/ allocated_size' < 2 * (buffer_size + Len(chunk) + 1)
    OBVIOUS
  <2>1. Grow
    BY DEF Next, Append_, GrowFails, LargeEnough, Copy
  <2>2. /\ Needed = buffer_size + Len(chunk) + 1
        /\ NewSize = 2 * (IF allocated_size # 0 THEN allocated_size ELSE FirstSize)
        /\ NewSize > allocated_size
    BY ExactSizes DEF IInv
  <2>3. Needed > allocated_size /\ NewSize <= MaxObject /\ allocated_size' = NewSize
    BY <2>1 DEF Grow
  <2>4. allocated_size \in Nat /\ buffer_size + Len(chunk) + 1 \in Nat
    BY DEF IInv, TypeOK
  <2>5. NewSize \in Nat
    BY <2>2, <2>4, SizesAssumption
  <2>6. phase = "grow" /\ UNCHANGED <<phase, buffer_size, chunk>>
    BY <2>1 DEF Grow
  <2> QED
    BY <2>2, <2>3, <2>4, <2>5, <2>6, SizesAssumption
<1> QED
  BY <1>1, Invariance, PTL DEF Spec, GrowthBounded
=============================================================================
