--------------------------- MODULE HexCodecProofs ---------------------------
(***************************************************************************)
(* HexCodec for texts and buffers of any length: types, what the two loops *)
(* compute, and that one undoes the other.                                 *)
(***************************************************************************)
EXTENDS HexCodec, SequenceTheorems, TLAPS

-----------------------------------------------------------------------------
(* Digits *)

(* A digit has the value the tables give it. *)
LEMMA DigitStands ==
  ASSUME NEW c \in Chars, IsDigit(c)
  PROVE  Digit(c) \in 0..15 /\ Stands(c, Digit(c))
<1>1. CASE c \in 48..57
  <2>1. Digit(c) = c - 48
    BY <1>1, SMT DEF Digit
  <2>2. c \in {48, 49, 50, 51, 52, 53, 54, 55, 56, 57}
    BY <1>1, SMT
  <2> QED
    BY <2>1, <2>2, SMT DEF Stands, Upper
<1>2. CASE c \in 65..70
  <2>1. Digit(c) = c - 55
    BY <1>2, SMT DEF Digit
  <2>2. c \in {65, 66, 67, 68, 69, 70}
    BY <1>2, SMT
  <2> QED
    BY <2>1, <2>2, SMT DEF Stands, Upper
<1>3. CASE c \in 97..102
  <2>1. Digit(c) = c - 87
    BY <1>3, SMT DEF Digit
  <2>2. c \in {97, 98, 99, 100, 101, 102}
    BY <1>3, SMT
  <2> QED
    BY <2>1, <2>2, SMT DEF Stands, Lower
<1> QED
  BY <1>1, <1>2, <1>3 DEF IsDigit

(* Whatever a table lists is a digit. *)
LEMMA HexadecimalIsDigit ==
  ASSUME NEW c, Hexadecimal(c)
  PROVE  IsDigit(c)
<1> PICK n \in 0..15 : Stands(c, n)
  BY DEF Hexadecimal
<1> QED
  BY SMT DEF Stands, Upper, Lower, IsDigit

(* HexDigit() writes digits, and Digit() reads them back. *)
LEMMA HexDigitRead ==
  ASSUME NEW n \in 0..15
  PROVE  /\ HexDigit(n) \in Chars
         /\ IsDigit(HexDigit(n))
         /\ ~IsSpace(HexDigit(n))
         /\ Digit(HexDigit(n)) = n
<1>1. CASE n <= 9
  <2>1. HexDigit(n) = n + 48 /\ n + 48 \in 48..57
    BY <1>1, SMT DEF HexDigit
  <2> QED
    BY <2>1, SMT DEF Chars, IsDigit, IsSpace, Digit
<1>2. CASE n > 9
  <2>1. HexDigit(n) = n + 55 /\ n + 55 \in 65..70
    BY <1>2, SMT DEF HexDigit
  <2> QED
    BY <2>1, SMT DEF Chars, IsDigit, IsSpace, Digit
<1> QED
  BY <1>1, <1>2, SMT

(* Into an empty low half, |= adds. *)
LEMMA OrIntoEmpty ==
  ASSUME NEW a \in 0..15, NEW d \in 0..15
  PROVE  OrLow(16 * a, d) = 16 * a + d
<1>1. (16 * a) \div 16 = a /\ (16 * a) % 16 = 0
  BY SMT
<1>2. Or(0, d) = d
  <2>1. d \in {0, 1, 2, 3, 4, 5, 6, 7, 8, 9, 10, 11, 12, 13, 14, 15}
    BY SMT
  <2> QED
    BY <2>1, SMT DEF Or, Bit
<1> QED
  BY <1>1, <1>2, SMT DEF OrLow

(* The two halves of a byte. *)
LEMMA Halves ==
  ASSUME NEW a \in 0..15, NEW d \in 0..15
  PROVE  /\ 16 * a + d \in Byte
         /\ (16 * a + d) \div 16 = a
         /\ (16 * a + d) % 16 = d
  BY SMT DEF Byte

LEMMA HalvesOfByte ==
  ASSUME NEW b \in Byte
  PROVE  b \div 16 \in 0..15 /\ b % 16 \in 0..15 /\ 16 * (b \div 16) + (b % 16) = b
  BY SMT DEF Byte

-----------------------------------------------------------------------------
(* The inductive invariant. *)

Value(k) == Digit(text[k])

(* The first n characters of the text have been read. *)
Read(n) ==
  /\ 2 * Len(buf) \in {n, n + 1}
  /\ \A k \in 1..n : IsDigit(text[k])
  /\ \A k \in 1..Len(buf) :
       buf[k] = 16 * Value(2 * k - 1) + (IF 2 * k <= n THEN Value(2 * k) ELSE 0)

(* The first n bytes of the buffer have been written. *)
Wrote(n) ==
  /\ Len(hex) = 2 * n
  /\ \A k \in 1..n :
       /\ hex[2 * k - 1] = HexDigit(source[k] \div 16)
       /\ hex[2 * k] = HexDigit(source[k] % 16)

(* What stripping keeps is no white space and comes from the text received, *)
(* and it drops nothing else.                                               *)
Taken ==
  /\ \A k \in 1..Len(text) :
       \E j \in 1..Len(raw) : text[k] = raw[j] /\ ~IsSpace(raw[j])
  /\ phase = "strip" => i <= Len(raw) /\ buf = <<>>
  /\ phase = "strip" /\ text = <<>> => \A k \in 1..i : IsSpace(raw[k])

Progress ==
  /\ phase = "digits" => i <= Len(text) /\ Read(i)
  /\ result = "decoded" => Read(Len(text))
  /\ IF phase = "bytes" THEN i <= Len(source) /\ Wrote(i) /\ raw = <<>>
                        ELSE Wrote(Len(source))
  /\ result # "none" => phase = "idle"
  /\ phase = "idle" /\ result = "none" => source = <<>>

(* The text of a buffer passes through the stripping unchanged. *)
OwnText == phase # "bytes" /\ raw = hex /\ source # <<>>
Unchanged_ ==
  OwnText =>
    /\ phase = "strip" => Len(text) = i /\ \A k \in 1..i : text[k] = raw[k]
    /\ phase \in {"digits", "idle"} => text = raw
    /\ result \in {"none", "decoded"}

Refusals ==
  /\ result = "refused" => \E k \in 1..Len(text) : ~IsDigit(text[k])
  /\ result = "empty" => \A k \in 1..Len(raw) : IsSpace(raw[k])

IInv == TypeOK /\ Taken /\ Progress /\ Unchanged_ /\ Refusals

LEMMA InitIInv == Init => IInv
  BY SMT DEF Init, IInv, TypeOK, Taken, Progress, Read, Wrote, OwnText, Unchanged_,
             Refusals, Byte, Chars

(* A text that has become a buffer's has digits only. *)
LEMMA OwnDigits ==
  ASSUME TypeOK, Wrote(Len(source)), NEW j \in 1..Len(hex)
  PROVE  IsDigit(hex[j]) /\ ~IsSpace(hex[j])
<1> DEFINE k == (j + 1) \div 2
<1>1. k \in 1..Len(source) /\ (j = 2 * k - 1 \/ j = 2 * k)
  BY SMT DEF TypeOK, Wrote
<1>2. source[k] \in Byte
  BY <1>1 DEF TypeOK
<1>3. source[k] \div 16 \in 0..15 /\ source[k] % 16 \in 0..15
  BY <1>2, HalvesOfByte
<1>4. hex[j] = HexDigit(source[k] \div 16) \/ hex[j] = HexDigit(source[k] % 16)
  BY <1>1 DEF Wrote
<1> QED
  BY <1>3, <1>4, HexDigitRead

LEMMA StripIInv == IInv /\ Strip => IInv'
<1> SUFFICES ASSUME IInv, Strip PROVE IInv'
  OBVIOUS
<1> USE InputsAssumption
<1>1. TypeOK'
  <2>1. raw' \in Seq(Chars)
    BY DEF IInv, TypeOK, Strip
  <2>2. source' \in Seq(Byte) /\ hex' \in Seq(Chars)
    BY EmptySeq DEF IInv, TypeOK, Strip
  <2> QED
    BY <2>1, <2>2, SMT DEF TypeOK, Strip, Goto
<1>2. Taken' /\ Refusals'
  BY <1>1, SMT DEF IInv, TypeOK, Strip, Goto, Taken, Refusals
<1>3. Progress'
  <2>1. CASE source' = <<>> /\ hex' = <<>>
    BY <2>1, SMT DEF IInv, TypeOK, Strip, Goto, Progress, Read, Wrote
  <2>2. CASE UNCHANGED <<source, hex>>
    BY <2>2, SMT DEF IInv, TypeOK, Strip, Goto, Progress, Read, Wrote
  <2> QED
    BY <2>1, <2>2 DEF Strip
<1>4. Unchanged_'
  BY <1>1, SMT DEF IInv, TypeOK, Strip, Goto, Unchanged_, OwnText
<1> QED
  BY <1>1, <1>2, <1>3, <1>4 DEF IInv

LEMMA StripCharIInv == IInv /\ StripChar => IInv'
<1> SUFFICES ASSUME IInv, StripChar PROVE IInv'
  OBVIOUS
<1> USE DEF IInv, TypeOK, StripChar, Advance
<1>1. raw[i + 1] \in Chars /\ i + 1 \in 1..Len(raw)
  BY SMT
<1>2. TypeOK'
  BY <1>1, SMT
<1>3. Taken'
  <2>1. CASE IsSpace(raw[i + 1])
    BY <1>1, <2>1, SMT DEF Taken
  <2>2. CASE ~IsSpace(raw[i + 1])
    <3>1. /\ text' = Append(text, raw[i + 1])
          /\ Len(text') = Len(text) + 1
          /\ \A k \in 1..Len(text) : text'[k] = text[k]
          /\ text'[Len(text) + 1] = raw[i + 1]
      BY <1>1, <2>2, SMT
    <3>2. \A k \in 1..Len(text') :
            \E j \in 1..Len(raw) : text'[k] = raw[j] /\ ~IsSpace(raw[j])
      <4> TAKE k \in 1..Len(text')
      <4>1. CASE k = Len(text) + 1
        BY <1>1, <2>2, <3>1, <4>1
      <4>2. CASE k \in 1..Len(text)
        BY <3>1, <4>2 DEF Taken
      <4> QED
        BY <3>1, <4>1, <4>2, SMT
    <3>3. text' # <<>> /\ raw' = raw /\ i' = i + 1 /\ buf' = <<>> /\ i' <= Len(raw)
      BY <1>1, <3>1, SMT DEF Taken
    <3> QED
      BY <3>2, <3>3 DEF Taken
  <2> QED
    BY <2>1, <2>2
<1>4. Progress'
  BY <1>2, SMT DEF Progress, Read, Wrote
<1>5. Unchanged_'
  <2>1. SUFFICES ASSUME OwnText PROVE Unchanged_'
    BY DEF Unchanged_, OwnText
  <2>2. ~IsSpace(raw[i + 1])
    BY <1>1, <2>1, OwnDigits DEF OwnText, Progress
  <2>3. text' = Append(text, raw[i + 1])
    BY <2>2
  <2> QED
    BY <1>1, <2>1, <2>3, SMT DEF Unchanged_, OwnText
<1>6. Refusals'
  BY SMT DEF Refusals, Progress
<1> QED
  BY <1>2, <1>3, <1>4, <1>5, <1>6

LEMMA StrippedIInv == IInv /\ Stripped => IInv'
<1> SUFFICES ASSUME IInv, Stripped PROVE IInv'
  OBVIOUS
<1> USE DEF IInv, TypeOK, Stripped
<1>1. TypeOK' /\ Taken' /\ Refusals'
  BY SMT DEF Taken, Refusals, Progress
<1>2. Progress'
  <2>1. CASE text = <<>>
    <3>1. source # <<>> => ~OwnText
      BY <2>1, SMT DEF Unchanged_, OwnText, Progress, Wrote
    <3> QED
      BY <2>1, SMT DEF Progress, Read, Wrote, Taken
  <2>2. CASE text # <<>>
    BY <2>2, SMT DEF Progress, Read, Wrote, Taken
  <2> QED
    BY <2>1, <2>2
<1>3. Unchanged_'
  <2>1. SUFFICES ASSUME OwnText PROVE Unchanged_'
    BY DEF Unchanged_, OwnText
  <2>2. Len(text) = Len(raw) /\ \A k \in 1..Len(raw) : text[k] = raw[k]
    BY <2>1, SMT DEF Unchanged_, OwnText
  <2>3. text = raw
    BY <2>2, SeqEqual
  <2>4. text # <<>>
    BY <2>1, <2>3, SMT DEF OwnText, Progress, Wrote
  <2> QED
    BY <2>1, <2>3, <2>4, SMT DEF Unchanged_, OwnText, Progress
<1> QED
  BY <1>1, <1>2, <1>3

LEMMA Parity ==
  ASSUME NEW n \in Nat, NEW l \in Nat, 2 * l \in {n, n + 1}
  PROVE  (n % 2 = 0 => 2 * l = n) /\ (n % 2 = 1 => 2 * l = n + 1)
  BY SMT

(* What both halves of the loop rely on. *)
LEMMA AtDigit ==
  ASSUME IInv, phase = "digits", i < Len(text), IsDigit(text[i + 1])
  PROVE  /\ i \in Nat /\ Len(text) \in Nat /\ Len(buf) \in Nat
         /\ text \in Seq(Chars) /\ buf \in Seq(Byte)
         /\ Read(i)
         /\ \A k \in 1..(i + 1) : IsDigit(text[k]) /\ Value(k) \in 0..15
<1>1. i \in Nat /\ text \in Seq(Chars) /\ buf \in Seq(Byte) /\ Read(i)
  BY DEF IInv, TypeOK, Progress
<1>2. Len(text) \in Nat /\ Len(buf) \in Nat
  BY <1>1, LenProperties
<1>3. \A k \in 1..(i + 1) : IsDigit(text[k])
  BY <1>1, SMT DEF Read
<1>4. \A k \in 1..(i + 1) : text[k] \in Chars
  BY <1>1, <1>2, ElementOfSeq, SMT
<1> QED
  BY <1>1, <1>2, <1>3, <1>4, DigitStands DEF Value

(* The other parts of the invariant do not see the loop advance. *)
LEMMA DigitFrame ==
  ASSUME IInv, phase = "digits", i < Len(text), Read(i)',
         buf' \in Seq(Byte), Advance,
         UNCHANGED <<phase, result, raw, text, source, hex>>
  PROVE  IInv'
<1>1. i \in Nat /\ Len(text) \in Nat
  BY LenProperties DEF IInv, TypeOK
<1>2. i' \in Nat /\ i' <= Len(text)
  BY <1>1, SMT DEF Advance
<1>3. TypeOK' /\ Taken' /\ Refusals' /\ Unchanged_'
  BY <1>2 DEF IInv, TypeOK, Taken, Refusals, Unchanged_, OwnText, Progress
<1>4. Progress'
  <2>1. Read(i)' /\ result = "none"
    BY DEF Advance, IInv, Progress
  <2> QED
    BY <1>2, <2>1 DEF IInv, Progress, Wrote
<1> QED
  BY <1>3, <1>4 DEF IInv

(* The characters read so far and one more. *)
LEMMA ReadNext ==
  ASSUME Advance, text' = text,
         2 * Len(buf') \in {i + 1, (i + 1) + 1},
         \A k \in 1..(i + 1) : IsDigit(text[k]),
         \A k \in 1..Len(buf') :
           buf'[k] = 16 * Value(2 * k - 1) + (IF 2 * k <= i + 1 THEN Value(2 * k) ELSE 0)
  PROVE  Read(i)'
  BY Zenon DEF Read, Value, Advance

LEMMA HighNibbleIInv == IInv /\ HighNibble => IInv'
<1> SUFFICES ASSUME IInv, HighNibble PROVE IInv'
  OBVIOUS
<1> DEFINE v == Value(i + 1)
<1>1. /\ phase = "digits" /\ i < Len(text) /\ IsDigit(text[i + 1]) /\ i % 2 = 0
      /\ buf' = Append(buf, 16 * v)
      /\ UNCHANGED <<phase, result, raw, text, source, hex>> /\ Advance
  BY DEF HighNibble, Value
<1>2. /\ i \in Nat /\ Len(buf) \in Nat /\ buf \in Seq(Byte) /\ Read(i)
      /\ \A k \in 1..(i + 1) : IsDigit(text[k]) /\ Value(k) \in 0..15
  BY <1>1, AtDigit
<1>3. 2 * Len(buf) = i
  BY <1>1, <1>2, Parity DEF Read
<1>4. v \in 0..15
  BY <1>2, SMT
<1> HIDE DEF v
<1>5. 16 * v \in Byte
  BY <1>4, SMT DEF Byte
<1>6. /\ buf' \in Seq(Byte)
      /\ Len(buf') = Len(buf) + 1
      /\ \A k \in 1..Len(buf) : buf'[k] = buf[k]
      /\ buf'[Len(buf) + 1] = 16 * v
  BY <1>1, <1>2, <1>5, SMT
<1>7. \A k \in 1..Len(buf') :
        buf'[k] = 16 * Value(2 * k - 1) + (IF 2 * k <= i + 1 THEN Value(2 * k) ELSE 0)
  <2> TAKE k \in 1..Len(buf')
  <2>1. CASE k = Len(buf) + 1
    <3>1. 2 * k - 1 = i + 1 /\ ~(2 * k <= i + 1)
      BY <1>2, <1>3, <2>1, SMT
    <3>2. buf'[k] = 16 * Value(2 * k - 1)
      BY <1>6, <2>1, <3>1 DEF v
    <3>3. 16 * Value(2 * k - 1) = 16 * Value(2 * k - 1) + 0
      BY <1>4, <3>1, SMTT(30) DEF v
    <3> QED
      BY <3>1, <3>2, <3>3
  <2>2. CASE k \in 1..Len(buf)
    <3>1. 2 * k <= i /\ 2 * k <= i + 1
      BY <1>2, <1>3, <2>2, SMT
    <3> QED
      BY <1>2, <1>6, <2>2, <3>1 DEF Read
  <2> QED
    BY <1>2, <1>6, <2>1, <2>2, SMT
<1>8. Read(i)'
  <2>1. 2 * Len(buf') \in {i + 1, (i + 1) + 1}
    <3>1. \A l \in Nat : 2 * l = i => 2 * (l + 1) = (i + 1) + 1
      BY <1>2, SMT
    <3> QED
      BY <1>2, <1>3, <1>6, <3>1
  <2>2. text' = text
    BY <1>1
  <2> QED
    BY <1>1, <1>2, <1>7, <2>1, <2>2, ReadNext
<1> QED
  BY <1>1, <1>6, <1>8, DigitFrame

LEMMA LowNibbleIInv == IInv /\ LowNibble => IInv'
<1> SUFFICES ASSUME IInv, LowNibble PROVE IInv'
  OBVIOUS
<1> DEFINE u == Value(i)
           v == Value(i + 1)
<1>1. /\ phase = "digits" /\ i < Len(text) /\ IsDigit(text[i + 1]) /\ i % 2 = 1
      /\ buf' = [buf EXCEPT ![Len(buf)] = OrLow(buf[Len(buf)], v)]
      /\ UNCHANGED <<phase, result, raw, text, source, hex>> /\ Advance
  BY DEF LowNibble, Value
<1>2. /\ i \in Nat /\ Len(buf) \in Nat /\ buf \in Seq(Byte) /\ Read(i)
      /\ \A k \in 1..(i + 1) : IsDigit(text[k]) /\ Value(k) \in 0..15
  BY <1>1, AtDigit
<1>3. 2 * Len(buf) = i + 1
  BY <1>1, <1>2, Parity DEF Read
<1>4. i \in 1..(i + 1) /\ i + 1 \in 1..(i + 1) /\ Len(buf) \in 1..Len(buf)
  BY <1>2, <1>3, SMT
<1>5. u \in 0..15 /\ v \in 0..15
  BY <1>2, <1>4
<1>6. buf[Len(buf)] = 16 * u
  <2>1. 2 * Len(buf) - 1 = i /\ ~(2 * Len(buf) <= i)
    BY <1>2, <1>3, SMT
  <2>2. buf[Len(buf)] = 16 * u + 0
    BY <1>2, <1>4, <2>1 DEF Read
  <2> QED
    BY <1>5, <2>2, SMT
<1> HIDE DEF u, v
<1>7. OrLow(buf[Len(buf)], v) = 16 * u + v /\ 16 * u + v \in Byte
  BY <1>5, <1>6, OrIntoEmpty, Halves
<1>8. /\ buf' \in Seq(Byte)
      /\ Len(buf') = Len(buf)
      /\ \A k \in 1..(Len(buf) - 1) : buf'[k] = buf[k]
      /\ buf'[Len(buf)] = 16 * u + v
  BY <1>1, <1>2, <1>4, <1>7, SMT
<1>9. \A k \in 1..Len(buf') :
        buf'[k] = 16 * Value(2 * k - 1) + (IF 2 * k <= i + 1 THEN Value(2 * k) ELSE 0)
  <2> TAKE k \in 1..Len(buf')
  <2>1. CASE k = Len(buf)
    <3>1. 2 * k - 1 = i /\ 2 * k = i + 1 /\ 2 * k <= i + 1
      BY <1>2, <1>3, <2>1, SMT
    <3> QED
      BY <1>8, <2>1, <3>1 DEF u, v
  <2>2. CASE k \in 1..(Len(buf) - 1)
    <3>1. 2 * k <= i /\ 2 * k <= i + 1 /\ k \in 1..Len(buf)
      BY <1>2, <1>3, <2>2, SMT
    <3> QED
      BY <1>2, <1>8, <2>2, <3>1 DEF Read
  <2> QED
    BY <1>2, <1>8, <2>1, <2>2, SMT
<1>10. Read(i)'
  <2>1. 2 * Len(buf') = i + 1
    BY <1>3, <1>8
  <2>2. 2 * Len(buf') \in {i + 1, (i + 1) + 1}
    BY <2>1
  <2> QED
    BY <1>1, <1>2, <1>9, <2>2, ReadNext
<1> QED
  BY <1>1, <1>8, <1>10, DigitFrame

LEMMA EndOfTextIInv == IInv /\ EndOfText => IInv'
<1> SUFFICES ASSUME IInv, EndOfText PROVE IInv'
  OBVIOUS
<1> USE DEF IInv, TypeOK, EndOfText
<1>1. TypeOK' /\ Taken' /\ Refusals' /\ Unchanged_'
  BY SMT DEF Taken, Refusals, Unchanged_, OwnText, Progress
<1>2. Progress'
  BY SMT DEF Progress, Read, Wrote, Value
<1> QED
  BY <1>1, <1>2

(* The text of a buffer holds nothing to refuse. *)
LEMMA RefuseCharacterIInv == IInv /\ RefuseCharacter => IInv'
<1> SUFFICES ASSUME IInv, RefuseCharacter PROVE IInv'
  OBVIOUS
<1> USE DEF IInv, TypeOK, RefuseCharacter
<1>1. TypeOK' /\ Taken' /\ Refusals'
  BY SMT DEF Taken, Refusals, Progress
<1>2. Progress'
  BY SMT DEF Progress, Read, Wrote
<1>3. ~OwnText
  <2>1. SUFFICES ASSUME OwnText PROVE FALSE
    OBVIOUS
  <2>2. text = hex /\ i + 1 \in 1..Len(hex) /\ Wrote(Len(source))
    BY <2>1, SMT DEF Unchanged_, OwnText, Progress
  <2> QED
    BY <2>2, OwnDigits
<1>4. Unchanged_'
  BY <1>3, SMT DEF Unchanged_, OwnText
<1> QED
  BY <1>1, <1>2, <1>4

LEMMA WriteIInv == IInv /\ Write => IInv'
<1> SUFFICES ASSUME IInv, Write PROVE IInv'
  OBVIOUS
<1>1. source' \in Seq(Byte)
  BY InputsAssumption DEF Write
<1>2. TypeOK'
  BY <1>1, EmptySeq, SMT DEF IInv, TypeOK, Write, Goto
<1> QED
  BY <1>2, SMT DEF IInv, TypeOK, Write, Goto, Taken, Progress, Wrote, Unchanged_,
                   OwnText, Refusals

LEMMA WriteByteIInv == IInv /\ WriteByte => IInv'
<1> SUFFICES ASSUME IInv, WriteByte PROVE IInv'
  OBVIOUS
<1> DEFINE high == HexDigit(source[i + 1] \div 16)
           low  == HexDigit(source[i + 1] % 16)
<1>1. /\ phase = "bytes" /\ i < Len(source) /\ i' = i + 1
      /\ hex' = hex \o <<high, low>>
      /\ UNCHANGED <<phase, result, raw, text, buf, source>>
  BY DEF WriteByte, Advance
<1>2. /\ i \in Nat /\ Len(source) \in Nat /\ hex \in Seq(Chars)
      /\ source \in Seq(Byte) /\ Wrote(i)
  BY <1>1, LenProperties DEF IInv, TypeOK, Progress
<1>3. source[i + 1] \in Byte
  BY <1>1, <1>2, SMT
<1>4. high \in Chars /\ low \in Chars
  BY <1>3, HalvesOfByte, HexDigitRead
<1> HIDE DEF high, low
<1>5. /\ hex' \in Seq(Chars)
      /\ Len(hex') = Len(hex) + 2
      /\ \A k \in 1..Len(hex) : hex'[k] = hex[k]
      /\ hex'[Len(hex) + 1] = high
      /\ hex'[Len(hex) + 2] = low
  BY <1>1, <1>2, <1>4, SMT
<1>6. Len(hex) = 2 * i
  BY <1>2 DEF Wrote
<1>7. \A k \in 1..(i + 1) : /\ hex'[2 * k - 1] = HexDigit(source[k] \div 16)
                             /\ hex'[2 * k] = HexDigit(source[k] % 16)
  <2> TAKE k \in 1..(i + 1)
  <2>1. CASE k = i + 1
    <3>1. 2 * k - 1 = Len(hex) + 1 /\ 2 * k = Len(hex) + 2
      BY <1>2, <1>6, <2>1, SMT
    <3> QED
      BY <1>5, <2>1, <3>1 DEF high, low
  <2>2. CASE k \in 1..i
    <3>1. 2 * k - 1 \in 1..Len(hex) /\ 2 * k \in 1..Len(hex)
      BY <1>2, <1>6, <2>2, SMT
    <3> QED
      BY <1>2, <1>5, <2>2, <3>1 DEF Wrote
  <2> QED
    BY <1>2, <2>1, <2>2, SMT
<1>8. Len(hex') = 2 * (i + 1)
  BY <1>2, <1>5, <1>6, SMT
<1>9. Wrote(i)'
  BY <1>1, <1>7, <1>8, Zenon DEF Wrote
<1>10. i' \in Nat /\ i' <= Len(source)
  BY <1>1, <1>2, SMT
<1>11. Progress'
  BY <1>1, <1>9, <1>10 DEF IInv, Progress
<1>12. TypeOK' /\ Taken' /\ Unchanged_' /\ Refusals'
  BY <1>1, <1>5, <1>10 DEF IInv, TypeOK, Taken, Unchanged_, OwnText, Refusals, Progress
<1> QED
  BY <1>11, <1>12 DEF IInv

LEMMA EndOfBytesIInv == IInv /\ EndOfBytes => IInv'
<1> SUFFICES ASSUME IInv, EndOfBytes PROVE IInv'
  OBVIOUS
<1> USE DEF IInv, TypeOK, EndOfBytes
<1>1. TypeOK' /\ Taken' /\ Refusals' /\ Progress'
  BY SMT DEF Taken, Refusals, Progress, Wrote, Read
<1>2. ~OwnText'
  BY SMT DEF OwnText, Progress, Wrote
<1> QED
  BY <1>1, <1>2 DEF Unchanged_

LEMMA StutterIInv == IInv /\ UNCHANGED vars => IInv'
  BY SMT DEF vars, IInv, TypeOK, Taken, Progress, Read, Value, Wrote, OwnText, Unchanged_, Refusals

LEMMA NextIInv == IInv /\ [Next]_vars => IInv'
  BY StripIInv, StripCharIInv, StrippedIInv, HighNibbleIInv, LowNibbleIInv,
     RefuseCharacterIInv, EndOfTextIInv, WriteIInv, WriteByteIInv, EndOfBytesIInv,
     StutterIInv DEF Next

LEMMA Invariance == Spec => []IInv
  BY InitIInv, NextIInv, PTL DEF Spec

-----------------------------------------------------------------------------
(* Theorems *)

(* Every byte the text yields fits a byte, every character the bytes yield *)
(* is a char, for all inputs (acm.cpp:825-886).                            *)
THEOREM TypeCorrect == Spec => []TypeOK
<1>1. IInv => TypeOK
  BY DEF IInv
<1> QED
  BY <1>1, Invariance, PTL

(* A text that is accepted was read completely and digit by digit, however *)
(* long it is (acm.cpp:825-852).                                           *)
THEOREM DecodingExact == Spec => []DecodesDigits
<1>1. IInv => DecodesDigits
  <2> SUFFICES ASSUME IInv, result = "decoded" PROVE DecodesDigits
    BY DEF DecodesDigits
  <2>1. Read(Len(text)) /\ TypeOK
    BY DEF IInv, Progress
  <2>2. \A k \in 1..Len(text) : Value(k) \in 0..15 /\ Stands(text[k], Value(k))
    BY <2>1, DigitStands, SMT DEF Read, Value, TypeOK
  <2>3. \A k \in 1..Len(text) : Hexadecimal(text[k])
    BY <2>2 DEF Hexadecimal
  <2>4. ASSUME NEW k \in 1..Len(buf)
        PROVE  /\ Stands(text[2 * k - 1], buf[k] \div 16)
               /\ IF 2 * k <= Len(text) THEN Stands(text[2 * k], buf[k] % 16)
                                        ELSE buf[k] % 16 = 0
    <3>1. 2 * k - 1 \in 1..Len(text)
      BY <2>1, SMT DEF Read, TypeOK
    <3>2. CASE 2 * k <= Len(text)
      <4>1. 2 * k \in 1..Len(text)
        BY <3>2, SMT DEF TypeOK
      <4>2. buf[k] = 16 * Value(2 * k - 1) + Value(2 * k)
        BY <2>1, <3>2 DEF Read
      <4> QED
        BY <2>2, <3>1, <3>2, <4>1, <4>2, Halves
    <3>3. CASE ~(2 * k <= Len(text))
      <4>1. buf[k] = 16 * Value(2 * k - 1) + 0
        BY <2>1, <3>3 DEF Read
      <4>2. buf[k] \div 16 = Value(2 * k - 1) /\ buf[k] % 16 = 0
        <5>1. 0 \in 0..15
          BY SMT
        <5>2. /\ (16 * Value(2 * k - 1) + 0) \div 16 = Value(2 * k - 1)
              /\ (16 * Value(2 * k - 1) + 0) % 16 = 0
          BY <2>2, <3>1, <5>1, Halves
        <5> QED
          BY <4>1, <5>2
      <4> QED
        BY <2>2, <3>1, <3>3, <4>2
    <3> QED
      BY <3>2, <3>3
  <2> QED
    BY <2>1, <2>3, <2>4 DEF Read, DecodesDigits
<1> QED
  BY <1>1, Invariance, PTL

(* A text is refused only for a character in it that is neither a digit    *)
(* nor white space (acm.cpp:838).                                          *)
THEOREM RefusalsJustified == Spec => []RefusesOnlyOthers
<1>1. IInv => RefusesOnlyOthers
  BY HexadecimalIsDigit, SMT DEF IInv, Taken, Refusals, RefusesOnlyOthers
<1> QED
  BY <1>1, Invariance, PTL

(* Reading the text another codec wrote gives its buffer back, for every   *)
(* buffer of every length (acm.cpp:825-886).                               *)
THEOREM RoundTripExact == Spec => []RoundTrip
<1>1. IInv => RoundTrip
  <2> SUFFICES ASSUME IInv, OwnText, phase = "idle", result # "encoded"
               PROVE  result = "decoded" /\ buf = source
    BY DEF RoundTrip, OwnText
  <2>1. result = "decoded" /\ text = hex
    BY DEF IInv, Unchanged_, OwnText, Progress
  <2>2. Read(Len(text)) /\ Wrote(Len(source)) /\ TypeOK
    BY <2>1 DEF IInv, Progress, OwnText
  <2>3. Len(text) = 2 * Len(source) /\ Len(buf) = Len(source)
    BY <2>1, <2>2, SMT DEF Read, Wrote, TypeOK
  <2>4. ASSUME NEW k \in 1..Len(buf) PROVE buf[k] = source[k]
    <3>1. source[k] \in Byte
      BY <2>2, <2>3 DEF TypeOK
    <3>2. 2 * k <= Len(text)
      BY <2>2, <2>3, SMT DEF TypeOK
    <3>3. buf[k] = 16 * Value(2 * k - 1) + Value(2 * k)
      BY <2>2, <3>2 DEF Read
    <3>4. /\ Value(2 * k - 1) = Digit(HexDigit(source[k] \div 16))
          /\ Value(2 * k) = Digit(HexDigit(source[k] % 16))
      BY <2>1, <2>2, <2>3 DEF Value, Wrote
    <3>5. Value(2 * k - 1) = source[k] \div 16 /\ Value(2 * k) = source[k] % 16
      BY <3>1, <3>4, HalvesOfByte, HexDigitRead
    <3> QED
      BY <3>1, <3>3, <3>5, HalvesOfByte
  <2> QED
    BY <2>1, <2>2, <2>3, <2>4, SeqEqual DEF TypeOK
<1> QED
  BY <1>1, Invariance, PTL
=============================================================================
