------------------------------ MODULE HexCodec ------------------------------
(***************************************************************************)
(* hex_to_bytes_() and bytes_to_hex_() of src/src/acm.cpp, character by    *)
(* character, with the removal of white space that precedes the first.     *)
(* The bytes one codec turns into text are the bytes another codec must    *)
(* read from it.  A character is its code; char is signed.                 *)
(***************************************************************************)
EXTENDS Integers, Sequences

CONSTANTS
  Texts,    \* contents of payload/data/bytes the ODE may send
  Buffers   \* what the ASN.1 encoder may write

Chars == -128..127
Byte  == 0..255

ASSUME InputsAssumption == Texts \subseteq Seq(Chars) /\ Buffers \subseteq Seq(Byte)

VARIABLES
  phase,    \* "idle", or the loop that runs: "strip", "digits", "bytes"
  result,   \* what the last call came to
  i,        \* characters or bytes the loop has consumed
  raw,      \* the text as it was received
  text,     \* payload_hex
  buf,      \* the bytes hex_to_bytes_() makes
  source,   \* buf_struct->buffer
  hex       \* hex_vector

vars == <<phase, result, i, raw, text, buf, source, hex>>

Init ==
  /\ phase = "idle" /\ result = "none" /\ i = 0
  /\ raw = <<>> /\ text = <<>> /\ buf = <<>>
  /\ source = <<>> /\ hex = <<>>

Goto(from, to) == phase = from /\ phase' = to
Advance == i' = i + 1

IsSpace(c) == c = 32 \/ c \in 9..13

-----------------------------------------------------------------------------
(* Text to bytes.  The text is the ODE's, or what bytes_to_hex_() made.    *)

Strip ==
  /\ Goto("idle", "strip")
  /\ \/ raw' \in Texts /\ source' = <<>> /\ hex' = <<>>
     \/ raw' = hex /\ UNCHANGED <<source, hex>>
  /\ text' = <<>> /\ buf' = <<>>
  /\ result' = "none" /\ i' = 0

StripChar ==
  /\ phase = "strip" /\ i < Len(raw)
  /\ text' = IF IsSpace(raw[i + 1]) THEN text ELSE Append(text, raw[i + 1])
  /\ Advance
  /\ UNCHANGED <<phase, result, raw, buf, source, hex>>

(* An empty string is an error before the conversion.                      *)
Stripped ==
  /\ phase = "strip" /\ i = Len(raw)
  /\ IF text = <<>> THEN phase' = "idle" /\ result' = "empty"
                    ELSE phase' = "digits" /\ UNCHANGED result
  /\ i' = 0
  /\ UNCHANGED <<raw, text, buf, source, hex>>

(* Mutant: lower case is refused. *)
IsUpperDigit(c) == c \in 48..57 \/ c \in 65..70

IsDigit(c) == c \in 48..57 \/ c \in 65..70 \/ c \in 97..102

(* Mutant: lower case digits are taken for upper case ones. *)
DigitOneCase(c) == IF c <= 57 THEN c - 48 ELSE c - 55

Digit(c) == CASE c \in 48..57  -> c - 48
              [] c \in 65..70  -> c - 55
              [] c \in 97..102 -> c - 87

(* a | b for the two halves of a byte, bit by bit.                         *)
Bit(n, w)  == (n \div w) % 2
Or(a, b) ==
  LET bit(w) == IF Bit(a, w) + Bit(b, w) > 0 THEN w ELSE 0
  IN bit(1) + bit(2) + bit(4) + bit(8)
OrLow(byte, d) == 16 * (byte \div 16) + Or(byte % 16, d)

HighNibble ==
  /\ phase = "digits" /\ i < Len(text)
  /\ IsDigit(text[i + 1])
  /\ i % 2 = 0
  /\ buf' = Append(buf, 16 * Digit(text[i + 1]))
  /\ Advance
  /\ UNCHANGED <<phase, result, raw, text, source, hex>>

LowNibble ==
  /\ phase = "digits" /\ i < Len(text)
  /\ IsDigit(text[i + 1])
  /\ i % 2 = 1
  /\ buf' = [buf EXCEPT ![Len(buf)] = OrLow(@, Digit(text[i + 1]))]
  /\ Advance
  /\ UNCHANGED <<phase, result, raw, text, source, hex>>

(* Mutant: a character that is no digit is skipped, not refused. *)
SkipCharacter ==
  /\ phase = "digits" /\ i < Len(text)
  /\ ~IsDigit(text[i + 1])
  /\ Advance
  /\ UNCHANGED <<phase, result, raw, text, buf, source, hex>>

RefuseCharacter ==
  /\ phase = "digits" /\ i < Len(text)
  /\ ~IsDigit(text[i + 1])
  /\ phase' = "idle" /\ result' = "refused"
  /\ UNCHANGED <<i, raw, text, buf, source, hex>>

EndOfText ==
  /\ phase = "digits" /\ i = Len(text)
  /\ phase' = "idle" /\ result' = "decoded"
  /\ UNCHANGED <<i, raw, text, buf, source, hex>>

-----------------------------------------------------------------------------
(* Bytes to text. *)

Write ==
  /\ Goto("idle", "bytes")
  /\ source' \in Buffers /\ hex' = <<>>
  /\ raw' = <<>> /\ text' = <<>> /\ buf' = <<>>
  /\ result' = "none" /\ i' = 0

(* Mutant: the letters start one too late. *)
HexDigitLate(n) == IF n <= 9 THEN n + 48 ELSE n + 56

HexDigit(n) == IF n <= 9 THEN n + 48 ELSE n + 55

WriteByte ==
  /\ phase = "bytes" /\ i < Len(source)
  /\ hex' = hex \o <<HexDigit(source[i + 1] \div 16), HexDigit(source[i + 1] % 16)>>
  /\ Advance
  /\ UNCHANGED <<phase, result, raw, text, buf, source>>

EndOfBytes ==
  /\ phase = "bytes" /\ i = Len(source)
  /\ phase' = "idle" /\ result' = "encoded"
  /\ UNCHANGED <<i, raw, text, buf, source, hex>>

Next ==
  \/ Strip \/ StripChar \/ Stripped
  \/ HighNibble \/ LowNibble \/ RefuseCharacter \/ EndOfText
  \/ Write \/ WriteByte \/ EndOfBytes

Spec == Init /\ [][Next]_vars

-----------------------------------------------------------------------------
(* Properties.  The reference reads digits off two tables.                 *)

Upper == <<48, 49, 50, 51, 52, 53, 54, 55, 56, 57, 65, 66, 67, 68, 69, 70>>
Lower == <<48, 49, 50, 51, 52, 53, 54, 55, 56, 57, 97, 98, 99, 100, 101, 102>>
Stands(c, n) == c = Upper[n + 1] \/ c = Lower[n + 1]
Hexadecimal(c) == \E n \in 0..15 : Stands(c, n)

(* The loops keep their types; what goes into the buffer is a byte.        *)
TypeOK ==
  /\ phase \in {"idle", "strip", "digits", "bytes"}
  /\ result \in {"none", "empty", "refused", "decoded", "encoded"}
  /\ i \in Nat
  /\ raw \in Seq(Chars)
  /\ text \in Seq(Chars)
  /\ buf \in Seq(Byte)
  /\ source \in Seq(Byte)
  /\ hex \in Seq(Chars)

(* A text that is accepted is read completely: every character of it is a  *)
(* digit, each pair is the byte with those halves, and an odd digit at the *)
(* end becomes the high half of a last byte (acm.cpp:825-852).             *)
DecodesDigits ==
  result = "decoded" =>
    /\ 2 * Len(buf) \in {Len(text), Len(text) + 1}
    /\ \A k \in 1..Len(text) : Hexadecimal(text[k])
    /\ \A k \in 1..Len(buf) :
         /\ Stands(text[2 * k - 1], buf[k] \div 16)
         /\ IF 2 * k <= Len(text) THEN Stands(text[2 * k], buf[k] % 16)
                                  ELSE buf[k] % 16 = 0

(* Only a character that is neither a digit nor white space is a reason to *)
(* refuse a text, and only white space one to call it empty.               *)
RefusesOnlyOthers ==
  /\ result = "refused" =>
       \E k \in 1..Len(raw) : ~Hexadecimal(raw[k]) /\ ~IsSpace(raw[k])
  /\ result = "empty" => \A k \in 1..Len(raw) : IsSpace(raw[k])

(* What one codec wrote another one reads: decoding the text of a buffer   *)
(* gives the buffer back.                                                  *)
RoundTrip ==
  (raw = hex /\ source # <<>> /\ phase = "idle" /\ result # "encoded") =>
    result = "decoded" /\ buf = source
=============================================================================
