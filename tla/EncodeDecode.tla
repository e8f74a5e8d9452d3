---------------------------- MODULE EncodeDecode ----------------------------
(***************************************************************************)
(* What a decoder makes of the answers of an encoder.  encode_message()    *)
(* and decode_message() each work out from the encodings, in code of their *)
(* own, which layers there are, in which order they lie and by which rule: *)
(* the last hex string of an answer is given back, as the bytes of a       *)
(* message that is otherwise the same, to a second codec.                  *)
(***************************************************************************)
EXTENDS MessageCodec

LastHex  == stream[1].appended[Len(stream[1].appended)].hex
Returned == [m EXCEPT !.bytes = [form |-> "hex", hex |-> LastHex]]
Decoder  == INSTANCE MessageCodec WITH m <- Returned, decode_functionality <- TRUE

(* An answer of the encoder without an error can be decoded with the same  *)
(* encodings, if a MessageFrame is asked for and no advisory (which        *)
(* decode_message() does not unpack): no rule is read in another way by    *)
(* the two, and the layers are taken off in the order they were put on     *)
(* (acm.cpp:1036-1243, 1257-1571).                                         *)
DecoderReadsAnswer ==
  /\ Answered /\ ~decode_functionality /\ stream[1].code = "none"
  /\ Asked \subseteq {"Dot2", "MF"} /\ "MF" \in Asked
  => LET d == Decoder!Expected
     IN d.code = "none" /\ d.xml /\ d.dataType = "xml"
=============================================================================
