---------------------------- MODULE MessageCodec ----------------------------
(***************************************************************************)
(* What process_message() does with one message after another: parse the   *)
(* XML, read the encodings (set_codec_requirements), decode or encode the  *)
(* layers, save one document, and answer every exception with an error     *)
(* document (the catch clauses of operator()); and what file_test() and    *)
(* filetest() do with one file after another, around the same functions.   *)
(*                                                                         *)
(* A payload is a nest of layers: an advisory (Asd) around an IEEE 1609.2  *)
(* structure (Dot2) around a J2735 MessageFrame (MF), each optional.  The  *)
(* bytes of an encoded nest are the sequence of its layers, outermost      *)
(* first, each with the rule that encoded it; ASN.1 itself (asn1c) is      *)
(* reduced to whether it accepts a layer.                                  *)
(*                                                                         *)
(* The codec's registers outlive a message: whether the next message can   *)
(* see them is what this module is about.                                  *)
(***************************************************************************)
EXTENDS Naturals, Sequences, FiniteSets

CONSTANTS
  Rules,        \* the transfer syntaxes get_ats_transfer_syntax() knows
  ToEncode,     \* the messages an encoder may get
  ToDecode,     \* the messages a decoder may get
  FreedNames,   \* what node.name() may read from a node already destroyed
  MaxMessages   \* bound: messages handled

Layers == {"Asd", "Dot2", "MF"}
INVALID == "invalid"

(* text: a file that cannot be opened, an empty file or message, no XML,   *)
(* or XML; hasEncodings, hasData, hasDataType: metadata/encodings,         *)
(* payload/data and payload/dataType exist; tree: the layers the document  *)
(* has as XML; rejected: those asn1c or the conformance check will not     *)
(* encode.                                                                 *)
Hexes == Seq([layer : Layers, rule : Rules])
Messages ==
  [text : {"unopened", "empty", "broken", "xml"},
   hasEncodings : BOOLEAN, hasData : BOOLEAN, hasDataType : BOOLEAN,
   encodings : Seq([type : Layers \cup {"other"}, rule : Rules \cup {"none", "bad"}]),
   tree : Seq(Layers), rejected : SUBSET Layers,
   bytes : [form : {"absent", "nothex", "hex"}, hex : Hexes]]

(* The files file_test() writes no document for. *)
Unanswered == {"unopened", "empty"}

ASSUME MessageAssumption ==
  /\ ToEncode \subseteq Messages /\ ToDecode \subseteq Messages
  /\ ToDecode # {}
  /\ {"UPER", "COER"} \subseteq Rules
  /\ Rules \cap {INVALID, "none", "bad"} = {}
  /\ MaxMessages \in Nat

VARIABLES
  decode_functionality,
  file,       \* the messages are files for file_test(), not Kafka records
  stage,      \* where process_message() and its callees are
  m,          \* the message being handled
  i,          \* loop index over the encodings, then over protocol_
  atstype,    \* local of set_codec_requirements()
  opsflag,    \* the layers whose bit is set
  decode,     \* the layers whose decode_* flag is set
  ats,        \* decode_*_type: the transfer syntax of each layer
  protocol,   \* protocol_
  hex_data,   \* hex_data_
  hstr,       \* the hex string decode_message() works on
  doc,        \* input_doc, its payload and metadata
  error_doc,  \* the error template
  stream,     \* documents saved for this message
  r,          \* what file_test() returns: FALSE for EXIT_FAILURE
  heap,       \* how many blocks are allocated for this message
  handled     \* messages answered so far

registers == <<opsflag, decode, ats>>
encoder   == <<protocol, hex_data>>
output    == <<stream, r, handled>>
mode      == <<decode_functionality, file>>
vars      == <<mode, stage, m, i, atstype, registers, encoder, hstr, doc,
               error_doc, output, heap>>

-----------------------------------------------------------------------------
(* Documents.  tree: the layers still present as XML under payload/data;   *)
(* inner: hex text put where an encoded layer was; bytes: payload/data/    *)
(* bytes; xml: the decoded MessageFrame was inserted; appended: the hex    *)
(* siblings added under payload/data; dataType and code: those fields.     *)

Absent == [form |-> "absent", hex |-> <<>>]

Loaded(msg) ==
  [tree |-> msg.tree, inner |-> <<>>, bytes |-> msg.bytes, xml |-> FALSE,
   appended |-> <<>>, dataType |-> "unchanged", code |-> "none"]

Template ==
  [tree |-> <<>>, inner |-> <<>>, bytes |-> Absent, xml |-> FALSE,
   appended |-> <<>>, dataType |-> "unchanged", code |-> "none"]

(* add_error_xml(): the bytes go, code and dataType are overwritten. *)
ErrorXml(d, hasDataType, code) ==
  [d EXCEPT !.bytes = Absent,
            !.dataType = IF hasDataType THEN "ode" ELSE @,
            !.code = code]

(* The transfer syntax of an encodingRule. *)
TransferSyntax(rule) == IF rule \in Rules THEN rule ELSE INVALID

(* The layers of a set, outermost first. *)
Chain(layers) ==
  LET only(l) == IF l \in layers THEN <<l>> ELSE <<>>
  IN only("Asd") \o only("Dot2") \o only("MF")

(* Mutant: no layer is replaced by its hex string in the one around it. *)
ProtocolNeverReplaces(layers, syntax) ==
  LET c == Chain(layers) IN
  [k \in 1..Len(c) |->
     LET at == Len(c) + 1 - k IN
     [layer |-> c[at], rule |-> syntax[c[at]], path |-> SubSeq(c, 1, at),
      replace |-> FALSE]]

(* Mutant: every layer is encoded by the rule of the frame. *)
ProtocolOneSyntax(layers, syntax) ==
  LET c == Chain(layers) IN
  [k \in 1..Len(c) |->
     LET at == Len(c) + 1 - k IN
     [layer |-> c[at], rule |-> syntax["MF"], path |-> SubSeq(c, 1, at),
      replace |-> at > 1]]

(* protocol_ as the switch in encode_message() fills it: innermost layer   *)
(* first, each at its path below payload/data, all but the outermost       *)
(* replaced by their hex string.                                           *)
Protocol(layers, syntax) ==
  LET c == Chain(layers) IN
  [k \in 1..Len(c) |->
     LET at == Len(c) + 1 - k IN
     [layer |-> c[at], rule |-> syntax[c[at]], path |-> SubSeq(c, 1, at),
      replace |-> at > 1]]

Present(d, path) ==
  Len(path) <= Len(d.tree) /\ SubSeq(d.tree, 1, Len(path)) = path

Init ==
  /\ decode_functionality \in BOOLEAN
  /\ file \in BOOLEAN
  /\ stage = "idle"
  /\ m = (CHOOSE msg \in ToDecode : TRUE)
  /\ i = 1
  /\ atstype = INVALID
  /\ opsflag = {}
  /\ decode = {}
  /\ ats = [l \in Layers |-> IF l = "Dot2" THEN "COER" ELSE "UPER"]
  /\ protocol = <<>>
  /\ hex_data = <<>>
  /\ hstr = <<>>
  /\ doc = Template
  /\ error_doc = Template
  /\ stream = <<>>
  /\ r = TRUE
  /\ heap = 0
  /\ handled = 0

Goto(from, to) == stage = from /\ stage' = to

(* What a failing asn_decode() or xer_decode() (a structure), a failing    *)
(* asn_encode() or xer_encode() (a buffer), or an earlier check (nothing)  *)
(* leaves allocated when the exception is thrown.                          *)
Leftovers == {0, 1}

-----------------------------------------------------------------------------
(* Parsing and set_codec_requirements(). *)

Parse(msg) ==
  /\ m' = msg
  /\ doc' = Loaded(msg)
  /\ stage' = IF msg.text = "xml" THEN "requirements" ELSE "template"
  /\ stream' = <<>>
  /\ r' = TRUE
  /\ heap' = 0
  /\ UNCHANGED <<file, i, atstype, registers, encoder, hstr, error_doc, handled>>

(* A record of the consumed topic. *)
Receive ==
  /\ ~file /\ stage = "idle" /\ handled < MaxMessages
  /\ \E msg \in IF decode_functionality THEN ToDecode ELSE ToEncode :
       msg.text # "unopened" /\ Parse(msg)
  /\ UNCHANGED decode_functionality

(* A call of file_test(), which says itself whether to encode ...          *)
FileTest(encode) ==
  /\ file /\ stage = "idle" /\ handled < MaxMessages
  /\ decode_functionality' = ~encode
  /\ \E msg \in IF encode THEN ToEncode ELSE ToDecode :
       msg.text \notin Unanswered /\ Parse(msg)

(* ... returns before it does, and before anything of the object is        *)
(* touched, when fopen() fails ...                                         *)
FileTestUnopened ==
  /\ file /\ stage = "idle" /\ handled < MaxMessages
  /\ m' \in {msg \in ToEncode \cup ToDecode : msg.text = "unopened"}
  /\ stream' = <<>>
  /\ r' = FALSE
  /\ heap' = 0
  /\ handled' = handled + 1
  /\ UNCHANGED <<mode, stage, i, atstype, registers, encoder, hstr, doc, error_doc>>

(* ... and an empty file is not an error, and has no answer.               *)
FileTestEmpty(encode) ==
  /\ file /\ stage = "idle" /\ handled < MaxMessages
  /\ decode_functionality' = ~encode
  /\ m' \in {msg \in IF encode THEN ToEncode ELSE ToDecode : msg.text = "empty"}
  /\ stream' = <<>>
  /\ r' = TRUE
  /\ heap' = 0
  /\ handled' = handled + 1
  /\ UNCHANGED <<file, stage, i, atstype, registers, encoder, hstr, doc, error_doc>>

(* Mutant: the decode flags of the previous message survive. *)
ResetRequirementsKeepsDecode ==
  /\ stage = "requirements"
  /\ stage' = IF m.hasEncodings THEN "entry" ELSE "template"
  /\ i' = 1
  /\ atstype' = INVALID
  /\ opsflag' = {}
  /\ ats' = [ats EXCEPT !["Dot2"] = "COER", !["MF"] = "UPER"]
  /\ UNCHANGED <<mode, m, decode, encoder, hstr, doc, error_doc, output, heap>>

ResetRequirements ==
  /\ stage = "requirements"
  /\ stage' = IF m.hasEncodings THEN "entry" ELSE "template"
  /\ i' = 1
  /\ atstype' = INVALID
  /\ opsflag' = {}
  /\ decode' = {}
  /\ ats' = [ats EXCEPT !["Dot2"] = "COER", !["MF"] = "UPER"]
  /\ UNCHANGED <<mode, m, encoder, hstr, doc, error_doc, output, heap>>

(* Mutant: an invalid rule is not refused. *)
ReadEncodingUnchecked ==
  /\ stage = "entry"
  /\ i <= Len(m.encodings)
  /\ LET e == m.encodings[i] IN
       /\ atstype' = IF e.rule = "none" THEN atstype ELSE TransferSyntax(e.rule)
       /\ opsflag' = opsflag \cup ({e.type} \cap Layers)
       /\ decode' = decode \cup ({e.type} \cap Layers)
       /\ ats' = [l \in Layers |-> IF l = e.type THEN atstype' ELSE ats[l]]
  /\ i' = i + 1
  /\ UNCHANGED <<mode, stage, m, encoder, hstr, doc, error_doc, output, heap>>

(* One entry of the encodings: an entry without a rule inherits the        *)
(* previous one's, an unknown element type only has its rule checked.      *)
ReadEncoding ==
  /\ stage = "entry"
  /\ i <= Len(m.encodings)
  /\ LET e == m.encodings[i] IN
       /\ atstype' = IF e.rule = "none" THEN atstype ELSE TransferSyntax(e.rule)
       /\ IF atstype' = INVALID
            THEN stage' = "template" /\ UNCHANGED registers
            ELSE /\ opsflag' = opsflag \cup ({e.type} \cap Layers)
                 /\ decode' = decode \cup ({e.type} \cap Layers)
                 /\ ats' = [l \in Layers |-> IF l = e.type THEN atstype' ELSE ats[l]]
                 /\ UNCHANGED stage
  /\ i' = i + 1
  /\ UNCHANGED <<mode, m, encoder, hstr, doc, error_doc, output, heap>>

EndRequirements ==
  /\ stage = "entry"
  /\ i > Len(m.encodings)
  /\ stage' = IF opsflag = {} \/ ~m.hasData THEN "template"
              ELSE IF decode_functionality THEN "decode" ELSE "encode"
  /\ UNCHANGED <<mode, m, i, atstype, registers, encoder, hstr, doc, error_doc, output, heap>>

-----------------------------------------------------------------------------
(* encode_message() and encode_for_protocol(). *)

(* Mutant: hex_data_ is not cleared. *)
SelectProtocolKeepsHex ==
  /\ Goto("encode", "layer")
  /\ protocol' = Protocol(opsflag, ats)
  /\ i' = 1
  /\ UNCHANGED <<mode, m, atstype, registers, hex_data, hstr, doc, error_doc, output, heap>>

SelectProtocol ==
  /\ Goto("encode", "layer")
  /\ protocol' = Protocol(opsflag, ats)
  /\ hex_data' = <<>>
  /\ i' = 1
  /\ UNCHANGED <<mode, m, atstype, registers, hstr, doc, error_doc, output, heap>>

(* encode_frame_data(): the layer passes the conformance check, the XER    *)
(* decoder, the constraints and the encoder.                               *)
Encodes(layer) == layer \notin m.rejected

(* Mutant: the node is removed only once it has been encoded. *)
EncodeLayerRemovesLate ==
  /\ stage = "layer"
  /\ i <= Len(protocol)
  /\ LET part == protocol[i]
         hex  == <<[layer |-> part.layer, rule |-> part.rule]>> \o doc.inner
     IN IF ~Present(doc, part.path) \/ ~Encodes(part.layer)
          THEN /\ stage' = IF Present(doc, part.path) THEN "input" ELSE "template"
               /\ UNCHANGED <<doc, hex_data, i>>
          ELSE /\ doc' = [doc EXCEPT !.tree = SubSeq(@, 1, Len(part.path) - 1),
                                     !.inner = IF part.replace THEN hex ELSE <<>>]
               /\ hex_data' = Append(hex_data, [name |-> part.layer, hex |-> hex])
               /\ i' = i + 1
               /\ UNCHANGED stage
  /\ UNCHANGED <<mode, m, atstype, registers, protocol, hstr, error_doc, output, heap>>

(* encode_node_as_hex_string(): the node is removed from the document      *)
(* before it is encoded; what was put inside it goes with it.  Its name is *)
(* read after that, from a node that remove_child() has destroyed.         *)
EncodeLayer ==
  /\ stage = "layer"
  /\ i <= Len(protocol)
  /\ LET part == protocol[i]
         hex  == <<[layer |-> part.layer, rule |-> part.rule]>> \o doc.inner
         cut  == [doc EXCEPT !.tree = SubSeq(@, 1, Len(part.path) - 1), !.inner = <<>>]
     IN \/ /\ ~Present(doc, part.path)
           /\ stage' = "template"
           /\ UNCHANGED <<doc, hex_data, i, heap>>
        \/ /\ Present(doc, part.path)
           /\ ~Encodes(part.layer)
           /\ stage' = "input"
           /\ doc' = cut
           /\ heap' \in Leftovers
           /\ UNCHANGED <<hex_data, i>>
        \/ /\ Present(doc, part.path)
           /\ Encodes(part.layer)
           /\ doc' = [cut EXCEPT !.inner = IF part.replace THEN hex ELSE <<>>]
           /\ \E name \in {part.layer} \cup FreedNames :
                hex_data' = Append(hex_data, [name |-> name, hex |-> hex])
           /\ i' = i + 1
           /\ UNCHANGED <<stage, heap>>
  /\ UNCHANGED <<mode, m, atstype, registers, protocol, hstr, error_doc, output>>

AppendHex ==
  /\ stage = "layer"
  /\ i > Len(protocol)
  /\ doc' = [doc EXCEPT !.appended = hex_data,
                        !.dataType = IF m.hasDataType THEN "hex" ELSE @]
  /\ stage' = IF m.hasDataType THEN "save" ELSE "template"
  /\ UNCHANGED <<mode, m, i, atstype, registers, encoder, hstr, error_doc, output, heap>>

-----------------------------------------------------------------------------
(* decode_message(). *)

TakeBytes ==
  /\ stage = "decode"
  /\ IF decode \cap {"Dot2", "MF"} = {} \/ m.bytes.form = "absent"
       THEN stage' = "template" /\ UNCHANGED <<hstr, doc>>
       ELSE /\ stage' = "dot2"
            /\ hstr' = m.bytes.hex
            /\ doc' = [doc EXCEPT !.bytes = Absent]
  /\ UNCHANGED <<mode, m, i, atstype, registers, encoder, error_doc, output, heap>>

(* hex_to_bytes_() and the ASN.1 decoder accept the string as this layer. *)
Decodes(layer) ==
  /\ m.bytes.form = "hex"
  /\ hstr # <<>>
  /\ Head(hstr) = [layer |-> layer, rule |-> ats[layer]]

DecodeDot2 ==
  /\ stage = "dot2"
  /\ \/ "Dot2" \notin decode /\ stage' = "frame" /\ UNCHANGED heap
     \/ "Dot2" \in decode /\ Decodes("Dot2") /\ stage' = "unsecured" /\ heap' = heap + 1
     \/ "Dot2" \in decode /\ ~Decodes("Dot2") /\ stage' = "input" /\ heap' \in Leftovers
  /\ UNCHANGED <<mode, m, i, atstype, registers, encoder, hstr, doc, error_doc, output>>

(* Mutant: the buffer is not freed before it is used for the frame. *)
TakeUnsecuredDataUnfreed ==
  /\ stage = "unsecured"
  /\ IF Len(hstr) > 1
       THEN stage' = "frame" /\ hstr' = Tail(hstr)
       ELSE stage' = "input" /\ UNCHANGED hstr
  /\ UNCHANGED <<mode, m, i, atstype, registers, encoder, doc, error_doc, output, heap>>

(* The unsecuredData of the outer structure is the string to decode next;  *)
(* a structure without one is an error.                                    *)
TakeUnsecuredData ==
  /\ stage = "unsecured"
  /\ IF Len(hstr) > 1
       THEN stage' = "frame" /\ hstr' = Tail(hstr) /\ heap' = heap - 1
       ELSE stage' = "input" /\ UNCHANGED <<hstr, heap>>
  /\ UNCHANGED <<mode, m, i, atstype, registers, encoder, doc, error_doc, output>>

DecodeFrame ==
  /\ stage = "frame"
  /\ \/ "MF" \notin decode /\ stage' = "save" /\ UNCHANGED heap
     \/ "MF" \in decode /\ Decodes("MF") /\ stage' = "insert"
        /\ heap' = heap + 1
     \/ "MF" \in decode /\ ~Decodes("MF") /\ stage' = "input"
        /\ \E left \in Leftovers : heap' = heap + left
  /\ UNCHANGED <<mode, m, i, atstype, registers, encoder, hstr, doc, error_doc, output>>

InsertXml ==
  /\ stage = "insert"
  /\ doc' = [doc EXCEPT !.xml = TRUE,
                        !.dataType = IF m.hasDataType THEN "xml" ELSE @]
  /\ IF m.hasDataType
       THEN stage' = "save" /\ heap' = heap - 1
       ELSE stage' = "template" /\ UNCHANGED heap
  /\ UNCHANGED <<mode, m, i, atstype, registers, encoder, hstr, error_doc, output>>

-----------------------------------------------------------------------------
(* The document that is saved: the input document, or one of the catch     *)
(* clauses'.  UnparseableInputError and MissingInputElementError answer    *)
(* with the template, Asn1CodecError with what is left of the input.       *)

Save ==
  /\ Goto("save", "idle")
  /\ stream' = Append(stream, doc)
  /\ handled' = handled + 1
  /\ UNCHANGED <<mode, m, i, atstype, registers, encoder, hstr, doc, error_doc, r, heap>>

CatchRequestError ==
  /\ Goto("template", "idle")
  /\ error_doc' = ErrorXml(error_doc, TRUE, "REQUEST")
  /\ stream' = Append(stream, error_doc')
  /\ r' = ~file
  /\ handled' = handled + 1
  /\ UNCHANGED <<mode, m, i, atstype, registers, encoder, hstr, doc, heap>>

(* Mutant: the answer is an error, the exit status is not. *)
CatchDataErrorStatusless ==
  /\ Goto("input", "idle")
  /\ doc' = ErrorXml(doc, m.hasDataType, "DATA")
  /\ stream' = Append(stream, doc')
  /\ handled' = handled + 1
  /\ UNCHANGED <<mode, m, i, atstype, registers, encoder, hstr, error_doc, r, heap>>

CatchDataError ==
  /\ Goto("input", "idle")
  /\ doc' = ErrorXml(doc, m.hasDataType, "DATA")
  /\ stream' = Append(stream, doc')
  /\ r' = ~file
  /\ handled' = handled + 1
  /\ UNCHANGED <<mode, m, i, atstype, registers, encoder, hstr, error_doc, heap>>

Next ==
  \/ Receive \/ FileTestUnopened
  \/ (\E encode \in BOOLEAN : FileTest(encode) \/ FileTestEmpty(encode))
  \/ ResetRequirements \/ ReadEncoding \/ EndRequirements
  \/ SelectProtocol \/ EncodeLayer \/ AppendHex
  \/ TakeBytes \/ DecodeDot2 \/ TakeUnsecuredData \/ DecodeFrame \/ InsertXml
  \/ Save \/ CatchRequestError \/ CatchDataError

Spec == Init /\ [][Next]_vars

-----------------------------------------------------------------------------
(* Reference: the document a message deserves, computed from the message   *)
(* alone.                                                                  *)

Entries == DOMAIN m.encodings

(* The rule of an entry is that of the nearest entry up to it that has one. *)
RuleAt(k) ==
  LET ruled == {j \in 1..k : m.encodings[j].rule # "none"} IN
  IF ruled = {} THEN INVALID
  ELSE TransferSyntax(m.encodings[CHOOSE j \in ruled : \A l \in ruled : l <= j].rule)

Asked == {m.encodings[k].type : k \in Entries} \cap Layers

(* The last entry of a layer decides its rule. *)
RuleOf(layer) ==
  RuleAt(CHOOSE k \in Entries : /\ m.encodings[k].type = layer
                                /\ \A l \in Entries :
                                     m.encodings[l].type = layer => l <= k)

Understood ==
  /\ m.text = "xml" /\ m.hasEncodings /\ m.hasData
  /\ \A k \in Entries : RuleAt(k) # INVALID
  /\ Asked # {}

(* The nest of the layers asked for, as bytes. *)
Nest(layers) ==
  LET c == Chain(layers) IN
  [k \in 1..Len(c) |-> [layer |-> c[k], rule |-> RuleOf(c[k])]]

RequestError == ErrorXml(Template, TRUE, "REQUEST")
DataError(tree) == ErrorXml([Loaded(m) EXCEPT !.tree = tree], m.hasDataType, "DATA")

(* The innermost layer the encoder rejects is cut off together with        *)
(* everything in it.                                                       *)
ExpectedEncoded ==
  LET c   == Chain(Asked)
      all == Nest(Asked)
      bad == {k \in DOMAIN c : c[k] \in m.rejected}
      hex == [k \in 1..Len(c) |-> SubSeq(all, Len(c) + 1 - k, Len(c))]
  IN CASE ~Present(Loaded(m), c) -> RequestError
       [] Present(Loaded(m), c) /\ bad # {} ->
            DataError(SubSeq(c, 1, (CHOOSE k \in bad : \A l \in bad : l <= k) - 1))
       [] OTHER ->
            IF ~m.hasDataType THEN RequestError
            ELSE [Loaded(m) EXCEPT !.tree = <<>>, !.appended = hex, !.dataType = "hex"]

ExpectedDecoded ==
  LET layers == Asked \cap {"Dot2", "MF"}
      nest   == Nest(layers)
      valid  == /\ m.bytes.form = "hex"
                /\ Len(m.bytes.hex) >= Len(nest)
                /\ SubSeq(m.bytes.hex, 1, Len(nest)) = nest
                /\ layers = {"Dot2"} => Len(m.bytes.hex) > 1
      framed == "MF" \in layers
  IN CASE layers = {} \/ m.bytes.form = "absent" -> RequestError
       [] layers # {} /\ m.bytes.form # "absent" /\ ~valid -> DataError(m.tree)
       [] OTHER ->
            IF framed /\ ~m.hasDataType THEN RequestError
            ELSE [Loaded(m) EXCEPT !.bytes = Absent, !.xml = framed,
                                   !.dataType = IF framed THEN "xml" ELSE @]

Expected ==
  IF ~Understood THEN RequestError
  ELSE IF decode_functionality THEN ExpectedDecoded ELSE ExpectedEncoded

(* A saved document without the names read from destroyed nodes. *)
Unnamed(d) ==
  [d EXCEPT !.appended = [k \in DOMAIN d.appended |-> d.appended[k].hex]]

Done     == stage = "idle" /\ handled > 0
Answered == Done /\ ~(file /\ m.text \in Unanswered)

-----------------------------------------------------------------------------
(* Properties *)

Docs ==
  [tree : Seq(Layers), inner : Hexes,
   bytes : [form : {"absent", "nothex", "hex"}, hex : Hexes], xml : BOOLEAN,
   appended : Seq([name : Layers \cup FreedNames, hex : Hexes]),
   dataType : {"unchanged", "ode", "hex", "xml"},
   code : {"none", "REQUEST", "DATA"}]

(* The registers and documents keep their types; a layer's register always *)
(* holds a valid transfer syntax, never the one of an entry that failed.   *)
TypeOK ==
  /\ stage \in {"idle", "requirements", "entry", "encode", "layer", "decode",
                "dot2", "unsecured", "frame", "insert", "save", "template", "input"}
  /\ m \in Messages
  /\ i \in Nat \ {0}
  /\ atstype \in Rules \cup {INVALID}
  /\ opsflag \subseteq Layers
  /\ decode \subseteq Layers
  /\ ats \in [Layers -> Rules]
  /\ protocol \in Seq([layer : Layers, rule : Rules, path : Seq(Layers), replace : BOOLEAN])
  /\ hex_data \in Seq([name : Layers \cup FreedNames, hex : Hexes])
  /\ hstr \in Hexes
  /\ doc \in Docs
  /\ error_doc \in Docs
  /\ stream \in Seq(Docs)
  /\ handled \in 0..MaxMessages
  /\ decode_functionality \in BOOLEAN /\ file \in BOOLEAN /\ r \in BOOLEAN
  /\ heap \in 0..2

(* Each message is answered by exactly one document, an empty file or one  *)
(* that cannot be opened by none, and what it says depends on the message  *)
(* and the mode alone: nothing of an earlier message, answered or          *)
(* abandoned by an exception half way, is left in the requirement flags,   *)
(* the transfer syntaxes, protocol_, hex_data_ or the template             *)
(* (acm.cpp:929-1243, 1573-1720).                                          *)
AnswerDependsOnMessageAlone ==
  Done => IF Answered THEN Len(stream) = 1 /\ Unnamed(stream[1]) = Expected
                      ELSE stream = <<>>

(* An error document never carries bytes, the sender's or those of the     *)
(* inner layers that were already encoded (acm.cpp:758-823, 1125-1163).    *)
ErrorsCarryNoBytes ==
  Done =>
    \A k \in DOMAIN stream : stream[k].code # "none" =>
      /\ stream[k].bytes = Absent
      /\ stream[k].inner = <<>>
      /\ stream[k].appended = <<>>

(* Encoding is all or nothing (interface.md:49-51): a document without an  *)
(* error has every layer asked for in its last hex string, and each hex    *)
(* string is the one before it inside one more layer.                      *)
EncodesAllLayers ==
  Answered /\ ~decode_functionality /\ stream[1].code = "none" =>
    LET a == stream[1].appended IN
    /\ Len(a) = Cardinality(Asked)
    /\ {a[Len(a)].hex[k].layer : k \in DOMAIN a[Len(a)].hex} = Asked
    /\ \A k \in 2..Len(a) : Tail(a[k].hex) = a[k - 1].hex

(* A message answered without an error leaves nothing allocated, however   *)
(* many layers it had; one answered with an error leaves one block at most *)
(* (acm.cpp:1036-1122, 1257-1571).                                         *)
LeaksAtMostOneBlock ==
  Done => /\ heap <= 1
          /\ heap = 1 => Answered /\ stream[1].code # "none"

(* file_test() returns EXIT_FAILURE exactly when the file could not be     *)
(* opened or the document it wrote is an error, whichever way the files    *)
(* before it ended (acm.cpp:1632-1720, relied on by tests.cpp:90-478).     *)
StatusTellsAnswer ==
  Done /\ file =>
    (r <=> m.text # "unopened" /\ \A k \in DOMAIN stream : stream[k].code = "none")

(* What the documents say, and the code does not do.                       *)

(* interface.md:77: a decoded message has the decoded XML under its data.  *)
DecodedHasXml ==
  Answered /\ decode_functionality /\ stream[1].code = "none" => stream[1].xml
=============================================================================
