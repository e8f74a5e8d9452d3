-------------------------- MODULE MessageCodecProofs --------------------------
(***************************************************************************)
(* Theorems of MessageCodec for all messages, files, rules and names.      *)
(***************************************************************************)
EXTENDS EncodeDecode, FiniteSetTheorems, SequenceTheorems, TLAPS

-----------------------------------------------------------------------------
(* Types. *)

Parts == [layer : Layers, rule : Rules, path : Seq(Layers), replace : BOOLEAN]
HexStrings == Seq([name : Layers \cup FreedNames, hex : Hexes])

LEMMA MessageTypes ==
  ASSUME NEW msg \in Messages
  PROVE  /\ msg.text \in {"unopened", "empty", "broken", "xml"}
         /\ msg.hasEncodings \in BOOLEAN /\ msg.hasData \in BOOLEAN /\ msg.hasDataType \in BOOLEAN
         /\ msg.encodings \in Seq([type : Layers \cup {"other"}, rule : Rules \cup {"none", "bad"}])
         /\ msg.tree \in Seq(Layers)
         /\ msg.bytes \in [form : {"absent", "nothex", "hex"}, hex : Hexes]
         /\ msg.bytes.hex \in Hexes
BY DEF Messages

LEMMA Documents ==
  /\ Template \in Docs /\ Absent \in [form : {"absent", "nothex", "hex"}, hex : Hexes]
  /\ \A msg \in Messages : Loaded(msg) \in Docs
<1>1. <<>> \in Seq(Layers) /\ <<>> \in Hexes /\ <<>> \in HexStrings
  BY DEF Hexes, HexStrings
<1>2. Absent \in [form : {"absent", "nothex", "hex"}, hex : Hexes]
  BY <1>1 DEF Absent
<1>3. Template \in Docs
  BY <1>1, <1>2 DEF Template, Docs, HexStrings
<1>4. ASSUME NEW msg \in Messages PROVE Loaded(msg) \in Docs
  <2>1. /\ msg.tree \in Seq(Layers)
        /\ msg.bytes \in [form : {"absent", "nothex", "hex"}, hex : Hexes]
    BY MessageTypes
  <2> QED
    BY <1>1, <2>1 DEF Loaded, Docs, HexStrings
<1> QED
  BY <1>2, <1>3, <1>4

LEMMA ErrorDocuments ==
  ASSUME NEW d \in Docs, NEW hasDataType \in BOOLEAN, NEW code \in {"REQUEST", "DATA"}
  PROVE  /\ ErrorXml(d, hasDataType, code) \in Docs
         /\ ErrorXml(d, hasDataType, code).bytes = Absent
         /\ ErrorXml(d, hasDataType, code).code = code
         /\ ErrorXml(d, hasDataType, code).tree = d.tree
         /\ ErrorXml(d, hasDataType, code).inner = d.inner
         /\ ErrorXml(d, hasDataType, code).appended = d.appended
BY Documents DEF ErrorXml, Docs

LEMMA ChainType ==
  ASSUME NEW layers
  PROVE  Chain(layers) \in Seq(Layers)
<1> DEFINE only(l) == IF l \in layers THEN <<l>> ELSE <<>>
<1>1. ASSUME NEW l \in Layers PROVE only(l) \in Seq(Layers)
  OBVIOUS
<1>2. only("Asd") \in Seq(Layers) /\ only("Dot2") \in Seq(Layers) /\ only("MF") \in Seq(Layers)
  BY <1>1 DEF Layers
<1>3. Chain(layers) = only("Asd") \o only("Dot2") \o only("MF")
  BY DEF Chain
<1> HIDE DEF only
<1> QED
  BY <1>2, <1>3

(* The k-th part of the protocol is about the k-th layer from within.      *)
LEMMA ProtocolParts ==
  ASSUME NEW layers, NEW syntax \in [Layers -> Rules]
  PROVE  /\ Protocol(layers, syntax) \in Seq(Parts)
         /\ Len(Protocol(layers, syntax)) = Len(Chain(layers))
         /\ \A k \in 1..Len(Chain(layers)) :
              LET part == Protocol(layers, syntax)[k]
                  at   == Len(Chain(layers)) + 1 - k
              IN /\ part \in Parts
                 /\ part.layer = Chain(layers)[at] /\ part.rule = syntax[Chain(layers)[at]]
                 /\ part.path = SubSeq(Chain(layers), 1, at) /\ Len(part.path) = at
                 /\ part.replace <=> at > 1
<1> DEFINE c == Chain(layers)
           at(k) == Len(c) + 1 - k
           part(k) == [layer |-> c[at(k)], rule |-> syntax[c[at(k)]], path |-> SubSeq(c, 1, at(k)),
                       replace |-> at(k) > 1]
<1>1. c \in Seq(Layers) /\ Len(c) \in Nat
  BY ChainType
<1> HIDE DEF c
<1>2. ASSUME NEW k \in 1..Len(c)
      PROVE  part(k) \in Parts /\ Len(part(k).path) = at(k)
  <2>1. at(k) \in 1..Len(c)
    BY <1>1
  <2>2. c[at(k)] \in Layers /\ SubSeq(c, 1, at(k)) \in Seq(Layers) /\ Len(SubSeq(c, 1, at(k))) = at(k)
    BY <1>1, <2>1
  <2>3. (at(k) > 1) \in BOOLEAN
    OBVIOUS
  <2> HIDE DEF at
  <2> QED
    BY <2>2, <2>3 DEF Parts
<1>3. Protocol(layers, syntax) = [k \in 1..Len(c) |-> part(k)]
  BY DEF Protocol, c
<1>4. /\ Protocol(layers, syntax) \in Seq(Parts) /\ Len(Protocol(layers, syntax)) = Len(c)
      /\ \A k \in 1..Len(c) : Protocol(layers, syntax)[k] = part(k)
  <2> HIDE DEF part
  <2> QED
    BY <1>1, <1>2, <1>3
<1>5. ASSUME NEW k \in 1..Len(c)
      PROVE  LET p == Protocol(layers, syntax)[k] IN
             /\ p \in Parts /\ p.layer = c[at(k)] /\ p.rule = syntax[c[at(k)]]
             /\ p.path = SubSeq(c, 1, at(k)) /\ Len(p.path) = at(k) /\ (p.replace <=> at(k) > 1)
  <2>1. /\ part(k).layer = c[at(k)] /\ part(k).rule = syntax[c[at(k)]]
        /\ part(k).path = SubSeq(c, 1, at(k)) /\ (part(k).replace <=> at(k) > 1)
    <3> HIDE DEF at
    <3> QED
      OBVIOUS
  <2>2. Protocol(layers, syntax)[k] = part(k)
    BY <1>4
  <2> HIDE DEF part, at
  <2> QED
    BY <1>2, <2>1, <2>2
<1> QED
  BY <1>4, <1>5 DEF c

(* The types without the heap, which only the stages bound.                *)
Stages == {"idle", "requirements", "entry", "encode", "layer", "decode",
           "dot2", "unsecured", "frame", "insert", "save", "template", "input"}

Modes     == decode_functionality \in BOOLEAN /\ file \in BOOLEAN
Place     == stage \in Stages /\ m \in Messages /\ i \in Nat \ {0}
Registers ==
  /\ atstype \in Rules \cup {INVALID} /\ opsflag \subseteq Layers /\ decode \subseteq Layers
  /\ ats \in [Layers -> Rules]
Encoder   == protocol \in Seq(Parts) /\ hex_data \in HexStrings /\ hstr \in Hexes
Written   ==
  /\ doc \in Docs /\ error_doc \in Docs
  /\ stream \in Seq(Docs) /\ r \in BOOLEAN /\ handled \in 0..MaxMessages
Types     == Modes /\ Place /\ Registers /\ Encoder /\ Written

(* A block is allocated only between the decoding of a layer and the use   *)
(* of what it returns, or after a failure.                                 *)
Allocated ==
  /\ heap \in 0..1
  /\ stage \in {"requirements", "entry", "encode", "layer", "decode", "dot2", "frame", "save"} =>
       heap = 0
  /\ stage \in {"unsecured", "insert"} => heap = 1

(* What a message is known to be once it is worked on.                     *)
Room ==
  /\ stage # "idle" => handled < MaxMessages
  /\ stage \notin {"idle", "template"} => m.text = "xml"
  /\ stage \notin {"idle", "template", "requirements"} => m.hasEncodings
  /\ stage \notin {"idle", "template", "requirements", "entry"} =>
       /\ m.hasData
       /\ opsflag # {}
  /\ stage \in {"encode", "layer"} => ~decode_functionality
  /\ stage \in {"decode", "dot2", "unsecured", "frame", "insert"} => decode_functionality
  /\ stage # "idle" /\ file => m.text \notin Unanswered
  /\ stage = "layer" => protocol = Protocol(opsflag, ats) /\ i <= Len(protocol) + 1

Sound == Types /\ Allocated /\ Room

LEMMA SoundInit == Init => Sound
<1> SUFFICES ASSUME Init PROVE Sound
  OBVIOUS
<1>1. m \in Messages
  BY MessageAssumption DEF Init
<1>2. ats \in [Layers -> Rules]
  BY MessageAssumption DEF Init
<1>3. Modes /\ Place /\ Encoder
  BY <1>1 DEF Init, Modes, Place, Stages, Encoder, HexStrings, Hexes
<1>4. Registers
  BY <1>2 DEF Init, Registers
<1>5. Written
  BY Documents, MessageAssumption DEF Init, Written
<1> QED
  BY <1>3, <1>4, <1>5 DEF Init, Sound, Types, Allocated, Room

LEMMA SoundType == Sound => TypeOK
BY DEF Sound, Types, Allocated, Modes, Place, Registers, Encoder, Written, TypeOK, Stages,
       Parts, HexStrings

(* A message is taken.                                                     *)
LEMMA ParseSound ==
  ASSUME Sound, NEW msg \in Messages, Parse(msg), stage = "idle", handled < MaxMessages,
         decode_functionality' \in BOOLEAN, file => msg.text \notin Unanswered
  PROVE  Sound'
<1>1. /\ m' = msg /\ doc' = Loaded(msg) /\ stream' = <<>> /\ r' = TRUE /\ heap' = 0
      /\ stage' = IF msg.text = "xml" THEN "requirements" ELSE "template"
      /\ UNCHANGED <<file, i, atstype, opsflag, decode, ats, protocol, hex_data, hstr,
                    error_doc, handled>>
  BY DEF Parse, registers, encoder
<1>2. Modes' /\ Place'
  BY <1>1 DEF Sound, Types, Modes, Place, Stages
<1>3. Registers' /\ Encoder'
  BY <1>1 DEF Sound, Types, Registers, Encoder
<1>4. Written'
  BY <1>1, Documents DEF Sound, Types, Written
<1>5. Allocated' /\ Room'
  BY <1>1 DEF Allocated, Room
<1> QED
  BY <1>2, <1>3, <1>4, <1>5 DEF Sound, Types

LEMMA ReceiveSound == Sound /\ Receive => Sound'
<1> SUFFICES ASSUME Sound, Receive PROVE Sound'
  OBVIOUS
<1>1. PICK msg \in (IF decode_functionality THEN ToDecode ELSE ToEncode) : Parse(msg)
  BY DEF Receive
<1>2. msg \in Messages
  BY MessageAssumption
<1>3. /\ stage = "idle" /\ handled < MaxMessages /\ ~file
      /\ decode_functionality' = decode_functionality /\ decode_functionality \in BOOLEAN
  BY DEF Receive, Sound, Types, Modes
<1> QED
  BY <1>1, <1>2, <1>3, ParseSound

(* The steps for a file that gets no document.                             *)
Undocumented(encode) == FileTestEmpty(encode) \/ FileTestUnopened

LEMMA UnreadFile ==
  ASSUME Sound, NEW encode \in BOOLEAN, Undocumented(encode)
  PROVE  /\ m' \in Messages /\ m'.text \in Unanswered
         /\ file /\ file' /\ stage' = "idle"
         /\ stream' = <<>> /\ r' \in BOOLEAN /\ (r' <=> m'.text # "unopened")
         /\ heap' = 0 /\ handled' = handled + 1
         /\ decode_functionality' \in BOOLEAN
         /\ UNCHANGED <<file, stage, i, atstype, opsflag, decode, ats, protocol, hex_data, hstr,
                       doc, error_doc>>
<1>1. ToEncode \subseteq Messages /\ ToDecode \subseteq Messages
  BY MessageAssumption
<1>2. CASE FileTestEmpty(encode)
  BY <1>1, <1>2 DEF FileTestEmpty, registers, encoder, Unanswered
<1>3. CASE FileTestUnopened
  BY <1>1, <1>3 DEF FileTestUnopened, registers, encoder, mode, Unanswered, Sound, Types, Modes
<1> QED
  BY <1>2, <1>3 DEF Undocumented

LEMMA FileTestSound ==
  ASSUME Sound, NEW encode \in BOOLEAN, FileTest(encode) \/ Undocumented(encode)
  PROVE  Sound'
<1>1. /\ stage = "idle" /\ handled < MaxMessages /\ file
      /\ decode_functionality' \in BOOLEAN
  BY DEF FileTest, FileTestEmpty, FileTestUnopened, Undocumented, mode, Sound, Types, Modes
<1>2. (IF encode THEN ToEncode ELSE ToDecode) \subseteq Messages
  BY MessageAssumption
<1>3. CASE FileTest(encode)
  <2>1. PICK msg \in (IF encode THEN ToEncode ELSE ToDecode) :
          msg.text \notin Unanswered /\ Parse(msg)
    BY <1>3 DEF FileTest
  <2> QED
    BY <1>1, <1>2, <2>1, ParseSound
<1>4. CASE Undocumented(encode)
  <2>1. /\ m' \in Messages /\ stream' = <<>> /\ r' \in BOOLEAN /\ heap' = 0
        /\ handled' = handled + 1
        /\ UNCHANGED <<file, stage, i, atstype, opsflag, decode, ats, protocol, hex_data, hstr,
                      doc, error_doc>>
    BY <1>4, UnreadFile
  <2>2. handled \in 0..MaxMessages /\ MaxMessages \in Nat
    BY MessageAssumption DEF Sound, Types, Written
  <2>3. Modes' /\ Place'
    BY <1>1, <2>1 DEF Sound, Types, Modes, Place
  <2>4. Registers' /\ Encoder'
    BY <2>1 DEF Sound, Types, Registers, Encoder
  <2>5. Written'
    BY <1>1, <2>1, <2>2 DEF Sound, Types, Written
  <2>6. Allocated' /\ Room'
    BY <1>1, <2>1 DEF Allocated, Room
  <2> QED
    BY <2>3, <2>4, <2>5, <2>6 DEF Sound, Types
<1> QED
  BY <1>3, <1>4

LEMMA ResetSound == Sound /\ ResetRequirements => Sound'
<1> SUFFICES ASSUME Sound, ResetRequirements PROVE Sound'
  OBVIOUS
<1>1. /\ stage = "requirements" /\ stage' = IF m.hasEncodings THEN "entry" ELSE "template"
      /\ i' = 1 /\ atstype' = INVALID /\ opsflag' = {} /\ decode' = {}
      /\ ats' = [ats EXCEPT !["Dot2"] = "COER", !["MF"] = "UPER"]
      /\ UNCHANGED <<decode_functionality, file, m, protocol, hex_data, hstr, doc, error_doc,
                    stream, r, handled, heap>>
  BY DEF ResetRequirements, mode, encoder, output
<1>2. Modes' /\ Place'
  BY <1>1 DEF Sound, Types, Modes, Place, Stages
<1>3. Registers'
  BY <1>1, MessageAssumption DEF Sound, Types, Registers
<1>4. Encoder' /\ Written'
  BY <1>1 DEF Sound, Types, Encoder, Written
<1>5. Allocated' /\ Room'
  BY <1>1 DEF Sound, Allocated, Room
<1> QED
  BY <1>2, <1>3, <1>4, <1>5 DEF Sound, Types

LEMMA ReadEncodingSound == Sound /\ ReadEncoding => Sound'
<1> SUFFICES ASSUME Sound, ReadEncoding PROVE Sound'
  OBVIOUS
<1> DEFINE e == m.encodings[i]
<1>1. /\ stage = "entry" /\ i <= Len(m.encodings) /\ i' = i + 1
      /\ atstype' = IF e.rule = "none" THEN atstype ELSE TransferSyntax(e.rule)
      /\ IF atstype' = INVALID
           THEN stage' = "template" /\ UNCHANGED <<opsflag, decode, ats>>
           ELSE /\ opsflag' = opsflag \cup ({e.type} \cap Layers)
                /\ decode' = decode \cup ({e.type} \cap Layers)
                /\ ats' = [l \in Layers |-> IF l = e.type THEN atstype' ELSE ats[l]]
                /\ UNCHANGED stage
      /\ UNCHANGED <<decode_functionality, file, m, protocol, hex_data, hstr, doc, error_doc,
                    stream, r, handled, heap>>
  BY DEF ReadEncoding, mode, registers, encoder, output
<1>2. Registers /\ m \in Messages /\ i \in Nat \ {0}
  BY DEF Sound, Types, Place
<1>3. Modes' /\ Place'
  <2>1. i' \in Nat \ {0}
    BY <1>1, <1>2
  <2> QED
    BY <1>1, <1>2, <2>1 DEF Sound, Types, Modes, Place, Stages
<1> HIDE DEF e
<1>4. Registers'
  <2>1. atstype' \in Rules \cup {INVALID}
    BY <1>1, <1>2 DEF TransferSyntax, Registers
  <2>2. CASE atstype' = INVALID
    BY <1>1, <1>2, <2>2 DEF Registers
  <2>3. CASE atstype' # INVALID
    <3>1. ats' \in [Layers -> Rules]
      BY <1>1, <1>2, <2>1, <2>3 DEF Registers
    <3> QED
      BY <1>1, <1>2, <2>1, <2>3, <3>1 DEF Registers
  <2> QED
    BY <2>2, <2>3
<1>5. Encoder' /\ Written'
  BY <1>1 DEF Sound, Types, Encoder, Written
<1>6. Allocated' /\ Room'
  BY <1>1 DEF Sound, Allocated, Room
<1> QED
  BY <1>3, <1>4, <1>5, <1>6 DEF Sound, Types

LEMMA EndRequirementsSound == Sound /\ EndRequirements => Sound'
<1> SUFFICES ASSUME Sound, EndRequirements PROVE Sound'
  OBVIOUS
<1>1. /\ stage = "entry"
      /\ \/ stage' = "template"
         \/ stage' = "decode" /\ decode_functionality /\ opsflag # {} /\ m.hasData
         \/ stage' = "encode" /\ ~decode_functionality /\ opsflag # {} /\ m.hasData
      /\ UNCHANGED <<decode_functionality, file, m, i, atstype, opsflag, decode, ats, protocol,
                    hex_data, hstr, doc, error_doc, stream, r, handled, heap>>
  BY DEF EndRequirements, mode, registers, encoder, output
<1>2. Types'
  BY <1>1 DEF Sound, Types, Modes, Place, Registers, Encoder, Written, Stages
<1>3. Allocated' /\ Room'
  BY <1>1 DEF Sound, Allocated, Room
<1> QED
  BY <1>2, <1>3 DEF Sound

LEMMA SelectProtocolSound == Sound /\ SelectProtocol => Sound'
<1> SUFFICES ASSUME Sound, SelectProtocol PROVE Sound'
  OBVIOUS
<1>1. /\ stage = "encode" /\ stage' = "layer" /\ i' = 1 /\ hex_data' = <<>>
      /\ protocol' = Protocol(opsflag, ats)
      /\ UNCHANGED <<decode_functionality, file, m, atstype, opsflag, decode, ats, hstr, doc,
                    error_doc, stream, r, handled, heap>>
  BY DEF SelectProtocol, Goto, mode, registers, output
<1>2. Encoder'
  <2>1. protocol' \in Seq(Parts)
    BY <1>1, ProtocolParts DEF Sound, Types, Registers
  <2> QED
    BY <1>1, <2>1 DEF Sound, Types, Encoder, HexStrings
<1>3. Modes' /\ Place' /\ Registers' /\ Written'
  BY <1>1 DEF Sound, Types, Modes, Place, Stages, Registers, Written
<1>4. 1 <= Len(Protocol(opsflag, ats)) + 1
  BY ProtocolParts, ChainType DEF Sound, Types, Registers
<1>5. Allocated' /\ Room'
  BY <1>1, <1>4 DEF Sound, Allocated, Room
<1> QED
  BY <1>2, <1>3, <1>5 DEF Sound, Types

(* The document and the string while a layer is encoded.                   *)
Cut(part) == [doc EXCEPT !.tree = SubSeq(@, 1, Len(part.path) - 1), !.inner = <<>>]
HexOf(part) == <<[layer |-> part.layer, rule |-> part.rule]>> \o doc.inner

LEMMA CutTypes ==
  ASSUME Sound, NEW part \in Parts, Present(doc, part.path), part.path # <<>>
  PROVE  /\ Cut(part) \in Docs /\ HexOf(part) \in Hexes
         /\ Cut(part).inner = <<>> /\ Cut(part).appended = doc.appended
         /\ Cut(part).code = doc.code
         /\ [Cut(part) EXCEPT !.inner = IF part.replace THEN HexOf(part) ELSE <<>>] \in Docs
<1>1. /\ doc \in Docs /\ doc.tree \in Seq(Layers) /\ doc.inner \in Hexes
  BY DEF Sound, Types, Written, Docs
<1>2. part.path \in Seq(Layers) /\ part.layer \in Layers /\ part.rule \in Rules
  BY DEF Parts
<1>3. Len(part.path) - 1 \in Nat /\ Len(part.path) - 1 <= Len(doc.tree)
  BY <1>1, <1>2 DEF Present
<1>4. SubSeq(doc.tree, 1, Len(part.path) - 1) \in Seq(Layers)
  BY <1>1, <1>3
<1>5. HexOf(part) \in Hexes
  BY <1>1, <1>2 DEF HexOf, Hexes
<1>6. <<>> \in Hexes
  BY DEF Hexes
<1> HIDE DEF HexOf
<1> QED
  BY <1>1, <1>4, <1>5, <1>6 DEF Cut, Docs

(* The three ways the encoding of a layer can go.                          *)
LEMMA EncodeLayerCases ==
  ASSUME Sound, EncodeLayer
  PROVE  LET part == protocol[i] IN
         /\ stage = "layer" /\ i <= Len(protocol) /\ part \in Parts /\ part.path # <<>>
         /\ \/ /\ ~Present(doc, part.path) /\ stage' = "template"
               /\ UNCHANGED <<doc, hex_data, i, heap>>
            \/ /\ Present(doc, part.path) /\ ~Encodes(part.layer) /\ stage' = "input"
               /\ doc' = Cut(part) /\ heap' \in {0, 1} /\ UNCHANGED <<hex_data, i>>
            \/ /\ Present(doc, part.path) /\ Encodes(part.layer)
               /\ doc' = [Cut(part) EXCEPT !.inner = IF part.replace THEN HexOf(part) ELSE <<>>]
               /\ \E name \in {part.layer} \cup FreedNames :
                    hex_data' = Append(hex_data, [name |-> name, hex |-> HexOf(part)])
               /\ i' = i + 1 /\ UNCHANGED <<stage, heap>>
         /\ UNCHANGED <<decode_functionality, file, m, atstype, opsflag, decode, ats, protocol, hstr,
                       error_doc, stream, r, handled>>
<1>1. /\ stage = "layer" /\ i \in 1..Len(protocol) /\ i <= Len(protocol)
      /\ protocol = Protocol(opsflag, ats) /\ ats \in [Layers -> Rules]
  BY DEF EncodeLayer, Sound, Types, Place, Room, Registers
<1>2. protocol[i] \in Parts /\ Len(protocol[i].path) = Len(Chain(opsflag)) + 1 - i
      /\ i \in 1..Len(Chain(opsflag))
  BY <1>1, ProtocolParts
<1>3. Len(Chain(opsflag)) \in Nat
  BY ChainType
<1>4. protocol[i].path # <<>>
  <2>1. Len(protocol[i].path) # 0
    BY <1>2, <1>3
  <2> QED
    BY <2>1
<1> QED
  BY <1>1, <1>2, <1>4 DEF EncodeLayer, Cut, HexOf, Leftovers, mode, registers, output

LEMMA EncodeLayerSound == Sound /\ EncodeLayer => Sound'
<1> SUFFICES ASSUME Sound, EncodeLayer PROVE Sound'
  OBVIOUS
<1> DEFINE part == protocol[i]
<1>1. /\ stage = "layer" /\ part \in Parts /\ part.path # <<>>
      /\ UNCHANGED <<decode_functionality, file, m, atstype, opsflag, decode, ats, protocol, hstr,
                    error_doc, stream, r, handled>>
  BY EncodeLayerCases
<1>2. Present(doc, part.path) => /\ Cut(part) \in Docs /\ HexOf(part) \in Hexes
        /\ [Cut(part) EXCEPT !.inner = IF part.replace THEN HexOf(part) ELSE <<>>] \in Docs
  BY <1>1, CutTypes
<1>3. Modes' /\ Registers'
  BY <1>1 DEF Sound, Types, Modes, Registers
<1>4. Types /\ part.layer \in Layers /\ heap = 0 /\ i <= Len(protocol)
  BY <1>1, EncodeLayerCases DEF Sound, Allocated, Parts
<1> HIDE DEF part
<1>5. CASE ~Present(doc, part.path) /\ stage' = "template" /\ UNCHANGED <<doc, hex_data, i, heap>>
  <2>1. Types'
    BY <1>1, <1>3, <1>4, <1>5 DEF Types, Place, Stages, Encoder, Written
  <2>2. Allocated' /\ Room'
    BY <1>1, <1>4, <1>5 DEF Allocated, Sound, Room
  <2> QED
    BY <2>1, <2>2 DEF Sound
<1>6. CASE /\ Present(doc, part.path) /\ stage' = "input"
           /\ doc' = Cut(part) /\ heap' \in {0, 1} /\ UNCHANGED <<hex_data, i>>
  <2>1. Types'
    BY <1>1, <1>2, <1>3, <1>4, <1>6 DEF Types, Place, Stages, Encoder, Written
  <2>2. Allocated' /\ Room'
    BY <1>1, <1>6 DEF Allocated, Sound, Room
  <2> QED
    BY <2>1, <2>2 DEF Sound
<1>7. CASE /\ Present(doc, part.path)
           /\ doc' = [Cut(part) EXCEPT !.inner = IF part.replace THEN HexOf(part) ELSE <<>>]
           /\ \E name \in {part.layer} \cup FreedNames :
                hex_data' = Append(hex_data, [name |-> name, hex |-> HexOf(part)])
           /\ i' = i + 1 /\ UNCHANGED <<stage, heap>>
  <2>1. i' \in Nat \ {0} /\ i' <= Len(protocol) + 1
    BY <1>4, <1>7 DEF Types, Place, Encoder
  <2>2. hex_data' \in HexStrings
    <3>1. PICK name \in {part.layer} \cup FreedNames :
            hex_data' = Append(hex_data, [name |-> name, hex |-> HexOf(part)])
      BY <1>7
    <3>2. [name |-> name, hex |-> HexOf(part)] \in [name : Layers \cup FreedNames, hex : Hexes]
      BY <1>2, <1>4, <1>7
    <3> QED
      BY <1>4, <3>1, <3>2 DEF Types, Encoder, HexStrings
  <2>3. Types'
    BY <1>1, <1>2, <1>3, <1>4, <1>7, <2>1, <2>2 DEF Types, Place, Encoder, Written
  <2>4. Allocated' /\ Room'
    BY <1>1, <1>4, <1>7, <2>1 DEF Allocated, Sound, Room
  <2> QED
    BY <2>3, <2>4 DEF Sound
<1> QED
  BY <1>5, <1>6, <1>7, EncodeLayerCases DEF part

LEMMA AppendHexSound == Sound /\ AppendHex => Sound'
<1> SUFFICES ASSUME Sound, AppendHex PROVE Sound'
  OBVIOUS
<1>1. /\ stage = "layer" /\ stage' = IF m.hasDataType THEN "save" ELSE "template"
      /\ doc' = [doc EXCEPT !.appended = hex_data,
                            !.dataType = IF m.hasDataType THEN "hex" ELSE @]
      /\ UNCHANGED <<decode_functionality, file, m, i, atstype, opsflag, decode, ats, protocol,
                    hex_data, hstr, error_doc, stream, r, handled, heap>>
  BY DEF AppendHex, mode, registers, encoder, output
<1>2. doc' \in Docs
  BY <1>1 DEF Sound, Types, Encoder, Written, Docs, HexStrings
<1>3. Types'
  BY <1>1, <1>2 DEF Sound, Types, Modes, Place, Registers, Encoder, Written, Stages
<1>4. Allocated' /\ Room'
  BY <1>1 DEF Sound, Allocated, Room
<1> QED
  BY <1>3, <1>4 DEF Sound

LEMMA TakeBytesSound == Sound /\ TakeBytes => Sound'
<1> SUFFICES ASSUME Sound, TakeBytes PROVE Sound'
  OBVIOUS
<1>1. /\ stage = "decode"
      /\ \/ stage' = "template" /\ UNCHANGED <<hstr, doc>>
         \/ stage' = "dot2" /\ hstr' = m.bytes.hex /\ doc' = [doc EXCEPT !.bytes = Absent]
      /\ UNCHANGED <<decode_functionality, file, m, i, atstype, opsflag, decode, ats, protocol,
                    hex_data, error_doc, stream, r, handled, heap>>
  BY DEF TakeBytes, mode, registers, encoder, output
<1>2. [doc EXCEPT !.bytes = Absent] \in Docs
  BY Documents DEF Sound, Types, Written, Docs
<1>3. doc' \in Docs /\ hstr' \in Hexes
  BY <1>1, <1>2, MessageTypes DEF Sound, Types, Place, Encoder, Written
<1>4. Types'
  BY <1>1, <1>3 DEF Sound, Types, Modes, Place, Registers, Encoder, Written, Stages
<1>5. Allocated' /\ Room'
  BY <1>1 DEF Sound, Allocated, Room
<1> QED
  BY <1>4, <1>5 DEF Sound

LEMMA DecodeSound == Sound /\ (DecodeDot2 \/ TakeUnsecuredData \/ DecodeFrame) => Sound'
<1> SUFFICES ASSUME Sound, DecodeDot2 \/ TakeUnsecuredData \/ DecodeFrame PROVE Sound'
  OBVIOUS
<1>1. heap = (IF stage = "unsecured" THEN 1 ELSE 0)
  BY DEF Sound, Allocated, DecodeDot2, TakeUnsecuredData, DecodeFrame
<1>2. CASE DecodeDot2
  <2>1. /\ stage = "dot2" /\ UNCHANGED hstr
        /\ \/ stage' = "frame" /\ heap' = 0
           \/ stage' = "unsecured" /\ heap' = 1
           \/ stage' = "input" /\ heap' \in 0..1
    BY <1>1, <1>2 DEF DecodeDot2, Leftovers
  <2>2. UNCHANGED <<decode_functionality, file, m, i, atstype, opsflag, decode, ats, protocol,
                    hex_data, doc, error_doc, stream, r, handled>>
    BY <1>2 DEF DecodeDot2, mode, registers, encoder, output
  <2>3. Types'
    BY <2>1, <2>2 DEF Sound, Types, Modes, Place, Registers, Encoder, Written, Stages
  <2>4. Allocated' /\ Room'
    BY <2>1, <2>2 DEF Sound, Allocated, Room
  <2> QED
    BY <2>3, <2>4 DEF Sound
<1>3. CASE TakeUnsecuredData
  <2>1. /\ stage = "unsecured"
        /\ \/ Len(hstr) > 1 /\ stage' = "frame" /\ hstr' = Tail(hstr) /\ heap' = 0
           \/ stage' = "input" /\ UNCHANGED <<hstr, heap>>
    BY <1>1, <1>3 DEF TakeUnsecuredData
  <2>2. UNCHANGED <<decode_functionality, file, m, i, atstype, opsflag, decode, ats, protocol,
                    hex_data, doc, error_doc, stream, r, handled>>
    BY <1>3 DEF TakeUnsecuredData, mode, registers, encoder, output
  <2>3. hstr' \in Hexes
    BY <2>1 DEF Sound, Types, Encoder, Hexes
  <2>4. Types'
    BY <2>1, <2>2, <2>3 DEF Sound, Types, Modes, Place, Registers, Encoder, Written, Stages
  <2>5. Allocated' /\ Room'
    BY <2>1, <2>2 DEF Sound, Allocated, Room
  <2> QED
    BY <2>4, <2>5 DEF Sound
<1>4. CASE DecodeFrame
  <2>1. /\ stage = "frame" /\ UNCHANGED hstr
        /\ \/ stage' = "save" /\ heap' = 0
           \/ stage' = "insert" /\ heap' = 1
           \/ stage' = "input" /\ heap' \in 0..1
    BY <1>1, <1>4 DEF DecodeFrame, Leftovers
  <2>2. UNCHANGED <<decode_functionality, file, m, i, atstype, opsflag, decode, ats, protocol,
                    hex_data, doc, error_doc, stream, r, handled>>
    BY <1>4 DEF DecodeFrame, mode, registers, encoder, output
  <2>3. Types'
    BY <2>1, <2>2 DEF Sound, Types, Modes, Place, Registers, Encoder, Written, Stages
  <2>4. Allocated' /\ Room'
    BY <2>1, <2>2 DEF Sound, Allocated, Room
  <2> QED
    BY <2>3, <2>4 DEF Sound
<1> QED
  BY <1>2, <1>3, <1>4

LEMMA InsertXmlSound == Sound /\ InsertXml => Sound'
<1> SUFFICES ASSUME Sound, InsertXml PROVE Sound'
  OBVIOUS
<1>1. /\ stage = "insert" /\ heap = 1
      /\ \/ stage' = "save" /\ heap' = 0
         \/ stage' = "template" /\ heap' = 1
      /\ doc' = [doc EXCEPT !.xml = TRUE, !.dataType = IF m.hasDataType THEN "xml" ELSE @]
      /\ UNCHANGED <<decode_functionality, file, m, i, atstype, opsflag, decode, ats, protocol,
                    hex_data, hstr, error_doc, stream, r, handled>>
  BY DEF InsertXml, mode, registers, encoder, output, Sound, Allocated
<1>2. doc' \in Docs
  BY <1>1 DEF Sound, Types, Written, Docs
<1>3. Types'
  BY <1>1, <1>2 DEF Sound, Types, Modes, Place, Registers, Encoder, Written, Stages
<1>4. Allocated' /\ Room'
  BY <1>1 DEF Sound, Allocated, Room
<1> QED
  BY <1>3, <1>4 DEF Sound

(* One document is saved, and the codec waits for the next message.        *)
Saving == Save \/ CatchRequestError \/ CatchDataError

(* The steps that take a message, or a file that gets no answer.           *)
Taking == Receive \/ \E encode \in BOOLEAN : FileTest(encode) \/ Undocumented(encode)

LEMMA NextTaking ==
  Next <=> \/ Taking
           \/ ResetRequirements \/ ReadEncoding \/ EndRequirements
           \/ SelectProtocol \/ EncodeLayer \/ AppendHex
           \/ TakeBytes \/ DecodeDot2 \/ TakeUnsecuredData \/ DecodeFrame \/ InsertXml
           \/ Saving
<1>1. FileTestUnopened <=> \E encode \in BOOLEAN : FileTestUnopened
  OBVIOUS
<1> QED
  BY <1>1 DEF Next, Taking, Undocumented, Saving

LEMMA SavingCases ==
  ASSUME Sound, Saving
  PROVE  /\ stage \in {"save", "template", "input"} /\ stage' = "idle"
         /\ \/ /\ stage = "save" /\ stream' = Append(stream, doc)
               /\ UNCHANGED <<doc, error_doc, r>>
            \/ /\ stage = "template" /\ error_doc' = ErrorXml(error_doc, TRUE, "REQUEST")
               /\ stream' = Append(stream, error_doc') /\ doc' = doc /\ r' = ~file
            \/ /\ stage = "input" /\ doc' = ErrorXml(doc, m.hasDataType, "DATA")
               /\ stream' = Append(stream, doc') /\ error_doc' = error_doc /\ r' = ~file
         /\ handled' = handled + 1
         /\ UNCHANGED <<decode_functionality, file, m, i, atstype, opsflag, decode, ats, protocol,
                       hex_data, hstr, heap>>
BY DEF Saving, Save, CatchRequestError, CatchDataError, Goto, mode, registers, encoder

LEMMA SavingSound == Sound /\ Saving => Sound'
<1> SUFFICES ASSUME Sound, Saving PROVE Sound'
  OBVIOUS
<1>0. /\ stage \in {"save", "template", "input"} /\ stage' = "idle"
      /\ \/ /\ stage = "save" /\ stream' = Append(stream, doc)
            /\ UNCHANGED <<doc, error_doc, r>>
         \/ /\ stage = "template" /\ error_doc' = ErrorXml(error_doc, TRUE, "REQUEST")
            /\ stream' = Append(stream, error_doc') /\ doc' = doc /\ r' = ~file
         \/ /\ stage = "input" /\ doc' = ErrorXml(doc, m.hasDataType, "DATA")
            /\ stream' = Append(stream, doc') /\ error_doc' = error_doc /\ r' = ~file
      /\ handled' = handled + 1
      /\ UNCHANGED <<decode_functionality, file, m, i, atstype, opsflag, decode, ats, protocol,
                    hex_data, hstr, heap>>
  BY SavingCases
<1>1. handled' \in 0..MaxMessages
  BY <1>0, MessageAssumption DEF Sound, Types, Written, Room
<1>2. doc' \in Docs /\ error_doc' \in Docs
  <2>1. m.hasDataType \in BOOLEAN
    BY MessageTypes DEF Sound, Types, Place
  <2>2. doc \in Docs /\ error_doc \in Docs
    BY DEF Sound, Types, Written
  <2>3. ErrorXml(doc, m.hasDataType, "DATA") \in Docs /\ ErrorXml(error_doc, TRUE, "REQUEST") \in Docs
    BY <2>1, <2>2, ErrorDocuments
  <2> QED
    BY <1>0, <2>2, <2>3
<1>3. stream' \in Seq(Docs) /\ r' \in BOOLEAN
  <2>1. stream \in Seq(Docs) /\ doc \in Docs /\ r \in BOOLEAN /\ (~file) \in BOOLEAN
    BY DEF Sound, Types, Written, Modes
  <2>2. \/ stream' = Append(stream, doc)
        \/ stream' = Append(stream, doc')
        \/ stream' = Append(stream, error_doc')
    BY <1>0
  <2>3. stream' \in Seq(Docs)
    BY <1>2, <2>1, <2>2
  <2>4. r' = r \/ r' = ~file
    BY <1>0
  <2> QED
    BY <2>1, <2>3, <2>4
<1>4. Types'
  BY <1>0, <1>1, <1>2, <1>3 DEF Sound, Types, Modes, Place, Registers, Encoder, Written, Stages
<1>5. Allocated' /\ Room'
  BY <1>0 DEF Sound, Allocated, Room
<1> QED
  BY <1>4, <1>5 DEF Sound

LEMMA SoundStep == Sound /\ [Next]_vars => Sound'
<1> SUFFICES ASSUME Sound, [Next]_vars PROVE Sound'
  OBVIOUS
<1>1. CASE UNCHANGED vars
  BY <1>1 DEF vars, mode, registers, encoder, output, Sound, Types, Modes, Place, Registers,
              Encoder, Written, Allocated, Room
<1> QED
  BY <1>1, ReceiveSound, FileTestSound, ResetSound, ReadEncodingSound, EndRequirementsSound,
     SelectProtocolSound, EncodeLayerSound, AppendHexSound, TakeBytesSound, DecodeSound,
     InsertXmlSound, SavingSound, NextTaking DEF Taking

(* The registers and documents keep their types, for every message.        *)
THEOREM TypeCorrect == Spec => []TypeOK
BY SoundInit, SoundStep, SoundType, PTL DEF Spec

-----------------------------------------------------------------------------
(* Sequences of layers. *)

LEMMA Prefixes ==
  ASSUME NEW S, NEW s \in Seq(S), NEW t \in Seq(S), NEW a \in Nat, NEW b \in Nat, b <= a,
         a <= Len(s), a <= Len(t), SubSeq(s, 1, a) = SubSeq(t, 1, a)
  PROVE  SubSeq(s, 1, b) = SubSeq(t, 1, b)
<1>1. \A k \in 1..a : SubSeq(s, 1, a)[k] = s[k] /\ SubSeq(t, 1, a)[k] = t[k]
  OBVIOUS
<1>2. \A k \in 1..b : s[k] = t[k]
  BY <1>1
<1>3. /\ SubSeq(s, 1, b) = [k \in 1..b |-> s[k]]
      /\ SubSeq(t, 1, b) = [k \in 1..b |-> t[k]]
  OBVIOUS
<1> QED
  BY <1>2, <1>3

LEMMA Joined ==
  ASSUME NEW S, NEW s \in Seq(S), NEW x \in S
  PROVE  /\ s \o <<x>> \in Seq(S) /\ Len(s \o <<x>>) = Len(s) + 1
         /\ \A k \in 1..Len(s) : (s \o <<x>>)[k] = s[k]
         /\ (s \o <<x>>)[Len(s) + 1] = x
<1>1. <<x>> \in Seq(S) /\ Len(<<x>>) = 1 /\ <<x>>[1] = x /\ Len(s) \in Nat
  OBVIOUS
<1> DEFINE t == <<x>>
<1>2. t \in Seq(S) /\ Len(t) = 1 /\ t[1] = x
  BY <1>1
<1> HIDE DEF t
<1>3. /\ s \o t \in Seq(S) /\ Len(s \o t) = Len(s) + Len(t)
      /\ \A k \in 1..Len(s) + Len(t) : (s \o t)[k] = IF k <= Len(s) THEN s[k] ELSE t[k - Len(s)]
  BY <1>2, ConcatProperties
<1>4. /\ s \o t \in Seq(S) /\ Len(s \o t) = Len(s) + 1
      /\ \A k \in 1..Len(s) : (s \o t)[k] = s[k]
      /\ (s \o t)[Len(s) + 1] = x
  BY <1>1, <1>2, <1>3
<1> QED
  BY <1>4 DEF t

LEMMA ChainValues ==
  /\ Chain({}) = <<>> /\ Chain({"Asd"}) = <<"Asd">> /\ Chain({"Dot2"}) = <<"Dot2">>
  /\ Chain({"MF"}) = <<"MF">> /\ Chain({"Asd", "Dot2"}) = <<"Asd", "Dot2">>
  /\ Chain({"Asd", "MF"}) = <<"Asd", "MF">> /\ Chain({"Dot2", "MF"}) = <<"Dot2", "MF">>
  /\ Chain({"Asd", "Dot2", "MF"}) = <<"Asd", "Dot2", "MF">>
<1>1. ASSUME NEW layers
      PROVE  Chain(layers) = ((IF "Asd" \in layers THEN <<"Asd">> ELSE <<>>)
                              \o (IF "Dot2" \in layers THEN <<"Dot2">> ELSE <<>>))
                             \o (IF "MF" \in layers THEN <<"MF">> ELSE <<>>)
  BY DEF Chain
<1>2. \A s \in Seq(Layers) : s \o <<>> = s /\ <<>> \o s = s
  BY ConcatEmptySeq
<1>3. /\ <<>> \in Seq(Layers) /\ <<"Asd">> \in Seq(Layers) /\ <<"Dot2">> \in Seq(Layers)
      /\ <<"MF">> \in Seq(Layers) /\ <<"Asd", "Dot2">> \in Seq(Layers)
  BY DEF Layers
<1>4. /\ <<"Asd">> \o <<"Dot2">> = <<"Asd", "Dot2">> /\ <<"Asd">> \o <<"MF">> = <<"Asd", "MF">>
      /\ <<"Dot2">> \o <<"MF">> = <<"Dot2", "MF">>
      /\ <<"Asd", "Dot2">> \o <<"MF">> = <<"Asd", "Dot2", "MF">>
  <2>1. ASSUME NEW x \in Layers, NEW y \in Layers PROVE <<x>> \o <<y>> = <<x, y>>
    <3>1. <<x>> \in Seq(Layers) /\ Len(<<x>>) = 1 /\ <<x>>[1] = x
      OBVIOUS
    <3>2. /\ <<x>> \o <<y>> \in Seq(Layers) /\ Len(<<x>> \o <<y>>) = 2
          /\ (<<x>> \o <<y>>)[1] = x /\ (<<x>> \o <<y>>)[2] = y
      BY <3>1, Joined
    <3>3. \A s \in Seq(Layers) : Len(s) = 2 /\ s[1] = x /\ s[2] = y => s = <<x, y>>
      OBVIOUS
    <3> QED
      BY <3>2, <3>3
  <2>2. ASSUME NEW p \in Seq(Layers), Len(p) = 2, NEW x \in Layers
        PROVE  p \o <<x>> = <<p[1], p[2], x>>
    <3> DEFINE q == p \o <<x>>
    <3>1. /\ q \in Seq(Layers) /\ Len(q) = Len(p) + 1
          /\ \A k \in 1..Len(p) : q[k] = p[k]
          /\ q[Len(p) + 1] = x
      BY Joined
    <3> HIDE DEF q
    <3>2. q \in Seq(Layers) /\ Len(q) = 3 /\ q[1] = p[1] /\ q[2] = p[2] /\ q[3] = x
      BY <2>2, <3>1
    <3>3. q = <<p[1], p[2], x>>
      BY <3>2
    <3> QED
      BY <3>3 DEF q
  <2>3. <<"Asd", "Dot2">> \o <<"MF">> = <<"Asd", "Dot2", "MF">>
    <3>1. /\ <<"Asd", "Dot2">> \in Seq(Layers) /\ Len(<<"Asd", "Dot2">>) = 2 /\ "MF" \in Layers
          /\ <<"Asd", "Dot2">>[1] = "Asd" /\ <<"Asd", "Dot2">>[2] = "Dot2"
      BY DEF Layers
    <3> QED
      BY <2>2, <3>1
  <2> QED
    BY <2>1, <2>3 DEF Layers
<1>5. Chain({}) = <<>>
  BY <1>1, <1>2, <1>3
<1>6. Chain({"Asd"}) = <<"Asd">> /\ Chain({"Dot2"}) = <<"Dot2">> /\ Chain({"MF"}) = <<"MF">>
  BY <1>1, <1>2, <1>3
<1>7. /\ Chain({"Asd", "Dot2"}) = <<"Asd", "Dot2">> /\ Chain({"Asd", "MF"}) = <<"Asd", "MF">>
      /\ Chain({"Dot2", "MF"}) = <<"Dot2", "MF">>
  BY <1>1, <1>2, <1>3, <1>4
<1>8. Chain({"Asd", "Dot2", "MF"}) = <<"Asd", "Dot2", "MF">>
  BY <1>1, <1>4
<1> QED
  BY <1>5, <1>6, <1>7, <1>8

LEMMA LayerSets ==
  ASSUME NEW layers \in SUBSET Layers
  PROVE  layers \in {{}, {"Asd"}, {"Dot2"}, {"MF"}, {"Asd", "Dot2"}, {"Asd", "MF"},
                    {"Dot2", "MF"}, {"Asd", "Dot2", "MF"}}
BY DEF Layers

LEMMA Chains ==
  ASSUME NEW layers \in SUBSET Layers
  PROVE  /\ Chain(layers) \in Seq(Layers) /\ Len(Chain(layers)) \in Nat
         /\ \A k \in 1..Len(Chain(layers)) : Chain(layers)[k] \in layers
         /\ \A l \in layers : \E k \in 1..Len(Chain(layers)) : Chain(layers)[k] = l
         /\ Len(Chain(layers)) = Cardinality(layers)
         /\ layers # {} => Len(Chain(layers)) >= 1
<1>1. Chain(layers) \in Seq(Layers) /\ Len(Chain(layers)) \in Nat
  BY ChainType
<1>2. /\ Cardinality({}) = 0 /\ Cardinality({"Asd"}) = 1 /\ Cardinality({"Dot2"}) = 1
      /\ Cardinality({"MF"}) = 1 /\ Cardinality({"Asd", "Dot2"}) = 2
      /\ Cardinality({"Asd", "MF"}) = 2 /\ Cardinality({"Dot2", "MF"}) = 2
      /\ Cardinality({"Asd", "Dot2", "MF"}) = 3
  <2>1. \A x : IsFiniteSet({x}) /\ Cardinality({x}) = 1
    BY FS_Singleton
  <2>2. ASSUME NEW x, NEW y, x # y
        PROVE  IsFiniteSet({x, y}) /\ Cardinality({x, y}) = 2
    <3>1. {x, y} = {x} \cup {y} /\ y \notin {x}
      BY <2>2
    <3>2. IsFiniteSet({x}) /\ Cardinality({x}) = 1
      BY <2>1
    <3>3. IsFiniteSet({x} \cup {y}) /\ Cardinality({x} \cup {y}) = Cardinality({x}) + 1
      BY <3>1, <3>2, FS_AddElement
    <3> QED
      BY <3>1, <3>2, <3>3
  <2>3. Cardinality({"Asd", "Dot2", "MF"}) = 3
    <3>1. {"Asd", "Dot2", "MF"} = {"Asd", "Dot2"} \cup {"MF"} /\ "MF" \notin {"Asd", "Dot2"}
      OBVIOUS
    <3>2. IsFiniteSet({"Asd", "Dot2"}) /\ Cardinality({"Asd", "Dot2"}) = 2
      BY <2>2
    <3> QED
      BY <3>1, <3>2, FS_AddElement
  <2>4. Cardinality({}) = 0
    BY FS_EmptySet
  <2> QED
    BY <2>1, <2>2, <2>3, <2>4
<1> DEFINE Lists(c) ==
             /\ \A k \in 1..Len(c) : c[k] \in layers
             /\ \A l \in layers : \E k \in 1..Len(c) : c[k] = l
             /\ Len(c) = Cardinality(layers)
             /\ layers # {} => Len(c) >= 1
<1>3. ASSUME NEW x, layers = {x} PROVE Lists(<<x>>)
  <2>1. Len(<<x>>) = 1 /\ <<x>>[1] = x /\ Cardinality(layers) = 1
    BY <1>3, FS_Singleton
  <2> QED
    BY <1>3, <2>1
<1>4. ASSUME NEW x, NEW y, layers = {x, y}, Cardinality(layers) = 2 PROVE Lists(<<x, y>>)
  <2>1. Len(<<x, y>>) = 2 /\ <<x, y>>[1] = x /\ <<x, y>>[2] = y
    OBVIOUS
  <2> QED
    BY <1>4, <2>1
<1>5. ASSUME NEW x, NEW y, NEW z, layers = {x, y, z}, Cardinality(layers) = 3
      PROVE  Lists(<<x, y, z>>)
  <2>1. Len(<<x, y, z>>) = 3 /\ <<x, y, z>>[1] = x /\ <<x, y, z>>[2] = y /\ <<x, y, z>>[3] = z
    OBVIOUS
  <2> QED
    BY <1>5, <2>1
<1>6. Lists(Chain(layers))
  <2>1. CASE layers = {}
    <3>1. Chain(layers) = <<>> /\ Len(<<>>) = 0 /\ Cardinality(layers) = 0
      BY <1>2, <2>1, ChainValues
    <3> QED
      BY <2>1, <3>1
  <2>2. CASE layers \in {{"Asd"}, {"Dot2"}, {"MF"}}
    <3> HIDE DEF Lists
    <3> QED
      BY <1>3, <2>2, ChainValues
  <2>3. CASE layers \in {{"Asd", "Dot2"}, {"Asd", "MF"}, {"Dot2", "MF"}}
    <3> HIDE DEF Lists
    <3> QED
      BY <1>2, <1>4, <2>3, ChainValues, ZenonT(40)
  <2>4. CASE layers = {"Asd", "Dot2", "MF"}
    <3> HIDE DEF Lists
    <3> QED
      BY <1>2, <1>5, <2>4, ChainValues
  <2> HIDE DEF Lists
  <2> QED
    BY <2>1, <2>2, <2>3, <2>4, LayerSets
<1> QED
  BY <1>1, <1>6


-----------------------------------------------------------------------------
(* Answers: how many, with which status, and what is left allocated.       *)

(* A document in the making has no error code; what was encoded of it is   *)
(* gone when the answer is an error about it.                              *)
Making ==
  /\ stage # "idle" => stream = <<>> /\ r = TRUE /\ doc.code = "none"
  /\ stage \notin {"idle", "save", "template"} => doc.appended = <<>>
  /\ stage \notin {"idle", "save", "template", "layer"} => doc.inner = <<>>

(* The template never takes over anything of a message.                    *)
Blank == error_doc.inner = <<>> /\ error_doc.appended = <<>>

(* What is known of an answer, and of the status and the heap next to it.  *)
Closing(d) ==
  /\ d.code = "none" => heap = 0
  /\ d.code # "none" => d.bytes = Absent /\ d.inner = <<>> /\ d.appended = <<>>
  /\ r <=> d.code = "none" \/ ~file

Closed ==
  Done => IF Answered THEN Len(stream) = 1 /\ Closing(stream[1])
                      ELSE stream = <<>> /\ heap = 0 /\ (r <=> m.text # "unopened")

Clean == Making /\ Blank /\ Closed

LEMMA CleanInit == Init => Clean
BY DEF Init, Clean, Making, Blank, Closed, Done, Template

(* A step in the middle of a message.                                      *)
LEMMA Working ==
  ASSUME Clean, stage # "idle", stage' # "idle", UNCHANGED <<stream, r, error_doc>>,
         doc'.code = doc.code,
         stage' \notin {"save", "template"} => doc'.appended = doc.appended,
         stage' \notin {"save", "template", "layer"} => doc'.inner = doc.inner \/ doc'.inner = <<>>,
         stage' \notin {"save", "template"} => stage \notin {"save", "template"},
         stage' \notin {"save", "template", "layer"} /\ stage = "layer" => doc'.inner = <<>>
  PROVE  Clean'
BY DEF Clean, Making, Blank, Closed, Done

LEMMA ParseClean ==
  ASSUME Clean, NEW msg \in Messages, Parse(msg)
  PROVE  Clean'
<1>1. /\ doc' = Loaded(msg) /\ stream' = <<>> /\ r' = TRUE
      /\ stage' \in {"requirements", "template"} /\ UNCHANGED error_doc
  BY DEF Parse
<1>2. Loaded(msg).code = "none" /\ Loaded(msg).appended = <<>> /\ Loaded(msg).inner = <<>>
  BY DEF Loaded
<1>3. Making' /\ Blank' /\ Closed'
  BY <1>1, <1>2 DEF Clean, Making, Blank, Closed, Done
<1> QED
  BY <1>3 DEF Clean

LEMMA TakingClean ==
  ASSUME Sound, Clean, Taking
  PROVE  Clean'
<1>1. CASE Receive
  <2>1. PICK msg \in (IF decode_functionality THEN ToDecode ELSE ToEncode) : Parse(msg)
    BY <1>1 DEF Receive
  <2> QED
    BY <2>1, ParseClean, MessageAssumption
<1>2. ASSUME NEW encode \in BOOLEAN, FileTest(encode) PROVE Clean'
  <2>1. PICK msg \in (IF encode THEN ToEncode ELSE ToDecode) : Parse(msg)
    BY <1>2 DEF FileTest
  <2> QED
    BY <2>1, ParseClean, MessageAssumption
<1>3. ASSUME NEW encode \in BOOLEAN, Undocumented(encode) PROVE Clean'
  <2>1. /\ m'.text \in Unanswered /\ file' /\ stage' = "idle" /\ stream' = <<>>
        /\ (r' <=> m'.text # "unopened") /\ heap' = 0 /\ UNCHANGED error_doc
    BY <1>3, UnreadFile
  <2>2. Making' /\ Blank' /\ Closed'
    BY <2>1 DEF Clean, Making, Blank, Closed, Answered
  <2> QED
    BY <2>2 DEF Clean
<1> QED
  BY <1>1, <1>2, <1>3 DEF Taking

LEMMA RequirementsClean ==
  Sound /\ Clean /\ (ResetRequirements \/ ReadEncoding \/ EndRequirements \/ SelectProtocol) => Clean'
<1> SUFFICES ASSUME Sound, Clean, ResetRequirements \/ ReadEncoding \/ EndRequirements \/ SelectProtocol
             PROVE  Clean'
  OBVIOUS
<1>1. /\ stage \in {"requirements", "entry", "encode"}
      /\ stage' \in {"entry", "template", "decode", "encode", "layer"}
      /\ UNCHANGED <<doc, error_doc, stream, r>>
  BY DEF ResetRequirements, ReadEncoding, EndRequirements, SelectProtocol, Goto, output
<1> QED
  BY <1>1, Working

LEMMA EncodeLayerClean == Sound /\ Clean /\ EncodeLayer => Clean'
<1> SUFFICES ASSUME Sound, Clean, EncodeLayer PROVE Clean'
  OBVIOUS
<1> DEFINE part == protocol[i]
<1>1. /\ stage = "layer" /\ part \in Parts /\ part.path # <<>>
      /\ \/ stage' = "template" /\ UNCHANGED doc
         \/ Present(doc, part.path) /\ stage' = "input" /\ doc' = Cut(part)
         \/ /\ Present(doc, part.path) /\ stage' = "layer"
            /\ doc' = [Cut(part) EXCEPT !.inner = IF part.replace THEN HexOf(part) ELSE <<>>]
      /\ UNCHANGED <<error_doc, stream, r>>
  BY EncodeLayerCases
<1> HIDE DEF part
<1>2. Present(doc, part.path) =>
        /\ Cut(part) \in Docs /\ Cut(part).inner = <<>> /\ Cut(part).appended = doc.appended
        /\ Cut(part).code = doc.code
  BY <1>1, CutTypes
<1>3. ASSUME NEW d \in Docs, NEW x
      PROVE  [d EXCEPT !.inner = x].code = d.code /\ [d EXCEPT !.inner = x].appended = d.appended
  BY DEF Docs
<1>4. CASE Present(doc, part.path) /\ stage' = "layer"
           /\ doc' = [Cut(part) EXCEPT !.inner = IF part.replace THEN HexOf(part) ELSE <<>>]
  <2>1. doc'.code = doc.code /\ doc'.appended = doc.appended
    BY <1>2, <1>3, <1>4
  <2> QED
    BY <1>1, <1>4, <2>1, Working
<1> QED
  BY <1>1, <1>2, <1>4, Working

LEMMA AppendHexClean == Sound /\ Clean /\ AppendHex => Clean'
<1> SUFFICES ASSUME Sound, Clean, AppendHex PROVE Clean'
  OBVIOUS
<1>1. /\ stage = "layer" /\ stage' \in {"save", "template"} /\ UNCHANGED <<error_doc, stream, r>>
      /\ doc' = [doc EXCEPT !.appended = hex_data,
                            !.dataType = IF m.hasDataType THEN "hex" ELSE @]
  BY DEF AppendHex, output
<1>2. doc'.code = doc.code
  BY <1>1 DEF Sound, Types, Written, Docs
<1> QED
  BY <1>1, <1>2, Working

LEMMA DecodeClean ==
  Sound /\ Clean /\ (TakeBytes \/ DecodeDot2 \/ TakeUnsecuredData \/ DecodeFrame \/ InsertXml) => Clean'
<1> SUFFICES ASSUME Sound, Clean,
                    TakeBytes \/ DecodeDot2 \/ TakeUnsecuredData \/ DecodeFrame \/ InsertXml
             PROVE  Clean'
  OBVIOUS
<1>1. /\ stage \in {"decode", "dot2", "unsecured", "frame", "insert"}
      /\ stage' \in {"template", "dot2", "unsecured", "frame", "insert", "save", "input"}
      /\ UNCHANGED <<error_doc, stream, r>>
      /\ \/ doc' = doc
         \/ doc' = [doc EXCEPT !.bytes = Absent]
         \/ doc' = [doc EXCEPT !.xml = TRUE, !.dataType = IF m.hasDataType THEN "xml" ELSE @]
  BY DEF TakeBytes, DecodeDot2, TakeUnsecuredData, DecodeFrame, InsertXml, output
<1>2. doc'.code = doc.code /\ doc'.appended = doc.appended /\ doc'.inner = doc.inner
  BY <1>1 DEF Sound, Types, Written, Docs
<1> QED
  BY <1>1, <1>2, Working

LEMMA SavingClean == Sound /\ Clean /\ Saving => Clean'
<1> SUFFICES ASSUME Sound, Clean, Saving PROVE Clean'
  OBVIOUS
<1>1. /\ stage \in {"save", "template", "input"} /\ stage' = "idle"
      /\ \/ /\ stage = "save" /\ stream' = Append(stream, doc)
            /\ UNCHANGED <<doc, error_doc, r>>
         \/ /\ stage = "template" /\ error_doc' = ErrorXml(error_doc, TRUE, "REQUEST")
            /\ stream' = Append(stream, error_doc') /\ doc' = doc /\ r' = ~file
         \/ /\ stage = "input" /\ doc' = ErrorXml(doc, m.hasDataType, "DATA")
            /\ stream' = Append(stream, doc') /\ error_doc' = error_doc /\ r' = ~file
      /\ handled' = handled + 1 /\ UNCHANGED <<file, m, heap>>
  BY SavingCases
<1>2. /\ doc \in Docs /\ error_doc \in Docs /\ m.hasDataType \in BOOLEAN /\ handled \in Nat
      /\ file \in BOOLEAN
  BY MessageTypes DEF Sound, Types, Written, Place, Modes
<1>3. /\ stream = <<>> /\ r = TRUE /\ doc.code = "none" /\ (file => m.text \notin Unanswered)
      /\ error_doc.inner = <<>> /\ error_doc.appended = <<>>
      /\ stage = "input" => doc.appended = <<>> /\ doc.inner = <<>>
      /\ stage = "save" => heap = 0
  BY <1>1 DEF Clean, Making, Blank, Sound, Room, Allocated
<1>4. /\ ErrorXml(error_doc, TRUE, "REQUEST").code = "REQUEST"
      /\ ErrorXml(error_doc, TRUE, "REQUEST").bytes = Absent
      /\ ErrorXml(error_doc, TRUE, "REQUEST").inner = <<>>
      /\ ErrorXml(error_doc, TRUE, "REQUEST").appended = <<>>
      /\ ErrorXml(doc, m.hasDataType, "DATA").code = "DATA"
      /\ ErrorXml(doc, m.hasDataType, "DATA").bytes = Absent
      /\ ErrorXml(doc, m.hasDataType, "DATA").inner = doc.inner
      /\ ErrorXml(doc, m.hasDataType, "DATA").appended = doc.appended
  BY <1>2, <1>3, ErrorDocuments, ZenonT(30)
<1>5. \A d : Len(Append(<<>>, d)) = 1 /\ Append(<<>>, d)[1] = d
  OBVIOUS
<1>6. Len(stream') = 1 /\ Closing(stream[1])'
  <2>1. CASE stage = "save"
    BY <1>1, <1>3, <1>5, <2>1 DEF Closing
  <2>2. CASE stage = "template"
    BY <1>1, <1>3, <1>4, <1>5, <2>2 DEF Closing
  <2>3. CASE stage = "input"
    BY <1>1, <1>3, <1>4, <1>5, <2>3 DEF Closing
  <2> QED
    BY <1>1, <2>1, <2>2, <2>3
<1>7. Answered'
  BY <1>1, <1>2, <1>3 DEF Answered, Done
<1>8. Making' /\ Blank' /\ Closed'
  <2>1. Blank'
    BY <1>1, <1>3, <1>4 DEF Blank
  <2> QED
    BY <1>1, <1>6, <1>7, <2>1 DEF Making, Closed
<1> QED
  BY <1>8 DEF Clean

LEMMA CleanStep == Sound /\ Clean /\ [Next]_vars => Clean'
<1> SUFFICES ASSUME Sound, Clean, [Next]_vars PROVE Clean'
  OBVIOUS
<1>1. CASE UNCHANGED vars
  BY <1>1 DEF vars, mode, registers, encoder, output, Clean, Making, Blank, Closed, Closing,
              Done, Answered
<1> QED
  BY <1>1, TakingClean, RequirementsClean, EncodeLayerClean, AppendHexClean, DecodeClean,
     SavingClean, NextTaking

LEMMA AlwaysClean == Spec => [](Sound /\ Clean)
BY SoundInit, SoundStep, CleanInit, CleanStep, PTL DEF Spec

(* No error document carries bytes, for every message.                     *)
THEOREM ErrorsClean == Spec => []ErrorsCarryNoBytes
<1>1. Sound /\ Clean => ErrorsCarryNoBytes
  <2> SUFFICES ASSUME Sound, Clean, Done, NEW k \in DOMAIN stream, stream[k].code # "none"
               PROVE  /\ stream[k].bytes = Absent /\ stream[k].inner = <<>>
                      /\ stream[k].appended = <<>>
    BY DEF ErrorsCarryNoBytes
  <2>1. stream \in Seq(Docs)
    BY DEF Sound, Types, Written
  <2>2. Len(stream) = 1 /\ Closing(stream[1])
    BY <2>1 DEF Clean, Closed
  <2>3. k = 1
    BY <2>1, <2>2
  <2> QED
    BY <2>2, <2>3 DEF Closing
<1> QED
  BY <1>1, AlwaysClean, PTL

(* Only an answer with an error leaves a block allocated, and just one.    *)
THEOREM LeaksBounded == Spec => []LeaksAtMostOneBlock
<1>1. Sound /\ Clean => LeaksAtMostOneBlock
  BY DEF LeaksAtMostOneBlock, Sound, Allocated, Clean, Closed, Closing
<1> QED
  BY <1>1, AlwaysClean, PTL

(* The exit status tells whether the file was opened and the answer is no  *)
(* error.                                                                  *)
THEOREM StatusCorrect == Spec => []StatusTellsAnswer
<1>1. Sound /\ Clean => StatusTellsAnswer
  <2> SUFFICES ASSUME Sound, Clean, Done, file
               PROVE  r <=> m.text # "unopened"
                              /\ \A k \in DOMAIN stream : stream[k].code = "none"
    BY DEF StatusTellsAnswer
  <2>1. stream \in Seq(Docs) /\ r \in BOOLEAN
    BY DEF Sound, Types, Written
  <2>2. CASE Answered
    <3>1. Len(stream) = 1 /\ Closing(stream[1])
      BY <2>2 DEF Clean, Closed
    <3>2. DOMAIN stream = {1}
      BY <2>1, <3>1
    <3>3. m.text # "unopened"
      BY <2>2 DEF Answered, Unanswered
    <3> QED
      BY <3>1, <3>2, <3>3 DEF Closing
  <2>3. CASE ~Answered
    <3>1. stream = <<>> /\ (r <=> m.text # "unopened")
      BY <2>3 DEF Clean, Closed
    <3> QED
      BY <3>1
  <2> QED
    BY <2>2, <2>3
<1> QED
  BY <1>1, AlwaysClean, PTL


-----------------------------------------------------------------------------
(* The reference answer, one message at a time. *)

Coded(l) == [layer |-> l, rule |-> RuleOf(l)]

(* The reference looks at the message and the mode only.                   *)
LEMMA SameReference ==
  ASSUME m' = m, decode_functionality' = decode_functionality
  PROVE  /\ \A k : RuleAt(k)' = RuleAt(k)
         /\ Asked' = Asked /\ Understood' = Understood
         /\ \A l : RuleOf(l)' = RuleOf(l) /\ Coded(l)' = Coded(l)
         /\ Expected' = Expected
<1>1. \A k : RuleAt(k)' = RuleAt(k)
  BY DEF RuleAt
<1>2. Entries' = Entries /\ Asked' = Asked
  BY DEF Asked, Entries
<1>3. Understood' = Understood
  BY <1>1, <1>2 DEF Understood
<1>4. \A l : RuleOf(l)' = RuleOf(l)
  BY DEF RuleOf, RuleAt, Entries
<1>5. \A l : Coded(l)' = Coded(l)
  BY <1>4 DEF Coded
<1>6. Expected' = Expected
  BY DEF Expected, ExpectedEncoded, ExpectedDecoded, Understood, RuleAt, Asked, Entries, Nest,
         RuleOf, DataError
<1> QED
  BY <1>1, <1>2, <1>3, <1>4, <1>5, <1>6

(* The rule that the entries of a set give, and that of an entry from the  *)
(* entry before.                                                           *)
RuleOver(S) ==
  IF S = {} THEN INVALID
  ELSE TransferSyntax(m.encodings[CHOOSE j \in S : \A l \in S : l <= j].rule)

LEMMA RuleSteps ==
  ASSUME m \in Messages
  PROVE  /\ RuleAt(0) = INVALID
         /\ \A k \in 1..Len(m.encodings) :
              RuleAt(k) = IF m.encodings[k].rule = "none" THEN RuleAt(k - 1)
                          ELSE TransferSyntax(m.encodings[k].rule)
<1> DEFINE ruled(k) == {j \in 1..k : m.encodings[j].rule # "none"}
<1>1. RuleAt(0) = INVALID
  BY DEF RuleAt
<1>2. ASSUME NEW k \in 1..Len(m.encodings)
      PROVE  RuleAt(k) = IF m.encodings[k].rule = "none" THEN RuleAt(k - 1)
                         ELSE TransferSyntax(m.encodings[k].rule)
  <2>0. Len(m.encodings) \in Nat /\ k \in Nat /\ k >= 1 /\ k - 1 \in Nat
    BY MessageTypes
  <2>1. CASE m.encodings[k].rule = "none"
    <3>1. \A j : j \in 1..k <=> j \in 1..k - 1 \/ j = k
      BY <2>0
    <3>2. ruled(k) = ruled(k - 1)
      BY <2>1, <3>1
    <3>3. RuleAt(k) = RuleOver(ruled(k)) /\ RuleAt(k - 1) = RuleOver(ruled(k - 1))
      BY DEF RuleAt, RuleOver
    <3>4. RuleAt(k) = RuleAt(k - 1)
      <4> HIDE DEF ruled
      <4> QED
        BY <3>2, <3>3
    <3> QED
      BY <2>1, <3>4
  <2>2. CASE m.encodings[k].rule # "none"
    <3>1. k \in ruled(k) /\ \A l \in ruled(k) : l <= k
      BY <2>0, <2>2
    <3>2. \A j \in ruled(k) : (\A l \in ruled(k) : l <= j) => j = k
      BY <2>0, <3>1
    <3>3. (CHOOSE j \in ruled(k) : \A l \in ruled(k) : l <= j) = k
      <4> HIDE DEF ruled
      <4> QED
        BY <3>1, <3>2
    <3> QED
      BY <2>2, <3>1, <3>3 DEF RuleAt
  <2> QED
    BY <2>1, <2>2
<1> QED
  BY <1>1, <1>2

(* Asked and RuleOf(), once the last entry of each layer is known.         *)
LastOf(l, k, n) ==
  m.encodings[k].type = l /\ \A j \in 1..n : m.encodings[j].type = l => j <= k

LEMMA RuleOfLast ==
  ASSUME m \in Messages, NEW l, NEW k \in 1..Len(m.encodings), LastOf(l, k, Len(m.encodings))
  PROVE  RuleOf(l) = RuleAt(k)
<1> DEFINE last(j) == m.encodings[j].type = l /\ \A e \in Entries : m.encodings[e].type = l => e <= j
<1>1. Entries = 1..Len(m.encodings) /\ Len(m.encodings) \in Nat
  BY MessageTypes DEF Entries
<1>2. k \in Entries /\ last(k) /\ \A j \in Entries : last(j) => j = k
  BY <1>1 DEF LastOf
<1>3. (CHOOSE j \in Entries : last(j)) = k
  <2> HIDE DEF last
  <2> QED
    BY <1>2
<1>4. RuleOf(l) = RuleAt(CHOOSE j \in Entries : last(j))
  BY DEF RuleOf
<1> QED
  BY <1>3, <1>4

(* Two documents with the same fields are the same.                        *)
Record(tree, inner, bytes, xml, appended, dataType, code) ==
  [tree |-> tree, inner |-> inner, bytes |-> bytes, xml |-> xml, appended |-> appended,
   dataType |-> dataType, code |-> code]

LEMMA RecordOf ==
  ASSUME NEW d \in Docs
  PROVE  d = Record(d.tree, d.inner, d.bytes, d.xml, d.appended, d.dataType, d.code)
BY DEF Docs, Record

(* Whether the decoded text was inserted, as names the provers keep.       *)
Undecoded == FALSE
Decoded   == TRUE

LEMMA Records ==
  ASSUME NEW tree, NEW inner, NEW bytes, NEW xml, NEW appended, NEW dataType, NEW code
  PROVE  LET d == Record(tree, inner, bytes, xml, appended, dataType, code) IN
         /\ d.tree = tree /\ d.inner = inner /\ d.bytes = bytes /\ d.xml = xml
         /\ d.appended = appended /\ d.dataType = dataType /\ d.code = code
BY DEF Record

LEMMA Changes ==
  ASSUME NEW tree, NEW inner, NEW bytes, NEW xml, NEW appended, NEW dataType, NEW code, NEW t
  PROVE  LET d == Record(tree, inner, bytes, xml, appended, dataType, code) IN
         /\ [d EXCEPT !.tree = t] = Record(t, inner, bytes, xml, appended, dataType, code)
         /\ [d EXCEPT !.inner = t] = Record(tree, t, bytes, xml, appended, dataType, code)
         /\ [d EXCEPT !.bytes = t] = Record(tree, inner, t, xml, appended, dataType, code)
         /\ [d EXCEPT !.xml = t] = Record(tree, inner, bytes, t, appended, dataType, code)
         /\ [d EXCEPT !.appended = t] = Record(tree, inner, bytes, xml, t, dataType, code)
         /\ [d EXCEPT !.dataType = t] = Record(tree, inner, bytes, xml, appended, t, code)
         /\ [d EXCEPT !.code = t] = Record(tree, inner, bytes, xml, appended, dataType, t)
<1>1. [Record(tree, inner, bytes, xml, appended, dataType, code) EXCEPT !.tree = t] =
        Record(t, inner, bytes, xml, appended, dataType, code)
  BY DEF Record
<1>2. [Record(tree, inner, bytes, xml, appended, dataType, code) EXCEPT !.inner = t] =
        Record(tree, t, bytes, xml, appended, dataType, code)
  BY DEF Record
<1>3. [Record(tree, inner, bytes, xml, appended, dataType, code) EXCEPT !.bytes = t] =
        Record(tree, inner, t, xml, appended, dataType, code)
  BY DEF Record
<1>4. [Record(tree, inner, bytes, xml, appended, dataType, code) EXCEPT !.xml = t] =
        Record(tree, inner, bytes, t, appended, dataType, code)
  BY DEF Record
<1>5. [Record(tree, inner, bytes, xml, appended, dataType, code) EXCEPT !.appended = t] =
        Record(tree, inner, bytes, xml, t, dataType, code)
  BY DEF Record
<1>6. [Record(tree, inner, bytes, xml, appended, dataType, code) EXCEPT !.dataType = t] =
        Record(tree, inner, bytes, xml, appended, t, code)
  BY DEF Record
<1>7. [Record(tree, inner, bytes, xml, appended, dataType, code) EXCEPT !.code = t] =
        Record(tree, inner, bytes, xml, appended, dataType, t)
  BY DEF Record
<1> QED
  BY <1>1, <1>2, <1>3, <1>4, <1>5, <1>6, <1>7

LEMMA ErrorRecord ==
  ASSUME NEW tree, NEW inner, NEW bytes, NEW xml, NEW appended, NEW dataType, NEW code,
         NEW h, NEW e
  PROVE  ErrorXml(Record(tree, inner, bytes, xml, appended, dataType, code), h, e) =
           Record(tree, inner, Absent, xml, appended, IF h THEN "ode" ELSE dataType, e)
<1> DEFINE d == Record(tree, inner, bytes, xml, appended, dataType, code)
           type == IF h THEN "ode" ELSE dataType
           a == [d EXCEPT !.bytes = Absent]
           b == [a EXCEPT !.dataType = type]
<1>1. a = Record(tree, inner, Absent, xml, appended, dataType, code)
  BY DEF Record
<1>2. type = IF h THEN "ode" ELSE a.dataType
  BY <1>1 DEF Record
<1>3. ErrorXml(d, h, e) = [b EXCEPT !.code = e]
  BY <1>2 DEF ErrorXml
<1> HIDE DEF a, type
<1>4. b = Record(tree, inner, Absent, xml, appended, type, code)
  BY <1>1 DEF Record
<1> HIDE DEF b
<1>5. [b EXCEPT !.code = e] = Record(tree, inner, Absent, xml, appended, type, e)
  BY <1>4 DEF Record
<1> QED
  BY <1>3, <1>5 DEF type

LEMMA LoadedRecord ==
  ASSUME NEW msg
  PROVE  Loaded(msg) = Record(msg.tree, <<>>, msg.bytes, Undecoded, <<>>, "unchanged", "none")
BY DEF Loaded, Record, Undecoded

LEMMA RequestErrorRecord ==
  /\ Template = Record(<<>>, <<>>, Absent, Undecoded, <<>>, "unchanged", "none")
  /\ RequestError = Record(<<>>, <<>>, Absent, Undecoded, <<>>, "ode", "REQUEST")
  /\ ErrorXml(Template, TRUE, "REQUEST") = RequestError
  /\ ErrorXml(RequestError, TRUE, "REQUEST") = RequestError
<1>1. Template = Record(<<>>, <<>>, Absent, Undecoded, <<>>, "unchanged", "none")
  BY DEF Template, Record, Undecoded
<1>2. ErrorXml(Template, TRUE, "REQUEST") = RequestError
  BY DEF RequestError
<1>3. \A type, code :
        ErrorXml(Record(<<>>, <<>>, Absent, Undecoded, <<>>, type, code), TRUE, "REQUEST") =
          Record(<<>>, <<>>, Absent, Undecoded, <<>>, "ode", "REQUEST")
  <2>1. ASSUME NEW type, NEW code, NEW h, h = TRUE
        PROVE  ErrorXml(Record(<<>>, <<>>, Absent, Undecoded, <<>>, type, code), h, "REQUEST") =
                 Record(<<>>, <<>>, Absent, Undecoded, <<>>, "ode", "REQUEST")
    <3>1. ErrorXml(Record(<<>>, <<>>, Absent, Undecoded, <<>>, type, code), h, "REQUEST") =
            Record(<<>>, <<>>, Absent, Undecoded, <<>>, IF h THEN "ode" ELSE type, "REQUEST")
      BY ErrorRecord
    <3>2. (IF h THEN "ode" ELSE type) = "ode"
      BY <2>1
    <3> QED
      BY <3>1, <3>2
  <2> QED
    BY <2>1
<1>4. RequestError = Record(<<>>, <<>>, Absent, Undecoded, <<>>, "ode", "REQUEST")
  BY <1>1, <1>2, <1>3
<1>5. ErrorXml(RequestError, TRUE, "REQUEST") = RequestError
  BY <1>3, <1>4
<1> QED
  BY <1>1, <1>2, <1>4, <1>5

LEMMA UnnamedRecord ==
  /\ Unnamed(RequestError) = RequestError
  /\ \A d \in Docs : d.appended = <<>> => Unnamed(d) = d
<1>1. [k \in DOMAIN <<>> |-> <<>>[k].hex] = <<>>
  OBVIOUS
<1>2. ASSUME NEW d \in Docs, d.appended = <<>> PROVE Unnamed(d) = d
  <2>1. Unnamed(d) = [d EXCEPT !.appended = <<>>]
    BY <1>1, <1>2 DEF Unnamed
  <2>2. [d EXCEPT !.appended = <<>>] = d
    BY <1>2 DEF Docs
  <2> QED
    BY <2>1, <2>2
<1>3. RequestError \in Docs /\ RequestError.appended = <<>>
  BY Documents, ErrorDocuments, RequestErrorRecord DEF Template, RequestError
<1> QED
  BY <1>2, <1>3


-----------------------------------------------------------------------------
(* The cases of the reference. *)

LEMMA DataErrorRecord ==
  ASSUME NEW tree
  PROVE  DataError(tree) =
           Record(tree, <<>>, Absent, Undecoded, <<>>,
                  IF m.hasDataType THEN "ode" ELSE "unchanged", "DATA")
<1> DEFINE d == Record(tree, <<>>, m.bytes, Undecoded, <<>>, "unchanged", "none")
<1>1. [Loaded(m) EXCEPT !.tree = tree] = d
  <2> DEFINE x == Loaded(m)
  <2>1. x = Record(m.tree, <<>>, m.bytes, Undecoded, <<>>, "unchanged", "none")
    BY LoadedRecord
  <2> HIDE DEF x
  <2>2. [x EXCEPT !.tree = tree] = d
    BY <2>1 DEF Record
  <2> QED
    BY <2>2 DEF x
<1>2. DataError(tree) = ErrorXml(d, m.hasDataType, "DATA")
  BY <1>1 DEF DataError
<1>3. ErrorXml(d, m.hasDataType, "DATA") =
        Record(tree, <<>>, Absent, Undecoded, <<>>,
               IF m.hasDataType THEN "ode" ELSE "unchanged", "DATA")
  BY ErrorRecord
<1> QED
  BY <1>2, <1>3

HexOfAll == [k \in 1..Len(Chain(Asked)) |->
               SubSeq(Nest(Asked), Len(Chain(Asked)) + 1 - k, Len(Chain(Asked)))]

LEMMA EncodedCases ==
  ASSUME m \in Messages
  PROVE  LET c == Chain(Asked) IN
         /\ ~Present(Loaded(m), c) => ExpectedEncoded = RequestError
         /\ \A at \in 1..Len(c) :
              Present(Loaded(m), c) /\ c[at] \in m.rejected
                /\ (\A j \in at + 1..Len(c) : c[j] \notin m.rejected) =>
              ExpectedEncoded = DataError(SubSeq(c, 1, at - 1))
         /\ Present(Loaded(m), c) /\ (\A j \in 1..Len(c) : c[j] \notin m.rejected) =>
              /\ ~m.hasDataType => ExpectedEncoded = RequestError
              /\ m.hasDataType => ExpectedEncoded =
                   Record(<<>>, <<>>, m.bytes, Undecoded, HexOfAll, "hex", "none")
<1> DEFINE c    == Chain(Asked)
           bad  == {k \in DOMAIN c : c[k] \in m.rejected}
           most == CHOOSE k \in bad : \A l \in bad : l <= k
           doc1 == [Loaded(m) EXCEPT !.tree = <<>>, !.appended = HexOfAll, !.dataType = "hex"]
<1>1. c \in Seq(Layers) /\ Len(c) \in Nat /\ DOMAIN c = 1..Len(c)
  BY ChainType
<1>2. ExpectedEncoded =
        CASE ~Present(Loaded(m), c) -> RequestError
          [] Present(Loaded(m), c) /\ bad # {} -> DataError(SubSeq(c, 1, most - 1))
          [] OTHER -> IF ~m.hasDataType THEN RequestError ELSE doc1
  BY DEF ExpectedEncoded, HexOfAll
<1>3. ASSUME NEW at \in 1..Len(c), c[at] \in m.rejected,
             \A j \in at + 1..Len(c) : c[j] \notin m.rejected
      PROVE  bad # {} /\ most = at
  <2>1. at \in bad /\ \A l \in bad : l <= at
    BY <1>1, <1>3
  <2>2. \A k \in bad : (\A l \in bad : l <= k) => k = at
    BY <1>1, <2>1
  <2> HIDE DEF bad
  <2> QED
    BY <2>1, <2>2
<1>4. doc1 = Record(<<>>, <<>>, m.bytes, Undecoded, HexOfAll, "hex", "none")
  <2> DEFINE x == Loaded(m)
             a == [x EXCEPT !.tree = <<>>]
             b == [a EXCEPT !.appended = HexOfAll]
  <2>1. x = Record(m.tree, <<>>, m.bytes, Undecoded, <<>>, "unchanged", "none")
    BY LoadedRecord
  <2>2. doc1 = [b EXCEPT !.dataType = "hex"]
    OBVIOUS
  <2> HIDE DEF x, doc1
  <2>3. a = Record(<<>>, <<>>, m.bytes, Undecoded, <<>>, "unchanged", "none")
    BY <2>1 DEF Record
  <2> HIDE DEF a
  <2>4. b = Record(<<>>, <<>>, m.bytes, Undecoded, HexOfAll, "unchanged", "none")
    BY <2>3 DEF Record
  <2> HIDE DEF b
  <2>5. [b EXCEPT !.dataType = "hex"] = Record(<<>>, <<>>, m.bytes, Undecoded, HexOfAll, "hex", "none")
    BY <2>4 DEF Record
  <2> QED
    BY <2>2, <2>5
<1> HIDE DEF most, doc1
<1>5. ~Present(Loaded(m), c) => ExpectedEncoded = RequestError
  BY <1>2
<1>6. Present(Loaded(m), c) /\ bad # {} => ExpectedEncoded = DataError(SubSeq(c, 1, most - 1))
  BY <1>2
<1>7. Present(Loaded(m), c) /\ bad = {} =>
        /\ ~m.hasDataType => ExpectedEncoded = RequestError
        /\ m.hasDataType => ExpectedEncoded = doc1
  BY <1>2
<1>8. (\A j \in 1..Len(c) : c[j] \notin m.rejected) => bad = {}
  BY <1>1
<1> HIDE DEF bad, c
<1>9. /\ ~Present(Loaded(m), c) => ExpectedEncoded = RequestError
      /\ \A at \in 1..Len(c) :
           Present(Loaded(m), c) /\ c[at] \in m.rejected
             /\ (\A j \in at + 1..Len(c) : c[j] \notin m.rejected) =>
           ExpectedEncoded = DataError(SubSeq(c, 1, at - 1))
      /\ Present(Loaded(m), c) /\ (\A j \in 1..Len(c) : c[j] \notin m.rejected) =>
           /\ ~m.hasDataType => ExpectedEncoded = RequestError
           /\ m.hasDataType => ExpectedEncoded =
                Record(<<>>, <<>>, m.bytes, Undecoded, HexOfAll, "hex", "none")
  BY <1>3, <1>4, <1>5, <1>6, <1>7, <1>8
<1> QED
  BY <1>9 DEF c

(* The bytes hold the layers asked for, as decode_message() reads them.    *)
Rest == IF "Dot2" \in Asked THEN Tail(m.bytes.hex) ELSE m.bytes.hex
Outer == m.bytes.hex # <<>> /\ m.bytes.hex[1] = Coded("Dot2")
Valid ==
  /\ m.bytes.form = "hex"
  /\ "Dot2" \in Asked => Outer /\ Len(m.bytes.hex) > 1
  /\ "MF" \in Asked => Rest # <<>> /\ Rest[1] = Coded("MF")

LEMMA Beginning ==
  ASSUME NEW S, NEW h \in Seq(S), NEW n \in Nat, NEW f, f = [k \in 1..n |-> f[k]], n <= Len(h)
  PROVE  SubSeq(h, 1, n) = f <=> \A k \in 1..n : h[k] = f[k]
<1>1. SubSeq(h, 1, n) = [k \in 1..n |-> h[k]]
  OBVIOUS
<1> QED
  BY <1>1

LEMMA NestElements ==
  ASSUME NEW layers
  PROVE  /\ Nest(layers) = [k \in 1..Len(Chain(layers)) |-> Coded(Chain(layers)[k])]
         /\ Len(Nest(layers)) = Len(Chain(layers))
         /\ \A k \in 1..Len(Chain(layers)) : Nest(layers)[k] = Coded(Chain(layers)[k])
         /\ Nest(layers) = [k \in 1..Len(Chain(layers)) |-> Nest(layers)[k]]
<1>1. Nest(layers) = [k \in 1..Len(Chain(layers)) |-> Coded(Chain(layers)[k])]
  BY DEF Nest, Coded
<1>2. Len(Chain(layers)) \in Nat
  BY ChainType
<1> QED
  BY <1>1, <1>2

LEMMA ValidBytes ==
  ASSUME m \in Messages, Asked \cap {"Dot2", "MF"} # {}
  PROVE  LET layers == Asked \cap {"Dot2", "MF"}
             nest   == Nest(layers)
         IN Valid <=> /\ m.bytes.form = "hex"
                      /\ Len(m.bytes.hex) >= Len(nest)
                      /\ SubSeq(m.bytes.hex, 1, Len(nest)) = nest
                      /\ layers = {"Dot2"} => Len(m.bytes.hex) > 1
<1> DEFINE layers == Asked \cap {"Dot2", "MF"}
           nest   == Nest(layers)
           h      == m.bytes.hex
<1>1. h \in Seq([layer : Layers, rule : Rules]) /\ Len(h) \in Nat
  <2>1. m.bytes.hex \in Hexes
    BY MessageTypes
  <2> QED
    BY <2>1 DEF Hexes
<1>2. /\ Len(nest) = Len(Chain(layers))
      /\ \A k \in 1..Len(Chain(layers)) : nest[k] = Coded(Chain(layers)[k])
      /\ nest = [k \in 1..Len(Chain(layers)) |-> nest[k]]
  BY NestElements
<1> DEFINE fits == /\ m.bytes.form = "hex"
                   /\ Len(m.bytes.hex) >= Len(nest)
                   /\ SubSeq(m.bytes.hex, 1, Len(nest)) = nest
                   /\ layers = {"Dot2"} => Len(m.bytes.hex) > 1
<1>0. SUFFICES Valid <=> fits
  OBVIOUS
<1> HIDE DEF nest
<1>3. CASE layers = {"Dot2"}
  <2>1. Chain(layers) = <<"Dot2">> /\ Len(<<"Dot2">>) = 1 /\ <<"Dot2">>[1] = "Dot2"
    BY <1>3, ChainValues
  <2>2. Len(nest) = 1 /\ nest = [k \in 1..1 |-> nest[k]] /\ nest[1] = Coded("Dot2")
    BY <1>2, <2>1, SMTT(30)
  <2>3. "Dot2" \in Asked /\ "MF" \notin Asked
    BY <1>3
  <2> HIDE DEF layers
  <2>4. Len(h) >= 1 => (SubSeq(h, 1, 1) = nest <=> h[1] = Coded("Dot2"))
    BY <1>1, <2>2, Beginning
  <2>5. Outer <=> Len(h) >= 1 /\ h[1] = Coded("Dot2")
    BY <1>1 DEF Outer
  <2>6. Valid <=> m.bytes.form = "hex" /\ Outer /\ Len(h) > 1
    BY <2>3 DEF Valid
  <2>7. fits <=> m.bytes.form = "hex" /\ Len(h) >= 1 /\ h[1] = Coded("Dot2") /\ Len(h) > 1
    BY <1>3, <2>2, <2>4
  <2> QED
    BY <2>5, <2>6, <2>7
<1>4. CASE layers = {"MF"}
  <2>1. Chain(layers) = <<"MF">> /\ Len(<<"MF">>) = 1 /\ <<"MF">>[1] = "MF"
    BY <1>4, ChainValues
  <2>3. "Dot2" \notin Asked /\ "MF" \in Asked /\ layers # {"Dot2"}
    BY <1>4
  <2> HIDE DEF layers, fits
  <2>2. Len(nest) = 1 /\ nest = [k \in 1..1 |-> nest[k]] /\ nest[1] = Coded("MF")
    <3>1. Len(Chain(layers)) = 1 /\ Chain(layers)[1] = "MF" /\ 1 \in 1..1
      BY <2>1
    <3>2. Len(nest) = 1 /\ nest[1] = Coded(Chain(layers)[1])
      BY <1>2, <3>1
    <3>3. nest = [k \in 1..1 |-> nest[k]]
      BY <1>2, <3>1
    <3> QED
      BY <3>1, <3>2, <3>3
  <2> USE DEF fits
  <2>4. Len(h) >= 1 => (SubSeq(h, 1, 1) = nest <=> h[1] = Coded("MF"))
    BY <1>1, <2>2, Beginning
  <2>5. Rest = h /\ (h # <<>> <=> Len(h) >= 1)
    BY <1>1, <2>3 DEF Rest
  <2>6. Valid <=> m.bytes.form = "hex" /\ Rest # <<>> /\ Rest[1] = Coded("MF")
    BY <2>3 DEF Valid
  <2>7. fits <=> m.bytes.form = "hex" /\ Len(h) >= 1 /\ h[1] = Coded("MF")
    BY <2>2, <2>3, <2>4
  <2> QED
    BY <2>5, <2>6, <2>7
<1>5. CASE layers = {"Dot2", "MF"}
  <2>1. /\ Chain(layers) = <<"Dot2", "MF">> /\ Len(<<"Dot2", "MF">>) = 2
        /\ <<"Dot2", "MF">>[1] = "Dot2" /\ <<"Dot2", "MF">>[2] = "MF"
    BY <1>5, ChainValues
  <2>3. "Dot2" \in Asked /\ "MF" \in Asked /\ layers # {"Dot2"}
    BY <1>5
  <2> HIDE DEF layers, fits
  <2>2. /\ Len(nest) = 2 /\ nest = [k \in 1..2 |-> nest[k]]
        /\ nest[1] = Coded("Dot2") /\ nest[2] = Coded("MF")
    <3>1. /\ Len(Chain(layers)) = 2 /\ Chain(layers)[1] = "Dot2" /\ Chain(layers)[2] = "MF"
          /\ 1 \in 1..2 /\ 2 \in 1..2
      BY <2>1
    <3>2. Len(nest) = 2 /\ nest[1] = Coded(Chain(layers)[1]) /\ nest[2] = Coded(Chain(layers)[2])
      BY <1>2, <3>1
    <3>3. nest = [k \in 1..2 |-> nest[k]]
      BY <1>2, <3>1
    <3> QED
      BY <3>1, <3>2, <3>3
  <2> USE DEF fits
  <2>4. Len(h) >= 2 => (SubSeq(h, 1, 2) = nest <=> \A k \in 1..2 : h[k] = nest[k])
    BY <1>1, <2>2, Beginning
  <2>5. Len(h) >= 2 => (SubSeq(h, 1, 2) = nest <=> h[1] = Coded("Dot2") /\ h[2] = Coded("MF"))
    BY <2>2, <2>4
  <2>6. Outer <=> Len(h) >= 1 /\ h[1] = Coded("Dot2")
    BY <1>1 DEF Outer
  <2>7. Len(h) >= 1 => Len(Tail(h)) = Len(h) - 1 /\ (Len(h) >= 2 => Tail(h)[1] = h[2])
    BY <1>1
  <2>8. Len(h) >= 2 => Rest # <<>> /\ Rest[1] = h[2]
    BY <1>1, <2>3, <2>7 DEF Rest
  <2>9. Valid <=> m.bytes.form = "hex" /\ Outer /\ Len(h) > 1 /\ Rest # <<>> /\ Rest[1] = Coded("MF")
    BY <2>3 DEF Valid
  <2>10. fits <=> m.bytes.form = "hex" /\ Len(h) >= 2 /\ h[1] = Coded("Dot2") /\ h[2] = Coded("MF")
    BY <2>2, <2>3, <2>5
  <2>11. Len(h) >= 2 <=> Len(h) > 1 /\ Len(h) >= 1
    BY <1>1
  <2> QED
    BY <2>6, <2>8, <2>9, <2>10, <2>11
<1>6. layers \in {{"Dot2"}, {"MF"}, {"Dot2", "MF"}}
  OBVIOUS
<1> QED
  BY <1>3, <1>4, <1>5, <1>6

LEMMA DecodedCases ==
  ASSUME m \in Messages
  PROVE  /\ Asked \cap {"Dot2", "MF"} = {} \/ m.bytes.form = "absent" => ExpectedDecoded = RequestError
         /\ Asked \cap {"Dot2", "MF"} # {} /\ m.bytes.form # "absent" =>
              /\ ~Valid => ExpectedDecoded = DataError(m.tree)
              /\ Valid /\ "MF" \in Asked /\ ~m.hasDataType => ExpectedDecoded = RequestError
              /\ Valid /\ "MF" \in Asked /\ m.hasDataType =>
                   ExpectedDecoded = Record(m.tree, <<>>, Absent, Decoded, <<>>, "xml", "none")
              /\ Valid /\ "MF" \notin Asked =>
                   ExpectedDecoded = Record(m.tree, <<>>, Absent, Undecoded, <<>>, "unchanged", "none")
<1> DEFINE layers == Asked \cap {"Dot2", "MF"}
           nest   == Nest(layers)
           valid  == /\ m.bytes.form = "hex"
                     /\ Len(m.bytes.hex) >= Len(nest)
                     /\ SubSeq(m.bytes.hex, 1, Len(nest)) = nest
                     /\ layers = {"Dot2"} => Len(m.bytes.hex) > 1
           framed == "MF" \in layers
           whole(x) == [Loaded(m) EXCEPT !.bytes = Absent, !.xml = x,
                                         !.dataType = IF x THEN "xml" ELSE @]
<1>1. ExpectedDecoded =
        CASE layers = {} \/ m.bytes.form = "absent" -> RequestError
          [] layers # {} /\ m.bytes.form # "absent" /\ ~valid -> DataError(m.tree)
          [] OTHER -> IF framed /\ ~m.hasDataType THEN RequestError ELSE whole(framed)
  BY DEF ExpectedDecoded
<1>2. ASSUME NEW x \in BOOLEAN
      PROVE  whole(x) = Record(m.tree, <<>>, Absent, x, <<>>, IF x THEN "xml" ELSE "unchanged", "none")
  <2> DEFINE a == [Loaded(m) EXCEPT !.bytes = Absent]
             b == [a EXCEPT !.xml = x]
             type == IF x THEN "xml" ELSE "unchanged"
  <2>1. a = Record(m.tree, <<>>, Absent, Undecoded, <<>>, "unchanged", "none")
    <3> DEFINE y == Loaded(m)
    <3>1. y = Record(m.tree, <<>>, m.bytes, Undecoded, <<>>, "unchanged", "none")
      BY LoadedRecord
    <3> HIDE DEF y
    <3>2. [y EXCEPT !.bytes = Absent] =
            Record(m.tree, <<>>, Absent, Undecoded, <<>>, "unchanged", "none")
      BY <3>1 DEF Record
    <3> QED
      BY <3>2 DEF y
  <2>2. b = Record(m.tree, <<>>, Absent, x, <<>>, "unchanged", "none")
    <3> HIDE DEF a
    <3> QED
      BY <2>1 DEF Record
  <2>3. whole(x) = [b EXCEPT !.dataType = IF x THEN "xml" ELSE b.dataType]
    OBVIOUS
  <2>4. b.dataType = "unchanged"
    <3> HIDE DEF b
    <3> QED
      BY <2>2 DEF Record
  <2>5. whole(x) = [b EXCEPT !.dataType = type]
    <3> HIDE DEF b, whole
    <3> QED
      BY <2>3, <2>4
  <2> HIDE DEF b, type, whole
  <2>6. [b EXCEPT !.dataType = type] = Record(m.tree, <<>>, Absent, x, <<>>, type, "none")
    BY <2>2 DEF Record
  <2> QED
    BY <2>5, <2>6 DEF type
<1>3. framed \in BOOLEAN /\ (framed <=> "MF" \in Asked)
  OBVIOUS
<1>4. layers # {} => (Valid <=> valid)
  BY ValidBytes
<1> HIDE DEF whole, framed, valid, nest
<1>5. layers = {} \/ m.bytes.form = "absent" => ExpectedDecoded = RequestError
  BY <1>1
<1>6. layers # {} /\ m.bytes.form # "absent" /\ ~valid => ExpectedDecoded = DataError(m.tree)
  BY <1>1
<1>7. layers # {} /\ m.bytes.form # "absent" /\ valid =>
        ExpectedDecoded = IF framed /\ ~m.hasDataType THEN RequestError ELSE whole(framed)
  BY <1>1
<1>8. /\ framed => whole(framed) = Record(m.tree, <<>>, Absent, Decoded, <<>>, "xml", "none")
      /\ ~framed => whole(framed) = Record(m.tree, <<>>, Absent, Undecoded, <<>>, "unchanged", "none")
  <2>1. whole(framed) =
          Record(m.tree, <<>>, Absent, framed, <<>>, IF framed THEN "xml" ELSE "unchanged", "none")
    BY <1>2, <1>3
  <2>2. CASE framed
    <3>1. framed = Decoded /\ (IF framed THEN "xml" ELSE "unchanged") = "xml"
      BY <1>3, <2>2 DEF Decoded
    <3> QED
      BY <2>1, <2>2, <3>1
  <2>3. CASE ~framed
    <3>1. framed = Undecoded /\ (IF framed THEN "xml" ELSE "unchanged") = "unchanged"
      BY <1>3, <2>3 DEF Undecoded
    <3> QED
      BY <2>1, <2>3, <3>1
  <2> QED
    BY <2>2, <2>3
<1> QED
  BY <1>3, <1>4, <1>5, <1>6, <1>7, <1>8


-----------------------------------------------------------------------------
(* From a message to its answer.  At each stage of a message the documents *)
(* and registers are what the message alone determines.                    *)

Wanted == Chain(Asked)
Nested == Nest(Asked)
Whole  == Present(Loaded(m), Wanted)

TypesTo(n) == {m.encodings[k].type : k \in 1..n} \cap Layers

Blanked  == error_doc \in {Template, RequestError}
Refusing == stage = "template" => Expected = RequestError

Content ==
  stage \notin {"idle", "save", "template", "input"} =>
    /\ doc.xml = Undecoded /\ doc.dataType = "unchanged"
    /\ doc.bytes = IF stage \in {"dot2", "unsecured", "frame", "insert"} THEN Absent ELSE m.bytes
    /\ stage # "layer" => doc.tree = m.tree

(* The entries before i have been read.                                    *)
Reading ==
  stage = "entry" =>
    /\ i <= Len(m.encodings) + 1
    /\ atstype = RuleAt(i - 1)
    /\ \A k \in 1..i - 1 : RuleAt(k) # INVALID
    /\ opsflag = TypesTo(i - 1) /\ decode = opsflag
    /\ \A l \in opsflag : \E k \in 1..i - 1 : LastOf(l, k, i - 1) /\ ats[l] = RuleAt(k)

Ready ==
  stage \in {"encode", "layer", "decode", "dot2", "unsecured", "frame", "insert"} =>
    /\ Understood /\ opsflag = Asked /\ decode = Asked
    /\ \A l \in Asked : ats[l] = RuleOf(l)

(* The i - 1 innermost layers have been encoded.                           *)
Layering ==
  stage = "layer" =>
    /\ i > 1 => Whole
    /\ \A j \in 1..Len(Wanted) : j > Len(Wanted) + 1 - i => Wanted[j] \notin m.rejected
    /\ i = 1 => doc.tree = m.tree
    /\ i > 1 => doc.tree = SubSeq(Wanted, 1, Len(Wanted) + 1 - i)
    /\ i <= Len(Wanted) => doc.inner = SubSeq(Nested, Len(Wanted) + 2 - i, Len(Wanted))
    /\ i > Len(Wanted) => doc.inner = <<>>
    /\ Len(hex_data) = i - 1
    /\ \A k \in 1..i - 1 : hex_data[k].hex = SubSeq(Nested, Len(Wanted) + 1 - k, Len(Wanted))

(* The layers before the stage have been decoded.                          *)
Decoding ==
  /\ stage \in {"dot2", "unsecured", "frame", "insert"} =>
       Asked \cap {"Dot2", "MF"} # {} /\ m.bytes.form # "absent"
  /\ stage \in {"dot2", "unsecured"} => hstr = m.bytes.hex
  /\ stage = "unsecured" => m.bytes.form = "hex" /\ "Dot2" \in Asked /\ Outer
  /\ stage = "frame" =>
       /\ hstr = Rest
       /\ "Dot2" \in Asked => m.bytes.form = "hex" /\ Outer /\ Len(m.bytes.hex) > 1
  /\ stage = "insert" => "MF" \in Asked /\ Valid

Finishing ==
  /\ stage = "input" => ErrorXml(doc, m.hasDataType, "DATA") = Expected
  /\ stage = "save" => Unnamed(doc) = Expected
  /\ Answered => Unnamed(stream[1]) = Expected

Faithful ==
  Blanked /\ Refusing /\ Content /\ Reading /\ Ready /\ Layering /\ Decoding /\ Finishing

LEMMA FaithfulInit == Init => Faithful
BY DEF Init, Faithful, Blanked, Refusing, Content, Reading, Ready, Layering, Decoding, Finishing,
       Answered, Done

LEMMA SameWanted ==
  ASSUME m' = m, decode_functionality' = decode_functionality
  PROVE  /\ Wanted' = Wanted /\ Nested' = Nested /\ (Whole' <=> Whole)
         /\ (Outer' <=> Outer) /\ Rest' = Rest /\ (Valid' <=> Valid)
         /\ (Understood' <=> Understood) /\ Asked' = Asked /\ Expected' = Expected
         /\ \A k : RuleAt(k)' = RuleAt(k)
         /\ \A l : RuleOf(l)' = RuleOf(l)
<1>1. Asked' = Asked
  BY SameReference
<1>2. Wanted' = Wanted
  BY <1>1 DEF Wanted, Chain
<1>3. \A l : RuleOf(l)' = RuleOf(l)
  BY SameReference
<1>4. Nested' = Nested
  BY <1>1, <1>3 DEF Nested, Nest, Chain
<1>5. Whole' <=> Whole
  BY <1>2 DEF Whole, Present, Loaded
<1>6. \A l : Coded(l)' = Coded(l)
  BY <1>3 DEF Coded
<1>7. Coded("Dot2")' = Coded("Dot2") /\ Coded("MF")' = Coded("MF")
  BY <1>3 DEF Coded
<1>8. (Outer' <=> Outer) /\ Rest' = Rest
  BY <1>1, <1>7 DEF Outer, Rest
<1>9. Valid' <=> Valid
  BY <1>1, <1>7, <1>8 DEF Valid
<1>10. /\ (Understood' <=> Understood) /\ Expected' = Expected
       /\ \A k : RuleAt(k)' = RuleAt(k)
  BY SameReference
<1> QED
  BY <1>1, <1>2, <1>3, <1>4, <1>5, <1>8, <1>9, <1>10

LEMMA ParseFaithful ==
  ASSUME Faithful, NEW msg \in Messages, Parse(msg)
  PROVE  Faithful'
<1>1. /\ m' = msg /\ doc' = Loaded(msg) /\ UNCHANGED error_doc
      /\ stage' = IF msg.text = "xml" THEN "requirements" ELSE "template"
  BY DEF Parse
<1>2. Blanked'
  BY <1>1 DEF Faithful, Blanked
<1>3. Refusing'
  <2>1. msg.text # "xml" => ~Understood'
    BY <1>1 DEF Understood
  <2>2. ~Understood' => Expected' = RequestError
    BY DEF Expected
  <2> QED
    BY <1>1, <2>1, <2>2 DEF Refusing
<1>4. Content'
  <2>1. /\ doc'.xml = Undecoded /\ doc'.dataType = "unchanged" /\ doc'.bytes = m'.bytes
        /\ doc'.tree = m'.tree
    BY <1>1 DEF Loaded, Undecoded
  <2> QED
    BY <1>1, <2>1 DEF Content
<1>5. Reading' /\ Ready' /\ Layering' /\ Decoding' /\ Finishing'
  BY <1>1 DEF Reading, Ready, Layering, Decoding, Finishing, Answered, Done
<1> QED
  BY <1>2, <1>3, <1>4, <1>5 DEF Faithful

LEMMA TakingFaithful ==
  ASSUME Sound, Faithful, Taking
  PROVE  Faithful'
<1>1. CASE Receive
  <2>1. PICK msg \in (IF decode_functionality THEN ToDecode ELSE ToEncode) : Parse(msg)
    BY <1>1 DEF Receive
  <2> QED
    BY <2>1, ParseFaithful, MessageAssumption
<1>2. ASSUME NEW encode \in BOOLEAN, FileTest(encode) PROVE Faithful'
  <2>1. PICK msg \in (IF encode THEN ToEncode ELSE ToDecode) : Parse(msg)
    BY <1>2 DEF FileTest
  <2> QED
    BY <2>1, ParseFaithful, MessageAssumption
<1>3. ASSUME NEW encode \in BOOLEAN, Undocumented(encode) PROVE Faithful'
  <2>1. m'.text \in Unanswered /\ file' /\ stage' = "idle" /\ UNCHANGED error_doc
    BY <1>3, UnreadFile
  <2>2. Blanked'
    BY <2>1 DEF Faithful, Blanked
  <2>3. Refusing' /\ Content' /\ Reading' /\ Ready' /\ Layering' /\ Decoding' /\ Finishing'
    BY <2>1 DEF Refusing, Content, Reading, Ready, Layering, Decoding, Finishing, Answered
  <2> QED
    BY <2>2, <2>3 DEF Faithful
<1> QED
  BY <1>1, <1>2, <1>3 DEF Taking

(* A step to the refusal of a request.                                     *)
LEMMA ToRefusal ==
  ASSUME Faithful, stage' = "template", UNCHANGED <<error_doc, m, decode_functionality>>,
         Expected = RequestError
  PROVE  Faithful'
<1>1. Expected' = RequestError
  BY SameReference
<1>2. Blanked' /\ Refusing'
  BY <1>1 DEF Faithful, Blanked, Refusing
<1>3. Content' /\ Reading' /\ Ready' /\ Layering' /\ Decoding' /\ Finishing'
  BY DEF Content, Reading, Ready, Layering, Decoding, Finishing, Answered, Done
<1> QED
  BY <1>2, <1>3 DEF Faithful

LEMMA NotUnderstood == ~Understood => Expected = RequestError
BY DEF Expected

LEMMA ResetFaithful == Sound /\ Faithful /\ ResetRequirements => Faithful'
<1> SUFFICES ASSUME Sound, Faithful, ResetRequirements PROVE Faithful'
  OBVIOUS
<1>1. /\ stage = "requirements" /\ stage' = IF m.hasEncodings THEN "entry" ELSE "template"
      /\ i' = 1 /\ atstype' = INVALID /\ opsflag' = {} /\ decode' = {}
      /\ UNCHANGED <<decode_functionality, m, doc, error_doc>> /\ m \in Messages
  BY DEF ResetRequirements, mode, Sound, Types, Place
<1>2. CASE ~m.hasEncodings
  <2>1. ~Understood
    BY <1>2 DEF Understood
  <2> QED
    BY <1>1, <1>2, <2>1, NotUnderstood, ToRefusal
<1>3. CASE m.hasEncodings
  <2>1. stage' = "entry"
    BY <1>1, <1>3
  <2>2. Blanked' /\ Content'
    BY <1>1, <2>1 DEF Faithful, Blanked, Content
  <2>3. Reading'
    <3>1. RuleAt(i - 1)' = RuleAt(0)
      BY <1>1 DEF RuleAt
    <3>2. TypesTo(i - 1)' = {}
      BY <1>1 DEF TypesTo
    <3>3. Len(m.encodings) \in Nat
      BY <1>1, MessageTypes
    <3>4. RuleAt(0) = INVALID
      BY <1>1, RuleSteps
    <3> QED
      BY <1>1, <3>1, <3>2, <3>3, <3>4 DEF Reading
  <2>4. Refusing' /\ Ready' /\ Layering' /\ Decoding' /\ Finishing'
    BY <2>1 DEF Refusing, Ready, Layering, Decoding, Finishing, Answered, Done
  <2> QED
    BY <2>2, <2>3, <2>4 DEF Faithful
<1> QED
  BY <1>2, <1>3

LEMMA ReadEncodingFaithful == Sound /\ Faithful /\ ReadEncoding => Faithful'
<1> SUFFICES ASSUME Sound, Faithful, ReadEncoding PROVE Faithful'
  OBVIOUS
<1> DEFINE e == m.encodings[i]
<1>1. /\ stage = "entry" /\ i <= Len(m.encodings) /\ i' = i + 1
      /\ atstype' = IF e.rule = "none" THEN atstype ELSE TransferSyntax(e.rule)
      /\ atstype' = INVALID => stage' = "template"
      /\ atstype' # INVALID =>
           /\ opsflag' = opsflag \cup ({e.type} \cap Layers)
           /\ decode' = decode \cup ({e.type} \cap Layers)
           /\ ats' = [l \in Layers |-> IF l = e.type THEN atstype' ELSE ats[l]]
           /\ stage' = "entry"
      /\ UNCHANGED <<decode_functionality, m, doc, error_doc>>
  BY DEF ReadEncoding, mode, registers
<1>2. /\ m \in Messages /\ i \in Nat \ {0} /\ Len(m.encodings) \in Nat /\ opsflag \subseteq Layers
      /\ i \in 1..Len(m.encodings) /\ i - 1 \in Nat
  BY <1>1, MessageTypes DEF Sound, Types, Place, Registers
<1>3. /\ atstype = RuleAt(i - 1)
      /\ \A k \in 1..i - 1 : RuleAt(k) # INVALID
      /\ opsflag = TypesTo(i - 1) /\ decode = opsflag
      /\ \A l \in opsflag : \E k \in 1..i - 1 : LastOf(l, k, i - 1) /\ ats[l] = RuleAt(k)
  BY <1>1 DEF Faithful, Reading
<1>4. RuleAt(i) = atstype'
  <2>1. RuleAt(i) = IF e.rule = "none" THEN RuleAt(i - 1) ELSE TransferSyntax(e.rule)
    BY <1>2, RuleSteps
  <2> QED
    BY <1>1, <1>3, <2>1
<1>5. CASE atstype' = INVALID
  <2>1. i \in Entries
    BY <1>2, MessageTypes DEF Entries
  <2>2. ~Understood
    BY <1>4, <1>5, <2>1 DEF Understood
  <2> QED
    BY <1>1, <1>5, <2>2, NotUnderstood, ToRefusal
<1>6. CASE atstype' # INVALID
  <2>0. stage' = "entry" /\ i' - 1 = i /\ m' = m
    BY <1>1, <1>2, <1>6
  <2>1. Blanked' /\ Content'
    BY <1>1, <2>0 DEF Faithful, Blanked, Content
  <2>2. RuleAt(i - 1)' = RuleAt(i)
    <3> DEFINE S == {j \in 1..i : m.encodings[j].rule # "none"}
    <3>1. RuleAt(i) = RuleOver(S)
      BY DEF RuleAt, RuleOver
    <3>2. {j \in 1..i' - 1 : m'.encodings[j].rule # "none"} = S
      BY <2>0
    <3>3. RuleAt(i - 1)' = RuleOver({j \in 1..i' - 1 : m'.encodings[j].rule # "none"})
      BY <2>0 DEF RuleAt, RuleOver
    <3> HIDE DEF S
    <3> QED
      BY <3>1, <3>2, <3>3
  <2>3. \A k \in 1..i : RuleAt(k) # INVALID
    BY <1>2, <1>3, <1>4, <1>6
  <2>4. TypesTo(i - 1)' = TypesTo(i)
    BY <2>0 DEF TypesTo
  <2>5. \A k : k \in 1..i <=> k \in 1..i - 1 \/ k = i
    BY <1>2
  <2>6. opsflag' = TypesTo(i) /\ decode' = opsflag'
    <3>1. TypesTo(i) = TypesTo(i - 1) \cup ({e.type} \cap Layers)
      BY <2>5 DEF TypesTo
    <3> QED
      BY <1>1, <1>3, <1>6, <3>1
  <2>7. \A l \in opsflag' : \E k \in 1..i : LastOf(l, k, i) /\ ats'[l] = RuleAt(k)
    <3> SUFFICES ASSUME NEW l \in opsflag'
                 PROVE  \E k \in 1..i : LastOf(l, k, i) /\ ats'[l] = RuleAt(k)
      OBVIOUS
    <3>0. l \in Layers /\ (l \in opsflag \/ l = e.type)
      BY <1>1, <1>2, <1>6
    <3>1. CASE l = e.type
      <4>1. LastOf(l, i, i)
        BY <1>2, <3>1 DEF LastOf
      <4>2. ats'[l] = RuleAt(i)
        BY <1>1, <1>4, <1>6, <3>0, <3>1
      <4> QED
        BY <1>2, <4>1, <4>2
    <3>2. CASE l # e.type
      <4>1. PICK k \in 1..i - 1 : LastOf(l, k, i - 1) /\ ats[l] = RuleAt(k)
        BY <1>3, <3>0, <3>2
      <4>2. LastOf(l, k, i)
        BY <2>5, <3>2, <4>1 DEF LastOf
      <4>3. ats'[l] = RuleAt(k) /\ k \in 1..i
        BY <1>1, <1>6, <2>5, <3>0, <3>2, <4>1
      <4> QED
        BY <4>2, <4>3
    <3> QED
      BY <3>1, <3>2
  <2>8. Reading'
    <3>1. \A k : RuleAt(k)' = RuleAt(k)
      BY <1>1, SameReference
    <3>2. \A l, k : LastOf(l, k, i - 1)' <=> LastOf(l, k, i)
      BY <2>0 DEF LastOf
    <3>3. i' <= Len(m'.encodings) + 1
      BY <1>1, <1>2
    <3> QED
      BY <2>0, <1>4, <2>2, <2>3, <2>4, <2>6, <2>7, <3>1, <3>2, <3>3 DEF Reading
  <2>9. Refusing' /\ Ready' /\ Layering' /\ Decoding' /\ Finishing'
    BY <2>0 DEF Refusing, Ready, Layering, Decoding, Finishing, Answered, Done
  <2> QED
    BY <2>1, <2>8, <2>9 DEF Faithful
<1> QED
  BY <1>5, <1>6


LEMMA EndRequirementsFaithful == Sound /\ Faithful /\ EndRequirements => Faithful'
<1> SUFFICES ASSUME Sound, Faithful, EndRequirements PROVE Faithful'
  OBVIOUS
<1>1. /\ stage = "entry" /\ i > Len(m.encodings)
      /\ stage' = IF opsflag = {} \/ ~m.hasData THEN "template"
                  ELSE IF decode_functionality THEN "decode" ELSE "encode"
      /\ UNCHANGED <<decode_functionality, m, doc, error_doc, opsflag, decode, ats>>
  BY DEF EndRequirements, mode, registers
<1>2. /\ m \in Messages /\ i \in Nat \ {0} /\ Len(m.encodings) \in Nat /\ opsflag \subseteq Layers
      /\ m.text = "xml" /\ m.hasEncodings /\ m.hasData \in BOOLEAN
      /\ DOMAIN m.encodings = 1..Len(m.encodings)
  BY <1>1, MessageTypes DEF Sound, Types, Place, Registers, Room
<1>3. /\ i <= Len(m.encodings) + 1
      /\ \A k \in 1..i - 1 : RuleAt(k) # INVALID
      /\ opsflag = TypesTo(i - 1) /\ decode = opsflag
      /\ \A l \in opsflag : \E k \in 1..i - 1 : LastOf(l, k, i - 1) /\ ats[l] = RuleAt(k)
  BY <1>1 DEF Faithful, Reading
<1>4. i - 1 = Len(m.encodings)
  BY <1>1, <1>2, <1>3
<1>5. Asked = opsflag
  BY <1>2, <1>3, <1>4 DEF Asked, Entries, TypesTo
<1>6. CASE opsflag = {} \/ ~m.hasData
  <2>1. ~Understood
    BY <1>5, <1>6 DEF Understood
  <2> QED
    BY <1>1, <1>6, <2>1, NotUnderstood, ToRefusal
<1>7. CASE opsflag # {} /\ m.hasData
  <2>0. stage' \in {"decode", "encode"}
    BY <1>1, <1>7
  <2>1. Understood
    BY <1>2, <1>3, <1>4, <1>5, <1>7 DEF Understood, Entries
  <2>2. \A l \in Asked : ats[l] = RuleOf(l)
    <3> SUFFICES ASSUME NEW l \in Asked PROVE ats[l] = RuleOf(l)
      OBVIOUS
    <3>1. PICK k \in 1..Len(m.encodings) : LastOf(l, k, Len(m.encodings)) /\ ats[l] = RuleAt(k)
      BY <1>3, <1>4, <1>5
    <3>2. RuleOf(l) = RuleAt(k)
      BY <1>2, <3>1, RuleOfLast
    <3> QED
      BY <3>1, <3>2
  <2>3. /\ Asked' = Asked /\ (Understood' <=> Understood) /\ \A l : RuleOf(l)' = RuleOf(l)
    BY <1>1, SameWanted
  <2>4. Ready'
    BY <1>1, <1>3, <1>5, <2>1, <2>2, <2>3 DEF Ready
  <2>5. Blanked' /\ Content'
    BY <1>1, <2>0 DEF Faithful, Blanked, Content
  <2>6. Refusing' /\ Reading' /\ Layering' /\ Decoding' /\ Finishing'
    BY <2>0 DEF Refusing, Reading, Layering, Decoding, Finishing, Answered, Done
  <2> QED
    BY <2>4, <2>5, <2>6 DEF Faithful
<1> QED
  BY <1>2, <1>6, <1>7

(* The chain of the layers asked for, and its bytes.                       *)
LEMMA WantedTypes ==
  /\ Wanted \in Seq(Layers) /\ Len(Wanted) \in Nat
  /\ Nested \in Seq([layer : Layers, rule : {RuleOf(l) : l \in Layers}])
  /\ Len(Nested) = Len(Wanted)
  /\ \A k \in 1..Len(Wanted) : Nested[k] = Coded(Wanted[k])
  /\ Asked # {} => Len(Wanted) >= 1
<1>1. Wanted \in Seq(Layers) /\ Len(Wanted) \in Nat
  BY ChainType DEF Wanted
<1>2. /\ Nested = [k \in 1..Len(Wanted) |-> Coded(Wanted[k])]
      /\ Len(Nested) = Len(Wanted)
      /\ \A k \in 1..Len(Wanted) : Nested[k] = Coded(Wanted[k])
  BY NestElements DEF Wanted, Nested
<1>3. \A k \in 1..Len(Wanted) : Coded(Wanted[k]) \in [layer : Layers, rule : {RuleOf(l) : l \in Layers}]
  <2>1. \A l \in Layers : Coded(l) \in [layer : Layers, rule : {RuleOf(j) : j \in Layers}]
    BY DEF Coded
  <2> QED
    BY <1>1, <2>1
<1>4. Nested \in Seq([layer : Layers, rule : {RuleOf(l) : l \in Layers}])
  BY <1>1, <1>2, <1>3
<1>5. Asked # {} => Len(Wanted) >= 1
  BY Chains DEF Wanted, Asked
<1> QED
  BY <1>1, <1>2, <1>4, <1>5

LEMMA SelectProtocolFaithful == Sound /\ Clean /\ Faithful /\ SelectProtocol => Faithful'
<1> SUFFICES ASSUME Sound, Clean, Faithful, SelectProtocol PROVE Faithful'
  OBVIOUS
<1>1. /\ stage = "encode" /\ stage' = "layer" /\ i' = 1 /\ hex_data' = <<>>
      /\ UNCHANGED <<decode_functionality, m, doc, error_doc, opsflag, decode, ats>>
  BY DEF SelectProtocol, Goto, mode, registers
<1>2. /\ Wanted' = Wanted /\ Nested' = Nested /\ Asked' = Asked /\ (Understood' <=> Understood)
      /\ \A l : RuleOf(l)' = RuleOf(l)
  BY <1>1, SameWanted
<1>3. /\ Len(Wanted) \in Nat /\ Len(Nested) = Len(Wanted)
      /\ Nested \in Seq([layer : Layers, rule : {RuleOf(l) : l \in Layers}])
  BY WantedTypes
<1>4. Ready'
  BY <1>1, <1>2 DEF Faithful, Ready
<1>5. Blanked' /\ Content'
  BY <1>1 DEF Faithful, Blanked, Content
<1>6. Layering'
  <2>1. doc.inner = <<>> /\ doc.tree = m.tree
    BY <1>1 DEF Clean, Making, Faithful, Content
  <2>2. SubSeq(Nested, Len(Wanted) + 1, Len(Wanted)) = <<>>
    BY <1>3, SubSeqEmpty
  <2>3. Len(Wanted) + 2 - 1 = Len(Wanted) + 1 /\ Len(Wanted) + 1 - 1 = Len(Wanted)
    BY <1>3
  <2>4. \A j \in 1..Len(Wanted) : ~(j > Len(Wanted) + 1 - 1)
    BY <1>3
  <2>5. Len(<<>>) = 0 /\ \A k \in 1..1 - 1 : FALSE
    OBVIOUS
  <2> HIDE DEF Wanted, Nested
  <2> QED
    BY <1>1, <1>2, <2>1, <2>2, <2>3, <2>4, <2>5 DEF Layering
<1>7. Refusing' /\ Reading' /\ Decoding' /\ Finishing'
  BY <1>1 DEF Refusing, Reading, Decoding, Finishing, Answered, Done
<1> QED
  BY <1>4, <1>5, <1>6, <1>7 DEF Faithful


(* The layer encoded next, and what is known of it.                        *)
LEMMA LayerPart ==
  ASSUME Sound, Faithful, EncodeLayer
  PROVE  LET part == protocol[i]
             at   == Len(Wanted) + 1 - i
         IN /\ i \in 1..Len(Wanted) /\ at \in 1..Len(Wanted) /\ Len(Wanted) \in Nat
            /\ part.layer = Wanted[at] /\ Len(part.path) = at /\ (part.replace <=> at > 1)
            /\ HexOf(part) = SubSeq(Nested, at, Len(Wanted))
            /\ Present(doc, part.path) <=> Whole
            /\ Whole => SubSeq(doc.tree, 1, at - 1) = SubSeq(Wanted, 1, at - 1)
<1> DEFINE part == protocol[i]
           L    == Len(Wanted)
           at   == L + 1 - i
<1>1. /\ stage = "layer" /\ i \in Nat \ {0} /\ i <= Len(protocol)
      /\ protocol = Protocol(opsflag, ats) /\ ats \in [Layers -> Rules]
      /\ m \in Messages /\ m.tree \in Seq(Layers)
      /\ doc.tree \in Seq(Layers)
  BY MessageTypes DEF EncodeLayer, Sound, Types, Place, Room, Registers, Written, Docs
<1>2. /\ opsflag = Asked /\ \A l \in Asked : ats[l] = RuleOf(l)
      /\ i > 1 => Whole
      /\ i = 1 => doc.tree = m.tree
      /\ i > 1 => doc.tree = SubSeq(Wanted, 1, L + 1 - i)
      /\ i <= L => doc.inner = SubSeq(Nested, L + 2 - i, L)
  BY <1>1 DEF Faithful, Ready, Layering
<1>3. Chain(opsflag) = Wanted
  BY <1>2 DEF Wanted
<1>4. /\ Wanted \in Seq(Layers) /\ L \in Nat /\ Len(Nested) = L
      /\ Nested \in Seq([layer : Layers, rule : {RuleOf(l) : l \in Layers}])
      /\ \A k \in 1..L : Nested[k] = Coded(Wanted[k])
  BY WantedTypes
<1>5. Len(protocol) = L /\ i \in 1..L /\ at \in 1..L /\ at \in Nat
  BY <1>1, <1>3, <1>4, ProtocolParts
<1>6. /\ part.layer = Wanted[at] /\ part.rule = ats[Wanted[at]]
      /\ part.path = SubSeq(Wanted, 1, at) /\ Len(part.path) = at /\ (part.replace <=> at > 1)
  BY <1>1, <1>3, <1>5, ProtocolParts
<1>7. Wanted[at] \in Asked
  <2>1. Asked \in SUBSET Layers
    BY DEF Asked
  <2> QED
    BY <1>5, <2>1, Chains DEF Wanted
<1> HIDE DEF part
<1>8. HexOf(part) = SubSeq(Nested, at, L)
  <2>1. HexOf(part) = <<Nested[at]>> \o doc.inner
    <3>1. [layer |-> part.layer, rule |-> part.rule] = Coded(Wanted[at])
      BY <1>2, <1>6, <1>7 DEF Coded
    <3> QED
      BY <1>4, <1>5, <3>1 DEF HexOf
  <2>2. doc.inner = SubSeq(Nested, at + 1, L)
    <3>1. L + 2 - i = at + 1 /\ i <= L
      BY <1>5
    <3> HIDE DEF at, L
    <3> QED
      BY <1>2, <3>1 DEF L
  <2>3. at \in 1..Len(Nested) /\ L \in at..Len(Nested)
    BY <1>4, <1>5
  <2> HIDE DEF at
  <2>4. SubSeq(Nested, at, L) = <<Nested[at]>> \o SubSeq(Nested, at + 1, L)
    BY <1>4, <2>3, SubSeqRecursiveFirst
  <2> QED
    BY <2>1, <2>2, <2>4
<1>9. Present(doc, part.path) <=> Whole
  <2>1. CASE i = 1
    <3>1. at = L /\ SubSeq(Wanted, 1, L) = Wanted
      BY <1>4, <2>1, SubSeqFull
    <3>2. part.path = Wanted
      BY <1>6, <3>1
    <3>3. doc.tree = Loaded(m).tree
      BY <1>2, <2>1 DEF Loaded
    <3> QED
      BY <3>2, <3>3 DEF Present, Whole
  <2>2. CASE i > 1
    <3>1. Whole /\ doc.tree = part.path
      BY <1>2, <1>6, <2>2
    <3>2. SubSeq(doc.tree, 1, Len(doc.tree)) = doc.tree /\ Len(doc.tree) \in Nat
      BY <1>1, SubSeqFull
    <3> QED
      BY <3>1, <3>2 DEF Present
  <2> QED
    BY <1>1, <2>1, <2>2
<1>10. Whole => SubSeq(doc.tree, 1, at - 1) = SubSeq(Wanted, 1, at - 1)
  <2> SUFFICES ASSUME Whole PROVE SubSeq(doc.tree, 1, at - 1) = SubSeq(Wanted, 1, at - 1)
    OBVIOUS
  <2>1. at <= Len(doc.tree) /\ SubSeq(doc.tree, 1, at) = SubSeq(Wanted, 1, at)
    BY <1>6, <1>9 DEF Present
  <2>2. at - 1 \in Nat /\ at - 1 <= at /\ at <= Len(Wanted)
    BY <1>5
  <2> HIDE DEF at
  <2> QED
    BY <1>1, <1>4, <1>5, <2>1, <2>2, Prefixes
<1> QED
  BY <1>4, <1>5, <1>6, <1>8, <1>9, <1>10 DEF part

(* The document while layers are encoded.                                  *)
LEMMA LayerDocument ==
  ASSUME Sound, Clean, Faithful, stage = "layer"
  PROVE  doc = Record(doc.tree, doc.inner, m.bytes, Undecoded, <<>>, "unchanged", "none")
<1>1. /\ doc \in Docs /\ doc.bytes = m.bytes /\ doc.xml = Undecoded /\ doc.appended = <<>>
      /\ doc.dataType = "unchanged" /\ doc.code = "none"
  BY DEF Sound, Types, Written, Clean, Making, Faithful, Content
<1>2. doc = Record(doc.tree, doc.inner, doc.bytes, doc.xml, doc.appended, doc.dataType, doc.code)
  BY <1>1, RecordOf
<1> QED
  BY <1>1, <1>2

LEMMA CutDocument ==
  ASSUME Sound, Clean, Faithful, EncodeLayer, Whole
  PROVE  LET at == Len(Wanted) + 1 - i IN
         /\ Cut(protocol[i]) =
              Record(SubSeq(Wanted, 1, at - 1), <<>>, m.bytes, Undecoded, <<>>, "unchanged", "none")
         /\ \A x : [Cut(protocol[i]) EXCEPT !.inner = x] =
              Record(SubSeq(Wanted, 1, at - 1), x, m.bytes, Undecoded, <<>>, "unchanged", "none")
<1> DEFINE part == protocol[i]
           at   == Len(Wanted) + 1 - i
           d    == doc
           t    == SubSeq(Wanted, 1, at - 1)
           a    == [d EXCEPT !.tree = t]
<1>1. SubSeq(doc.tree, 1, Len(part.path) - 1) = t
  BY LayerPart
<1>2. doc = Record(doc.tree, doc.inner, m.bytes, Undecoded, <<>>, "unchanged", "none")
  BY LayerDocument DEF EncodeLayer
<1>3. Cut(part) = [a EXCEPT !.inner = <<>>]
  BY <1>1 DEF Cut
<1> HIDE DEF t, d
<1>4. a = Record(t, doc.inner, m.bytes, Undecoded, <<>>, "unchanged", "none")
  BY <1>2 DEF Record, d
<1> HIDE DEF a
<1>5. [a EXCEPT !.inner = <<>>] = Record(t, <<>>, m.bytes, Undecoded, <<>>, "unchanged", "none")
  BY <1>4 DEF Record
<1>6. Cut(part) = Record(t, <<>>, m.bytes, Undecoded, <<>>, "unchanged", "none")
  BY <1>3, <1>5
<1> HIDE DEF part
<1>7. \A x : [Cut(part) EXCEPT !.inner = x] =
               Record(t, x, m.bytes, Undecoded, <<>>, "unchanged", "none")
  BY <1>6 DEF Record
<1> QED
  BY <1>6, <1>7 DEF part, t


(* The encoder's answer, from what the message has.                        *)
LEMMA EncoderExpects ==
  ASSUME m \in Messages, Understood, ~decode_functionality
  PROVE  /\ ~Whole => Expected = RequestError
         /\ \A at \in 1..Len(Wanted) :
              Whole /\ Wanted[at] \in m.rejected
                /\ (\A j \in 1..Len(Wanted) : j > at => Wanted[j] \notin m.rejected) =>
              Expected = DataError(SubSeq(Wanted, 1, at - 1))
         /\ Whole /\ (\A j \in 1..Len(Wanted) : Wanted[j] \notin m.rejected) =>
              /\ ~m.hasDataType => Expected = RequestError
              /\ m.hasDataType => Expected =
                   Record(<<>>, <<>>, m.bytes, Undecoded, HexOfAll, "hex", "none")
<1>1. Expected = ExpectedEncoded
  BY DEF Expected
<1>2. ASSUME NEW at \in 1..Len(Wanted)
      PROVE  (\A j \in 1..Len(Wanted) : j > at => Wanted[j] \notin m.rejected)
               => \A j \in at + 1..Len(Wanted) : Wanted[j] \notin m.rejected
  BY WantedTypes
<1>3. Wanted = Chain(Asked) /\ (Whole <=> Present(Loaded(m), Chain(Asked)))
  BY DEF Wanted, Whole
<1> QED
  BY <1>1, <1>2, <1>3, EncodedCases

LEMMA EncodeLayerFaithful == Sound /\ Clean /\ Faithful /\ EncodeLayer => Faithful'
<1> SUFFICES ASSUME Sound, Clean, Faithful, EncodeLayer PROVE Faithful'
  OBVIOUS
<1> DEFINE part == protocol[i]
           L    == Len(Wanted)
           at   == L + 1 - i
<1>1. /\ stage = "layer"
      /\ \/ /\ ~Present(doc, part.path) /\ stage' = "template"
         \/ /\ Present(doc, part.path) /\ ~Encodes(part.layer) /\ stage' = "input"
            /\ doc' = Cut(part)
         \/ /\ Present(doc, part.path) /\ Encodes(part.layer)
            /\ doc' = [Cut(part) EXCEPT !.inner = IF part.replace THEN HexOf(part) ELSE <<>>]
            /\ \E name \in {part.layer} \cup FreedNames :
                 hex_data' = Append(hex_data, [name |-> name, hex |-> HexOf(part)])
            /\ i' = i + 1 /\ UNCHANGED stage
      /\ UNCHANGED <<decode_functionality, m, opsflag, decode, ats, error_doc>>
  BY EncodeLayerCases
<1>2. /\ i \in 1..L /\ at \in 1..L /\ L \in Nat
      /\ part.layer = Wanted[at] /\ (part.replace <=> at > 1)
      /\ HexOf(part) = SubSeq(Nested, at, L)
      /\ Present(doc, part.path) <=> Whole
  BY LayerPart
<1>3. /\ m \in Messages /\ m.hasDataType \in BOOLEAN /\ ~decode_functionality
      /\ hex_data \in HexStrings
  BY <1>1, MessageTypes DEF Sound, Types, Place, Room, Encoder
<1>4. /\ Understood /\ opsflag = Asked /\ decode = Asked /\ \A l \in Asked : ats[l] = RuleOf(l)
      /\ \A j \in 1..L : j > at => Wanted[j] \notin m.rejected
      /\ Len(hex_data) = i - 1
      /\ \A k \in 1..i - 1 : hex_data[k].hex = SubSeq(Nested, L + 1 - k, L)
  BY <1>1 DEF Faithful, Ready, Layering
<1>5. Encodes(part.layer) <=> Wanted[at] \notin m.rejected
  BY <1>2 DEF Encodes
<1>6. Whole =>
        /\ Cut(part) =
             Record(SubSeq(Wanted, 1, at - 1), <<>>, m.bytes, Undecoded, <<>>, "unchanged", "none")
        /\ \A x : [Cut(part) EXCEPT !.inner = x] =
             Record(SubSeq(Wanted, 1, at - 1), x, m.bytes, Undecoded, <<>>, "unchanged", "none")
  BY CutDocument
<1>7. /\ Wanted' = Wanted /\ Nested' = Nested /\ Asked' = Asked /\ (Understood' <=> Understood)
      /\ (Whole' <=> Whole) /\ Expected' = Expected
      /\ \A l : RuleOf(l)' = RuleOf(l)
  BY <1>1, SameWanted
<1> HIDE DEF part
<1>8. CASE ~Present(doc, part.path) /\ stage' = "template"
  <2>1. Expected = RequestError
    BY <1>2, <1>3, <1>4, <1>8, EncoderExpects
  <2> QED
    BY <1>1, <1>8, <2>1, ToRefusal
<1>9. CASE /\ Present(doc, part.path) /\ ~Encodes(part.layer) /\ stage' = "input"
           /\ doc' = Cut(part)
  <2>1. Whole /\ Wanted[at] \in m.rejected
    BY <1>2, <1>5, <1>9
  <2>2. Expected = DataError(SubSeq(Wanted, 1, at - 1))
    <3> HIDE DEF at
    <3> QED
      BY <1>2, <1>3, <1>4, <2>1, EncoderExpects
  <2>3. doc' = Record(SubSeq(Wanted, 1, at - 1), <<>>, m.bytes, Undecoded, <<>>, "unchanged", "none")
    BY <1>6, <1>9, <2>1
  <2>4. ErrorXml(doc', m.hasDataType, "DATA") =
          Record(SubSeq(Wanted, 1, at - 1), <<>>, Absent, Undecoded, <<>>,
                 IF m.hasDataType THEN "ode" ELSE "unchanged", "DATA")
    BY <2>3, ErrorRecord
  <2>5. ErrorXml(doc', m.hasDataType, "DATA") = Expected
    BY <2>2, <2>4, DataErrorRecord
  <2>6. ErrorXml(doc, m.hasDataType, "DATA")' = ErrorXml(doc', m.hasDataType, "DATA")
    BY <1>1 DEF ErrorXml
  <2>7. Finishing'
    BY <1>7, <1>9, <2>5, <2>6 DEF Finishing, Answered, Done
  <2>8. Blanked'
    BY <1>1 DEF Faithful, Blanked
  <2>9. Refusing' /\ Content' /\ Reading' /\ Ready' /\ Layering' /\ Decoding'
    BY <1>9 DEF Refusing, Content, Reading, Ready, Layering, Decoding
  <2> QED
    BY <2>7, <2>8, <2>9 DEF Faithful
<1>10. CASE /\ Present(doc, part.path) /\ Encodes(part.layer)
            /\ doc' = [Cut(part) EXCEPT !.inner = IF part.replace THEN HexOf(part) ELSE <<>>]
            /\ \E name \in {part.layer} \cup FreedNames :
                 hex_data' = Append(hex_data, [name |-> name, hex |-> HexOf(part)])
            /\ i' = i + 1 /\ UNCHANGED stage
  <2> DEFINE inner == IF part.replace THEN HexOf(part) ELSE <<>>
  <2>1. Whole /\ Wanted[at] \notin m.rejected /\ stage' = "layer"
    BY <1>1, <1>2, <1>5, <1>10
  <2>2. doc' = Record(SubSeq(Wanted, 1, at - 1), inner, m.bytes, Undecoded, <<>>, "unchanged", "none")
    <3>1. doc' = [Cut(part) EXCEPT !.inner = inner]
      BY <1>10
    <3> HIDE DEF inner, at
    <3> QED
      BY <1>6, <2>1, <3>1
  <2>3. /\ doc'.tree = SubSeq(Wanted, 1, at - 1) /\ doc'.inner = inner /\ doc'.bytes = m.bytes
        /\ doc'.xml = Undecoded /\ doc'.dataType = "unchanged"
    <3> DEFINE t == SubSeq(Wanted, 1, at - 1)
    <3> HIDE DEF inner, t
    <3>1. doc' = Record(t, inner, m.bytes, Undecoded, <<>>, "unchanged", "none")
      BY <2>2 DEF t
    <3>2. /\ doc'.tree = t /\ doc'.inner = inner /\ doc'.bytes = m.bytes
          /\ doc'.xml = Undecoded /\ doc'.dataType = "unchanged"
      BY <3>1 DEF Record
    <3> QED
      BY <3>2 DEF t
  <2>4. Content'
    BY <1>1, <2>1, <2>3 DEF Content, Undecoded
  <2>5. /\ L + 1 - (i + 1) = at - 1 /\ L + 2 - (i + 1) = at /\ (i + 1) - 1 = i
        /\ i + 1 > 1 /\ i + 1 # 1
        /\ (at > 1 <=> i + 1 <= L) /\ (~(at > 1) <=> i + 1 > L)
    BY <1>2
  <2>6. \A j \in 1..L : j > at - 1 => Wanted[j] \notin m.rejected
    BY <1>2, <1>4, <2>1
  <2>7. Len(hex_data') = i /\ \A k \in 1..i : hex_data'[k].hex = SubSeq(Nested, L + 1 - k, L)
    <3>1. PICK name : hex_data' = Append(hex_data, [name |-> name, hex |-> HexOf(part)])
      BY <1>10
    <3>2. Len(hex_data') = Len(hex_data) + 1
      BY <1>3, <3>1 DEF HexStrings
    <3>3. \A k \in 1..Len(hex_data) : hex_data'[k] = hex_data[k]
      BY <1>3, <3>1 DEF HexStrings
    <3>4. hex_data'[i] = [name |-> name, hex |-> HexOf(part)]
      BY <1>2, <1>3, <1>4, <3>1 DEF HexStrings
    <3>5. hex_data'[i].hex = SubSeq(Nested, at, L)
      <4> HIDE DEF at, L
      <4>1. hex_data'[i].hex = HexOf(part)
        BY <3>4
      <4> QED
        BY <1>2, <4>1
    <3>6. \A k \in 1..i : k = i \/ k \in 1..i - 1
      BY <1>2
    <3>7. Len(hex_data') = i
      BY <1>2, <1>4, <3>2
    <3> HIDE DEF L
    <3> QED
      BY <1>4, <3>3, <3>5, <3>6, <3>7
  <2>8. Layering'
    <3>1. (at > 1 => doc'.inner = SubSeq(Nested, at, L)) /\ (~(at > 1) => doc'.inner = <<>>)
      BY <1>2, <2>3
    <3>2. \A k \in 1..i : hex_data'[k].hex = SubSeq(Nested, L + 1 - k, L)
      BY <2>7
    <3> DEFINE n == at - 1
               o == at
    <3> HIDE DEF n, o
    <3>3. /\ L + 1 - (i + 1) = n /\ L + 2 - (i + 1) = o /\ (i + 1) - 1 = i
          /\ (o > 1 <=> i + 1 <= L) /\ (~(o > 1) <=> i + 1 > L)
          /\ doc'.tree = SubSeq(Wanted, 1, n)
          /\ \A j \in 1..L : j > n => Wanted[j] \notin m.rejected
          /\ (o > 1 => doc'.inner = SubSeq(Nested, o, L)) /\ (~(o > 1) => doc'.inner = <<>>)
      BY <2>3, <2>5, <2>6, <3>1 DEF n, o
    <3>4. i' = i + 1 /\ m' = m /\ Wanted' = Wanted /\ Nested' = Nested /\ Whole'
      BY <1>1, <1>7, <1>10, <2>1
    <3>5. i + 1 > 1 /\ i + 1 # 1
      BY <2>5
    <3>6. Len(hex_data') = i
      BY <2>7
    <3> HIDE DEF at, Wanted, Nested, Whole
    <3> QED
      BY <3>2, <3>3, <3>4, <3>5, <3>6 DEF Layering
  <2>9. Ready'
    BY <1>1, <1>4, <1>7 DEF Ready
  <2>10. Blanked'
    BY <1>1 DEF Faithful, Blanked
  <2>11. Refusing' /\ Reading' /\ Decoding' /\ Finishing'
    BY <2>1 DEF Refusing, Reading, Decoding, Finishing, Answered, Done
  <2> QED
    BY <2>4, <2>8, <2>9, <2>10, <2>11 DEF Faithful
<1> QED
  BY <1>1, <1>8, <1>9, <1>10


LEMMA AppendHexFaithful == Sound /\ Clean /\ Faithful /\ AppendHex => Faithful'
<1> SUFFICES ASSUME Sound, Clean, Faithful, AppendHex PROVE Faithful'
  OBVIOUS
<1> DEFINE L == Len(Wanted)
<1>1. /\ stage = "layer" /\ i > Len(protocol) /\ stage' = IF m.hasDataType THEN "save" ELSE "template"
      /\ doc' = [doc EXCEPT !.appended = hex_data,
                            !.dataType = IF m.hasDataType THEN "hex" ELSE @]
      /\ UNCHANGED <<decode_functionality, m, error_doc>>
  BY DEF AppendHex, mode
<1>2. /\ m \in Messages /\ m.hasDataType \in BOOLEAN /\ ~decode_functionality /\ i \in Nat
      /\ protocol = Protocol(opsflag, ats) /\ ats \in [Layers -> Rules] /\ i <= Len(protocol) + 1
      /\ opsflag # {} /\ hex_data \in HexStrings
  BY <1>1, MessageTypes DEF Sound, Types, Place, Room, Encoder, Registers
<1>3. /\ Understood /\ opsflag = Asked
      /\ i > 1 => Whole
      /\ \A j \in 1..L : j > L + 1 - i => Wanted[j] \notin m.rejected
      /\ i > 1 => doc.tree = SubSeq(Wanted, 1, L + 1 - i)
      /\ i > L => doc.inner = <<>>
      /\ Len(hex_data) = i - 1
      /\ \A k \in 1..i - 1 : hex_data[k].hex = SubSeq(Nested, L + 1 - k, L)
  BY <1>1 DEF Faithful, Ready, Layering
<1>4. /\ Wanted \in Seq(Layers) /\ L \in Nat /\ L >= 1
  BY <1>2, <1>3, WantedTypes
<1>5. Len(protocol) = L
  BY <1>2, <1>3, ProtocolParts DEF Wanted
<1>6. i = L + 1
  BY <1>1, <1>2, <1>4, <1>5
<1>7. /\ Whole /\ \A j \in 1..L : Wanted[j] \notin m.rejected
      /\ Len(hex_data) = L /\ doc.inner = <<>> /\ doc.tree = SubSeq(Wanted, 1, 0)
      /\ \A k \in 1..L : hex_data[k].hex = SubSeq(Nested, L + 1 - k, L)
  <2>1. i > 1 /\ i > L /\ L + 1 - i = 0 /\ i - 1 = L
    BY <1>4, <1>6
  <2> HIDE DEF L
  <2>2. \A j \in 1..L : j > 0
    BY <1>4
  <2> QED
    BY <1>3, <2>1, <2>2
<1>8. /\ ~m.hasDataType => Expected = RequestError
      /\ m.hasDataType => Expected =
           Record(<<>>, <<>>, m.bytes, Undecoded, HexOfAll, "hex", "none")
  BY <1>2, <1>3, <1>7, EncoderExpects
<1>9. CASE ~m.hasDataType
  BY <1>1, <1>8, <1>9, ToRefusal
<1>10. CASE m.hasDataType
  <2> DEFINE a == [doc EXCEPT !.appended = hex_data]
  <2>1. doc = Record(<<>>, <<>>, m.bytes, Undecoded, <<>>, "unchanged", "none")
    <3>1. SubSeq(Wanted, 1, 0) = <<>>
      BY SubSeqEmpty
    <3> QED
      BY <1>1, <1>7, <3>1, LayerDocument
  <2>2. a = Record(<<>>, <<>>, m.bytes, Undecoded, hex_data, "unchanged", "none")
    BY <2>1 DEF Record
  <2>3. doc' = [a EXCEPT !.dataType = "hex"]
    BY <1>1, <1>10
  <2> HIDE DEF a
  <2>4. doc' = Record(<<>>, <<>>, m.bytes, Undecoded, hex_data, "hex", "none")
    BY <2>2, <2>3 DEF Record
  <2>5. [k \in DOMAIN hex_data |-> hex_data[k].hex] = HexOfAll
    <3>1. DOMAIN hex_data = 1..L
      BY <1>2, <1>7 DEF HexStrings
    <3>2. HexOfAll = [k \in 1..L |-> SubSeq(Nested, L + 1 - k, L)]
      BY DEF HexOfAll, Wanted, Nested
    <3> HIDE DEF L
    <3> QED
      BY <1>7, <3>1, <3>2
  <2>6. Unnamed(doc') = Expected
    <3>1. doc'.appended = hex_data
      BY <2>4 DEF Record
    <3>2. Unnamed(doc') = [doc' EXCEPT !.appended = HexOfAll]
      BY <2>5, <3>1 DEF Unnamed
    <3>3. [doc' EXCEPT !.appended = HexOfAll] =
            Record(<<>>, <<>>, m.bytes, Undecoded, HexOfAll, "hex", "none")
      BY <2>4 DEF Record
    <3> QED
      BY <1>8, <1>10, <3>2, <3>3
  <2>7. Expected' = Expected /\ stage' = "save"
    BY <1>1, <1>10, SameWanted
  <2>8. Finishing'
    <3>1. Unnamed(doc)' = Unnamed(doc')
      BY DEF Unnamed
    <3> QED
      BY <2>6, <2>7, <3>1 DEF Finishing, Answered, Done
  <2>9. Blanked'
    BY <1>1 DEF Faithful, Blanked
  <2>10. Refusing' /\ Content' /\ Reading' /\ Ready' /\ Layering' /\ Decoding'
    BY <2>7 DEF Refusing, Content, Reading, Ready, Layering, Decoding
  <2> QED
    BY <2>8, <2>9, <2>10 DEF Faithful
<1> QED
  BY <1>2, <1>9, <1>10

(* The decoder's answer, and its document after the bytes were taken.      *)
LEMMA DecoderExpects ==
  ASSUME m \in Messages, Understood, decode_functionality
  PROVE  /\ Asked \cap {"Dot2", "MF"} = {} \/ m.bytes.form = "absent" => Expected = RequestError
         /\ Asked \cap {"Dot2", "MF"} # {} /\ m.bytes.form # "absent" =>
              /\ ~Valid => Expected = DataError(m.tree)
              /\ Valid /\ "MF" \in Asked /\ ~m.hasDataType => Expected = RequestError
              /\ Valid /\ "MF" \in Asked /\ m.hasDataType =>
                   Expected = Record(m.tree, <<>>, Absent, Decoded, <<>>, "xml", "none")
              /\ Valid /\ "MF" \notin Asked =>
                   Expected = Record(m.tree, <<>>, Absent, Undecoded, <<>>, "unchanged", "none")
<1>1. Expected = ExpectedDecoded
  BY DEF Expected
<1> QED
  BY <1>1, DecodedCases

LEMMA DecoderDocument ==
  ASSUME Sound, Clean, Faithful, stage \in {"decode", "dot2", "unsecured", "frame", "insert"}
  PROVE  doc = Record(m.tree, <<>>, doc.bytes, Undecoded, <<>>, "unchanged", "none")
<1>1. /\ doc \in Docs /\ doc.xml = Undecoded /\ doc.appended = <<>> /\ doc.inner = <<>>
      /\ doc.dataType = "unchanged" /\ doc.code = "none" /\ doc.tree = m.tree
  BY DEF Sound, Types, Written, Clean, Making, Faithful, Content
<1>2. doc = Record(doc.tree, doc.inner, doc.bytes, doc.xml, doc.appended, doc.dataType, doc.code)
  BY <1>1, RecordOf
<1> QED
  BY <1>1, <1>2

(* A step to the refusal of the bytes.                                     *)
LEMMA ToDataError ==
  ASSUME Sound, Clean, Faithful, stage \in {"dot2", "unsecured", "frame"}, stage' = "input",
         UNCHANGED <<error_doc, m, decode_functionality, doc>>, ~Valid
  PROVE  Faithful'
<1>1. /\ m \in Messages /\ decode_functionality /\ Understood
      /\ Asked \cap {"Dot2", "MF"} # {} /\ m.bytes.form # "absent" /\ doc.bytes = Absent
  BY DEF Sound, Types, Place, Room, Faithful, Ready, Decoding, Content
<1>2. Expected = DataError(m.tree)
  BY <1>1, DecoderExpects
<1>3. doc = Record(m.tree, <<>>, Absent, Undecoded, <<>>, "unchanged", "none")
  BY <1>1, DecoderDocument
<1>4. ErrorXml(doc, m.hasDataType, "DATA") =
        Record(m.tree, <<>>, Absent, Undecoded, <<>>,
               IF m.hasDataType THEN "ode" ELSE "unchanged", "DATA")
  BY <1>3, ErrorRecord
<1>5. ErrorXml(doc, m.hasDataType, "DATA") = Expected
  BY <1>2, <1>4, DataErrorRecord
<1>6. /\ Expected' = Expected
      /\ ErrorXml(doc, m.hasDataType, "DATA")' = ErrorXml(doc, m.hasDataType, "DATA")
  BY SameWanted DEF ErrorXml
<1>7. Finishing'
  BY <1>5, <1>6 DEF Finishing, Answered, Done
<1>8. Blanked'
  BY DEF Faithful, Blanked
<1>9. Refusing' /\ Content' /\ Reading' /\ Ready' /\ Layering' /\ Decoding'
  BY DEF Refusing, Content, Reading, Ready, Layering, Decoding
<1> QED
  BY <1>7, <1>8, <1>9 DEF Faithful

(* A step from one of the decoder's stages to the next.                    *)
LEMMA ToDecoding ==
  ASSUME Faithful, stage \in {"decode", "dot2", "unsecured", "frame"},
         stage' \in {"dot2", "unsecured", "frame", "insert"},
         UNCHANGED <<error_doc, m, decode_functionality, opsflag, decode, ats>>,
         doc'.xml = doc.xml, doc'.dataType = doc.dataType, doc'.tree = doc.tree, doc'.bytes = Absent,
         Decoding'
  PROVE  Faithful'
<1>1. /\ Asked' = Asked /\ (Understood' <=> Understood) /\ \A l : RuleOf(l)' = RuleOf(l)
  BY SameWanted
<1>2. Blanked' /\ Ready'
  BY <1>1 DEF Faithful, Blanked, Ready
<1>3. Content'
  BY DEF Faithful, Content, Undecoded
<1>4. Refusing' /\ Reading' /\ Layering' /\ Finishing'
  BY DEF Refusing, Reading, Layering, Finishing, Answered, Done
<1> QED
  BY <1>2, <1>3, <1>4 DEF Faithful

LEMMA TakeBytesFaithful == Sound /\ Clean /\ Faithful /\ TakeBytes => Faithful'
<1> SUFFICES ASSUME Sound, Clean, Faithful, TakeBytes PROVE Faithful'
  OBVIOUS
<1>1. /\ stage = "decode"
      /\ IF decode \cap {"Dot2", "MF"} = {} \/ m.bytes.form = "absent"
           THEN stage' = "template" /\ UNCHANGED <<hstr, doc>>
           ELSE stage' = "dot2" /\ hstr' = m.bytes.hex /\ doc' = [doc EXCEPT !.bytes = Absent]
      /\ UNCHANGED <<decode_functionality, m, error_doc, opsflag, decode, ats>>
  BY DEF TakeBytes, mode, registers
<1>2. /\ m \in Messages /\ decode_functionality /\ Understood /\ decode = Asked /\ doc \in Docs
  BY <1>1 DEF Sound, Types, Place, Room, Written, Faithful, Ready
<1>3. CASE Asked \cap {"Dot2", "MF"} = {} \/ m.bytes.form = "absent"
  <2>1. Expected = RequestError /\ stage' = "template"
    BY <1>1, <1>2, <1>3, DecoderExpects
  <2> QED
    BY <1>1, <2>1, ToRefusal
<1>4. CASE Asked \cap {"Dot2", "MF"} # {} /\ m.bytes.form # "absent"
  <2>1. /\ stage' = "dot2" /\ hstr' = m.bytes.hex /\ doc' = [doc EXCEPT !.bytes = Absent]
    BY <1>1, <1>2, <1>4
  <2>2. Asked' = Asked /\ m' = m
    BY <1>1, SameWanted
  <2>3. Decoding'
    BY <1>4, <2>1, <2>2 DEF Decoding
  <2>4. /\ doc'.xml = doc.xml /\ doc'.dataType = doc.dataType /\ doc'.bytes = Absent
        /\ doc'.tree = doc.tree
    BY <1>2, <2>1 DEF Docs
  <2> QED
    BY <1>1, <2>1, <2>3, <2>4, ToDecoding
<1> QED
  BY <1>3, <1>4


LEMMA Accepts ==
  ASSUME Sound, Faithful, stage \in {"dot2", "frame"}, NEW l \in Asked
  PROVE  Decodes(l) <=> m.bytes.form = "hex" /\ hstr # <<>> /\ hstr[1] = Coded(l)
<1>1. ats[l] = RuleOf(l)
  BY DEF Faithful, Ready
<1>2. hstr # <<>> => Head(hstr) = hstr[1]
  BY DEF Sound, Types, Encoder, Hexes
<1> QED
  BY <1>1, <1>2 DEF Decodes, Coded

LEMMA DecodeDot2Faithful == Sound /\ Clean /\ Faithful /\ DecodeDot2 => Faithful'
<1> SUFFICES ASSUME Sound, Clean, Faithful, DecodeDot2 PROVE Faithful'
  OBVIOUS
<1>1. /\ stage = "dot2"
      /\ \/ "Dot2" \notin decode /\ stage' = "frame"
         \/ "Dot2" \in decode /\ Decodes("Dot2") /\ stage' = "unsecured"
         \/ "Dot2" \in decode /\ ~Decodes("Dot2") /\ stage' = "input"
      /\ UNCHANGED <<decode_functionality, m, error_doc, opsflag, decode, ats, doc, hstr>>
  BY DEF DecodeDot2, mode, registers, encoder
<1>2. /\ decode = Asked /\ hstr = m.bytes.hex
      /\ Asked \cap {"Dot2", "MF"} # {} /\ m.bytes.form # "absent"
  BY <1>1 DEF Faithful, Ready, Decoding
<1>0. doc'.xml = doc.xml /\ doc'.dataType = doc.dataType /\ doc'.tree = doc.tree /\ doc'.bytes = Absent
  BY <1>1 DEF Faithful, Content
<1>3. "Dot2" \in Asked => (Decodes("Dot2") <=> m.bytes.form = "hex" /\ Outer)
  BY <1>1, <1>2, Accepts DEF Outer
<1>4. Asked' = Asked /\ m' = m /\ Rest' = Rest /\ (Outer' <=> Outer)
  BY <1>1, SameWanted
<1>5. CASE "Dot2" \in Asked /\ ~Decodes("Dot2")
  <2>1. ~Valid
    BY <1>3, <1>5 DEF Valid
  <2> QED
    BY <1>1, <1>2, <1>5, <2>1, ToDataError
<1>6. CASE "Dot2" \in Asked /\ Decodes("Dot2")
  <2>1. Decoding'
    BY <1>1, <1>2, <1>3, <1>4, <1>6 DEF Decoding
  <2> QED
    BY <1>0, <1>1, <1>2, <1>6, <2>1, ToDecoding
<1>7. CASE "Dot2" \notin Asked
  <2>1. Rest = hstr
    BY <1>2, <1>7 DEF Rest
  <2>2. stage' = "frame"
    BY <1>1, <1>2, <1>7
  <2>3. Decoding'
    BY <1>1, <1>2, <1>4, <1>7, <2>1, <2>2 DEF Decoding
  <2> QED
    BY <1>0, <1>1, <2>2, <2>3, ToDecoding
<1> QED
  BY <1>5, <1>6, <1>7

LEMMA TakeUnsecuredDataFaithful == Sound /\ Clean /\ Faithful /\ TakeUnsecuredData => Faithful'
<1> SUFFICES ASSUME Sound, Clean, Faithful, TakeUnsecuredData PROVE Faithful'
  OBVIOUS
<1>1. /\ stage = "unsecured"
      /\ \/ Len(hstr) > 1 /\ stage' = "frame" /\ hstr' = Tail(hstr)
         \/ ~(Len(hstr) > 1) /\ stage' = "input"
      /\ UNCHANGED <<decode_functionality, m, error_doc, opsflag, decode, ats, doc>>
  BY DEF TakeUnsecuredData, mode, registers, encoder
<1>2. /\ hstr = m.bytes.hex /\ "Dot2" \in Asked /\ Outer /\ m.bytes.form = "hex"
      /\ Asked \cap {"Dot2", "MF"} # {} /\ m.bytes.form # "absent"
  BY <1>1 DEF Faithful, Decoding
<1>0. doc'.xml = doc.xml /\ doc'.dataType = doc.dataType /\ doc'.tree = doc.tree /\ doc'.bytes = Absent
  BY <1>1 DEF Faithful, Content
<1>3. Asked' = Asked /\ m' = m /\ Rest' = Rest /\ (Outer' <=> Outer)
  BY <1>1, SameWanted
<1>4. CASE Len(hstr) > 1 /\ stage' = "frame" /\ hstr' = Tail(hstr)
  <2>1. hstr' = Rest
    BY <1>2, <1>4 DEF Rest
  <2>2. Decoding'
    BY <1>2, <1>3, <1>4, <2>1 DEF Decoding
  <2> QED
    BY <1>0, <1>1, <1>4, <2>2, ToDecoding
<1>5. CASE ~(Len(hstr) > 1) /\ stage' = "input"
  <2>1. ~Valid
    BY <1>2, <1>5 DEF Valid
  <2> QED
    BY <1>1, <1>5, <2>1, ToDataError
<1> QED
  BY <1>1, <1>4, <1>5

(* The document saved in the end, when it carries no hex strings.          *)
LEMMA ToSaving ==
  ASSUME Sound, Faithful, stage' = "save", UNCHANGED <<error_doc, m, decode_functionality>>,
         doc' \in Docs, doc'.appended = <<>>, doc' = Expected
  PROVE  Faithful'
<1>1. Expected' = Expected
  BY SameWanted
<1>2. Unnamed(doc') = Expected /\ Unnamed(doc)' = Unnamed(doc')
  BY UnnamedRecord DEF Unnamed
<1>3. Blanked' /\ Finishing'
  BY <1>1, <1>2 DEF Faithful, Blanked, Finishing, Answered, Done
<1>4. Refusing' /\ Content' /\ Reading' /\ Ready' /\ Layering' /\ Decoding'
  BY DEF Refusing, Content, Reading, Ready, Layering, Decoding
<1> QED
  BY <1>3, <1>4 DEF Faithful

LEMMA DecodeFrameFaithful == Sound /\ Clean /\ Faithful /\ DecodeFrame => Faithful'
<1> SUFFICES ASSUME Sound, Clean, Faithful, DecodeFrame PROVE Faithful'
  OBVIOUS
<1>1. /\ stage = "frame"
      /\ \/ "MF" \notin decode /\ stage' = "save"
         \/ "MF" \in decode /\ Decodes("MF") /\ stage' = "insert"
         \/ "MF" \in decode /\ ~Decodes("MF") /\ stage' = "input"
      /\ UNCHANGED <<decode_functionality, m, error_doc, opsflag, decode, ats, doc, hstr>>
  BY DEF DecodeFrame, mode, registers, encoder
<1>2. /\ decode = Asked /\ hstr = Rest /\ Understood /\ decode_functionality /\ m \in Messages
      /\ Asked \cap {"Dot2", "MF"} # {} /\ m.bytes.form # "absent" /\ doc.bytes = Absent
      /\ "Dot2" \in Asked => m.bytes.form = "hex" /\ Outer /\ Len(m.bytes.hex) > 1
  BY <1>1 DEF Faithful, Ready, Decoding, Content, Sound, Types, Place, Room
<1>0. doc'.xml = doc.xml /\ doc'.dataType = doc.dataType /\ doc'.tree = doc.tree /\ doc'.bytes = Absent
  BY <1>1, <1>2
<1>3. "MF" \in Asked => (Decodes("MF") <=> Valid)
  <2>1. "MF" \in Asked =>
          (Decodes("MF") <=> m.bytes.form = "hex" /\ Rest # <<>> /\ Rest[1] = Coded("MF"))
    BY <1>1, <1>2, Accepts
  <2> QED
    BY <1>2, <2>1 DEF Valid
<1>4. Asked' = Asked /\ m' = m /\ (Valid' <=> Valid)
  BY <1>1, SameWanted
<1>5. CASE "MF" \in Asked /\ ~Decodes("MF")
  BY <1>1, <1>2, <1>3, <1>5, ToDataError
<1>6. CASE "MF" \in Asked /\ Decodes("MF")
  <2>1. stage' = "insert"
    BY <1>1, <1>2, <1>6
  <2>2. Decoding'
    BY <1>2, <1>3, <1>4, <1>6, <2>1 DEF Decoding
  <2> QED
    BY <1>0, <1>1, <2>1, <2>2, ToDecoding
<1>7. CASE "MF" \notin Asked
  <2>1. Valid
    BY <1>2, <1>7 DEF Valid
  <2>2. Expected = Record(m.tree, <<>>, Absent, Undecoded, <<>>, "unchanged", "none")
    BY <1>2, <1>7, <2>1, DecoderExpects
  <2>3. doc = Record(m.tree, <<>>, Absent, Undecoded, <<>>, "unchanged", "none")
    BY <1>1, <1>2, DecoderDocument
  <2>4. doc' = Expected /\ stage' = "save" /\ doc' \in Docs /\ doc'.appended = <<>>
    BY <1>1, <1>2, <1>7, <2>2, <2>3 DEF Sound, Types, Written, Clean, Making
  <2> QED
    BY <1>1, <2>4, ToSaving
<1> QED
  BY <1>5, <1>6, <1>7

LEMMA InsertXmlFaithful == Sound /\ Clean /\ Faithful /\ InsertXml => Faithful'
<1> SUFFICES ASSUME Sound, Clean, Faithful, InsertXml PROVE Faithful'
  OBVIOUS
<1>1. /\ stage = "insert"
      /\ doc' = [doc EXCEPT !.xml = TRUE, !.dataType = IF m.hasDataType THEN "xml" ELSE @]
      /\ stage' = IF m.hasDataType THEN "save" ELSE "template"
      /\ UNCHANGED <<decode_functionality, m, error_doc>>
  BY DEF InsertXml, mode
<1>2. /\ Understood /\ decode_functionality /\ m \in Messages /\ m.hasDataType \in BOOLEAN
      /\ Asked \cap {"Dot2", "MF"} # {} /\ m.bytes.form # "absent" /\ doc.bytes = Absent
      /\ "MF" \in Asked /\ Valid
  BY <1>1, MessageTypes DEF Faithful, Ready, Decoding, Content, Sound, Types, Place, Room
<1>3. CASE ~m.hasDataType
  <2>1. Expected = RequestError /\ stage' = "template"
    BY <1>1, <1>2, <1>3, DecoderExpects
  <2> QED
    BY <1>1, <2>1, ToRefusal
<1>4. CASE m.hasDataType
  <2> DEFINE a == [doc EXCEPT !.xml = Decoded]
  <2>1. doc = Record(m.tree, <<>>, Absent, Undecoded, <<>>, "unchanged", "none")
    BY <1>1, <1>2, DecoderDocument
  <2>2. a = Record(m.tree, <<>>, Absent, Decoded, <<>>, "unchanged", "none")
    BY <2>1 DEF Record
  <2>3. doc' = [a EXCEPT !.dataType = "xml"]
    BY <1>1, <1>4 DEF Decoded
  <2> HIDE DEF a
  <2>4. doc' = Record(m.tree, <<>>, Absent, Decoded, <<>>, "xml", "none")
    BY <2>2, <2>3 DEF Record
  <2>5. Expected = Record(m.tree, <<>>, Absent, Decoded, <<>>, "xml", "none")
    BY <1>2, <1>4, DecoderExpects
  <2>6. doc'.appended = <<>>
    BY <2>4 DEF Record
  <2>7. doc' \in Docs
    BY InsertXmlSound DEF Sound, Types, Written
  <2> QED
    BY <1>1, <1>4, <2>4, <2>5, <2>6, <2>7, ToSaving
<1> QED
  BY <1>2, <1>3, <1>4

LEMMA SavingFaithful == Sound /\ Clean /\ Faithful /\ Saving => Faithful'
<1> SUFFICES ASSUME Sound, Clean, Faithful, Saving PROVE Faithful'
  OBVIOUS
<1>1. /\ stage \in {"save", "template", "input"} /\ stage' = "idle"
      /\ \/ /\ stage = "save" /\ stream' = Append(stream, doc)
            /\ UNCHANGED <<doc, error_doc, r>>
         \/ /\ stage = "template" /\ error_doc' = ErrorXml(error_doc, TRUE, "REQUEST")
            /\ stream' = Append(stream, error_doc') /\ doc' = doc /\ r' = ~file
         \/ /\ stage = "input" /\ doc' = ErrorXml(doc, m.hasDataType, "DATA")
            /\ stream' = Append(stream, doc') /\ error_doc' = error_doc /\ r' = ~file
      /\ UNCHANGED <<decode_functionality, m>>
  BY SavingCases
<1>2. /\ doc \in Docs /\ m.hasDataType \in BOOLEAN /\ stream = <<>>
      /\ stage = "input" => doc.appended = <<>>
  BY <1>1, MessageTypes DEF Sound, Types, Place, Written, Clean, Making
<1>3. \A d : Append(<<>>, d)[1] = d
  OBVIOUS
<1>4. ErrorXml(error_doc, TRUE, "REQUEST") = RequestError
  BY RequestErrorRecord DEF Faithful, Blanked
<1>5. Unnamed(stream'[1]) = Expected
  <2>1. CASE stage = "save"
    BY <1>1, <1>2, <1>3, <2>1 DEF Faithful, Finishing
  <2>2. CASE stage = "template"
    <3>1. stream'[1] = RequestError
      BY <1>1, <1>2, <1>3, <1>4, <2>2
    <3> QED
      BY <2>2, <3>1, UnnamedRecord DEF Faithful, Refusing
  <2>3. CASE stage = "input"
    <3>1. stream'[1] = ErrorXml(doc, m.hasDataType, "DATA")
      BY <1>1, <1>2, <1>3, <2>3
    <3>2. /\ ErrorXml(doc, m.hasDataType, "DATA") \in Docs
          /\ ErrorXml(doc, m.hasDataType, "DATA").appended = <<>>
      BY <1>2, <2>3, ErrorDocuments
    <3>3. Unnamed(stream'[1]) = ErrorXml(doc, m.hasDataType, "DATA")
      BY <3>1, <3>2, UnnamedRecord
    <3> QED
      BY <2>3, <3>3 DEF Faithful, Finishing
  <2> QED
    BY <1>1, <2>1, <2>2, <2>3
<1>6. Expected' = Expected /\ Unnamed(stream[1])' = Unnamed(stream'[1])
  BY <1>1, SameWanted DEF Unnamed
<1>7. Finishing'
  BY <1>1, <1>5, <1>6 DEF Finishing
<1>8. Blanked'
  BY <1>1, <1>4 DEF Faithful, Blanked
<1>9. Refusing' /\ Content' /\ Reading' /\ Ready' /\ Layering' /\ Decoding'
  BY <1>1 DEF Refusing, Content, Reading, Ready, Layering, Decoding
<1> QED
  BY <1>7, <1>8, <1>9 DEF Faithful

LEMMA FaithfulStep == Sound /\ Clean /\ Faithful /\ [Next]_vars => Faithful'
<1> SUFFICES ASSUME Sound, Clean, Faithful, [Next]_vars PROVE Faithful'
  OBVIOUS
<1>1. CASE UNCHANGED vars
  <2>1. UNCHANGED <<decode_functionality, file, stage, m, i, atstype, opsflag, decode, ats, hex_data,
                    hstr, doc, error_doc, stream, handled>>
    BY <1>1 DEF vars, mode, registers, encoder, output
  <2>2. /\ Wanted' = Wanted /\ Nested' = Nested /\ (Whole' <=> Whole)
        /\ (Outer' <=> Outer) /\ Rest' = Rest /\ (Valid' <=> Valid)
        /\ (Understood' <=> Understood) /\ Asked' = Asked /\ Expected' = Expected
        /\ \A k : RuleAt(k)' = RuleAt(k)
        /\ \A l : RuleOf(l)' = RuleOf(l)
    BY <2>1, SameWanted
  <2>3. Blanked' /\ Refusing' /\ Content'
    BY <2>1, <2>2 DEF Faithful, Blanked, Refusing, Content
  <2>4. Reading'
    <3>1. RuleAt(i - 1)' = RuleAt(i - 1)
      BY <2>1 DEF RuleAt
    <3>2. TypesTo(i - 1)' = TypesTo(i - 1) /\ \A l, k : LastOf(l, k, i - 1)' <=> LastOf(l, k, i - 1)
      BY <2>1 DEF TypesTo, LastOf
    <3> QED
      BY <2>1, <2>2, <3>1, <3>2 DEF Faithful, Reading
  <2>5. Ready' /\ Decoding'
    BY <2>1, <2>2 DEF Faithful, Ready, Decoding
  <2>6. Layering'
    BY <2>1, <2>2 DEF Faithful, Layering
  <2>7. Finishing'
    <3>1. /\ ErrorXml(doc, m.hasDataType, "DATA")' = ErrorXml(doc, m.hasDataType, "DATA")
          /\ Unnamed(doc)' = Unnamed(doc) /\ Unnamed(stream[1])' = Unnamed(stream[1])
          /\ (Answered' <=> Answered)
      BY <2>1 DEF ErrorXml, Unnamed, Answered, Done
    <3> QED
      BY <2>1, <2>2, <3>1 DEF Faithful, Finishing
  <2> QED
    BY <2>3, <2>4, <2>5, <2>6, <2>7 DEF Faithful
<1> QED
  BY <1>1, TakingFaithful, ResetFaithful, ReadEncodingFaithful, EndRequirementsFaithful,
     SelectProtocolFaithful, EncodeLayerFaithful, AppendHexFaithful, TakeBytesFaithful,
     DecodeDot2Faithful, TakeUnsecuredDataFaithful, DecodeFrameFaithful, InsertXmlFaithful,
     SavingFaithful, NextTaking

LEMMA AlwaysFaithful == Spec => [](Sound /\ Clean /\ Faithful)
BY SoundInit, SoundStep, CleanInit, CleanStep, FaithfulInit, FaithfulStep, PTL DEF Spec

(* The answer depends on the message and the mode alone, for every series  *)
(* of messages.                                                            *)
THEOREM AnswersRight == Spec => []AnswerDependsOnMessageAlone
<1>1. Sound /\ Clean /\ Faithful => AnswerDependsOnMessageAlone
  BY DEF AnswerDependsOnMessageAlone, Clean, Closed, Faithful, Finishing
<1> QED
  BY <1>1, AlwaysFaithful, PTL


(* An answer of the encoder without an error has every layer.              *)
LEMMA EncodedWhole ==
  ASSUME m \in Messages, ~decode_functionality, Expected.code = "none"
  PROVE  /\ Expected = Record(<<>>, <<>>, m.bytes, Undecoded, HexOfAll, "hex", "none")
         /\ Understood /\ Asked # {} /\ m.hasDataType
<1> DEFINE c    == Chain(Asked)
           bad  == {k \in DOMAIN c : c[k] \in m.rejected}
           most == CHOOSE k \in bad : \A l \in bad : l <= k
           doc1 == [Loaded(m) EXCEPT !.tree = <<>>, !.appended = HexOfAll, !.dataType = "hex"]
<1>1. RequestError.code # "none"
  <2>1. RequestError.code = "REQUEST"
    BY RequestErrorRecord DEF Record
  <2> QED
    BY <2>1
<1>2. ASSUME NEW t PROVE DataError(t).code # "none"
  <2>1. DataError(t).code = "DATA"
    BY DataErrorRecord DEF Record
  <2> QED
    BY <2>1
<1>3. Understood /\ Expected = ExpectedEncoded
  BY <1>1 DEF Expected
<1>4. ExpectedEncoded =
        CASE ~Present(Loaded(m), c) -> RequestError
          [] Present(Loaded(m), c) /\ bad # {} -> DataError(SubSeq(c, 1, most - 1))
          [] OTHER -> IF ~m.hasDataType THEN RequestError ELSE doc1
  BY DEF ExpectedEncoded, HexOfAll
<1>5. c \in Seq(Layers) /\ DOMAIN c = 1..Len(c)
  BY ChainType
<1> HIDE DEF c, most, doc1
<1>6. Present(Loaded(m), c)
  BY <1>1, <1>3, <1>4
<1>7. bad = {}
  BY <1>2, <1>3, <1>4, <1>6
<1>8. m.hasDataType
  BY <1>1, <1>3, <1>4, <1>6, <1>7
<1>9. \A j \in 1..Len(c) : c[j] \notin m.rejected
  BY <1>5, <1>7
<1>10. Expected = Record(<<>>, <<>>, m.bytes, Undecoded, HexOfAll, "hex", "none")
  BY <1>3, <1>6, <1>8, <1>9, EncodedCases DEF c
<1> QED
  BY <1>3, <1>8, <1>10 DEF Understood

LEMMA HexOfAllLayers ==
  ASSUME Asked # {}
  PROVE  /\ HexOfAll = [k \in 1..Len(Wanted) |-> HexOfAll[k]]
         /\ Len(Wanted) = Cardinality(Asked)
         /\ {HexOfAll[Len(Wanted)][k].layer : k \in DOMAIN HexOfAll[Len(Wanted)]} = Asked
         /\ \A k \in 2..Len(Wanted) : Tail(HexOfAll[k]) = HexOfAll[k - 1]
<1> DEFINE L == Len(Wanted)
<1>0. Asked \in SUBSET Layers
  BY DEF Asked
<1>1. /\ L \in Nat /\ L >= 1 /\ Len(Nested) = L
      /\ Nested \in Seq([layer : Layers, rule : {RuleOf(l) : l \in Layers}])
      /\ \A k \in 1..L : Nested[k] = Coded(Wanted[k])
  BY WantedTypes
<1>2. /\ \A k \in 1..L : Wanted[k] \in Asked
      /\ \A l \in Asked : \E k \in 1..L : Wanted[k] = l
      /\ L = Cardinality(Asked)
  BY <1>0, Chains DEF Wanted
<1>3. HexOfAll = [k \in 1..L |-> SubSeq(Nested, L + 1 - k, L)]
  BY DEF HexOfAll, Wanted, Nested
<1> HIDE DEF L
<1>4. HexOfAll = [k \in 1..L |-> HexOfAll[k]]
  BY <1>3
<1>5. {HexOfAll[L][k].layer : k \in DOMAIN HexOfAll[L]} = Asked
  <2>1. L \in 1..L /\ L + 1 - L = 1
    BY <1>1
  <2>2. HexOfAll[L] = SubSeq(Nested, 1, L)
    BY <1>3, <2>1
  <2>3. HexOfAll[L] = Nested
    BY <1>1, <2>2, SubSeqFull
  <2>4. DOMAIN Nested = 1..L
    BY <1>1
  <2>5. \A k \in 1..L : Nested[k].layer = Wanted[k]
    BY <1>1 DEF Coded
  <2>6. {Nested[k].layer : k \in 1..L} = {Wanted[k] : k \in 1..L}
    BY <2>5
  <2>7. {Wanted[k] : k \in 1..L} = Asked
    BY <1>2
  <2>8. {HexOfAll[L][k].layer : k \in DOMAIN HexOfAll[L]} = {Nested[k].layer : k \in 1..L}
    BY <2>3, <2>4
  <2> HIDE DEF HexOfAll
  <2> QED
    BY <2>6, <2>7, <2>8
<1>6. ASSUME NEW k \in 2..L PROVE Tail(HexOfAll[k]) = HexOfAll[k - 1]
  <2> DEFINE a == L + 1 - k
             s == SubSeq(Nested, a + 1, L)
  <2>1. /\ a \in 1..L /\ L \in a..L /\ a + 1 = L + 1 - (k - 1)
        /\ k \in 1..L /\ k - 1 \in 1..L /\ a + 1 \in 1..L
    BY <1>1
  <2>2. HexOfAll[k] = SubSeq(Nested, a, L) /\ HexOfAll[k - 1] = s
    BY <1>3, <2>1
  <2> HIDE DEF a
  <2>3. SubSeq(Nested, a, L) = <<Nested[a]>> \o s
    BY <1>1, <2>1, SubSeqRecursiveFirst
  <2>4. s \in Seq([layer : Layers, rule : {RuleOf(l) : l \in Layers}])
    <3> DEFINE S == [layer : Layers, rule : {RuleOf(l) : l \in Layers}]
    <3>1. Nested \in Seq(S) /\ a + 1 \in Int /\ L \in Int /\ \A j \in a + 1..L : Nested[j] \in S
      <4> HIDE DEF S
      <4>1. Nested \in Seq(S)
        BY <1>1 DEF S
      <4> QED
        BY <1>1, <2>1, <4>1
    <3> HIDE DEF S
    <3>2. SubSeq(Nested, a + 1, L) \in Seq(S)
      BY <3>1, SubSeqProperties
    <3> QED
      BY <3>2 DEF S
  <2> HIDE DEF s
  <2>5. Tail(<<Nested[a]>> \o s) = s
    BY <2>4
  <2> QED
    BY <2>2, <2>3, <2>5
<1> QED
  BY <1>2, <1>4, <1>5, <1>6 DEF L

(* Encoding is all or nothing, for every message.                          *)
THEOREM EncodesWhole == Spec => []EncodesAllLayers
<1>1. Sound /\ Clean /\ Faithful => EncodesAllLayers
  <2> SUFFICES ASSUME Sound, Clean, Faithful, Answered, ~decode_functionality,
                      stream[1].code = "none"
               PROVE  LET a == stream[1].appended IN
                      /\ Len(a) = Cardinality(Asked)
                      /\ {a[Len(a)].hex[k].layer : k \in DOMAIN a[Len(a)].hex} = Asked
                      /\ \A k \in 2..Len(a) : Tail(a[k].hex) = a[k - 1].hex
    BY DEF EncodesAllLayers
  <2> DEFINE a == stream[1].appended
             L == Len(Wanted)
             hexes == [k \in DOMAIN a |-> a[k].hex]
  <2>1. Len(stream) = 1 /\ stream \in Seq(Docs) /\ m \in Messages
    BY DEF Sound, Types, Written, Place, Clean, Closed, Answered
  <2>2. stream[1] \in Docs
    BY <2>1
  <2>3. a \in Seq([name : Layers \cup FreedNames, hex : Hexes])
    BY <2>2 DEF Docs
  <2>4. Unnamed(stream[1]) = Expected
    BY DEF Faithful, Finishing
  <2>5. Unnamed(stream[1]).code = "none" /\ Unnamed(stream[1]).appended = hexes
    <3>1. Unnamed(stream[1]) = [stream[1] EXCEPT !.appended = hexes]
      BY DEF Unnamed
    <3> HIDE DEF hexes
    <3> QED
      BY <2>2, <3>1 DEF Docs
  <2>6. Expected = Record(<<>>, <<>>, m.bytes, Undecoded, HexOfAll, "hex", "none") /\ Asked # {}
    BY <2>1, <2>4, <2>5, EncodedWhole
  <2>7. hexes = HexOfAll
    <3>1. Expected.appended = HexOfAll
      BY <2>6 DEF Record
    <3> QED
      BY <2>4, <2>5, <3>1
  <2>8. /\ HexOfAll = [k \in 1..L |-> HexOfAll[k]] /\ L = Cardinality(Asked)
        /\ {HexOfAll[L][k].layer : k \in DOMAIN HexOfAll[L]} = Asked
        /\ \A k \in 2..L : Tail(HexOfAll[k]) = HexOfAll[k - 1]
    BY <2>6, HexOfAllLayers
  <2>9. L \in Nat /\ L >= 1
    BY <2>6, WantedTypes
  <2> HIDE DEF a, L
  <2>10. DOMAIN a = 1..L
    <3>1. DOMAIN hexes = DOMAIN HexOfAll
      BY <2>7
    <3>2. DOMAIN hexes = DOMAIN a
      OBVIOUS
    <3>3. DOMAIN HexOfAll = 1..L
      <4> HIDE DEF HexOfAll
      <4> QED
        BY <2>8
    <3> QED
      BY <3>1, <3>2, <3>3
  <2>11. Len(a) = L
    BY <2>3, <2>9, <2>10
  <2>12. \A k \in 1..L : a[k].hex = HexOfAll[k]
    <3>1. \A k \in 1..L : hexes[k] = a[k].hex
      BY <2>10
    <3> QED
      BY <2>7, <3>1
  <2>13. L \in 1..L /\ \A k \in 2..L : k \in 1..L /\ k - 1 \in 1..L
    BY <2>9
  <2> HIDE DEF hexes, HexOfAll
  <2>14. a[Len(a)].hex = HexOfAll[L]
    BY <2>11, <2>12, <2>13
  <2>15. \A k \in 2..L : Tail(a[k].hex) = a[k - 1].hex
    BY <2>8, <2>12, <2>13
  <2>16. /\ Len(a) = Cardinality(Asked)
         /\ {a[Len(a)].hex[k].layer : k \in DOMAIN a[Len(a)].hex} = Asked
         /\ \A k \in 2..Len(a) : Tail(a[k].hex) = a[k - 1].hex
    BY <2>8, <2>11, <2>14, <2>15
  <2> QED
    BY <2>16 DEF a
<1> QED
  BY <1>1, AlwaysFaithful, PTL

-----------------------------------------------------------------------------
(* The way to the answer. *)

(* What is left of a list of n entries or parts at k. *)
Unread(k, n) == IF k > n THEN 0 ELSE n + 1 - k

(* Steps to the answer at most at a stage s: n encodings, e of them to     *)
(* read, p parts to encode.                                                *)
WayFrom(s, n, e, p) ==
  CASE s = "idle"                          -> 0
    [] s \in {"save", "template", "input"} -> 1
    [] s = "insert"                        -> 2
    [] s = "frame"                         -> 3
    [] s = "unsecured"                     -> 4
    [] s = "dot2"                          -> 5
    [] s = "layer"                         -> 2 + p
    [] s \in {"encode", "decode"}          -> 6
    [] s = "entry"                         -> 7 + e
    [] s = "requirements"                  -> 8 + n

EntriesLeft == Unread(i, Len(m.encodings))
PartsLeft   == Unread(i, Len(protocol))
StepsLeft   == WayFrom(stage, Len(m.encodings), EntriesLeft, PartsLeft)

(* Every step between a message and its answer, thrown exceptions          *)
(* included, leads towards the answer, which is never further away than    *)
(* the message has encodings, and eight steps (acm.cpp:929-1123,           *)
(* 1573-1630).                                                             *)
AnswerApproaches ==
  [][stage # "idle" => /\ StepsLeft \in 1..(8 + Len(m.encodings))
                       /\ StepsLeft' \in 0..(StepsLeft - 1)
                       /\ m' = m]_vars

(* What is left of a list is at most its length, and one less each time.   *)
LEMMA UnreadValue ==
  ASSUME NEW k \in Nat \ {0}, NEW n \in Nat
  PROVE  /\ Unread(k, n) \in 0..n
         /\ k <= n => Unread(k, n) \in 1..n /\ Unread(k + 1, n) = Unread(k, n) - 1
BY DEF Unread

(* The way from each stage. *)
LEMMA WayFromValue ==
  ASSUME NEW n, NEW e, NEW p
  PROVE  /\ WayFrom("idle", n, e, p) = 0
         /\ \A s \in {"save", "template", "input"} : WayFrom(s, n, e, p) = 1
         /\ WayFrom("insert", n, e, p) = 2
         /\ WayFrom("frame", n, e, p) = 3
         /\ WayFrom("unsecured", n, e, p) = 4
         /\ WayFrom("dot2", n, e, p) = 5
         /\ WayFrom("layer", n, e, p) = 2 + p
         /\ \A s \in {"encode", "decode"} : WayFrom(s, n, e, p) = 6
         /\ WayFrom("entry", n, e, p) = 7 + e
         /\ WayFrom("requirements", n, e, p) = 8 + n
BY DEF WayFrom

(* protocol_ has at most one part for each layer of the nest. *)
LEMMA ProtocolLength == Sound /\ stage = "layer" => Len(protocol) \in 0..3
<1> SUFFICES ASSUME Sound, stage = "layer" PROVE Len(protocol) \in 0..3
  OBVIOUS
<1>1. Len(protocol) = Len(Chain(opsflag))
  BY ProtocolParts DEF Sound, Room, Types, Registers
<1>2. Len(Chain(opsflag)) \in 0..3
  <2> DEFINE only(l) == IF l \in opsflag THEN <<l>> ELSE <<>>
  <2>1. \A l \in Layers : only(l) \in Seq(Layers) /\ Len(only(l)) \in 0..1
    OBVIOUS
  <2>2. Chain(opsflag) = only("Asd") \o only("Dot2") \o only("MF")
    BY DEF Chain
  <2> HIDE DEF only
  <2>3. \A s, t \in Seq(Layers) : s \o t \in Seq(Layers) /\ Len(s \o t) = Len(s) + Len(t)
    OBVIOUS
  <2>4. /\ only("Asd") \in Seq(Layers) /\ only("Dot2") \in Seq(Layers) /\ only("MF") \in Seq(Layers)
        /\ Len(only("Asd")) \in 0..1 /\ Len(only("Dot2")) \in 0..1 /\ Len(only("MF")) \in 0..1
    BY <2>1 DEF Layers
  <2>5. only("Asd") \o only("Dot2") \in Seq(Layers)
        /\ Len(only("Asd") \o only("Dot2")) = Len(only("Asd")) + Len(only("Dot2"))
    BY <2>3, <2>4
  <2>6. Len((only("Asd") \o only("Dot2")) \o only("MF"))
          = Len(only("Asd") \o only("Dot2")) + Len(only("MF"))
    BY <2>3, <2>4, <2>5
  <2> QED
    BY <2>2, <2>4, <2>5, <2>6
<1> QED
  BY <1>1, <1>2

(* The lengths and what is left of them. *)
LEMMA LeftTypes ==
  Sound => /\ stage \in Stages
           /\ Len(m.encodings) \in Nat /\ EntriesLeft \in 0..Len(m.encodings)
           /\ stage = "layer" => PartsLeft \in 0..3
<1> SUFFICES ASSUME Sound
             PROVE  /\ stage \in Stages
                    /\ Len(m.encodings) \in Nat /\ EntriesLeft \in 0..Len(m.encodings)
                    /\ stage = "layer" => PartsLeft \in 0..3
  OBVIOUS
<1>1. Len(m.encodings) \in Nat /\ i \in Nat \ {0} /\ stage \in Stages
  BY MessageTypes DEF Sound, Types, Place
<1>2. EntriesLeft \in 0..Len(m.encodings)
  BY <1>1, UnreadValue DEF EntriesLeft
<1>3. ASSUME stage = "layer" PROVE PartsLeft \in 0..3
  <2> DEFINE parts == Len(protocol)
             left  == PartsLeft
  <2>1. parts \in 0..3
    BY <1>3, ProtocolLength
  <2>2. left = Unread(i, parts)
    BY DEF PartsLeft
  <2> HIDE DEF parts, left
  <2>3. parts \in Nat /\ i \in Nat \ {0}
    BY <1>1, <2>1
  <2>4. Unread(i, parts) \in 0..parts
    BY <2>3, UnreadValue
  <2>5. left \in 0..3
    BY <2>1, <2>2, <2>4
  <2> QED
    BY <2>5 DEF left
<1> QED
  BY <1>1, <1>2, <1>3

(* Between a message and its answer there is at least one step to take. *)
LEMMA StepsLeftType ==
  Sound /\ stage # "idle" => StepsLeft \in 1..(8 + Len(m.encodings))
<1> SUFFICES ASSUME Sound, stage # "idle" PROVE StepsLeft \in 1..(8 + Len(m.encodings))
  OBVIOUS
<1> DEFINE n == Len(m.encodings)
<1>1. n \in Nat /\ EntriesLeft \in 0..n /\ (stage = "layer" => PartsLeft \in 0..3)
  BY LeftTypes
<1>2. stage \in Stages
  BY LeftTypes
<1>3. StepsLeft = WayFrom(stage, n, EntriesLeft, PartsLeft)
  BY DEF StepsLeft
<1> SUFFICES StepsLeft \in 1..(8 + n)
  OBVIOUS
<1> HIDE DEF n
<1>4. CASE stage = "layer"
  BY <1>1, <1>3, <1>4, WayFromValue
<1>5. CASE stage = "entry"
  BY <1>1, <1>3, <1>5, WayFromValue
<1>6. CASE stage = "requirements"
  BY <1>1, <1>3, <1>6, WayFromValue
<1>7. CASE stage \notin {"layer", "entry", "requirements"}
  <2>1. WayFrom(stage, n, EntriesLeft, PartsLeft) \in {1, 2, 3, 4, 5, 6}
    BY <1>2, <1>7, WayFromValue DEF Stages
  <2> QED
    BY <1>1, <1>3, <2>1
<1> QED
  BY <1>4, <1>5, <1>6, <1>7

(* Where the steps lead from and to. *)
Towards ==
  \/ stage = "requirements" /\ stage' \in {"entry", "template"} /\ i' = 1
  \/ stage = "entry" /\ i <= Len(m.encodings) /\ i' = i + 1 /\ stage' \in {"entry", "template"}
  \/ stage = "entry" /\ stage' \in {"template", "decode", "encode"}
  \/ stage = "encode" /\ stage' = "layer"
  \/ /\ stage = "layer" /\ stage' = "layer" /\ i <= Len(protocol)
     /\ i' = i + 1 /\ protocol' = protocol
  \/ stage = "layer" /\ stage' \in {"template", "input", "save"}
  \/ stage = "decode" /\ stage' \in {"template", "dot2"}
  \/ stage = "dot2" /\ stage' \in {"frame", "unsecured", "input"}
  \/ stage = "unsecured" /\ stage' \in {"frame", "input"}
  \/ stage = "frame" /\ stage' \in {"save", "insert", "input"}
  \/ stage = "insert" /\ stage' \in {"save", "template"}
  \/ stage \in {"save", "template", "input"} /\ stage' = "idle"

(* Every step between a message and its answer is one of these. *)
LEMMA StepsLeadTowards == stage # "idle" /\ Next => Towards /\ m' = m
<1> SUFFICES ASSUME stage # "idle", Next PROVE Towards /\ m' = m
  OBVIOUS
<1> USE DEF Goto
<1>1. ~Receive /\ ~FileTestUnopened
      /\ \A encode \in BOOLEAN : ~FileTest(encode) /\ ~FileTestEmpty(encode)
  BY DEF Receive, FileTest, FileTestEmpty, FileTestUnopened
<1>2. CASE ResetRequirements
  BY <1>2 DEF ResetRequirements, Towards
<1>3. CASE ReadEncoding
  BY <1>3 DEF ReadEncoding, Towards
<1>4. CASE EndRequirements
  BY <1>4 DEF EndRequirements, Towards
<1>5. CASE SelectProtocol
  BY <1>5 DEF SelectProtocol, Towards
<1>6. CASE EncodeLayer
  BY <1>6 DEF EncodeLayer, Towards
<1>7. CASE AppendHex
  BY <1>7 DEF AppendHex, Towards
<1>8. CASE TakeBytes
  BY <1>8 DEF TakeBytes, Towards
<1>9. CASE DecodeDot2 \/ TakeUnsecuredData
  BY <1>9 DEF DecodeDot2, TakeUnsecuredData, Towards
<1>10. CASE DecodeFrame \/ InsertXml
  BY <1>10 DEF DecodeFrame, InsertXml, Towards
<1>11. CASE Save \/ CatchRequestError \/ CatchDataError
  BY <1>11 DEF Save, CatchRequestError, CatchDataError, Towards
<1> QED
  BY <1>1, <1>2, <1>3, <1>4, <1>5, <1>6, <1>7, <1>8, <1>9, <1>10, <1>11 DEF Next

(* Nearer by one step at least. *)
LEMMA TowardsIsNearer ==
  ASSUME Sound, Sound', Towards, m' = m
  PROVE  StepsLeft' \in 0..(StepsLeft - 1)
<1> DEFINE n  == Len(m.encodings)
           e  == EntriesLeft
           p  == PartsLeft
           e1 == EntriesLeft'
           p1 == PartsLeft'
<1>1. /\ n \in Nat /\ e \in 0..n /\ (stage = "layer" => p \in 0..3)
      /\ i \in Nat \ {0}
  BY LeftTypes DEF Sound, Types, Place
<1>2. (/\ Len(m.encodings) \in Nat /\ EntriesLeft \in 0..Len(m.encodings)
       /\ stage = "layer" => PartsLeft \in 0..3)'
  BY LeftTypes, PTL
<1>3. e1 \in 0..n /\ (stage' = "layer" => p1 \in 0..3)
  BY <1>2
<1>4. StepsLeft = WayFrom(stage, n, e, p) /\ StepsLeft' = WayFrom(stage', n, e1, p1)
  BY DEF StepsLeft
<1>5. (stage = "entry" /\ i <= n /\ i' = i + 1) => e1 = e - 1 /\ e \in 1..n
  <2> SUFFICES ASSUME i <= n, i' = i + 1 PROVE e1 = e - 1 /\ e \in 1..n
    OBVIOUS
  <2>1. e = Unread(i, n) /\ e1 = Unread(i + 1, n)
    BY DEF EntriesLeft
  <2> QED
    BY <1>1, <2>1, UnreadValue
<1>6. (stage = "layer" /\ i <= Len(protocol) /\ i' = i + 1 /\ protocol' = protocol)
        => p1 = p - 1 /\ p \in 1..3
  <2> SUFFICES ASSUME stage = "layer", i <= Len(protocol), i' = i + 1, protocol' = protocol
               PROVE  p1 = p - 1 /\ p \in 1..3
    OBVIOUS
  <2>1. p = Unread(i, Len(protocol)) /\ p1 = Unread(i + 1, Len(protocol))
    BY DEF PartsLeft
  <2>2. Len(protocol) \in 0..3
    BY ProtocolLength
  <2>3. Len(protocol) \in Nat
    BY <2>2
  <2> QED
    BY <1>1, <2>1, <2>2, <2>3, UnreadValue
<1> HIDE DEF n, e, p, e1, p1
<1>7. CASE stage = "requirements" /\ stage' \in {"entry", "template"} /\ i' = 1
  BY <1>1, <1>3, <1>4, <1>7, WayFromValue
<1>8. CASE /\ stage = "entry" /\ i <= Len(m.encodings) /\ i' = i + 1
           /\ stage' \in {"entry", "template"}
  <2>1. e1 = e - 1 /\ e \in 1..n
    BY <1>5, <1>8 DEF n
  <2>2. StepsLeft = 7 + e /\ StepsLeft' \in {7 + e1, 1}
    BY <1>4, <1>8, WayFromValue
  <2> QED
    BY <1>1, <2>1, <2>2
<1>9. CASE stage = "entry" /\ stage' \in {"template", "decode", "encode"}
  <2>1. StepsLeft = 7 + e /\ StepsLeft' \in {1, 6}
    BY <1>4, <1>9, WayFromValue
  <2> QED
    BY <1>1, <2>1
<1>10. CASE stage = "encode" /\ stage' = "layer"
  <2>1. StepsLeft = 6 /\ StepsLeft' = 2 + p1
    BY <1>4, <1>10, WayFromValue
  <2> QED
    BY <1>3, <1>10, <2>1
<1>11. CASE /\ stage = "layer" /\ stage' = "layer" /\ i <= Len(protocol)
            /\ i' = i + 1 /\ protocol' = protocol
  <2>1. StepsLeft = 2 + p /\ StepsLeft' = 2 + p1
    BY <1>4, <1>11, WayFromValue
  <2> QED
    BY <1>6, <1>11, <2>1
<1>12. CASE stage = "layer" /\ stage' \in {"template", "input", "save"}
  <2>1. StepsLeft = 2 + p /\ StepsLeft' = 1
    BY <1>4, <1>12, WayFromValue
  <2> QED
    BY <1>1, <1>12, <2>1
<1>13. CASE \/ stage = "decode" /\ stage' \in {"template", "dot2"}
            \/ stage = "dot2" /\ stage' \in {"frame", "unsecured", "input"}
            \/ stage = "unsecured" /\ stage' \in {"frame", "input"}
  <2>1. \/ StepsLeft = 6 /\ StepsLeft' \in {1, 5}
        \/ StepsLeft = 5 /\ StepsLeft' \in {1, 3, 4}
        \/ StepsLeft = 4 /\ StepsLeft' \in {1, 3}
    BY <1>4, <1>13, WayFromValue
  <2> QED
    BY <2>1
<1>14. CASE \/ stage = "frame" /\ stage' \in {"save", "insert", "input"}
            \/ stage = "insert" /\ stage' \in {"save", "template"}
            \/ stage \in {"save", "template", "input"} /\ stage' = "idle"
  <2>1. \/ StepsLeft = 3 /\ StepsLeft' \in {1, 2}
        \/ StepsLeft = 2 /\ StepsLeft' = 1
        \/ StepsLeft = 1 /\ StepsLeft' = 0
    BY <1>4, <1>14, WayFromValue
  <2> QED
    BY <2>1
<1> QED
  BY <1>7, <1>8, <1>9, <1>10, <1>11, <1>12, <1>13, <1>14 DEF Towards

(* A message whose handling started gets nearer to its answer with every   *)
(* step, thrown exceptions included (acm.cpp:929-1123, 1573-1720).         *)
THEOREM AnswersGetOn == Spec => AnswerApproaches
<1>1. Sound /\ Sound' /\ [Next]_vars =>
        [stage # "idle" => /\ StepsLeft \in 1..(8 + Len(m.encodings))
                           /\ StepsLeft' \in 0..(StepsLeft - 1)
                           /\ m' = m]_vars
  BY StepsLeftType, StepsLeadTowards, TowardsIsNearer
<1> QED
  BY <1>1, SoundInit, SoundStep, PTL DEF Spec, AnswerApproaches

-----------------------------------------------------------------------------
(* Liveness.  A codec that has a message takes step after step.  This is   *)
(* weak fairness of Next: Next has a disjunct for every outcome of every   *)
(* stage, so it is enabled until the message is answered.                  *)
KeepsWorking == []<><<Next>>_vars \/ []<>(stage = "idle")

(* ENABLED is out of the prover's reach: that Next is enabled until then   *)
(* is a hypothesis.                                                        *)
LEMMA FairnessKeepsWorking ==
  WF_vars(Next) /\ [](stage # "idle" => ENABLED <<Next>>_vars) => KeepsWorking
<1>1. stage # "idle" <=> ~(stage = "idle")
  OBVIOUS
<1> QED
  BY <1>1, PTL DEF KeepsWorking

(* The requirements are read: the answer is at most j steps away. *)
Coming(j) == stage \notin {"idle", "requirements", "entry"} /\ StepsLeft \in 0..j

(* The answer does not get further away, and nearer with each step. *)
LEMMA ComingMoves ==
  ASSUME NEW j \in 0..5
  PROVE  /\ Sound /\ Sound' /\ Coming(j + 1) /\ [Next]_vars => Coming(j + 1)' \/ (stage = "idle")'
         /\ Sound /\ Sound' /\ Coming(j + 1) /\ <<Next>>_vars => Coming(j)' \/ (stage = "idle")'
<1> SUFFICES ASSUME Sound, Sound', Coming(j + 1), [Next]_vars, stage' # "idle"
             PROVE  Coming(j + 1)' /\ (<<Next>>_vars => Coming(j)')
  OBVIOUS
<1>1. stage # "idle" /\ StepsLeft \in 0..(j + 1)
  BY DEF Coming
<1>2. ASSUME Next PROVE Coming(j)' /\ Coming(j + 1)'
  <2>1. Towards /\ m' = m
    BY <1>1, <1>2, StepsLeadTowards
  <2>2. StepsLeft' \in 0..(StepsLeft - 1)
    BY <2>1, TowardsIsNearer
  <2>3. StepsLeft' \in 0..j
    BY <1>1, <2>2
  <2>4. stage' \notin {"idle", "requirements", "entry"}
    BY <2>1 DEF Towards, Coming
  <2> QED
    BY <2>3, <2>4 DEF Coming
<1>3. CASE UNCHANGED vars
  <2>1. stage' = stage /\ i' = i /\ m' = m /\ protocol' = protocol
    BY <1>3 DEF vars, registers, encoder
  <2>2. StepsLeft' = StepsLeft
    BY <2>1 DEF StepsLeft, EntriesLeft, PartsLeft
  <2>3. Coming(j + 1)'
    BY <2>1, <2>2 DEF Coming
  <2> QED
    BY <1>3, <2>3
<1> QED
  BY <1>2, <1>3

(* Once the requirements are read there are six steps at most. *)
LEMMA ComingType ==
  Sound => /\ stage \notin {"idle", "requirements", "entry"} => Coming(6)
           /\ ~Coming(0)
<1> SUFFICES ASSUME Sound, stage \notin {"idle", "requirements", "entry"}
             PROVE  StepsLeft \in 1..6
  BY DEF Coming
<1>1. stage \in Stages /\ (stage = "layer" => PartsLeft \in 0..3)
  BY LeftTypes
<1>2. StepsLeft = WayFrom(stage, Len(m.encodings), EntriesLeft, PartsLeft)
  BY DEF StepsLeft
<1>3. CASE stage = "layer"
  BY <1>1, <1>2, <1>3, WayFromValue
<1>4. CASE stage # "layer"
  <2>1. WayFrom(stage, Len(m.encodings), EntriesLeft, PartsLeft) \in {1, 2, 3, 4, 5, 6}
    BY <1>1, <1>4, WayFromValue DEF Stages
  <2> QED
    BY <1>2, <2>1
<1> QED
  BY <1>3, <1>4

(* A message whose requirements are read is answered, by whatever way its  *)
(* stages succeed or throw (acm.cpp:1036-1243, 1573-1720).                 *)
THEOREM ReadIsAnswered ==
  Spec /\ KeepsWorking => (stage \notin {"idle", "requirements", "entry"} ~> stage = "idle")
<1> DEFINE Read == stage \notin {"idle", "requirements", "entry"}
<1>1. /\ Sound /\ Sound' /\ Coming(6) /\ [Next]_vars => Coming(6)' \/ (stage = "idle")'
      /\ Sound /\ Sound' /\ Coming(6) /\ <<Next>>_vars => Coming(5)' \/ (stage = "idle")'
      /\ Sound /\ Sound' /\ Coming(5) /\ [Next]_vars => Coming(5)' \/ (stage = "idle")'
      /\ Sound /\ Sound' /\ Coming(5) /\ <<Next>>_vars => Coming(4)' \/ (stage = "idle")'
      /\ Sound /\ Sound' /\ Coming(4) /\ [Next]_vars => Coming(4)' \/ (stage = "idle")'
      /\ Sound /\ Sound' /\ Coming(4) /\ <<Next>>_vars => Coming(3)' \/ (stage = "idle")'
      /\ Sound /\ Sound' /\ Coming(3) /\ [Next]_vars => Coming(3)' \/ (stage = "idle")'
      /\ Sound /\ Sound' /\ Coming(3) /\ <<Next>>_vars => Coming(2)' \/ (stage = "idle")'
      /\ Sound /\ Sound' /\ Coming(2) /\ [Next]_vars => Coming(2)' \/ (stage = "idle")'
      /\ Sound /\ Sound' /\ Coming(2) /\ <<Next>>_vars => Coming(1)' \/ (stage = "idle")'
      /\ Sound /\ Sound' /\ Coming(1) /\ [Next]_vars => Coming(1)' \/ (stage = "idle")'
      /\ Sound /\ Sound' /\ Coming(1) /\ <<Next>>_vars => Coming(0)' \/ (stage = "idle")'
  <2>1. \A j \in 0..5 :
          /\ Sound /\ Sound' /\ Coming(j + 1) /\ [Next]_vars => Coming(j + 1)' \/ (stage = "idle")'
          /\ Sound /\ Sound' /\ Coming(j + 1) /\ <<Next>>_vars => Coming(j)' \/ (stage = "idle")'
    BY ComingMoves
  <2> QED
    BY <2>1
<1>2. Sound => /\ Read => Coming(6)
               /\ ~Coming(0)
  BY ComingType
<1> QED
  BY <1>1, <1>2, SoundInit, SoundStep, PTL DEF Spec, KeepsWorking

(* The k-th entry of the requirements is read, or the reading has ended. *)
EntryRead(k) == (stage = "entry" /\ i = k) ~> ((stage = "entry" /\ i = k + 1) \/ stage = "idle")

(* Every entry of the metadata is followed by the next one or, when it is  *)
(* the last or refused, by the answer (acm.cpp:929-1010).                  *)
THEOREM EntriesRead ==
  ASSUME NEW k \in Nat
  PROVE  Spec /\ KeepsWorking => EntryRead(k)
<1> DEFINE At(n) == stage = "entry" /\ i = n
           Read  == stage \notin {"idle", "requirements", "entry"}
<1>1. /\ At(k) /\ [Next]_vars => At(k)' \/ At(k + 1)' \/ Read'
      /\ At(k) /\ <<Next>>_vars => At(k + 1)' \/ Read'
  <2> SUFFICES ASSUME At(k), [Next]_vars
               PROVE  /\ At(k)' \/ At(k + 1)' \/ Read'
                      /\ <<Next>>_vars => At(k + 1)' \/ Read'
    OBVIOUS
  <2>1. ASSUME Next PROVE At(k + 1)' \/ Read'
    BY <2>1, StepsLeadTowards DEF Towards
  <2>2. CASE UNCHANGED vars
    BY <2>2 DEF vars
  <2> QED
    BY <2>1, <2>2
<1>2. At(k) => ~(stage = "idle")
  OBVIOUS
<1>3. Spec /\ KeepsWorking => (Read ~> stage = "idle")
  BY ReadIsAnswered
<1> QED
  BY <1>1, <1>2, <1>3, PTL DEF Spec, KeepsWorking, EntryRead

-----------------------------------------------------------------------------
(* The encoder and the decoder together: Returned and Decoder of           *)
(* EncodeDecode.  First, the reference in terms of the encodings alone.    *)
RuleIn(list, k) ==
  LET ruled == {j \in 1..k : list[j].rule # "none"} IN
  IF ruled = {} THEN INVALID
  ELSE TransferSyntax(list[CHOOSE j \in ruled : \A l \in ruled : l <= j].rule)

AskedOf(list) == {list[k].type : k \in DOMAIN list} \cap Layers

RuleOfIn(list, layer) ==
  RuleIn(list, CHOOSE k \in DOMAIN list : /\ list[k].type = layer
                                          /\ \A l \in DOMAIN list :
                                               list[l].type = layer => l <= k)

NestIn(list, layers) ==
  LET c == Chain(layers) IN
  [k \in 1..Len(c) |-> [layer |-> c[k], rule |-> RuleOfIn(list, c[k])]]

(* For the encoder and for the decoder they are those of the encodings.    *)
LEMMA ReferenceOfList ==
  /\ Asked = AskedOf(m.encodings)
  /\ \A k : RuleAt(k) = RuleIn(m.encodings, k)
  /\ \A l : RuleOf(l) = RuleOfIn(m.encodings, l)
  /\ \A layers : Nest(layers) = NestIn(m.encodings, layers)
<1>1. Asked = AskedOf(m.encodings)
  BY DEF Asked, AskedOf, Entries
<1>2. \A k : RuleAt(k) = RuleIn(m.encodings, k)
  BY DEF RuleAt, RuleIn
<1>3. \A l : RuleOf(l) = RuleOfIn(m.encodings, l)
  BY Zenon DEF RuleOf, RuleOfIn, RuleAt, RuleIn, Entries
<1>4. \A layers : Nest(layers) = NestIn(m.encodings, layers)
  BY <1>3 DEF Nest, NestIn
<1> QED
  BY <1>1, <1>2, <1>3, <1>4

(* So is the reference of the decoder.                                     *)
LEMMA DecoderOfList ==
  /\ Decoder!Asked = AskedOf(Returned.encodings)
  /\ \A k : Decoder!RuleAt(k) = RuleIn(Returned.encodings, k)
  /\ \A l : Decoder!RuleOf(l) = RuleOfIn(Returned.encodings, l)
  /\ \A layers : Decoder!Nest(layers) = NestIn(Returned.encodings, layers)
<1>0. \A layers : Decoder!Chain(layers) = Chain(layers)
  BY DEF Decoder!Chain, Chain
<1>1. Decoder!Asked = AskedOf(Returned.encodings)
  BY DEF Decoder!Asked, AskedOf, Decoder!Entries, Decoder!Layers, Layers
<1>2. \A k : Decoder!RuleAt(k) = RuleIn(Returned.encodings, k)
  BY DEF Decoder!RuleAt, RuleIn, Decoder!TransferSyntax, TransferSyntax, Decoder!INVALID, INVALID
<1>3. \A l : Decoder!RuleOf(l) = RuleOfIn(Returned.encodings, l)
  BY Zenon DEF Decoder!RuleOf, RuleOfIn, Decoder!RuleAt, RuleIn, Decoder!Entries,
     Decoder!TransferSyntax, TransferSyntax, Decoder!INVALID, INVALID
<1>4. \A layers : Decoder!Nest(layers) = NestIn(Returned.encodings, layers)
  BY <1>0, <1>3 DEF Decoder!Nest, NestIn
<1> QED
  BY <1>1, <1>2, <1>3, <1>4

(* What comes back differs in the bytes alone.                             *)
LEMMA ReturnedFields ==
  ASSUME m \in Messages
  PROVE  /\ Returned.text = m.text /\ Returned.hasEncodings = m.hasEncodings
         /\ Returned.hasData = m.hasData /\ Returned.hasDataType = m.hasDataType
         /\ Returned.encodings = m.encodings /\ Returned.tree = m.tree
         /\ Returned.bytes.form = "hex" /\ Returned.bytes.hex = LastHex
<1> HIDE DEF LastHex
<1> QED
  BY DEF Returned, Messages

(* The two read the same request. *)
LEMMA SameRequest ==
  ASSUME m \in Messages
  PROVE  /\ Decoder!Asked = Asked
         /\ \A layers : Decoder!Nest(layers) = Nest(layers)
         /\ Decoder!Understood <=> Understood
<1>0. Returned.encodings = m.encodings
  BY ReturnedFields
<1>1. Decoder!Asked = Asked
  BY <1>0, ReferenceOfList, DecoderOfList
<1>2. \A layers : Decoder!Nest(layers) = Nest(layers)
  BY <1>0, ReferenceOfList, DecoderOfList
<1>3. \A k : Decoder!RuleAt(k) = RuleAt(k)
  BY <1>0, ReferenceOfList, DecoderOfList
<1>4. Decoder!Entries = Entries
  BY <1>0 DEF Decoder!Entries, Entries
<1>5. Decoder!Understood <=> Understood
  BY <1>1, <1>3, <1>4, ReturnedFields DEF Decoder!Understood, Understood, Decoder!INVALID, INVALID
<1> QED
  BY <1>1, <1>2, <1>5

(* What the decoder makes of all layers asked for.                         *)
LEMMA DecoderAnswers ==
  ASSUME m \in Messages, Understood, m.hasDataType,
         "MF" \in Asked, Asked \subseteq {"Dot2", "MF"}, LastHex = Nested
  PROVE  /\ Decoder!Expected.code = "none" /\ Decoder!Expected.xml
         /\ Decoder!Expected.dataType = "xml"
<1> DEFINE layers == Decoder!Asked \cap {"Dot2", "MF"}
           nest   == Decoder!Nest(layers)
           valid  == /\ Returned.bytes.form = "hex"
                     /\ Len(Returned.bytes.hex) >= Len(nest)
                     /\ SubSeq(Returned.bytes.hex, 1, Len(nest)) = nest
                     /\ layers = {"Dot2"} => Len(Returned.bytes.hex) > 1
           framed == "MF" \in layers
           answer == [Decoder!Loaded(Returned) EXCEPT
                        !.bytes = Decoder!Absent, !.xml = framed,
                        !.dataType = IF framed THEN "xml" ELSE @]
<1>1. layers = Asked /\ framed
  BY SameRequest
<1>2. nest = Nested
  BY <1>1, SameRequest DEF Nested
<1>3. valid
  <2>1. Len(Nested) \in Nat /\ SubSeq(Nested, 1, Len(Nested)) = Nested
    BY WantedTypes, SubSeqFull
  <2>2. Returned.bytes.form = "hex" /\ Returned.bytes.hex = Nested
    BY ReturnedFields
  <2>3. layers # {"Dot2"}
    BY <1>1
  <2> HIDE DEF layers, nest
  <2> QED
    BY <1>2, <2>1, <2>2, <2>3
<1>4. Decoder!Expected = Decoder!ExpectedDecoded
  BY SameRequest DEF Decoder!Expected
<1>5. Decoder!ExpectedDecoded =
        CASE layers = {} \/ Returned.bytes.form = "absent" -> Decoder!RequestError
          [] layers # {} /\ Returned.bytes.form # "absent" /\ ~valid ->
               Decoder!DataError(Returned.tree)
          [] OTHER -> IF framed /\ ~Returned.hasDataType THEN Decoder!RequestError ELSE answer
  BY DEF Decoder!ExpectedDecoded
<1>6. layers # {} /\ Returned.bytes.form # "absent" /\ Returned.hasDataType
  BY <1>1, ReturnedFields
<1>7. Decoder!Expected = answer
  <2> HIDE DEF layers, valid, framed, answer
  <2> QED
    BY <1>1, <1>3, <1>4, <1>5, <1>6
<1>8. answer.code = "none" /\ answer.xml = framed /\ answer.dataType = "xml"
  BY <1>1 DEF Decoder!Loaded
<1> QED
  BY <1>1, <1>7, <1>8

(* The last hex string of an answer without an error has all layers.       *)
LEMMA AnswerOfAll ==
  ASSUME Sound, Clean, Faithful, Answered, ~decode_functionality, stream[1].code = "none"
  PROVE  LastHex = Nested /\ Understood /\ m.hasDataType
<1> DEFINE a     == stream[1].appended
           hexes == [k \in DOMAIN a |-> a[k].hex]
           L     == Len(Wanted)
<1>1. Len(stream) = 1 /\ stream \in Seq(Docs) /\ m \in Messages
  BY DEF Sound, Types, Written, Place, Clean, Closed, Answered
<1>2. stream[1] \in Docs /\ a \in Seq([name : Layers \cup FreedNames, hex : Hexes])
  <2>1. stream[1] \in Docs
    BY <1>1
  <2> QED
    BY <2>1 DEF Docs
<1>3. Unnamed(stream[1]) = Expected
  BY DEF Faithful, Finishing
<1>4. Unnamed(stream[1]).code = "none" /\ Unnamed(stream[1]).appended = hexes
  <2>1. Unnamed(stream[1]) = [stream[1] EXCEPT !.appended = hexes]
    BY DEF Unnamed
  <2> HIDE DEF hexes
  <2> QED
    BY <1>2, <2>1 DEF Docs
<1>5. Expected = Record(<<>>, <<>>, m.bytes, Undecoded, HexOfAll, "hex", "none") /\ Asked # {}
  BY <1>1, <1>3, <1>4, EncodedWhole
<1>6. hexes = HexOfAll
  <2>1. Expected.appended = HexOfAll
    BY <1>5 DEF Record
  <2> QED
    BY <1>3, <1>4, <2>1
<1>7. L \in Nat /\ L >= 1 /\ Len(Nested) = L
  BY <1>5, WantedTypes
<1>8. HexOfAll = [k \in 1..L |-> SubSeq(Nested, L + 1 - k, L)]
  BY DEF HexOfAll, Wanted, Nested
<1>9. Len(a) = L
  <2> HIDE DEF a, L
  <2>1. DOMAIN hexes = DOMAIN a
    OBVIOUS
  <2>2. DOMAIN hexes = 1..L
    BY <1>6, <1>8
  <2> QED
    BY <1>2, <1>7, <2>1, <2>2
<1>10. LastHex = Nested
  <2>1. SubSeq(Nested, L + 1 - L, L) = Nested
    <3>1. L + 1 - L = 1
      BY <1>7
    <3>2. SubSeq(Nested, 1, Len(Nested)) = Nested
      BY WantedTypes, SubSeqFull
    <3> QED
      BY <1>7, <3>1, <3>2
  <2>2. HexOfAll[L] = Nested
    BY <1>7, <1>8, <2>1
  <2>3. hexes[L] = a[L].hex
    BY <1>7, <1>9, <1>2
  <2>4. LastHex = a[Len(a)].hex
    BY DEF LastHex
  <2> HIDE DEF a, L, hexes
  <2> QED
    BY <1>6, <1>9, <2>2, <2>3, <2>4
<1>11. Understood /\ m.hasDataType
  BY <1>1, <1>3, <1>4, EncodedWhole
<1> QED
  BY <1>10, <1>11

(* What the encoder wrote, the decoder reads.                              *)
THEOREM DecoderReadsEncoder == Spec => []DecoderReadsAnswer
<1>1. Sound /\ Clean /\ Faithful => DecoderReadsAnswer
  <2> SUFFICES ASSUME Sound, Clean, Faithful, Answered, ~decode_functionality,
                      stream[1].code = "none",
                      Asked \subseteq {"Dot2", "MF"}, "MF" \in Asked
               PROVE  /\ Decoder!Expected.code = "none" /\ Decoder!Expected.xml
                      /\ Decoder!Expected.dataType = "xml"
    BY DEF DecoderReadsAnswer
  <2>1. m \in Messages /\ Len(stream) = 1 /\ stream \in Seq(Docs)
    BY DEF Sound, Types, Written, Place, Clean, Closed, Answered
  <2>2. LastHex = Nested
    BY <2>1, AnswerOfAll
  <2>3. Understood /\ m.hasDataType
    BY <2>1, AnswerOfAll
  <2> QED
    BY <2>1, <2>2, <2>3, DecoderAnswers
<1> QED
  BY <1>1, AlwaysFaithful, PTL
=============================================================================
