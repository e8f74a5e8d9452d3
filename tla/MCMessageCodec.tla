--------------------------- MODULE MCMessageCodec ---------------------------
(* Small sets of messages for MessageCodec: every way to ask for layers     *)
(* with one or two entries, the orders of three, and documents that match   *)
(* the request, miss a layer, or are rejected by the ASN.1 codec.           *)
EXTENDS EncodeDecode, SequencesExt

MCRules == {"UPER", "COER"}
MCFreedNames == {"freed"}

Entry(type, rule) == [type |-> type, rule |-> rule]

OneEntry == {Entry(t, rule) : t \in Layers, rule \in MCRules \cup {"none"}}
OddEntry == {Entry("other", "UPER"), Entry("other", "none"), Entry("MF", "bad"),
             Entry("Dot2", "bad")}
TwoEntries ==
  {<<Entry(a, "COER"), Entry(b, rule)>> : a \in Layers, b \in Layers, rule \in MCRules \cup {"none"}}
Lists ==
  {<<>>} \cup {<<e>> : e \in OneEntry \cup OddEntry}
  \cup TwoEntries
  \cup {<<Entry("Dot2", "COER"), e>> : e \in OddEntry}
  \cup {<<e, Entry("MF", "none")>> : e \in OddEntry}
  \cup {[k \in 1..3 |-> Entry(p[k], IF k = 1 THEN "UPER" ELSE "none")] :
          p \in {q \in [1..3 -> Layers] : Range(q) = Layers}}

AskedIn(list) == {list[k].type : k \in DOMAIN list} \cap Layers

Message(list, tree, rejected, bytes, hasDataType) ==
  [text |-> "xml", hasEncodings |-> TRUE, hasData |-> TRUE,
   encodings |-> list, tree |-> tree, rejected |-> rejected, bytes |-> bytes,
   hasDataType |-> hasDataType]

Plain == Message(<<Entry("MF", "UPER")>>, <<"MF">>, {}, Absent, TRUE)
Broken ==
  {[Plain EXCEPT !.text = "unopened"], [Plain EXCEPT !.text = "empty"],
   [Plain EXCEPT !.text = "broken"],
   [Plain EXCEPT !.hasEncodings = FALSE],
   [Plain EXCEPT !.hasData = FALSE]}

EncodeInputs ==
  Broken \cup
  UNION {{Message(list, tree, rejected, Absent, dataType) :
            tree \in {Chain(AskedIn(list)), <<"Asd", "Dot2", "MF">>},
            rejected \in {{}} \cup {{l} : l \in AskedIn(list)},
            dataType \in IF Len(list) = 1 THEN BOOLEAN ELSE {TRUE}} : list \in Lists}

Hex(seq) == [form |-> "hex", hex |-> seq]
Encoded(layer, rule) == [layer |-> layer, rule |-> rule]
Bytes ==
  {Absent, [form |-> "nothex", hex |-> <<>>], Hex(<<>>),
   Hex(<<Encoded("MF", "UPER")>>), Hex(<<Encoded("MF", "COER")>>),
   Hex(<<Encoded("Dot2", "COER")>>),
   Hex(<<Encoded("Dot2", "COER"), Encoded("MF", "COER")>>),
   Hex(<<Encoded("Dot2", "COER"), Encoded("MF", "UPER")>>)}

DecodeInputs ==
  Broken \cup
  {Message(list, <<>>, {}, bytes, dataType) :
     list \in Lists, bytes \in Bytes, dataType \in BOOLEAN}
=============================================================================
