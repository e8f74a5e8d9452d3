----------------------------- MODULE MCHexCodec -----------------------------
(* Every single character and every single byte; longer texts and buffers   *)
(* of those at the edges of the ranges the code compares with.              *)
EXTENDS HexCodec

Edges == {-1, 32, 47, 48, 57, 58, 65, 70, 71, 97, 102}
Few   == {32, 48, 70, 103}
MCTexts ==
  {<<>>} \cup {<<c>> : c \in Chars} \cup {<<c, d>> : c, d \in Edges}
  \cup {<<c, d, e>> : c, d, e \in Few} \cup {<<65, 32, 98, 9, 99, 100, 49>>}
MCBuffers ==
  {<<>>} \cup {<<b>> : b \in Byte}
  \cup {<<a, b, c>> : a, b, c \in {0, 9, 16, 159, 160, 255}}
=============================================================================
