--------------------------- MODULE MCDynamicBuffer ---------------------------
(* Chunks of every length that matters to a buffer that starts at 4 bytes.  *)
EXTENDS DynamicBuffer

MCBytes  == {"a", "b"}
MCChunks == {<<>>, <<"a">>, <<"b", "a">>, <<"a", "b", "b">>,
             <<"b", "a", "a", "b", "a", "b", "b", "a", "b">>}
=============================================================================
