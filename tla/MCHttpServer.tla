----------------------------- MODULE MCHttpServer -----------------------------
(* Instance of HttpServer: single requests of every kind, and batches of    *)
(* up to three lines that put failures before, between and after answers.  *)
EXTENDS HttpServer

Batch(json, lines) == [batch |-> TRUE, is_json |-> json, lines |-> lines]

MCRequests ==
  {[batch |-> FALSE, is_json |-> FALSE, lines |-> <<l>>] : l \in Lines}
    \cup {Batch(FALSE, <<"ok", l, "ok">>) : l \in Lines \ {"ok"}}
    \cup {Batch(TRUE, <<"ok", l, "ok">>) : l \in JsonErrors \cup {"bad_hex", "bad_xer"}}
    \cup {Batch(TRUE, <<l, "blank">>) : l \in {"no_hex", "bad_data"}}
    \cup {Batch(FALSE, <<>>)}
=============================================================================
