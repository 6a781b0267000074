--------------------------- MODULE MCQueryFeature ---------------------------
(* A small instance of QueryFeature for TLC: two workers, of which the first  *)
(* coordinates; both hold the source, or nobody and one cannot read its file.     *)
EXTENDS QueryFeature, TLC

CONSTANTS w1, w2

Held(a, b) == (w1 :> a) @@ (w2 :> b)

MCHoldings ==
    {Held("broker", "broker"), Held("local", "local"), Held("none", "unreadable")}
=============================================================================
