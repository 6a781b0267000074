--------------------------- MODULE MCMessageRouter ---------------------------
(* Small instances of MessageRouter for TLC: two registrations watch k1, a   *)
(* waiter receives on k2, and two messages per run carry k1.                 *)
EXTENDS MessageRouter, TLC

CONSTANTS k1, k2, m1, m2, m3, m4, r1, r2

TwoWatches == r1 :> k1 @@ r2 :> k1
\* Two answers to k1, a readiness signal for k2 and an unsolicited message.
AllKinds   == m1 :> k1 @@ m2 :> k1 @@ m3 :> k2 @@ m4 :> NoKey
=============================================================================
