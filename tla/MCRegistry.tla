----------------------------- MODULE MCRegistry -----------------------------
(* A small instance of Registry for TLC: the worker may be restarted once.   *)
EXTENDS Registry, TLC

CONSTANTS w, composer

MCLives == (w :> 2) @@ (composer :> 1)
=============================================================================
