------------------------------ MODULE MCWorker ------------------------------
(* A small instance of Worker: a skill_cancel may be received twice. *)
EXTENDS Worker, TLC

CancelTwice == {"skill_cancel"}

\* The head and the worker treat all requests alike.
Symmetry == Permutations(Requests)
=============================================================================
