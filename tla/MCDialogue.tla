----------------------------- MODULE MCDialogue -----------------------------
(* A small instance of Dialogue for TLC.                                     *)
EXTENDS Dialogue

=============================================================================
