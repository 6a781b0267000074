------------------------------ MODULE MCMapper ------------------------------
(* Small instances of Mapper. *)
EXTENDS Mapper, TLC

NoFaults  == {}
AllFaults == {"unreachable", "error"}
Symmetry  == Permutations(Keys) \cup Permutations(Readers)
=============================================================================
