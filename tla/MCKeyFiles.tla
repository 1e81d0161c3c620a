----------------------------- MODULE MCKeyFiles ---------------------------
(***************************************************************************)
(* Instances of the key file and the pepper.                               *)
(***************************************************************************)
EXTENDS KeyFiles, TLC

Symmetry == Permutations(Customers) \cup Permutations(Keks)
              \cup Permutations(Peppers)
=============================================================================
