---------------------------- MODULE MCAccounts ----------------------------
(***************************************************************************)
(* Instances of the account life cycle.                                    *)
(***************************************************************************)
EXTENDS Accounts, TLC

Symmetry ==
  Permutations(Customers) \cup Permutations(Keks) \cup Permutations(Workers)
=============================================================================
