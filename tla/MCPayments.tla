---------------------------- MODULE MCPayments ----------------------------
(***************************************************************************)
(* Instances of the payment service.  Keys, transactions, workers,         *)
(* merchants and, as no card fails, tokens are interchangeable; customers  *)
(* are not (SecretHint).                                                   *)
(***************************************************************************)
EXTENDS Payments, TLC

Symmetry ==
  Permutations(Keys) \cup Permutations(Txns) \cup Permutations(Workers)
    \cup Permutations(Tokens) \cup Permutations(Merchants)
=============================================================================
