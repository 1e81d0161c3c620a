--------------------------- MODULE MCCustomerApp ---------------------------
(***************************************************************************)
(* Instances of the customer app.                                          *)
(***************************************************************************)
EXTENDS CustomerApp, TLC

Symmetry == Permutations(Customers) \cup Permutations(Workers)
=============================================================================
