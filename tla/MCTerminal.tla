---------------------------- MODULE MCTerminal ----------------------------
(***************************************************************************)
(* Instances of the tills and the payment service.                         *)
(***************************************************************************)
EXTENDS Terminal, TLC
=============================================================================
