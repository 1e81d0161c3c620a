---------------------------- MODULE MCIdentify ----------------------------
(***************************************************************************)
(* Instances of identification: two customers with hands that look alike,  *)
(* one of whom enrolls both, on servers in the middle of an upgrade.       *)
(***************************************************************************)
EXTENDS Identify, TLC

CONSTANTS c1, c2, c3, alice, bob, carol, left, before, after, late, k1, k2

Persons ==
  [c \in Customers |->
     CASE c = c1 -> {alice, left} [] c = c2 -> {bob} [] c = c3 -> {carol}]

\* Alice's and Bob's hands are within the threshold and closer than the margin.
Distances ==
  [pair \in Hands \X Hands |->
     CASE pair[1] = pair[2] -> 0
       [] pair[1] # pair[2] /\ pair \in {alice, bob} \X {alice, bob} -> 1
       [] OTHER -> 5]

\* One server runs the old build; one has not read the KEK another made.
Builds == [s \in Servers |-> IF s = before THEN "v1" ELSE "v2"]
Wraps == [s \in Servers |-> IF s = after THEN k2 ELSE k1]
KeyRings == [s \in Servers |-> IF s = after THEN {k1, k2} ELSE {k1}]
=============================================================================
