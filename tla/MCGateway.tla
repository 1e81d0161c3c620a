----------------------------- MODULE MCGateway -----------------------------
(***************************************************************************)
(* The acquirer, and the gate of enrollment in front of it, on a small     *)
(* instance.                                                               *)
(***************************************************************************)
EXTENDS EnrollmentGate

\* Numbers of odd and even lengths with two digits of choice anywhere.
Numbers ==
  {[j \in 1..length |-> CASE j = i -> a [] j = i + 1 -> b [] OTHER -> (4 * j) % 10] :
     length \in {11, 12, 13, 16}, i \in 1..10, a \in Digit, b \in {0, 3, 9}}

\* All the ways three or four samples may lie apart.
Distances(count) ==
  LET pairs == {p \in (1..count) \X (1..count) : p[1] < p[2]}
  IN  {[i \in 1..count, j \in 1..count |->
          CASE i = j -> 0
            [] i < j -> apart[<<i, j>>]
            [] OTHER -> apart[<<j, i>>]] : apart \in [pairs -> 0..3]}

GoodNumber == <<4, 1, 1, 1, 1, 1, 1, 1, 1, 1, 1, 1, 1, 1, 1, 1>>
GoodSamples == [i \in 1..3, j \in 1..3 |-> 0]

SmallAttempts ==
  {[number |-> n, count |-> 3, distance |-> GoodSamples] : n \in Numbers}
    \cup UNION {{[number |-> GoodNumber, count |-> count, distance |-> d] :
                   d \in Distances(count)} : count \in {2, 3, 4}}
=============================================================================
