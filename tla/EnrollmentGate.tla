--------------------------- MODULE EnrollmentGate ---------------------------
(***************************************************************************)
(* What an enrollment must pass before its card reaches the acquirer: the  *)
(* card number (payments/gateway.py, CardDetails), then the samples of the *)
(* palm (services/enrollment.py, enroll and _select_reference).            *)
(*                                                                         *)
(* A card number is the sequence of its digits.  The samples are given by  *)
(* how far they lie apart: distance[i, j] = distance[j, i].                *)
(***************************************************************************)
EXTENDS Gateway, Sequences, FiniteSetsExt

CONSTANTS
  Attempts,          \* inputs: [number, count, distance]
  EnrollmentSamples, \* samples an enrollment needs
  ConsistencyMax     \* how far two samples of one palm may lie apart

Digit == 0..9

ASSUME GateAssumption ==
  /\ EnrollmentSamples \in Nat \ {0}
  /\ ConsistencyMax \in Nat
  /\ \A a \in Attempts :
       /\ a.number \in Seq(Digit)
       /\ a.count \in Nat
       /\ \A i, j \in 1..a.count :
            /\ a.distance[i, j] \in Nat
            /\ a.distance[i, j] = a.distance[j, i]
            /\ a.distance[i, i] = 0

VARIABLE attempt     \* the enrollment under way, or None

gateVars == <<gatewayVars, attempt>>

-----------------------------------------------------------------------------
(***************************************************************************)
(* The card number.  Positions count from the left, from 0 in the source.  *)
(***************************************************************************)
Doubled(d) == IF 2 * d > 9 THEN 2 * d - 9 ELSE 2 * d

\* A slip: the parity of the position alone, as if every length were even.
IsDoubledFromLeft(number, i) == (i - 1) % 2 = 0

IsDoubled(number, i) == (i - 1) % 2 = Len(number) % 2

\* What each digit adds to the checksum.
Terms(number) ==
  [i \in DOMAIN number |->
     IF IsDoubled(number, i) THEN Doubled(number[i]) ELSE number[i]]

Checksum(number) == SumFunction(Terms(number))

LuhnValid(number) == Len(number) >= 12 /\ Checksum(number) % 10 = 0

-----------------------------------------------------------------------------
(***************************************************************************)
(* The samples.                                                            *)
(***************************************************************************)
Samples(a) == 1..a.count

Total(a, i) == SumFunction([j \in Samples(a) |-> a.distance[i, j]])

\* A slip: the first sample.
FirstSample(a) == 1

\* The medoid, the first one if there are several (argmin).
Reference(a) ==
  CHOOSE i \in Samples(a) :
    \A j \in Samples(a) :
      \/ Total(a, i) < Total(a, j)
      \/ Total(a, i) = Total(a, j) /\ i <= j

WorstDistance(a) == Max({a.distance[i, j] : i, j \in Samples(a)})

Consistent(a) ==
  /\ a.count >= EnrollmentSamples
  /\ WorstDistance(a) <= ConsistencyMax

-----------------------------------------------------------------------------
GateInit ==
  /\ GatewayInit
  /\ attempt = None

\* Bound: the inputs are tried out on an acquirer that has no account yet.
Submit ==
  /\ attempt = None
  /\ accounts = {}
  /\ attempt' \in Attempts
  /\ UNCHANGED gatewayVars

Refuse ==
  /\ attempt # None
  /\ ~(LuhnValid(attempt.number) /\ Consistent(attempt))
  /\ attempt' = None
  /\ UNCHANGED gatewayVars

Enroll ==
  /\ attempt # None
  /\ LuhnValid(attempt.number)
  /\ Consistent(attempt)
  /\ attempt' = None
  /\ \E token \in Tokens : Tokenize(token)

GateNext ==
  \/ Submit \/ Refuse \/ Enroll
  \/ attempt = None /\ GatewayNext /\ UNCHANGED attempt

GateSpec == GateInit /\ [][GateNext]_gateVars

-----------------------------------------------------------------------------
(***************************************************************************)
(* The standard check, from the right: the last digit is the check digit,  *)
(* and every second digit before it counts as the digits of its double.    *)
(***************************************************************************)
FromRight(number, k) == number[Len(number) + 1 - k]

StandardTerm(number, k) ==
  LET double == 2 * FromRight(number, k)
  IN  IF k % 2 = 1 THEN FromRight(number, k)
      ELSE (double \div 10) + (double % 10)

Standard(number) ==
  LET upTo[k \in 0..Len(number)] ==
        IF k = 0 THEN 0 ELSE upTo[k - 1] + StandardTerm(number, k)
  IN  upTo[Len(number)] % 10 = 0

Mistyped(number) ==
  {[number EXCEPT ![i] = d] : i \in DOMAIN number, d \in Digit} \ {number}

\* Two neighbours the wrong way round; the check does not tell 09 from 90.
Transposed(number) ==
  {[number EXCEPT ![i] = number[i + 1], ![i + 1] = number[i]] :
     i \in {j \in 1..(Len(number) - 1) :
              /\ number[j] # number[j + 1]
              /\ {number[j], number[j + 1]} # {0, 9}}}

(***************************************************************************)
(* "Standard mod-10 check.  Catches typos" (gateway.py:51).  Counting from *)
(* the left with the parity of the length is counting from the right, for  *)
(* numbers of odd and of even length of at least 12 digits; and one wrong  *)
(* digit or two swapped neighbours make every valid number an invalid one. *)
(***************************************************************************)
LuhnCatchesTypos ==
  attempt # None =>
    LET number == attempt.number
    IN  /\ LuhnValid(number) <=> Len(number) > 11 /\ Standard(number)
        /\ LuhnValid(number) =>
             \A typo \in Mistyped(number) \cup Transposed(number) :
               ~LuhnValid(typo)

\* The other samples lie within a radius of each other, and this one outside.
Outlier(a, bad, radius) ==
  LET good == Samples(a) \ {bad}
  IN  \A i \in good : /\ a.distance[i, bad] > radius
                      /\ \A j \in good : a.distance[i, j] <= radius

(***************************************************************************)
(* "Taking the first sample instead would let one bad-but-passing frame    *)
(* become the stored identity" (enrollment.py:155-157): of three or more   *)
(* samples that agree well enough to be accepted, one that is farther from *)
(* all the others than they are from each other is never the reference.    *)
(***************************************************************************)
NoBadFrameIsStored ==
  attempt # None /\ Consistent(attempt) /\ attempt.count > 2 =>
    \A bad \in Samples(attempt), radius \in 0..ConsistencyMax :
      Outlier(attempt, bad, radius) => Reference(attempt) # bad
=============================================================================
