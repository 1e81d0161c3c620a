-------------------------------- MODULE Sca --------------------------------
(***************************************************************************)
(* Strong customer authentication (payments/sca.py): the decision whether  *)
(* a payment is strongly authenticated, exempt as a low-value payment, or  *)
(* refused.  A pure module: the counters it reads belong to Payments.      *)
(***************************************************************************)
EXTENDS Integers

CONSTANTS
  LowValueMaxAmount,      \* largest amount the exemption covers
  LowValueCumulativeMax,  \* total of exempt payments since the last SCA
  LowValueMaxCount        \* number of exempt payments since the last SCA

ASSUME ScaAssumption ==
  /\ LowValueMaxAmount \in Nat
  /\ LowValueCumulativeMax \in Nat
  /\ LowValueMaxCount \in Nat

\* A row of low_value_usage; a missing row reads as zeros.
Usage == [minor : Nat, count : Nat]
NoUsage == [minor |-> 0, count |-> 0]
AddUse(usage, amount) ==
  [minor |-> usage.minor + amount, count |-> usage.count + 1]

Categories == {"inherence", "knowledge"}

\* The palm counts as inherence when liveness passed; the pay code counts as
\* knowledge only when the profile's hint is a secret of the customer.
FactorCategories(livenessPassed, secretHint) ==
  {f \in Categories : \/ f = "inherence" /\ livenessPassed
                      \/ f = "knowledge" /\ secretHint}

\* A slip: the test that forgets the payment being assessed.
WithinLimitsBeforeThisPayment(usage, amount) ==
  /\ amount <= LowValueMaxAmount
  /\ usage.minor <= LowValueCumulativeMax
  /\ usage.count <= LowValueMaxCount

WithinLowValueLimits(usage, amount) ==
  /\ amount <= LowValueMaxAmount
  /\ usage.minor + amount <= LowValueCumulativeMax
  /\ usage.count + 1 <= LowValueMaxCount

Assessment == [strong : BOOLEAN, lowValue : BOOLEAN]

Assess(categories, usage, amount) ==
  LET strong == categories = Categories
  IN [strong   |-> strong,
      lowValue |-> /\ ~strong
                   /\ categories # {}
                   /\ WithinLowValueLimits(usage, amount)]

MayProceed(sca) == sca.strong \/ sca.lowValue
=============================================================================
