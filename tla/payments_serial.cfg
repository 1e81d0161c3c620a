\* One handler at a time, as shipped; only the acquirer may fail to answer.
CONSTANTS
  Tokens = {x1, x2, x3}
  FailingTokens = {}
  SecretHint = {bob}
  Txns = {t1, t2, t3}
  Keys = {k1, k2, k3}
  Amounts = {1, 2}
  StartBalance = 5
  None = None
  Workers = {w1}
  Customers = {alice, bob}
  Merchants = {m1}
  Faults = {"gateway"}
  LowValueMaxAmount = 2
  LowValueCumulativeMax = 3
  LowValueMaxCount = 2

SPECIFICATION Spec
SYMMETRY Symmetry
INVARIANTS
  TypeOK
  NoOverCredit
  LowValueWithinLimits
  AllowanceNeverUndercounted
  OneChargePerKey
  CardsRegistered
PROPERTIES
  ImplementsCardLedger
