\* One handler at a time; a repository call may fail.
CONSTANTS
  Tokens = {x1, x2}
  FailingTokens = {}
  SecretHint = {bob}
  Txns = {t1, t2}
  Keys = {k1, k2}
  Amounts = {1, 2}
  StartBalance = 4
  None = None
  Workers = {w1}
  Customers = {alice, bob}
  Merchants = {m1}
  Faults = {"storage"}
  LowValueMaxAmount = 2
  LowValueCumulativeMax = 3
  LowValueMaxCount = 2

SPECIFICATION Spec
INVARIANT
  NoOverCredit
