\* One till, two sales, two workers; messages and storage may fail; fairness.
CONSTANTS
  Tokens = {x1}
  FailingTokens = {}
  SecretHint = {bob}
  Txns = {t1, t2}
  Keys = {k1, k2, k3}
  Amounts = {1, 2}
  StartBalance = 2
  None = None
  Workers = {w1, w2}
  Customers = {bob}
  Merchants = {m1}
  Faults = {"storage"}
  LowValueMaxAmount = 2
  LowValueCumulativeMax = 3
  LowValueMaxCount = 2
  MaxSales = 2
  MaxTouched = 1
  Trouble = {"edit", "settings", "late"}

SPECIFICATION FairTerminalSpec
INVARIANTS
  OneChargePerSaleKept
  ResultTellsTruth
  ResultMatchesAttempt
PROPERTY
  SaleEnds
CHECK_DEADLOCK FALSE
