\* The cashier may open the settings between two tries.
CONSTANTS
  Tokens = {x1, x2}
  FailingTokens = {}
  SecretHint = {bob}
  Txns = {t1, t2}
  Keys = {k1, k2}
  Amounts = {1}
  StartBalance = 2
  None = None
  Workers = {w1}
  Customers = {alice, bob}
  Merchants = {m1}
  Faults = {}
  LowValueMaxAmount = 2
  LowValueCumulativeMax = 3
  LowValueMaxCount = 2
  MaxSales = 1
  MaxTouched = 1
  Trouble = {"settings"}

SPECIFICATION TerminalSpec
INVARIANT
  OneChargePerSale
CHECK_DEADLOCK FALSE
