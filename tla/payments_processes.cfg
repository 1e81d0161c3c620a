\* Two processes over one database; calls fail and processes restart.
CONSTANTS
  Tokens = {x1}
  FailingTokens = {}
  SecretHint = {bob}
  Txns = {t1, t2}
  Keys = {k1, k2}
  Amounts = {1, 2}
  StartBalance = 2
  None = None
  Workers = {w1, w2}
  Customers = {bob}
  Merchants = {m1}
  Faults = {"storage", "restart"}
  LowValueMaxAmount = 2
  LowValueCumulativeMax = 3
  LowValueMaxCount = 2

SPECIFICATION Spec
SYMMETRY Symmetry
INVARIANTS
  RowsAreCharges
  RefundsNeverAhead
  AuditBacked
  RecordsAgree
  AuditComplete
PROPERTY
  RowsNeverRewritten
