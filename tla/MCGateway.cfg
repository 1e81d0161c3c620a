\* Two cards, one of which always declines; as many keys as transactions.
CONSTANTS
  Tokens = {tok1, tok2}
  FailingTokens = {tok2}
  Txns = {t1, t2}
  Keys = {k1, k2}
  Amounts = {1, 2}
  StartBalance = 3
  None = None
  Attempts <- SmallAttempts
  EnrollmentSamples = 3
  ConsistencyMax = 2

SPECIFICATION GateSpec
INVARIANTS
  MoneyConserved
  LuhnCatchesTypos
  NoBadFrameIsStored
PROPERTY
  CapturedNeverOverCredited
