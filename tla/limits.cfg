\* Two requests at a time, clocks that differ by one, windows of 1, 2 and 3.
CONSTANTS
  Workers = {w1, w2}
  Codes = {h1}
  Merchants = {m1}
  Global = global
  Limits <- ShortLimits
  MaxSkew = 1
  Horizon = 9
  MaxCalls = 4
  None = None

SPECIFICATION Spec
SYMMETRY Symmetry
INVARIANTS
  WindowHolds
  RetryAfterIsExact
  LockoutsAudited
CHECK_DEADLOCK FALSE
