\* Three processes, one of them for maintenance; each may be killed at any step.
CONSTANTS
  Servers = {s1, s2, s3}
  Maintainer = s1
  Customers = {c1, c2}
  Keks = {k1, k2, k3, k4}
  Peppers = {p1, p2}
  Faults = {}
  None = None
  Torn = Torn
  Empty = Empty

SPECIFICATION Spec
SYMMETRY Symmetry
INVARIANTS
  KeysSurvive
  PepperIsShared
CHECK_DEADLOCK FALSE
