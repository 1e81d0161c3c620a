\* Two processes over one database; any call may fail.
CONSTANTS
  Workers = {w1, w2}
  Customers = {c1, c2}
  Labels = {right, left}
  Primary = right
  Keks = {k1, k2}
  Faults = {"storage", "restart"}
  None = None

SPECIFICATION Spec
SYMMETRY Symmetry
INVARIANTS
  LiveProfilesAreWhole
  ErasureLogged
PROPERTY
  NeverResurrected
CHECK_DEADLOCK FALSE
