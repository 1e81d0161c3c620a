\* One process; any call may fail and the process may restart.
CONSTANTS
  Workers = {w1}
  Customers = {c1, c2}
  Labels = {right, left}
  Primary = right
  Keks = {k1, k2, k3}
  Faults = {"storage", "restart"}
  None = None

SPECIFICATION Spec
SYMMETRY Symmetry
INVARIANTS
  TypeOK
  NothingLeft
  ConsentCovers
  KeysKept
CHECK_DEADLOCK FALSE
