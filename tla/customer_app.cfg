\* One phone, one set-up after another; calls that fail, come late or are lost.
CONSTANTS
  Workers = {w1}
  Customers = {c1, c2}
  Labels = {right}
  Primary = right
  Keks = {k1}
  Faults = {"storage"}
  None = None
  RequiredSamples = 2
  MaxTaps = 1
  MaxLate = 1
  Trouble = {"timeout", "kill"}

SPECIFICATION AppSpec
SYMMETRY Symmetry
INVARIANTS
  NoStrayAccounts
  ConsentWasGiven
  StatusIsTrue
PROPERTY CredentialKept
CHECK_DEADLOCK FALSE
