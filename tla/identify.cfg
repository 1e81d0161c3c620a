\* Three customers, at most two candidates: a shard that fills up while it is read.
CONSTANTS
  Requests = {r1}
  Servers = {before, after, late}
  Engine <- Builds
  ActiveKek <- Wraps
  Holds <- KeyRings
  Customers = {c1, c2, c3}
  HandsOf <- Persons
  Shown = {alice, left}
  Distance <- Distances
  PayCodes = {p1}
  Keks = {k1, k2}
  Threshold = 2
  MatchMargin = 2
  MaxCandidates = 2
  None = None
  c1 = c1
  c2 = c2
  c3 = c3
  alice = alice
  bob = bob
  carol = carol
  left = left
  before = before
  after = after
  late = late
  k1 = k1
  k2 = k2

SPECIFICATION Spec
INVARIANTS
  ChargedWasActive
  ChargedIsNearest
  NoMatchIsTrue
CHECK_DEADLOCK FALSE
