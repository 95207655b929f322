SPECIFICATION Spec
CONSTANTS
  g0 = g0
  g1 = g1
  g2 = g2
  p1 = p1
  p2 = p2
  v1 = v1
  v2 = v2
  d1 = d1
  d2 = d2
  Profiles = {p1, p2}
  Reviews = {g0, g1}
  Versions = {v1}
  MaxReviews = 2
  None = None
  Daemons = {d1, d2}
  Requests = {r1, r2}
  InitialLedgers <- AnyRun
  Offered = {"review", "approve", "revoke", "edit"}
  MaxStarts = 3
  MaxOutsideEdits = 0
  MaxCrashes = 2
  MaxRemovals = 0
  MaxAccidents = 2
  DiskFails = TRUE
SYMMETRY Symmetry
INVARIANTS
  DecisionsSurvive
PROPERTIES
  LedgerIsAtomic
CHECK_DEADLOCK FALSE
