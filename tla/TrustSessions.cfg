SPECIFICATION Spec
CONSTANTS
  g0 = g0
  g1 = g1
  g2 = g2
  p1 = p1
  p2 = p2
  v1 = v1
  v2 = v2
  d1 = d1
  d2 = d2
  Profiles = {p1}
  Reviews = {g0, g1}
  Versions = {v1, v2}
  MaxReviews = 1
  None = None
  Daemons = {d1, d2}
  Requests = {r1, r2}
  InitialLedgers <- AnyRun
  Offered = {"open", "review", "approve", "cancel", "revoke", "edit", "list"}
  MaxStarts = 4
  MaxOutsideEdits = 0
  MaxCrashes = 0
  MaxRemovals = 0
  MaxAccidents = 2
  DiskFails = FALSE
SYMMETRY Symmetry
INVARIANTS
  TypeOK
  StoreAgrees
PROPERTIES
  PublishedUnderLiveTrust
  UnreviewedIsCurrent
CHECK_DEADLOCK FALSE
