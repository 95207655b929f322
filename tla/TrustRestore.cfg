SPECIFICATION Spec
CONSTANTS
  g0 = g0
  g1 = g1
  g2 = g2
  p1 = p1
  p2 = p2
  v1 = v1
  v2 = v2
  d1 = d1
  d2 = d2
  Profiles = {p1, p2}
  Reviews = {g0, g1}
  Versions = {v1, v2}
  MaxReviews = 1
  None = None
  Daemons = {d1}
  Requests = {r1}
  InitialLedgers <- AnyRun
  Offered = {"open", "review", "approve", "edit", "list"}
  MaxStarts = 3
  MaxOutsideEdits = 1
  MaxCrashes = 1
  MaxRemovals = 1
  MaxAccidents = 2
  DiskFails = FALSE
SYMMETRY Symmetry
INVARIANTS
  AttachedAsReviewed
  LedgerFits
PROPERTIES
  NoPublicationWithoutLedger
CHECK_DEADLOCK FALSE
