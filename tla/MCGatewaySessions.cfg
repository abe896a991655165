\* Three requests of two sessions, and room for one in the table.
SPECIFICATION Spec
CONSTANTS
  v1 = v1
  v2 = v2
  s1 = s1
  s2 = s2
  None = None
  Values = {v1, v2}
  Sessions = {s1, s2}
  Requests = {r1, r2, r3}
  Offers <- SessionOffers
  MaxSeen = 1
  LogLevel = "info"
  DebugBody = TRUE
  MaxTime = 1
CHECK_DEADLOCK FALSE
SYMMETRY Symmetry
INVARIANTS
  BypassNeedsMarker
PROPERTY
  OptOutHolds
