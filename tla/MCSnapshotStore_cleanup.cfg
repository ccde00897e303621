SPECIFICATION Spec
CONSTANTS
  Processes = {p1, p2, p3}
  Endpoints = {e1, e2}
  AnyEndpoint = AnyEndpoint
  Stamps = {1, 2}
  MaxSequence = 2
  Damages = {"unreadable", "foreign", "history", "head"}
  MaxDamage = 1
  MayKill = FALSE
  MayFail = TRUE
  MayLosePower = FALSE
  Absent = Absent
  Malformed = Malformed
  Unreadable = Unreadable
  Foreign = Foreign
  NoOne = NoOne
  None = None
  a = a
  b = b
  partial = partial
  e1 = e1
  e2 = e2
  Generations <- MCTwo
  Jobs <- MCCleanupJobs
SYMMETRY Symmetry
INVARIANTS
  PinnedIsPublished
PROPERTIES
  ValidHeadsStayValid
CHECK_DEADLOCK FALSE
