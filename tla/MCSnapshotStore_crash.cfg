SPECIFICATION Spec
CONSTANTS
  Processes = {p1, p2, p3}
  Endpoints = {e1, e2}
  AnyEndpoint = AnyEndpoint
  Stamps = {1, 2}
  MaxSequence = 3
  Damages = {}
  MaxDamage = 0
  MayKill = TRUE
  MayFail = FALSE
  MayLosePower = TRUE
  Absent = Absent
  Malformed = Malformed
  Unreadable = Unreadable
  Foreign = Foreign
  NoOne = NoOne
  None = None
  a = a
  b = b
  partial = partial
  e1 = e1
  e2 = e2
  Generations <- MCTwo
  Jobs <- MCCrashJobs
SYMMETRY Symmetry
INVARIANTS
  HeadsNameDurableGenerations
  CrashesNeverWedgeTheStore
PROPERTIES
  ImplementsViewRegister
CHECK_DEADLOCK FALSE
