SPECIFICATION Spec
CONSTANTS
  Processes = {p1, p2}
  Endpoints = {e1}
  AnyEndpoint = AnyEndpoint
  Stamps = {1, 2}
  MaxSequence = 3
  Damages = {"history"}
  MaxDamage = 1
  MayKill = FALSE
  MayFail = FALSE
  MayLosePower = FALSE
  Absent = Absent
  Malformed = Malformed
  Unreadable = Unreadable
  Foreign = Foreign
  NoOne = NoOne
  None = None
  a = a
  b = b
  partial = partial
  e1 = e1
  e2 = e2
  Generations <- MCTwo
  Jobs <- MCRepairJobs
SYMMETRY Symmetry
INVARIANTS
  PublicationRepairs
CHECK_DEADLOCK FALSE
