SPECIFICATION FairSpec
CONSTANTS
  Invocations = {i1, i2}
  Contents <- MCContents
  Requests <- MCDeclarations
  HardLimit = 2
  MayKill = TRUE
  MayFail = TRUE
  MayMisread = TRUE
  MayRot = TRUE
  MayLosePower = FALSE
  Absent = Absent
  Corrupt = Corrupt
  Torn = Torn
  None = None
  Unreadable = Unreadable
  NoOne = NoOne
  b1 = b1
  b2 = b2
  b3 = b3
  m1 = m1
  m2 = m2
  pkg = pkg
  other = other
  url1 = url1
  url2 = url2
INVARIANTS
  FailuresLeaveNoTemporaries
PROPERTIES
  EveryCallReturns
CHECK_DEADLOCK FALSE
