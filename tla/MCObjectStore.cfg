SPECIFICATION Spec
CONSTANTS
  Invocations = {i1, i2, i3}
  Contents <- MCOneContent
  Requests <- MCSharedObject
  HardLimit = 2
  MayKill = TRUE
  MayFail = TRUE
  MayMisread = FALSE
  MayRot = TRUE
  MayLosePower = TRUE
  Absent = Absent
  Corrupt = Corrupt
  Torn = Torn
  None = None
  Unreadable = Unreadable
  NoOne = NoOne
  b1 = b1
  b2 = b2
  b3 = b3
  m1 = m1
  m2 = m2
  pkg = pkg
  other = other
  url1 = url1
  url2 = url2
SYMMETRY Symmetry
INVARIANTS
  ObjectsMatchTheirName
  CommittedDescriptorsKeepWorking
  HandlesStayValid
PROPERTIES
  ImplementsArtifactIndex
CHECK_DEADLOCK FALSE
