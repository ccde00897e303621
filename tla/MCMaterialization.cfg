SPECIFICATION Spec
CONSTANTS
  Invocations = {i1, i2, i3}
  Selections <- MCSelections
  WellFormed <- MCWellFormed
  JournalOrdered = TRUE
  MayKill = TRUE
  MayFail = TRUE
  MayLosePower = TRUE
  Absent = Absent
  Torn = Torn
  NoIndex = NoIndex
  Published = Published
  NoOne = NoOne
  pkgA = pkgA
  pkgB = pkgB
  sha1 = sha1
  sha2 = sha2
  sha3 = sha3
  idx1 = idx1
  idx2 = idx2
SYMMETRY Symmetry
INVARIANTS
  RepositoryNeverPartial
  InterruptedIsRecoverable
PROPERTIES
  ImplementsProjectView
CHECK_DEADLOCK FALSE
