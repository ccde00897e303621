SPECIFICATION MCFairSpec
CONSTANTS
  Explored = {"update"}
  None = None
  Lengths <- lengths
  Expected <- sizes
  HardLimit = 5
  Buffer = 3
  MaxSize = 7
  Commands <- commands
  Resolutions = {1}
  MaxForeign = 1
  c1 = c1
  c2 = c2
  Calls = {c1, c2}
  SelectionLists <- chosen
  Repositories <- offered
  Bytes <- bytes
  MaxLost = 1
  PackageNames <- pkgs
  RBase = {4}
  Unqualified = Unqualified
  Environments <- environments
  Facts <- facts
  Catalogs <- catalogs
  Ranks <- ranks
  BaseNames <- base
  RVersion = 4
  Requests <- requests
  i1 = i1
  i2 = i2
  Invocations = {i1, i2}
  Selections <- selections
  WellFormed <- wellFormed
  JournalOrdered = TRUE
  MayKill = FALSE
  MayFail = TRUE
  MayLosePower = FALSE
  Absent = Absent
  Torn = Torn
  NoIndex = NoIndex
  Published = Published
  NoOne = NoOne
  pkgA = pkgA
  pkgB = pkgB
  sha1 = sha1
  sha2 = sha2
  sha3 = sha3
  idx1 = idx1
  idx2 = idx2
INVARIANT CompositionIsComplete
