SPECIFICATION Spec
CONSTANTS
  Explored = {"git"}
  Calls = {c1, c2}
  MaxTime = 1
  None = None
  Absent = Absent
  Failed = Failed
  Missing = Missing
  Corrupt = Corrupt
  All = All
  Representations = {1, 2}
  MaxVersion = 2
  Bad = {0}
  NoStore = {2}
  NoCache = {}
  RawTTL = 1
  Serial = TRUE
  StoredEntries <- storedEntries
  CranPackages = {1, 2}
  Releasing = {1}
  Latest = 3
  CranTTL = 0
  MaxSessions = 2
  Asked <- asked
  Repositories <- repositories
  Backoffs = {1}
  a = a
  b = b
  e1 = e1
  e2 = e2
  Packages = {a, b}
  Endpoints = {e1, e2}
  Entries <- offers
  Scopes <- scopes
  FirstEntries <- firstOffers
  Changing = {e1}
  MaxChanges = 2
  MaxDamage = 1
  Requests <- requests
  Trees <- trees
  Unsupported = {17}
  Lower <- lowercase
  Slash = 2
  Description <- description
  Mismatched = {12}
  OtherFormat = {5}
  Movements <- movements
  MaxFaults = 1
SYMMETRY symmetry
INVARIANT CollisionsAreRejected
