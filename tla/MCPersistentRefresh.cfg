CONSTANTS
  c1 = c1  c2 = c2  p1 = p1  p2 = p2
  Clients = {c1, c2}
  Packages = {p1, p2}
  Need <- MCNeed
  Kinds <- MCKinds
  TTL = 1
  MaxTime = 2
  MaxVersion = 1
  MayFail = TRUE  MayDie = TRUE  MayDamage = TRUE
  NoClient = NoClient  NoView = NoView  Nothing = Nothing
SPECIFICATION FairSpec
INVARIANTS ForcedIsCurrent AnswersCoverTheRequest OnlineIsFresh
PROPERTIES LockedRefreshMovesForward EveryCallReturns
