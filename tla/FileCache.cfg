SPECIFICATION FairSpec
CONSTANTS
  Process = {p1}
  Url = {u1, u2}
  MaxVersion = 2
  LastDelay = 20
  MayBeKilled = FALSE
  MaySave = TRUE
INVARIANTS
  TypeOK
  ReturnsFetchedContent
  CacheIsWhole
  SavedIsReturned
PROPERTY CallsEnd
