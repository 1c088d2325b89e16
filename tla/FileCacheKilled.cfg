SPECIFICATION Spec
CONSTANTS
  Process = {p1}
  Url = {u1}
  MaxVersion = 2
  LastDelay = 20
  MayBeKilled = TRUE
  MaySave = FALSE
INVARIANT ReturnsFetchedContent
