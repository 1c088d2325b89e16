SPECIFICATION Spec
CONSTANTS
  Process = {p1, p2}
  Url = {u1}
  MaxVersion = 2
  LastDelay = 20
  MayBeKilled = TRUE
  MaySave = FALSE
INVARIANTS
  ForcedIsFresh
  BacksOff
