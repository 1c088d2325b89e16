SPECIFICATION Spec
CONSTANTS
  PlatformsByOs <- MCPlatformsByOs
  MacPlatforms <- MCMacPlatforms
  PythonMinors = {10, 11}
  FileName <- MCFileName
  Words <- MCWords
  Pieces <- MCPieces
  Dashed <- MCDashed
  Ordinal <- MCOrdinal
  Numbered <- MCNumbered
  Refused <- MCRefused
  Directories <- MCDirectories
  Changing <- MCChanging
  Rank <- MCRank
  MaxContent = 2
  MaxBuilds = 2
INVARIANTS
  TypeOK
  OneBuild
  PagesComplete
  PagesAreOwn
  WheelsAreServed
  LatestIsServed
PROPERTIES
  LinksLast
  WholePagesStay
CHECK_DEADLOCK FALSE
