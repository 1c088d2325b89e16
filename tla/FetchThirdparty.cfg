SPECIFICATION FairSpec
CONSTANTS
  Spelling <- MCSpelling
  Normalize <- MCNormalize
  linux = linux
  mac = mac
  pypi = pypi
  selfhosted = selfhosted
  Environment = {linux, mac}
  Sdist = Sdist
  Repos <- MCRepos
  Released <- MCReleased
  Releasable <- MCReleasable
  MaxVersion = 2
  Commands <- MCCommands
  MaxRuns = 2
INVARIANTS
  TypeOK
  DoneIsComplete
  FirstRepository
  OneVersion
  PagesAreFresh
PROPERTY RunsEnd
CHECK_DEADLOCK FALSE
