SPECIFICATION Spec
CONSTANTS
  Spelling <- MCSpelling
  Normalize <- MCNormalize
  linux = linux
  mac = mac
  pypi = pypi
  selfhosted = selfhosted
  Environment = {linux, mac}
  Sdist = Sdist
  Repos <- MCRepos
  Released <- MCSdistReleased
  Releasable <- MCNothing
  MaxVersion = 2
  Commands <- MCSdistCommands
  MaxRuns = 2
INVARIANT SdistOnlyNeverFails
CHECK_DEADLOCK FALSE
