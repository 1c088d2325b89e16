SPECIFICATION Spec
CONSTANTS
  Spelling <- MCSpelling
  Normalize <- MCNormalize
  linux = linux
  mac = mac
  pypi = pypi
  selfhosted = selfhosted
  Environment = {linux, mac}
  Sdist = Sdist
  Repos <- MCRepos
  Released <- MCReleased
  Releasable <- MCReleasable
  MaxVersion = 2
  Commands <- MCUnpinnedCommands
  MaxRuns = 1
INVARIANT PinnedOnly
CHECK_DEADLOCK FALSE
