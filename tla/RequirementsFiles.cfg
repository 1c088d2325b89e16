SPECIFICATION Spec
CONSTANTS
  Spelling <- MCSpelling
  Lower <- MCLower
  Normalize <- MCNormalize
  Version = {1, 2}
  Installable <- MCInstallable
  InitialMain <- MCInitialMain
  InitialDev <- MCInitialDev
INVARIANTS
  TypeOK
  DevExcludesMain
  FilesPinTheSite
  DevSurvivesFailure
