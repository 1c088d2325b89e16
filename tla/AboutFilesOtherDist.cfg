SPECIFICATION Spec
CONSTANTS
  foo1s = foo1s
  foo1w = foo1w
  foo2w = foo2w
  foo3h = foo3h
  Absent = Absent
  Empty = Empty
  Local = {foo1s, foo1w, foo2w}
  Hosted = {foo3h}
  Rank <- MCRank
  RawName <- MCRawName
  Version <- MCVersion
  Normalize <- MCNormalize
  License <- MCLicense
  LicenseKeys <- MCLicenseKeys
  LicenseFile <- MCLicenseFile
  Copyright <- MCCopyright
  Holder <- MCHolder
  NoticeText = {"thanks"}
  InitialAbouts <- MCWheelAbout
  InitialNotice <- MCInitialNotice
  RemoteAbout <- MCRemoteAbout
  RemoteNotice <- MCRemoteNotice
  PkgInfo <- MCPkgInfo
  Page <- MCPage
  Rebuilt = {}
  MaxArchive = 1
  MaxRuns = 1
INVARIANT OtherDistIsAsked
CHECK_DEADLOCK FALSE
