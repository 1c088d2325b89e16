SPECIFICATION Spec
CONSTANTS
  foo1s = foo1s
  foo1w = foo1w
  foo2w = foo2w
  foo3h = foo3h
  Absent = Absent
  Empty = Empty
  Local = {foo1s, foo1w, foo2w}
  Hosted = {foo3h}
  Rank <- MCRank
  RawName <- MCRawName
  Version <- MCVersion
  Normalize <- MCNormalize
  License <- MCLicense
  LicenseKeys <- MCLicenseKeys
  LicenseFile <- MCLicenseFile
  Copyright <- MCCopyright
  Holder <- MCHolder
  NoticeText = {"thanks"}
  InitialAbouts <- MCInitialAbouts
  InitialNotice <- MCInitialNotice
  RemoteAbout <- MCRemoteAbout
  RemoteNotice <- MCRemoteNotice
  PkgInfo <- MCPkgInfo
  Page <- MCPage
  Rebuilt = {foo1w}
  MaxArchive = 2
  MaxRuns = 2
INVARIANTS
  TypeOK
  OnlyKeyMetadataMissing
  CuratedDataIsKept
  CompleteStaysAsItIs
  NoticeFileExists
  
  OwnCopyright
CHECK_DEADLOCK FALSE
