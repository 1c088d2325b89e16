SPECIFICATION Spec
CONSTANTS
  PackageURLs <- MCSlashedPackageURLs
  Segment <- MCSegment
  Strings <- MCStrings
  Others <- MCOthers
  from_string <- MCFromString
  Unparsable = Unparsable
  Packaged = Packaged
  PackagedPurls <- MCPackagedPurls
  Requests <- MCRequests
  Rank <- MCRank
  None = None
  core_string = core_string
  not_a_purl = not_a_purl
  empty_list = empty_list
  c1 = c1
  c2 = c2
  v1 = v1
  d1 = d1
  d2 = d2
  Call = {c1, c2}
  Dir = {d1, d2}
  Validator = {v1}
INVARIANT ExactAnswers
