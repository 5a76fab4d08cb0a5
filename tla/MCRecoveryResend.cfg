CONSTANTS
  Episodes = {"e1", "e2"}
  LeafCount <- MCLeafCount
  Retryable = {"429"}
  FallbackCodes = {"429", "invalid"}
  OtherCodes = {"unknown"}
  LateCodes = {}
  NonPasses = {"fail"}
  Bucket <- MCBucket
  Parent = Parent
  Siblings = {sibling}
  Absent = Absent
  Samples = {2}
  MaxRuns = 1
  MaxTroubles = 2
SPECIFICATION Spec
INVARIANTS OnlySelectedResent
CONSTRAINTS FewTroubles History
CHECK_DEADLOCK FALSE
