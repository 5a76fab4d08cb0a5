CONSTANTS
  Episodes = {"e1", "e2"}
  LeafCount <- MCLeafCount
  Retryable = {"402", "429"}
  FallbackCodes = {"429", "invalid"}
  OtherCodes = {"unknown"}
  LateCodes = {}
  NonPasses = {"fail"}
  Bucket <- MCBucket
  Parent = Parent
  Siblings = {sibling}
  Absent = Absent
  Samples = {2, 50}
  MaxRuns = 2
  MaxTroubles = 2
SPECIFICATION Spec
INVARIANTS TypeOK Covered OnlyNamedRetried PackagedIsDecided RecoveryKeepsPackaged StrongStands
CONSTRAINT FewTroubles
CHECK_DEADLOCK FALSE
