CONSTANTS
  good = good
  research = research
  bad = bad
  Absent = Absent
  Runners = {r1, r2}
  Settings = {s1, s2, s3}
  Approved = {s1, s2}
  Bodies = {good, research, bad}
  Parse <- MCParse
  LocalFailures = {"credential_unavailable"}
  RemoteFailures = {"http_transient"}
  MaxCalls = 3
SPECIFICATION FairSpec
INVARIANTS TypeOK EvidenceAgrees ReturnsOwnLeaf SendsBounded
PROPERTIES NoResend CallsEnd
CHECK_DEADLOCK FALSE
