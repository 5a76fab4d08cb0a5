CONSTANTS
  good = good
  research = research
  bad = bad
  Absent = Absent
  Runners = {r1, r2}
  Settings = {s1}
  Approved = {s1}
  Bodies = {good, research, bad}
  Parse <- MCParse
  LocalFailures = {"credential_unavailable"}
  RemoteFailures = {"http_transient"}
  MaxCalls = 2
SPECIFICATION Spec
INVARIANTS SendOnce
CHECK_DEADLOCK FALSE
