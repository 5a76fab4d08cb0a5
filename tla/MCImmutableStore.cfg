CONSTANTS
  Publishers = {p1, p2, p3}
  Payloads = {a, b}
  Absent = Absent
  Partial = Partial
  MaxOrphans = 2
SPECIFICATION FairSpec
INVARIANT NoLeak
PROPERTIES CallsEnd Refinement
