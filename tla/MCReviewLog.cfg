CONSTANTS
  r1 = r1
  r2 = r2
  r3 = r3
  v1 = v1
  v2 = v2
  Writers = {w1, w2}
  Reviews = {r1, r2, r3}
  VerdictOf <- MCVerdictOf
  Stamps = {1, 2}
  Absent = Absent
  MaxAppends = 4
SPECIFICATION Spec
INVARIANTS TypeOK StaysReadable AcksAgree
CHECK_DEADLOCK FALSE
