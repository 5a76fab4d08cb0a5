CONSTANTS
  r1 = r1
  r2 = r2
  r3 = r3
  v1 = v1
  v2 = v2
  Writers = {w1, w2}
  Reviews = {r1, r2, r3}
  VerdictOf <- MCVerdictOf
  Stamps = {1, 2}
  Absent = Absent
  MaxAppends = 2
SPECIFICATION Spec
INVARIANTS OneReviewPerVerdict
CHECK_DEADLOCK FALSE
