CONSTANTS
  RowCount = 2
  Workers = 2
  Configs = {c1}
  Verdicts = {"pass", "fail"}
  Absent = Absent
  MaxFaults = 1
  MaxEdits = 1
SPECIFICATION Spec
INVARIANTS JudgedOnce
