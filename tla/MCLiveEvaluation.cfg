CONSTANTS
  RowCount = 3
  Workers = 2
  Configs = {c1, c2}
  Verdicts = {"pass", "fail"}
  Absent = Absent
  MaxFaults = 1
  MaxEdits = 1
SPECIFICATION FairSpec
INVARIANTS TypeOK ResendsAreFaults ReportsAreCheckpointed
PROPERTIES NeverResent Settles
