CONSTANTS
  HonestCount = 5
  RingCount = 3
  Agents = {0, 1, 2, 3, 4, 5, 6, 7}
  MinRings = {2, 3}
  Subjects = {0, 5, 6}
  Kinds = {"negative"}
  MaxCount = 2
  MaxReports = 2
SPECIFICATION FairSpec
INVARIANTS RingCaught HonestKept
PROPERTIES ReportsCountOnce Detection
CHECK_DEADLOCK FALSE
