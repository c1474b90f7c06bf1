SPECIFICATION Spec
CHECK_DEADLOCK FALSE
CONSTANTS
  t1 = t1  t2 = t2  None = None
  s1 = s1  s2 = s2  s3 = s3
  Threads = {t1, t2}
  Series = {s1, s2, s3}
  TopK = 2  MaxSlots = 2  MaxRows = 2  MaxArchived = 1  WarmupBeats = 1
  MaxWindows = 2  MaxRequests = 5  MaxQueries = 1  MaxBeats = 4
  Plans <- StuckPlans
PROPERTY ExitEnds
