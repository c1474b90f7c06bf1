SPECIFICATION Spec
CONSTANTS
  Pools = {"HAL"}
  BackfillPools = {"HAL"}
  Devices = {0}
  Addrs = {0, 1, 2}
  Sizes = {1, 2}
  StepFilter = TRUE
  DumpOutlivesTable = TRUE
  MaxAllocations = 3
  MaxFrees = 2
INVARIANTS
  NothingLost
  RecordsAreWhole
  ExitFlushes
CHECK_DEADLOCK FALSE
