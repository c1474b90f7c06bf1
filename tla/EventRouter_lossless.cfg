SPECIFICATION Spec
CONSTANTS
  Pools = {"HAL", "PTA"}
  BackfillPools = {"HAL"}
  Devices = {0}
  Addrs = {0, 1}
  Sizes = {1, 2}
  StepFilter = FALSE
  DumpOutlivesTable = TRUE
  MaxAllocations = 3
  MaxFrees = 2
INVARIANTS
  RecordedOnce
  TableIsHeld
  NoUnpromotedWhileTracing
PROPERTY ExitEnds
CHECK_DEADLOCK FALSE
