SPECIFICATION Spec
CONSTANTS
  Pools = {"PTA"}
  BackfillPools = {}
  Devices = {0}
  Addrs = {0, 1}
  Sizes = {1}
  StepFilter = FALSE
  DumpOutlivesTable = FALSE
  MaxAllocations = 2
  MaxFrees = 2
INVARIANTS
  ExitFlushes
CHECK_DEADLOCK FALSE
